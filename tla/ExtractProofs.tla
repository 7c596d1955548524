--------------------------- MODULE ExtractProofs ---------------------------
(***************************************************************************)
(* Theorems of OutputDir, for every set of names, contents, options and    *)
(* existing files and however many files are asked for, and of Extract,    *)
(* for every stream and every command line: parse_file gives file_write    *)
(* proper files only, so that what is proved of the directory under any    *)
(* caller holds of every run of tnef; and the files it gives are the       *)
(* attachments and the bodies of the stream (ExtractProps).                *)
(***************************************************************************)
EXTENDS ExtractProps, DataInduction

-----------------------------------------------------------------------------
(* The directory *)

(* The path file_write asks for is one munging can yield. *)
LEMMA PathForBase ==
  ASSUME NEW f \in File
  PROVE  PathFor(f) \in Base
BY OutputDirAssumption DEF PathFor, File

LEMMA ContentsType ==
  ASSUME NEW f \in File
  PROVE  Contents(f) \in Data
BY OutputDirAssumption DEF Contents, File

(* What file_write opens is a path and, unless it may overwrite, one that  *)
(* does not exist.                                                         *)
LEMMA TargetsFree ==
  ASSUME NEW f \in File, NEW t \in Targets(PathFor(f))
  PROVE  /\ t \in Path
         /\ ~opts.overwrite => t \notin DOMAIN fs
<1>1. PathFor(f) \in Base
  BY PathForBase
<1>2. CASE MustNumber(PathFor(f))
  <2>1. PICK n \in 1 .. MaxNumber :
          /\ find_free_number(PathFor(f), n)
          /\ t = Numbered[<<PathFor(f), n>>]
    BY <1>2 DEF Targets
  <2>2. <<PathFor(f), n>> \in Base \X (1 .. MaxNumber)
    BY <1>1
  <2>3. t \in Path
    BY <2>1, <2>2, OutputDirAssumption
  <2> QED
    BY <2>1, <2>3 DEF find_free_number, file_exists
<1>3. CASE ~MustNumber(PathFor(f))
  BY <1>1, <1>3, OutputDirAssumption DEF Targets, file_exists
<1> QED
  BY <1>2, <1>3

-----------------------------------------------------------------------------
(* The three things a call of file_write can do *)

(* Nothing: the process ended instead. *)
Nothing ==
  /\ UNCHANGED <<opts, fs, log>>
  /\ status' \in Statuses

(* Record that no file was created. *)
Skipped(f, src) ==
  /\ UNCHANGED <<opts, fs, status>>
  /\ \E how \in {"listed", "declined", "refused"} :
        /\ how = "refused" => ~opts.numbered
        /\ Record(f, src, how, NULL)

(* Create or overwrite one file. *)
Wrote(f, src) ==
  /\ UNCHANGED opts
  /\ ~opts.list
  /\ status' \in Statuses
  /\ \E t \in Path, how \in {"stored", "torn"} :
        /\ ~opts.overwrite => t \notin DOMAIN fs
        /\ fs' = Put(t, IF how = "stored" THEN Contents(f) ELSE Torn)
        /\ Record(f, src, how, t)

LEMMA Effects ==
  ASSUME DirTypeOK, NEW f \in File, NEW src \in Sources, file_write(f, src)
  PROVE  Nothing \/ Skipped(f, src) \/ Wrote(f, src)
<1>1. UNCHANGED opts
  BY DEF file_write
<1>2. status \in Statuses
  BY DEF DirTypeOK
<1>3. CASE Listed(f, src)
  BY <1>1, <1>3 DEF Listed, Skipped
<1>4. CASE ListingAborts(f, src)
  BY <1>1, <1>4 DEF ListingAborts, Nothing, Statuses
<1>5. CASE Declined(f, src)
  BY <1>1, <1>5 DEF Declined, Skipped
<1>6. CASE Refused(f, src)
  BY <1>1, <1>6 DEF Refused, Skipped
<1>7. CASE Stored(f, src)
  <2>1. PICK t \in Targets(PathFor(f)) \ Unwritable :
          /\ fs' = Put(t, Contents(f))
          /\ Record(f, src, "stored", t)
    BY <1>7 DEF Stored
  <2>2. ~opts.list /\ status' \in Statuses
    BY <1>2, <1>7 DEF Stored
  <2> QED
    BY <1>1, <2>1, <2>2, TargetsFree DEF Wrote
<1>8. CASE NumberOverruns(f, src)
  BY <1>1, <1>8 DEF NumberOverruns, Nothing, Statuses
<1>9. CASE OpenFails(f, src)
  BY <1>1, <1>9 DEF OpenFails, Nothing, Statuses
<1>10. CASE WriteTorn(f, src)
  <2>1. PICK t \in Targets(PathFor(f)) \ Unwritable :
          /\ fs' = Put(t, Torn)
          /\ Record(f, src, "torn", t)
    BY <1>10 DEF WriteTorn
  <2>2. ~opts.list /\ status' \in Statuses
    BY <1>2, <1>10 DEF WriteTorn, Statuses
  <2> QED
    BY <1>1, <2>1, <2>2, TargetsFree DEF Wrote
<1>11. CASE PathOverLimit(f, src)
  BY <1>1, <1>11 DEF PathOverLimit, Nothing, Statuses
<1> QED
  BY <1>3, <1>4, <1>5, <1>6, <1>7, <1>8, <1>9, <1>10, <1>11 DEF file_write

-----------------------------------------------------------------------------
(* Types *)

LEMMA PutType ==
  ASSUME NEW t \in Path, NEW c \in Content, DirTypeOK, fs' = Put(t, c)
  PROVE  /\ DOMAIN fs' \subseteq Path
         /\ fs' \in [DOMAIN fs' -> Content]
         /\ DOMAIN fs' = DOMAIN fs \cup {t}
         /\ fs'[t] = c
         /\ \A p \in DOMAIN fs : p # t => fs'[p] = fs[p]
BY DEF DirTypeOK, Put

LEMMA WriteTyped ==
  ASSUME DirTypeOK, NEW f \in File, NEW src \in Sources, file_write(f, src)
  PROVE  DirTypeOK'
<1>1. CASE Nothing
  BY <1>1 DEF Nothing, DirTypeOK
<1>2. CASE Skipped(f, src)
  <2>1. PICK how \in {"listed", "declined", "refused"} :
          Record(f, src, how, NULL)
    BY <1>2 DEF Skipped
  <2>2. [src |-> src, file |-> f, how |-> how, at |-> NULL] \in Entry
    BY DEF Entry, Outcomes
  <2>3. log' \in Seq(Entry)
    BY <2>1, <2>2 DEF Record, DirTypeOK
  <2> QED
    BY <1>2, <2>3 DEF Skipped, DirTypeOK
<1>3. CASE Wrote(f, src)
  <2>1. PICK t \in Path, how \in {"stored", "torn"} :
          /\ fs' = Put(t, IF how = "stored" THEN Contents(f) ELSE Torn)
          /\ Record(f, src, how, t)
    BY <1>3 DEF Wrote
  <2>2. (IF how = "stored" THEN Contents(f) ELSE Torn) \in Content
    BY ContentsType DEF Content
  <2>3. DOMAIN fs' \subseteq Path /\ fs' \in [DOMAIN fs' -> Content]
    BY <2>1, <2>2, PutType
  <2>4. [src |-> src, file |-> f, how |-> how, at |-> t] \in Entry
    BY DEF Entry, Outcomes
  <2>5. log' \in Seq(Entry)
    BY <2>1, <2>4 DEF Record, DirTypeOK
  <2> QED
    BY <1>3, <2>3, <2>5 DEF Wrote, DirTypeOK
<1> QED
  BY <1>1, <1>2, <1>3, Effects

LEMMA InitTyped == DirInit => DirTypeOK
<1> SUFFICES ASSUME DirInit PROVE DirTypeOK
  OBVIOUS
<1>1. PICK S \in Existing : fs = [p \in S |-> Old]
  BY DEF DirInit
<1>2. S \subseteq Path
  BY OutputDirAssumption
<1> QED
  BY <1>1, <1>2 DEF DirInit, DirTypeOK, Content, Statuses

(* The directory, the history and the status keep their types. *)
THEOREM DirTyped == DirSpec => []DirTypeOK
<1>1. ASSUME DirTypeOK, [DirNext]_dirVars PROVE DirTypeOK'
  <2>1. CASE UNCHANGED dirVars
    BY <1>1, <2>1 DEF dirVars, DirTypeOK
  <2>2. CASE \E how \in Statuses \ {"running"} : Ends(how)
    BY <1>1, <2>2 DEF Ends, DirTypeOK
  <2>3. CASE \E f \in File, src \in Sources : file_write(f, src)
    BY <1>1, <2>3, WriteTyped
  <2> QED
    BY <1>1, <2>1, <2>2, <2>3 DEF DirNext
<1> QED
  BY <1>1, InitTyped, PTL DEF DirSpec

-----------------------------------------------------------------------------
(* Nothing is overwritten without leave *)

(* Without --overwrite file_write leaves every file that exists as it is:  *)
(* a numbered name is only opened when it was just found free.             *)
THEOREM DirKeepsFiles == DirSpec => NoClobber
<1> DEFINE Kept == ~opts.overwrite =>
             \A p \in DOMAIN fs : p \in DOMAIN fs' /\ fs'[p] = fs[p]
<1>1. ASSUME DirTypeOK, NEW f \in File, NEW src \in Sources, file_write(f, src)
      PROVE  Kept
  <2>1. CASE Nothing
    BY <2>1 DEF Nothing
  <2>2. CASE Skipped(f, src)
    BY <2>2 DEF Skipped
  <2>3. CASE Wrote(f, src)
    <3>1. PICK t \in Path, how \in {"stored", "torn"} :
            /\ ~opts.overwrite => t \notin DOMAIN fs
            /\ fs' = Put(t, IF how = "stored" THEN Contents(f) ELSE Torn)
      BY <2>3 DEF Wrote
    <3> QED
      BY <3>1 DEF Put
  <2> QED
    BY <1>1, <2>1, <2>2, <2>3, Effects
<1>2. ASSUME DirTypeOK, DirNext PROVE Kept
  <2>1. CASE \E how \in Statuses \ {"running"} : Ends(how)
    BY <2>1 DEF Ends
  <2> QED
    BY <1>1, <1>2, <2>1 DEF DirNext
<1>3. ASSUME DirTypeOK, [DirNext]_dirVars PROVE [Kept]_dirVars
  BY <1>2, <1>3
<1> QED
  BY <1>3, DirTyped, PTL DEF DirSpec, NoClobber

-----------------------------------------------------------------------------
(* The directory is what the history says *)

LEMMA AppendFacts ==
  ASSUME NEW e \in Entry, log \in Seq(Entry), log' = Append(log, e)
  PROVE  /\ Len(log) \in Nat
         /\ DOMAIN log' = DOMAIN log \cup {Len(log) + 1}
         /\ DOMAIN log = 1 .. Len(log)
         /\ log'[Len(log) + 1] = e
         /\ \A i \in DOMAIN log : log'[i] = log[i]
OBVIOUS

(* What a call that created no file, or one, adds to the history. *)
LEMMA SkippedHistory ==
  ASSUME DirTypeOK, NEW f \in File, NEW src \in Sources, Skipped(f, src)
  PROVE  /\ Writes' = Writes
         /\ \A i \in Writes : log'[i] = log[i] /\ WrittenBy(i)' = WrittenBy(i)
         /\ \A i \in DOMAIN log' : log'[i].how = "refused" =>
              ~opts.numbered \/ (i \in DOMAIN log /\ log[i].how = "refused")
<1>1. PICK how \in {"listed", "declined", "refused"} :
        (how = "refused" => ~opts.numbered) /\ Record(f, src, how, NULL)
  BY DEF Skipped
<1> DEFINE e == [src |-> src, file |-> f, how |-> how, at |-> NULL]
<1>2. e \in Entry /\ log' = Append(log, e) /\ log \in Seq(Entry)
  BY <1>1 DEF Record, Entry, Outcomes, DirTypeOK
<1>3. /\ DOMAIN log' = DOMAIN log \cup {Len(log) + 1}
      /\ DOMAIN log = 1 .. Len(log) /\ Len(log) \in Nat
      /\ log'[Len(log) + 1] = e
      /\ \A i \in DOMAIN log : log'[i] = log[i]
  <2> HIDE DEF e
  <2> QED BY <1>2, AppendFacts
<1>4. e.how = how /\ how \notin {"stored", "torn"}
  OBVIOUS
<1>5. Writes' = Writes
  BY <1>3, <1>4 DEF Writes
<1> QED
  BY <1>1, <1>3, <1>4, <1>5 DEF Writes, WrittenBy

LEMMA WroteHistory ==
  ASSUME DirTypeOK, NEW f \in File, NEW src \in Sources, Wrote(f, src)
  PROVE  \E t \in Path, n \in Nat :
           /\ ~opts.overwrite => t \notin DOMAIN fs
           /\ DOMAIN fs' = DOMAIN fs \cup {t}
           /\ \A p \in DOMAIN fs : p # t => fs'[p] = fs[p]
           /\ fs'[t] = WrittenBy(n)'
           /\ log'[n].at = t
           /\ Writes' = Writes \cup {n} /\ Writes \subseteq 1 .. n - 1
           /\ \A i \in Writes : log'[i] = log[i] /\ WrittenBy(i)' = WrittenBy(i)
           /\ \A i \in DOMAIN log' : log'[i].how = "refused" =>
                i \in DOMAIN log /\ log[i].how = "refused"
<1>1. PICK t \in Path, how \in {"stored", "torn"} :
        /\ ~opts.overwrite => t \notin DOMAIN fs
        /\ fs' = Put(t, IF how = "stored" THEN Contents(f) ELSE Torn)
        /\ Record(f, src, how, t)
  BY DEF Wrote
<1> DEFINE e == [src |-> src, file |-> f, how |-> how, at |-> t]
<1>n. PICK n \in Nat : n = Len(log) + 1
  BY DEF DirTypeOK
<1> DEFINE c == IF how = "stored" THEN Contents(f) ELSE Torn
<1>2. e \in Entry /\ log' = Append(log, e) /\ log \in Seq(Entry)
  BY <1>1 DEF Record, Entry, Outcomes, DirTypeOK
<1>3. /\ DOMAIN log' = DOMAIN log \cup {n}
      /\ DOMAIN log = 1 .. n - 1 /\ n \in Nat
      /\ log'[n] = e
      /\ \A i \in DOMAIN log : log'[i] = log[i]
  <2> HIDE DEF e
  <2> QED BY <1>2, <1>n, AppendFacts
<1>4. e.how = how /\ e.at = t /\ e.file = f
  OBVIOUS
<1> HIDE DEF e
<1>5. /\ DOMAIN fs' = DOMAIN fs \cup {t}
      /\ fs'[t] = c
      /\ \A p \in DOMAIN fs : p # t => fs'[p] = fs[p]
  BY <1>1, ContentsType, PutType DEF Content
<1>6. Writes' = Writes \cup {n} /\ Writes \subseteq 1 .. n - 1
  BY <1>3, <1>4 DEF Writes
<1>7. WrittenBy(n)' = c
  BY <1>3, <1>4 DEF WrittenBy, Contents
<1>8. \A i \in Writes : log'[i] = log[i] /\ WrittenBy(i)' = WrittenBy(i)
  BY <1>3, <1>6 DEF WrittenBy
<1>9. \A i \in DOMAIN log' : log'[i].how = "refused" =>
        i \in DOMAIN log /\ log[i].how = "refused"
  BY <1>3, <1>4
<1>10. fs'[t] = WrittenBy(n)' /\ log'[n].at = t
  BY <1>3, <1>4, <1>5, <1>7, Zenon
<1> QED
  <2> HIDE DEF c
  <2> QED
    BY <1>1, <1>3, <1>5, <1>6, <1>8, <1>9, <1>10, Zenon

(* A step of the directory preserves what relates it to the history. *)
LEMMA WriteExplained ==
  ASSUME DirTypeOK, DirExplained,
         NEW f \in File, NEW src \in Sources, file_write(f, src)
  PROVE  DirExplained'
<1>1. CASE Nothing
  BY <1>1 DEF Nothing, DirExplained, Writes, WrittenBy
<1>2. CASE Skipped(f, src)
  <2>1. /\ Writes' = Writes
        /\ \A i \in Writes : log'[i] = log[i] /\ WrittenBy(i)' = WrittenBy(i)
    BY <1>2, SkippedHistory
  <2>2. fs' = fs /\ opts' = opts
    BY <1>2 DEF Skipped
  <2> QED
    BY <2>1, <2>2 DEF DirExplained
<1>3. CASE Wrote(f, src)
  <2>1. PICK t \in Path, n \in Nat :
          /\ DOMAIN fs' = DOMAIN fs \cup {t}
          /\ \A p \in DOMAIN fs : p # t => fs'[p] = fs[p]
          /\ fs'[t] = WrittenBy(n)'
          /\ log'[n].at = t
          /\ Writes' = Writes \cup {n} /\ Writes \subseteq 1 .. n - 1
          /\ \A i \in Writes : log'[i] = log[i] /\ WrittenBy(i)' = WrittenBy(i)
    BY <1>3, WroteHistory
  <2> DEFINE W(p) == {i \in Writes : log[i].at = p}
  <2> DEFINE Explained(p) ==
        IF W(p) = {} THEN fs[p] = Old
        ELSE \E i \in W(p) : (\A j \in W(p) : j <= i) /\ fs[p] = WrittenBy(i)
  <2>2. \A p \in DOMAIN fs : Explained(p)
    BY DEF DirExplained
  <2>3. Explained(t)'
    <3>1. n \in W(t)'
      BY <2>1
    <3>2. ASSUME NEW j \in W(t)' PROVE j <= n
      <4>1. j = n \/ j \in 1 .. n - 1
        BY <2>1
      <4> QED
        BY <4>1
    <3> QED
      BY <2>1, <3>1, <3>2
  <2>4. ASSUME NEW p \in DOMAIN fs, p # t PROVE Explained(p)'
    <3>1. W(p)' = W(p) /\ fs'[p] = fs[p]
      BY <2>1, <2>4
    <3>2. \A i \in W(p) : WrittenBy(i)' = WrittenBy(i)
      BY <2>1
    <3> QED
      BY <2>2, <3>1, <3>2
  <2>5. \A i \in Writes' : log'[i].at \in DOMAIN fs'
    BY <2>1 DEF DirExplained
  <2>6. ~opts'.list
    BY <1>3 DEF Wrote
  <2>7. \A p \in DOMAIN fs' : Explained(p)'
    BY <2>1, <2>3, <2>4
  <2> QED
    BY <2>5, <2>6, <2>7 DEF DirExplained
<1> QED
  BY <1>1, <1>2, <1>3, Effects

LEMMA WriteNumbered ==
  ASSUME DirTypeOK, DirExplained, NumberedKeepsAll,
         NEW f \in File, NEW src \in Sources, file_write(f, src)
  PROVE  NumberedKeepsAll'
<1>1. CASE Nothing
  BY <1>1 DEF Nothing, NumberedKeepsAll, Writes, WrittenBy
<1>2. CASE Skipped(f, src)
  BY <1>2, SkippedHistory DEF Skipped, NumberedKeepsAll
<1>3. CASE Wrote(f, src)
  <2>1. PICK t \in Path, n \in Nat :
          /\ ~opts.overwrite => t \notin DOMAIN fs
          /\ \A p \in DOMAIN fs : p # t => fs'[p] = fs[p]
          /\ fs'[t] = WrittenBy(n)'
          /\ log'[n].at = t
          /\ Writes' = Writes \cup {n}
          /\ \A i \in Writes : log'[i] = log[i] /\ WrittenBy(i)' = WrittenBy(i)
          /\ \A i \in DOMAIN log' : log'[i].how = "refused" =>
               i \in DOMAIN log /\ log[i].how = "refused"
    BY <1>3, WroteHistory
  <2>2. opts' = opts
    BY <1>3 DEF Wrote
  <2>3. \A i \in Writes : log[i].at \in DOMAIN fs
    BY DEF DirExplained
  <2> QED
    BY <2>1, <2>2, <2>3 DEF NumberedKeepsAll
<1> QED
  BY <1>1, <1>2, <1>3, Effects

LEMMA InitHistory == DirInit => DirExplained /\ NumberedKeepsAll
<1> SUFFICES ASSUME DirInit PROVE DirExplained /\ NumberedKeepsAll
  OBVIOUS
<1>1. log = <<>> /\ \A p \in DOMAIN fs : fs[p] = Old
  BY DEF DirInit
<1>2. Writes = {} /\ DOMAIN log = {}
  BY <1>1 DEF Writes
<1> QED
  BY <1>1, <1>2 DEF DirExplained, NumberedKeepsAll

(* Each path holds what the history says was written there last, or what   *)
(* it held before the run.                                                 *)
THEOREM DirIsExplained == DirSpec => []DirExplained
<1>1. ASSUME DirTypeOK, DirExplained, [DirNext]_dirVars PROVE DirExplained'
  <2>1. CASE UNCHANGED dirVars
    BY <1>1, <2>1 DEF dirVars, DirExplained, Writes, WrittenBy
  <2>2. CASE \E how \in Statuses \ {"running"} : Ends(how)
    BY <1>1, <2>2 DEF Ends, DirExplained, Writes, WrittenBy
  <2>3. CASE \E f \in File, src \in Sources : file_write(f, src)
    BY <1>1, <2>3, WriteExplained
  <2> QED
    BY <1>1, <2>1, <2>2, <2>3 DEF DirNext
<1> QED
  BY <1>1, InitHistory, DirTyped, PTL DEF DirSpec

(* With --number-backups no file of the stream is lost to another of the   *)
(* same name, however many there are and whatever was there before.        *)
THEOREM DirKeepsAll == DirSpec => []NumberedKeepsAll
<1>1. ASSUME DirTypeOK, DirExplained, NumberedKeepsAll, [DirNext]_dirVars
      PROVE  NumberedKeepsAll'
  <2>1. CASE UNCHANGED dirVars
    BY <1>1, <2>1 DEF dirVars, NumberedKeepsAll, Writes, WrittenBy
  <2>2. CASE \E how \in Statuses \ {"running"} : Ends(how)
    BY <1>1, <2>2 DEF Ends, NumberedKeepsAll, Writes, WrittenBy
  <2>3. CASE \E f \in File, src \in Sources : file_write(f, src)
    BY <1>1, <2>3, WriteNumbered
  <2> QED
    BY <1>1, <2>1, <2>2, <2>3 DEF DirNext
<1> QED
  BY <1>1, InitHistory, DirTyped, DirIsExplained, PTL DEF DirSpec

-----------------------------------------------------------------------------
(* A run *)

(* The strengthening: parse_file never fills a File it does not have, and  *)
(* only walks a list it found.                                             *)
Filling ==
  /\ pc = "attProps" => file # NULL
  /\ \A i \in DOMAIN props : WellTyped(props[i])
  /\ pc = "files" => kind \in Kinds /\ body[kind] # NULL /\ bi < 3

IInv == TypeOK /\ Filling

(* A step that leaves the directory alone, ends the run or writes a file. *)
DirStep ==
  \/ UNCHANGED dirVars
  \/ \E how \in Statuses \ {"running"} : Ends(how)
  \/ \E f \in File, src \in Sources : file_write(f, src)

LEMMA DirStepTyped ==
  ASSUME DirTypeOK, DirStep
  PROVE  DirTypeOK'
<1>1. CASE UNCHANGED dirVars
  BY <1>1 DEF dirVars, DirTypeOK
<1>2. CASE \E how \in Statuses \ {"running"} : Ends(how)
  BY <1>2 DEF Ends, DirTypeOK
<1>3. CASE \E f \in File, src \in Sources : file_write(f, src)
  BY <1>3, WriteTyped
<1> QED
  BY <1>1, <1>2, <1>3 DEF DirStep

-----------------------------------------------------------------------------
(* The pieces actions are made of *)

(* Everything but the directory and the history of attributes. *)
Local ==
  /\ pc \in {"signature", "attr", "attProps", "msgProps", "last", "kind",
             "files"}
  /\ file \in File \cup {NULL}
  /\ props \in Seq(Prop)
  /\ body \in [Kinds -> Seq(Data \cup {Hole}) \cup {NULL}]
  /\ bi \in 0 .. 3 /\ bj \in Nat /\ kind \in Kinds \cup {NULL}
  /\ Filling

Read == input \in Seq(Attr) /\ Len(input) <= MaxAttrs

LEMMA IInvParts == IInv <=> DirTypeOK /\ Local /\ Read
BY DEF IInv, TypeOK, Local, Read

LEMMA StopsStep ==
  ASSUME Local, NEW how \in {"ok", "fail", "abort"}, Stops(how)
  PROVE  Local' /\ DirStep
<1>1. DirStep
  BY DEF Stops, DirStep, Statuses
<1>2. Local'
  BY DEF Stops, Local, Filling, bodyVars
<1> QED
  BY <1>1, <1>2

LEMMA GotoStep ==
  ASSUME Local, Goto("attr") \/ Goto("last")
  PROVE  Local' /\ DirStep
BY DEF Goto, Local, Filling, bodyVars, DirStep

LEMMA SetFileStep ==
  ASSUME Local, NEW f \in File, SetFile(f)
  PROVE  Local' /\ DirStep
<1>1. f # NULL
  BY ExtractAssumption
<1> QED
  BY <1>1 DEF SetFile, Local, Filling, bodyVars, DirStep

LEMMA IgnoredStep ==
  ASSUME Local, Ignored
  PROVE  Local' /\ DirStep
BY DEF Ignored, Local, Filling, bodyVars, DirStep

(* NULL is no File: an attachment that has begun is never taken for none. *)
LEMMA FreshFileType == FreshFile \in File /\ FreshFile # NULL
BY ExtractAssumption DEF FreshFile, File

LEMMA mapi_attr_readStep ==
  ASSUME Local, NEW a \in Attr, a.name \in {"ATTACHMENT", "MAPIPROPS"},
         NEW label \in {"attProps", "msgProps"},
         label = "attProps" => file # NULL,
         mapi_attr_read(a.value, label)
  PROVE  Local' /\ DirStep
<1>1. CASE Ignored
  BY <1>1, IgnoredStep
<1>2. CASE Stops("fail") \/ Stops("abort")
  BY <1>2, StopsStep
<1>3. CASE /\ a.value \notin {Malformed, Undecodable}
           /\ pc' = label
           /\ props' = a.value
           /\ UNCHANGED <<dirVars, file, body, bodyVars>>
  <2>1. a.value \in Seq(Prop)
    BY <1>3, ExtractAssumption DEF ValuesOf, PropList
  <2>2. \A i \in DOMAIN a.value : WellTyped(a.value[i])
    BY <1>3, ExtractAssumption
  <2> QED
    BY <1>3, <2>1, <2>2 DEF Local, Filling, bodyVars, DirStep
<1> QED
  BY <1>1, <1>2, <1>3 DEF mapi_attr_read

-----------------------------------------------------------------------------
(* The attributes *)

LEMMA BeginAttachmentStep ==
  ASSUME Local, NEW a \in Attr, BeginAttachment(a)
  PROVE  Local' /\ DirStep
<1>1. CASE /\ file # NULL
           /\ file_write(file, "attachment")
           /\ file' = FreshFile
           /\ UNCHANGED <<pc, props, body, bodyVars>>
  <2>1. DirStep
    BY <1>1 DEF Local, DirStep, Sources
  <2> QED
    BY <1>1, <2>1, FreshFileType DEF Local, Filling, bodyVars
<1>2. CASE SetFile(FreshFile)
  BY <1>2, FreshFileType, SetFileStep
<1>3. CASE Stops("fail")
  BY <1>3, StopsStep
<1> QED
  BY <1>1, <1>2, <1>3 DEF BeginAttachment

LEMMA file_add_attrStep ==
  ASSUME Local, NEW a \in Attr, file_add_attr(a)
  PROVE  Local' /\ DirStep
<1>1. CASE Stops("abort")
  BY <1>1, StopsStep
<1>2. CASE Ignored
  BY <1>2, IgnoredStep
<1>3. CASE /\ file # NULL /\ a.name = "ATTACHMENT"
           /\ mapi_attr_read(a.value, "attProps")
  BY <1>3, mapi_attr_readStep
<1>4. ASSUME file # NULL PROVE file \in File
  BY <1>4 DEF Local
<1>5. CASE /\ file # NULL /\ a.name = "MODIFYDATE" /\ a.value # Malformed
           /\ SetFile([file EXCEPT !.date = a.value])
  <2>1. a.value \in Date
    BY <1>5, ExtractAssumption DEF ValuesOf
  <2>2. [file EXCEPT !.date = a.value] \in File
    BY <1>4, <1>5, <2>1 DEF File
  <2> QED
    BY <1>5, <2>2, SetFileStep
<1>6. CASE /\ file # NULL /\ a.name = "TITLE"
           /\ SetFile([file EXCEPT !.name = a.value])
  <2>1. a.value \in Name
    BY <1>6, ExtractAssumption DEF ValuesOf
  <2>2. [file EXCEPT !.name = a.value] \in File
    BY <1>4, <1>6, <2>1 DEF File
  <2> QED
    BY <1>6, <2>2, SetFileStep
<1>7. CASE /\ file # NULL /\ a.name = "DATA"
           /\ SetFile([file EXCEPT !.data = a.value])
  <2>1. a.value \in Data
    BY <1>7, ExtractAssumption DEF ValuesOf
  <2>2. [file EXCEPT !.data = a.value] \in File
    BY <1>4, <1>7, <2>1 DEF File
  <2> QED
    BY <1>7, <2>2, SetFileStep
<1> QED
  BY <1>1, <1>2, <1>3, <1>5, <1>6, <1>7 DEF file_add_attr

LEMMA MessageAttrStep ==
  ASSUME Local, NEW a \in Attr, MessageAttr(a)
  PROVE  Local' /\ DirStep
<1>1. CASE Ignored
  BY <1>1, IgnoredStep
<1>2. CASE a.name = "MAPIPROPS" /\ mapi_attr_read(a.value, "msgProps")
  BY <1>2, mapi_attr_readStep
<1>3. CASE /\ a.name = "BODY"
           /\ body' = [body EXCEPT !["t"] = <<a.value>>]
           /\ UNCHANGED <<dirVars, pc, file, props, bodyVars>>
  <2>1. a.value \in Data
    BY <1>3, ExtractAssumption DEF ValuesOf
  <2>2. <<a.value>> \in Seq(Data \cup {Hole})
    BY <2>1
  <2>3. body' \in [Kinds -> Seq(Data \cup {Hole}) \cup {NULL}]
    BY <1>3, <2>2 DEF Local
  <2>4. \A k \in Kinds : body[k] # NULL => body'[k] # NULL
    BY <1>3, <2>2, ExtractAssumption DEF Local
  <2> QED
    BY <1>3, <2>3, <2>4 DEF Local, Filling, bodyVars, DirStep
<1> QED
  BY <1>1, <1>2, <1>3 DEF MessageAttr

LEMMA ReadAttrStep ==
  ASSUME Local, Read, NEW a \in Attr, ReadAttr(a)
  PROVE  Local' /\ Read' /\ DirStep
<1>1. CASE AttrRejected(a)
  BY <1>1, StopsStep DEF AttrRejected, Read
<1>2. CASE /\ input' = Append(input, a)
           /\ BeginAttachment(a) \/ file_add_attr(a) \/ MessageAttr(a)
  <2>1. Local' /\ DirStep
    BY <1>2, BeginAttachmentStep, file_add_attrStep, MessageAttrStep
  <2>2. Len(input) < MaxAttrs
    BY DEF ReadAttr
  <2>3. Read'
    BY <1>2, <2>2, ExtractAssumption DEF Read
  <2> QED
    BY <2>1, <2>3
<1> QED
  BY <1>1, <1>2 DEF ReadAttr

-----------------------------------------------------------------------------
(* The properties *)

LEMMA HeadTail ==
  ASSUME Local, props # <<>>
  PROVE  /\ Head(props) \in Prop /\ WellTyped(Head(props))
         /\ Tail(props) \in Seq(Prop)
         /\ \A i \in DOMAIN Tail(props) : WellTyped(Tail(props)[i])
<1>1. props \in Seq(Prop) /\ \A i \in DOMAIN props : WellTyped(props[i])
  BY DEF Local, Filling
<1>2. Head(props) = props[1] /\ 1 \in DOMAIN props
  BY <1>1
<1>3. \A i \in DOMAIN Tail(props) :
        i + 1 \in DOMAIN props /\ Tail(props)[i] = props[i + 1]
  BY <1>1
<1> QED
  BY <1>1, <1>2, <1>3

LEMMA SetFieldType ==
  ASSUME NEW f \in File, NEW p \in Prop, WellTyped(p),
         p.name \in DOMAIN PropType => p.type \in PropType[p.name]
  PROVE  SetField(f, p) \in File
<1>1. p.name \in DOMAIN PropType => p.values[1] \in PropRange[p.name]
  BY DEF WellTyped
<1>2. CASE p.name = "LONG_FILENAME"
  BY <1>1, <1>2 DEF PropType, PropRange, SetField, File
<1>3. CASE p.name = "DATA_OBJ"
  BY <1>1, <1>3 DEF PropType, PropRange, SetField, File
<1>4. CASE p.name = "MIME_TAG"
  BY <1>1, <1>4 DEF PropType, PropRange, SetField, File
<1>5. CASE p.name = "CONTENT_ID"
  BY <1>1, <1>5 DEF PropType, PropRange, SetField, File
<1> QED
  BY <1>2, <1>3, <1>4, <1>5 DEF SetField

LEMMA file_add_mapi_attrsStep ==
  ASSUME Local, file_add_mapi_attrs
  PROVE  Local' /\ DirStep
<1> DEFINE p == Head(props)
<1>1. pc = "attProps" /\ props # <<>>
  BY DEF file_add_mapi_attrs
<1>2. file \in File
  BY <1>1 DEF Local, Filling
<1>3. /\ p \in Prop /\ WellTyped(p) /\ Tail(props) \in Seq(Prop)
      /\ \A i \in DOMAIN Tail(props) : WellTyped(Tail(props)[i])
  BY <1>1, HeadTail
<1> HIDE DEF p
<1>4. CASE p.name \in DOMAIN PropType /\ p.type \notin PropType[p.name]
  BY <1>4, StopsStep DEF file_add_mapi_attrs, p
<1>5. CASE ~(p.name \in DOMAIN PropType /\ p.type \notin PropType[p.name])
  <2>1. /\ file' = SetField(file, p)
        /\ props' = Tail(props)
        /\ UNCHANGED <<dirVars, pc, body, bodyVars>>
    BY <1>5 DEF file_add_mapi_attrs, p
  <2>2. SetField(file, p) \in File
    BY <1>2, <1>3, <1>5, SetFieldType
  <2>3. SetField(file, p) # NULL
    BY <2>2, ExtractAssumption
  <2> QED
    BY <1>3, <2>1, <2>2, <2>3 DEF Local, Filling, bodyVars, DirStep
<1> QED
  BY <1>4, <1>5

LEMMA DecodedType ==
  ASSUME NEW p \in Prop, WellTyped(p), IsBody(p),
         \A i \in DOMAIN p.values : Decoded(p)[i] # Malformed
  PROVE  Decoded(p) \in Seq(Data \cup {Hole})
<1>1. p.values \in Seq(Name \cup Data \cup Tag)
  BY DEF Prop
<1>2. \A i \in DOMAIN p.values : p.values[i] \in Data
  BY DEF WellTyped, IsBody
<1>3. p.values \in Seq(Data)
  BY <1>1, <1>2
<1>4. CASE p.name = "RTF_COMPRESSED"
  <2>1. Decoded(p) = [i \in DOMAIN p.values |-> RtfDecode[p.values[i]]]
    BY <1>4 DEF Decoded
  <2>2. \A i \in DOMAIN p.values : RtfDecode[p.values[i]] \in Data \cup {Hole}
    <3>1. \A x \in Data : RtfDecode[x] \in Data \cup {Hole, Malformed}
      BY ExtractAssumption
    <3>2. \A i \in DOMAIN p.values : RtfDecode[p.values[i]] # Malformed
      BY <2>1
    <3> QED
      BY <1>2, <3>1, <3>2
  <2>3. DOMAIN p.values = 1 .. Len(p.values) /\ Len(p.values) \in Nat
    BY <1>3
  <2> QED
    BY <2>1, <2>2, <2>3
<1>5. CASE p.name # "RTF_COMPRESSED"
  <2>1. Decoded(p) = p.values
    BY <1>5 DEF Decoded
  <2> QED
    BY <1>3, <2>1
<1> QED
  BY <1>4, <1>5

LEMMA AddMessagePropStep ==
  ASSUME Local, AddMessageProp
  PROVE  Local' /\ DirStep
<1> DEFINE p == Head(props)
<1>1. pc = "msgProps" /\ props # <<>>
  BY DEF AddMessageProp
<1>2. /\ p \in Prop /\ WellTyped(p) /\ Tail(props) \in Seq(Prop)
      /\ \A i \in DOMAIN Tail(props) : WellTyped(Tail(props)[i])
  BY <1>1, HeadTail
<1> HIDE DEF p
<1>3. CASE Stops("fail") \/ Stops("abort")
  BY <1>3, StopsStep
<1>4. CASE /\ IsBody(p) => \A i \in DOMAIN p.values : Decoded(p)[i] # Malformed
           /\ body' = IF IsBody(p)
                      THEN [body EXCEPT ![BodyKind(p)] = Decoded(p)] ELSE body
           /\ props' = Tail(props)
           /\ UNCHANGED <<dirVars, pc, file, bodyVars>>
  <2>1. BodyKind(p) \in Kinds
    BY DEF BodyKind, Kinds
  <2>2. IsBody(p) => Decoded(p) \in Seq(Data \cup {Hole})
    BY <1>2, <1>4, DecodedType
  <2>3. body' \in [Kinds -> Seq(Data \cup {Hole}) \cup {NULL}]
    BY <1>4, <2>1, <2>2 DEF Local
  <2> QED
    BY <1>1, <1>2, <1>4, <2>3 DEF Local, Filling, bodyVars, DirStep
<1> QED
  BY <1>3, <1>4 DEF AddMessageProp, p

-----------------------------------------------------------------------------
(* After the stream *)

LEMMA WriteLastStep ==
  ASSUME Local, WriteLast
  PROVE  Local' /\ DirStep
<1>1. DirStep
  BY DEF WriteLast, Local, DirStep, Sources
<1>2. Local'
  BY DEF WriteLast, Local, Filling, bodyVars
<1> QED
  BY <1>1, <1>2

LEMMA NextKindStep ==
  ASSUME Local, NextKind
  PROVE  Local' /\ DirStep
<1>1. CASE Stops("fail")
  BY <1>1, StopsStep
<1>2. PICK k \in PrefChars(bi) :
        \/ /\ k \in Kinds /\ body[k] # NULL
           /\ kind' = k
           /\ bj' = 0
           /\ pc' = "files"
           /\ UNCHANGED <<dirVars, file, props, body, bi>>
        \/ /\ bi' = bi + 1
           /\ UNCHANGED <<dirVars, pc, file, props, body, bj, kind>>
        \/ Stops("fail")
  BY DEF NextKind
<1>3. pc = "kind" /\ bi < 3
  BY DEF NextKind
<1> QED
  BY <1>1, <1>2, <1>3 DEF Local, Filling, DirStep

LEMMA WriteBodyStep ==
  ASSUME Local, WriteBody
  PROVE  Local' /\ DirStep
<1>1. kind \in Kinds /\ body[kind] \in Seq(Data \cup {Hole})
  BY DEF WriteBody, Local, Filling
<1>2. body[kind][bj + 1] \in Data
  BY <1>1 DEF WriteBody, FileLeft
<1>3. PICK name \in Name, mime \in Tag : file_write(BodyFile(name, mime), kind)
  <2>1. BodyName[kind] \in Name /\ BodyMime[kind] \in Tag
    BY <1>1, ExtractAssumption
  <2> QED
    BY <2>1 DEF WriteBody
<1>4. BodyFile(name, mime) \in File
  BY <1>2 DEF BodyFile, FreshFile, File
<1>5. DirStep
  BY <1>1, <1>3, <1>4 DEF DirStep, Kinds, Sources
<1>6. Local'
  BY DEF WriteBody, Local, Filling
<1> QED
  BY <1>5, <1>6

LEMMA KindDoneStep ==
  ASSUME Local, KindDone
  PROVE  Local' /\ DirStep
BY DEF KindDone, Local, Filling, DirStep

-----------------------------------------------------------------------------
(* Every step *)

LEMMA NextStep ==
  ASSUME IInv, Next
  PROVE  IInv' /\ DirStep
<1>1. Local /\ Read /\ DirTypeOK
  BY IInvParts
<1>2. Local' /\ DirStep
  <2>1. CASE StartFile
    BY <1>1, <2>1, GotoStep, StopsStep DEF StartFile
  <2>2. CASE EndOfInput
    BY <1>1, <2>2, GotoStep DEF EndOfInput
  <2>3. CASE attr_read_fails
    BY <1>1, <2>3, StopsStep DEF attr_read_fails
  <2>4. CASE \E a \in Attr : ReadAttr(a)
    BY <1>1, <2>4, ReadAttrStep
  <2>5. CASE file_add_mapi_attrs
    BY <1>1, <2>5, file_add_mapi_attrsStep
  <2>6. CASE AddMessageProp
    BY <1>1, <2>6, AddMessagePropStep
  <2>7. CASE PropsDone
    BY <1>1, <2>7, GotoStep DEF PropsDone
  <2>8. CASE WriteLast
    BY <1>1, <2>8, WriteLastStep
  <2>9. CASE NextKind
    BY <1>1, <2>9, NextKindStep
  <2>10. CASE WriteBody
    BY <1>1, <2>10, WriteBodyStep
  <2>11. CASE NameFreedTwice
    BY <1>1, <2>11, StopsStep DEF NameFreedTwice
  <2>12. CASE KindDone
    BY <1>1, <2>12, KindDoneStep
  <2>13. CASE Return
    BY <1>1, <2>13, StopsStep DEF Return
  <2> QED
    BY <2>1, <2>2, <2>3, <2>4, <2>5, <2>6, <2>7, <2>8, <2>9, <2>10, <2>11,
       <2>12, <2>13 DEF Next
<1>3. Read'
  <2>1. CASE \E a \in Attr : ReadAttr(a)
    BY <1>1, <2>1, ReadAttrStep
  <2>2. CASE input' = input
    BY <1>1, <2>2 DEF Read
  <2> QED
    BY <2>1, <2>2 DEF Next, StartFile, EndOfInput, attr_read_fails,
       file_add_mapi_attrs, AddMessageProp, PropsDone, WriteLast, NextKind,
       WriteBody, NameFreedTwice, KindDone, Return
<1>4. DirTypeOK'
  BY <1>1, <1>2, DirStepTyped
<1> QED
  BY <1>2, <1>3, <1>4, IInvParts DEF IInv, TypeOK, Local, Read

LEMMA InitIInv == Init => IInv
<1> SUFFICES ASSUME Init PROVE IInv
  OBVIOUS
<1>1. DirTypeOK
  BY InitTyped DEF Init
<1>2. Local
  BY DEF Init, Local, Filling, Kinds
<1>3. Read
  BY ExtractAssumption DEF Init, Read
<1> QED
  BY <1>1, <1>2, <1>3, IInvParts

LEMMA Invariance == Spec => []IInv
<1>1. ASSUME IInv, [Next]_vars PROVE IInv'
  <2>1. CASE UNCHANGED vars
    BY <1>1, <2>1 DEF vars, dirVars, bodyVars, IInv, TypeOK, DirTypeOK, Filling
  <2> QED
    BY <1>1, <2>1, NextStep
<1> QED
  BY <1>1, InitIInv, PTL DEF Spec

(* Every variable keeps its type, for every stream and command line.       *)
THEOREM Typed == Spec => []TypeOK
BY Invariance, PTL DEF IInv

(* parse_file implements the directory: whatever the stream, files change  *)
(* only by file_write, one at a time, while the process runs.              *)
THEOREM Implements == Spec => DirSpec
<1>1. Init => DirInit
  BY DEF Init
<1>2. ASSUME IInv, [Next]_vars PROVE [DirNext]_dirVars
  <2>1. CASE UNCHANGED vars
    BY <2>1 DEF vars
  <2>2. CASE Next
    <3>1. DirStep
      BY <1>2, <2>2, NextStep
    <3>2. status = "running"
      BY <2>2 DEF Next
    <3> QED
      BY <3>1, <3>2 DEF DirStep, DirNext
  <2> QED
    BY <1>2, <2>1, <2>2
<1> QED
  BY <1>1, <1>2, Invariance, PTL DEF Spec, DirSpec

(* No run without --overwrite changes a file that exists. *)
THEOREM RunKeepsFiles == Spec => NoClobber
BY Implements, DirKeepsFiles, PTL

(* After every run the directory holds what the history says. *)
THEOREM RunIsExplained == Spec => []DirExplained
BY Implements, DirIsExplained, PTL

(* No run with --number-backups loses a file to another of its name. *)
THEOREM RunKeepsAll == Spec => []NumberedKeepsAll
BY Implements, DirKeepsAll, PTL

-----------------------------------------------------------------------------
(* Which attachment is which *)

Fields == {"name", "data", "date", "mime", "cid"}

(* The fields of a File object. *)
LEMMA FieldNames == DOMAIN FreshFile = Fields
BY DEF FreshFile, Fields

Rank(S, s) == Cardinality({t \in S : t <= s})

IsLast(S, s) == s \in S /\ \A t \in S : t <= s

(* Every number up to that of S is the rank of one. *)
Ranked(S) == \A k \in 1 .. Cardinality(S) : \E s \in S : Rank(S, s) = k

Finite(S) == S \in SUBSET Nat /\ IsFiniteSet(S)

(* Ranks count from one. *)
LEMMA RankRange ==
  ASSUME NEW S, Finite(S), NEW s \in S
  PROVE  Rank(S, s) \in 1 .. Cardinality(S) /\ Cardinality(S) \in Nat
<1> DEFINE T == {t \in S : t <= s}
<1>1. T \in SUBSET S /\ s \in T
  BY DEF Finite
<1>2. IsFiniteSet(T) /\ Cardinality(T) <= Cardinality(S)
  BY <1>1, FS_Subset DEF Finite
<1>3. Cardinality(T) \in Nat /\ Cardinality(S) \in Nat
  BY <1>2, FS_CardinalityType DEF Finite
<1>4. Cardinality(T) # 0
  BY <1>1, <1>2, FS_EmptySet
<1> QED
  BY <1>2, <1>3, <1>4 DEF Rank

(* No two are of one rank. *)
LEMMA RankApart ==
  ASSUME NEW S, Finite(S), NEW s \in S, NEW t \in S, Rank(S, s) = Rank(S, t)
  PROVE  s = t
<1> SUFFICES ASSUME NEW x \in S, NEW y \in S, x < y, Rank(S, x) = Rank(S, y)
             PROVE FALSE
  BY DEF Finite
<1> DEFINE X == {z \in S : z <= x}
<1> DEFINE Y == {z \in S : z <= y}
<1>1. x \in Nat /\ y \in Nat /\ S \subseteq Nat /\ IsFiniteSet(S)
  BY DEF Finite
<1>2. X \in SUBSET Y /\ y \in Y /\ y \notin X /\ Y \in SUBSET S
  <2>1. \A z \in S : z <= x => z <= y
    BY <1>1
  <2>2. y <= y /\ ~(y <= x)
    BY <1>1
  <2> QED
    BY <2>1, <2>2
<1>3. Cardinality(X) = Cardinality(Y)
  BY DEF Rank
<1> HIDE DEF X, Y
<1>4. IsFiniteSet(Y)
  BY <1>1, <1>2, FS_Subset
<1>5. X = Y
  BY <1>2, <1>3, <1>4, FS_Subset
<1> QED
  BY <1>2, <1>5

Nth(S, k) == CHOOSE z \in S : Rank(S, z) = k

(* A rank names one of the set. *)
LEMMA RankNames ==
  ASSUME NEW S, Finite(S), NEW s \in S, NEW k, Rank(S, s) = k
  PROVE  Nth(S, k) = s
<1>1. Nth(S, k) \in S /\ Rank(S, Nth(S, k)) = k
  BY Zenon DEF Nth
<1> QED
  BY <1>1, RankApart

(* The last one's rank is their number. *)
LEMMA LastRank ==
  ASSUME NEW S, NEW s, IsLast(S, s)
  PROVE  Rank(S, s) = Cardinality(S)
<1>1. {t \in S : t <= s} = S
  BY DEF IsLast
<1> QED
  BY <1>1 DEF Rank

(* One more at the end has the next rank and leaves the others theirs. *)
LEMMA RanksGrow ==
  ASSUME NEW m \in Nat, NEW S \in SUBSET (1 .. m - 1), Ranked(S)
  PROVE  /\ Finite(S) /\ Cardinality(S) \in Nat
         /\ Finite(S \cup {m}) /\ IsLast(S \cup {m}, m)
         /\ Cardinality(S \cup {m}) = Cardinality(S) + 1
         /\ \A s \in S : Rank(S \cup {m}, s) = Rank(S, s)
         /\ Ranked(S \cup {m})
<1> DEFINE T == S \cup {m}
<1>1. Finite(S) /\ Cardinality(S) \in Nat
  <2>1. IsFiniteSet(1 .. m - 1)
    BY FS_Interval
  <2>2. IsFiniteSet(S)
    BY <2>1, FS_Subset
  <2> QED
    BY <2>2, FS_CardinalityType DEF Finite
<1>2. Finite(T) /\ Cardinality(T) = Cardinality(S) + 1
  <2>1. m \notin S
    OBVIOUS
  <2> QED
    BY <1>1, <2>1, FS_AddElement DEF Finite
<1>3. IsLast(T, m)
  <2>1. \A t \in T : t \in Nat /\ t <= m
    OBVIOUS
  <2> QED
    BY <2>1 DEF IsLast
<1>4. ASSUME NEW s \in S PROVE Rank(T, s) = Rank(S, s)
  <2>1. ~(m <= s)
    OBVIOUS
  <2>2. {t \in T : t <= s} = {t \in S : t <= s}
    BY <2>1
  <2> QED
    BY <2>2 DEF Rank
<1>5. Rank(T, m) = Cardinality(T)
  BY <1>3, LastRank
<1> HIDE DEF T
<1>6. \A s \in S : s \in T
  BY DEF T
<1>7. ASSUME NEW k \in 1 .. Cardinality(T) PROVE \E s \in T : Rank(T, s) = k
  <2>1. CASE k = Cardinality(T)
    <3>1. m \in T
      BY DEF T
    <3> QED
      BY <1>5, <2>1, <3>1
  <2>2. CASE k # Cardinality(T)
    <3>1. k \in 1 .. Cardinality(S)
      BY <1>1, <1>2, <2>2
    <3>2. PICK s \in S : Rank(S, s) = k
      BY <3>1 DEF Ranked
    <3> QED
      BY <1>4, <1>6, <3>2
  <2> QED
    BY <2>1, <2>2
<1>8. Ranked(T)
  BY <1>7 DEF Ranked
<1> QED
  BY <1>1, <1>2, <1>3, <1>4, <1>8 DEF T

(* Unless it is empty, one is the last. *)
LEMMA LastExists ==
  ASSUME NEW n \in Nat, NEW S \in SUBSET (1 .. n), S # {}
  PROVE  \E s \in S : IsLast(S, s)
BY GreatestElement DEF IsLast

-----------------------------------------------------------------------------
(* One attribute more *)

(* The step reads a as the m-th attribute. *)
Grows(a, m) ==
  /\ m \in Nat \ {0}
  /\ DOMAIN input = 1 .. m - 1 /\ DOMAIN input' = 1 .. m
  /\ input'[m] = a
  /\ \A i \in 1 .. m - 1 : input'[i] = input[i]

(* An attribute read is the next. *)
LEMMA Grown ==
  ASSUME Read, NEW a \in Attr, input' = Append(input, a)
  PROVE  \E m \in Nat : Grows(a, m)
<1>1. PICK m \in Nat : m = Len(input) + 1
  BY DEF Read
<1>2. Grows(a, m)
  BY <1>1 DEF Read, Grows
<1> QED
  BY <1>2

(* The attachments begun so far. *)
LEMMA StartsBounded ==
  ASSUME Read
  PROVE  /\ Len(input) \in Nat /\ DOMAIN input = 1 .. Len(input)
         /\ Starts \in SUBSET (1 .. Len(input)) /\ Finite(Starts)
<1>1. /\ Len(input) \in Nat /\ DOMAIN input = 1 .. Len(input)
      /\ Starts \in SUBSET (1 .. Len(input))
  BY DEF Read, Starts
<1>2. IsFiniteSet(1 .. Len(input))
  BY <1>1, FS_Interval
<1>3. IsFiniteSet(Starts)
  BY <1>1, <1>2, FS_Subset
<1>4. Starts \in SUBSET Nat
  BY <1>1
<1> QED
  BY <1>1, <1>3, <1>4 DEF Finite

(* A RENDDATA begins an attachment, nothing else does. *)
LEMMA StartsGrow ==
  ASSUME NEW a, NEW m, Grows(a, m)
  PROVE  /\ Starts \in SUBSET (1 .. m - 1)
         /\ Starts' = IF a.name = "RENDDATA" THEN Starts \cup {m} ELSE Starts
<1>1. Starts \in SUBSET (1 .. m - 1)
  BY DEF Grows, Starts
<1>2. ASSUME NEW i \in 1 .. m - 1 PROVE i \in 1 .. m /\ i # m
  BY DEF Grows
<1>3. ASSUME NEW i \in 1 .. m PROVE i = m \/ i \in 1 .. m - 1
  BY DEF Grows
<1>4. m \in 1 .. m
  BY DEF Grows
<1> QED
  BY <1>1, <1>2, <1>3, <1>4 DEF Grows, Starts

(* The attributes before it say what they said. *)
LEMMA AssignsKept ==
  ASSUME NEW a, NEW m, Grows(a, m), NEW i \in 1 .. m - 1, NEW f
  PROVE  Assigns(i, f)' = Assigns(i, f) /\ Assigned(i, f)' = Assigned(i, f)
<1>1. input'[i] = input[i]
  BY DEF Grows
<1>2. IsAttrFor(i, f)' = IsAttrFor(i, f) /\ PropsFor(i, f)' = PropsFor(i, f)
  BY <1>1 DEF IsAttrFor, PropsFor, IsList
<1> QED
  BY <1>1, <1>2 DEF Assigns, Assigned

(* It belongs to the newest attachment, if to any. *)
LEMMA WithinGrows ==
  ASSUME NEW a, NEW m, Grows(a, m), NEW s \in Starts
  PROVE  /\ Within(s) \in SUBSET (1 .. m - 1)
         /\ Within(s)' =
              IF /\ a.lvl = "attachment" /\ a.name # "RENDDATA"
                 /\ IsLast(Starts, s)
              THEN Within(s) \cup {m} ELSE Within(s)
<1>1. Starts \in SUBSET (1 .. m - 1) /\ m \in Nat \ {0}
  BY StartsGrow DEF Grows
<1>2. Within(s) \in SUBSET (1 .. m - 1)
  BY DEF Grows, Within
<1>3. ASSUME NEW i \in 1 .. m - 1 PROVE i \in Within(s)' <=> i \in Within(s)
  <2>1. i \in 1 .. m /\ ~(m <= i)
    BY <1>1
  <2>2. /\ i \in DOMAIN input /\ i \in DOMAIN input' /\ input'[i] = input[i]
    BY <2>1 DEF Grows
  <2>3. m > i /\ \A t \in Starts' : t \in Starts \/ t = m
    BY <1>1, StartsGrow
  <2>4. \A t \in Starts : t \in Starts'
    BY StartsGrow
  <2>5. (\A t \in Starts' : t <= s \/ t > i)
           <=> (\A t \in Starts : t <= s \/ t > i)
    BY <2>3, <2>4
  <2> QED
    BY <2>2, <2>5 DEF Within
<1>4. m \in Within(s)' <=> /\ a.lvl = "attachment" /\ a.name # "RENDDATA"
                           /\ IsLast(Starts, s)
  <2>1. m \in DOMAIN input' /\ input'[m] = a /\ m > s
    BY <1>1 DEF Grows
  <2>2. CASE a.name = "RENDDATA"
    <3>1. m \in Starts' /\ ~(m <= s) /\ ~(m > m)
      BY <1>1, <2>2, StartsGrow
    <3> QED
      BY <2>2, <3>1 DEF Within
  <2>3. CASE a.name # "RENDDATA"
    <3>1. Starts' = Starts /\ \A t \in Starts : ~(t > m)
      BY <1>1, <2>3, StartsGrow
    <3> QED
      BY <2>1, <2>3, <3>1 DEF Within, IsLast
  <2> QED
    BY <2>2, <2>3
<1>5. \A i \in Within(s)' : i = m \/ i \in 1 .. m - 1
  BY DEF Grows, Within
<1> QED
  BY <1>2, <1>3, <1>4, <1>5

(* The field is as the attribute leaves it, or as it was. *)
LEMMA FieldGrows ==
  ASSUME NEW a, NEW m, Grows(a, m), NEW s \in Starts, NEW f
  PROVE  FieldAt(s, f)' =
           IF /\ a.lvl = "attachment" /\ a.name # "RENDDATA"
              /\ IsLast(Starts, s) /\ Assigns(m, f)'
           THEN Assigned(m, f)' ELSE FieldAt(s, f)
<1> DEFINE here == /\ a.lvl = "attachment" /\ a.name # "RENDDATA"
                   /\ IsLast(Starts, s) /\ Assigns(m, f)'
<1>1. PICK I : I = {i \in Within(s) : Assigns(i, f)}
  OBVIOUS
<1>2. PICK J : J = {i \in Within(s)' : Assigns(i, f)'}
  OBVIOUS
<1>3. I \in SUBSET (1 .. m - 1) /\ m \in Nat
  BY <1>1, WithinGrows DEF Grows
<1>4. J = IF here THEN I \cup {m} ELSE I
  <2>1. \A i \in Within(s) : i \in 1 .. m - 1
    BY WithinGrows
  <2>2. \A i \in Within(s) : Assigns(i, f)' = Assigns(i, f)
    BY <2>1, AssignsKept
  <2> QED
    BY <1>1, <1>2, <2>2, WithinGrows
<1>5. FieldAt(s, f) = IF I = {} THEN NULL ELSE Assigned(Max(I), f)
  BY <1>1 DEF FieldAt
<1>6. FieldAt(s, f)' = IF J = {} THEN NULL ELSE Assigned(Max(J), f)'
  BY <1>2 DEF FieldAt
<1>7. CASE here
  BY <1>3, <1>4, <1>6, <1>7, MaxGrows DEF Grows
<1>8. CASE ~here
  <2>1. J = I
    BY <1>4, <1>8
  <2>2. CASE I # {}
    <3>1. PICK x \in 1 .. m - 1 : x = Max(I)
      BY <1>3, <2>2, MaxGrows DEF Grows
    <3>2. Assigned(x, f)' = Assigned(x, f)
      BY AssignsKept
    <3> QED
      BY <1>5, <1>6, <1>8, <2>1, <2>2, <3>1, <3>2
  <2> QED
    BY <1>5, <1>6, <1>8, <2>1, <2>2
<1> QED
  BY <1>7, <1>8

(* An attachment that has just begun has no fields. *)
LEMMA FreshField ==
  ASSUME NEW a, NEW m, Grows(a, m), a.name = "RENDDATA", NEW f
  PROVE  FieldAt(m, f)' = NULL
<1>1. \A i \in DOMAIN input' : ~(i > m)
  BY DEF Grows
<1>2. Within(m)' = {}
  BY <1>1 DEF Within
<1> QED
  BY <1>2 DEF FieldAt

(* An attachment that is not the newest is what it was, the newest too if  *)
(* the attribute begins another or says nothing of it.                     *)
LEMMA AttachmentKept ==
  ASSUME NEW a, NEW m, Grows(a, m), NEW s \in Starts,
         a.name = "RENDDATA" \/ ~IsLast(Starts, s)
  PROVE  AttachmentAt(s)' = AttachmentAt(s)
<1>1. \A f : FieldAt(s, f)' = FieldAt(s, f)
  BY FieldGrows
<1> QED
  BY <1>1 DEF AttachmentAt

-----------------------------------------------------------------------------
(* What a list of properties leaves in a field *)

NamedFor(ps, f) ==
  {n \in DOMAIN ps : f \in DOMAIN PropOf /\ ps[n].name = PropOf[f]}

Left(ps, f, x) ==
  IF NamedFor(ps, f) = {} THEN x ELSE ps[Max(NamedFor(ps, f))].values[1]

(* An empty list leaves it as it is. *)
LEMMA LeftNone ==
  ASSUME NEW f, NEW x
  PROVE  Left(<<>>, f, x) = x
<1>1. NamedFor(<<>>, f) = {}
  BY DEF NamedFor
<1> QED
  BY <1>1 DEF Left

(* The first property, and then the others. *)
LEMMA LeftFirst ==
  ASSUME NEW ps \in Seq(Prop), ps # <<>>, NEW f, NEW x, NEW y,
         y = IF f \in DOMAIN PropOf /\ Head(ps).name = PropOf[f]
             THEN Head(ps).values[1] ELSE x
  PROVE  Left(ps, f, x) = Left(Tail(ps), f, y)
<1>1. /\ Len(ps) \in Nat \ {0} /\ DOMAIN ps = 1 .. Len(ps)
      /\ Head(ps) = ps[1]
      /\ DOMAIN Tail(ps) = 1 .. Len(ps) - 1
      /\ \A i \in 1 .. Len(ps) - 1 : Tail(ps)[i] = ps[i + 1]
  OBVIOUS
<1>2. PICK n \in Nat \ {0} : n = Len(ps)
  BY <1>1
<1>3. PICK ts : ts = Tail(ps)
  OBVIOUS
<1>4. PICK I : I = NamedFor(ps, f)
  OBVIOUS
<1>5. PICK J : J = NamedFor(ts, f)
  OBVIOUS
<1>6. /\ I \in SUBSET (1 .. n) /\ J \in SUBSET (1 .. n - 1)
      /\ 1 \in I <=> f \in DOMAIN PropOf /\ ps[1].name = PropOf[f]
  BY <1>1, <1>2, <1>3, <1>4, <1>5 DEF NamedFor
<1>7. \A j \in 1 .. n - 1 : ts[j] = ps[j + 1] /\ j + 1 \in 1 .. n
  BY <1>1, <1>2, <1>3
<1>8. \A j \in 1 .. n - 1 : j \in J <=> j + 1 \in I
  BY <1>1, <1>2, <1>3, <1>4, <1>5, <1>7 DEF NamedFor
<1>9. y = IF 1 \in I THEN ps[1].values[1] ELSE x
  BY <1>1, <1>6
<1>12. PlacesOf(n, I, J)
  BY <1>6, <1>8, TailMax, Zenon
<1>10. CASE J = {}
  BY <1>3, <1>4, <1>5, <1>9, <1>10, <1>12 DEF Left, PlacesOf
<1>11. CASE J # {}
  <2>1. I # {} /\ Max(J) \in 1 .. n - 1 /\ Max(I) = Max(J) + 1
    BY <1>11, <1>12 DEF PlacesOf
  <2>2. ts[Max(J)] = ps[Max(I)]
    BY <1>7, <2>1
  <2> QED
    BY <1>3, <1>4, <1>5, <1>11, <2>1, <2>2 DEF Left
<1> QED
  BY <1>10, <1>11

(* SetField is what the property assigns. *)
LEMMA SetFieldSets ==
  ASSUME NEW x \in File, NEW p \in Prop, NEW f \in Fields
  PROVE  SetField(x, p)[f] = IF f \in DOMAIN PropOf /\ p.name = PropOf[f]
                             THEN p.values[1] ELSE x[f]
<1>1. CASE f = "name"
  BY <1>1 DEF SetField, PropOf, File
<1>2. CASE f = "data"
  BY <1>2 DEF SetField, PropOf, File
<1>3. CASE f = "date"
  BY <1>3 DEF SetField, PropOf, File
<1>4. CASE f = "mime"
  BY <1>4 DEF SetField, PropOf, File
<1>5. CASE f = "cid"
  BY <1>5 DEF SetField, PropOf, File
<1> QED
  BY <1>1, <1>2, <1>3, <1>4, <1>5 DEF Fields

-----------------------------------------------------------------------------
(* The attachments handed over *)

Pending == IF pc = "attProps" THEN props ELSE <<>>

(* The File object, with the properties not yet applied to it, has the     *)
(* fields of the newest attachment.                                        *)
Gathered ==
  \A s \in Starts : IsLast(Starts, s) =>
    \A f \in Fields : FieldAt(s, f) = Left(Pending, f, file[f])

(* The first d attachments were handed over, each as it is in the stream.  *)
Finished(d) ==
  /\ d \in 0 .. Cardinality(Starts) /\ Done = 1 .. d
  /\ \A k \in 1 .. d : log[k].file = AttachmentAt(NthStart(k))

(* How many that are, and which is being gathered. *)
Stage(d) ==
  /\ status = "ok" => d = Cardinality(Starts)
  /\ status = "running" =>
       IF pc \in {"kind", "files"} THEN d = Cardinality(Starts)
       ELSE /\ d = Len(log)
            /\ file = NULL => Starts = {}
            /\ file # NULL => d + 1 = Cardinality(Starts) /\ Gathered

InOrder == Ranked(Starts) /\ \E d \in Nat : Finished(d) /\ Stage(d)

(* A call of file_write leaves its record or ends the run. *)
LEMMA Completes ==
  ASSUME NEW x, NEW src, file_write(x, src), status = "running"
  PROVE  \/ log' = log /\ status' \in {"fail", "abort"}
         \/ /\ \E how, at : log' = Append(log, [src |-> src, file |-> x,
                                               how |-> how, at |-> at])
            /\ status' \in {"running", "fail"}
<1>1. CASE Listed(x, src) \/ Declined(x, src) \/ Refused(x, src)
  BY <1>1 DEF Listed, Declined, Refused, Record
<1>2. CASE ListingAborts(x, src) \/ NumberOverruns(x, src)
             \/ OpenFails(x, src) \/ PathOverLimit(x, src)
  BY <1>2 DEF ListingAborts, NumberOverruns, OpenFails, PathOverLimit
<1>3. CASE Stored(x, src)
  BY <1>3 DEF Stored, Record
<1>4. CASE WriteTorn(x, src)
  BY <1>4 DEF WriteTorn, Record
<1> QED
  BY <1>1, <1>2, <1>3, <1>4 DEF file_write

(* What the attributes say does not change while none is read. *)
LEMMA SameInput ==
  ASSUME input' = input
  PROVE  /\ Starts' = Starts
         /\ \A k : NthStart(k)' = NthStart(k)
         /\ \A s, f : FieldAt(s, f)' = FieldAt(s, f)
         /\ \A s : AttachmentAt(s)' = AttachmentAt(s)
<1>1. Starts' = Starts
  BY DEF Starts
<1>2. \A k : NthStart(k)' = NthStart(k)
  BY <1>1 DEF NthStart
<1>3. \A s : Within(s)' = Within(s)
  BY <1>1 DEF Within
<1>4. \A i, f : IsAttrFor(i, f)' = IsAttrFor(i, f)
  BY DEF IsAttrFor
<1>5. \A i, f : PropsFor(i, f)' = PropsFor(i, f)
  BY DEF PropsFor, IsList
<1>6. \A i, f : /\ Assigns(i, f)' = Assigns(i, f)
                /\ Assigned(i, f)' = Assigned(i, f)
  BY <1>4, <1>5 DEF Assigns, Assigned
<1>7. \A s, f : FieldAt(s, f)' = FieldAt(s, f)
  BY <1>3, <1>6 DEF FieldAt
<1> QED
  BY <1>1, <1>2, <1>7 DEF AttachmentAt

(* Nothing is handed over, and none begins. *)
LEMMA FinishedStays ==
  ASSUME NEW d, Finished(d), input' = input,
         log' = log \/ (Done' = Done /\ \A k \in Done : log'[k] = log[k])
  PROVE  Finished(d)'
<1>1. Done' = Done /\ \A k \in Done : log'[k] = log[k]
  BY DEF Done
<1> QED
  BY <1>1, SameInput DEF Finished

(* The newest is handed over. *)
LEMMA OneMoreDone ==
  ASSUME log \in Seq(Entry), NEW d \in Nat, d = Len(log), Done = 1 .. d,
         NEW e, log' = Append(log, e), e.src = "attachment"
  PROVE  /\ Done' = 1 .. d + 1 /\ Len(log') = d + 1
         /\ log'[d + 1] = e /\ \A k \in 1 .. d : log'[k] = log[k]
<1>1. /\ DOMAIN log = 1 .. d /\ DOMAIN log' = 1 .. d + 1 /\ Len(log') = d + 1
      /\ log'[d + 1] = e /\ \A k \in 1 .. d : log'[k] = log[k]
  OBVIOUS
<1>2. \A k \in 1 .. d + 1 : k \in 1 .. d \/ k = d + 1
  OBVIOUS
<1>3. \A k \in 1 .. d : log[k].src = "attachment"
  BY DEF Done
<1>4. \A k \in 1 .. d + 1 : log'[k].src = "attachment"
  BY <1>1, <1>2, <1>3
<1> QED
  BY <1>1, <1>4 DEF Done

(* A body is not an attachment. *)
LEMMA OtherDone ==
  ASSUME log \in Seq(Entry), NEW e, log' = Append(log, e),
         e.src # "attachment"
  PROVE  Done' = Done /\ \A k \in Done : log'[k] = log[k]
<1>1. PICK n \in Nat : n = Len(log)
  OBVIOUS
<1>2. /\ DOMAIN log = 1 .. n /\ DOMAIN log' = 1 .. n + 1
      /\ log'[n + 1] = e /\ \A k \in 1 .. n : log'[k] = log[k]
  BY <1>1
<1>3. \A k \in 1 .. n + 1 : k \in 1 .. n \/ k = n + 1
  OBVIOUS
<1>4. \A k \in 1 .. n : k \in 1 .. n + 1
  OBVIOUS
<1> QED
  BY <1>2, <1>3, <1>4 DEF Done

(* The attachments begun keep their numbers. *)
LEMMA NthGrows ==
  ASSUME Read, NEW a, NEW m, Grows(a, m), Ranked(Starts)
  PROVE  /\ Ranked(Starts') /\ Cardinality(Starts) \in Nat
         /\ Cardinality(Starts') = IF a.name = "RENDDATA"
                                   THEN Cardinality(Starts) + 1
                                   ELSE Cardinality(Starts)
         /\ a.name = "RENDDATA" => IsLast(Starts', m)
         /\ \A k \in 1 .. Cardinality(Starts) : \E s \in Starts :
              /\ NthStart(k) = s /\ NthStart(k)' = s
              /\ IsLast(Starts, s) => k = Cardinality(Starts)
<1>1. PICK S : S = Starts
  OBVIOUS
<1>2. PICK T : T = Starts'
  OBVIOUS
<1>3. /\ m \in Nat /\ S \in SUBSET (1 .. m - 1) /\ Ranked(S)
      /\ T = IF a.name = "RENDDATA" THEN S \cup {m} ELSE S
  BY <1>1, <1>2, StartsGrow DEF Grows
<1>4. /\ Finite(S) /\ Cardinality(S) \in Nat
      /\ Finite(S \cup {m}) /\ IsLast(S \cup {m}, m)
      /\ Cardinality(S \cup {m}) = Cardinality(S) + 1
      /\ \A s \in S : Rank(S \cup {m}, s) = Rank(S, s)
      /\ Ranked(S \cup {m})
  BY <1>3, RanksGrow
<1>5. Finite(T) /\ Ranked(T) /\ \A s \in S : s \in T /\ Rank(T, s) = Rank(S, s)
  BY <1>3, <1>4
<1>6. ASSUME NEW k \in 1 .. Cardinality(S)
      PROVE  \E s \in S : /\ NthStart(k) = s /\ NthStart(k)' = s
                          /\ IsLast(S, s) => k = Cardinality(S)
  <2>1. PICK s \in S : Rank(S, s) = k
    BY <1>3 DEF Ranked
  <2>2. Nth(S, k) = s
    BY <1>4, <2>1, RankNames
  <2>3. Nth(T, k) = s
    BY <1>5, <2>1, RankNames
  <2>4. NthStart(k) = s
    BY <1>1, <2>2 DEF NthStart, Nth, Rank
  <2>5. NthStart(k)' = s
    BY <1>2, <2>3 DEF NthStart, Nth, Rank
  <2> QED
    BY <2>1, <2>4, <2>5, LastRank
<1> QED
  BY <1>1, <1>2, <1>3, <1>4, <1>5, <1>6

(* No attribute changes what was handed over. *)
LEMMA FinishedGrows ==
  ASSUME Read, NEW a, NEW m, Grows(a, m), Ranked(Starts),
         NEW d \in Nat, Finished(d), log' = log,
         a.name = "RENDDATA" \/ d = 0 \/ d < Cardinality(Starts)
  PROVE  Finished(d)'
<1>1. /\ Cardinality(Starts) \in Nat
      /\ Cardinality(Starts')
           \in {Cardinality(Starts), Cardinality(Starts) + 1}
  BY NthGrows
<1>2. d \in 0 .. Cardinality(Starts)
  BY DEF Finished
<1>3. d \in 0 .. Cardinality(Starts')
  BY <1>1, <1>2
<1>4. ASSUME NEW k \in 1 .. d
      PROVE  log'[k].file = AttachmentAt(NthStart(k))'
  <2>1. k \in 1 .. Cardinality(Starts)
    BY <1>1, <1>2
  <2>2. PICK s \in Starts : /\ NthStart(k) = s /\ NthStart(k)' = s
                            /\ IsLast(Starts, s) => k = Cardinality(Starts)
    BY <2>1, NthGrows
  <2>3. a.name = "RENDDATA" \/ ~IsLast(Starts, s)
    BY <1>1, <2>2
  <2>4. AttachmentAt(s)' = AttachmentAt(s)
    BY <2>3, AttachmentKept
  <2>5. log[k].file = AttachmentAt(s)
    BY <2>2 DEF Finished
  <2>6. AttachmentAt(NthStart(k))' = AttachmentAt(s)'
    BY <2>2 DEF AttachmentAt
  <2> QED
    BY <2>4, <2>5, <2>6
<1>5. Done' = Done
  BY DEF Done
<1> QED
  BY <1>3, <1>4, <1>5 DEF Finished

(* Between the attributes the File object is the newest attachment. *)
LEMMA GatheredAll ==
  ASSUME Local, Gathered, file # NULL, Pending = <<>>,
         NEW s, IsLast(Starts, s)
  PROVE  file = AttachmentAt(s)
<1>1. file \in File
  BY DEF Local
<1>2. \A f \in Fields : FieldAt(s, f) = file[f]
  BY LeftNone DEF Gathered, IsLast
<1>3. AttachmentAt(s) = [f \in Fields |-> file[f]]
  BY <1>2, FieldNames DEF AttachmentAt
<1>4. file = [f \in Fields |-> file[f]]
  BY <1>1 DEF File, Fields
<1> QED
  BY <1>3, <1>4

(* A run that was stopped owes no more than it wrote. *)
LEMMA StopsInOrder ==
  ASSUME Ranked(Starts)', NEW d \in Nat, Finished(d)',
         status' \in {"fail", "abort"}
  PROVE  InOrder'
BY DEF InOrder, Stage

(* What an attribute read says of a field. *)
LEMMA AssignsWhat ==
  ASSUME NEW a, NEW m, Grows(a, m), NEW f
  PROVE  /\ Assigns(m, f)' <=>
              \/ f \in DOMAIN AttrOf /\ a.name = AttrOf[f]
              \/ /\ a.name = "ATTACHMENT" /\ NamedFor(a.value, f) # {}
                 /\ a.value \notin {Malformed, Undecodable}
         /\ Assigned(m, f)' =
              IF f \in DOMAIN AttrOf /\ a.name = AttrOf[f] THEN a.value
              ELSE a.value[Max(PropsFor(m, f)')].values[1]
         /\ a.name = "ATTACHMENT" /\ a.value \notin {Malformed, Undecodable}
              => PropsFor(m, f)' = NamedFor(a.value, f)
<1>1. input'[m] = a
  BY DEF Grows
<1>2. IsAttrFor(m, f)' <=> f \in DOMAIN AttrOf /\ a.name = AttrOf[f]
  BY <1>1 DEF IsAttrFor
<1>3. PropsFor(m, f)' =
        IF /\ a.name = "ATTACHMENT"
           /\ a.value \notin {Malformed, Undecodable}
        THEN NamedFor(a.value, f) ELSE {}
  <2>1. CASE a.name = "ATTACHMENT" /\ a.value \notin {Malformed, Undecodable}
    BY <1>1, <2>1 DEF PropsFor, IsList, NamedFor
  <2>2. CASE ~(a.name = "ATTACHMENT"
                 /\ a.value \notin {Malformed, Undecodable})
    BY <1>1, <2>2 DEF PropsFor, IsList
  <2> QED
    BY <2>1, <2>2
<1>4. Assigns(m, f)' <=> IsAttrFor(m, f)' \/ PropsFor(m, f)' # {}
  BY DEF Assigns
<1>5. Assigned(m, f)' = IF IsAttrFor(m, f)' THEN a.value
                        ELSE a.value[Max(PropsFor(m, f)')].values[1]
  BY <1>1 DEF Assigned
<1> QED
  BY <1>2, <1>3, <1>4, <1>5, Zenon

(* The newest is the one whose number is theirs. *)
LEMMA NthIsLast ==
  ASSUME Read, Ranked(Starts), NEW s \in Starts,
         NthStart(Cardinality(Starts)) = s
  PROVE  IsLast(Starts, s)
<1>1. PICK S : S = Starts
  OBVIOUS
<1>2. PICK n \in Nat : n = Len(input)
  BY StartsBounded
<1>3. S \in SUBSET (1 .. n) /\ Finite(S) /\ S # {}
  BY <1>1, <1>2, StartsBounded
<1>4. PICK t \in S : IsLast(S, t)
  BY <1>3, LastExists
<1>5. Nth(S, Cardinality(S)) = t
  BY <1>3, <1>4, LastRank, RankNames
<1>6. NthStart(Cardinality(S)) = t
  BY <1>1, <1>5 DEF NthStart, Nth, Rank
<1> QED
  BY <1>1, <1>4, <1>6

-----------------------------------------------------------------------------
(* The attributes, one by one *)

(* Where an attribute is read. *)
Reading(a, m, d) ==
  /\ Local /\ Read /\ DirTypeOK
  /\ pc = "attr" /\ status = "running"
  /\ Grows(a, m) /\ Ranked(Starts)
  /\ d \in Nat /\ Finished(d) /\ Stage(d)

(* What holds between two attributes. *)
LEMMA ReadingFacts ==
  ASSUME NEW a, NEW m, NEW d, Reading(a, m, d)
  PROVE  /\ d = Len(log) /\ Pending = <<>> /\ Ranked(Starts')
         /\ Cardinality(Starts) \in Nat
         /\ file = NULL => d = 0 /\ Starts = {}
         /\ file # NULL => /\ d + 1 = Cardinality(Starts) /\ Gathered
                           /\ d < Cardinality(Starts)
         /\ log' = log => Finished(d)'
<1>1. /\ d = Len(log) /\ Pending = <<>> /\ d \in Nat
      /\ file = NULL => Starts = {}
      /\ file # NULL => d + 1 = Cardinality(Starts) /\ Gathered
  BY DEF Reading, Stage, Pending
<1>2. Ranked(Starts') /\ Cardinality(Starts) \in Nat
  BY NthGrows DEF Reading
<1>3. file = NULL => d = 0
  <2>1. d \in 0 .. Cardinality(Starts) /\ Cardinality({}) = 0
    BY FS_EmptySet DEF Reading, Finished
  <2> QED
    BY <1>1, <2>1
<1>4. file # NULL => d < Cardinality(Starts)
  BY <1>1, <1>2
<1>5. log' = log => Finished(d)'
  BY <1>3, <1>4, FinishedGrows DEF Reading
<1> QED
  BY <1>1, <1>2, <1>3, <1>4, <1>5

(* A run that ends with an attribute has handed over what it had. *)
LEMMA ReadingStops ==
  ASSUME NEW a, NEW m, NEW d, Reading(a, m, d),
         NEW how \in {"fail", "abort"}, Stops(how)
  PROVE  InOrder'
<1>1. log' = log /\ status' \in {"fail", "abort"}
  BY DEF Stops, Ends
<1>2. Ranked(Starts)' /\ Finished(d)' /\ d \in Nat
  BY <1>1, ReadingFacts DEF Reading
<1> QED
  BY <1>1, <1>2, StopsInOrder

(* An attribute that is no RENDDATA leaves the File object as it should    *)
(* be, if it does so field by field.                                       *)
LEMMA ReadingOn ==
  ASSUME NEW a, NEW m, NEW d, Reading(a, m, d), a.name # "RENDDATA",
         UNCHANGED dirVars, pc' \notin {"kind", "files"},
         file' = NULL <=> file = NULL,
         file # NULL =>
           \A f \in Fields :
             (IF a.lvl = "attachment" /\ Assigns(m, f)'
              THEN Assigned(m, f)' ELSE file[f]) = Left(Pending', f, file'[f])
  PROVE  InOrder'
<1>1. log' = log /\ status' = "running"
  BY DEF dirVars, Reading
<1>2. Ranked(Starts') /\ Finished(d)' /\ d \in Nat /\ d = Len(log')
  BY <1>1, ReadingFacts DEF Reading
<1>3. Starts' = Starts /\ Cardinality(Starts') = Cardinality(Starts)
  BY StartsGrow DEF Reading
<1>4. ASSUME file # NULL PROVE Gathered'
  <2>1. SUFFICES ASSUME NEW s \in Starts, IsLast(Starts, s), NEW f \in Fields
                 PROVE  FieldAt(s, f)' = Left(Pending', f, file'[f])
    BY <1>3 DEF Gathered
  <2>2. FieldAt(s, f) = file[f]
    BY <1>4, <2>1, ReadingFacts, LeftNone DEF Gathered
  <2>3. FieldAt(s, f)' =
          IF a.lvl = "attachment" /\ a.name # "RENDDATA"
             /\ IsLast(Starts, s) /\ Assigns(m, f)'
          THEN Assigned(m, f)' ELSE FieldAt(s, f)
    BY <2>1, FieldGrows DEF Reading
  <2> QED
    BY <1>4, <2>1, <2>2, <2>3
<1>5. Stage(d)'
  BY <1>1, <1>2, <1>3, <1>4, ReadingFacts DEF Stage
<1> QED
  BY <1>2, <1>5 DEF InOrder

(* The attachment gathered so far is handed over as it is in the stream. *)
LEMMA BeginAttachmentInOrder ==
  ASSUME NEW a, NEW m, NEW d, Reading(a, m, d), BeginAttachment(a)
  PROVE  InOrder'
<1>1. a.name = "RENDDATA"
  BY DEF BeginAttachment
<1>2. /\ IsLast(Starts', m) /\ Starts' = Starts \cup {m} /\ m \in Nat
      /\ Cardinality(Starts') = Cardinality(Starts) + 1
      /\ Cardinality(Starts) \in Nat /\ Ranked(Starts') /\ d \in Nat
  BY <1>1, NthGrows, StartsGrow DEF Reading, Grows
<1>3. ASSUME file' = FreshFile, pc' = pc PROVE Gathered' /\ file' # NULL
  <2>1. Pending' = <<>> /\ file' # NULL
    BY <1>3, FreshFileType DEF Pending, Reading
  <2>2. SUFFICES ASSUME NEW s \in Starts', IsLast(Starts', s), NEW f \in Fields
                 PROVE  FieldAt(s, f)' = Left(Pending', f, file'[f])
    BY <2>1 DEF Gathered
  <2>3. s = m
    <3>1. s \in Nat /\ s <= m /\ m <= s
      BY <1>2, <2>2, StartsGrow DEF IsLast, Reading
    <3> QED
      BY <1>2, <3>1
  <2>4. FieldAt(s, f)' = NULL
    BY <1>1, <2>3, FreshField DEF Reading
  <2>5. file'[f] = NULL
    BY <1>3 DEF FreshFile, Fields
  <2> QED
    BY <2>1, <2>4, <2>5, LeftNone
<1>4. CASE file # NULL /\ file_write(file, "attachment")
             /\ file' = FreshFile /\ UNCHANGED <<pc, props, body, bodyVars>>
  <2>1. CASE log' = log /\ status' \in {"fail", "abort"}
    BY <1>2, <2>1, ReadingFacts, StopsInOrder
  <2>2. CASE /\ \E how, at : log' = Append(log, [src |-> "attachment",
                                  file |-> file, how |-> how, at |-> at])
             /\ status' \in {"running", "fail"}
    <3>1. PICK how, at : log' = Append(log, [src |-> "attachment",
                                  file |-> file, how |-> how, at |-> at])
      BY <2>2
    <3>2. PICK e : e = [src |-> "attachment", file |-> file, how |-> how,
                        at |-> at]
      OBVIOUS
    <3>3. /\ d = Len(log) /\ Done = 1 .. d /\ log \in Seq(Entry)
          /\ d + 1 = Cardinality(Starts) /\ Pending = <<>> /\ Gathered
      BY <1>4, ReadingFacts DEF Reading, Finished, DirTypeOK
    <3>4. /\ Done' = 1 .. d + 1 /\ Len(log') = d + 1
          /\ log'[d + 1] = e /\ \A k \in 1 .. d : log'[k] = log[k]
      BY <1>2, <3>1, <3>2, <3>3, OneMoreDone
    <3>5. ASSUME NEW k \in 1 .. d + 1
          PROVE  log'[k].file = AttachmentAt(NthStart(k))'
      <4>1. PICK s \in Starts : /\ NthStart(k) = s /\ NthStart(k)' = s
                                /\ IsLast(Starts, s) => k = Cardinality(Starts)
        BY <3>3, NthGrows DEF Reading
      <4>2. AttachmentAt(NthStart(k))' = AttachmentAt(s)'
        BY <4>1 DEF AttachmentAt
      <4>3. AttachmentAt(s)' = AttachmentAt(s)
        BY <1>1, AttachmentKept DEF Reading
      <4>4. CASE k \in 1 .. d
        <5>1. log[k].file = AttachmentAt(s)
          BY <4>1, <4>4 DEF Reading, Finished
        <5> QED
          BY <3>4, <4>2, <4>3, <4>4, <5>1
      <4>5. CASE k = d + 1
        <5>1. IsLast(Starts, s)
          BY <3>3, <4>1, <4>5, NthIsLast DEF Reading
        <5>2. file = AttachmentAt(s)
          BY <1>4, <3>3, <5>1, GatheredAll DEF Reading
        <5> QED
          BY <3>2, <3>4, <4>2, <4>3, <4>5, <5>2
      <4> QED
        BY <1>2, <4>4, <4>5
    <3>6. Finished(d + 1)'
      BY <1>2, <3>3, <3>4, <3>5 DEF Finished
    <3>7. Stage(d + 1)'
      <4>1. d + 1 + 1 = Cardinality(Starts')
        BY <1>2, <3>3
      <4>2. Gathered' /\ file' # NULL /\ pc' = "attr"
        BY <1>3, <1>4 DEF Reading
      <4>3. status' # "ok" /\ d + 1 = Len(log')
        BY <2>2, <3>4
      <4> QED
        BY <4>1, <4>2, <4>3 DEF Stage
    <3> QED
      BY <1>2, <3>6, <3>7 DEF InOrder
  <2> QED
    BY <1>4, <2>1, <2>2, Completes DEF Reading
<1>5. CASE file = NULL /\ SetFile(FreshFile)
  <2>1. log' = log /\ status' = "running" /\ file' = FreshFile /\ pc' = pc
    BY <1>5 DEF SetFile, dirVars, Reading
  <2>2. d = Len(log') /\ Finished(d)' /\ d = 0 /\ Starts = {}
    BY <1>5, <2>1, ReadingFacts
  <2>3. d + 1 = Cardinality(Starts')
    BY <1>2, <2>2, FS_EmptySet
  <2>4. Stage(d)'
    BY <1>3, <2>1, <2>2, <2>3 DEF Stage, Reading
  <2> QED
    BY <1>2, <2>2, <2>4 DEF InOrder
<1>6. CASE Stops("fail")
  BY <1>6, ReadingStops
<1> QED
  BY <1>4, <1>5, <1>6 DEF BeginAttachment

(* An attribute that assigns one field itself. *)
LEMMA SetFileInOrder ==
  ASSUME NEW a, NEW m, NEW d, Reading(a, m, d), file # NULL,
         a.lvl = "attachment", NEW f \in {"name", "data", "date"},
         a.name = AttrOf[f], SetFile([file EXCEPT ![f] = a.value]),
         [file EXCEPT ![f] = a.value] \in File
  PROVE  InOrder'
<1>1. file \in File /\ f \in Fields /\ f \in DOMAIN AttrOf
  BY DEF Reading, Local, Fields, AttrOf
<1>2. file' = [file EXCEPT ![f] = a.value] /\ UNCHANGED dirVars /\ pc' = "attr"
  BY DEF SetFile, Reading
<1>3. DOMAIN file = Fields
  BY <1>1 DEF File, Fields
<1>4. file' # NULL
  BY <1>2, ExtractAssumption
<1>5. a.name \notin {"RENDDATA", "ATTACHMENT"}
  BY DEF AttrOf
<1>6. ASSUME NEW g \in Fields
      PROVE  (IF a.lvl = "attachment" /\ Assigns(m, g)'
              THEN Assigned(m, g)' ELSE file[g]) = Left(Pending', g, file'[g])
  <2>1. Pending' = <<>>
    BY <1>2 DEF Pending
  <2>2. g \in DOMAIN AttrOf /\ a.name = AttrOf[g] <=> g = f
    BY DEF AttrOf
  <2>3. Assigns(m, g)' <=> g = f
    BY <1>5, <2>2, AssignsWhat DEF Reading
  <2>4. g = f => Assigned(m, g)' = a.value
    BY <2>2, AssignsWhat DEF Reading
  <2>5. file'[g] = IF g = f THEN a.value ELSE file[g]
    BY <1>2, <1>3
  <2> QED
    BY <2>1, <2>3, <2>4, <2>5, LeftNone
<1> QED
  BY <1>2, <1>4, <1>5, <1>6, ReadingOn

(* An attribute that assigns nothing. *)
LEMMA IgnoredInOrder ==
  ASSUME NEW a, NEW m, NEW d, Reading(a, m, d), a.name # "RENDDATA", Ignored,
         \/ a.lvl # "attachment"
         \/ a.name \in {"BODY", "MAPIPROPS", "OTHER"}
         \/ a.name = "ATTACHMENT" /\ a.value = Undecodable
  PROVE  InOrder'
<1>1. UNCHANGED dirVars /\ pc' = "attr" /\ file' = file
  BY DEF Ignored, Reading
<1>2. Pending' = <<>>
  BY <1>1 DEF Pending
<1>3. ASSUME NEW f PROVE ~(a.lvl = "attachment" /\ Assigns(m, f)')
  <2>1. f \in DOMAIN AttrOf => AttrOf[f] \in {"TITLE", "DATA", "MODIFYDATE"}
    BY DEF AttrOf
  <2> QED
    BY <2>1, AssignsWhat DEF Reading
<1> QED
  BY <1>1, <1>2, <1>3, ReadingOn, LeftNone

(* A list of properties is applied after this step. *)
LEMMA ListInOrder ==
  ASSUME NEW a, NEW m, NEW d, Reading(a, m, d), file # NULL,
         \/ a.name = "ATTACHMENT" /\ a.lvl = "attachment" /\ pc' = "attProps"
         \/ a.name = "MAPIPROPS" /\ pc' = "msgProps",
         a.value \notin {Malformed, Undecodable},
         props' = a.value, UNCHANGED <<dirVars, file, body, bodyVars>>
  PROVE  InOrder'
<1>1. UNCHANGED dirVars /\ file' = file
  OBVIOUS
<1>2. ASSUME NEW f
      PROVE  (IF a.lvl = "attachment" /\ Assigns(m, f)'
              THEN Assigned(m, f)' ELSE file[f]) = Left(Pending', f, file'[f])
  <2>0. f \in DOMAIN AttrOf => AttrOf[f] \in {"TITLE", "DATA", "MODIFYDATE"}
    BY DEF AttrOf
  <2>1. CASE /\ a.name = "ATTACHMENT" /\ a.lvl = "attachment"
             /\ pc' = "attProps"
    <3>1. Pending' = a.value
      BY <2>1 DEF Pending
    <3>2. /\ Assigns(m, f)' <=> NamedFor(a.value, f) # {}
          /\ Assigned(m, f)' = a.value[Max(NamedFor(a.value, f))].values[1]
      BY <2>0, <2>1, AssignsWhat DEF Reading
    <3> QED
      BY <1>1, <2>1, <3>1, <3>2 DEF Left
  <2>2. CASE a.name = "MAPIPROPS" /\ pc' = "msgProps"
    <3>1. Pending' = <<>>
      BY <2>2 DEF Pending
    <3>2. ~Assigns(m, f)'
      BY <2>0, <2>2, AssignsWhat DEF Reading
    <3> QED
      BY <1>1, <3>1, <3>2, LeftNone
  <2> QED
    BY <2>1, <2>2
<1> QED
  BY <1>1, <1>2, ReadingOn

(* Without an attachment there is nothing to keep. *)
LEMMA NoneInOrder ==
  ASSUME NEW a, NEW m, NEW d, Reading(a, m, d), a.name # "RENDDATA",
         file = NULL, UNCHANGED <<dirVars, file>>, pc' \notin {"kind", "files"}
  PROVE  InOrder'
BY ReadingOn

(* A list that is parsed, one way or another. *)
LEMMA ParsedInOrder ==
  ASSUME NEW a, NEW m, NEW d, Reading(a, m, d),
         NEW label \in {"attProps", "msgProps"},
         \/ /\ a.name = "ATTACHMENT" /\ a.lvl = "attachment"
            /\ label = "attProps" /\ file # NULL
         \/ /\ a.name = "MAPIPROPS" /\ a.lvl = "message"
            /\ label = "msgProps",
         mapi_attr_read(a.value, label)
  PROVE  InOrder'
<1>1. CASE Stops("fail") \/ Stops("abort")
  BY <1>1, ReadingStops
<1>2. CASE a.value = Undecodable /\ Ignored
  BY <1>2, IgnoredInOrder
<1>3. CASE /\ a.value \notin {Malformed, Undecodable}
           /\ pc' = label /\ props' = a.value
           /\ UNCHANGED <<dirVars, file, body, bodyVars>>
  <2>1. CASE file # NULL
    BY <1>3, <2>1, ListInOrder
  <2>2. CASE file = NULL
    BY <1>3, <2>2, NoneInOrder
  <2> QED
    BY <2>1, <2>2
<1> QED
  BY <1>1, <1>2, <1>3 DEF mapi_attr_read

(* An attribute of an attachment is gathered. *)
LEMMA file_add_attrInOrder ==
  ASSUME NEW a \in Attr, NEW m, NEW d, Reading(a, m, d), file_add_attr(a)
  PROVE  InOrder'
<1>1. a.lvl = "attachment" /\ a.name # "RENDDATA"
  BY DEF file_add_attr
<1>2. CASE Stops("abort")
  BY <1>2, ReadingStops
<1>3. ASSUME file # NULL PROVE file \in File
  BY <1>3 DEF Reading, Local
<1>4. CASE /\ file # NULL /\ a.name = "MODIFYDATE" /\ a.value # Malformed
           /\ SetFile([file EXCEPT !.date = a.value])
  <2>1. a.value \in Date
    BY <1>4, ExtractAssumption DEF ValuesOf
  <2>2. [file EXCEPT !.date = a.value] \in File
    BY <1>3, <1>4, <2>1 DEF File
  <2>3. a.name = AttrOf["date"]
    BY <1>4 DEF AttrOf
  <2> QED
    BY <1>1, <1>4, <2>2, <2>3, SetFileInOrder
<1>5. CASE /\ file # NULL /\ a.name = "TITLE"
           /\ SetFile([file EXCEPT !.name = a.value])
  <2>1. a.value \in Name
    BY <1>5, ExtractAssumption DEF ValuesOf
  <2>2. [file EXCEPT !.name = a.value] \in File
    BY <1>3, <1>5, <2>1 DEF File
  <2>3. a.name = AttrOf["name"]
    BY <1>5 DEF AttrOf
  <2> QED
    BY <1>1, <1>5, <2>2, <2>3, SetFileInOrder
<1>6. CASE /\ file # NULL /\ a.name = "DATA"
           /\ SetFile([file EXCEPT !.data = a.value])
  <2>1. a.value \in Data
    BY <1>6, ExtractAssumption DEF ValuesOf
  <2>2. [file EXCEPT !.data = a.value] \in File
    BY <1>3, <1>6, <2>1 DEF File
  <2>3. a.name = AttrOf["data"]
    BY <1>6 DEF AttrOf
  <2> QED
    BY <1>1, <1>6, <2>2, <2>3, SetFileInOrder
<1>7. CASE /\ file # NULL /\ a.name = "ATTACHMENT"
           /\ mapi_attr_read(a.value, "attProps")
  BY <1>1, <1>7, ParsedInOrder
<1>8. CASE a.name \in {"BODY", "MAPIPROPS", "OTHER"} /\ Ignored
  BY <1>1, <1>8, IgnoredInOrder
<1> QED
  BY <1>2, <1>4, <1>5, <1>6, <1>7, <1>8 DEF file_add_attr

(* An attribute of the message changes no attachment. *)
LEMMA MessageAttrInOrder ==
  ASSUME NEW a \in Attr, NEW m, NEW d, Reading(a, m, d), MessageAttr(a)
  PROVE  InOrder'
<1>1. a.lvl = "message"
  BY DEF MessageAttr
<1>2. CASE /\ a.name = "BODY"
           /\ UNCHANGED <<dirVars, pc, file, props, bodyVars>>
  <2>1. Pending' = <<>> /\ pc' = "attr"
    BY <1>2 DEF Pending, Reading
  <2> QED
    BY <1>1, <1>2, <2>1, ReadingOn, LeftNone
<1>3. CASE a.name = "MAPIPROPS" /\ mapi_attr_read(a.value, "msgProps")
  BY <1>1, <1>3, ParsedInOrder
<1>4. CASE a.name # "RENDDATA" /\ Ignored
  BY <1>1, <1>4, IgnoredInOrder
<1> QED
  BY <1>2, <1>3, <1>4 DEF MessageAttr

(* A run that ends between two attributes has handed over what it had. *)
LEMMA StandingStops ==
  ASSUME InOrder, input' = input, NEW how \in {"fail", "abort"}, Stops(how)
  PROVE  InOrder'
<1>1. PICK d \in Nat : Finished(d)
  BY DEF InOrder
<1>2. log' = log /\ status' \in {"fail", "abort"}
  BY DEF Stops, Ends
<1>3. Finished(d)' /\ Ranked(Starts)'
  BY <1>1, <1>2, FinishedStays, SameInput DEF InOrder
<1> QED
  BY <1>2, <1>3, StopsInOrder

(* There is one of every number. *)
LEMMA NthExists ==
  ASSUME Read, Ranked(Starts), NEW k \in 1 .. Cardinality(Starts)
  PROVE  NthStart(k) \in Starts
<1>1. PICK S : S = Starts
  OBVIOUS
<1>2. Finite(S) /\ \E s \in S : Rank(S, s) = k
  BY <1>1, StartsBounded DEF Ranked
<1>3. Nth(S, k) \in S
  BY <1>2, RankNames
<1> QED
  BY <1>1, <1>3 DEF NthStart, Nth, Rank

(* Every attribute read keeps the order. *)
LEMMA ReadAttrInOrder ==
  ASSUME IInv, InOrder, status = "running", NEW a \in Attr, ReadAttr(a)
  PROVE  InOrder'
<1>1. Local /\ Read /\ DirTypeOK /\ pc = "attr"
  BY IInvParts DEF ReadAttr
<1>2. PICK d \in Nat : Finished(d) /\ Stage(d)
  BY DEF InOrder
<1>3. CASE AttrRejected(a)
  BY <1>3, StandingStops DEF AttrRejected
<1>4. CASE /\ input' = Append(input, a)
           /\ BeginAttachment(a) \/ file_add_attr(a) \/ MessageAttr(a)
  <2>1. PICK m \in Nat : Grows(a, m)
    BY <1>1, <1>4, Grown
  <2>2. Reading(a, m, d)
    BY <1>1, <1>2, <2>1 DEF Reading, InOrder
  <2> QED
    BY <1>4, <2>2, BeginAttachmentInOrder, file_add_attrInOrder,
       MessageAttrInOrder
<1> QED
  BY <1>3, <1>4 DEF ReadAttr

-----------------------------------------------------------------------------
(* The other steps *)

(* A step between attributes that leaves the File object as it should be.  *)
LEMMA StandingGoes ==
  ASSUME InOrder, status = "running", input' = input, UNCHANGED dirVars,
         pc \notin {"kind", "files"}, pc' \notin {"kind", "files"},
         file' = NULL <=> file = NULL,
         file # NULL => \A f \in Fields :
           Left(Pending', f, file'[f]) = Left(Pending, f, file[f])
  PROVE  InOrder'
<1>1. PICK d \in Nat : Finished(d) /\ Stage(d)
  BY DEF InOrder
<1>2. log' = log /\ status' = "running"
  BY DEF dirVars
<1>3. Finished(d)' /\ Starts' = Starts /\ Ranked(Starts')
  BY <1>1, <1>2, FinishedStays, SameInput DEF InOrder
<1>4. file # NULL => Gathered'
  BY <1>1, <1>3, SameInput DEF Gathered, Stage
<1>5. Stage(d)'
  BY <1>1, <1>2, <1>3, <1>4 DEF Stage
<1> QED
  BY <1>3, <1>5 DEF InOrder

(* A property applied to the File object is no longer pending. *)
LEMMA file_add_mapi_attrsInOrder ==
  ASSUME IInv, InOrder, status = "running", file_add_mapi_attrs
  PROVE  InOrder'
<1> DEFINE p == Head(props)
<1>1. /\ pc = "attProps" /\ props # <<>> /\ input' = input
      /\ Local /\ file \in File /\ file # NULL
  BY IInvParts DEF file_add_mapi_attrs, Local, Filling
<1>2. p \in Prop /\ WellTyped(p) /\ props \in Seq(Prop)
  BY <1>1, HeadTail DEF Local
<1> HIDE DEF p
<1>3. CASE Stops("abort")
  BY <1>1, <1>3, StandingStops
<1>4. CASE /\ ~(p.name \in DOMAIN PropType /\ p.type \notin PropType[p.name])
           /\ file' = SetField(file, p) /\ props' = Tail(props)
           /\ UNCHANGED <<dirVars, pc, body, bodyVars>>
  <2>1. file' # NULL
    BY <1>1, <1>2, <1>4, SetFieldType, ExtractAssumption
  <2>2. Pending = props /\ Pending' = Tail(props) /\ pc' = "attProps"
    BY <1>1, <1>4 DEF Pending
  <2>3. ASSUME NEW f \in Fields
        PROVE  Left(Pending', f, file'[f]) = Left(Pending, f, file[f])
    <3>1. file'[f] = IF f \in DOMAIN PropOf /\ Head(props).name = PropOf[f]
                     THEN Head(props).values[1] ELSE file[f]
      BY <1>1, <1>2, <1>4, SetFieldSets DEF p
    <3>2. Left(props, f, file[f]) = Left(Tail(props), f, file'[f])
      BY <1>1, <1>2, <3>1, LeftFirst
    <3> QED
      BY <2>2, <3>2
  <2> QED
    BY <1>1, <1>4, <2>1, <2>2, <2>3, StandingGoes
<1> QED
  BY <1>3, <1>4 DEF file_add_mapi_attrs, p

(* A property of the message changes no attachment. *)
LEMMA AddMessagePropInOrder ==
  ASSUME InOrder, status = "running", AddMessageProp
  PROVE  InOrder'
<1>1. pc = "msgProps" /\ input' = input
  BY DEF AddMessageProp
<1>2. CASE Stops("abort") \/ Stops("fail")
  BY <1>1, <1>2, StandingStops
<1>3. CASE UNCHANGED <<dirVars, pc, file, bodyVars>>
  <2>1. Pending = <<>> /\ Pending' = <<>>
    BY <1>1, <1>3 DEF Pending
  <2> QED
    BY <1>1, <1>3, <2>1, StandingGoes
<1> QED
  BY <1>2, <1>3 DEF AddMessageProp

(* Where nothing is gathered the place does not matter. *)
LEMMA GotoInOrder ==
  ASSUME InOrder, status = "running", input' = input,
         NEW label \in {"attr", "last"}, Goto(label),
         pc \in {"signature", "attr"}
           \/ (pc \in {"attProps", "msgProps"} /\ props = <<>>)
  PROVE  InOrder'
<1>1. UNCHANGED dirVars /\ pc' = label /\ file' = file
  BY DEF Goto
<1>2. Pending = <<>> /\ Pending' = <<>>
  BY <1>1 DEF Pending
<1> QED
  BY <1>1, <1>2, StandingGoes

(* The last attachment is handed over; then the log is all of them. *)
LEMMA WriteLastInOrder ==
  ASSUME IInv, InOrder, status = "running", WriteLast
  PROVE  /\ InOrder'
         /\ status' = "running" => Len(log') = Cardinality(Starts)
<1>1. /\ pc = "last" /\ pc' = "kind" /\ input' = input
      /\ Local /\ Read /\ DirTypeOK
  BY IInvParts DEF WriteLast
<1>2. PICK d \in Nat : Finished(d) /\ Stage(d)
  BY DEF InOrder
<1>3. Starts' = Starts /\ Ranked(Starts') /\ Ranked(Starts)
  BY <1>1, SameInput DEF InOrder
<1>4. /\ d = Len(log) /\ Done = 1 .. d /\ log \in Seq(Entry)
      /\ file = NULL => Starts = {}
      /\ file # NULL => d + 1 = Cardinality(Starts) /\ Gathered
      /\ d \in 0 .. Cardinality(Starts) /\ Pending = <<>>
  BY <1>1, <1>2 DEF Stage, Finished, DirTypeOK, Pending
<1>5. CASE file = NULL
  <2>1. log' = log /\ status' = "running"
    BY <1>5 DEF WriteLast, dirVars
  <2>2. d = Cardinality(Starts)
    BY <1>4, <1>5, FS_EmptySet
  <2>3. Finished(d)'
    BY <1>1, <1>2, <2>1, FinishedStays
  <2> QED
    BY <1>1, <1>3, <1>4, <2>1, <2>2, <2>3 DEF InOrder, Stage
<1>6. CASE file # NULL
  <2>1. file_write(file, "attachment")
    BY <1>6 DEF WriteLast
  <2>2. CASE log' = log /\ status' \in {"fail", "abort"}
    <3>1. Finished(d)'
      BY <1>1, <1>2, <2>2, FinishedStays
    <3> QED
      BY <1>3, <2>2, <3>1, StopsInOrder
  <2>3. CASE /\ \E how, at : log' = Append(log, [src |-> "attachment",
                                  file |-> file, how |-> how, at |-> at])
             /\ status' \in {"running", "fail"}
    <3>1. PICK how, at : log' = Append(log, [src |-> "attachment",
                                  file |-> file, how |-> how, at |-> at])
      BY <2>3
    <3>2. PICK e : e = [src |-> "attachment", file |-> file, how |-> how,
                        at |-> at]
      OBVIOUS
    <3>3. /\ Done' = 1 .. d + 1 /\ Len(log') = d + 1
          /\ log'[d + 1] = e /\ \A k \in 1 .. d : log'[k] = log[k]
      BY <1>4, <3>1, <3>2, OneMoreDone
    <3>4. ASSUME NEW k \in 1 .. d + 1
          PROVE  log'[k].file = AttachmentAt(NthStart(k))
      <4>1. CASE k \in 1 .. d
        BY <1>2, <3>3, <4>1 DEF Finished
      <4>2. CASE k = d + 1
        <5>1. PICK s \in Starts : s = NthStart(k)
          <6>1. k \in 1 .. Cardinality(Starts)
            BY <1>4, <1>6, <4>2
          <6> QED
            BY <1>1, <1>3, <6>1, NthExists
        <5>2. IsLast(Starts, s)
          BY <1>1, <1>3, <1>4, <1>6, <4>2, <5>1, NthIsLast
        <5>3. file = AttachmentAt(s)
          BY <1>1, <1>4, <1>6, <5>2, GatheredAll
        <5> QED
          BY <3>2, <3>3, <4>2, <5>1, <5>3
      <4>3. k \in 1 .. d \/ k = d + 1
        OBVIOUS
      <4> QED
        BY <4>1, <4>2, <4>3
    <3>5. Finished(d + 1)'
      <4>1. d + 1 \in 0 .. Cardinality(Starts')
        BY <1>3, <1>4, <1>6
      <4> QED
        BY <1>1, <3>3, <3>4, <4>1, SameInput DEF Finished
    <3>6. Stage(d + 1)'
      BY <1>1, <1>3, <1>4, <1>6, <2>3 DEF Stage
    <3>7. d + 1 \in Nat
      OBVIOUS
    <3> QED
      BY <1>3, <1>4, <1>6, <3>3, <3>5, <3>6, <3>7 DEF InOrder
  <2> QED
    BY <2>1, <2>2, <2>3, Completes
<1> QED
  BY <1>5, <1>6

(* While bodies are written the attachments are done. *)
LEMMA BodiesInOrder ==
  ASSUME InOrder, status = "running", input' = input,
         pc \in {"kind", "files"}, pc' \in {"kind", "files"},
         log' = log \/ (Done' = Done /\ \A k \in Done : log'[k] = log[k])
  PROVE  InOrder'
<1>1. PICK d \in Nat : Finished(d) /\ Stage(d)
  BY DEF InOrder
<1>2. Finished(d)' /\ Starts' = Starts /\ Ranked(Starts')
  BY <1>1, FinishedStays, SameInput DEF InOrder
<1>3. d = Cardinality(Starts)
  BY <1>1 DEF Stage
<1> QED
  BY <1>2, <1>3 DEF InOrder, Stage

(* Every step keeps the order. *)
LEMMA NextInOrder ==
  ASSUME IInv, InOrder, Next
  PROVE  InOrder'
<1>1. status = "running" /\ DirTypeOK /\ Local
  BY IInvParts DEF Next
<1>2. CASE StartFile
  BY <1>1, <1>2, GotoInOrder, StandingStops DEF StartFile
<1>3. CASE EndOfInput
  BY <1>1, <1>3, GotoInOrder DEF EndOfInput
<1>4. CASE attr_read_fails
  BY <1>1, <1>4, StandingStops DEF attr_read_fails
<1>5. CASE \E a \in Attr : ReadAttr(a)
  BY <1>1, <1>5, ReadAttrInOrder
<1>6. CASE file_add_mapi_attrs
  BY <1>1, <1>6, file_add_mapi_attrsInOrder
<1>7. CASE AddMessageProp
  BY <1>1, <1>7, AddMessagePropInOrder
<1>8. CASE PropsDone
  BY <1>1, <1>8, GotoInOrder DEF PropsDone
<1>9. CASE WriteLast
  BY <1>1, <1>9, WriteLastInOrder
<1>10. CASE NextKind
  <2>1. pc = "kind" /\ input' = input
    BY <1>10 DEF NextKind
  <2>2. Stops("fail") \/ (pc' \in {"kind", "files"} /\ log' = log)
    BY <1>10, <2>1 DEF NextKind, dirVars
  <2> QED
    BY <1>1, <2>1, <2>2, StandingStops, BodiesInOrder
<1>11. CASE WriteBody
  <2>1. /\ pc = "files" /\ pc' = "files" /\ input' = input
        /\ kind # "attachment"
    BY <1>1, <1>11 DEF WriteBody, Local, Filling, Kinds
  <2>2. PICK x : file_write(x, kind)
    BY <1>11 DEF WriteBody
  <2>3. log' = log \/ (Done' = Done /\ \A k \in Done : log'[k] = log[k])
    <3>1. CASE \E how, at : log' = Append(log, [src |-> kind, file |-> x,
                                               how |-> how, at |-> at])
      <4>1. PICK e : log' = Append(log, e) /\ e.src = kind
        BY <3>1
      <4> QED
        BY <1>1, <2>1, <4>1, OtherDone DEF DirTypeOK
    <3> QED
      BY <1>1, <2>2, <3>1, Completes
  <2> QED
    BY <1>1, <2>1, <2>3, BodiesInOrder
<1>12. CASE NameFreedTwice
  BY <1>1, <1>12, StandingStops DEF NameFreedTwice
<1>13. CASE KindDone
  <2>1. /\ pc = "files" /\ pc' = "kind" /\ input' = input /\ log' = log
    BY <1>13 DEF KindDone, dirVars
  <2> QED
    BY <1>1, <2>1, BodiesInOrder
<1>14. CASE Return
  <2>1. /\ pc = "kind" /\ pc' = "kind" /\ input' = input /\ log' = log
    BY <1>14 DEF Return, Stops, Ends
  <2> QED
    BY <1>1, <2>1, BodiesInOrder
<1> QED
  BY <1>2, <1>3, <1>4, <1>5, <1>6, <1>7, <1>8, <1>9, <1>10, <1>11, <1>12,
     <1>13, <1>14 DEF Next

(* At first there is nothing to hand over. *)
LEMMA InitInOrder == Init => InOrder
<1> SUFFICES ASSUME Init PROVE InOrder
  OBVIOUS
<1>1. Starts = {} /\ Done = {} /\ log = <<>> /\ file = NULL
  BY DEF Init, DirInit, Starts, Done
<1>2. Cardinality(Starts) = 0 /\ Len(log) = 0
  BY <1>1, FS_EmptySet
<1>3. Ranked(Starts)
  BY <1>2 DEF Ranked
<1>4. Finished(0) /\ Stage(0)
  BY <1>1, <1>2 DEF Finished, Stage, Init, DirInit
<1> QED
  BY <1>3, <1>4 DEF InOrder

(* A step, or none, keeps the order. *)
LEMMA StepInOrder ==
  ASSUME IInv, InOrder, [Next]_vars
  PROVE  InOrder'
<1>1. CASE UNCHANGED vars
  <2>1. /\ UNCHANGED <<input, log, status, pc, file, props>>
    BY <1>1 DEF vars, dirVars
  <2>2. PICK d \in Nat : Finished(d) /\ Stage(d)
    BY DEF InOrder
  <2>3. Finished(d)' /\ Starts' = Starts /\ Ranked(Starts')
    BY <2>1, <2>2, FinishedStays, SameInput DEF InOrder
  <2>4. Gathered => Gathered'
    BY <2>1, <2>3, SameInput DEF Gathered, Pending
  <2>5. Stage(d)'
    BY <2>1, <2>2, <2>3, <2>4 DEF Stage
  <2> QED
    BY <2>3, <2>5 DEF InOrder
<1>2. CASE Next
  BY <1>2, NextInOrder
<1> QED
  BY <1>1, <1>2

(* Each attachment of any stream reaches file_write with the fields its    *)
(* own attributes gave it, in the order of the stream.                     *)
THEOREM InStreamOrder == Spec => []AttachmentsInOrder
<1>1. ASSUME IInv, InOrder PROVE AttachmentsInOrder
  <2>1. PICK d \in Nat : Finished(d) /\ Stage(d)
    BY <1>1 DEF InOrder
  <2>2. Done = 1 .. d /\ Cardinality(Done) = d
    <3>1. Cardinality(1 .. d) = d
      BY FS_Interval
    <3> QED
      BY <2>1, <3>1 DEF Finished
  <2>3. PICK n \in Nat : n = Cardinality(Starts)
    BY <1>1, StartsBounded, FS_CardinalityType DEF IInv, TypeOK, Read, Finite
  <2>4. d <= n /\ (status = "ok" => d = n)
    BY <2>1, <2>3 DEF Finished, Stage
  <2>5. status = "running" => d >= n - 1
    <3>1. CASE pc \notin {"kind", "files"} /\ file = NULL
      <4>1. status = "running" => n = 0
        BY <2>1, <2>3, <3>1, FS_EmptySet DEF Stage
      <4> QED
        BY <4>1
    <3>2. CASE pc \notin {"kind", "files"} /\ file # NULL
      BY <2>1, <2>3, <3>2 DEF Stage
    <3>3. CASE pc \in {"kind", "files"}
      BY <2>1, <2>3, <3>3 DEF Stage
    <3> QED
      BY <3>1, <3>2, <3>3
  <2>6. \A k \in Done : log[k].file = AttachmentAt(NthStart(k))
    BY <2>1, <2>2 DEF Finished
  <2> QED
    BY <2>2, <2>3, <2>4, <2>5, <2>6 DEF AttachmentsInOrder
<1> QED
  BY <1>1, StepInOrder, InitInOrder, Invariance, PTL DEF Spec

-----------------------------------------------------------------------------
(* What a list of properties leaves of a body *)

BodyNamed(ps, k) ==
  {n \in DOMAIN ps : /\ k \in DOMAIN BodyProp
                     /\ ps[n].type = "binary" /\ ps[n].name = BodyProp[k]}

LeftBody(ps, k, x) ==
  IF BodyNamed(ps, k) = {} THEN x ELSE Decoded(ps[Max(BodyNamed(ps, k))])

(* An empty list leaves it as it is. *)
LEMMA LeftBodyNone ==
  ASSUME NEW k, NEW x
  PROVE  LeftBody(<<>>, k, x) = x
<1>1. BodyNamed(<<>>, k) = {}
  BY DEF BodyNamed
<1> QED
  BY <1>1 DEF LeftBody

(* The properties that are bodies, by kind. *)
LEMMA BodyKinds ==
  ASSUME NEW p, NEW k \in Kinds
  PROVE  /\ BodyKind(p) \in Kinds
         /\ (IsBody(p) /\ BodyKind(p) = k) <=>
              (k \in DOMAIN BodyProp /\ p.type = "binary"
                 /\ p.name = BodyProp[k])
<1>1. CASE k = "h"
  BY <1>1 DEF BodyKind, IsBody, BodyProp, Kinds
<1>2. CASE k = "r"
  BY <1>2 DEF BodyKind, IsBody, BodyProp, Kinds
<1>3. CASE k = "t"
  BY <1>3 DEF BodyKind, IsBody, BodyProp, Kinds
<1> QED
  BY <1>1, <1>2, <1>3 DEF Kinds

(* The first property, and then the others. *)
LEMMA LeftBodyFirst ==
  ASSUME NEW ps \in Seq(Prop), ps # <<>>, NEW k \in Kinds, NEW x, NEW y,
         y = IF IsBody(Head(ps)) /\ BodyKind(Head(ps)) = k
             THEN Decoded(Head(ps)) ELSE x
  PROVE  LeftBody(ps, k, x) = LeftBody(Tail(ps), k, y)
<1>1. /\ Len(ps) \in Nat \ {0} /\ DOMAIN ps = 1 .. Len(ps)
      /\ Head(ps) = ps[1]
      /\ DOMAIN Tail(ps) = 1 .. Len(ps) - 1
      /\ \A i \in 1 .. Len(ps) - 1 : Tail(ps)[i] = ps[i + 1]
  OBVIOUS
<1>2. PICK n \in Nat \ {0} : n = Len(ps)
  BY <1>1
<1>3. PICK ts : ts = Tail(ps)
  OBVIOUS
<1>4. PICK I : I = BodyNamed(ps, k)
  OBVIOUS
<1>5. PICK J : J = BodyNamed(ts, k)
  OBVIOUS
<1>6. /\ I \in SUBSET (1 .. n) /\ J \in SUBSET (1 .. n - 1)
      /\ 1 \in I <=> /\ k \in DOMAIN BodyProp /\ ps[1].type = "binary"
                     /\ ps[1].name = BodyProp[k]
  BY <1>1, <1>2, <1>3, <1>4, <1>5 DEF BodyNamed
<1>7. \A j \in 1 .. n - 1 : ts[j] = ps[j + 1] /\ j + 1 \in 1 .. n
  BY <1>1, <1>2, <1>3
<1>8. \A j \in 1 .. n - 1 : j \in J <=> j + 1 \in I
  BY <1>1, <1>2, <1>3, <1>4, <1>5, <1>7 DEF BodyNamed
<1>9. y = IF 1 \in I THEN Decoded(ps[1]) ELSE x
  <2>1. IsBody(ps[1]) /\ BodyKind(ps[1]) = k <=>
          /\ k \in DOMAIN BodyProp /\ ps[1].type = "binary"
          /\ ps[1].name = BodyProp[k]
    BY BodyKinds
  <2>2. IsBody(ps[1]) /\ BodyKind(ps[1]) = k <=> 1 \in I
    BY <1>6, <2>1, Zenon
  <2>3. y = IF IsBody(ps[1]) /\ BodyKind(ps[1]) = k
            THEN Decoded(ps[1]) ELSE x
    BY <1>1
  <2> QED
    BY <2>2, <2>3, Zenon
<1>12. PlacesOf(n, I, J)
  BY <1>6, <1>8, TailMax, Zenon
<1>10. CASE J = {}
  BY <1>3, <1>4, <1>5, <1>9, <1>10, <1>12 DEF LeftBody, PlacesOf
<1>11. CASE J # {}
  <2>1. I # {} /\ Max(J) \in 1 .. n - 1 /\ Max(I) = Max(J) + 1
    BY <1>11, <1>12 DEF PlacesOf
  <2>2. ts[Max(J)] = ps[Max(I)]
    BY <1>7, <2>1
  <2> QED
    BY <1>3, <1>4, <1>5, <1>11, <2>1, <2>2 DEF LeftBody
<1> QED
  BY <1>10, <1>11

-----------------------------------------------------------------------------
(* The bodies of the stream and MessageBody *)

PendingBody == IF pc = "msgProps" THEN props ELSE <<>>

(* While tnef runs MessageBody, with the properties not yet applied to it, *)
(* holds the bodies of the stream.                                         *)
Held ==
  status = "running" =>
    \A k \in Kinds : Found(k) = LeftBody(PendingBody, k, body[k])

(* The body is as the attribute leaves it, or as it was. *)
LEMMA FoundGrows ==
  ASSUME NEW a, NEW m, Grows(a, m), NEW k
  PROVE  Found(k)' = IF HasBody(m, k)' THEN BodyIn(m, k)' ELSE Found(k)
<1>1. PICK I : I = {i \in DOMAIN input : HasBody(i, k)}
  OBVIOUS
<1>2. PICK J : J = {i \in DOMAIN input' : HasBody(i, k)'}
  OBVIOUS
<1>3. I \in SUBSET (1 .. m - 1) /\ m \in Nat \ {0}
  BY <1>1 DEF Grows
<1>4. ASSUME NEW i \in 1 .. m - 1
      PROVE  HasBody(i, k)' = HasBody(i, k) /\ BodyIn(i, k)' = BodyIn(i, k)
  <2>1. input'[i] = input[i]
    BY DEF Grows
  <2>2. /\ IsText(i, k)' = IsText(i, k)
        /\ BodyPropsOf(i, k)' = BodyPropsOf(i, k)
    BY <2>1 DEF IsText, BodyPropsOf, IsList
  <2> QED
    BY <2>1, <2>2 DEF HasBody, BodyIn
<1>5. J = IF HasBody(m, k)' THEN I \cup {m} ELSE I
  <2>1. \A i \in 1 .. m : i = m \/ i \in 1 .. m - 1
    BY <1>3
  <2>2. \A i \in 1 .. m - 1 : i \in 1 .. m
    BY <1>3
  <2>3. m \in 1 .. m
    BY <1>3
  <2>4. DOMAIN input = 1 .. m - 1 /\ DOMAIN input' = 1 .. m
    BY DEF Grows
  <2> QED
    BY <1>1, <1>2, <1>4, <2>1, <2>2, <2>3, <2>4
<1>6. Found(k) = IF I = {} THEN NULL ELSE BodyIn(Max(I), k)
  BY <1>1 DEF Found
<1>7. Found(k)' = IF J = {} THEN NULL ELSE BodyIn(Max(J), k)'
  BY <1>2 DEF Found
<1>8. CASE HasBody(m, k)'
  <2>1. J # {} /\ Max(J) = m
    BY <1>3, <1>5, <1>8, MaxGrows
  <2> QED
    BY <1>7, <1>8, <2>1
<1>9. CASE ~HasBody(m, k)'
  <2>1. J = I
    BY <1>5, <1>9
  <2>2. CASE I # {}
    <3>1. PICK x \in 1 .. m - 1 : x = Max(I)
      BY <1>3, <2>2, MaxGrows
    <3>2. BodyIn(x, k)' = BodyIn(x, k)
      BY <1>4
    <3> QED
      BY <1>6, <1>7, <1>9, <2>1, <2>2, <3>1, <3>2
  <2> QED
    BY <1>6, <1>7, <1>9, <2>1, <2>2
<1> QED
  BY <1>8, <1>9

(* What of an attribute read can be a body. *)
LEMMA BodyParts ==
  ASSUME NEW a, NEW m, Grows(a, m), NEW k
  PROVE  /\ IsText(m, k)' <=> k = "t" /\ a.name = "BODY"
         /\ BodyPropsOf(m, k)' =
              IF /\ a.name = "MAPIPROPS"
                 /\ a.value \notin {Malformed, Undecodable}
              THEN BodyNamed(a.value, k) ELSE {}
         /\ HasBody(m, k)' <=> /\ a.lvl = "message"
                               /\ IsText(m, k)' \/ BodyPropsOf(m, k)' # {}
<1>1. input'[m] = a
  BY DEF Grows
<1>2. IsText(m, k)' <=> k = "t" /\ a.name = "BODY"
  BY <1>1 DEF IsText
<1>3. CASE a.name = "MAPIPROPS" /\ a.value \notin {Malformed, Undecodable}
  BY <1>1, <1>2, <1>3 DEF BodyPropsOf, IsList, BodyNamed, HasBody
<1>4. CASE ~(a.name = "MAPIPROPS" /\ a.value \notin {Malformed, Undecodable})
  BY <1>1, <1>2, <1>4 DEF BodyPropsOf, IsList, HasBody
<1> QED
  BY <1>3, <1>4

(* Most are none. *)
LEMMA NoBody ==
  ASSUME NEW a, NEW m, Grows(a, m), NEW k,
         \/ a.lvl # "message"
         \/ a.name \notin {"BODY", "MAPIPROPS"}
         \/ a.name = "MAPIPROPS" /\ a.value \in {Malformed, Undecodable}
  PROVE  Found(k)' = Found(k)
<1>1. ~HasBody(m, k)'
  BY BodyParts
<1> QED
  BY <1>1, FoundGrows

(* A text attribute is the text body. *)
LEMMA TextBody ==
  ASSUME NEW a, NEW m, Grows(a, m), NEW k,
         a.lvl = "message", a.name = "BODY"
  PROVE  Found(k)' = IF k = "t" THEN <<a.value>> ELSE Found(k)
<1>1. HasBody(m, k)' <=> k = "t"
  BY BodyParts
<1>2. k = "t" => BodyIn(m, k)' = <<a.value>>
  <2>1. IsText(m, k)' <=> k = "t"
    BY BodyParts
  <2> QED
    BY <2>1 DEF BodyIn, Grows
<1> QED
  BY <1>1, <1>2, FoundGrows

(* A body found by its properties is their decoded values. *)
LEMMA DecodedIs ==
  ASSUME NEW ps \in Seq(Prop), NEW k, BodyNamed(ps, k) # {}
  PROVE  LET p == ps[Max(BodyNamed(ps, k))]
         IN  Decoded(p) =
               IF k = "r"
               THEN [j \in DOMAIN p.values |-> RtfDecode[p.values[j]]]
               ELSE p.values
<1>1. PICK n \in Nat : n = Len(ps) /\ DOMAIN ps = 1 .. n
  OBVIOUS
<1>2. PICK I : I = BodyNamed(ps, k)
  OBVIOUS
<1>3. I \in SUBSET (1 .. n) /\ I # {}
  BY <1>1, <1>2 DEF BodyNamed
<1>4. PICK i \in I : i = Max(I)
  <2>1. PICK x \in I : \A y \in I : y <= x
    BY <1>3, GreatestElement
  <2>2. I \in SUBSET Nat
    BY <1>3
  <2> QED
    BY <2>1, <2>2, MaxIs
<1>5. k \in DOMAIN BodyProp /\ ps[i].name = BodyProp[k]
  BY <1>2 DEF BodyNamed
<1>6. ps[i].name = "RTF_COMPRESSED" <=> k = "r"
  BY <1>5 DEF BodyProp
<1> QED
  BY <1>2, <1>4, <1>6 DEF Decoded

(* A list of properties is the bodies it leaves. *)
LEMMA ListBody ==
  ASSUME NEW a, NEW m, Grows(a, m), NEW k,
         a.lvl = "message", a.name = "MAPIPROPS",
         a.value \notin {Malformed, Undecodable}, a.value \in Seq(Prop)
  PROVE  Found(k)' = LeftBody(a.value, k, Found(k))
<1>1. ~IsText(m, k)' /\ BodyPropsOf(m, k)' = BodyNamed(a.value, k)
  BY BodyParts
<1>2. HasBody(m, k)' <=> BodyNamed(a.value, k) # {}
  BY <1>1, BodyParts
<1>3. ASSUME BodyNamed(a.value, k) # {}
      PROVE  BodyIn(m, k)' = Decoded(a.value[Max(BodyNamed(a.value, k))])
  <2>1. PICK p : p = a.value[Max(BodyNamed(a.value, k))]
    OBVIOUS
  <2>2. Decoded(p) = IF k = "r"
                     THEN [j \in DOMAIN p.values |-> RtfDecode[p.values[j]]]
                     ELSE p.values
    BY <1>3, <2>1, DecodedIs
  <2>3. BodyIn(m, k)' = IF k = "r"
                     THEN [j \in DOMAIN p.values |-> RtfDecode[p.values[j]]]
                     ELSE p.values
    BY <1>1, <2>1 DEF BodyIn, Grows
  <2> QED
    BY <2>1, <2>2, <2>3
<1> QED
  BY <1>2, <1>3, FoundGrows DEF LeftBody

(* What the attributes say of the bodies does not change while none is     *)
(* read.                                                                   *)
LEMMA SameBodies ==
  ASSUME input' = input
  PROVE  \A k : Found(k)' = Found(k)
<1>1. \A i, k : IsText(i, k)' = IsText(i, k)
  BY DEF IsText
<1>2. \A i, k : BodyPropsOf(i, k)' = BodyPropsOf(i, k)
  BY DEF BodyPropsOf, IsList
<1>3. \A i, k : HasBody(i, k)' = HasBody(i, k) /\ BodyIn(i, k)' = BodyIn(i, k)
  BY <1>1, <1>2 DEF HasBody, BodyIn
<1> QED
  BY <1>3 DEF Found

(* A run that was stopped writes no bodies. *)
LEMMA HeldStops ==
  ASSUME NEW how \in {"ok", "fail", "abort"}, Stops(how)
  PROVE  Held'
BY DEF Held, Stops, Ends

(* An attribute without a body leaves MessageBody alone. *)
LEMMA HeldOn ==
  ASSUME Held, status = "running", NEW a, NEW m, Grows(a, m),
         \/ a.lvl # "message"
         \/ a.name \notin {"BODY", "MAPIPROPS"}
         \/ a.name = "MAPIPROPS" /\ a.value \in {Malformed, Undecodable},
         pc = "attr", pc' # "msgProps", body' = body
  PROVE  Held'
<1>1. PendingBody = <<>> /\ PendingBody' = <<>>
  BY DEF PendingBody
<1>2. ASSUME NEW k \in Kinds
      PROVE  Found(k)' = LeftBody(PendingBody', k, body'[k])
  <2>1. Found(k)' = Found(k)
    BY NoBody
  <2>2. Found(k) = LeftBody(PendingBody, k, body[k])
    BY DEF Held
  <2> QED
    BY <1>1, <2>1, <2>2
<1> QED
  BY <1>2 DEF Held

(* An attribute read keeps MessageBody as it should be. *)
LEMMA ReadAttrHeld ==
  ASSUME IInv, Held, status = "running", NEW a \in Attr, ReadAttr(a)
  PROVE  Held'
<1>1. Local /\ Read /\ pc = "attr"
  BY IInvParts DEF ReadAttr
<1>2. CASE AttrRejected(a)
  BY <1>2, HeldStops DEF AttrRejected
<1>3. ASSUME input' = Append(input, a) PROVE \E m \in Nat : Grows(a, m)
  BY <1>1, <1>3, Grown
<1>4. ASSUME NEW k \in Kinds PROVE Found(k) = body[k]
  <2>1. PendingBody = <<>>
    BY <1>1 DEF PendingBody
  <2> QED
    BY <2>1, LeftBodyNone DEF Held
<1>5. CASE input' = Append(input, a) /\ BeginAttachment(a)
  <2>1. Stops("fail") \/ (pc' = "attr" /\ body' = body)
    BY <1>1, <1>5 DEF BeginAttachment, SetFile
  <2>2. a.name = "RENDDATA"
    BY <1>5 DEF BeginAttachment
  <2> QED
    BY <1>1, <1>3, <1>5, <2>1, <2>2, HeldOn, HeldStops
<1>6. CASE input' = Append(input, a) /\ file_add_attr(a)
  <2>1. \/ Stops("fail") \/ Stops("abort")
        \/ pc' \in {"attr", "attProps"} /\ body' = body
    BY <1>1, <1>6 DEF file_add_attr, SetFile, Ignored, mapi_attr_read
  <2>2. a.lvl = "attachment"
    BY <1>6 DEF file_add_attr
  <2> QED
    BY <1>1, <1>3, <1>6, <2>1, <2>2, HeldOn, HeldStops
<1>7. CASE input' = Append(input, a) /\ MessageAttr(a)
  <2>0. PICK m \in Nat : Grows(a, m)
    BY <1>3, <1>7
  <2>1. a.lvl = "message"
    BY <1>7 DEF MessageAttr
  <2>2. CASE /\ a.name = "BODY" /\ body' = [body EXCEPT !["t"] = <<a.value>>]
             /\ UNCHANGED <<dirVars, pc, file, props, bodyVars>>
    <3>1. PendingBody' = <<>>
      BY <1>1, <2>2 DEF PendingBody
    <3>2. ASSUME NEW k \in Kinds
          PROVE  Found(k)' = LeftBody(PendingBody', k, body'[k])
      <4>1. Found(k)' = IF k = "t" THEN <<a.value>> ELSE Found(k)
        BY <2>0, <2>1, <2>2, TextBody
      <4>2. body'[k] = IF k = "t" THEN <<a.value>> ELSE body[k]
        BY <1>1, <2>2 DEF Local
      <4> QED
        BY <1>4, <3>1, <4>1, <4>2, LeftBodyNone
    <3> QED
      BY <3>2 DEF Held
  <2>3. CASE /\ a.name = "MAPIPROPS" /\ a.value \notin {Malformed, Undecodable}
             /\ pc' = "msgProps" /\ props' = a.value
             /\ UNCHANGED <<dirVars, file, body, bodyVars>>
    <3>1. PendingBody' = a.value
      BY <2>3 DEF PendingBody
    <3>2. a.value \in Seq(Prop)
      BY <2>3, ExtractAssumption DEF ValuesOf, PropList
    <3>3. ASSUME NEW k \in Kinds
          PROVE  Found(k)' = LeftBody(PendingBody', k, body'[k])
      <4>1. Found(k)' = LeftBody(a.value, k, Found(k))
        BY <2>0, <2>1, <2>3, <3>2, ListBody
      <4> QED
        BY <1>4, <2>3, <3>1, <4>1
    <3> QED
      BY <3>3 DEF Held
  <2>4. CASE Stops("fail") \/ Stops("abort")
    BY <2>4, HeldStops
  <2>5. CASE /\ a.name \notin {"BODY", "MAPIPROPS"} \/ a.value = Undecodable
             /\ a.name # "BODY" /\ Ignored
    BY <1>1, <2>0, <2>1, <2>5, HeldOn DEF Ignored
  <2>6. \/ /\ a.name = "BODY" /\ body' = [body EXCEPT !["t"] = <<a.value>>]
           /\ UNCHANGED <<dirVars, pc, file, props, bodyVars>>
        \/ a.name = "MAPIPROPS" /\ mapi_attr_read(a.value, "msgProps")
        \/ a.name \notin {"BODY", "MAPIPROPS"} /\ Ignored
    BY <1>7 DEF MessageAttr
  <2>7. CASE a.name = "MAPIPROPS" /\ mapi_attr_read(a.value, "msgProps")
    BY <2>3, <2>4, <2>5, <2>7 DEF mapi_attr_read
  <2> QED
    BY <2>2, <2>5, <2>6, <2>7
<1> QED
  BY <1>2, <1>5, <1>6, <1>7 DEF ReadAttr

(* A property applied to MessageBody is no longer pending. *)
LEMMA AddMessagePropHeld ==
  ASSUME IInv, Held, status = "running", AddMessageProp
  PROVE  Held'
<1>1. /\ Local /\ pc = "msgProps" /\ props # <<>> /\ input' = input
      /\ props \in Seq(Prop)
  BY IInvParts DEF AddMessageProp, Local
<1>2. PICK p : p = Head(props)
  OBVIOUS
<1>3. CASE Stops("abort") \/ Stops("fail")
  BY <1>3, HeldStops
<1>4. CASE /\ body' = IF IsBody(p)
                      THEN [body EXCEPT ![BodyKind(p)] = Decoded(p)] ELSE body
           /\ props' = Tail(props) /\ pc' = pc
  <2>1. PendingBody = props /\ PendingBody' = Tail(props)
    BY <1>1, <1>4 DEF PendingBody
  <2>2. ASSUME NEW k \in Kinds
        PROVE  Found(k)' = LeftBody(PendingBody', k, body'[k])
    <3>1. body'[k] = IF IsBody(p) /\ BodyKind(p) = k
                     THEN Decoded(p) ELSE body[k]
      BY <1>1, <1>4 DEF Local
    <3>2. LeftBody(props, k, body[k]) = LeftBody(Tail(props), k, body'[k])
      BY <1>1, <1>2, <3>1, LeftBodyFirst
    <3>3. Found(k)' = Found(k)
      BY <1>1, SameBodies
    <3> QED
      BY <2>1, <3>2, <3>3 DEF Held
  <2> QED
    BY <2>2 DEF Held
<1> QED
  BY <1>1, <1>2, <1>3, <1>4 DEF AddMessageProp

(* The other steps read no attribute and leave MessageBody alone. *)
LEMMA HeldElsewhere ==
  ASSUME Held, status = "running", input' = input, body' = body,
         \/ pc # "msgProps" /\ pc' # "msgProps"
         \/ pc = "msgProps" /\ props = <<>> /\ pc' = "attr"
  PROVE  Held'
<1>1. PendingBody = <<>> /\ PendingBody' = <<>>
  BY DEF PendingBody
<1> QED
  BY <1>1, SameBodies DEF Held

(* Every step keeps MessageBody as it should be. *)
LEMMA NextHeld ==
  ASSUME IInv, Held, Next
  PROVE  Held'
<1>1. status = "running"
  BY DEF Next
<1>2. CASE \E a \in Attr : ReadAttr(a)
  BY <1>1, <1>2, ReadAttrHeld
<1>3. CASE AddMessageProp
  BY <1>1, <1>3, AddMessagePropHeld
<1>4. CASE StartFile \/ EndOfInput \/ attr_read_fails \/ PropsDone
  <2>1. \/ Stops("fail") \/ Stops("abort")
        \/ /\ input' = input /\ body' = body
           /\ \/ pc # "msgProps" /\ pc' # "msgProps"
              \/ pc = "msgProps" /\ props = <<>> /\ pc' = "attr"
    BY <1>4 DEF StartFile, EndOfInput, attr_read_fails, PropsDone, Goto
  <2> QED
    BY <1>1, <2>1, HeldElsewhere, HeldStops
<1>5. CASE file_add_mapi_attrs
  <2>1. \/ Stops("abort")
        \/ input' = input /\ body' = body /\ pc = "attProps" /\ pc' = pc
    BY <1>5 DEF file_add_mapi_attrs
  <2> QED
    BY <1>1, <2>1, HeldElsewhere, HeldStops
<1>6. CASE WriteLast
  BY <1>1, <1>6, HeldElsewhere DEF WriteLast
<1>7. CASE NextKind
  <2>1. \/ Stops("fail")
        \/ /\ input' = input /\ body' = body /\ pc = "kind"
           /\ pc' \in {"kind", "files"}
    BY <1>7 DEF NextKind
  <2> QED
    BY <1>1, <2>1, HeldElsewhere, HeldStops
<1>8. CASE WriteBody
  BY <1>1, <1>8, HeldElsewhere DEF WriteBody
<1>9. CASE NameFreedTwice
  BY <1>9, HeldStops DEF NameFreedTwice
<1>10. CASE KindDone
  BY <1>1, <1>10, HeldElsewhere DEF KindDone
<1>11. CASE Return
  BY <1>11, HeldStops DEF Return
<1> QED
  BY <1>2, <1>3, <1>4, <1>5, <1>6, <1>7, <1>8, <1>9, <1>10, <1>11 DEF Next

(* At first there are no bodies. *)
LEMMA InitHeld == Init => Held
<1> SUFFICES ASSUME Init PROVE Held
  OBVIOUS
<1>1. input = <<>> /\ PendingBody = <<>> /\ body = [k \in Kinds |-> NULL]
  BY DEF Init, PendingBody
<1>2. ASSUME NEW k \in Kinds PROVE Found(k) = NULL /\ body[k] = NULL
  BY <1>1 DEF Found
<1> QED
  BY <1>1, <1>2, LeftBodyNone DEF Held

(* Once the stream is read MessageBody holds its bodies. *)
LEMMA HeldAtEnd ==
  ASSUME Held, status = "running", pc # "msgProps", NEW k \in Kinds
  PROVE  body[k] = Found(k)
BY LeftBodyNone DEF Held, PendingBody

-----------------------------------------------------------------------------
(* The bodies owed *)

L == Len(Preference)

Piece == Kinds \X (Data \cup {Hole})

(* The files owed for the first j kinds of the preference. *)
OwedTo(j) == FlattenSeq([n \in 1 .. j |-> Bodies(n)])

(* The values before the first that is not RTF: get_body_files' list.      *)
LEMMA ReadableFacts ==
  ASSUME NEW T, NEW list \in Seq(T)
  PROVE  /\ Len(Readable(list)) \in 0 .. Len(list)
         /\ DOMAIN Readable(list) = 1 .. Len(Readable(list))
         /\ \A b \in 0 .. Len(Readable(list)) :
              (b + 1 \in DOMAIN list /\ list[b + 1] # Hole)
                <=> b + 1 <= Len(Readable(list))
<1>1. PICK H : H = {i \in DOMAIN list : list[i] = Hole}
  OBVIOUS
<1>2. PICK n \in Nat : n = Len(list) /\ DOMAIN list = 1 .. n
  OBVIOUS
<1>3. CASE H = {}
  <2>1. Readable(list) = list
    BY <1>1, <1>3 DEF Readable
  <2>2. \A i \in 1 .. n : list[i] # Hole
    BY <1>1, <1>2, <1>3
  <2> QED
    BY <1>2, <2>1, <2>2
<1>4. CASE H # {}
  <2>1. H \in SUBSET Nat /\ H \in SUBSET (1 .. n)
    BY <1>1, <1>2
  <2>2. \E x \in H : \A y \in H : x =< y
    BY <1>4, <2>1, LeastElement
  <2>3. Min(H) \in H /\ \A y \in H : Min(H) =< y
    BY <2>2, Zenon DEF Min
  <2>4. PICK x \in 1 .. n : x = Min(H) /\ list[x] = Hole
    BY <1>1, <2>1, <2>3
  <2>5. Readable(list) = SubSeq(list, 1, x - 1)
    BY <1>1, <1>4, <2>4 DEF Readable
  <2>6. /\ Len(Readable(list)) = x - 1
        /\ DOMAIN Readable(list) = 1 .. x - 1
    BY <1>2, <2>5
  <2>7. ASSUME NEW b \in 0 .. x - 1
        PROVE  (b + 1 \in DOMAIN list /\ list[b + 1] # Hole) <=> b + 1 <= x - 1
    <3>1. PICK y \in 1 .. n : y = b + 1
      BY <1>2
    <3>2. CASE y <= x - 1
      <4>1. y \notin H
        BY <2>3, <2>4, <3>2
      <4> QED
        BY <1>1, <1>2, <3>1, <3>2, <4>1
    <3>3. CASE ~(y <= x - 1)
      <4>1. y = x
        BY <3>1, <3>3
      <4> QED
        BY <2>4, <3>1, <3>3, <4>1
    <3> QED
      BY <3>2, <3>3
  <2> QED
    BY <1>2, <2>6, <2>7
<1> QED
  BY <1>3, <1>4

(* Where bodies are owed and written. *)
Settled ==
  /\ Local /\ Held /\ DirTypeOK
  /\ status = "running" /\ pc # "msgProps"

(* The kinds preferred: one to three, all of them for "all". *)
LEMMA PreferenceType ==
  ASSUME DirTypeOK
  PROVE  /\ L \in 1 .. 3 /\ Preference \in Seq(Kinds)
         /\ \A n \in 1 .. L : Preference[n] \in Kinds
         /\ opts.all => L = 3
<1>1. opts.pref \in Seq(Kinds) /\ Len(opts.pref) \in 1 .. 3
  BY ExtractAssumption DEF DirTypeOK
<1>2. CASE opts.all
  <2>1. Preference = <<"r", "h", "t">>
    BY <1>2 DEF Preference
  <2>2. <<"r", "h", "t">> \in Seq(Kinds)
    BY DEF Kinds
  <2>3. L = 3 /\ Preference \in Seq(Kinds)
    BY <2>1, <2>2 DEF L
  <2> QED
    BY <2>3 DEF L
<1>3. CASE ~opts.all
  <2>1. Preference = opts.pref
    BY <1>3 DEF Preference
  <2> QED
    BY <1>1, <1>3, <2>1 DEF L
<1> QED
  BY <1>2, <1>3

(* The body the stream holds is the one MessageBody holds. *)
LEMMA FoundType ==
  ASSUME Settled, NEW k \in Kinds
  PROVE  /\ Found(k) = body[k]
         /\ Found(k) # NULL => Found(k) \in Seq(Data \cup {Hole})
BY HeldAtEnd DEF Settled, Local

(* What is owed for one kind. *)
LEMMA BodiesFacts ==
  ASSUME Settled, NEW n \in 1 .. L
  PROVE  /\ Bodies(n) \in Seq(Piece)
         /\ ~Wanted(n) => Bodies(n) = <<>>
         /\ Wanted(n) =>
              LET k == Preference[n] IN
              /\ k \in Kinds /\ Found(k) \in Seq(Data \cup {Hole})
              /\ Len(Readable(Found(k))) \in 0 .. Len(Found(k))
              /\ Bodies(n) = [m \in 1 .. Len(Readable(Found(k))) |->
                                <<k, Found(k)[m]>>]
<1>1. PICK k \in Kinds : k = Preference[n]
  BY PreferenceType DEF Settled
<1>2. CASE ~Wanted(n)
  <2>1. Bodies(n) = <<>>
    BY <1>2 DEF Bodies
  <2> QED
    BY <1>2, <2>1
<1>3. CASE Wanted(n)
  <2>1. PICK v \in Seq(Data \cup {Hole}) : v = Found(k)
    BY <1>1, <1>3, FoundType DEF Wanted
  <2>2. PICK r \in 0 .. Len(v) :
          r = Len(Readable(v)) /\ DOMAIN Readable(v) = 1 .. r
    BY ReadableFacts
  <2>3. Bodies(n) = [m \in 1 .. r |-> <<k, v[m]>>]
    BY <1>1, <1>3, <2>1, <2>2 DEF Bodies
  <2>4. ASSUME NEW m \in 1 .. r PROVE <<k, v[m]>> \in Piece
    BY DEF Piece
  <2>5. Bodies(n) \in Seq(Piece)
    BY <2>3, <2>4
  <2> QED
    BY <1>1, <1>3, <2>1, <2>2, <2>3, <2>5
<1> QED
  BY <1>2, <1>3

(* No kinds, no files. *)
LEMMA OwedNothing == OwedTo(0) = <<>>
<1>1. [n \in 1 .. 0 |-> Bodies(n)] = <<>>
  OBVIOUS
<1> QED
  BY <1>1 DEF OwedTo, FlattenSeq

(* One kind more. *)
LEMMA OwedNext ==
  ASSUME Settled, NEW j \in Nat, j + 1 <= L
  PROVE  /\ OwedTo(j) \in Seq(Piece)
         /\ OwedTo(j + 1) = OwedTo(j) \o Bodies(j + 1)
         /\ OwedTo(j + 1) \in Seq(Piece)
<1>1. L \in Nat
  BY PreferenceType DEF Settled
<1>2. \A n \in 1 .. j + 1 : Bodies(n) \in Seq(Piece)
  BY <1>1, BodiesFacts
<1>3. PICK ss : ss = [n \in 1 .. j |-> Bodies(n)]
  OBVIOUS
<1>4. PICK b \in Seq(Piece) : b = Bodies(j + 1)
  BY <1>2
<1>5. ss \in Seq(Seq(Piece))
  BY <1>2, <1>3
<1>6. [n \in 1 .. j + 1 |-> Bodies(n)] = Append(ss, b)
  BY <1>3, <1>4
<1>7. /\ FlattenSeq(ss) \in Seq(Piece)
      /\ FlattenSeq(Append(ss, b)) = FlattenSeq(ss) \o b
  BY <1>5, FlattenAppend
<1>8. OwedTo(j) = FlattenSeq(ss)
  BY <1>3 DEF OwedTo
<1>9. OwedTo(j + 1) = FlattenSeq(Append(ss, b))
  BY <1>6 DEF OwedTo
<1>10. FlattenSeq(ss) \o b \in Seq(Piece)
  BY <1>7
<1> QED
  BY <1>4, <1>7, <1>8, <1>9, <1>10, Zenon

(* What is owed is a sequence of files. *)
LEMMA OwedType ==
  ASSUME Settled, NEW j \in 0 .. L
  PROVE  OwedTo(j) \in Seq(Piece)
<1>1. L \in Nat
  BY PreferenceType DEF Settled
<1>2. CASE j = 0
  <2>1. <<>> \in Seq(Piece)
    OBVIOUS
  <2> QED
    BY <1>2, <2>1, OwedNothing, Zenon
<1>3. CASE j # 0
  <2>1. PICK i \in Nat : i + 1 = j
    BY <1>1, <1>3
  <2> QED
    BY <1>1, <2>1, OwedNext
<1> QED
  BY <1>2, <1>3

(* Kinds that are not wanted owe nothing. *)
LEMMA OwedSame ==
  ASSUME Settled, NEW i \in 0 .. L, \A n \in i + 1 .. L : ~Wanted(n)
  PROVE  OwedTo(L) = OwedTo(i)
<1>1. L \in Nat
  BY PreferenceType DEF Settled
<1> DEFINE Good == {d \in Nat : i + d <= L => OwedTo(i + d) = OwedTo(i)}
<1>2. 0 \in Good
  OBVIOUS
<1>3. ASSUME NEW d \in Nat, d \in Good PROVE d + 1 \in Good
  <2>1. SUFFICES ASSUME i + d + 1 <= L
                 PROVE  OwedTo(i + (d + 1)) = OwedTo(i)
    BY <1>1
  <2>2. PICK j \in Nat : j = i + d /\ j + 1 = i + (d + 1)
    OBVIOUS
  <2>3. j + 1 <= L /\ OwedTo(j) = OwedTo(i)
    BY <1>1, <1>3, <2>1, <2>2
  <2>4. j + 1 \in i + 1 .. L /\ j + 1 \in 1 .. L
    BY <1>1, <2>2, <2>3
  <2>5. Bodies(j + 1) = <<>>
    BY <2>4, BodiesFacts
  <2>6. OwedTo(j + 1) = OwedTo(j) \o <<>> /\ OwedTo(j) \in Seq(Piece)
    BY <2>3, <2>5, OwedNext
  <2> QED
    BY <2>2, <2>3, <2>6
<1> HIDE DEF Good
<1>4. Nat \subseteq Good
  BY <1>2, <1>3, NatSets
<1>5. PICK d \in Nat : i + d = L
  BY <1>1
<1> QED
  BY <1>1, <1>4, <1>5 DEF Good

-----------------------------------------------------------------------------
(* The bodies written *)

(* One letter is read past its end: see Extract!PrefChars. *)
Long == opts.all \/ Len(opts.pref) > 1

Attached == Cardinality(Starts)

Pair(e) == <<e.src, e.file.data>>

Written == [i \in 1 .. Len(log) - Attached |-> Pair(log[Attached + i])]

Owed == OwedTo(L)

Absent(n) == Found(Preference[n]) = NULL

(* Before the kind b + 1 is looked for. *)
BetweenKinds(b) ==
  /\ b > 0 => opts.saveBody
  /\ ~opts.all /\ b < 3 => \A n \in 1 .. b : n <= L => Absent(n)
  /\ Written = IF b < L THEN OwedTo(b) ELSE Owed

(* After c values of the body of kind b + 1. *)
AmidKind(b, c, k) ==
  /\ b < L /\ k = Preference[b + 1] /\ Wanted(b + 1)
  /\ c <= Len(Readable(Found(k)))
  /\ Written = OwedTo(b) \o [m \in 1 .. c |-> <<k, Found(k)[m]>>]

Out ==
  Long =>
    /\ status = "running" =>
         /\ pc \notin {"kind", "files"} => bi = 0
         /\ pc = "kind" => \E b \in 0 .. 3 : b = bi /\ BetweenKinds(b)
         /\ pc = "files" => \E b \in 0 .. 3, c \in Nat, k \in Kinds :
                              /\ b = bi /\ c = bj /\ k = kind
                              /\ AmidKind(b, c, k)
    /\ status = "ok" => Written = Owed

(* What is owed does not change while no attribute is read. *)
LEMMA SameOwed ==
  ASSUME input' = input, opts' = opts
  PROVE  /\ Preference' = Preference /\ L' = L /\ Attached' = Attached
         /\ Long' = Long /\ Owed' = Owed
         /\ \A n : Absent(n)' = Absent(n) /\ Wanted(n)' = Wanted(n)
         /\ \A j : OwedTo(j)' = OwedTo(j)
<1>1. Preference' = Preference
  BY DEF Preference
<1>2. L' = L /\ Attached' = Attached /\ Long' = Long
  BY <1>1, SameInput DEF L, Attached, Long
<1>3. ASSUME NEW n PROVE Found(Preference[n])' = Found(Preference[n])
  <2>1. PICK k : k = Preference[n]
    OBVIOUS
  <2>2. Preference[n]' = k
    BY <1>1, <2>1
  <2>3. ASSUME NEW i
        PROVE  /\ IsText(i, k)' = IsText(i, k)
               /\ BodyPropsOf(i, k)' = BodyPropsOf(i, k)
    BY Zenon DEF IsText, BodyPropsOf, IsList
  <2>4. ASSUME NEW i
        PROVE  /\ HasBody(i, k)' = HasBody(i, k)
               /\ BodyIn(i, k)' = BodyIn(i, k)
    <3>1. HasBody(i, k)' = HasBody(i, k)
      BY <2>3, Zenon DEF HasBody
    <3>2. PICK vs : vs = input[i].value[Max(BodyPropsOf(i, k))].values
      OBVIOUS
    <3>3. vs = (input[i].value[Max(BodyPropsOf(i, k))].values)'
      BY <2>3, <3>2, Zenon
    <3>4. BodyIn(i, k)' = BodyIn(i, k)
      BY <2>3, <3>2, <3>3 DEF BodyIn
    <3> QED
      BY <3>1, <3>4, Zenon
  <2>5. {i \in DOMAIN input : HasBody(i, k)}'
           = {i \in DOMAIN input : HasBody(i, k)}
    BY <2>4
  <2> QED
    BY <2>1, <2>2, <2>4, <2>5 DEF Found
<1>4. \A n : Absent(n)' = Absent(n)
  BY <1>3 DEF Absent
<1>5. ASSUME NEW n PROVE Wanted(n)' = Wanted(n)
  BY <1>3 DEF Wanted
<1>6. ASSUME NEW n PROVE Bodies(n)' = Bodies(n)
  BY <1>1, <1>3, <1>5 DEF Bodies
<1>7. \A j : OwedTo(j)' = OwedTo(j)
  BY <1>6 DEF OwedTo
<1>8. Owed' = Owed
  BY <1>2, <1>6 DEF Owed, OwedTo
<1> QED
  BY <1>1, <1>2, <1>4, <1>5, <1>7, <1>8

(* Where bodies are written the attachments are in the log. *)
LEMMA AttachedFirst ==
  ASSUME InOrder, DirTypeOK,
         (status = "running" /\ pc \in {"kind", "files"}) \/ status = "ok"
  PROVE  Attached \in Nat /\ Attached <= Len(log)
<1>1. PICK d \in Nat : Done = 1 .. d /\ d = Cardinality(Starts)
  BY DEF InOrder, Finished, Stage
<1>2. Len(log) \in Nat /\ DOMAIN log = 1 .. Len(log)
  BY DEF DirTypeOK
<1>3. Done \subseteq 1 .. Len(log)
  BY <1>2 DEF Done
<1>4. d <= Len(log)
  <2>1. d > 0 => d \in 1 .. d
    OBVIOUS
  <2> QED
    BY <1>1, <1>2, <1>3, <2>1
<1> QED
  BY <1>1, <1>4 DEF Attached

(* A run that was stopped owes no bodies. *)
LEMMA OutStops ==
  ASSUME NEW how \in {"fail", "abort"}, Stops(how)
  PROVE  Out'
BY DEF Out, Stops, Ends

(* Before the end of the stream none is written. *)
LEMMA OutBefore ==
  ASSUME Out, status = "running", opts' = opts, bi' = bi, status' # "ok",
         pc \notin {"kind", "files"}, pc' \notin {"kind", "files"}
  PROVE  Out'
<1>1. Long' = Long
  BY DEF Long
<1> QED
  BY <1>1 DEF Out

(* What is written does not change while no file is. *)
LEMMA SameWritten ==
  ASSUME log' = log, Attached' = Attached
  PROVE  Written' = Written
BY DEF Written, Pair

(* The place between two kinds while nothing is read or written. *)
LEMMA SamePlace ==
  ASSUME input' = input, opts' = opts, log' = log,
         NEW b \in 0 .. 3, BetweenKinds(b)
  PROVE  BetweenKinds(b)'
BY SameOwed, SameWritten DEF BetweenKinds

(* The search for bodies begins where the attachments end. *)
LEMMA WriteLastOut ==
  ASSUME IInv, InOrder, Out, status = "running", WriteLast
  PROVE  Out'
<1>1. /\ pc = "last" /\ pc' = "kind" /\ input' = input /\ bi' = bi
      /\ opts' = opts /\ DirTypeOK /\ Read
  BY IInvParts DEF WriteLast, bodyVars, dirVars, file_write
<1>2. status' \in {"running", "fail", "abort"}
  <2>1. CASE file_write(file, "attachment")
    BY <2>1, Completes
  <2>2. CASE UNCHANGED dirVars
    BY <2>2 DEF dirVars
  <2> QED
    BY <2>1, <2>2 DEF WriteLast
<1>3. ASSUME Long, status' = "running" PROVE bi' = 0 /\ BetweenKinds(0)'
  <2>1. bi' = 0
    BY <1>1, <1>3 DEF Out
  <2>2. Len(log') = Attached'
    BY <1>1, <1>3, WriteLastInOrder, SameOwed DEF Attached
  <2>3. Attached' \in Nat
    BY <1>1, StartsBounded, FS_CardinalityType, SameOwed DEF Attached, Finite
  <2>4. Len(log') - Attached' = 0
    <3>1. PICK n \in Nat : n = Attached'
      BY <2>3
    <3>2. n - n = 0
      OBVIOUS
    <3> QED
      BY <2>2, <3>1, <3>2, Zenon
  <2>5. Written' = <<>>
    BY <2>4 DEF Written
  <2>6. OwedTo(0)' = <<>> /\ L' \in 1 .. 3
    BY <1>1, OwedNothing, SameOwed, PreferenceType
  <2> QED
    BY <2>1, <2>5, <2>6 DEF BetweenKinds
<1>4. Long' = Long
  BY <1>1, SameOwed
<1>5. 0 \in 0 .. 3
  OBVIOUS
<1> QED
  BY <1>1, <1>2, <1>3, <1>4, <1>5 DEF Out

(* A kind is found or the next one is looked for. *)
LEMMA NextKindOut ==
  ASSUME IInv, Held, Out, status = "running", NextKind
  PROVE  Out'
<1>1. /\ pc = "kind" /\ opts.saveBody /\ bi < 3 /\ input' = input
      /\ Settled /\ bi \in 0 .. 3
  BY IInvParts DEF NextKind, Settled, Local
<1>2. CASE Stops("fail")
  BY <1>2, OutStops
<1>3. CASE ~Long
  <2>1. Stops("fail") \/ opts' = opts
    BY DEF NextKind, dirVars
  <2> QED
    BY <1>1, <1>2, <1>3, <2>1, SameOwed DEF Out
<1>4. ASSUME Long, ~Stops("fail") PROVE Out'
  <2>1. PICK b \in 0 .. 3 : b = bi /\ BetweenKinds(b)
    BY <1>1, <1>4 DEF Out
  <2>2. /\ L \in 1 .. 3 /\ (opts.all => L = 3)
        /\ \A n \in 1 .. L : Preference[n] \in Kinds
    BY <1>1, PreferenceType DEF Settled
  <2>3. ~opts.all => L = Len(opts.pref) /\ L \in 2 .. 3
    BY <1>4, <2>2 DEF Long, Preference, L
  <2>4. b < 3 /\ b <= L
    BY <1>1, <2>1, <2>2, <2>3
  <2>5. PrefChars(bi) = IF b < L THEN {Preference[b + 1]} ELSE {NULL}
    <3>1. CASE opts.all
      BY <2>1, <2>2, <2>4, <3>1 DEF PrefChars, Preference
    <3>2. CASE ~opts.all
      BY <2>1, <2>3, <2>4, <3>2 DEF PrefChars, Preference
    <3> QED
      BY <3>1, <3>2
  <2>6. PICK k \in PrefChars(bi) :
          \/ /\ k \in Kinds /\ body[k] # NULL
             /\ kind' = k /\ bj' = 0 /\ pc' = "files"
             /\ UNCHANGED <<dirVars, file, props, body, bi>>
          \/ /\ k \in Kinds => body[k] = NULL
             /\ bi' = bi + 1
             /\ UNCHANGED <<dirVars, pc, file, props, body, bj, kind>>
    BY <1>4 DEF NextKind
  <2>7. /\ opts' = opts /\ log' = log /\ status' = "running"
    BY <2>6, <1>1 DEF dirVars
  <2>8. k \in Kinds => body[k] = Found(k)
    BY <1>1, FoundType
  <2>9. k \in Kinds => b < L /\ k = Preference[b + 1]
    BY <2>5, ExtractAssumption
  <2>10. Long' = Long /\ L' = L /\ Written' = Written
    BY <1>1, <2>7, SameOwed, SameWritten
  <2>11. CASE /\ k \in Kinds /\ body[k] # NULL
              /\ kind' = k /\ bj' = 0 /\ pc' = "files" /\ bi' = bi
    <3>1. b < L /\ k = Preference[b + 1] /\ Found(k) # NULL
      BY <2>8, <2>9, <2>11
    <3>2. Wanted(b + 1)
      <4>1. (b + 1) - 1 = b
        BY <2>1
      <4>2. ASSUME ~opts.all, NEW n \in 1 .. b
            PROVE  Found(Preference[n]) = NULL
        <5>1. n <= L
          BY <2>2, <3>1
        <5> QED
          BY <2>1, <2>4, <4>2, <5>1 DEF BetweenKinds, Absent
      <4> QED
        BY <1>1, <3>1, <4>1, <4>2 DEF Wanted
    <3>3. Written = OwedTo(b) /\ OwedTo(b) \in Seq(Piece)
      BY <1>1, <2>1, <2>2, <3>1, OwedType DEF BetweenKinds
    <3>4. [m \in 1 .. 0 |-> <<k, Found(k)[m]>>] = <<>>
      OBVIOUS
    <3>5. Written = OwedTo(b) \o [m \in 1 .. 0 |-> <<k, Found(k)[m]>>]
      BY <3>3, <3>4
    <3>6. Found(k) \in Seq(Data \cup {Hole})
      BY <1>1, <2>11, <3>1, FoundType
    <3>7. 0 <= Len(Readable(Found(k)))
      <4>1. PICK v \in Seq(Data \cup {Hole}) : v = Found(k)
        BY <3>6
      <4>2. Len(Readable(v)) \in 0 .. Len(v)
        BY <4>1, ReadableFacts
      <4> QED
        BY <4>1, <4>2
    <3>8. AmidKind(b, 0, k)
      BY <3>1, <3>2, <3>5, <3>7 DEF AmidKind
    <3>9. AmidKind(b, 0, k)'
      <4>1. Found(k)' = Found(k)
        BY <1>1, SameBodies
      <4>2. /\ Preference' = Preference /\ Wanted(b + 1)' = Wanted(b + 1)
            /\ OwedTo(b)' = OwedTo(b)
        BY <1>1, <2>7, SameOwed
      <4> QED
        BY <2>10, <3>8, <4>1, <4>2 DEF AmidKind
    <3>10. 0 \in Nat
      OBVIOUS
    <3> QED
      BY <2>1, <2>7, <2>11, <3>9, <3>10 DEF Out
  <2>12. CASE (k \in Kinds => body[k] = NULL) /\ bi' = bi + 1 /\ pc' = pc
    <3>1. PICK c \in 0 .. 3 : c = b + 1
      BY <2>4
    <3>2. b < L => Absent(b + 1) /\ ~Wanted(b + 1)
      <4>1. b < L => k \in Kinds /\ k = Preference[b + 1]
        BY <2>2, <2>5
      <4> QED
        BY <2>8, <2>12, <4>1 DEF Absent, Wanted
    <3>3. BetweenKinds(c)
      <4>1. ASSUME ~opts.all, c < 3, NEW n \in 1 .. c, n <= L
            PROVE  Absent(n)
        <5>1. CASE n \in 1 .. b
          BY <2>1, <2>4, <4>1, <5>1 DEF BetweenKinds
        <5>2. CASE n = b + 1
          BY <2>2, <3>2, <4>1, <5>2
        <5> QED
          BY <3>1, <5>1, <5>2
      <4>2. CASE b < L
        <5>1. OwedTo(c) = OwedTo(b) \o Bodies(c) /\ OwedTo(b) \in Seq(Piece)
          BY <1>1, <2>1, <2>2, <3>1, <4>2, OwedNext
        <5>2. Bodies(c) = <<>>
          BY <1>1, <2>2, <3>1, <3>2, <4>2, BodiesFacts
        <5>3. Written = OwedTo(c)
          BY <2>1, <4>2, <5>1, <5>2 DEF BetweenKinds
        <5>4. c = L => OwedTo(c) = Owed
          BY DEF Owed
        <5> QED
          BY <1>1, <2>2, <3>1, <4>1, <4>2, <5>3, <5>4 DEF BetweenKinds
      <4>3. CASE ~(b < L)
        BY <1>1, <2>1, <2>2, <3>1, <4>1, <4>3 DEF BetweenKinds
      <4> QED
        BY <4>2, <4>3
    <3>4. BetweenKinds(c)'
      BY <1>1, <2>7, <3>3, SamePlace
    <3> QED
      BY <1>1, <2>1, <2>7, <2>12, <3>1, <3>4 DEF Out
  <2> QED
    BY <2>6, <2>11, <2>12
<1> QED
  BY <1>2, <1>3, <1>4

(* A call that leaves its record adds one file to what is written. *)
LEMMA WrittenGrows ==
  ASSUME log \in Seq(Entry), Attached \in Nat, Attached <= Len(log),
         Attached' = Attached, NEW e, log' = Append(log, e),
         Written \in Seq(Piece), Pair(e) \in Piece
  PROVE  Written' = Append(Written, Pair(e))
<1>1. PICK n \in Nat : n = Attached
  OBVIOUS
<1>2. PICK w \in Nat : w = Len(log) - n
  <2>1. Len(log) \in Nat /\ n <= Len(log)
    BY <1>1
  <2>2. Len(log) - n \in Nat
    BY <2>1
  <2> QED
    BY <2>2
<1>3. /\ DOMAIN log = 1 .. n + w /\ Len(log') = n + w + 1
      /\ log'[n + w + 1] = e
      /\ \A i \in 1 .. n + w : log'[i] = log[i]
  BY <1>1, <1>2
<1>4. Written = [i \in 1 .. w |-> Pair(log[n + i])]
  BY <1>1, <1>2 DEF Written
<1>5. Written' = [i \in 1 .. w + 1 |-> Pair(log'[n + i])]
  <2>1. Len(log') - n = w + 1
    BY <1>3
  <2> QED
    BY <1>1, <2>1 DEF Written, Pair
<1>6. ASSUME NEW i \in 1 .. w PROVE log'[n + i] = log[n + i]
  BY <1>3
<1>7. PICK g : g = [i \in 1 .. w + 1 |-> Pair(log'[n + i])]
  OBVIOUS
<1>8. Written = [i \in 1 .. w |-> g[i]]
  <2>1. ASSUME NEW i \in 1 .. w PROVE Pair(log[n + i]) = g[i]
    <3>1. i \in 1 .. w + 1
      OBVIOUS
    <3> QED
      BY <1>6, <1>7, <3>1
  <2> QED
    BY <1>4, <2>1
<1>9. Written' = [i \in 1 .. w + 1 |-> g[i]]
  BY <1>5, <1>7
<1>10. g[w + 1] = Pair(e)
  <2>1. log'[n + (w + 1)] = e /\ w + 1 \in 1 .. w + 1
    BY <1>3
  <2> QED
    BY <1>7, <2>1
<1>11. [i \in 1 .. w + 1 |-> g[i]] = Append([i \in 1 .. w |-> g[i]], g[w + 1])
  BY OneElementMore
<1> QED
  BY <1>8, <1>9, <1>10, <1>11, Zenon

(* The next value of the body is written. *)
LEMMA WriteBodyOut ==
  ASSUME IInv, InOrder, Held, Out, status = "running", WriteBody
  PROVE  Out'
<1>1. /\ pc = "files" /\ pc' = "files" /\ input' = input /\ FileLeft
      /\ bj' = bj + 1 /\ bi' = bi /\ kind' = kind
      /\ Settled /\ DirTypeOK
  BY IInvParts DEF WriteBody, Settled, Local
<1>2. PICK name, mime : file_write(BodyFile(name, mime), kind)
  BY <1>1 DEF WriteBody
<1>3. PICK x : x = BodyFile(name, mime) /\ x.data = body[kind][bj + 1]
  <2>1. BodyFile(name, mime).data = body[kind][bj + 1]
    BY DEF BodyFile, FreshFile
  <2> QED
    BY <2>1
<1>4. opts' = opts
  BY <1>2 DEF file_write
<1>5. CASE status' \in {"fail", "abort"}
  BY <1>5 DEF Out
<1>6. CASE /\ \E how, at : log' = Append(log, [src |-> kind, file |-> x,
                                              how |-> how, at |-> at])
           /\ status' = "running"
  <2>1. PICK e : /\ log' = Append(log, e)
                 /\ Pair(e) = <<kind, body[kind][bj + 1]>>
    BY <1>3, <1>6 DEF Pair
  <2>2. SUFFICES ASSUME Long PROVE Out'
    BY <1>1, <1>4, SameOwed DEF Out
  <2>3. PICK b \in 0 .. 3, c \in Nat, k \in Kinds :
          b = bi /\ c = bj /\ k = kind /\ AmidKind(b, c, k)
    BY <1>1, <2>2 DEF Out
  <2>4. b < L /\ k = Preference[b + 1] /\ Wanted(b + 1) /\ L \in 1 .. 3
    BY <1>1, <2>3, PreferenceType DEF AmidKind
  <2>5. PICK v \in Seq(Data \cup {Hole}) : v = Found(k) /\ v = body[k]
    BY <1>1, <2>4, FoundType DEF Wanted
  <2>6. c + 1 \in DOMAIN v /\ v[c + 1] # Hole
    BY <1>1, <2>3, <2>5 DEF FileLeft
  <2>7. PICK r \in Nat : r = Len(Readable(v)) /\ r <= Len(v) /\ c <= r
    <3>1. Len(Readable(v)) \in 0 .. Len(v)
      BY ReadableFacts
    <3>2. c <= Len(Readable(v))
      BY <2>3, <2>5 DEF AmidKind
    <3> QED
      BY <3>1, <3>2
  <2>8. c + 1 <= r
    <3>1. c \in 0 .. Len(Readable(v))
      BY <2>7
    <3> QED
      BY <2>6, <2>7, <3>1, ReadableFacts
  <2>9. OwedTo(b) \in Seq(Piece)
    BY <1>1, <2>4, OwedType
  <2>10. \A m \in 1 .. c + 1 : <<k, v[m]>> \in Piece
    <3>1. \A m \in 1 .. c + 1 : m \in 1 .. Len(v)
      BY <2>7, <2>8
    <3>2. \A m \in 1 .. c + 1 : v[m] \in Data \cup {Hole}
      BY <3>1
    <3> QED
      BY <3>2 DEF Piece
  <2>11. /\ Written = OwedTo(b) \o [m \in 1 .. c |-> <<k, v[m]>>]
         /\ Written \in Seq(Piece)
         /\ OwedTo(b) \o [m \in 1 .. c + 1 |-> <<k, v[m]>>]
              = Append(Written, <<k, v[c + 1]>>)
    <3>1. Written = OwedTo(b) \o [m \in 1 .. c |-> <<k, v[m]>>]
      BY <2>3, <2>5 DEF AmidKind
    <3>2. PICK o \in Seq(Piece) : o = OwedTo(b)
      BY <2>9
    <3>3. PICK g : g = [m \in 1 .. c + 1 |-> <<k, v[m]>>]
      OBVIOUS
    <3>4. \A m \in 1 .. c + 1 : g[m] = <<k, v[m]>> /\ g[m] \in Piece
      BY <2>10, <3>3
    <3>5. /\ o \o [m \in 1 .. c |-> g[m]] \in Seq(Piece)
          /\ o \o [m \in 1 .. c + 1 |-> g[m]]
               = Append(o \o [m \in 1 .. c |-> g[m]], g[c + 1])
      BY <3>4, JoinedAppend
    <3>6. \A m \in 1 .. c : m \in 1 .. c + 1
      OBVIOUS
    <3>7. /\ [m \in 1 .. c |-> g[m]] = [m \in 1 .. c |-> <<k, v[m]>>]
          /\ [m \in 1 .. c + 1 |-> g[m]] = [m \in 1 .. c + 1 |-> <<k, v[m]>>]
      BY <3>4, <3>6
    <3>8. g[c + 1] = <<k, v[c + 1]>>
      <4>1. c + 1 \in 1 .. c + 1
        OBVIOUS
      <4> QED
        BY <3>4, <4>1
    <3> QED
      BY <3>1, <3>2, <3>5, <3>7, <3>8, Zenon
  <2>12. Pair(e) = <<k, v[c + 1]>> /\ Pair(e) \in Piece
    <3>1. Pair(e) = <<k, v[c + 1]>>
      BY <2>1, <2>3, <2>5
    <3>2. c + 1 \in 1 .. c + 1
      OBVIOUS
    <3> QED
      BY <2>10, <3>1, <3>2
  <2>13. Attached' = Attached /\ Attached \in Nat /\ Attached <= Len(log)
    BY <1>1, <1>4, SameOwed, AttachedFirst
  <2>14. Written' = Append(Written, <<k, v[c + 1]>>)
    BY <1>1, <2>1, <2>11, <2>12, <2>13, WrittenGrows DEF DirTypeOK
  <2>15. PICK d \in Nat : d = c + 1 /\ d = bj'
    BY <1>1, <2>3
  <2>16. AmidKind(b, d, k)'
    <3>1. Found(k)' = v
      BY <1>1, <2>5, SameBodies
    <3>2. /\ Preference' = Preference /\ Wanted(b + 1)' = Wanted(b + 1)
          /\ OwedTo(b)' = OwedTo(b) /\ L' = L
      BY <1>1, <1>4, SameOwed
    <3>3. Written' = OwedTo(b) \o [m \in 1 .. d |-> <<k, v[m]>>]
      BY <2>11, <2>14, <2>15
    <3>4. d <= Len(Readable(v))
      BY <2>7, <2>8, <2>15
    <3> QED
      BY <2>4, <3>1, <3>2, <3>3, <3>4 DEF AmidKind
  <2> QED
    BY <1>1, <1>6, <2>3, <2>15, <2>16 DEF Out
<1> QED
  BY <1>2, <1>3, <1>5, <1>6, Completes

(* All the files of the kind are written, and for a preference that is not *)
(* "all" no other kind is owed.                                            *)
LEMMA KindDoneOut ==
  ASSUME IInv, Held, Out, status = "running", KindDone
  PROVE  Out'
<1>1. /\ pc = "files" /\ pc' = "kind" /\ input' = input /\ ~FileLeft
      /\ UNCHANGED <<opts, log, status>>
      /\ bi' = IF opts.all THEN bi + 1 ELSE 3
      /\ Settled /\ DirTypeOK
  BY IInvParts DEF KindDone, Settled, dirVars
<1>2. SUFFICES ASSUME Long PROVE Out'
  BY <1>1, SameOwed DEF Out
<1>3. PICK b \in 0 .. 3, c \in Nat, k \in Kinds :
        b = bi /\ c = bj /\ k = kind /\ AmidKind(b, c, k)
  BY <1>1, <1>2 DEF Out
<1>4. /\ b < L /\ k = Preference[b + 1] /\ Wanted(b + 1) /\ L \in 1 .. 3
      /\ opts.all => L = 3
  BY <1>1, <1>3, PreferenceType DEF AmidKind
<1>5. PICK v \in Seq(Data \cup {Hole}) : v = Found(k) /\ v = body[k]
  BY <1>1, <1>4, FoundType DEF Wanted
<1>6. PICK r \in 0 .. Len(v) : r = Len(Readable(v)) /\ c <= r
  <2>1. Len(Readable(v)) \in 0 .. Len(v)
    BY ReadableFacts
  <2>2. c <= Len(Readable(v))
    BY <1>3, <1>5 DEF AmidKind
  <2> QED
    BY <2>1, <2>2
<1>7. c = r
  <2>1. ~(c + 1 \in DOMAIN v /\ v[c + 1] # Hole)
    BY <1>1, <1>3, <1>5 DEF FileLeft
  <2>2. c \in 0 .. Len(Readable(v))
    BY <1>6
  <2>3. ~(c + 1 <= r)
    BY <1>6, <2>1, <2>2, ReadableFacts
  <2> QED
    BY <1>6, <2>3
<1>8. PICK n \in 1 .. 3 : n = b + 1 /\ n <= L
  BY <1>4
<1>9. Bodies(n) = [m \in 1 .. c |-> <<k, v[m]>>]
  <2>1. n \in 1 .. L
    BY <1>4, <1>8
  <2>2. Bodies(n) = [m \in 1 .. Len(Readable(Found(k))) |-> <<k, Found(k)[m]>>]
    BY <1>1, <1>4, <1>8, <2>1, BodiesFacts
  <2> QED
    BY <1>5, <1>6, <1>7, <2>2
<1>10. Written = OwedTo(n)
  <2>1. OwedTo(n) = OwedTo(b) \o Bodies(n)
    <3>1. b + 1 <= L /\ b \in Nat
      BY <1>4
    <3>2. OwedTo(b + 1) = OwedTo(b) \o Bodies(b + 1)
      BY <1>1, <3>1, OwedNext
    <3> QED
      BY <1>8, <3>2
  <2>2. Written = OwedTo(b) \o [m \in 1 .. c |-> <<k, v[m]>>]
    BY <1>3, <1>5 DEF AmidKind
  <2> QED
    BY <1>9, <2>1, <2>2
<1>11. opts.saveBody /\ ~Absent(n)
  BY <1>4, <1>8 DEF Wanted, Absent
<1>12. PICK d \in 1 .. 3 : d = bi'
  BY <1>1, <1>3, <1>8
<1>13. BetweenKinds(d)
  <2>1. CASE opts.all
    <3>1. d = n
      BY <1>1, <1>3, <1>8, <1>12, <2>1
    <3>2. Written = IF d < L THEN OwedTo(d) ELSE Owed
      <4>1. n = L => OwedTo(n) = Owed
        BY DEF Owed
      <4> QED
        BY <1>4, <1>8, <1>10, <3>1, <4>1
    <3> QED
      BY <1>11, <2>1, <3>2 DEF BetweenKinds
  <2>2. CASE ~opts.all
    <3>1. d = 3
      BY <1>1, <1>12, <2>2
    <3>2. ASSUME NEW i \in n + 1 .. L PROVE ~Wanted(i)
      <4>1. n \in 1 .. i - 1
        BY <1>4, <1>8
      <4> QED
        BY <1>11, <2>2, <4>1 DEF Wanted, Absent
    <3>3. Owed = OwedTo(n)
      <4>1. n \in 0 .. L
        BY <1>4, <1>8
      <4> QED
        BY <1>1, <3>2, <4>1, OwedSame DEF Owed
    <3> QED
      BY <1>4, <1>10, <1>11, <3>1, <3>3 DEF BetweenKinds
  <2> QED
    BY <2>1, <2>2
<1>14. BetweenKinds(d)' /\ d \in 0 .. 3
  BY <1>1, <1>13, SamePlace
<1> QED
  BY <1>1, <1>12, <1>14 DEF Out

(* What is written when parse_file returns is what is owed. *)
LEMMA ReturnOut ==
  ASSUME IInv, Held, Out, status = "running", Return
  PROVE  Out'
<1>1. /\ pc = "kind" /\ input' = input /\ status' = "ok"
      /\ UNCHANGED <<opts, log>>
      /\ ~opts.saveBody \/ bi = 3
      /\ Settled /\ DirTypeOK
  BY IInvParts DEF Return, Stops, Ends, Settled
<1>2. SUFFICES ASSUME Long PROVE Written = Owed
  <2>1. Long' = Long /\ Owed' = Owed /\ Written' = Written
    <3>1. Long' = Long /\ Owed' = Owed /\ Attached' = Attached
      BY <1>1, SameOwed
    <3>2. Written' = Written
      BY <1>1, <3>1, SameWritten
    <3> QED
      BY <3>1, <3>2
  <2> QED
    BY <1>1, <1>2, <2>1 DEF Out
<1>3. PICK b \in 0 .. 3 : b = bi /\ BetweenKinds(b)
  BY <1>1, <1>2 DEF Out
<1>4. L \in 1 .. 3
  BY <1>1, PreferenceType
<1>5. CASE b = 3
  BY <1>3, <1>4, <1>5 DEF BetweenKinds
<1>6. CASE ~opts.saveBody
  <2>1. b = 0 /\ Written = OwedTo(0)
    BY <1>3, <1>4, <1>6 DEF BetweenKinds
  <2>2. \A n : ~Wanted(n)
    BY <1>6 DEF Wanted
  <2>3. Owed = OwedTo(0)
    BY <1>1, <1>4, <2>2, OwedSame DEF Owed
  <2> QED
    BY <2>1, <2>3
<1> QED
  BY <1>1, <1>3, <1>5, <1>6

(* No attribute read writes a body. *)
LEMMA ReadAttrOut ==
  ASSUME Out, status = "running", NEW a, ReadAttr(a)
  PROVE  Out'
<1>1. pc = "attr"
  BY DEF ReadAttr
<1>2. \/ Stops("fail") \/ Stops("abort")
      \/ /\ UNCHANGED <<opts, status, bi>>
         /\ pc' \in {"attr", "attProps", "msgProps"}
      \/ file_write(file, "attachment") /\ UNCHANGED <<pc, bi>>
  <2>1. CASE AttrRejected(a)
    BY <2>1 DEF AttrRejected
  <2>2. CASE BeginAttachment(a)
    BY <1>1, <2>2 DEF BeginAttachment, SetFile, bodyVars, dirVars
  <2>3. CASE file_add_attr(a)
    BY <1>1, <2>3 DEF file_add_attr, SetFile, Ignored, mapi_attr_read,
                      bodyVars, dirVars
  <2>4. CASE MessageAttr(a)
    BY <1>1, <2>4 DEF MessageAttr, Ignored, mapi_attr_read, bodyVars, dirVars
  <2> QED
    BY <2>1, <2>2, <2>3, <2>4 DEF ReadAttr
<1>3. CASE file_write(file, "attachment") /\ UNCHANGED <<pc, bi>>
  <2>1. status' # "ok" /\ opts' = opts
    BY <1>3, Completes DEF file_write
  <2> QED
    BY <1>1, <1>3, <2>1, OutBefore
<1> QED
  BY <1>1, <1>2, <1>3, OutBefore, OutStops

(* Every step writes the bodies as they are owed. *)
LEMMA NextOut ==
  ASSUME IInv, InOrder, Held, Out, Next
  PROVE  Out'
<1>1. status = "running"
  BY DEF Next
<1>2. CASE \E a \in Attr : ReadAttr(a)
  BY <1>1, <1>2, ReadAttrOut
<1>3. CASE StartFile \/ EndOfInput \/ attr_read_fails \/ PropsDone
  <2>1. \/ Stops("fail") \/ Stops("abort")
        \/ /\ UNCHANGED <<opts, status, bi>>
           /\ pc \notin {"kind", "files"} /\ pc' \notin {"kind", "files"}
    BY <1>3 DEF StartFile, EndOfInput, attr_read_fails, PropsDone, Goto,
                bodyVars, dirVars
  <2> QED
    BY <1>1, <2>1, OutBefore, OutStops
<1>4. CASE file_add_mapi_attrs \/ AddMessageProp
  <2>1. \/ Stops("fail") \/ Stops("abort")
        \/ /\ UNCHANGED <<opts, status, bi, pc>>
           /\ pc \in {"attProps", "msgProps"}
    BY <1>4 DEF file_add_mapi_attrs, AddMessageProp, bodyVars, dirVars
  <2> QED
    BY <1>1, <2>1, OutBefore, OutStops
<1>5. CASE WriteLast
  BY <1>1, <1>5, WriteLastOut
<1>6. CASE NextKind
  BY <1>1, <1>6, NextKindOut
<1>7. CASE WriteBody
  BY <1>1, <1>7, WriteBodyOut
<1>8. CASE NameFreedTwice
  BY <1>8, OutStops DEF NameFreedTwice
<1>9. CASE KindDone
  BY <1>1, <1>9, KindDoneOut
<1>10. CASE Return
  BY <1>1, <1>10, ReturnOut
<1> QED
  BY <1>2, <1>3, <1>4, <1>5, <1>6, <1>7, <1>8, <1>9, <1>10 DEF Next

(* At first nothing is owed. *)
LEMMA InitOut == Init => Out
BY DEF Init, DirInit, Out

(* What is written after the attachments is what is owed. *)
LEMMA OwedIsFollowed ==
  ASSUME IInv, InOrder, Out
  PROVE  BodiesFollowPreference
<1>1. SUFFICES ASSUME status = "ok", Long
               PROVE  LET bodies == SubSeq(log, Attached + 1, Len(log)) IN
                      [i \in DOMAIN bodies |->
                         <<bodies[i].src, bodies[i].file.data>>]
                      = FlattenSeq([n \in DOMAIN Preference |-> Bodies(n)])
  BY DEF BodiesFollowPreference, Long, Attached
<1>2. DirTypeOK
  BY IInvParts
<1>3. PICK n \in Nat : n = Attached /\ n <= Len(log)
  BY <1>1, <1>2, AttachedFirst
<1>4. log \in Seq(Entry) /\ Len(log) \in Nat
  BY <1>2 DEF DirTypeOK
<1>5. PICK w \in Nat : w = Len(log) - n
  BY <1>3, <1>4
<1>6. PICK bodies : bodies = SubSeq(log, n + 1, Len(log))
  OBVIOUS
<1>7. DOMAIN bodies = 1 .. w /\ \A i \in 1 .. w : bodies[i] = log[n + i]
  <2>1. Len(log) = n + w
    BY <1>4, <1>5
  <2> QED
    BY <1>4, <1>6, <2>1
<1>8. Written = [i \in 1 .. w |-> Pair(log[n + i])]
  BY <1>3, <1>5 DEF Written
<1>9. Written = [i \in DOMAIN bodies |->
                   <<bodies[i].src, bodies[i].file.data>>]
  BY <1>7, <1>8 DEF Pair
<1>10. DOMAIN Preference = 1 .. L
  BY <1>2, PreferenceType DEF L
<1>11. Owed = FlattenSeq([m \in DOMAIN Preference |-> Bodies(m)])
  BY <1>10 DEF Owed, OwedTo
<1>12. Written = Owed
  BY <1>1 DEF Out
<1> QED
  BY <1>3, <1>6, <1>9, <1>11, <1>12

(* When parse_file returns 0 the bodies of any stream that --body-pref     *)
(* asks for were handed to file_write after the attachments, in its order, *)
(* each kind up to its first value that is not RTF, and nothing else was.  *)
THEOREM BodiesFollow == Spec => []BodiesFollowPreference
<1>1. ASSUME IInv, InOrder, Held, Out, [Next]_vars PROVE Held' /\ Out'
  <2>1. CASE UNCHANGED vars
    <3>1. UNCHANGED <<input, opts, log, status, pc, props, body, bi, bj, kind>>
      BY <2>1 DEF vars, dirVars
    <3>2. Held'
      BY <1>1, <3>1, SameBodies DEF Held, PendingBody
    <3>3. /\ Long' = Long /\ Owed' = Owed /\ Attached' = Attached
          /\ L' = L /\ Preference' = Preference
          /\ \A n : Wanted(n)' = Wanted(n)
          /\ \A j : OwedTo(j)' = OwedTo(j)
      BY <3>1, SameOwed
    <3>4. Written' = Written
      BY <3>1, <3>3, SameWritten
    <3>5. \A b \in 0 .. 3 : BetweenKinds(b) => BetweenKinds(b)'
      BY <3>1, SamePlace
    <3>6. \A k : Found(k)' = Found(k)
      BY <3>1, SameBodies
    <3>7. ASSUME NEW b, NEW c, NEW k, AmidKind(b, c, k)
          PROVE  AmidKind(b, c, k)'
      BY <3>3, <3>4, <3>6, <3>7 DEF AmidKind
    <3>8. Out'
      BY <1>1, <3>1, <3>3, <3>4, <3>5, <3>7 DEF Out
    <3> QED
      BY <3>2, <3>8
  <2>2. CASE Next
    BY <1>1, <2>2, NextHeld, NextOut
  <2> QED
    BY <1>1, <2>1, <2>2
<1>2. ASSUME IInv, InOrder, [Next]_vars PROVE InOrder'
  BY <1>2, StepInOrder
<1> QED
  BY <1>1, <1>2, InitInOrder, InitHeld, InitOut, OwedIsFollowed, Invariance,
     PTL DEF Spec


-----------------------------------------------------------------------------
(* How far parse_file has come *)

(* No more of a body list has been written than it holds. *)
Walking == pc = "files" => bj <= Len(body[kind])

Counted == Turns \in Nat

LEMMA TurnsCounted == IInv /\ Walking => Counted
<1> SUFFICES ASSUME IInv, Walking PROVE Turns \in Nat
  BY DEF Counted
<1>1. props \in Seq(Prop) /\ bj \in Nat
  BY DEF IInv, TypeOK
<1>2. CASE pc \in {"attProps", "msgProps"}
  BY <1>1, <1>2 DEF Turns
<1>3. CASE pc = "files"
  <2>1. kind \in Kinds /\ body[kind] # NULL
    BY <1>3 DEF IInv, Filling
  <2>2. body[kind] \in Seq(Data \cup {Hole})
    BY <2>1 DEF IInv, TypeOK
  <2>3. Turns = Len(body[kind]) - bj
    BY <1>3 DEF Turns
  <2>4. bj <= Len(body[kind])
    BY <1>3 DEF Walking
  <2> QED
    BY <1>1, <2>2, <2>3, <2>4
<1>4. CASE pc \notin {"attProps", "msgProps", "files"}
  BY <1>4 DEF Turns
<1> QED
  BY <1>2, <1>3, <1>4

(* What a step does to the place of parse_file, by its kind. *)
Ending == /\ status' # "running"
          /\ UNCHANGED <<pc, body, kind, bj>>

Coming == /\ pc' # "files"
          /\ \/ Len(input') > Len(input)
             \/ input' = input /\ Ahead' < Ahead
             \/ input' = input /\ Ahead' = Ahead /\ Turns' < Turns

Starting == /\ pc = "kind" /\ pc' = "files" /\ bj' = 0 /\ bi < 3
            /\ UNCHANGED <<body, bi, input>>
            /\ kind' \in Kinds /\ body[kind'] # NULL

Walks == /\ pc = "files" /\ FileLeft
         /\ bj' = bj + 1
         /\ UNCHANGED <<pc, body, kind, bi, input>>

StepKind == Ending \/ Coming \/ Starting \/ Walks

LEMMA StopsEnds ==
  ASSUME NEW how \in {"ok", "fail", "abort"}, Stops(how)
  PROVE  Ending
BY DEF Ending, Stops, Ends, bodyVars

(* An attribute is read: the bodies are not begun. *)
LEMMA ReadAttrComes ==
  ASSUME IInv, NEW a \in Attr, ReadAttr(a)
  PROVE  Ending \/ Coming
<1>1. pc = "attr"
  BY DEF ReadAttr
<1>2. CASE AttrRejected(a)
  BY <1>2, StopsEnds DEF AttrRejected
<1>3. CASE /\ input' = Append(input, a)
           /\ BeginAttachment(a) \/ file_add_attr(a) \/ MessageAttr(a)
  <2>1. ASSUME NEW list, NEW label \in {"attProps", "msgProps"},
               mapi_attr_read(list, label)
        PROVE  pc' # "files"
    BY <1>1, <2>1 DEF mapi_attr_read, Stops, Ignored
  <2>2. pc' # "files"
    <3>1. CASE BeginAttachment(a)
      BY <1>1, <3>1 DEF BeginAttachment, SetFile, Stops
    <3>2. CASE file_add_attr(a)
      BY <1>1, <2>1, <3>2 DEF file_add_attr, SetFile, Stops, Ignored
    <3>3. CASE MessageAttr(a)
      BY <1>1, <2>1, <3>3 DEF MessageAttr, Ignored
    <3> QED
      BY <1>3, <3>1, <3>2, <3>3
  <2>3. input \in Seq(Attr)
    BY DEF IInv, TypeOK
  <2>4. Len(input') > Len(input)
    BY <1>3, <2>3
  <2> QED
    BY <2>2, <2>4 DEF Coming
<1> QED
  BY <1>2, <1>3 DEF ReadAttr

(* A property of an attribute is applied. *)
LEMMA PropComes ==
  ASSUME IInv, pc \in {"attProps", "msgProps"}, props # <<>>,
         props' = Tail(props), UNCHANGED <<pc, input>>
  PROVE  Coming
<1>1. props \in Seq(Prop)
  BY DEF IInv, TypeOK
<1>2. Len(props') < Len(props)
  BY <1>1
<1>3. Turns' < Turns
  BY <1>2 DEF Turns
<1>4. Ahead' = Ahead
  BY DEF Ahead
<1> QED
  BY <1>3, <1>4 DEF Coming

LEMMA KindsOfStep ==
  ASSUME IInv, Next
  PROVE  StepKind
<1>1. CASE StartFile
  <2>1. CASE Goto("attr")
    BY <1>1, <2>1 DEF StartFile, Goto, Coming, Ahead, StepKind
  <2> QED
    BY <1>1, <2>1, StopsEnds DEF StartFile, StepKind
<1>2. CASE EndOfInput
  BY <1>2 DEF EndOfInput, Goto, Coming, Ahead, StepKind
<1>3. CASE attr_read_fails
  BY <1>3, StopsEnds DEF attr_read_fails, StepKind
<1>4. CASE \E a \in Attr : ReadAttr(a)
  BY <1>4, ReadAttrComes DEF StepKind
<1>5. CASE file_add_mapi_attrs
  <2>1. CASE Stops("abort")
    BY <2>1, StopsEnds DEF StepKind
  <2>2. CASE props' = Tail(props) /\ UNCHANGED pc
    BY <1>5, <2>2, PropComes DEF file_add_mapi_attrs, StepKind
  <2> QED
    BY <1>5, <2>1, <2>2 DEF file_add_mapi_attrs
<1>6. CASE AddMessageProp
  <2>1. CASE Stops("abort") \/ Stops("fail")
    BY <2>1, StopsEnds DEF StepKind
  <2>2. CASE props' = Tail(props) /\ UNCHANGED pc
    BY <1>6, <2>2, PropComes DEF AddMessageProp, StepKind
  <2> QED
    BY <1>6, <2>1, <2>2 DEF AddMessageProp
<1>7. CASE PropsDone
  BY <1>7 DEF PropsDone, Goto, Coming, Ahead, StepKind
<1>8. CASE WriteLast
  <2>1. bi \in 0 .. 3 /\ bi' = bi
    BY <1>8 DEF WriteLast, bodyVars, IInv, TypeOK
  <2>2. Ahead' < Ahead
    BY <1>8, <2>1 DEF WriteLast, Ahead
  <2> QED
    BY <1>8, <2>2 DEF WriteLast, Coming, StepKind
<1>9. CASE NextKind
  <2>1. pc = "kind" /\ bi < 3 /\ input' = input /\ bi \in 0 .. 3
    BY <1>9 DEF NextKind, IInv, TypeOK
  <2>2. CASE Starting
    BY <2>2 DEF StepKind
  <2>3. CASE bi' = bi + 1 /\ pc' = pc
    <3>1. Ahead = 7 - 2 * bi /\ Ahead' = 7 - 2 * (bi + 1)
      BY <2>1, <2>3 DEF Ahead
    <3>2. Ahead' < Ahead
      BY <2>1, <3>1
    <3> QED
      BY <2>1, <2>3, <3>2 DEF Coming, StepKind
  <2>4. CASE Stops("fail")
    BY <2>4, StopsEnds DEF StepKind
  <2> QED
    BY <1>9, <2>1, <2>2, <2>3, <2>4 DEF NextKind, Starting
<1>10. CASE WriteBody
  BY <1>10 DEF WriteBody, Walks, StepKind
<1>11. CASE NameFreedTwice
  BY <1>11, StopsEnds DEF NameFreedTwice, StepKind
<1>12. CASE KindDone
  <2>1. pc = "files" /\ pc' = "kind" /\ input' = input
        /\ bi' \in {bi + 1, 3}
    BY <1>12 DEF KindDone
  <2>2. bi \in 0 .. 3 /\ bi < 3
    BY <2>1 DEF IInv, TypeOK, Filling
  <2>3. Ahead = 6 - 2 * bi /\ Ahead' = 7 - 2 * bi'
    BY <2>1 DEF Ahead
  <2>4. bi' \in Nat /\ bi < bi'
    BY <2>1, <2>2
  <2>5. Ahead' < Ahead
    <3>1. PICK b \in Nat, c \in Nat : b = bi /\ c = bi'
      BY <2>2, <2>4
    <3>2. Ahead = 6 - 2 * b /\ Ahead' = 7 - 2 * c /\ b < c
      BY <2>3, <2>4, <3>1
    <3>3. 7 - 2 * c < 6 - 2 * b
      BY <3>2
    <3> QED
      BY <3>2, <3>3
  <2> QED
    BY <2>1, <2>5 DEF Coming, StepKind
<1>13. CASE Return
  BY <1>13, StopsEnds DEF Return, StepKind
<1> QED
  BY <1>1, <1>2, <1>3, <1>4, <1>5, <1>6, <1>7, <1>8, <1>9, <1>10, <1>11,
     <1>12, <1>13 DEF Next

LEMMA WalkingKept ==
  ASSUME IInv, Walking, [Next]_vars
  PROVE  Walking'
<1>1. CASE UNCHANGED vars
  BY <1>1 DEF Walking, vars, bodyVars
<1>2. CASE Ending
  BY <1>2 DEF Ending, Walking
<1>3. CASE Coming
  BY <1>3 DEF Coming, Walking
<1>4. CASE Starting
  <2>1. body[kind'] \in Seq(Data \cup {Hole})
    BY <1>4 DEF Starting, IInv, TypeOK
  <2> QED
    BY <1>4, <2>1 DEF Starting, Walking
<1>5. CASE Walks
  <2>1. kind \in Kinds /\ body[kind] # NULL
    BY <1>5 DEF Walks, IInv, Filling
  <2>2. body[kind] \in Seq(Data \cup {Hole}) /\ bj \in Nat
    BY <2>1 DEF IInv, TypeOK
  <2>3. bj + 1 <= Len(body[kind])
    BY <1>5, <2>2 DEF Walks, FileLeft
  <2> QED
    BY <1>5, <2>3 DEF Walks, Walking
<1> QED
  BY <1>1, <1>2, <1>3, <1>4, <1>5, KindsOfStep DEF StepKind

Forward ==
  /\ status = "running"
  /\ Turns' \in Nat
  /\ \/ status' # "running"
     \/ Len(input') > Len(input)
     \/ input' = input /\ Ahead' < Ahead
     \/ input' = input /\ Ahead' = Ahead /\ Turns' < Turns

LEMMA NextForward ==
  ASSUME IInv, Counted', Next
  PROVE  Forward
<1>1. status = "running" /\ Turns' \in Nat
  BY DEF Next, Counted
<1>2. CASE Ending
  BY <1>1, <1>2 DEF Ending, Forward
<1>3. CASE Coming
  BY <1>1, <1>3 DEF Coming, Forward
<1>4. CASE Starting
  <2>1. bi \in 0 .. 3
    BY DEF IInv, TypeOK
  <2>2. Ahead = 7 - 2 * bi /\ Ahead' = 6 - 2 * bi
    BY <1>4 DEF Starting, Ahead
  <2>3. Ahead' < Ahead
    BY <2>1, <2>2
  <2> QED
    BY <1>1, <1>4, <2>3 DEF Starting, Forward
<1>5. CASE Walks
  <2>1. Ahead' = Ahead
    BY <1>5 DEF Walks, Ahead
  <2>2. kind \in Kinds /\ body[kind] # NULL
    BY <1>5 DEF Walks, IInv, Filling
  <2>3. body[kind] \in Seq(Data \cup {Hole}) /\ bj \in Nat
    BY <2>2 DEF IInv, TypeOK
  <2>4. Turns = Len(body[kind]) - bj /\ Turns' = Len(body[kind]) - (bj + 1)
    BY <1>5 DEF Walks, Turns
  <2>5. Turns' < Turns
    BY <2>3, <2>4
  <2> QED
    BY <1>1, <1>5, <2>1, <2>5 DEF Walks, Forward
<1> QED
  BY <1>2, <1>3, <1>4, <1>5, KindsOfStep DEF StepKind

(* parse_file is never sent back: whatever the stream, a step ends the     *)
(* run, reads an attribute or leaves less to do until the next is read.    *)
THEOREM GoesForward == Spec => OnlyForward
<1>1. Init => Walking
  BY DEF Init, Walking
<1>2. IInv /\ Walking /\ [Next]_vars => Walking'
  BY WalkingKept
<1>3. IInv /\ Walking => Counted
  BY TurnsCounted
<1>4. IInv /\ Counted' /\ Next => Forward
  BY NextForward
<1>5. OnlyForward <=> [][Forward]_vars
  BY DEF OnlyForward, Forward
<1> QED
  BY Invariance, <1>1, <1>2, <1>3, <1>4, <1>5, PTL DEF Spec
=============================================================================
