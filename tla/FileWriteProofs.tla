-------------------------- MODULE FileWriteProofs --------------------------
(***************************************************************************)
(* Theorems of FileWrite, for any number of runs with any settings and     *)
(* files, in any directory: no file that was there is lost unless a run    *)
(* may overwrite it, and only the window between finding a name free and   *)
(* opening it can cost a run what it wrote.                                *)
(***************************************************************************)
EXTENDS FileWriteAtomic, TLAPS

Contents == Seq(Block \cup {Hole})

-----------------------------------------------------------------------------
(* The operators *)

(* The first block of what is left is one of the data. *)
LEMMA JobTyped ==
  ASSUME TypeOK, NEW p \in Proc, todo[p] # <<>>
  PROVE  /\ File(p) \in Job /\ Tail(todo[p]) \in Seq(Job)
         /\ File(p).path \in Path /\ File(p).path \in Base
         /\ File(p).data \in Seq(Block)
<1>1. todo[p] \in Seq(Job)
  BY DEF TypeOK
<1>2. File(p) \in Job /\ Tail(todo[p]) \in Seq(Job)
  BY <1>1 DEF File
<1> QED
  BY <1>2, FileWriteAssumption DEF Job

(* A block written into new contents leaves new contents. *)
LEMMA WriteAtTyped ==
  ASSUME NEW s \in Contents, NEW k \in Nat \ {0}, NEW b \in Block
  PROVE  WriteAt(s, k, b) \in Contents
<1> DEFINE m == IF Len(s) < k THEN k ELSE Len(s)
<1>1. m \in Nat /\ k <= m
  OBVIOUS
<1>2. \A n \in 1 .. m :
        (IF n = k THEN b ELSE IF n <= Len(s) THEN s[n] ELSE Hole)
          \in Block \cup {Hole}
  BY DEF Contents
<1>3. WriteAt(s, k, b) =
        [n \in 1 .. m |->
           IF n = k THEN b ELSE IF n <= Len(s) THEN s[n] ELSE Hole]
  BY DEF WriteAt
<1> HIDE DEF m
<1> QED
  BY <1>1, <1>2, <1>3 DEF Contents

(* A block written behind a prefix makes it one longer. *)
LEMMA WriteAtExtends ==
  ASSUME NEW d \in Seq(Block), NEW n \in Nat, n < Len(d)
  PROVE  WriteAt(SubSeq(d, 1, n), n + 1, d[n + 1]) = SubSeq(d, 1, n + 1)
  BY DEF WriteAt

(* What is put at a path is there, and the rest is as it was. *)
LEMMA PutTyped ==
  ASSUME TypeOK, NEW q \in Path, NEW c \in Contents
  PROVE  /\ DOMAIN Put(q, c) = DOMAIN dir \cup {q}
         /\ DOMAIN Put(q, c) \subseteq Path
         /\ Put(q, c) \in [DOMAIN Put(q, c) -> Contents \cup {Old}]
         /\ Put(q, c)[q] = c /\ c # Old
         /\ \A r \in DOMAIN dir : r # q => Put(q, c)[r] = dir[r]
<1>1. c # Old
  BY FileWriteAssumption DEF Contents
<1> QED
  BY <1>1 DEF Put, TypeOK, Contents

-----------------------------------------------------------------------------
(* The types *)

(* A file being written has been truncated, so it is not an old one. *)
Truncates == \A p \in Proc : pc[p] = "write" => dir[target[p]] # Old

Typing == TypeOK /\ Truncates

(* At first nothing is being written. *)
LEMMA StartsTyped == Init => Typing
<1> SUFFICES ASSUME Init PROVE Typing
  OBVIOUS
<1>1. PICK S \in Existing : dir = [q \in S |-> Old]
  BY DEF Init
<1>2. S \subseteq Path
  BY FileWriteAssumption
<1>3. todo \in [Proc -> Seq(Job)]
  BY FileWriteAssumption DEF Init
<1>4. TypeOK
  BY <1>1, <1>2, <1>3 DEF Init, TypeOK, Labels
<1> QED
  BY <1>4 DEF Init, Typing, Truncates

(* A call that returns takes the next file and is logged. *)
LEMMA ReturnsTyped ==
  ASSUME TypeOK, NEW p \in Proc, todo[p] # <<>>,
         NEW how \in {"declined", "refused", "stored", "torn"},
         NEW at \in Path \cup {NULL}, Returns(p, how, at)
  PROVE  /\ pc' \in [Proc -> Labels] /\ pc'[p] = "start"
         /\ \A r \in Proc \ {p} : pc'[r] = pc[r] /\ todo'[r] = todo[r]
                                                 /\ log'[r] = log[r]
         /\ todo' \in [Proc -> Seq(Job)]
         /\ log' \in [Proc -> Seq(Entry)]
         /\ log'[p] = Append(log[p], [job |-> File(p), how |-> how, at |-> at])
<1>1. File(p) \in Job /\ Tail(todo[p]) \in Seq(Job)
  BY JobTyped
<1>2. [job |-> File(p), how |-> how, at |-> at] \in Entry
  BY <1>1 DEF Entry
<1>3. /\ pc' = [pc EXCEPT ![p] = "start"]
      /\ todo' = [todo EXCEPT ![p] = Tail(@)]
      /\ log' = [log EXCEPT
           ![p] = Append(@, [job |-> File(p), how |-> how, at |-> at])]
  BY DEF Returns, Goto, Logged
<1>4. /\ pc \in [Proc -> Labels] /\ todo \in [Proc -> Seq(Job)]
      /\ log \in [Proc -> Seq(Entry)]
  BY DEF TypeOK
<1>5. pc' \in [Proc -> Labels] /\ todo' \in [Proc -> Seq(Job)]
  BY <1>1, <1>3, <1>4 DEF Labels
<1>6. log' \in [Proc -> Seq(Entry)]
  BY <1>2, <1>3, <1>4
<1> QED
  BY <1>3, <1>4, <1>5, <1>6

(* A run goes on to a step at which it writes nothing. *)
LEMMA MovesTyped ==
  ASSUME Typing, NEW p \in Proc, todo[p] # <<>>,
         NEW label \in Labels \ {"write"}, Goto(p, label),
         NEW q \in Path \cup {NULL}, label # "start" => q \in Path,
         target' = [target EXCEPT ![p] = q], number' \in [Proc -> Nat],
         UNCHANGED opts, UNCHANGED <<dir, status, todo, off, history>>
  PROVE  Typing'
<1>1. /\ pc' = [pc EXCEPT ![p] = label] /\ pc \in [Proc -> Labels]
      /\ target \in [Proc -> Path \cup {NULL}]
  BY DEF Goto, Typing, TypeOK
<1>2. /\ pc' \in [Proc -> Labels] /\ pc'[p] = label
      /\ target' \in [Proc -> Path \cup {NULL}] /\ target'[p] = q
      /\ \A r \in Proc \ {p} : pc'[r] = pc[r] /\ target'[r] = target[r]
  BY <1>1
<1>3. /\ UNCHANGED <<opts, dir, status, todo, off>>
      /\ UNCHANGED <<log, before, opened, contended>>
  BY DEF history
<1>4. \A r \in Proc :
        /\ pc'[r] # "start" => todo[r] # <<>> /\ target'[r] \in Path
        /\ pc'[r] = "write" => target'[r] \in DOMAIN dir
                                 /\ off[r] < Len(Head(todo[r]).data)
  BY <1>2 DEF Typing, TypeOK, File
<1>5. TypeOK'
  BY <1>2, <1>3, <1>4 DEF Typing, TypeOK, File
<1>6. Truncates'
  BY <1>2, <1>3 DEF Typing, Truncates
<1> QED
  BY <1>5, <1>6 DEF Typing

(* After the prompt a run goes to the path itself. *)
LEMMA ConfirmTyped ==
  ASSUME Typing, NEW p \in Proc, Confirm(p), UNCHANGED opts
  PROVE  Typing'
<1>1. File(p).path \in Path
  BY JobTyped DEF Confirm, Typing
<1>2. number' \in [Proc -> Nat]
  BY DEF Confirm, Typing, TypeOK
<1>3. CASE opts[p].overwrite
  BY <1>1, <1>2, <1>3, MovesTyped DEF Confirm, Labels, history
<1>4. CASE ~opts[p].overwrite
  BY <1>1, <1>2, <1>4, MovesTyped DEF Confirm, Labels, history
<1> QED
  BY <1>3, <1>4

(* Looking whether a path is free leaves it alone. *)
LEMMA CheckTyped ==
  ASSUME Typing, NEW p \in Proc,
         CheckFree(p) \/ CheckTaken(p) \/ NumberTaken(p), UNCHANGED opts
  PROVE  Typing'
<1>1. pc[p] \in {"check", "number"}
  BY DEF CheckFree, CheckTaken, NumberTaken
<1>2. /\ todo[p] # <<>> /\ target[p] \in Path
      /\ target \in [Proc -> Path \cup {NULL}] /\ pc \in [Proc -> Labels]
      /\ number \in [Proc -> Nat]
  BY <1>1 DEF Typing, TypeOK
<1>3. UNCHANGED target /\ UNCHANGED <<dir, status, todo, off, history>>
  BY DEF CheckFree, CheckTaken, NumberTaken, history
<1>4. target' = [target EXCEPT ![p] = target[p]]
  BY <1>2, <1>3
<1>5. number' \in [Proc -> Nat]
  BY <1>2 DEF CheckFree, CheckTaken, NumberTaken
<1>6. \E label \in {"open", "number"} : Goto(p, label)
  <2>1. NumberTaken(p) => Goto(p, "number")
    BY <1>2 DEF NumberTaken, Goto
  <2> QED
    BY <2>1 DEF CheckFree, CheckTaken
<1>7. PICK label \in {"open", "number"} : Goto(p, label)
  BY <1>6
<1>8. label \in Labels \ {"write"}
  BY DEF Labels
<1> QED
  BY <1>2, <1>3, <1>4, <1>5, <1>7, <1>8, MovesTyped

(* The numbered path found free is a path. *)
LEMMA NumberFreeTyped ==
  ASSUME Typing, NEW p \in Proc, NumberFree(p), UNCHANGED opts
  PROVE  Typing'
<1>1. Backup(p) \in Path
  BY JobTyped, FileWriteAssumption DEF NumberFree, Backup, Typing, TypeOK
<1>2. todo[p] # <<>> /\ number' \in [Proc -> Nat]
  BY DEF NumberFree, Typing, TypeOK
<1> QED
  BY <1>1, <1>2, MovesTyped DEF NumberFree, Labels, history

(* A call that returns, but for what it did to the directory. *)
LEMMA TakesNextTyped ==
  ASSUME Typing, NEW p \in Proc, todo[p] # <<>>,
         NEW how \in {"declined", "refused", "stored", "torn"},
         NEW at \in Path \cup {NULL}, Returns(p, how, at),
         UNCHANGED <<opts, dir, status, target, number, off>>,
         UNCHANGED <<before, opened, contended>>
  PROVE  Typing'
<1>1. /\ pc' \in [Proc -> Labels] /\ pc'[p] = "start"
      /\ \A r \in Proc \ {p} : pc'[r] = pc[r] /\ todo'[r] = todo[r]
      /\ todo' \in [Proc -> Seq(Job)]
      /\ log' \in [Proc -> Seq(Entry)]
  BY ReturnsTyped DEF Typing
<1>2. \A r \in Proc :
        /\ pc'[r] # "start" => todo'[r] # <<>> /\ target[r] \in Path
        /\ pc'[r] = "write" =>
             target[r] \in DOMAIN dir /\ off[r] < Len(Head(todo'[r]).data)
  BY <1>1 DEF Typing, TypeOK, File
<1>3. TypeOK'
  BY <1>1, <1>2 DEF Typing, TypeOK, File
<1>4. Truncates'
  BY <1>1 DEF Typing, TypeOK, Truncates
<1> QED
  BY <1>3, <1>4 DEF Typing

(* A file the user declines. *)
LEMMA DeclineTyped ==
  ASSUME Typing, NEW p \in Proc, Decline(p), UNCHANGED opts
  PROVE  Typing'
  BY TakesNextTyped DEF Decline

(* A file refused because its path exists. *)
LEMMA RefuseTyped ==
  ASSUME Typing, NEW p \in Proc, Refuse(p), UNCHANGED opts
  PROVE  Typing'
<1>1. todo[p] # <<>>
  BY DEF Refuse, Typing, TypeOK
<1> QED
  BY <1>1, TakesNextTyped DEF Refuse

(* A file whose last block is lost in fclose. *)
LEMMA FlushLostTyped ==
  ASSUME Typing, NEW p \in Proc, FlushLost(p), UNCHANGED opts
  PROVE  Typing'
<1>1. todo[p] # <<>> /\ target[p] \in Path
  BY DEF FlushLost, Typing, TypeOK
<1> QED
  BY <1>1, TakesNextTyped DEF FlushLost

(* A run that ends of itself. *)
LEMMA EndTyped ==
  ASSUME Typing, NEW p \in Proc, OpenFails(p) \/ Finish(p), UNCHANGED opts
  PROVE Typing'
  BY DEF OpenFails, Finish, history, Typing, TypeOK, Truncates, Labels, File

(* A file opened is empty, and no longer an old one. *)
LEMMA OpenTyped ==
  ASSUME Typing, NEW p \in Proc, Open(p), UNCHANGED opts
  PROVE  Typing'
<1> DEFINE q == target[p]
<1>1. todo[p] # <<>> /\ q \in Path
  BY DEF Open, Typing, TypeOK
<1>2. File(p).data \in Seq(Block)
  BY <1>1, JobTyped DEF Typing
<1>3. dir' = Put(q, <<>>)
  BY DEF Open, Truncated
<1>4. <<>> \in Contents
  BY DEF Contents
<1>5. /\ DOMAIN dir' = DOMAIN dir \cup {q} /\ DOMAIN dir' \subseteq Path
      /\ dir' \in [DOMAIN dir' -> Contents \cup {Old}]
      /\ dir'[q] # Old
      /\ \A r \in DOMAIN dir : r # q => dir'[r] = dir[r]
  <2>1. /\ DOMAIN Put(q, <<>>) = DOMAIN dir \cup {q}
        /\ DOMAIN Put(q, <<>>) \subseteq Path
        /\ Put(q, <<>>) \in [DOMAIN Put(q, <<>>) -> Contents \cup {Old}]
        /\ Put(q, <<>>)[q] = <<>> /\ <<>> # Old
        /\ \A r \in DOMAIN dir : r # q => Put(q, <<>>)[r] = dir[r]
    BY <1>1, <1>4, PutTyped DEF Typing
  <2> QED
    BY <2>1, <1>3
<1>6. off' = [off EXCEPT ![p] = 0] /\ opened' = opened \cup {<<p, q>>}
      /\ contended' \subseteq contended \cup {q}
      /\ UNCHANGED <<status, target, number>>
  BY DEF Open
<1>9. before' \in [Proc -> Contents \cup {Old, NULL}]
  BY DEF Open, file_exists, Typing, TypeOK, Contents
<1> HIDE DEF q
<1>7. CASE File(p).data = <<>>
  <2>1. Returns(p, "stored", q)
    BY <1>7 DEF Open, q
  <2>2. /\ pc' \in [Proc -> Labels] /\ pc'[p] = "start"
        /\ \A r \in Proc \ {p} : pc'[r] = pc[r] /\ todo'[r] = todo[r]
        /\ todo' \in [Proc -> Seq(Job)]
        /\ log' \in [Proc -> Seq(Entry)]
    BY <2>1, <1>1, ReturnsTyped DEF Typing
  <2>5. \A r \in Proc :
          /\ pc'[r] # "start" => todo'[r] # <<>> /\ target[r] \in Path
          /\ pc'[r] = "write" => target[r] \in DOMAIN dir'
                                   /\ off'[r] < Len(Head(todo'[r]).data)
    BY <2>2, <1>5, <1>6 DEF Typing, TypeOK, File
  <2>6. opened' \subseteq Proc \X Path /\ contended' \subseteq Path
    BY <1>1, <1>6 DEF Typing, TypeOK
  <2>7. off' \in [Proc -> Nat]
    BY <1>6 DEF Typing, TypeOK
  <2>3. TypeOK'
    BY <2>2, <2>5, <2>6, <2>7, <1>5, <1>6, <1>9
       DEF Typing, TypeOK, File, Contents
  <2>4. Truncates'
    BY <2>2, <1>1, <1>5, <1>6 DEF Typing, TypeOK, Truncates
  <2> QED
    BY <2>3, <2>4 DEF Typing
<1>8. CASE File(p).data # <<>>
  <2>1. pc' = [pc EXCEPT ![p] = "write"] /\ UNCHANGED <<todo, log>>
    BY <1>8 DEF Open, Goto
  <2>2. 0 < Len(File(p).data)
    BY <1>2, <1>8
  <2>5. \A r \in Proc :
          /\ pc'[r] # "start" => todo'[r] # <<>> /\ target[r] \in Path
          /\ pc'[r] = "write" => target[r] \in DOMAIN dir'
                                   /\ off'[r] < Len(Head(todo'[r]).data)
    BY <2>1, <2>2, <1>1, <1>5, <1>6 DEF Typing, TypeOK, File, q
  <2>6. opened' \subseteq Proc \X Path /\ contended' \subseteq Path
    BY <1>1, <1>6 DEF Typing, TypeOK
  <2>7. off' \in [Proc -> Nat] /\ pc' \in [Proc -> Labels]
    BY <1>6, <2>1 DEF Typing, TypeOK, Labels
  <2>3. TypeOK'
    BY <2>1, <2>5, <2>6, <2>7, <1>5, <1>6, <1>9
       DEF Typing, TypeOK, File, Contents
  <2>4. Truncates'
    BY <2>1, <1>1, <1>5, <1>6 DEF Typing, TypeOK, Truncates, q
  <2> QED
    BY <2>3, <2>4 DEF Typing
<1> QED
  BY <1>7, <1>8

(* What a block is written into is a file's content, and stays one. *)
LEMMA BlockWritten ==
  ASSUME Typing, NEW p \in Proc, WriteBlock(p)
  PROVE  /\ todo[p] # <<>> /\ target[p] \in Path /\ target[p] \in DOMAIN dir
         /\ dir[target[p]] \in Contents
         /\ off[p] + 1 \in 1 .. Len(File(p).data)
         /\ File(p).data \in Seq(Block)
         /\ DOMAIN dir' = DOMAIN dir
         /\ dir' \in [DOMAIN dir -> Contents \cup {Old}]
         /\ dir'[target[p]] # Old
         /\ dir'[target[p]] =
              WriteAt(dir[target[p]], off[p] + 1, File(p).data[off[p] + 1])
         /\ \A r \in DOMAIN dir : r # target[p] => dir'[r] = dir[r]
<1> DEFINE q == target[p]
<1> DEFINE b == File(p).data[off[p] + 1]
<1>1. todo[p] # <<>> /\ q \in Path /\ q \in DOMAIN dir /\ dir[q] \in Contents
      /\ off[p] \in Nat /\ off[p] < Len(File(p).data)
  BY DEF WriteBlock, Typing, TypeOK, Truncates, Contents
<1>2. File(p).data \in Seq(Block)
  BY <1>1, JobTyped DEF Typing
<1>3. off[p] + 1 \in 1 .. Len(File(p).data) /\ off[p] + 1 \in Nat \ {0}
  BY <1>1, <1>2
<1>4. b \in Block
  BY <1>2, <1>3
<1> DEFINE c == WriteAt(dir[q], off[p] + 1, b)
<1>5. dir' = Put(q, c)
  BY DEF WriteBlock
<1> HIDE DEF b
<1>6. c \in Contents
  BY <1>1, <1>3, <1>4, WriteAtTyped
<1> HIDE DEF c
<1>7. /\ DOMAIN dir' = DOMAIN dir \cup {q}
      /\ dir' \in [DOMAIN dir' -> Contents \cup {Old}]
      /\ dir'[q] = c /\ c # Old
      /\ \A r \in DOMAIN dir : r # q => dir'[r] = dir[r]
  <2>1. /\ DOMAIN Put(q, c) = DOMAIN dir \cup {q}
        /\ Put(q, c) \in [DOMAIN Put(q, c) -> Contents \cup {Old}]
        /\ Put(q, c)[q] = c /\ c # Old
        /\ \A r \in DOMAIN dir : r # q => Put(q, c)[r] = dir[r]
    BY <1>1, <1>6, PutTyped DEF Typing
  <2> QED
    BY <2>1, <1>5
<1>8. DOMAIN dir' = DOMAIN dir
  BY <1>1, <1>7
<1>9. dir' \in [DOMAIN dir -> Contents \cup {Old}]
  BY <1>7, <1>8
<1> QED
  BY <1>1, <1>2, <1>3, <1>7, <1>8, <1>9 DEF c, b

(* A block written, be it the last. *)
LEMMA WriteBlockTyped ==
  ASSUME Typing, NEW p \in Proc, WriteBlock(p), UNCHANGED opts
  PROVE  Typing'
<1>1. /\ todo[p] # <<>> /\ target[p] \in Path
      /\ off[p] + 1 \in 1 .. Len(File(p).data)
      /\ File(p).data \in Seq(Block)
      /\ DOMAIN dir' = DOMAIN dir
      /\ dir' \in [DOMAIN dir -> Contents \cup {Old}]
      /\ dir'[target[p]] # Old
      /\ \A r \in DOMAIN dir : r # target[p] => dir'[r] = dir[r]
  BY BlockWritten
<1>2. off' = [off EXCEPT ![p] = @ + 1]
      /\ UNCHANGED <<status, target, number, before, opened, contended>>
  BY DEF WriteBlock
<1>3. CASE LastBlock(p)
  <2>1. Returns(p, "stored", target[p])
    BY <1>3 DEF WriteBlock
  <2>2. /\ pc' \in [Proc -> Labels] /\ pc'[p] = "start"
        /\ \A r \in Proc \ {p} : pc'[r] = pc[r] /\ todo'[r] = todo[r]
        /\ todo' \in [Proc -> Seq(Job)]
        /\ log' \in [Proc -> Seq(Entry)]
    BY <2>1, <1>1, ReturnsTyped DEF Typing
  <2>3. TypeOK'
    <3>1. /\ opts' \in [Proc -> Options]
          /\ DOMAIN dir' \subseteq Path
          /\ dir' \in [DOMAIN dir' -> Seq(Block \cup {Hole}) \cup {Old}]
      BY <1>1 DEF Typing, TypeOK, Contents
    <3>2. /\ status' \in [Proc -> {"running", "ok", "fail", "killed"}]
          /\ target' \in [Proc -> Path \cup {NULL}]
          /\ number' \in [Proc -> Nat] /\ off' \in [Proc -> Nat]
          /\ before' \in [Proc -> Seq(Block \cup {Hole}) \cup {Old, NULL}]
          /\ opened' \subseteq Proc \X Path /\ contended' \subseteq Path
      BY <1>2 DEF Typing, TypeOK
    <3>3. ASSUME NEW r \in Proc
          PROVE  /\ pc'[r] # "start" => todo'[r] # <<>> /\ target'[r] \in Path
                 /\ pc'[r] = "write" => /\ target'[r] \in DOMAIN dir'
                                        /\ off'[r] < Len(File(r).data)'
      <4>1. CASE r = p
        BY <2>2, <4>1
      <4>2. CASE r # p
        <5>1. /\ pc'[r] = pc[r] /\ todo'[r] = todo[r]
              /\ target'[r] = target[r] /\ off'[r] = off[r]
              /\ DOMAIN dir' = DOMAIN dir
          BY <1>1, <1>2, <2>2, <4>2 DEF Typing, TypeOK
        <5>2. File(r)' = File(r)
          BY <5>1 DEF File
        <5> QED
          BY <5>1, <5>2 DEF Typing, TypeOK
      <4> QED
        BY <4>1, <4>2
    <3> QED
      BY <2>2, <3>1, <3>2, <3>3 DEF TypeOK
  <2>4. Truncates'
    BY <2>2, <1>1, <1>2 DEF Typing, TypeOK, Truncates
  <2> QED
    BY <2>3, <2>4 DEF Typing
<1>4. CASE ~LastBlock(p)
  <2>1. UNCHANGED <<pc, todo, log>>
    BY <1>4 DEF WriteBlock
  <2>2. off[p] + 1 < Len(File(p).data)
    BY <1>1, <1>4 DEF LastBlock
  <2>3. TypeOK'
    <3>1. /\ opts' \in [Proc -> Options]
          /\ DOMAIN dir' \subseteq Path
          /\ dir' \in [DOMAIN dir' -> Seq(Block \cup {Hole}) \cup {Old}]
      BY <1>1 DEF Typing, TypeOK, Contents
    <3>2. /\ status' \in [Proc -> {"running", "ok", "fail", "killed"}]
          /\ target' \in [Proc -> Path \cup {NULL}]
          /\ number' \in [Proc -> Nat] /\ off' \in [Proc -> Nat]
          /\ before' \in [Proc -> Seq(Block \cup {Hole}) \cup {Old, NULL}]
          /\ opened' \subseteq Proc \X Path /\ contended' \subseteq Path
          /\ pc' \in [Proc -> Labels] /\ todo' \in [Proc -> Seq(Job)]
          /\ log' \in [Proc -> Seq(Entry)]
      BY <1>2, <2>1 DEF Typing, TypeOK
    <3>3. \A r \in Proc : off'[r] = IF r = p THEN off[r] + 1 ELSE off[r]
      BY <1>2 DEF Typing, TypeOK
    <3>4. ASSUME NEW r \in Proc
          PROVE  /\ pc'[r] # "start" => todo'[r] # <<>> /\ target'[r] \in Path
                 /\ pc'[r] = "write" => /\ target'[r] \in DOMAIN dir'
                                        /\ off'[r] < Len(File(r).data)'
      <4>1. /\ pc' = pc /\ todo' = todo /\ target' = target
            /\ DOMAIN dir' = DOMAIN dir /\ File(r)' = File(r)
        BY <1>1, <1>2, <2>1 DEF File
      <4> QED
        BY <2>2, <3>3, <4>1 DEF Typing, TypeOK
    <3> QED
      BY <3>1, <3>2, <3>4 DEF TypeOK
  <2>4. Truncates'
    BY <2>1, <1>1, <1>2 DEF Typing, TypeOK, Truncates
  <2> QED
    BY <2>3, <2>4 DEF Typing
<1> QED
  BY <1>3, <1>4

(* A run that dies is logged when it was writing. *)
LEMMA DiesTyped ==
  ASSUME Typing, NEW p \in Proc, Dies(p), UNCHANGED opts
  PROVE  Typing'
<1>1. status' \in [Proc -> {"running", "ok", "fail", "killed"}]
  BY DEF Dies, Typing, TypeOK
<1>2. /\ UNCHANGED <<dir, pc, todo, target, number, off, before>>
      /\ UNCHANGED <<opened, contended>>
  BY DEF Dies
<1>3. log' \in [Proc -> Seq(Entry)]
  <2>1. CASE pc[p] = "write"
    <3>1. File(p) \in Job /\ target[p] \in Path
      BY <2>1, JobTyped DEF Typing, TypeOK
    <3>2. [job |-> File(p), how |-> "torn", at |-> target[p]] \in Entry
      BY <3>1 DEF Entry
    <3>3. log \in [Proc -> Seq(Entry)]
      BY DEF Typing, TypeOK
    <3> DEFINE e == [job |-> File(p), how |-> "torn", at |-> target[p]]
    <3>4. log' = [log EXCEPT ![p] = Append(@, e)]
      BY <2>1 DEF Dies, Logged
    <3>5. e \in Entry
      BY <3>2
    <3> HIDE DEF e
    <3> QED
      BY <3>3, <3>4, <3>5
  <2> QED
    BY <2>1 DEF Dies, Typing, TypeOK
<1> QED
  BY <1>1, <1>2, <1>3 DEF Typing, TypeOK, Truncates, File

(* A step that changes nothing. *)
LEMMA StutterTyped ==
  ASSUME Typing, UNCHANGED vars
  PROVE  Typing'
  BY DEF vars, local, history, Typing, TypeOK, Truncates, Labels, File

(* The types are an inductive invariant. *)
LEMMA NextTyped ==
  ASSUME Typing, [Next]_vars
  PROVE  Typing'
<1>1. ASSUME NEW p \in Proc, Step(p) PROVE Typing'
  BY <1>1, ConfirmTyped, DeclineTyped, CheckTyped, RefuseTyped, NumberFreeTyped,
     OpenTyped, EndTyped, WriteBlockTyped, FlushLostTyped DEF Step
<1>2. ASSUME NEW p \in Proc, Death(p) PROVE Typing'
  BY <1>2, DiesTyped DEF Death
<1> QED
  BY <1>1, <1>2, StutterTyped DEF Next

(* The types hold in every state, for any runs and files. *)
THEOREM Typed == Spec => []TypeOK
<1>1. Typing => TypeOK
  BY DEF Typing
<1> QED
  BY StartsTyped, NextTyped, <1>1, PTL DEF Spec

-----------------------------------------------------------------------------
(* The old files *)

(* A run without --overwrite opens no old file: it found the name free,    *)
(* and what came there meanwhile is another run's.                         *)
NoOldClaimed ==
  \A p \in Proc : \A q \in DOMAIN dir : Claims(p, q) => dir[q] # Old

(* What a step does to the directory: it writes to one path at most, the   *)
(* target of the run that opens or writes, and leaves no old file there.   *)
LEMMA DirectoryMoves ==
  ASSUME Typing, NEW p \in Proc, Step(p) \/ Death(p)
  PROVE  \/ dir' = dir
         \/ /\ Open(p) \/ WriteBlock(p)
            /\ target[p] \in Path
            /\ DOMAIN dir' = DOMAIN dir \cup {target[p]}
            /\ dir'[target[p]] # Old
            /\ \A r \in DOMAIN dir : r # target[p] => dir'[r] = dir[r]
<1>1. ASSUME Open(p)
      PROVE  /\ target[p] \in Path
             /\ DOMAIN dir' = DOMAIN dir \cup {target[p]}
             /\ dir'[target[p]] = <<>> /\ <<>> # Old
             /\ \A r \in DOMAIN dir : r # target[p] => dir'[r] = dir[r]
  <2>1. target[p] \in Path
    BY <1>1 DEF Open, Typing, TypeOK
  <2>2. dir' = Put(target[p], <<>>)
    BY <1>1 DEF Open, Truncated
  <2>3. <<>> \in Contents
    BY DEF Contents
  <2>4. /\ DOMAIN Put(target[p], <<>>) = DOMAIN dir \cup {target[p]}
        /\ Put(target[p], <<>>)[target[p]] = <<>> /\ <<>> # Old
        /\ \A r \in DOMAIN dir :
             r # target[p] => Put(target[p], <<>>)[r] = dir[r]
    BY <2>1, <2>3, PutTyped DEF Typing
  <2> QED
    BY <2>1, <2>2, <2>4
<1>2. ASSUME WriteBlock(p)
      PROVE  /\ target[p] \in Path
             /\ DOMAIN dir' = DOMAIN dir \cup {target[p]}
             /\ dir'[target[p]] # Old
             /\ \A r \in DOMAIN dir : r # target[p] => dir'[r] = dir[r]
  <2>1. /\ target[p] \in Path /\ target[p] \in DOMAIN dir
        /\ DOMAIN dir' = DOMAIN dir
        /\ dir'[target[p]] # Old
        /\ \A r \in DOMAIN dir : r # target[p] => dir'[r] = dir[r]
    BY <1>2, BlockWritten
  <2>2. DOMAIN dir' = DOMAIN dir \cup {target[p]}
    BY <2>1
  <2> QED
    BY <2>1, <2>2
<1>3. Open(p) \/ WriteBlock(p) \/ dir' = dir
  BY DEF Step, Death, Confirm, Decline, CheckFree, Refuse, CheckTaken,
     NumberTaken, NumberFree, OpenFails, FlushLost, Finish, Dies
<1> QED
  BY <1>1, <1>2, <1>3

(* Whoever finds a name free finds no old file there.                      *)
LEMMA ClaimsAreFree ==
  ASSUME Typing, NEW p \in Proc, Step(p) \/ Death(p), NEW r \in Proc,
         NEW q, Claims(r, q)'
  PROVE  \/ Claims(r, q) /\ (r = p => ~Open(p) /\ ~WriteBlock(p))
         \/ q \notin DOMAIN dir /\ dir' = dir
<1>1. pc \in [Proc -> Labels] /\ target \in [Proc -> Path \cup {NULL}]
  BY DEF Typing, TypeOK
<1>2. UNCHANGED opts
  BY DEF Step, Death
<1>3. CASE Confirm(p)
  BY <1>1, <1>2, <1>3 DEF Confirm, Claims, Goto, Open, WriteBlock
<1>4. ASSUME NEW how, NEW at, Returns(p, how, at), UNCHANGED target
      PROVE  r # p /\ Claims(r, q)
  BY <1>1, <1>2, <1>4 DEF Returns, Goto, Claims
<1>5. CASE Decline(p) \/ Refuse(p) \/ FlushLost(p)
  BY <1>4, <1>5 DEF Decline, Refuse, FlushLost
<1>6. CASE CheckFree(p)
  BY <1>1, <1>2, <1>6 DEF CheckFree, Claims, Goto, file_exists, Open, WriteBlock
<1>7. CASE CheckTaken(p)
  BY <1>1, <1>2, <1>7 DEF CheckTaken, Claims, Goto, Open, WriteBlock
<1>8. CASE NumberTaken(p)
  BY <1>1, <1>2, <1>8 DEF NumberTaken, Claims, Open, WriteBlock
<1>9. CASE NumberFree(p)
  BY <1>1, <1>2, <1>9
     DEF NumberFree, Claims, Goto, file_exists, Open, WriteBlock
<1>10. CASE Open(p)
  <2>1. CASE File(p).data = <<>>
    BY <2>1, <1>4, <1>10 DEF Open
  <2>2. CASE File(p).data # <<>>
    BY <2>2, <1>1, <1>2, <1>10 DEF Open, Goto, Claims
  <2> QED
    BY <2>1, <2>2
<1>11. CASE WriteBlock(p)
  <2>1. CASE LastBlock(p)
    BY <2>1, <1>4, <1>11 DEF WriteBlock
  <2>2. CASE ~LastBlock(p)
    BY <2>2, <1>1, <1>2, <1>11 DEF WriteBlock, Claims
  <2> QED
    BY <2>1, <2>2
<1>12. CASE OpenFails(p) \/ Finish(p)
  BY <1>1, <1>2, <1>12 DEF OpenFails, Finish, Claims, Open, WriteBlock
<1>13. CASE Dies(p) /\ ~Open(p) /\ ~WriteBlock(p)
  BY <1>1, <1>2, <1>13 DEF Dies, Claims
<1> QED
  BY <1>3, <1>5, <1>6, <1>7, <1>8, <1>9, <1>10, <1>11, <1>12, <1>13
     DEF Step, Death

(* Neither what a run finds free nor what is written is an old file. *)
LEMMA NoOldClaimedKept ==
  ASSUME Typing, NoOldClaimed, [Next]_vars
  PROVE  NoOldClaimed'
<1>1. ASSUME NEW p \in Proc, Step(p) \/ Death(p) PROVE NoOldClaimed'
  <2>1. SUFFICES ASSUME NEW r \in Proc, NEW q \in DOMAIN dir', Claims(r, q)'
                 PROVE  dir'[q] # Old
    BY DEF NoOldClaimed
  <2>2. \/ Claims(r, q)
        \/ q \notin DOMAIN dir /\ dir' = dir
    BY <1>1, <2>1, ClaimsAreFree
  <2>3. Claims(r, q)
    BY <2>1, <2>2
  <2>4. q \in DOMAIN dir => dir[q] # Old
    BY <2>3 DEF NoOldClaimed
  <2> QED
    BY <1>1, <2>1, <2>4, DirectoryMoves
<1>2. ASSUME UNCHANGED vars PROVE NoOldClaimed'
  BY <1>2 DEF vars, local, NoOldClaimed, Claims
<1> QED
  BY <1>1, <1>2 DEF Next

(* No interleaving of any runs touches a file that was there before them,  *)
(* unless a run with --overwrite opens it: a run that found the name free  *)
(* opens no old file, and a file being written is none (Truncates).        *)
THEOREM OldKept == Spec => OldFilesKept
<1> DEFINE Kept ==
      \A q \in DOMAIN dir :
        dir[q] = Old => \/ q \in DOMAIN dir' /\ dir'[q] = Old
                        \/ Overwritten(q)'
<1>1. ASSUME Typing, NoOldClaimed, NEW p \in Proc, Step(p) \/ Death(p)
      PROVE  Kept
  <2>1. SUFFICES ASSUME NEW q \in DOMAIN dir, dir[q] = Old,
                        ~(q \in DOMAIN dir' /\ dir'[q] = Old)
                 PROVE  Overwritten(q)'
    OBVIOUS
  <2>2. q = target[p] /\ (Open(p) \/ WriteBlock(p))
    BY <1>1, <2>1, DirectoryMoves
  <2>3. ~WriteBlock(p)
    BY <1>1, <2>1, <2>2 DEF WriteBlock, Typing, Truncates
  <2>4. Open(p)
    BY <2>2, <2>3
  <2>5. ~Claims(p, q)
    BY <1>1, <2>1 DEF NoOldClaimed
  <2>6. opts[p].overwrite
    BY <2>2, <2>4, <2>5 DEF Open, Claims
  <2>7. <<p, q>> \in opened' /\ opts' = opts
    BY <1>1, <2>2, <2>4 DEF Open, Step, Death
  <2> QED
    BY <2>6, <2>7 DEF Overwritten
<1>2. ASSUME Typing, NoOldClaimed, [Next]_vars PROVE [Kept]_vars
  BY <1>1, <1>2 DEF Next
<1>3. Init => NoOldClaimed
  BY DEF Init, NoOldClaimed, Claims
<1> HIDE DEF Kept
<1>4. Spec => [][Kept]_vars
  BY StartsTyped, NextTyped, NoOldClaimedKept, <1>2, <1>3, PTL DEF Spec
<1> QED
  BY <1>4 DEF OldFilesKept, Kept

-----------------------------------------------------------------------------
(* What was written *)

(* What a run without --overwrite may find at a path that is not its own:  *)
(* it was opened in the window, or a run overwrote it.                     *)
Spoilt(q) == q \in contended \/ Overwritten(q)

Writes(p, q) == pc[p] = "write" /\ target[p] = q

(* The i-th call of p that came to an end wrote q to the end. *)
Wrote(p, i, q) ==
  /\ i \in DOMAIN log[p]
  /\ log[p][i].how = "stored" /\ log[p][i].at = q

(* A path that is not spoilt has one writer at most, then nobody has       *)
(* written it to the end, and what is there is what the writer put there;  *)
(* who wrote it to the end finds it whole; and no run that takes it for    *)
(* free finds it there.                                                    *)
Sound(q) ==
  /\ q \in DOMAIN dir => \A r \in Proc : ~Claims(r, q)
  /\ \A r \in Proc : Writes(r, q) =>
       /\ dir[q] = SubSeq(File(r).data, 1, off[r])
       /\ \A s \in Proc : Writes(s, q) => s = r
       /\ \A s \in Proc, i \in Nat : ~Wrote(s, i, q)
  /\ \A r \in Proc, i \in Nat : Wrote(r, i, q) =>
       q \in DOMAIN dir /\ dir[q] = log[r][i].job.data

AllSound == \A q \in Path \cup {NULL} : Spoilt(q) \/ Sound(q)

(* A path once spoilt is spoilt for good. *)
LEMMA SpoiltGrows ==
  ASSUME NEW p \in Proc, Step(p) \/ Death(p), NEW q, Spoilt(q)
  PROVE  Spoilt(q)'
<1>1. UNCHANGED opts
  BY DEF Step, Death
<1>2. opened \subseteq opened' /\ contended \subseteq contended'
  BY DEF Step, Death, Confirm, Decline, CheckFree, Refuse, CheckTaken,
     NumberTaken, NumberFree, Open, OpenFails, WriteBlock, FlushLost, Finish,
     Dies, history
<1> QED
  BY <1>1, <1>2 DEF Spoilt, Overwritten

(* Who writes after a step: who wrote before it, at the same place, or the *)
(* run that has just opened the file or written a block of it.             *)
LEMMA Writers ==
  ASSUME Typing, NEW p \in Proc, Step(p) \/ Death(p), NEW r \in Proc,
         NEW q, Writes(r, q)'
  PROVE  \/ /\ Writes(r, q) /\ todo'[r] = todo[r] /\ off'[r] = off[r]
            /\ r = p => ~Open(p) /\ ~WriteBlock(p)
         \/ /\ r = p /\ Open(p) /\ q = target[p] /\ File(p).data # <<>>
            /\ todo'[p] = todo[p] /\ off'[p] = 0
         \/ /\ r = p /\ WriteBlock(p) /\ q = target[p] /\ ~LastBlock(p)
            /\ todo'[p] = todo[p] /\ off'[p] = off[p] + 1
<1>1. /\ pc \in [Proc -> Labels] /\ target \in [Proc -> Path \cup {NULL}]
      /\ todo \in [Proc -> Seq(Job)] /\ off \in [Proc -> Nat]
  BY DEF Typing, TypeOK
<1>2. CASE Confirm(p)
  BY <1>1, <1>2 DEF Confirm, Writes, Goto, Open, WriteBlock
<1>3. ASSUME NEW how, NEW at, Returns(p, how, at), UNCHANGED target
      PROVE  r # p /\ Writes(r, q) /\ todo'[r] = todo[r]
  BY <1>1, <1>3 DEF Returns, Goto, Writes
<1>4. CASE Decline(p) \/ Refuse(p) \/ FlushLost(p)
  BY <1>3, <1>4 DEF Decline, Refuse, FlushLost
<1>5. CASE CheckFree(p) \/ CheckTaken(p) \/ NumberTaken(p) \/ NumberFree(p)
  BY <1>1, <1>5 DEF CheckFree, CheckTaken, NumberTaken, NumberFree, Writes,
     Goto, Open, WriteBlock
<1>6. CASE Open(p)
  <2>1. off'[p] = 0 /\ \A s \in Proc \ {p} : off'[s] = off[s]
    BY <1>1, <1>6 DEF Open
  <2>2. CASE File(p).data = <<>>
    BY <2>1, <2>2, <1>3, <1>6 DEF Open
  <2>3. CASE File(p).data # <<>>
    BY <2>1, <2>3, <1>1, <1>6 DEF Open, Goto, Writes
  <2> QED
    BY <2>2, <2>3
<1>7. CASE WriteBlock(p)
  <2>1. off'[p] = off[p] + 1 /\ \A s \in Proc \ {p} : off'[s] = off[s]
    BY <1>1, <1>7 DEF WriteBlock
  <2>2. CASE LastBlock(p)
    BY <2>1, <2>2, <1>3, <1>7 DEF WriteBlock
  <2>3. CASE ~LastBlock(p)
    BY <2>1, <2>3, <1>1, <1>7 DEF WriteBlock, Writes
  <2> QED
    BY <2>2, <2>3
<1>8. CASE OpenFails(p) \/ Finish(p)
  BY <1>1, <1>8 DEF OpenFails, Finish, Writes, Open, WriteBlock
<1>9. CASE Dies(p) /\ ~Open(p) /\ ~WriteBlock(p)
  BY <1>1, <1>9 DEF Dies, Writes
<1> QED
  BY <1>2, <1>4, <1>5, <1>6, <1>7, <1>8, <1>9 DEF Step, Death

(* The log grows by what a step has written to the end. *)
LEMMA Logs ==
  ASSUME Typing, NEW p \in Proc, Step(p) \/ Death(p), NEW r \in Proc,
         NEW i \in Nat, NEW q, Wrote(r, i, q)'
  PROVE  \/ Wrote(r, i, q) /\ log'[r][i] = log[r][i]
         \/ /\ r = p /\ q = target[p] /\ log'[r][i].job = File(p)
            /\ \/ Open(p) /\ File(p).data = <<>>
               \/ WriteBlock(p) /\ LastBlock(p)
<1>1. log \in [Proc -> Seq(Entry)]
  BY DEF Typing, TypeOK
<1>2. ASSUME UNCHANGED log PROVE Wrote(r, i, q) /\ log'[r][i] = log[r][i]
  BY <1>2 DEF Wrote
<1>3. ASSUME NEW how \in {"declined", "refused", "stored", "torn"},
             NEW at \in Path \cup {NULL}, Logged(p, how, at), todo[p] # <<>>
      PROVE  \/ Wrote(r, i, q) /\ log'[r][i] = log[r][i]
             \/ /\ r = p /\ q = at /\ log'[r][i].job = File(p)
                /\ how = "stored"
  <2>1. PICK e : e = [job |-> File(p), how |-> how, at |-> at]
    OBVIOUS
  <2>2. e \in Entry
    BY <2>1, <1>3, JobTyped DEF Entry, Typing
  <2>3. log' = [log EXCEPT ![p] = Append(@, e)]
    BY <2>1, <1>3 DEF Logged
  <2>4. e.job = File(p) /\ e.how = how /\ e.at = at
    BY <2>1
  <2>5. i \in DOMAIN log'[r] /\ log'[r][i].how = "stored" /\ log'[r][i].at = q
    BY DEF Wrote
  <2>6. CASE r = p
    <3>1. log'[p] = Append(log[p], e) /\ log[p] \in Seq(Entry)
      BY <2>3, <1>1
    <3>2. i \in 1 .. Len(log[p]) + 1
      BY <2>2, <2>5, <2>6, <3>1
    <3>3. CASE i = Len(log[p]) + 1
      BY <2>2, <2>4, <2>5, <2>6, <3>1, <3>3
    <3>4. CASE i \in 1 .. Len(log[p])
      BY <2>2, <2>5, <2>6, <3>1, <3>4 DEF Wrote
    <3> QED
      BY <3>1, <3>2, <3>3, <3>4
  <2>7. CASE r # p
    BY <2>3, <2>5, <2>7, <1>1 DEF Wrote
  <2> QED
    BY <2>6, <2>7
<1>4. pc[p] # "start" => todo[p] # <<>> /\ target[p] \in Path
  BY DEF Typing, TypeOK
<1>5. CASE Decline(p)
  BY <1>3, <1>5 DEF Decline, Returns
<1>6. CASE Refuse(p)
  BY <1>3, <1>4, <1>6 DEF Refuse, Returns
<1>7. CASE FlushLost(p)
  BY <1>3, <1>4, <1>7 DEF FlushLost, Returns
<1>8. CASE Dies(p)
  BY <1>2, <1>3, <1>4, <1>8 DEF Dies
<1>9. CASE Open(p)
  BY <1>2, <1>3, <1>4, <1>9 DEF Open, Returns
<1>10. CASE WriteBlock(p)
  BY <1>2, <1>3, <1>4, <1>10 DEF WriteBlock, Returns
<1>11. CASE Confirm(p) \/ CheckFree(p) \/ CheckTaken(p) \/ NumberTaken(p)
              \/ NumberFree(p) \/ OpenFails(p) \/ Finish(p)
  BY <1>2, <1>11 DEF Confirm, CheckFree, CheckTaken, NumberTaken, NumberFree,
     OpenFails, Finish, history
<1> QED
  BY <1>5, <1>6, <1>7, <1>8, <1>9, <1>10, <1>11 DEF Step, Death

(* A step that writes nothing at a path leaves it sound. *)
LEMMA SoundElsewhere ==
  ASSUME Typing, NEW p \in Proc, Step(p) \/ Death(p), NEW q,
         Sound(q), target[p] = q => ~Open(p) /\ ~WriteBlock(p)
  PROVE  Sound(q)'
<1>1. q \in DOMAIN dir' <=> q \in DOMAIN dir
  BY DirectoryMoves
<1>2. q \in DOMAIN dir => dir'[q] = dir[q]
  BY DirectoryMoves
<1>3. ASSUME NEW r \in Proc, Claims(r, q)'
      PROVE  Claims(r, q) \/ q \notin DOMAIN dir
  BY <1>3, ClaimsAreFree
<1>4. ASSUME NEW r \in Proc, Writes(r, q)'
      PROVE  Writes(r, q) /\ todo'[r] = todo[r] /\ off'[r] = off[r]
  BY <1>4, Writers
<1>5. ASSUME NEW r \in Proc, NEW i \in Nat, Wrote(r, i, q)'
      PROVE  Wrote(r, i, q) /\ log'[r][i] = log[r][i]
  BY <1>5, Logs
<1>6. ASSUME NEW r \in Proc, Writes(r, q) PROVE q \in DOMAIN dir
  BY <1>6 DEF Typing, TypeOK, Writes
<1>7. (q \in DOMAIN dir => \A r \in Proc : ~Claims(r, q))'
  BY <1>1, <1>3 DEF Sound
<1>8. ASSUME NEW r \in Proc, Writes(r, q)'
      PROVE  /\ dir'[q] = SubSeq(File(r)'.data, 1, off'[r])
             /\ \A s \in Proc : Writes(s, q)' => s = r
             /\ \A s \in Proc, i \in Nat : ~Wrote(s, i, q)'
  <2>1. Writes(r, q) /\ todo'[r] = todo[r] /\ off'[r] = off[r]
    BY <1>4, <1>8
  <2>2. dir'[q] = dir[q]
    BY <1>2, <1>6, <2>1
  <2>3. /\ dir[q] = SubSeq(File(r).data, 1, off[r])
        /\ \A s \in Proc : Writes(s, q) => s = r
        /\ \A s \in Proc, i \in Nat : ~Wrote(s, i, q)
    BY <2>1 DEF Sound
  <2>4. dir'[q] = SubSeq(File(r)'.data, 1, off'[r])
    BY <2>1, <2>2, <2>3 DEF File
  <2> QED
    BY <2>3, <2>4, <1>4, <1>5
<1>9. ASSUME NEW r \in Proc, NEW i \in Nat, Wrote(r, i, q)'
      PROVE  q \in DOMAIN dir' /\ dir'[q] = log'[r][i].job.data
  BY <1>1, <1>2, <1>5, <1>9 DEF Sound
<1> QED
  BY <1>7, <1>8, <1>9 DEF Sound

(* A file opened is spoilt if it was there: the run found it free, or      *)
(* overwrites.  If not it is fresh: nobody writes it, and whoever else     *)
(* takes it for free spoils it.                                            *)
LEMMA OpenSound ==
  ASSUME Typing, NEW p \in Proc, Step(p), Open(p), NEW q,
         q = target[p], Sound(q), ~Spoilt(q)'
  PROVE  Sound(q)'
<1>1. /\ pc \in [Proc -> Labels] /\ opts' = opts
      /\ <<p, q>> \in opened'
      /\ contended' = contended \cup
           {x \in {q} : \E r \in Proc \ {p} : Claims(r, x)}
  BY DEF Open, Step, Typing, TypeOK
<1>2. ~opts[p].overwrite
  BY <1>1 DEF Spoilt, Overwritten
<1>3. Claims(p, q)
  BY <1>2 DEF Open, Claims
<1>4. q \notin DOMAIN dir
  BY <1>3 DEF Sound
<1>5. \A r \in Proc \ {p} : ~Claims(r, q)
  BY <1>1 DEF Spoilt
<1>6. \A r \in Proc : ~Writes(r, q)
  BY <1>4 DEF Writes, Typing, TypeOK
<1>7. \A r \in Proc, i \in Nat : ~Wrote(r, i, q)
  BY <1>4 DEF Sound
<1>8. q \in DOMAIN dir' /\ dir'[q] = <<>>
  BY DEF Open, Truncated, Put
<1>9. \A r \in Proc : ~Claims(r, q)'
  BY <1>5, <1>8, <1>4, ClaimsAreFree
<1>10. ASSUME NEW r \in Proc, Writes(r, q)'
       PROVE  r = p /\ File(p).data # <<>> /\ todo'[p] = todo[p] /\ off'[p] = 0
  <2>1. ~WriteBlock(p)
    BY DEF Open, WriteBlock
  <2> QED
    BY <2>1, <1>6, <1>10, Writers
<1>11. ASSUME NEW r \in Proc, NEW i \in Nat, Wrote(r, i, q)'
       PROVE  log'[r][i].job = File(p) /\ File(p).data = <<>>
  <2>1. ~WriteBlock(p)
    BY DEF Open, WriteBlock
  <2> QED
    BY <2>1, <1>7, <1>11, Logs
<1>12. ASSUME NEW r \in Proc, Writes(r, q)'
       PROVE  dir'[q] = SubSeq(File(r)'.data, 1, off'[r])
  <2>1. File(r)'.data \in Seq(Block) /\ off'[r] = 0
    <3>1. todo[p] # <<>>
      BY DEF Open, Typing, TypeOK
    <3>2. File(p).data \in Seq(Block)
      BY <3>1, JobTyped DEF Typing
    <3>3. File(r)' = File(p) /\ off'[r] = 0
      BY <1>10, <1>12 DEF File
    <3> QED
      BY <3>2, <3>3
  <2>2. SubSeq(File(r)'.data, 1, 0) = <<>>
    BY <2>1
  <2> QED
    BY <2>1, <2>2, <1>8
<1>13. ASSUME NEW r \in Proc, Writes(r, q)'
       PROVE  /\ \A s \in Proc : Writes(s, q)' => s = r
              /\ \A s \in Proc, i \in Nat : ~Wrote(s, i, q)'
  BY <1>10, <1>11, <1>13
<1>14. ASSUME NEW r \in Proc, NEW i \in Nat, Wrote(r, i, q)'
       PROVE  dir'[q] = log'[r][i].job.data
  BY <1>8, <1>11, <1>14
<1> QED
  BY <1>8, <1>9, <1>12, <1>13, <1>14 DEF Sound

(* The only writer of a path puts its next block behind the others. *)
LEMMA WriteSound ==
  ASSUME Typing, NEW p \in Proc, Step(p), WriteBlock(p), NEW q,
         q = target[p], Sound(q)
  PROVE  Sound(q)'
<1> DEFINE d == File(p).data
<1>1. Writes(p, q) /\ ~Open(p)
  BY DEF WriteBlock, Writes, Open
<1>2. /\ dir[q] = SubSeq(d, 1, off[p])
      /\ \A r \in Proc : Writes(r, q) => r = p
      /\ \A r \in Proc, i \in Nat : ~Wrote(r, i, q)
  BY <1>1 DEF Sound
<1>3. /\ q \in DOMAIN dir /\ d \in Seq(Block) /\ DOMAIN dir' = DOMAIN dir
      /\ off[p] + 1 \in 1 .. Len(d)
      /\ dir'[q] = WriteAt(dir[q], off[p] + 1, d[off[p] + 1])
  BY BlockWritten
<1>4. off[p] \in Nat
  BY DEF Typing, TypeOK
<1> HIDE DEF d
<1>5. dir'[q] = SubSeq(d, 1, off[p] + 1)
  BY <1>2, <1>3, <1>4, WriteAtExtends
<1>6. \A r \in Proc : ~Claims(r, q)'
  <2>1. \A r \in Proc : ~Claims(r, q)
    BY <1>3 DEF Sound
  <2> QED
    BY <2>1, <1>3, ClaimsAreFree
<1>7. ASSUME NEW r \in Proc, Writes(r, q)'
      PROVE  /\ r = p /\ todo'[p] = todo[p] /\ off'[p] = off[p] + 1
             /\ ~LastBlock(p)
  BY <1>1, <1>2, <1>7, Writers
<1>8. ASSUME NEW r \in Proc, NEW i \in Nat, Wrote(r, i, q)'
      PROVE  log'[r][i].job = File(p) /\ LastBlock(p)
  BY <1>1, <1>2, <1>8, Logs
<1>9. ASSUME NEW r \in Proc, Writes(r, q)'
      PROVE  dir'[q] = SubSeq(File(r)'.data, 1, off'[r])
  BY <1>5, <1>7, <1>9 DEF File, d
<1>10. ASSUME NEW r \in Proc, NEW i \in Nat, Wrote(r, i, q)'
       PROVE  dir'[q] = log'[r][i].job.data
  <2>1. log'[r][i].job.data = d /\ off[p] + 1 = Len(d)
    BY <1>8, <1>10 DEF d, LastBlock
  <2>2. SubSeq(d, 1, Len(d)) = d
    BY <1>3
  <2> QED
    BY <2>1, <2>2, <1>5
<1>11. ASSUME NEW r \in Proc, Writes(r, q)'
       PROVE  /\ \A s \in Proc : Writes(s, q)' => s = r
              /\ \A s \in Proc, i \in Nat : ~Wrote(s, i, q)'
  BY <1>7, <1>8, <1>11
<1>12. q \in DOMAIN dir'
  BY <1>3
<1> QED
  BY <1>6, <1>9, <1>10, <1>11, <1>12 DEF Sound

(* Every path stays sound or is spoilt, whatever the step. *)
LEMMA AllSoundKept ==
  ASSUME Typing, AllSound, [Next]_vars
  PROVE  AllSound'
<1>1. ASSUME NEW p \in Proc, Step(p) \/ Death(p) PROVE AllSound'
  <2>1. SUFFICES ASSUME NEW q \in Path \cup {NULL}, ~Spoilt(q)' PROVE Sound(q)'
    BY DEF AllSound
  <2>2. Sound(q)
    BY <1>1, <2>1, SpoiltGrows DEF AllSound
  <2>3. CASE target[p] = q => ~Open(p) /\ ~WriteBlock(p)
    BY <1>1, <2>2, <2>3, SoundElsewhere
  <2>4. CASE target[p] = q /\ Open(p) /\ Step(p)
    BY <2>1, <2>2, <2>4, OpenSound
  <2>5. CASE target[p] = q /\ WriteBlock(p) /\ Step(p)
    BY <2>2, <2>5, WriteSound
  <2>6. Death(p) => ~Open(p) /\ ~WriteBlock(p)
    BY <1>1 DEF Death, Dies, Open, WriteBlock, Typing, TypeOK
  <2> QED
    BY <1>1, <2>3, <2>4, <2>5, <2>6
<1>2. ASSUME UNCHANGED vars PROVE AllSound'
  BY <1>2 DEF vars, local, history, AllSound, Sound, Spoilt, Overwritten,
     Claims, Writes, Wrote, File
<1> QED
  BY <1>1, <1>2 DEF Next

(* What a run wrote to the end stays whole, with two exceptions: a run     *)
(* with --overwrite opened the path, or a run opened it while another had  *)
(* found it free.  Killed runs, full disks and runs that fail change       *)
(* nothing about that.                                                     *)
THEOREM Intact == Spec => []IntactUnlessContended
<1>1. Init => AllSound
  BY DEF Init, AllSound, Sound, Claims, Writes, Wrote
<1>2. ASSUME Typing, AllSound PROVE IntactUnlessContended
  <2>1. SUFFICES ASSUME NEW r \in Proc, NEW i \in DOMAIN log[r],
                        log[r][i].how = "stored"
                 PROVE  LET e == log[r][i] IN
                        \/ file_exists(e.at) /\ dir[e.at] = e.job.data
                        \/ e.at \in contended
                        \/ Overwritten(e.at)
    BY DEF IntactUnlessContended
  <2> DEFINE q == log[r][i].at
  <2>3. log[r] \in Seq(Entry)
    BY <1>2, <2>1 DEF Typing, TypeOK
  <2>4. i \in Nat /\ log[r][i] \in Entry
    BY <2>1, <2>3
  <2>2. Wrote(r, i, q) /\ i \in Nat /\ q \in Path \cup {NULL}
    BY <2>1, <2>4 DEF Wrote, Entry
  <2> QED
    BY <1>2, <2>2 DEF AllSound, Sound, Spoilt, file_exists
<1> QED
  BY StartsTyped, NextTyped, AllSoundKept, <1>1, <1>2, PTL DEF Spec

-----------------------------------------------------------------------------
(* A run that is alone *)

(* What file_write would open for the current file of p if it were one     *)
(* step: OutputDir's Targets, of the directory as p sees it.               *)
Reached(p, q) ==
  LET b == File(p).path
      D == DOMAIN Seen(p)
  IN \/ q = b /\ (opts[p].overwrite \/ b \notin D)
     \/ /\ ~opts[p].overwrite /\ opts[p].numbered /\ b \in D
        /\ \E n \in 1 .. MaxNumber :
             /\ q = Numbered[<<b, n>>] /\ q \notin D
             /\ \A m \in 1 .. n - 1 : Numbered[<<b, m>>] \in D

(* What each place of file_write has found out holds until the file is     *)
(* closed, if no other run is about.                                       *)
OnCourse(p) ==
  /\ pc[p] \in {"check", "number"} => ~opts[p].overwrite
  /\ pc[p] = "check" => target[p] = File(p).path
  /\ pc[p] = "number" =>
       /\ opts[p].numbered /\ File(p).path \in DOMAIN dir
       /\ \A m \in 1 .. number[p] - 1 :
            Numbered[<<File(p).path, m>>] \in DOMAIN dir
  /\ pc[p] \in {"open", "write"} => Reached(p, target[p])
  /\ pc[p] = "write" =>
       /\ target[p] \notin Unwritable
       /\ dir[target[p]] = SubSeq(File(p).data, 1, off[p])

LoneOnCourse ==
  \A p \in Proc : Alone(p) /\ status[p] = "running" => OnCourse(p)

(* Runs without files do nothing but end. *)
LEMMA OthersIdle ==
  ASSUME Typing, NEW p \in Proc, Alone(p), NEW r \in Proc \ {p},
         Step(r) \/ Death(r)
  PROVE  /\ UNCHANGED <<opts, dir, pc, todo, target, number, off, log, before>>
         /\ status'[p] = status[p]
<1>1. todo[r] = <<>> /\ pc[r] = "start"
  BY DEF Alone, Typing, TypeOK
<1>2. Finish(r) \/ Dies(r)
  BY <1>1 DEF Step, Death, Confirm, Decline, CheckFree, Refuse, CheckTaken,
     NumberTaken, NumberFree, Open, OpenFails, WriteBlock, FlushLost
<1>3. UNCHANGED <<opts, dir, pc, todo, target, number, off, log, before>>
  BY <1>1, <1>2 DEF Step, Death, Finish, Dies, history
<1>4. status'[p] = status[p]
  BY <1>2 DEF Finish, Dies, Typing, TypeOK
<1> QED
  BY <1>3, <1>4

(* Whoever is alone has been from the start. *)
LEMMA AloneBefore ==
  ASSUME Typing, NEW p \in Proc, NEW r \in Proc, Step(r) \/ Death(r), Alone(p)'
  PROVE  Alone(p)
<1>1. ASSUME NEW q \in Proc \ {p}, log'[q] = <<>>
      PROVE  log[q] = <<>> /\ todo'[q] = todo[q]
  <2>1. ASSUME NEW how, NEW at, Logged(r, how, at)
        PROVE  r # q /\ log[q] = <<>>
    <3>1. PICK e : e = [job |-> File(r), how |-> how, at |-> at]
      OBVIOUS
    <3>2. log' = [log EXCEPT ![r] = Append(@, e)]
      BY <2>1, <3>1 DEF Logged
    <3>3. log \in [Proc -> Seq(Entry)]
      BY DEF Typing, TypeOK
    <3>4. log[q] \in Seq(Entry \cup {e})
      BY <3>3
    <3>5. Append(log[q], e) # <<>>
      BY <3>4
    <3> QED
      BY <1>1, <3>2, <3>3, <3>5
  <2>2. UNCHANGED <<log, todo>> \/ \E how, at : Logged(r, how, at)
    BY DEF Step, Death, Confirm, Decline, CheckFree, Refuse, CheckTaken,
       NumberTaken, NumberFree, Open, OpenFails, WriteBlock, FlushLost,
       Finish, Dies, Returns, history
  <2>3. ASSUME r # q PROVE todo'[q] = todo[q]
    <3>1. todo \in [Proc -> Seq(Job)]
      BY DEF Typing, TypeOK
    <3> QED
      BY <2>3, <3>1 DEF Step, Death, Confirm, Decline, CheckFree, Refuse,
         CheckTaken, NumberTaken, NumberFree, Open, OpenFails, WriteBlock,
         FlushLost, Finish, Dies, Returns
  <2> QED
    BY <1>1, <2>1, <2>2, <2>3
<1> QED
  BY <1>1 DEF Alone

(* What a run sees of the directory. *)
LEMMA SeenParts ==
  ASSUME NEW p \in Proc
  PROVE  /\ DOMAIN Seen(p) \subseteq DOMAIN dir
         /\ DOMAIN dir \subseteq DOMAIN Seen(p) \cup {target[p]}
         /\ ~Writing(p) => DOMAIN Seen(p) = DOMAIN dir
         /\ \A q \in DOMAIN Seen(p) :
              ~Writing(p) \/ q # target[p] =>
                Seen(p)[q] = IF TornAt(p, q) THEN Torn ELSE dir[q]
  BY DEF Seen

(* What a call that is logged makes of them. *)
LEMMA CallLogged ==
  ASSUME Typing, NEW p \in Proc, todo[p] # <<>>,
         NEW how \in {"declined", "refused", "stored", "torn"},
         NEW at \in Path \cup {NULL}, Logged(p, how, at)
  PROVE  /\ CallsOf(p)' = Append(CallsOf(p),
              [src |-> "attachment", file |-> FileOf(File(p)),
               how |-> how, at |-> at])
         /\ \A q : TornAt(p, q)' <=>
              IF at = q THEN how = "torn" ELSE TornAt(p, q)
<1>1. PICK e : e = [job |-> File(p), how |-> how, at |-> at]
  OBVIOUS
<1>2. e \in Entry
  BY <1>1, JobTyped DEF Entry, Typing
<1>3. log[p] \in Seq(Entry) /\ log'[p] = Append(log[p], e)
  BY <1>1 DEF Logged, Typing, TypeOK
<1>4. /\ Len(log'[p]) = Len(log[p]) + 1 /\ Len(log[p]) \in Nat
      /\ DOMAIN log'[p] = 1 .. Len(log[p]) + 1
      /\ DOMAIN log[p] = 1 .. Len(log[p])
      /\ log'[p][Len(log[p]) + 1] = e
      /\ \A i \in 1 .. Len(log[p]) : log'[p][i] = log[p][i]
  BY <1>2, <1>3
<1>5. CallsOf(p)' = Append(CallsOf(p),
        [src |-> "attachment", file |-> FileOf(File(p)),
         how |-> how, at |-> at])
  <2> DEFINE Call(x) == [src |-> "attachment", file |-> FileOf(x.job),
                         how |-> x.how, at |-> x.at]
  <2>1. PICK n \in Nat : n = Len(log[p])
    BY <1>4
  <2>2. CallsOf(p) = [i \in 1 .. n |-> Call(log[p][i])]
    BY <1>4, <2>1, Zenon DEF CallsOf
  <2>3. CallsOf(p)' = [i \in 1 .. n + 1 |-> Call(log'[p][i])]
    BY <1>4, <2>1 DEF CallsOf, FileOf
  <2>4. /\ Call(log'[p][n + 1]) = Call(e)
        /\ \A i \in 1 .. n : Call(log'[p][i]) = Call(log[p][i])
    BY <1>4, <2>1, Zenon
  <2>5. Call(e) = [src |-> "attachment", file |-> FileOf(File(p)),
                   how |-> how, at |-> at]
    BY <1>1
  <2> HIDE DEF Call
  <2>6. CallsOf(p)' = Append(CallsOf(p), Call(e))
    BY <2>2, <2>3, <2>4
  <2> QED
    BY <2>5, <2>6
<1>6. ASSUME NEW q
      PROVE  TornAt(p, q)' <=> IF at = q THEN how = "torn" ELSE TornAt(p, q)
  <2>1. CASE at = q
    BY <1>1, <1>4, <2>1 DEF TornAt
  <2>2. CASE at # q
    <3>1. \A i \in DOMAIN log'[p] : log'[p][i].at = q => i \in DOMAIN log[p]
      BY <1>1, <1>4, <2>2
    <3>2. \A i \in DOMAIN log[p] :
            i \in DOMAIN log'[p] /\ log'[p][i] = log[p][i]
      BY <1>4
    <3>3. TornAt(p, q) => TornAt(p, q)'
      BY <3>1, <3>2 DEF TornAt
    <3>4. TornAt(p, q)' => TornAt(p, q)
      BY <3>1, <3>2 DEF TornAt
    <3> QED
      BY <2>2, <3>3, <3>4
  <2> QED
    BY <2>1, <2>2
<1> QED
  BY <1>5, <1>6

(* A step at which p has no file open, and after which it has none. *)
LEMMA Unseen ==
  ASSUME NEW p \in Proc, UNCHANGED <<opts, dir, log>>, status'[p] = status[p],
         pc[p] # "write", pc'[p] # "write"
  PROVE  UNCHANGED Whole(p)!dirVars
<1>1. Seen(p)' = Seen(p)
  BY DEF Seen, Writing, TornAt
<1>2. CallsOf(p)' = CallsOf(p)
  BY DEF CallsOf
<1> QED
  BY <1>1, <1>2 DEF Whole!dirVars

(* The end of a run that has no file open. *)
LEMMA EndMaps ==
  ASSUME NEW p \in Proc, UNCHANGED <<opts, dir, log, pc>>,
         status[p] = "running", status'[p] \in {"ok", "fail", "killed"},
         pc[p] # "write"
  PROVE  Whole(p)!DirNext
<1>1. Seen(p)' = Seen(p)
  BY DEF Seen, Writing, TornAt
<1>2. CallsOf(p)' = CallsOf(p)
  BY DEF CallsOf
<1> QED
  BY <1>1, <1>2 DEF Whole!DirNext, Whole!Ends, Whole!Statuses

(* The file of a call is one of OutputDir's, and so is its path. *)
LEMMA CallTyped ==
  ASSUME Typing, NEW p \in Proc, todo[p] # <<>>
  PROVE  /\ FileOf(File(p)) \in Whole(p)!File
         /\ "attachment" \in Whole(p)!Sources
         /\ Whole(p)!PathFor(FileOf(File(p))) = File(p).path
         /\ Whole(p)!Contents(FileOf(File(p))) = File(p).data
         /\ ~opts[p].list
<1>1. /\ File(p) \in Job /\ File(p).path \in Path /\ File(p).path \in Base
      /\ File(p).data \in Seq(Block) /\ File(p).data \in Data
  BY JobTyped DEF Typing, Job
<1>2. File(p).path # NULL /\ File(p).data # NULL
  BY <1>1, FileWriteAssumption
<1>3. opts[p] \in Options
  BY DEF Typing, TypeOK
<1> QED
  BY <1>1, <1>2, <1>3, FileWriteAtomicAssumption
     DEF FileOf, Whole!File, Whole!Sources, Whole!PathFor, Whole!Contents

(* What Reached says is what OutputDir's Targets is. *)
LEMMA ReachedIsTarget ==
  ASSUME NEW p \in Proc, NEW q, Reached(p, q)
  PROVE  q \in Whole(p)!Targets(File(p).path)
  BY DEF Reached, Whole!Targets, Whole!MustNumber, Whole!find_free_number,
     Whole!file_exists

(* A call that ends with its file at the path it has chosen, whole or      *)
(* torn, is OutputDir's file_write.                                        *)
LEMMA WriteMaps ==
  ASSUME Typing, NEW p \in Proc, todo[p] # <<>>, UNCHANGED opts,
         status[p] = "running", target[p] \in Path \ Unwritable,
         Reached(p, target[p]), ~Writing(p)',
         NEW how \in {"stored", "torn"}, Logged(p, how, target[p]),
         DOMAIN dir' = DOMAIN dir \cup {target[p]},
         \A r \in DOMAIN dir : r # target[p] => dir'[r] = dir[r],
         how = "stored" =>
           dir'[target[p]] = File(p).data /\ status'[p] = "running",
         how = "torn" =>
           File(p).data # <<>> /\ status'[p] \in {"running", "fail", "killed"}
  PROVE  Whole(p)!DirNext
<1> DEFINE t == target[p]
<1> DEFINE f == FileOf(File(p))
<1> DEFINE c == IF how = "torn" THEN Torn ELSE File(p).data
<1>1. /\ DOMAIN Seen(p) \subseteq DOMAIN dir
      /\ DOMAIN dir \subseteq DOMAIN Seen(p) \cup {t}
      /\ \A q \in DOMAIN Seen(p) :
           q # t => Seen(p)[q] = IF TornAt(p, q) THEN Torn ELSE dir[q]
  BY SeenParts
<1>2. /\ CallsOf(p)' = Append(CallsOf(p),
           [src |-> "attachment", file |-> f, how |-> how, at |-> t])
      /\ \A q : TornAt(p, q)' <=> IF t = q THEN how = "torn" ELSE TornAt(p, q)
  BY CallLogged
<1>3. Seen(p)' = [q \in DOMAIN dir' |-> IF TornAt(p, q)' THEN Torn ELSE dir'[q]]
  BY DEF Seen
<1>4. DOMAIN dir' = DOMAIN Seen(p) \cup {t}
  BY <1>1
<1>5. ASSUME NEW q \in DOMAIN dir'
      PROVE  (IF TornAt(p, q)' THEN Torn ELSE dir'[q])
               = IF q = t THEN c ELSE Seen(p)[q]
  <2>1. CASE q = t
    BY <1>2, <2>1
  <2>2. CASE q # t
    BY <1>1, <1>2, <1>4, <1>5, <2>2
  <2> QED
    BY <2>1, <2>2
<1>6. Seen(p)' =
        [q \in DOMAIN Seen(p) \cup {t} |-> IF q = t THEN c ELSE Seen(p)[q]]
  BY <1>3, <1>4, <1>5
<1>7. Seen(p)' = Whole(p)!Put(t, c)
  BY <1>6 DEF Whole!Put
<1>8. Whole(p)!Record(f, "attachment", how, t)
  BY <1>2 DEF Whole!Record
<1>9. /\ f \in Whole(p)!File /\ "attachment" \in Whole(p)!Sources
      /\ Whole(p)!PathFor(f) = File(p).path
      /\ Whole(p)!Contents(f) = File(p).data
      /\ ~opts[p].list
  BY CallTyped
<1>10. t \in Whole(p)!Targets(Whole(p)!PathFor(f)) \ Unwritable
  BY <1>9, ReachedIsTarget
<1> HIDE DEF f, t
<1>11. CASE how = "stored"
  <2>1. Whole(p)!Stored(f, "attachment")
    BY <1>7, <1>8, <1>9, <1>10, <1>11 DEF Whole!Stored, t
  <2> QED
    BY <2>1, <1>9 DEF Whole!DirNext, Whole!file_write
<1>12. CASE how = "torn"
  <2>1. Whole(p)!WriteTorn(f, "attachment")
    BY <1>7, <1>8, <1>9, <1>10, <1>12 DEF Whole!WriteTorn
  <2> QED
    BY <2>1, <1>9 DEF Whole!DirNext, Whole!file_write
<1> QED
  BY <1>11, <1>12

(* A call that ends before it opens a file. *)
LEMMA RefusalMaps ==
  ASSUME Typing, NEW p \in Proc, todo[p] # <<>>,
         UNCHANGED <<opts, dir, status>>, status[p] = "running",
         pc[p] # "write", pc'[p] # "write",
         NEW how \in {"declined", "refused"}, Logged(p, how, NULL),
         how = "declined" => opts[p].interactive,
         how = "refused" => /\ ~opts[p].overwrite /\ ~opts[p].numbered
                            /\ File(p).path \in DOMAIN dir
  PROVE  Whole(p)!DirNext
<1> DEFINE f == FileOf(File(p))
<1>1. /\ CallsOf(p)' = Append(CallsOf(p),
           [src |-> "attachment", file |-> f, how |-> how, at |-> NULL])
      /\ \A q : TornAt(p, q)' <=>
           IF NULL = q THEN how = "torn" ELSE TornAt(p, q)
  BY CallLogged
<1>2. NULL \notin DOMAIN dir
  BY FileWriteAssumption DEF Typing, TypeOK
<1>3. /\ Seen(p) = [q \in DOMAIN dir |-> IF TornAt(p, q) THEN Torn ELSE dir[q]]
      /\ Seen(p)' =
           [q \in DOMAIN dir |-> IF TornAt(p, q)' THEN Torn ELSE dir[q]]
  BY DEF Seen, Writing
<1>4. Seen(p)' = Seen(p)
  BY <1>1, <1>2, <1>3
<1>5. Whole(p)!Record(f, "attachment", how, NULL)
  BY <1>1 DEF Whole!Record
<1>6. /\ f \in Whole(p)!File /\ "attachment" \in Whole(p)!Sources
      /\ Whole(p)!PathFor(f) = File(p).path
      /\ ~opts[p].list
  BY CallTyped
<1> HIDE DEF f
<1>7. CASE how = "declined"
  <2>1. Whole(p)!Declined(f, "attachment")
    BY <1>4, <1>5, <1>6, <1>7 DEF Whole!Declined
  <2> QED
    BY <2>1, <1>6 DEF Whole!DirNext, Whole!file_write
<1>8. CASE how = "refused"
  <2>1. File(p).path \in DOMAIN Seen(p)
    BY <1>3, <1>8
  <2>2. Whole(p)!Refused(f, "attachment")
    BY <2>1, <1>4, <1>5, <1>6, <1>8 DEF Whole!Refused, Whole!file_exists
  <2> QED
    BY <2>2, <1>6 DEF Whole!DirNext, Whole!file_write
<1> QED
  BY <1>7, <1>8

(* The directory as p sees it while it writes is the one it found. *)
LEMMA OpenUnseen ==
  ASSUME Typing, NEW p \in Proc, Step(p), Open(p), File(p).data # <<>>
  PROVE  Seen(p)' = Seen(p) /\ UNCHANGED <<opts, status, todo, log>>
<1>1. /\ UNCHANGED <<opts, status, todo, log, target>> /\ pc[p] = "open"
      /\ status[p] = "running"
  BY DEF Open, Step
<1>2. /\ DOMAIN dir' = DOMAIN dir \cup {target[p]} /\ target[p] \in Path
      /\ \A r \in DOMAIN dir : r # target[p] => dir'[r] = dir[r]
  <2>1. target[p] \in DOMAIN Put(target[p], <<>>)
    BY DEF Put
  <2> QED
    BY <2>1, <1>1 DEF Open, Truncated, Put, Typing, TypeOK
<1>3. pc'[p] = "write"
  BY DEF Open, Goto, Typing, TypeOK
<1>4. before'[p] = IF target[p] \in DOMAIN dir THEN dir[target[p]] ELSE NULL
  BY DEF Open, file_exists, Typing, TypeOK
<1>5. target[p] \in DOMAIN dir => dir[target[p]] # NULL
  BY FileWriteAssumption DEF Typing, TypeOK
<1>6. \A q : TornAt(p, q)' <=> TornAt(p, q)
  BY <1>1 DEF TornAt
<1>7. Seen(p) = [q \in DOMAIN dir |-> IF TornAt(p, q) THEN Torn ELSE dir[q]]
  BY <1>1 DEF Seen, Writing
<1>8. /\ Writing(p)' /\ target'[p] = target[p]
      /\ Before(p)' = IF TornAt(p, target[p]) THEN Torn ELSE before'[p]
  BY <1>1, <1>3, <1>6 DEF Writing, Before
<1>9. {r \in DOMAIN dir' :
         ~(Writing(p)' /\ r = target'[p] /\ before'[p] = NULL)}
        = DOMAIN dir
  BY <1>2, <1>4, <1>5, <1>8
<1>10. ASSUME NEW q \in DOMAIN dir
       PROVE  (IF Writing(p)' /\ q = target'[p] THEN Before(p)'
               ELSE IF TornAt(p, q)' THEN Torn ELSE dir'[q])
                = IF TornAt(p, q) THEN Torn ELSE dir[q]
  <2>1. CASE q = target[p]
    BY <1>4, <1>8, <1>10, <2>1
  <2>2. CASE q # target[p]
    BY <1>2, <1>6, <1>8, <1>10, <2>2
  <2> QED
    BY <2>1, <2>2
<1>11. Seen(p)' =
         [q \in {r \in DOMAIN dir' :
                    ~(Writing(p)' /\ r = target'[p] /\ before'[p] = NULL)} |->
            IF Writing(p)' /\ q = target'[p] THEN Before(p)'
            ELSE IF TornAt(p, q)' THEN Torn ELSE dir'[q]]
  BY DEF Seen
<1> QED
  BY <1>1, <1>7, <1>9, <1>10, <1>11

(* Nor does it see a block written but for the last. *)
LEMMA BlockUnseen ==
  ASSUME Typing, NEW p \in Proc, Step(p), WriteBlock(p), ~LastBlock(p)
  PROVE  Seen(p)' = Seen(p) /\ UNCHANGED <<opts, status, pc, todo, log>>
<1>1. UNCHANGED <<opts, status, pc, todo, log, target, before>> /\ Writing(p)
  BY DEF WriteBlock, Step, Writing
<1>2. /\ DOMAIN dir' = DOMAIN dir
      /\ \A r \in DOMAIN dir : r # target[p] => dir'[r] = dir[r]
  BY BlockWritten
<1> QED
  BY <1>1, <1>2 DEF Seen, Writing, Before, TornAt

(* The last block makes the file whole. *)
LEMMA LastBlockWhole ==
  ASSUME Typing, NEW p \in Proc, OnCourse(p), WriteBlock(p)
  PROVE  dir'[target[p]] = SubSeq(File(p).data, 1, off[p] + 1)
<1> DEFINE d == File(p).data
<1>1. dir[target[p]] = SubSeq(d, 1, off[p]) /\ off[p] \in Nat
  BY DEF OnCourse, WriteBlock, Typing, TypeOK
<1>2. /\ d \in Seq(Block) /\ off[p] + 1 \in 1 .. Len(d)
      /\ dir'[target[p]] = WriteAt(dir[target[p]], off[p] + 1, d[off[p] + 1])
  BY BlockWritten
<1>3. off[p] < Len(d)
  BY <1>1, <1>2
<1> HIDE DEF d
<1>4. WriteAt(SubSeq(d, 1, off[p]), off[p] + 1, d[off[p] + 1])
        = SubSeq(d, 1, off[p] + 1)
  BY <1>1, <1>2, <1>3, WriteAtExtends
<1> QED
  BY <1>1, <1>2, <1>4 DEF d

(* Every step of a run that is alone is one of OutputDir, or unseen. *)
LEMMA StepMaps ==
  ASSUME Typing, NEW p \in Proc, Step(p) \/ Death(p), Alone(p), OnCourse(p)
  PROVE  Whole(p)!DirNext \/ UNCHANGED Whole(p)!dirVars
<1>1. /\ pc \in [Proc -> Labels] /\ status[p] = "running" /\ opts' = opts
      /\ status \in [Proc -> {"running", "ok", "fail", "killed"}]
      /\ pc[p] # "start" => todo[p] # <<>> /\ target[p] \in Path
  BY DEF Typing, TypeOK, Step, Death
<1>2. ASSUME NEW how, NEW at, Returns(p, how, at)
      PROVE  pc'[p] = "start" /\ ~Writing(p)' /\ Logged(p, how, at)
  BY <1>1, <1>2 DEF Returns, Goto, Writing
<1>3. CASE Confirm(p) \/ CheckFree(p) \/ CheckTaken(p) \/ NumberTaken(p)
             \/ NumberFree(p)
  <2>1. UNCHANGED <<opts, dir, log, status>> /\ pc[p] # "write"
    BY <1>1, <1>3 DEF Confirm, CheckFree, CheckTaken, NumberTaken, NumberFree,
       history
  <2>2. pc'[p] # "write"
    BY <1>1, <1>3 DEF Confirm, CheckFree, CheckTaken, NumberTaken, NumberFree,
       Goto
  <2> QED
    BY <2>1, <2>2, Unseen
<1>4. CASE Decline(p)
  <2>1. /\ todo[p] # <<>> /\ UNCHANGED <<dir, status>> /\ pc[p] # "write"
        /\ opts[p].interactive /\ Returns(p, "declined", NULL)
    BY <1>4 DEF Decline
  <2>2. pc'[p] # "write" /\ Logged(p, "declined", NULL)
    BY <2>1, <1>2
  <2> QED
    BY <2>1, <2>2, <1>1, RefusalMaps
<1>5. CASE Refuse(p)
  <2>1. /\ UNCHANGED <<dir, status>> /\ pc[p] = "check" /\ ~opts[p].numbered
        /\ target[p] \in DOMAIN dir /\ Returns(p, "refused", NULL)
    BY <1>5 DEF Refuse, file_exists
  <2>2. ~opts[p].overwrite /\ File(p).path \in DOMAIN dir
    BY <2>1 DEF OnCourse
  <2>3. pc'[p] # "write" /\ Logged(p, "refused", NULL)
    BY <2>1, <1>2
  <2> QED
    BY <2>1, <2>2, <2>3, <1>1, RefusalMaps
<1>6. CASE Open(p) /\ Step(p)
  <2>1. /\ pc[p] = "open" /\ target[p] \notin Unwritable
        /\ dir' = Put(target[p], <<>>) /\ UNCHANGED status
    BY <1>6 DEF Open, Truncated
  <2>2. CASE File(p).data = <<>>
    <3>1. Returns(p, "stored", target[p])
      BY <1>6, <2>2 DEF Open
    <3>2. /\ DOMAIN dir' = DOMAIN dir \cup {target[p]}
          /\ dir'[target[p]] = File(p).data
          /\ \A r \in DOMAIN dir : r # target[p] => dir'[r] = dir[r]
      BY <2>1, <2>2 DEF Put
    <3>3. Reached(p, target[p])
      BY <2>1 DEF OnCourse
    <3>4. Logged(p, "stored", target[p]) /\ ~Writing(p)'
      BY <3>1, <1>2
    <3>5. status'[p] = "running" /\ todo[p] # <<>>
          /\ target[p] \in Path \ Unwritable
      BY <1>1, <2>1
    <3> QED
      BY <1>1, <3>2, <3>3, <3>4, <3>5, WriteMaps
  <2>3. CASE File(p).data # <<>>
    <3>1. Seen(p)' = Seen(p) /\ UNCHANGED <<opts, status, todo, log>>
      BY <1>6, <2>3, OpenUnseen
    <3>2. CallsOf(p)' = CallsOf(p)
      BY <3>1 DEF CallsOf
    <3> QED
      BY <3>1, <3>2 DEF Whole!dirVars
  <2> QED
    BY <2>2, <2>3
<1>7. CASE OpenFails(p) \/ Finish(p)
  <2>1. UNCHANGED <<opts, dir, log, pc>> /\ pc[p] # "write"
    BY <1>1, <1>7 DEF OpenFails, Finish, history
  <2>2. status'[p] \in {"ok", "fail", "killed"}
    BY <1>1, <1>7 DEF OpenFails, Finish
  <2> QED
    BY <2>1, <2>2, <1>1, EndMaps
<1>8. ASSUME pc[p] = "write"
      PROVE  /\ todo[p] # <<>> /\ target[p] \in Path \ Unwritable
             /\ Reached(p, target[p]) /\ target[p] \in DOMAIN dir
             /\ File(p).data # <<>>
  <2>1. off[p] \in Nat /\ off[p] < Len(File(p).data) /\ target[p] \in DOMAIN dir
    BY <1>8 DEF Typing, TypeOK
  <2>2. Reached(p, target[p]) /\ target[p] \notin Unwritable
    BY <1>8 DEF OnCourse
  <2>3. File(p).data # <<>>
    BY <2>1
  <2> QED
    BY <1>1, <1>8, <2>1, <2>2, <2>3
<1>9. CASE WriteBlock(p) /\ Step(p)
  <2>1. CASE LastBlock(p)
    <3>1. /\ Returns(p, "stored", target[p]) /\ pc[p] = "write"
          /\ UNCHANGED status
      BY <1>9, <2>1 DEF WriteBlock
    <3>2. /\ DOMAIN dir' = DOMAIN dir \cup {target[p]}
          /\ \A r \in DOMAIN dir : r # target[p] => dir'[r] = dir[r]
      BY <1>8, <1>9, <3>1, BlockWritten
    <3>3. dir'[target[p]] = File(p).data
      <4>1. File(p).data \in Seq(Block) /\ off[p] + 1 = Len(File(p).data)
        BY <1>9, <2>1, BlockWritten DEF LastBlock
      <4>2. dir'[target[p]] = SubSeq(File(p).data, 1, off[p] + 1)
        BY <1>9, LastBlockWhole
      <4>3. SubSeq(File(p).data, 1, Len(File(p).data)) = File(p).data
        BY <4>1
      <4> QED
        BY <4>1, <4>2, <4>3
    <3>4. Logged(p, "stored", target[p]) /\ ~Writing(p)'
      BY <3>1, <1>2
    <3>5. status'[p] = "running"
      BY <3>1, <1>1
    <3> QED
      BY <1>1, <1>8, <3>1, <3>2, <3>3, <3>4, <3>5, WriteMaps
  <2>2. CASE ~LastBlock(p)
    <3>1. Seen(p)' = Seen(p) /\ UNCHANGED <<opts, status, todo, log>>
      BY <1>9, <2>2, BlockUnseen
    <3>2. CallsOf(p)' = CallsOf(p)
      BY <3>1 DEF CallsOf
    <3> QED
      BY <3>1, <3>2 DEF Whole!dirVars
  <2> QED
    BY <2>1, <2>2
<1>10. ASSUME pc[p] = "write", UNCHANGED dir, Logged(p, "torn", target[p]),
              ~Writing(p)', status'[p] \in {"running", "fail", "killed"}
       PROVE  Whole(p)!DirNext
  <2>1. /\ DOMAIN dir' = DOMAIN dir \cup {target[p]}
        /\ \A r \in DOMAIN dir : r # target[p] => dir'[r] = dir[r]
    BY <1>8, <1>10
  <2> QED
    BY <1>1, <1>8, <1>10, <2>1, WriteMaps
<1>11. CASE FlushLost(p)
  <2>1. /\ Returns(p, "torn", target[p]) /\ pc[p] = "write"
        /\ UNCHANGED <<dir, status>>
    BY <1>11 DEF FlushLost
  <2>2. Logged(p, "torn", target[p]) /\ ~Writing(p)'
    BY <2>1, <1>2
  <2> QED
    BY <2>1, <2>2, <1>1, <1>10
<1>12. CASE Dies(p)
  <2>1. /\ status'[p] \in {"fail", "killed"} /\ UNCHANGED <<dir, pc>>
        /\ ~Writing(p)'
    BY <1>1, <1>12 DEF Dies, Writing
  <2>2. CASE pc[p] = "write"
    <3>1. Logged(p, "torn", target[p])
      BY <1>12, <2>2 DEF Dies
    <3> QED
      BY <1>10, <2>1, <2>2, <3>1
  <2>3. CASE pc[p] # "write"
    <3>1. UNCHANGED log
      BY <1>12, <2>3 DEF Dies
    <3> QED
      BY <1>1, <2>1, <2>3, <3>1, EndMaps
  <2> QED
    BY <2>2, <2>3
<1> QED
  BY <1>3, <1>4, <1>5, <1>6, <1>7, <1>9, <1>11, <1>12 DEF Step, Death

(* Where the run is depends on its own state and on what it sees. *)
LEMMA SameReached ==
  ASSUME NEW p \in Proc, Reached(p, target[p]), target'[p] = target[p],
         DOMAIN Seen(p)' = DOMAIN Seen(p), UNCHANGED opts, todo'[p] = todo[p]
  PROVE  Reached(p, target[p])'
  BY DEF Reached, File

(* A run that goes on finds what it found before. *)
LEMMA OnCourseKept ==
  ASSUME Typing, NEW p \in Proc, Step(p), OnCourse(p), status'[p] = "running"
  PROVE  OnCourse(p)'
<1>1. /\ pc \in [Proc -> Labels] /\ UNCHANGED opts
      /\ target \in [Proc -> Path \cup {NULL}]
      /\ number \in [Proc -> Nat] /\ off \in [Proc -> Nat]
      /\ todo \in [Proc -> Seq(Job)]
  BY DEF Typing, TypeOK, Step
<1>2. ASSUME pc'[p] = "start" PROVE OnCourse(p)'
  BY <1>2 DEF OnCourse
<1>3. ASSUME NEW how, NEW at, Returns(p, how, at)
      PROVE  pc'[p] = "start"
  BY <1>1, <1>3 DEF Returns, Goto
<1>4. CASE Decline(p) \/ Refuse(p) \/ FlushLost(p)
  BY <1>2, <1>3, <1>4 DEF Decline, Refuse, FlushLost
<1>5. ASSUME pc'[p] = "open", UNCHANGED dir PROVE DOMAIN Seen(p)' = DOMAIN dir
  BY <1>5 DEF Seen, Writing
<1>6. CASE Confirm(p)
  <2>1. /\ UNCHANGED <<dir, todo>> /\ target'[p] = File(p).path
        /\ pc'[p] = IF opts[p].overwrite THEN "open" ELSE "check"
    BY <1>1, <1>6 DEF Confirm, Goto
  <2>2. CASE opts[p].overwrite
    BY <2>1, <2>2, <1>1 DEF OnCourse, Reached, File
  <2>3. CASE ~opts[p].overwrite
    BY <2>1, <2>3, <1>1 DEF OnCourse, File
  <2> QED
    BY <2>2, <2>3
<1>7. CASE CheckFree(p)
  <2>1. /\ UNCHANGED <<dir, todo, target>> /\ pc'[p] = "open"
        /\ target[p] \notin DOMAIN dir /\ target[p] = File(p).path
    BY <1>1, <1>7 DEF CheckFree, Goto, file_exists, OnCourse
  <2>2. DOMAIN Seen(p)' = DOMAIN dir
    BY <1>5, <2>1
  <2> QED
    BY <2>1, <2>2, <1>1 DEF OnCourse, Reached, File
<1>8. CASE CheckTaken(p)
  <2>1. /\ UNCHANGED <<dir, todo, target>> /\ pc'[p] = "number"
        /\ number'[p] = 1 /\ opts[p].numbered /\ ~opts[p].overwrite
        /\ target[p] \in DOMAIN dir /\ target[p] = File(p).path
    BY <1>1, <1>8 DEF CheckTaken, Goto, file_exists, OnCourse
  <2> QED
    BY <2>1, <1>1 DEF OnCourse, File
<1>9. CASE NumberTaken(p)
  <2>1. /\ UNCHANGED <<dir, todo, target, pc>> /\ pc[p] = "number"
        /\ number'[p] = number[p] + 1
        /\ Numbered[<<File(p).path, number[p]>>] \in DOMAIN dir
    BY <1>1, <1>9 DEF NumberTaken, file_exists, Backup
  <2>2. /\ ~opts[p].overwrite /\ opts[p].numbered /\ File(p).path \in DOMAIN dir
        /\ \A m \in 1 .. number[p] - 1 :
             Numbered[<<File(p).path, m>>] \in DOMAIN dir
    BY <2>1 DEF OnCourse
  <2>3. \A m \in 1 .. number'[p] - 1 : m \in 1 .. number[p] - 1 \/ m = number[p]
    BY <1>1, <2>1
  <2>4. \A m \in 1 .. number'[p] - 1 :
          Numbered[<<File(p).path, m>>] \in DOMAIN dir
    BY <2>1, <2>2, <2>3
  <2> QED
    BY <2>1, <2>2, <2>4, <1>1 DEF OnCourse, File
<1>10. CASE NumberFree(p)
  <2>1. /\ UNCHANGED <<dir, todo>> /\ pc'[p] = "open" /\ pc[p] = "number"
        /\ target'[p] = Numbered[<<File(p).path, number[p]>>]
        /\ number[p] \in 1 .. MaxNumber
        /\ Numbered[<<File(p).path, number[p]>>] \notin DOMAIN dir
    BY <1>1, <1>10 DEF NumberFree, Goto, file_exists, Backup
  <2>2. /\ ~opts[p].overwrite /\ opts[p].numbered /\ File(p).path \in DOMAIN dir
        /\ \A m \in 1 .. number[p] - 1 :
             Numbered[<<File(p).path, m>>] \in DOMAIN dir
    BY <2>1 DEF OnCourse
  <2>3. DOMAIN Seen(p)' = DOMAIN dir
    BY <1>5, <2>1
  <2>4. Reached(p, target[p])'
    BY <2>1, <2>2, <2>3, <1>1 DEF Reached, File
  <2> QED
    BY <2>1, <2>4 DEF OnCourse
<1>11. CASE Open(p)
  <2>1. CASE File(p).data = <<>>
    BY <1>2, <1>3, <1>11, <2>1 DEF Open
  <2>2. CASE File(p).data # <<>>
    <3>1. /\ pc'[p] = "write" /\ UNCHANGED target /\ pc[p] = "open"
          /\ target[p] \notin Unwritable /\ off'[p] = 0
          /\ dir' = Put(target[p], <<>>)
      BY <1>1, <1>11, <2>2 DEF Open, Goto, Truncated
    <3>2. Seen(p)' = Seen(p) /\ UNCHANGED todo
      BY <1>11, <2>2, OpenUnseen
    <3>3. Reached(p, target[p])
      BY <3>1 DEF OnCourse
    <3>4. Reached(p, target[p])'
      BY <3>1, <3>2, <3>3, <1>1, SameReached
    <3>5. File(p).data \in Seq(Block)
      BY <1>11, JobTyped DEF Open, Typing, TypeOK
    <3>6. dir'[target[p]] = SubSeq(File(p).data, 1, 0)
      BY <3>1, <3>5 DEF Put
    <3> QED
      BY <3>1, <3>2, <3>4, <3>6 DEF OnCourse, File
  <2> QED
    BY <2>1, <2>2
<1>12. CASE WriteBlock(p)
  <2>1. CASE LastBlock(p)
    BY <1>2, <1>3, <1>12, <2>1 DEF WriteBlock
  <2>2. CASE ~LastBlock(p)
    <3>1. /\ UNCHANGED target /\ pc[p] = "write" /\ off'[p] = off[p] + 1
      BY <1>1, <1>12 DEF WriteBlock
    <3>2. Seen(p)' = Seen(p) /\ UNCHANGED <<todo, pc>>
      BY <1>12, <2>2, BlockUnseen
    <3>3. Reached(p, target[p]) /\ target[p] \notin Unwritable
      BY <3>1 DEF OnCourse
    <3>4. Reached(p, target[p])'
      BY <3>1, <3>2, <3>3, <1>1, SameReached
    <3>5. dir'[target[p]] = SubSeq(File(p).data, 1, off[p] + 1)
      BY <1>12, LastBlockWhole
    <3> QED
      BY <3>1, <3>2, <3>3, <3>4, <3>5 DEF OnCourse, File
  <2> QED
    BY <2>1, <2>2
<1>13. CASE OpenFails(p) \/ Finish(p)
  BY <1>13 DEF OpenFails, Finish, Typing, TypeOK
<1> QED
  BY <1>4, <1>6, <1>7, <1>8, <1>9, <1>10, <1>11, <1>12, <1>13 DEF Step

(* Of the runs that are alone each stays on course. *)
LEMMA LoneOnCourseKept ==
  ASSUME Typing, LoneOnCourse, [Next]_vars
  PROVE  LoneOnCourse'
<1>1. ASSUME NEW r \in Proc, Step(r) \/ Death(r), NEW p \in Proc, Alone(p)',
             status'[p] = "running"
      PROVE  OnCourse(p)'
  <2>1. Alone(p)
    BY <1>1, AloneBefore
  <2>2. CASE r = p
    <3>1. Step(p)
      BY <1>1, <2>2 DEF Death, Dies, Typing, TypeOK
    <3>2. status[p] = "running"
      BY <3>1 DEF Step
    <3> QED
      BY <1>1, <2>1, <3>1, <3>2, OnCourseKept DEF LoneOnCourse
  <2>3. CASE r # p
    <3>1. /\ UNCHANGED <<opts, dir, pc, todo, target, number, off, log, before>>
          /\ status'[p] = status[p]
      BY <1>1, <2>1, <2>3, OthersIdle
    <3>2. OnCourse(p)
      BY <1>1, <2>1, <3>1 DEF LoneOnCourse
    <3>3. Seen(p)' = Seen(p)
      BY <3>1 DEF Seen, Writing, Before, TornAt
    <3>4. pc[p] \in {"open", "write"} => Reached(p, target[p])'
      BY <3>1, <3>2, <3>3, SameReached DEF OnCourse
    <3> QED
      BY <3>1, <3>2, <3>4 DEF OnCourse, File
  <2> QED
    BY <2>2, <2>3
<1>2. ASSUME UNCHANGED vars PROVE LoneOnCourse'
  <2>1. /\ UNCHANGED <<opts, dir, pc, todo, target, number, off, log, before>>
        /\ UNCHANGED status
    BY <1>2 DEF vars, local, history
  <2>2. \A p \in Proc : Seen(p)' = Seen(p)
    BY <2>1 DEF Seen, Writing, Before, TornAt
  <2>3. \A p \in Proc : Alone(p)' = Alone(p)
    BY <2>1 DEF Alone
  <2>4. \A p \in Proc : OnCourse(p)' = OnCourse(p)
    BY <2>1, <2>2 DEF OnCourse, Reached, File
  <2> QED
    BY <2>1, <2>3, <2>4 DEF LoneOnCourse
<1> QED
  BY <1>1, <1>2 DEF Next, LoneOnCourse

(* A run that has the directory to itself cannot tell the calls of the C   *)
(* library from one step: whatever it tests, numbers, opens and writes, and *)
(* wherever it is killed, its steps are steps of OutputDir or unseen.      *)
THEOREM RefinesOutputDir == Spec => LoneRunIsAtomic
<1> DEFINE Mapped ==
      \A p \in Proc :
        Alone(p) => Whole(p)!DirNext \/ UNCHANGED Whole(p)!dirVars
<1>1. ASSUME Typing, LoneOnCourse, NEW r \in Proc, Step(r) \/ Death(r)
      PROVE  Mapped
  <2>1. SUFFICES ASSUME NEW p \in Proc, Alone(p)
                 PROVE  Whole(p)!DirNext \/ UNCHANGED Whole(p)!dirVars
    OBVIOUS
  <2>2. CASE r = p
    <3>1. status[p] = "running"
      BY <1>1, <2>2 DEF Step, Death
    <3> QED
      BY <1>1, <2>1, <2>2, <3>1, StepMaps DEF LoneOnCourse
  <2>3. CASE r # p
    <3>1. /\ UNCHANGED <<opts, dir, pc, todo, target, number, off, log, before>>
          /\ status'[p] = status[p]
      BY <1>1, <2>1, <2>3, OthersIdle
    <3>2. Seen(p)' = Seen(p) /\ CallsOf(p)' = CallsOf(p)
      BY <3>1 DEF Seen, Writing, Before, TornAt, CallsOf
    <3> QED
      BY <3>1, <3>2 DEF Whole!dirVars
  <2> QED
    BY <2>2, <2>3
<1>2. Init => LoneOnCourse
  BY DEF Init, LoneOnCourse, OnCourse
<1>3. ASSUME Typing, LoneOnCourse, [Next]_vars PROVE [Mapped]_vars
  BY <1>1, <1>3 DEF Next
<1> HIDE DEF Mapped
<1>4. Spec => [][Mapped]_vars
  BY StartsTyped, NextTyped, LoneOnCourseKept, <1>2, <1>3, PTL DEF Spec
<1> QED
  BY <1>4 DEF LoneRunIsAtomic, Mapped

-----------------------------------------------------------------------------
(* How far a run has come *)

(* The search for a free number has not gone past the largest. *)
Searching ==
  \A p \in Proc : pc[p] = "number" => number[p] \in 1 .. MaxNumber + 1

Counted == \A p \in Proc : Turns(p) \in Nat /\ Ahead(p) \in Nat

LEMMA TurnsCounted == TypeOK /\ Searching => Counted
<1> SUFFICES ASSUME TypeOK, Searching, NEW p \in Proc
             PROVE  Turns(p) \in Nat /\ Ahead(p) \in Nat
  BY DEF Counted
<1>1. pc[p] \in Labels
  BY DEF TypeOK
<1>2. Ahead(p) \in Nat
  BY <1>1 DEF Ahead, Labels
<1>3. CASE pc[p] = "number"
  <2>1. Turns(p) = MaxNumber + 1 - number[p] /\ number[p] \in 1 .. MaxNumber + 1
    BY <1>3 DEF Turns, Searching
  <2> QED
    BY <1>2, <2>1, FileWriteAssumption
<1>4. CASE pc[p] = "write"
  <2>1. Turns(p) = Len(File(p).data) - off[p]
    BY <1>4 DEF Turns
  <2>2. todo[p] # <<>> /\ off[p] \in Nat /\ off[p] < Len(File(p).data)
    BY <1>4 DEF TypeOK
  <2>3. Len(File(p).data) \in Nat
    BY <2>2, JobTyped
  <2> QED
    BY <1>2, <2>1, <2>2, <2>3
<1>5. CASE pc[p] \in {"start", "check", "open"}
  <2>1. Turns(p) = 0
    BY <1>5 DEF Turns
  <2> QED
    BY <1>2, <2>1
<1> QED
  BY <1>1, <1>3, <1>4, <1>5 DEF Labels

(* What a step does to the place of the run that takes it, by its kind.    *)
Ending(p) ==
  /\ status'[p] # "running"
  /\ \A q \in Proc \ {p} : status'[q] = status[q]
  /\ UNCHANGED <<pc, todo, number, off>>

Returning(p) ==
  /\ todo[p] # <<>>
  /\ pc' = [pc EXCEPT ![p] = "start"]
  /\ todo' = [todo EXCEPT ![p] = Tail(@)]
  /\ UNCHANGED <<status, number>>
  /\ \A q \in Proc \ {p} : off'[q] = off[q]

Moving(p) ==
  \E from, to \in Labels :
    /\ pc[p] = from /\ pc' = [pc EXCEPT ![p] = to]
    /\ <<from, to>> \in {<<"start", "open">>, <<"start", "check">>,
                         <<"check", "open">>, <<"check", "number">>,
                         <<"number", "open">>, <<"open", "write">>}
    /\ UNCHANGED <<status, todo>>
    /\ IF to = "number" THEN number' = [number EXCEPT ![p] = 1]
                        ELSE UNCHANGED number
    /\ IF to = "write" THEN off' = [off EXCEPT ![p] = 0] ELSE UNCHANGED off

Turning(p) ==
  /\ \/ /\ pc[p] = "number" /\ number[p] \in 1 .. MaxNumber
        /\ number' = [number EXCEPT ![p] = @ + 1]
        /\ UNCHANGED off
     \/ /\ pc[p] = "write"
        /\ off' = [off EXCEPT ![p] = @ + 1]
        /\ UNCHANGED number
  /\ UNCHANGED <<status, pc, todo>>

LEMMA KindsOfStep ==
  ASSUME TypeOK, NEW p \in Proc, Step(p) \/ Death(p)
  PROVE  /\ status[p] = "running"
         /\ Ending(p) \/ Returning(p) \/ Moving(p) \/ Turning(p)
<1>1. status[p] = "running"
  BY DEF Step, Death
<1>2. /\ status \in [Proc -> {"running", "ok", "fail", "killed"}]
      /\ off \in [Proc -> Nat] /\ pc[p] \in Labels
      /\ pc[p] # "start" => todo[p] # <<>>
  BY DEF TypeOK
<1>3. CASE Finish(p) \/ OpenFails(p) \/ Dies(p)
  <2>1. PICK how \in {"ok", "fail", "killed"} : status' = [status EXCEPT ![p] = how]
    BY <1>3 DEF Finish, OpenFails, Dies
  <2>2. /\ status'[p] # "running"
        /\ \A q \in Proc \ {p} : status'[q] = status[q]
    BY <1>2, <2>1
  <2> QED
    BY <1>1, <1>3, <2>2 DEF Ending, Finish, OpenFails, Dies
<1>4. CASE Decline(p) \/ Refuse(p) \/ FlushLost(p)
  <2>1. todo[p] # <<>>
    BY <1>2, <1>4 DEF Decline, Refuse, FlushLost
  <2> QED
    BY <1>1, <1>4, <2>1 DEF Returning, Decline, Refuse, FlushLost, Returns, Goto
<1>5. CASE Confirm(p)
  BY <1>1, <1>5 DEF Moving, Confirm, Goto, Labels
<1>6. CASE CheckFree(p)
  BY <1>1, <1>6 DEF Moving, CheckFree, Goto, Labels
<1>7. CASE CheckTaken(p)
  BY <1>1, <1>7 DEF Moving, CheckTaken, Goto, Labels
<1>8. CASE NumberFree(p)
  BY <1>1, <1>8 DEF Moving, NumberFree, Goto, Labels
<1>9. CASE NumberTaken(p)
  BY <1>1, <1>9 DEF Turning, NumberTaken
<1>10. CASE Open(p)
  <2>1. pc[p] = "open" /\ off' = [off EXCEPT ![p] = 0]
        /\ UNCHANGED <<status, number>>
    BY <1>10 DEF Open
  <2>2. CASE File(p).data = <<>>
    <3>1. /\ pc' = [pc EXCEPT ![p] = "start"]
          /\ todo' = [todo EXCEPT ![p] = Tail(@)]
      BY <1>10, <2>2 DEF Open, Returns, Goto
    <3>2. \A q \in Proc \ {p} : off'[q] = off[q]
      BY <1>2, <2>1
    <3>3. todo[p] # <<>>
      BY <1>2, <2>1
    <3> QED
      BY <1>1, <2>1, <3>1, <3>2, <3>3 DEF Returning
  <2>3. CASE File(p).data # <<>>
    <3>1. pc' = [pc EXCEPT ![p] = "write"] /\ UNCHANGED todo
      BY <1>10, <2>3 DEF Open, Goto
    <3> QED
      BY <1>1, <2>1, <3>1 DEF Moving, Labels
  <2> QED
    BY <2>2, <2>3
<1>11. CASE WriteBlock(p)
  <2>1. /\ pc[p] = "write" /\ off' = [off EXCEPT ![p] = @ + 1]
        /\ UNCHANGED <<status, number>>
    BY <1>11 DEF WriteBlock
  <2>2. CASE LastBlock(p)
    <3>1. /\ pc' = [pc EXCEPT ![p] = "start"]
          /\ todo' = [todo EXCEPT ![p] = Tail(@)]
      BY <1>11, <2>2 DEF WriteBlock, Returns, Goto
    <3>2. \A q \in Proc \ {p} : off'[q] = off[q]
      BY <1>2, <2>1
    <3>3. todo[p] # <<>>
      BY <1>2, <2>1
    <3> QED
      BY <1>1, <2>1, <3>1, <3>2, <3>3 DEF Returning
  <2>3. CASE ~LastBlock(p)
    <3>1. UNCHANGED <<pc, todo>>
      BY <1>11, <2>3 DEF WriteBlock
    <3> QED
      BY <1>1, <2>1, <3>1 DEF Turning
  <2> QED
    BY <2>2, <2>3
<1> QED
  BY <1>3, <1>4, <1>5, <1>6, <1>7, <1>8, <1>9, <1>10, <1>11 DEF Step, Death

StepKind(p) == Ending(p) \/ Returning(p) \/ Moving(p) \/ Turning(p)

(* The step of a run leaves the place of every other where it was. *)
LEMMA OthersStay ==
  ASSUME TypeOK, NEW p \in Proc, StepKind(p), NEW q \in Proc \ {p}
  PROVE  /\ status'[q] = status[q] /\ todo'[q] = todo[q]
         /\ Ahead(q)' = Ahead(q) /\ Turns(q)' = Turns(q)
         /\ pc'[q] = pc[q] /\ number'[q] = number[q]
<1>1. /\ pc \in [Proc -> Labels] /\ todo \in [Proc -> Seq(Job)]
      /\ number \in [Proc -> Nat] /\ off \in [Proc -> Nat]
  BY DEF TypeOK
<1>2. /\ status'[q] = status[q] /\ pc'[q] = pc[q] /\ todo'[q] = todo[q]
      /\ number'[q] = number[q] /\ off'[q] = off[q]
  <2>1. CASE Ending(p)
    BY <2>1 DEF Ending
  <2>2. CASE Returning(p)
    BY <1>1, <2>2 DEF Returning
  <2>3. CASE Moving(p)
    <3>1. /\ UNCHANGED <<status, todo>>
          /\ \E to : pc' = [pc EXCEPT ![p] = to]
          /\ UNCHANGED number \/ number' = [number EXCEPT ![p] = 1]
          /\ UNCHANGED off \/ off' = [off EXCEPT ![p] = 0]
      BY <2>3 DEF Moving
    <3> QED
      BY <1>1, <3>1
  <2>4. CASE Turning(p)
    <3>1. /\ UNCHANGED <<status, pc, todo>>
          /\ UNCHANGED number \/ number' = [number EXCEPT ![p] = @ + 1]
          /\ UNCHANGED off \/ off' = [off EXCEPT ![p] = @ + 1]
      BY <2>4 DEF Turning
    <3> QED
      BY <1>1, <3>1
  <2> QED
    BY <2>1, <2>2, <2>3, <2>4 DEF StepKind
<1>3. Ahead(q)' = Ahead(q)
  BY <1>2 DEF Ahead
<1>4. Turns(q)' = Turns(q)
  BY <1>2 DEF Turns, File
<1> QED
  BY <1>2, <1>3, <1>4

LEMMA SearchingKept ==
  ASSUME TypeOK, Searching, [Next]_vars
  PROVE  Searching'
<1>1. CASE UNCHANGED vars
  BY <1>1 DEF Searching, vars, local
<1>2. ASSUME NEW p \in Proc, Step(p) \/ Death(p)
      PROVE  Searching'
  <2>1. StepKind(p)
    BY <1>2, KindsOfStep DEF StepKind
  <2>2. ASSUME NEW q \in Proc \ {p}, pc'[q] = "number"
        PROVE  number'[q] \in 1 .. MaxNumber + 1
    BY <2>1, <2>2, OthersStay DEF Searching
  <2>3. ASSUME pc'[p] = "number"
        PROVE  number'[p] \in 1 .. MaxNumber + 1
    <3>1. /\ pc \in [Proc -> Labels] /\ number \in [Proc -> Nat]
      BY DEF TypeOK
    <3>2. CASE Ending(p)
      BY <2>3, <3>2 DEF Ending, Searching
    <3>3. CASE Returning(p)
      BY <2>3, <3>1, <3>3 DEF Returning
    <3>4. CASE Moving(p)
      <4>1. PICK from, to \in Labels :
              /\ pc' = [pc EXCEPT ![p] = to]
              /\ to = "number" => number' = [number EXCEPT ![p] = 1]
        BY <3>4 DEF Moving
      <4>2. number'[p] = 1
        BY <2>3, <3>1, <4>1
      <4> QED
        BY <4>2, FileWriteAssumption
    <3>5. CASE Turning(p)
      <4>1. pc[p] = "number"
        BY <2>3, <3>5 DEF Turning
      <4>2. /\ number[p] \in 1 .. MaxNumber
            /\ number' = [number EXCEPT ![p] = @ + 1]
        BY <3>5, <4>1 DEF Turning
      <4>3. number'[p] = number[p] + 1
        BY <3>1, <4>2
      <4> QED
        BY <4>2, <4>3, FileWriteAssumption
    <3> QED
      BY <2>1, <3>2, <3>3, <3>4, <3>5 DEF StepKind
  <2> QED
    BY <2>2, <2>3 DEF Searching
<1> QED
  BY <1>1, <1>2 DEF Next

(* A step of a run brings it on. *)
LEMMA StepGetsOn ==
  ASSUME TypeOK, Counted, Counted', NEW p \in Proc, status[p] = "running",
         StepKind(p)
  PROVE  GetsOn(p)
<1>1. /\ pc \in [Proc -> Labels] /\ todo \in [Proc -> Seq(Job)]
      /\ number \in [Proc -> Nat] /\ off \in [Proc -> Nat]
  BY DEF TypeOK
<1>2. Turns(p)' \in Nat /\ Turns(p) \in Nat
  BY DEF Counted
<1>3. CASE Ending(p)
  BY <1>2, <1>3 DEF GetsOn, Ending
<1>4. CASE Returning(p)
  <2>1. todo[p] \in Seq(Job) /\ todo[p] # <<>> /\ todo'[p] = Tail(todo[p])
    BY <1>1, <1>4 DEF Returning
  <2>2. Len(todo'[p]) < Len(todo[p])
    BY <2>1
  <2> QED
    BY <1>2, <2>2 DEF GetsOn
<1>5. CASE Moving(p)
  <2>1. PICK from, to \in Labels :
          /\ pc[p] = from /\ pc' = [pc EXCEPT ![p] = to]
          /\ <<from, to>> \in {<<"start", "open">>, <<"start", "check">>,
                               <<"check", "open">>, <<"check", "number">>,
                               <<"number", "open">>, <<"open", "write">>}
          /\ UNCHANGED <<status, todo>>
    BY <1>5 DEF Moving
  <2>2. pc'[p] = to
    BY <1>1, <2>1
  <2>3. Ahead(p)' < Ahead(p)
    BY <2>1, <2>2 DEF Ahead
  <2> QED
    BY <1>2, <2>1, <2>3 DEF GetsOn
<1>6. CASE Turning(p)
  <2>1. pc'[p] = pc[p] /\ todo'[p] = todo[p]
    BY <1>6 DEF Turning
  <2>2. Ahead(p)' = Ahead(p)
    BY <2>1 DEF Ahead
  <2>3. CASE pc[p] = "number"
    <3>1. number'[p] = number[p] + 1
      BY <1>1, <1>6, <2>3 DEF Turning
    <3>2. /\ Turns(p) = MaxNumber + 1 - number[p]
          /\ Turns(p)' = MaxNumber + 1 - (number[p] + 1)
      BY <2>1, <2>3, <3>1 DEF Turns
    <3>3. Turns(p)' < Turns(p)
      BY <1>1, <3>2, FileWriteAssumption
    <3> QED
      BY <1>2, <2>1, <2>2, <3>3 DEF GetsOn
  <2>4. CASE pc[p] = "write"
    <3>1. off'[p] = off[p] + 1
      BY <1>1, <1>6, <2>4 DEF Turning
    <3>2. todo[p] # <<>>
      BY <2>4 DEF TypeOK
    <3>3. Len(File(p).data) \in Nat
      BY <3>2, JobTyped
    <3>4. File(p)' = File(p)
      BY <2>1 DEF File
    <3>5. /\ Turns(p) = Len(File(p).data) - off[p]
          /\ Turns(p)' = Len(File(p).data) - (off[p] + 1)
      BY <2>1, <2>4, <3>1, <3>4 DEF Turns
    <3>6. Turns(p)' < Turns(p)
      BY <1>1, <3>3, <3>5
    <3> QED
      BY <1>2, <2>1, <2>2, <3>6 DEF GetsOn
  <2> QED
    BY <1>6, <2>3, <2>4 DEF Turning
<1> QED
  BY <1>3, <1>4, <1>5, <1>6 DEF StepKind

Advance ==
  \E p \in Proc :
    /\ GetsOn(p)
    /\ \A q \in Proc \ {p} :
         /\ status'[q] = status[q] /\ todo'[q] = todo[q]
         /\ Ahead(q)' = Ahead(q) /\ Turns(q)' = Turns(q)

(* No interleaving throws a run back (find_free_number, file_write): the   *)
(* step of a run ends it, finishes a file, or leaves less of it to do, and *)
(* takes nothing from what the others have done.                           *)
THEOREM RunsGetOn == Spec => NoRunThrownBack
<1>1. Init => Searching
  BY DEF Init, Searching
<1>2. TypeOK /\ Searching /\ [Next]_vars => Searching'
  BY SearchingKept
<1>3. TypeOK /\ Searching => Counted
  BY TurnsCounted
<1>4. TypeOK /\ Counted /\ Counted' /\ Next => Advance
  <2> SUFFICES ASSUME TypeOK, Counted, Counted', NEW p \in Proc,
                      Step(p) \/ Death(p)
               PROVE  Advance
    BY DEF Next
  <2>1. status[p] = "running" /\ StepKind(p)
    BY KindsOfStep DEF StepKind
  <2>2. GetsOn(p)
    BY <2>1, StepGetsOn
  <2>3. \A q \in Proc \ {p} :
          /\ status'[q] = status[q] /\ todo'[q] = todo[q]
          /\ Ahead(q)' = Ahead(q) /\ Turns(q)' = Turns(q)
    BY <2>1, OthersStay
  <2> QED
    BY <2>2, <2>3 DEF Advance
<1>5. NoRunThrownBack <=> [][Advance]_vars
  BY DEF NoRunThrownBack, Advance
<1> QED
  BY Typed, <1>1, <1>2, <1>3, <1>4, <1>5, PTL DEF Spec
=============================================================================
