----------------------------- MODULE OutputDir -----------------------------
(***************************************************************************)
(* The directory tnef extracts into, and file_write (file.c), the one      *)
(* function that creates files there, as a single step.  A name is a model *)
(* value: Munge stands for munge_fname (path.c) followed by concat_fname   *)
(* with the output directory, Numbered(p, n) for the string "p.n".         *)
(***************************************************************************)
EXTENDS Naturals, Sequences, FiniteSets

CONSTANTS
  Path,            \* pathnames, the output directory already prefixed
  Base,            \* those of them a munged name leads to
  Name,            \* attachment names as they stand in the TNEF stream
  Data,            \* file contents
  Date,            \* modification dates, BadDates those with a day of week > 6
  BadDates,
  Tag,             \* MIME types and content ids
  Options,         \* the settings of the command line a run may start with
  Existing,        \* the sets of paths that may exist before the run
  Unwritable,      \* paths fopen(.., "wb") refuses: directories, permissions
  Munge,           \* Name -> Base, NULL for a name munge_fname rejects
  Numbered,        \* the backup names: <<p, n>> -> "p.n"
  MaxNumber,       \* bound: the largest backup number considered
  SafeNumber,      \* the largest one that fits find_free_number's buffer
  DefaultPath,     \* TNEF_DEFAULT_FILENAME
  Empty,           \* the content of length 0
  Old, Torn,       \* what a path held before the run; a short write
  MayFill,         \* whether the disk may fill up
  NULL

ASSUME OutputDirAssumption ==
  /\ Base \subseteq Path
  /\ DefaultPath \in Base
  /\ MaxNumber \in Nat /\ SafeNumber \in Nat
  /\ Munge \in [Name -> Base \cup {NULL}]
  /\ Numbered \in [Base \X (1 .. MaxNumber) -> Path]
  /\ \A S \in {Path, Name, Data, Date, Tag} : NULL \notin S
  /\ Empty \in Data
  /\ Old \notin Data /\ Torn \notin Data /\ Old # Torn
  /\ BadDates \subseteq Date
  /\ Unwritable \subseteq Path
  /\ Existing \subseteq SUBSET Path
  /\ MayFill \in BOOLEAN
  /\ \A o \in Options :
        {o.list, o.verbose, o.interactive, o.overwrite, o.numbered}
          \subseteq BOOLEAN

VARIABLES
  opts,    \* g_flags and the other settings of the run; never changes
  fs,      \* the directory: the existing paths and what each holds
  log,     \* history: every completed call of file_write, and its outcome
  status   \* "running", or how the process ended

dirVars == <<opts, fs, log, status>>

Content == Data \cup {Old, Torn}

(* struct File.  NULL is the zeroed field of a fresh or freed object. *)
File == [name : Name \cup {NULL}, data : Data \cup {NULL},
         date : Date \cup {NULL}, mime : Tag \cup {NULL}, cid : Tag \cup {NULL}]

FreshFile ==
  [name |-> NULL, data |-> NULL, date |-> NULL, mime |-> NULL, cid |-> NULL]

Sources == {"attachment", "r", "h", "t"}   \* who asked for the file

Outcomes == {"listed", "declined", "refused", "stored", "torn"}

Entry == [src : Sources, file : File, how : Outcomes, at : Path \cup {NULL}]

Statuses == {"running", "ok", "fail", "abort"}

DirTypeOK ==
  /\ opts \in Options
  /\ DOMAIN fs \subseteq Path
  /\ fs \in [DOMAIN fs -> Content]
  /\ log \in Seq(Entry)
  /\ status \in Statuses

DirInit ==
  /\ opts \in Options
  /\ \E S \in Existing : fs = [p \in S |-> Old]
  /\ log = <<>>
  /\ status = "running"

-----------------------------------------------------------------------------
(* Paths and contents *)

Contents(f) == IF f.data = NULL THEN Empty ELSE f.data

PathFor(f) ==
  IF f.name = NULL THEN DefaultPath
  ELSE IF Munge[f.name] = NULL THEN DefaultPath ELSE Munge[f.name]

file_exists(p) == p \in DOMAIN fs

(* Mutant: the loop stops on the last number taken. *)
find_free_number_MutOneLess(p, n) ==
  /\ file_exists(Numbered[<<p, n>>])
  /\ \A m \in 1 .. MaxNumber : file_exists(Numbered[<<p, m>>]) => m <= n

(* n is the first free number of path p. *)
find_free_number(p, n) ==
  /\ ~file_exists(Numbered[<<p, n>>])
  /\ \A m \in 1 .. n - 1 : file_exists(Numbered[<<p, m>>])

MustNumber(p) == ~opts.overwrite /\ file_exists(p) /\ opts.numbered

(* Mutant: without --number-backups the existing file is not looked for. *)
Targets_MutNoCheck(p) ==
  IF MustNumber(p)
  THEN {Numbered[<<p, n>>] : n \in {m \in 1 .. MaxNumber : find_free_number(p, m)}}
  ELSE {p}

(* The path file_write opens when it is asked for path p, if it opens one. *)
Targets(p) ==
  IF MustNumber(p)
  THEN {Numbered[<<p, n>>] : n \in {m \in 1 .. MaxNumber : find_free_number(p, m)}}
  ELSE {q \in {p} : opts.overwrite \/ ~file_exists(p)}

(* Mutant: the file is opened without being truncated. *)
Put_MutNoTruncate(p, c) ==
  [q \in DOMAIN fs \cup {p} |-> IF q \in DOMAIN fs THEN fs[q] ELSE c]

Put(p, c) == [q \in DOMAIN fs \cup {p} |-> IF q = p THEN c ELSE fs[q]]

Record(f, src, how, at) ==
  log' = Append(log, [src |-> src, file |-> f, how |-> how, at |-> at])

-----------------------------------------------------------------------------
(* The ways file_write returns, or does not *)

Listed(f, src) ==
  /\ opts.list
  /\ ~(opts.verbose /\ f.date \in BadDates)
  /\ Record(f, src, "listed", NULL)
  /\ UNCHANGED <<fs, status>>

(* date_to_str asserts that the day of the week is at most 6. *)
ListingAborts(f, src) ==
  /\ opts.list /\ opts.verbose /\ f.date \in BadDates
  /\ status' = "abort"
  /\ UNCHANGED <<fs, log>>

(* confirm_action: the user did not answer y. *)
Declined(f, src) ==
  /\ ~opts.list /\ opts.interactive
  /\ Record(f, src, "declined", NULL)
  /\ UNCHANGED <<fs, status>>

Refused(f, src) ==
  /\ ~opts.list
  /\ ~opts.overwrite /\ ~opts.numbered /\ file_exists(PathFor(f))
  /\ Record(f, src, "refused", NULL)
  /\ UNCHANGED <<fs, status>>

Stored(f, src) ==
  /\ ~opts.list
  /\ \E t \in Targets(PathFor(f)) \ Unwritable :
        /\ fs' = Put(t, Contents(f))
        /\ Record(f, src, "stored", t)
  /\ UNCHANGED status

OpenFails(f, src) ==
  /\ ~opts.list
  /\ Targets(PathFor(f)) \cap Unwritable # {}
  /\ status' = "fail"
  /\ UNCHANGED <<fs, log>>

(* A buffer for the path is larger than --maxsize. *)
PathOverLimit(f, src) ==
  /\ opts.maxsize # 0
  /\ status' = "fail"
  /\ UNCHANGED <<fs, log>>

(* The disk fills up.  A short fwrite ends the process; the bytes stdio    *)
(* still buffers are lost without a word, fclose's result being ignored.   *)
WriteTorn(f, src) ==
  /\ MayFill
  /\ ~opts.list /\ Contents(f) # Empty
  /\ \E t \in Targets(PathFor(f)) \ Unwritable :
        /\ fs' = Put(t, Torn)
        /\ Record(f, src, "torn", t)
  /\ status' \in {status, "fail"}

(* sprintf writes a number of more digits than find_free_number left room  *)
(* for: the allocator may notice, or nothing may come of it.               *)
NumberOverruns(f, src) ==
  /\ ~opts.list
  /\ MustNumber(PathFor(f))
  /\ \A n \in 1 .. MaxNumber : find_free_number(PathFor(f), n) => n > SafeNumber
  /\ status' = "abort"
  /\ UNCHANGED <<fs, log>>

file_write(f, src) ==
  /\ \/ Listed(f, src)
     \/ ListingAborts(f, src)
     \/ Declined(f, src)
     \/ Refused(f, src)
     \/ Stored(f, src)
     \/ NumberOverruns(f, src)
     \/ OpenFails(f, src)
     \/ WriteTorn(f, src)
     \/ PathOverLimit(f, src)
  /\ UNCHANGED opts

-----------------------------------------------------------------------------
(* The directory as a specification of its own: whatever the stream and    *)
(* the order of its attributes, files are only ever written one at a time  *)
(* by file_write, and the process ends once.                               *)

Ends(how) == status' = how /\ UNCHANGED <<opts, fs, log>>

DirNext ==
  /\ status = "running"
  /\ \/ \E f \in File, src \in Sources : file_write(f, src)
     \/ \E how \in Statuses \ {"running"} : Ends(how)

DirSpec == DirInit /\ [][DirNext]_dirVars

-----------------------------------------------------------------------------
(* Properties *)

(* Without --overwrite no step changes or removes a file that exists,      *)
(* whether it was there before the run or this run created it.             *)
NoClobber ==
  [][~opts.overwrite =>
       \A p \in DOMAIN fs : p \in DOMAIN fs' /\ fs'[p] = fs[p]]_dirVars

Writes == {i \in DOMAIN log : log[i].how \in {"stored", "torn"}}

WrittenBy(i) ==
  IF log[i].how = "stored" THEN Contents(log[i].file) ELSE Torn

(* Every path holds what the last file_write that chose it wrote, or what  *)
(* it held before the run; with --list nothing was written at all.         *)
DirExplained ==
  /\ \A p \in DOMAIN fs :
        LET W == {i \in Writes : log[i].at = p} IN
        IF W = {} THEN fs[p] = Old
        ELSE \E i \in W : (\A j \in W : j <= i) /\ fs[p] = WrittenBy(i)
  /\ \A i \in Writes : log[i].at \in DOMAIN fs
  /\ opts.list => Writes = {}

(* With --number-backups and without --overwrite every file that was asked *)
(* for, and that the user did not decline, is in the directory at a path   *)
(* of its own.                                                             *)
NumberedKeepsAll ==
  opts.numbered /\ ~opts.overwrite /\ ~opts.list =>
    /\ \A i \in DOMAIN log : log[i].how # "refused"
    /\ \A i, j \in Writes : log[i].at = log[j].at => i = j
    /\ \A i \in Writes : fs[log[i].at] = WrittenBy(i)
=============================================================================
