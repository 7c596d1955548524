----------------------------- MODULE FileWrite -----------------------------
(***************************************************************************)
(* file_write (file.c) call by call of the C library, for several runs of  *)
(* tnef that extract into one directory at the same time.  Between the     *)
(* stat that finds a name free and the fopen that truncates it, and        *)
(* between two blocks of a file, the other runs may do anything; a run may *)
(* be killed anywhere.  No run lists only, none sets --maxsize: neither    *)
(* opens more files.                                                       *)
(***************************************************************************)
EXTENDS Naturals, Sequences

CONSTANTS
  Proc,         \* the runs
  Path, Base,   \* pathnames; those a munged name leads to
  Block,        \* what one write puts into a file
  Data,         \* file contents: sequences of blocks
  Options,      \* the settings a run may have been given
  Jobs,         \* the files a run may have to write, in order
  Existing,     \* the sets of paths that may exist at first
  Unwritable,   \* paths fopen(.., "wb") refuses
  Numbered,     \* <<p, n>> -> "p.n"
  MaxNumber,    \* bound: the largest backup number considered
  Old,          \* the content of a file that was there at first: no run's
  Hole,         \* the bytes of a file nobody wrote
  NULL

Job == [path : Base, data : Data]

ASSUME FileWriteAssumption ==
  /\ Base \subseteq Path
  /\ MaxNumber \in Nat
  /\ Numbered \in [Base \X (1 .. MaxNumber) -> Path]
  /\ Unwritable \subseteq Path
  /\ Existing \subseteq SUBSET Path
  /\ Jobs \subseteq Seq(Job)
  /\ Data \subseteq Seq(Block)
  /\ Old \notin Seq(Block \cup {Hole})
  /\ NULL \notin Path \cup Seq(Block \cup {Hole}) \cup {Old}
  /\ \A o \in Options :
       {o.interactive, o.overwrite, o.numbered} \subseteq BOOLEAN

VARIABLES
  opts,      \* [Proc -> Options]: never changes
  dir,       \* the directory: the existing paths and what each holds
  status,    \* [Proc -> "running", or how the run ended]
  pc,        \* [Proc -> where its call of file_write stands]
  todo,      \* [Proc -> the files it has still to write, the current first]
  target,    \* [Proc -> the path it is about to open, or writes]
  number,    \* [Proc -> counter of find_free_number]
  off,       \* [Proc -> blocks of the current file written]
  log,       \* history: [Proc -> the calls completed or cut short]
  before,    \* history: [Proc -> what the path held when it was opened]
  opened,    \* history: the <<run, path>> of every fopen
  contended  \* history: paths opened while another run had found them free

local == <<status, pc, todo, target, number, off>>
history == <<log, before, opened, contended>>
vars == <<opts, dir, local, history>>

File(p) == Head(todo[p])

Labels == {"start", "check", "number", "open", "write"}

Entry == [job : Job, how : {"declined", "refused", "stored", "torn"},
          at : Path \cup {NULL}]

(* A file that is being written has a block left to write. *)
TypeOK ==
  /\ opts \in [Proc -> Options]
  /\ DOMAIN dir \subseteq Path
  /\ dir \in [DOMAIN dir -> Seq(Block \cup {Hole}) \cup {Old}]
  /\ status \in [Proc -> {"running", "ok", "fail", "killed"}]
  /\ pc \in [Proc -> Labels]
  /\ todo \in [Proc -> Seq(Job)]
  /\ target \in [Proc -> Path \cup {NULL}]
  /\ number \in [Proc -> Nat] /\ off \in [Proc -> Nat]
  /\ log \in [Proc -> Seq(Entry)]
  /\ before \in [Proc -> Seq(Block \cup {Hole}) \cup {Old, NULL}]
  /\ opened \subseteq Proc \X Path
  /\ contended \subseteq Path
  /\ \A p \in Proc :
       /\ pc[p] # "start" => todo[p] # <<>> /\ target[p] \in Path
       /\ pc[p] = "write" => target[p] \in DOMAIN dir /\ off[p] < Len(File(p).data)

Init ==
  /\ opts \in [Proc -> Options]
  /\ \E S \in Existing : dir = [q \in S |-> Old]
  /\ status = [p \in Proc |-> "running"]
  /\ pc = [p \in Proc |-> "start"]
  /\ todo \in [Proc -> Jobs]
  /\ target = [p \in Proc |-> NULL]
  /\ number = [p \in Proc |-> 0]
  /\ off = [p \in Proc |-> 0]
  /\ log = [p \in Proc |-> <<>>]
  /\ before = [p \in Proc |-> NULL]
  /\ opened = {} /\ contended = {}

-----------------------------------------------------------------------------
(* Helpers *)

file_exists(q) == q \in DOMAIN dir

Goto(p, label) == pc' = [pc EXCEPT ![p] = label]

(* p has found q free, and has not opened it. *)
Claims(p, q) == pc[p] = "open" /\ target[p] = q /\ ~opts[p].overwrite

(* The content s with block b at position k: a file that another run has   *)
(* truncated meanwhile has a hole before it.                               *)
WriteAt(s, k, b) ==
  [n \in 1 .. (IF Len(s) < k THEN k ELSE Len(s)) |->
     IF n = k THEN b ELSE IF n <= Len(s) THEN s[n] ELSE Hole]

Put(q, c) == [r \in DOMAIN dir \cup {q} |-> IF r = q THEN c ELSE dir[r]]

Logged(p, how, at) ==
  log' = [log EXCEPT ![p] = Append(@, [job |-> File(p), how |-> how, at |-> at])]

(* file_write returns: on to the next file. *)
Returns(p, how, at) ==
  /\ Goto(p, "start")
  /\ todo' = [todo EXCEPT ![p] = Tail(@)]
  /\ Logged(p, how, at)

-----------------------------------------------------------------------------
(* The steps of file_write *)

(* confirm_action comes before the path is looked at. *)
Confirm(p) ==
  /\ pc[p] = "start" /\ todo[p] # <<>>
  /\ Goto(p, IF opts[p].overwrite THEN "open" ELSE "check")
  /\ target' = [target EXCEPT ![p] = File(p).path]
  /\ UNCHANGED <<dir, status, todo, number, off, history>>

Decline(p) ==
  /\ pc[p] = "start" /\ todo[p] # <<>>
  /\ opts[p].interactive
  /\ Returns(p, "declined", NULL)
  /\ UNCHANGED <<dir, status, target, number, off, before, opened, contended>>

(* Mutant: with --number-backups the path itself is not looked for. *)
CheckFree_MutTrusts(p) ==
  /\ pc[p] = "check" /\ (~file_exists(target[p]) \/ opts[p].numbered)
  /\ Goto(p, "open")
  /\ UNCHANGED <<dir, status, todo, target, number, off, history>>

CheckFree(p) ==
  /\ pc[p] = "check" /\ ~file_exists(target[p])
  /\ Goto(p, "open")
  /\ UNCHANGED <<dir, status, todo, target, number, off, history>>

Refuse(p) ==
  /\ pc[p] = "check" /\ file_exists(target[p]) /\ ~opts[p].numbered
  /\ Returns(p, "refused", NULL)
  /\ UNCHANGED <<dir, status, target, number, off, before, opened, contended>>

CheckTaken(p) ==
  /\ pc[p] = "check" /\ file_exists(target[p]) /\ opts[p].numbered
  /\ Goto(p, "number")
  /\ number' = [number EXCEPT ![p] = 1]
  /\ UNCHANGED <<dir, status, todo, target, off, history>>

Backup(p) == Numbered[<<File(p).path, number[p]>>]

(* Mutant: the counter stays where it is. *)
NumberTaken_MutStays(p) ==
  /\ pc[p] = "number" /\ number[p] \in 1 .. MaxNumber
  /\ file_exists(Backup(p))
  /\ UNCHANGED <<dir, local, history>>

(* find_free_number, one round of its loop at a time. *)
NumberTaken(p) ==
  /\ pc[p] = "number" /\ number[p] \in 1 .. MaxNumber
  /\ file_exists(Backup(p))
  /\ number' = [number EXCEPT ![p] = @ + 1]
  /\ UNCHANGED <<dir, status, pc, todo, target, off, history>>

(* Mutant: the path returned is that of the next round. *)
NumberFree_MutNext(p) ==
  /\ pc[p] = "number" /\ number[p] \in 1 .. MaxNumber - 1
  /\ ~file_exists(Backup(p))
  /\ Goto(p, "open")
  /\ target' = [target EXCEPT ![p] = Numbered[<<File(p).path, number[p] + 1>>]]
  /\ UNCHANGED <<dir, status, todo, number, off, history>>

NumberFree(p) ==
  /\ pc[p] = "number" /\ number[p] \in 1 .. MaxNumber
  /\ ~file_exists(Backup(p))
  /\ Goto(p, "open")
  /\ target' = [target EXCEPT ![p] = Backup(p)]
  /\ UNCHANGED <<dir, status, todo, number, off, history>>

(* Mutant: a file that exists keeps what it holds. *)
Truncated_MutAppends(q) == IF file_exists(q) THEN dir ELSE Put(q, <<>>)

(* The effect of fopen (q, "wb"). *)
Truncated(q) == Put(q, <<>>)

Open(p) ==
  /\ pc[p] = "open" /\ target[p] \notin Unwritable
  /\ dir' = Truncated(target[p])
  /\ off' = [off EXCEPT ![p] = 0]
  /\ before' = [before EXCEPT
       ![p] = IF file_exists(target[p]) THEN dir[target[p]] ELSE NULL]
  /\ opened' = opened \cup {<<p, target[p]>>}
  /\ contended' = contended \cup
       {q \in {target[p]} : \E r \in Proc \ {p} : Claims(r, q)}
  /\ IF File(p).data = <<>>
     THEN Returns(p, "stored", target[p])     \* fclose has nothing to write
     ELSE Goto(p, "write") /\ UNCHANGED <<todo, log>>
  /\ UNCHANGED <<status, target, number>>

(* Mutant: a path that cannot be opened is looked for once more. *)
OpenFails_MutRetries(p) ==
  /\ pc[p] = "open" /\ target[p] \in Unwritable
  /\ Goto(p, "check")
  /\ UNCHANGED <<dir, status, todo, target, number, off, history>>

OpenFails(p) ==
  /\ pc[p] = "open" /\ target[p] \in Unwritable
  /\ status' = [status EXCEPT ![p] = "fail"]
  /\ UNCHANGED <<dir, pc, todo, target, number, off, history>>

LastBlock(p) == off[p] + 1 = Len(File(p).data)

(* A block reaches the file at this run's own offset; the last one when    *)
(* fclose flushes it.                                                      *)
WriteBlock(p) ==
  /\ pc[p] = "write"
  /\ dir' = Put(target[p],
                WriteAt(dir[target[p]], off[p] + 1, File(p).data[off[p] + 1]))
  /\ off' = [off EXCEPT ![p] = @ + 1]
  /\ IF LastBlock(p)
     THEN Returns(p, "stored", target[p])
     ELSE UNCHANGED <<pc, todo, log>>
  /\ UNCHANGED <<status, target, number, before, opened, contended>>

(* The disk is full when fclose flushes the last block: nobody looks.      *)
FlushLost(p) ==
  /\ pc[p] = "write" /\ LastBlock(p)
  /\ Returns(p, "torn", target[p])
  /\ UNCHANGED <<dir, status, target, number, off, before, opened, contended>>

(* The run ends between two calls: fwrite falls short of the whole file,   *)
(* or a signal kills it.  What it was writing stays as it is.              *)
Dies(p) ==
  /\ \E how \in {"fail", "killed"} :
       /\ how = "fail" => pc[p] = "write"
       /\ status' = [status EXCEPT ![p] = how]
  /\ IF pc[p] = "write" THEN Logged(p, "torn", target[p]) ELSE UNCHANGED log
  /\ UNCHANGED <<dir, pc, todo, target, number, off, before, opened, contended>>

Finish(p) ==
  /\ pc[p] = "start" /\ todo[p] = <<>>
  /\ status' = [status EXCEPT ![p] = "ok"]
  /\ UNCHANGED <<dir, pc, todo, target, number, off, history>>

Step(p) ==
  /\ status[p] = "running"
  /\ \/ Confirm(p) \/ Decline(p)
     \/ CheckFree(p) \/ Refuse(p) \/ CheckTaken(p)
     \/ NumberTaken(p) \/ NumberFree(p)
     \/ Open(p) \/ OpenFails(p)
     \/ WriteBlock(p) \/ FlushLost(p)
     \/ Finish(p)
  /\ UNCHANGED opts

Death(p) == status[p] = "running" /\ Dies(p) /\ UNCHANGED opts

Next == \E p \in Proc : Step(p) \/ Death(p)

Spec == Init /\ [][Next]_vars

(* Every run is scheduled, and its user answers. *)
FairSpec == Spec /\ \A p \in Proc : WF_vars(Step(p))

-----------------------------------------------------------------------------
(* Properties *)

Overwritten(q) == \E p \in Proc : opts[p].overwrite /\ <<p, q>> \in opened

(* No interleaving of runs, killed or not, touches a file that was there   *)
(* before them, unless a run with --overwrite opens it.                    *)
OldFilesKept ==
  [][\A q \in DOMAIN dir :
       dir[q] = Old => \/ q \in DOMAIN dir' /\ dir'[q] = Old
                       \/ Overwritten(q)']_vars

(* A file that was written to its end holds exactly its data from then on, *)
(* with two exceptions: a run with --overwrite opened it, or it was opened *)
(* while another run had found its name free and not yet opened it.  The   *)
(* window between stat and fopen is the only way runs without --overwrite  *)
(* can lose or mix up what they wrote.                                     *)
IntactUnlessContended ==
  \A p \in Proc : \A i \in DOMAIN log[p] :
    LET e == log[p][i] IN
    e.how = "stored" => \/ file_exists(e.at) /\ dir[e.at] = e.job.data
                        \/ e.at \in contended
                        \/ Overwritten(e.at)

(* What lies ahead of a run in its call of file_write, and the turns left  *)
(* of the loop it is in.                                                   *)
Ahead(p) ==
  CASE pc[p] = "start"  -> 4
    [] pc[p] = "check"  -> 3
    [] pc[p] = "number" -> 2
    [] pc[p] = "open"   -> 1
    [] pc[p] = "write"  -> 0

Turns(p) ==
  CASE pc[p] = "number" -> MaxNumber + 1 - number[p]
    [] pc[p] = "write"  -> Len(File(p).data) - off[p]
    [] OTHER            -> 0

(* A step of p: it ends, is done with a file, comes further with it, or    *)
(* makes a turn of a loop that has one less then.                          *)
GetsOn(p) ==
  /\ status[p] = "running"
  /\ Turns(p)' \in Nat
  /\ \/ status'[p] # "running"
     \/ Len(todo'[p]) < Len(todo[p])
     \/ /\ todo'[p] = todo[p]
        /\ Ahead(p)' < Ahead(p)
     \/ /\ todo'[p] = todo[p] /\ Ahead(p)' = Ahead(p)
        /\ Turns(p)' < Turns(p)

(* No run is ever thrown back: a step of one brings it on, to the next     *)
(* place, number, block or file, and touches nothing the others have still *)
(* to do, even when it takes the name another has just found free.         *)
NoRunThrownBack ==
  [][\E p \in Proc :
       /\ GetsOn(p)
       /\ \A q \in Proc \ {p} :
            /\ status'[q] = status[q] /\ todo'[q] = todo[q]
            /\ Ahead(q)' = Ahead(q) /\ Turns(q)' = Turns(q)]_vars

(* Every run ends or is killed, whatever the others do: the search for a   *)
(* free number always finds one in the end.                                *)
EveryRunEnds == \A p \in Proc : <>(status[p] # "running")
=============================================================================
