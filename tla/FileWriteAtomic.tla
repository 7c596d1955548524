-------------------------- MODULE FileWriteAtomic --------------------------
(***************************************************************************)
(* A run that has the directory to itself cannot tell FileWrite from       *)
(* OutputDir, where file_write is one step.                                *)
(***************************************************************************)
EXTENDS FileWrite

CONSTANTS DefaultPath, Torn

ASSUME FileWriteAtomicAssumption == \A o \in Options : ~o.list

(* The other runs have no files to write, and never had. *)
Alone(p) == \A q \in Proc \ {p} : todo[q] = <<>> /\ log[q] = <<>>

Writing(p) == pc[p] = "write" /\ status[p] = "running"

(* The last file p wrote at q was cut short. *)
TornAt(p, q) ==
  \E i \in DOMAIN log[p] :
    /\ log[p][i].how = "torn" /\ log[p][i].at = q
    /\ \A j \in DOMAIN log[p] : log[p][j].at = q => j <= i

(* What the path held when p opened it. *)
Before(p) == IF TornAt(p, target[p]) THEN Torn ELSE before[p]

(* The directory as p would find it if file_write were one step: the file  *)
(* being written still is what it was.                                     *)
Seen(p) ==
  [q \in {r \in DOMAIN dir : ~(Writing(p) /\ r = target[p] /\ before[p] = NULL)} |->
     IF Writing(p) /\ q = target[p] THEN Before(p)
     ELSE IF TornAt(p, q) THEN Torn ELSE dir[q]]

FileOf(job) == [name |-> job.path, data |-> job.data,
                date |-> NULL, mime |-> NULL, cid |-> NULL]

CallsOf(p) ==
  [i \in DOMAIN log[p] |-> [src |-> "attachment", file |-> FileOf(log[p][i].job),
                            how |-> log[p][i].how, at |-> log[p][i].at]]

Whole(p) == INSTANCE OutputDir WITH
  opts <- opts[p], fs <- Seen(p), log <- CallsOf(p),
  status <- IF status[p] = "killed" THEN "fail" ELSE status[p],
  Name <- Base, Munge <- [b \in Base |-> b], SafeNumber <- MaxNumber,
  Date <- {}, BadDates <- {}, Tag <- {}, Empty <- <<>>, MayFill <- TRUE

(* Of a run that is alone every step is a step of OutputDir or changes     *)
(* nothing there: testing, numbering, opening and writing a file amount to *)
(* one call of file_write, a kill or a full disk to a torn file.           *)
LoneRunIsAtomic ==
  [][\A p \in Proc : Alone(p) => Whole(p)!DirNext \/ UNCHANGED Whole(p)!dirVars]_vars
=============================================================================
