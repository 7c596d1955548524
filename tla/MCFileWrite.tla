---------------------------- MODULE MCFileWrite ----------------------------
(***************************************************************************)
(* Two runs in one directory, for TLC.  <<"a", 1>> is the path a.1, be it  *)
(* a backup or an attachment of that name.                                 *)
(***************************************************************************)
EXTENDS FileWriteAtomic

CONSTANTS p1, p2

MCProc == {p1, p2}
MCNumbers == 6
MCBase == {<<"a">>, <<"a", 1>>}
MCPath == MCBase \cup {Append(p, n) : p \in MCBase, n \in 1 .. MCNumbers}
                 \cup {<<"tnef-tmp">>}
MCNumbered == [q \in MCBase \X (1 .. MCNumbers) |-> Append(q[1], q[2])]
MCBlock == {"x", "y", "z"}
MCData == {<<>>, <<"x">>, <<"y", "z">>}
MCOld == <<"old">>

J(path, data) == [path |-> path, data |-> data]

MCJobs ==
  {<<>>,
   <<J(<<"a">>, <<"x">>), J(<<"a", 1>>, <<"y", "z">>)>>,
   <<J(<<"a">>, <<"y", "z">>), J(<<"a">>, <<>>)>>}

Setting(o, n, i) ==
  [list |-> FALSE, verbose |-> FALSE, maxsize |-> 0,
   interactive |-> i, overwrite |-> o, numbered |-> n]

MCOptions == {Setting(FALSE, FALSE, TRUE), Setting(FALSE, TRUE, FALSE),
              Setting(TRUE, FALSE, FALSE)}

MCExisting == {{}, {<<"a">>, <<"a", 2>>}}
MCUnwritable == {<<"a", 1, 1>>}
=============================================================================
