----------------------------- MODULE MCCmdline -----------------------------
(* Cmdline with up to three words, int32 of three bits and size_t of six.  *)
EXTENDS Cmdline

CONSTANT mcNull

MCDash == "-"
MCChar == {"r", "h", "t", "a", "l", "R", "x"}
MCToLower == [c \in MCChar |-> IF c = "R" THEN "r" ELSE c]

W(name, args) == {[name |-> name, arg |-> a] : a \in args}

MCPrefs == {<<>>, <<"R">>, <<"t", "h">>, <<"r", "x">>, <<"a", "l", "l">>,
            <<"r", "h", "t", "r">>}

(* Words that set what only one of them sets. *)
MCWords ==
  UNION {W(n, {mcNull}) : n \in {"debug", "list", "list_with_mime_types",
           "verbose", "interactive", "overwrite", "help", "unknown"}}
    \cup W("file", {"-", "a"}) \cup W("operand", {"b", "-"})
    \cup W("directory", {"a"}) \cup W("save_body", {mcNull, "b"})
    \cup W("body_pref", MCPrefs)
    \cup {[name |-> "maxsize", arg |-> [value |-> 3, junk |-> j]] :
             j \in BOOLEAN}

(* Every size an int32 holds if it is negative, and every size_t. *)
MCSizes ==
  {[name |-> "maxsize", arg |-> [value |-> n, junk |-> FALSE]] : n \in -4 .. 63}
=============================================================================
