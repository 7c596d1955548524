------------------------------- MODULE MCPath -------------------------------
(* Path with every name of up to three of six characters that matter, and  *)
(* a few longer ones.                                                      *)
EXTENDS Path

CONSTANT mcNull

MCHex == {"0", "1", "2", "3", "4", "5", "6", "7", "9", "C", "E", "F"}
MCChar == MCHex \cup {"a", ".", "/", "\\", "%", " ", "bel", "e9"}

MCBackslash == "\\"
MCUnsanitary == {"/", "\\"}

MCHi ==
  [c \in MCChar |-> CASE c \in {"/", "%", " ", "."} -> "2"
                      [] c = "\\"                   -> "5"
                      [] c = "bel"                  -> "0"
                      [] c = "e9"                   -> "E"
                      [] c = "a"                    -> "6"
                      [] c \in {"C", "E", "F"}      -> "4"
                      [] OTHER                      -> "3"]
MCLo ==
  [c \in MCChar |-> CASE c = "/"   -> "F" [] c = "%"  -> "5"
                      [] c = " "   -> "0" [] c = "."  -> "E"
                      [] c = "\\"  -> "C" [] c = "e9" -> "9"
                      [] c = "bel" -> "7" [] c = "a"  -> "1"
                      [] c = "C"   -> "3" [] c = "E"  -> "5"
                      [] c = "F"   -> "6" [] OTHER    -> c]

MCIn == {"\\", "/", "%", "5", "C", " "}
MCNames ==
  UNION {[1 .. n -> MCIn] : n \in 0 .. 3}
    \cup {<<"\\", "\\", "a", "\\", ".", ".">>, <<"bel", "a">>, <<"a", "e9">>,
          <<".", ".", "\\", "a", " ">>, <<"a", "\\", "bel", "C">>,
          <<"\\", "\\", "\\", "a">>}
MCDirectories == {mcNull, <<>>, <<"/">>, <<"C">>, <<"/", "C", "/", "/">>}
MCDefault == <<"a">>
=============================================================================
