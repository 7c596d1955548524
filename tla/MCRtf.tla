------------------------------- MODULE MCRtf -------------------------------
(* Rtf with a dictionary of five bytes, two of them preset: the offsets    *)
(* wrap within a few tokens and references overlap their own output.       *)
EXTENDS Rtf

MCPreset == <<1, 2>>

V(len, compr, uncompr, magic, intact) ==
  [len |-> len, compr |-> compr, uncompr |-> uncompr, magic |-> magic,
   intact |-> intact]

(* With a header of 4: 1 to MaxIn compressed bytes that claim 1 to MaxOut, *)
(* and the headers that are turned away.                                   *)
MCMaxIn == 8
MCMaxOut == 7

MCValue ==
  {V(4 + c, c, u, "compressed", TRUE) : c \in 1 .. MCMaxIn, u \in 0 .. MCMaxOut + 1}
    \cup {V(4 + c, c, 3, m, b) : c \in 0 .. 1, b \in BOOLEAN,
             m \in {"uncompressed", "compressed", "other"}}
    \cup {V(5, 5, 3, "compressed", TRUE), V(5, 1, 8, "uncompressed", TRUE),
          V(0, 0, 0, "compressed", TRUE)}
=============================================================================
