--------------------------- MODULE MCAttrStream ---------------------------
(***************************************************************************)
(* A small instance of AttrStream for TLC: inputs of up to 12 bytes, which *)
(* hold one attribute of up to six bytes or two of none or one.            *)
(***************************************************************************)
EXTENDS AttrStream

MCSizes == 0 .. 12
MCLevels == {0, 2}
MCNames == {"OEMCODEPAGE", "BODY"}
MCLengths == 0 .. 7
MCContents == {0, 1}
MCSums == {0, 1}
MCSignature == <<7>>

Setting(src, skip, debug, limit) ==
  [src |-> src, skip |-> skip, debug |-> debug, limit |-> limit]

MCSettings ==
  {Setting("stdin", FALSE, FALSE, 0), Setting("stdin", TRUE, TRUE, 0),
   Setting("file", FALSE, TRUE, 0), Setting("file", TRUE, FALSE, 3),
   Setting("file", FALSE, TRUE, 4), Setting("pipe", FALSE, FALSE, 0)}
=============================================================================
