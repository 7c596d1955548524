------------------------------- MODULE MCMapi -------------------------------
(***************************************************************************)
(* Small instances of Mapi for TLC.  A uint32 has eight bits here, a       *)
(* size_t twelve; structures have the sizes they have on a 64-bit machine. *)
(***************************************************************************)
EXTENDS Mapi

MCLens == {4, 5, 8, 13, 24, 33, 42, 52}
MCCounts == {0, 1, 2, 200, 255}
MCLengths == {0, 1, 2, 5, 8, 255}
MCUnits == {127, 128, 2047}
MCLimits == {0, 40}
=============================================================================
