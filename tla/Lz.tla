-------------------------------- MODULE Lz ---------------------------------
(***************************************************************************)
(* What a compressed RTF stream means, without dictionary or offsets: the  *)
(* output grows a byte at a time, and each byte is a literal or repeats    *)
(* the one a fixed distance back.  Before the output lie the preset text   *)
(* every RTF stream starts from, and zeros before that.                    *)
(***************************************************************************)
EXTENDS Integers, Sequences

CONSTANTS
  Byte,
  Zero,     \* the byte 0
  Preset,   \* rtf_prebuf
  N,        \* how far back a reference may reach, exclusive: 4096
  MinRun,   \* the shortest and longest reference: 2 and 17
  MaxRun

VARIABLES
  out,    \* the bytes decompressed so far
  dist,   \* the distance of the reference being copied, 0 if none is
  left,   \* how many of its bytes are left
  open    \* whether the stream still goes on

lzVars == <<out, dist, left, open>>

(* The byte d back from the end of the output. *)
Back(d) ==
  IF d <= Len(out) THEN out[Len(out) + 1 - d]
  ELSE IF d - Len(out) <= Len(Preset)
       THEN Preset[Len(Preset) + 1 - (d - Len(out))]
       ELSE Zero

LzInit == out = <<>> /\ dist = 0 /\ left = 0 /\ open = TRUE

LzLiteral ==
  /\ open /\ left = 0
  /\ \E b \in Byte : out' = Append(out, b)
  /\ UNCHANGED <<dist, left, open>>

LzRefer ==
  /\ open /\ left = 0
  /\ dist' \in 1 .. N - 1
  /\ left' \in MinRun .. MaxRun
  /\ UNCHANGED <<out, open>>

LzCopy ==
  /\ open /\ left > 0
  /\ out' = Append(out, Back(dist))
  /\ left' = left - 1
  /\ dist' = IF left = 1 THEN 0 ELSE dist
  /\ UNCHANGED open

LzEnd ==
  /\ open /\ left = 0
  /\ open' = FALSE
  /\ UNCHANGED <<out, dist, left>>

LzNext == LzLiteral \/ LzRefer \/ LzCopy \/ LzEnd

LzSpec == LzInit /\ [][LzNext]_lzVars
=============================================================================
