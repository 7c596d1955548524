-------------------------------- MODULE Rtf --------------------------------
(***************************************************************************)
(* rtf.c, for one value of an RTF body property: get_rtf_data checks its   *)
(* header, decompress_rtf_data expands it with a circular dictionary.  The *)
(* compressed bytes are chosen as they are read.  The dictionary, 4096     *)
(* bytes in the code, has N entries here, and a control byte announces     *)
(* Tokens tokens rather than 8.                                            *)
(***************************************************************************)
EXTENDS Integers, Sequences

CONSTANTS
  Byte, Zero, Preset, N, MinRun, MaxRun,   \* see Lz
  Tokens,     \* tokens a control byte announces
  Header,     \* length of the header: 16 bytes
  Value,      \* the values: [len, compr, uncompr : Nat, magic, intact]
  AllocLimit  \* --maxsize, 0 for none

ASSUME RtfAssumption ==
  /\ Zero \in Byte
  /\ Preset \in Seq(Byte)
  /\ N \in Nat /\ Len(Preset) < N
  /\ MinRun \in Nat /\ MaxRun \in Nat /\ 1 <= MinRun /\ MinRun <= MaxRun
  /\ Tokens \in Nat \ {0}
  /\ Header \in Nat /\ 4 <= Header
  /\ AllocLimit \in Nat
  /\ \A v \in Value :
       /\ v.len \in Nat /\ v.compr \in Nat /\ v.uncompr \in Nat
       /\ v.magic \in {"compressed", "uncompressed", "other"}
       /\ v.intact \in BOOLEAN

VARIABLES
  pc,       \* "header", the loop: "control", "token", "copy", or "done"
  value,    \* the value being read
  result,   \* what becomes of it; NULL in the code until it is known
  lenc,     \* length of the compressed data
  lenu,     \* length of the output buffer
  cin,      \* bytes read
  dest,     \* the cout bytes written; the rest of the buffer is zero
  dict,     \* the dictionary
  woff,     \* where the next byte goes in it
  roff,     \* where a reference is read from
  rlen,     \* bytes of it left to copy
  i,        \* tokens handled of the current control byte
  endflag   \* 0, 1 (end reference seen) or -1 (overrun)

vars == <<pc, value, result, lenc, lenu, cin, dest, dict, woff, roff, rlen, i, endflag>>

Slots == 0 .. N - 1

(* "hole": not RTF; "empty": bad CRC; "copied": stored as it is; "expanded" *)
Results == {"none", "hole", "empty", "copied", "expanded", "abort", "fail"}

TypeOK ==
  /\ pc \in {"header", "control", "token", "copy", "done"}
  /\ value \in Value /\ result \in Results
  /\ lenc \in Nat /\ lenu \in Nat /\ cin \in Nat
  /\ dest \in Seq(Byte)
  /\ dict \in [Slots -> Byte]
  /\ woff \in Slots /\ roff \in Slots
  /\ rlen \in 0 .. MaxRun
  /\ i \in 0 .. Tokens
  /\ endflag \in {-1, 0, 1}

cout == Len(dest)

(* The dictionary starts as the preset text with zeros after it. *)
Init ==
  /\ pc = "header"
  /\ value \in Value /\ result = "none"
  /\ lenc = 0 /\ lenu = 0
  /\ cin = 0 /\ dest = <<>>
  /\ dict = [s \in Slots |-> IF s < Len(Preset) THEN Preset[s + 1] ELSE Zero]
  /\ woff = Len(Preset) /\ roff = 0 /\ rlen = 0
  /\ i = 0 /\ endflag = 0

Fits(size) == AllocLimit = 0 \/ size <= AllocLimit

Becomes(r) ==
  /\ pc' = "done"
  /\ result' = r
  /\ UNCHANGED <<value, lenc, lenu, cin, dest, dict, woff, roff, rlen, i,
                 endflag>>

IsRtf == value.len > Header - 4 /\ value.magic # "other"

(* assert (len > 16), assert (compr_size + 4 == len) *)
HeaderOK == value.len > Header /\ value.compr + 4 = value.len

get_rtf_data ==
  /\ pc = "header"
  /\ \/ ~IsRtf /\ Becomes("hole")
     \/ IsRtf /\ ~HeaderOK /\ Becomes("abort")
     \/ /\ IsRtf /\ HeaderOK /\ value.magic = "uncompressed"
        /\ Becomes(IF Fits(value.uncompr) THEN "copied" ELSE "fail")
     \/ /\ IsRtf /\ HeaderOK /\ value.magic = "compressed" /\ ~value.intact
        /\ Becomes(IF Fits(4) THEN "empty" ELSE "fail")

(* The checks before the loop: the CRC, assert (lenu > 0), the allocation. *)
Begin ==
  /\ pc = "header"
  /\ IsRtf /\ HeaderOK /\ value.magic = "compressed" /\ value.intact
  /\ \/ value.uncompr = 0 /\ Becomes("abort")
     \/ value.uncompr > 0 /\ ~Fits(value.uncompr) /\ Becomes("fail")
     \/ /\ value.uncompr > 0 /\ Fits(value.uncompr)
        /\ lenc' = value.len - Header
        /\ lenu' = value.uncompr
        /\ result' = "expanded"
        /\ pc' = "control"
        /\ UNCHANGED <<value, cin, dest, dict, woff, roff, rlen, i, endflag>>

(* Mutant: the mask keeps one bit too many. *)
Masked_MutWide(k) == IF k = 2 * N THEN 0 ELSE k

(* k & 0xfff, for an offset just incremented. *)
Masked(k) == IF k = N THEN 0 ELSE k

Fixed == UNCHANGED <<value, result, lenc, lenu>>

Finish(flag) ==
  /\ pc' = "done"
  /\ endflag' = flag
  /\ UNCHANGED <<value, result, lenc, lenu, dest, dict, woff, roff, rlen, i>>

(* Mutant: an overrun leaves the inner loop only, endflag still being 0. *)
Overrun_MutNoFlag ==
  /\ pc' = "control"
  /\ Fixed
  /\ UNCHANGED <<cin, dest, dict, woff, roff, rlen, i, endflag>>

Overrun == Finish(-1) /\ UNCHANGED cin

(* Mutant: what is decompressed is not added to the dictionary. *)
Put_MutNoDict(b) ==
  /\ dest' = Append(dest, b)
  /\ woff' = Masked(woff + 1)
  /\ UNCHANGED dict

(* dest[cout++] = b; dict[woff++] = b; woff &= 0xfff *)
Put(b) ==
  /\ dest' = Append(dest, b)
  /\ dict' = [dict EXCEPT ![woff] = b]
  /\ woff' = Masked(woff + 1)

(* Mutant: the control byte is looked at and not passed over. *)
Control_MutPeeks ==
  /\ pc = "control"
  /\ \/ /\ cin + 1 > lenc
        /\ Overrun
     \/ /\ cin + 1 <= lenc
        /\ i' = 0
        /\ pc' = "token"
        /\ UNCHANGED <<cin, dest, dict, woff, roff, rlen, endflag>>
        /\ Fixed

Control ==
  /\ pc = "control"
  /\ \/ /\ cin + 1 > lenc
        /\ Overrun
     \/ /\ cin + 1 <= lenc
        /\ cin' = cin + 1
        /\ i' = 0
        /\ pc' = "token"
        /\ UNCHANGED <<dest, dict, woff, roff, rlen, endflag>>
        /\ Fixed

ControlDone ==
  /\ pc = "token" /\ i = Tokens
  /\ pc' = "control"
  /\ Fixed
  /\ UNCHANGED <<cin, dest, dict, woff, roff, rlen, i, endflag>>

Literal ==
  /\ pc = "token" /\ i < Tokens
  /\ \/ /\ cin + 1 > lenc \/ cout + 1 > lenu
        /\ Overrun
     \/ /\ cin + 1 <= lenc /\ cout + 1 <= lenu
        /\ \E b \in Byte : Put(b)
        /\ cin' = cin + 1
        /\ i' = i + 1
        /\ UNCHANGED <<pc, roff, rlen, endflag>>
        /\ Fixed

(* Mutant: the room in the output is looked at once for each reference. *)
Reference_MutRoomForOne ==
  /\ pc = "token" /\ i < Tokens /\ cin + 2 <= lenc
  /\ cin' = cin + 2
  /\ \E r \in Slots \ {woff}, len \in MinRun .. MaxRun :
       \/ /\ cout + 1 > lenu
          /\ Finish(-1)
       \/ /\ cout + 1 <= lenu
          /\ roff' = r /\ rlen' = len /\ pc' = "copy"
          /\ UNCHANGED <<dest, dict, woff, i, endflag>> /\ Fixed

(* Mutant: the exit test is missing. *)
Reference_MutNoExit ==
  /\ pc = "token" /\ i < Tokens /\ cin + 2 <= lenc
  /\ cin' = cin + 2
  /\ \E r \in Slots, len \in MinRun .. MaxRun :
       \/ /\ cout + len > lenu
          /\ Finish(-1)
       \/ /\ cout + len <= lenu
          /\ roff' = r /\ rlen' = len /\ pc' = "copy"
          /\ UNCHANGED <<dest, dict, woff, i, endflag>> /\ Fixed

Reference ==
  /\ pc = "token" /\ i < Tokens
  /\ \/ /\ cin + 2 > lenc
        /\ Overrun
     \/ /\ cin + 2 <= lenc
        /\ cin' = cin + 2
        /\ \E r \in Slots, len \in MinRun .. MaxRun :
             \/ /\ r = woff          \* the one true exit test
                /\ Finish(1)
             \/ /\ r # woff /\ cout + len > lenu
                /\ Finish(-1)
             \/ /\ r # woff /\ cout + len <= lenu
                /\ roff' = r
                /\ rlen' = len
                /\ pc' = "copy"
                /\ UNCHANGED <<dest, dict, woff, i, endflag>>
                /\ Fixed

(* Mutant: every byte of a reference is read from where it starts. *)
Copy_MutOneByte ==
  /\ pc = "copy"
  /\ Put(dict[roff])
  /\ rlen' = rlen - 1
  /\ \/ rlen > 1 /\ UNCHANGED <<pc, i>>
     \/ rlen = 1 /\ pc' = "token" /\ i' = i + 1
  /\ UNCHANGED <<cin, roff, endflag>>
  /\ Fixed

Copy ==
  /\ pc = "copy"
  /\ Put(dict[roff])
  /\ roff' = Masked(roff + 1)
  /\ rlen' = rlen - 1
  /\ \/ /\ rlen > 1
        /\ UNCHANGED <<pc, i>>
     \/ /\ rlen = 1
        /\ pc' = "token"
        /\ i' = i + 1
  /\ UNCHANGED <<cin, endflag>>
  /\ Fixed

Next == get_rtf_data \/ Begin \/ Control \/ ControlDone \/ Literal \/ Reference \/ Copy

Spec == Init /\ [][Next]_vars

(* The loop runs on by itself. *)
FairSpec == Spec /\ WF_vars(Next)

-----------------------------------------------------------------------------
(* Properties *)

(* Neither buffer is overrun: the bytes of a reference that are still to   *)
(* be copied fit the output too.                                           *)
InBounds ==
  /\ cin <= lenc
  /\ cout + rlen <= lenu

(* How long ago slot s was written, counted in bytes from the newest. *)
Age(s) == IF s < woff THEN woff - s ELSE woff - s + N

Distance == IF rlen > 0 THEN Age(roff) ELSE 0

Stream == INSTANCE Lz WITH out <- dest, dist <- Distance, left <- rlen,
                           open <- (endflag = 0)

(* The dictionary is the last N bytes of the zeros, the preset text and    *)
(* the output, wherever the offsets have wrapped.                          *)
DictIsWindow == \A s \in Slots : dict[s] = Stream!Back(Age(s))

(* A reference never reads the slot it writes: the end code excludes it,   *)
(* so the distance stays what it was when the reference was read.          *)
ReferenceBehind == pc = "copy" => roff # woff

(* The output is what the stream means. *)
Decompresses == Stream!LzSpec

(* How many steps there may yet be: two for a byte to be read, which may   *)
(* be a control byte, and one for a byte to be written.                    *)
StepsLeft ==
  LET ahead == 2 * (lenc - cin) + (lenu - cout) IN
  IF pc = "done" THEN 0
  ELSE IF pc = "header" THEN 2 * value.len + value.uncompr + 1
  ELSE IF pc = "control" THEN ahead + 1
  ELSE ahead + 2

(* Every step of decompress_rtf_data uses up what is left to do, whatever  *)
(* the data: the two lengths bound the work, though it is while (1) with   *)
(* two more loops inside.                                                  *)
StepsBounded == [][StepsLeft' \in Nat /\ StepsLeft' < StepsLeft]_vars

(* The loop comes to an end on any data. *)
Terminates == <>(pc = "done")
=============================================================================
