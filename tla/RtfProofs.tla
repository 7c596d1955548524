----------------------------- MODULE RtfProofs -----------------------------
(***************************************************************************)
(* Proofs about the RTF decompressor, for a dictionary of any size, any    *)
(* preset text, any lengths and any compressed data.                       *)
(***************************************************************************)
EXTENDS Rtf, TLAPS

(* The loop between its steps. *)
Loop ==
  /\ pc = "header" => lenc = 0 /\ lenu = 0 /\ cin = 0
  /\ pc = "copy" <=> rlen > 0
  /\ pc = "copy" => i < Tokens
  /\ endflag # 0 => pc = "done"

IInv == TypeOK /\ Loop /\ InBounds /\ ReferenceBehind /\ DictIsWindow

-----------------------------------------------------------------------------
(* The circular dictionary *)

LEMMA MaskedSlot ==
  ASSUME NEW k \in Slots
  PROVE  Masked(k + 1) \in Slots
BY RtfAssumption DEF Slots, Masked

(* Writing a byte makes every other slot one older. *)
LEMMA AgeStep ==
  ASSUME woff \in Slots, woff' = Masked(woff + 1), NEW s \in Slots
  PROVE  Age(s)' = IF s = woff THEN 1 ELSE Age(s) + 1
BY RtfAssumption DEF Slots, Masked, Age

LEMMA AgeType ==
  ASSUME woff \in Slots, NEW s \in Slots
  PROVE  /\ Age(s) \in 1 .. N
         /\ s # woff => Age(s) \in 1 .. N - 1
BY RtfAssumption DEF Slots, Age

(* A byte that was d back is d + 1 back when one more follows. *)
LEMMA BackStep ==
  ASSUME dest \in Seq(Byte), NEW b \in Byte, dest' = Append(dest, b),
         NEW d \in Nat \ {0}
  PROVE  /\ Stream!Back(1)' = b
         /\ Stream!Back(d + 1)' = Stream!Back(d)
<1>1. /\ Len(dest') = Len(dest) + 1 /\ Len(dest) \in Nat
      /\ dest'[Len(dest) + 1] = b
      /\ \A n \in 1 .. Len(dest) : dest'[n] = dest[n]
  OBVIOUS
<1>2. Len(Preset) \in Nat
  BY RtfAssumption
<1> QED
  BY <1>1, <1>2 DEF Stream!Back

LEMMA PutStep ==
  ASSUME TypeOK, DictIsWindow, NEW b \in Byte, Put(b)
  PROVE  /\ dest' \in Seq(Byte) /\ cout' = cout + 1 /\ cout \in Nat
         /\ dict' \in [Slots -> Byte]
         /\ woff' \in Slots
         /\ DictIsWindow'
<1>1. /\ dest \in Seq(Byte) /\ dict \in [Slots -> Byte] /\ woff \in Slots
      /\ dest' = Append(dest, b)
      /\ dict' = [dict EXCEPT ![woff] = b]
      /\ woff' = Masked(woff + 1)
  BY DEF TypeOK, Put
<1>2. dest' \in Seq(Byte) /\ cout' = cout + 1 /\ cout \in Nat
  BY <1>1 DEF cout
<1>3. woff' \in Slots
  BY <1>1, MaskedSlot
<1>4. ASSUME NEW s \in Slots PROVE dict'[s] = Stream!Back(Age(s))'
  <2>1. CASE s = woff
    <3>1. Age(s)' = 1
      BY <1>1, <2>1, AgeStep
    <3>2. Stream!Back(1)' = b
      BY <1>1, BackStep
    <3> QED
      BY <1>1, <2>1, <3>1, <3>2
  <2>2. CASE s # woff
    <3>1. PICK d \in Nat \ {0} : d = Age(s)
      BY <1>1, AgeType, RtfAssumption
    <3>2. Age(s)' = d + 1
      BY <1>1, <2>2, <3>1, AgeStep
    <3>3. Stream!Back(d + 1)' = Stream!Back(d)
      BY <1>1, BackStep
    <3>4. dict[s] = Stream!Back(d)
      BY <3>1 DEF DictIsWindow
    <3> QED
      BY <1>1, <2>2, <3>2, <3>3, <3>4
  <2> QED
    BY <2>1, <2>2
<1> QED
  BY <1>1, <1>2, <1>3, <1>4 DEF DictIsWindow

(* Both offsets of a reference move on together. *)
LEMMA CopyDistance ==
  ASSUME woff \in Slots, roff \in Slots, roff # woff,
         woff' = Masked(woff + 1), roff' = Masked(roff + 1)
  PROVE  roff' # woff' /\ Age(roff)' = Age(roff)
BY RtfAssumption DEF Slots, Masked, Age

LEMMA UnchangedWindow ==
  ASSUME DictIsWindow, UNCHANGED <<dest, dict, woff>>
  PROVE  DictIsWindow'
BY DEF DictIsWindow, Age, Stream!Back

-----------------------------------------------------------------------------
(* The invariant *)

(* Steps that leave output and dictionary alone. *)
Idle == UNCHANGED <<value, dest, dict, woff>>

LEMMA InitInv == Init => IInv
<1> SUFFICES ASSUME Init PROVE IInv
  OBVIOUS
<1>1. Len(Preset) \in Nat /\ N \in Nat /\ Len(Preset) < N
  BY RtfAssumption
<1>2. dict \in [Slots -> Byte]
  BY <1>1, RtfAssumption DEF Init, Slots
<1>3. TypeOK
  BY <1>1, <1>2, RtfAssumption DEF Init, TypeOK, Slots, Results
<1>4. Loop /\ InBounds /\ ReferenceBehind
  BY DEF Init, Loop, InBounds, ReferenceBehind, cout
<1>5. ASSUME NEW s \in Slots PROVE dict[s] = Stream!Back(Age(s))
  <2>1. Len(dest) = 0 /\ woff = Len(Preset)
    BY DEF Init
  <2>2. dict[s] = IF s < Len(Preset) THEN Preset[s + 1] ELSE Zero
    BY DEF Init
  <2>3. CASE s < Len(Preset)
    <3>1. Age(s) = Len(Preset) - s /\ Age(s) > 0 /\ Age(s) <= Len(Preset)
      BY <1>1, <2>1, <2>3 DEF Slots, Age
    <3> QED
      BY <1>1, <2>1, <2>2, <2>3, <3>1 DEF Slots, Stream!Back
  <2>4. CASE s >= Len(Preset)
    <3>1. Age(s) > Len(Preset) /\ Age(s) \in Nat
      BY <1>1, <2>1, <2>4 DEF Slots, Age
    <3> QED
      BY <1>1, <2>1, <2>2, <2>4, <3>1 DEF Slots, Stream!Back
  <2> QED
    BY <1>1, <2>3, <2>4 DEF Slots
<1> QED
  BY <1>3, <1>4, <1>5 DEF IInv, DictIsWindow

LEMMA BecomesStep ==
  ASSUME IInv, pc = "header", NEW r \in Results, Becomes(r)
  PROVE  IInv' /\ Idle
<1>1. TypeOK' /\ Loop' /\ InBounds' /\ ReferenceBehind'
  BY DEF IInv, Becomes, TypeOK, Loop, InBounds, ReferenceBehind, cout
<1>2. DictIsWindow'
  BY UnchangedWindow DEF IInv, Becomes
<1> QED
  BY <1>1, <1>2 DEF IInv, Becomes, Idle

LEMMA BeginStep ==
  ASSUME IInv, Begin
  PROVE  IInv' /\ Idle
<1>1. CASE Becomes("abort") \/ Becomes("fail")
  BY <1>1, BecomesStep DEF Begin, Results
<1>2. CASE /\ value.uncompr > 0
           /\ lenc' = value.len - Header
           /\ lenu' = value.uncompr
           /\ result' = "expanded"
           /\ pc' = "control"
           /\ UNCHANGED <<value, cin, dest, dict, woff, roff, rlen, i, endflag>>
  <2>1. value.len \in Nat /\ value.uncompr \in Nat /\ Header \in Nat
    BY RtfAssumption DEF IInv, TypeOK
  <2>2. value.len > Header
    BY DEF Begin, HeaderOK
  <2>3. lenc' \in Nat /\ lenu' \in Nat
    BY <1>2, <2>1, <2>2
  <2>4. TypeOK'
    BY <1>2, <2>3 DEF IInv, TypeOK, Results
  <2>5. pc = "header"
    BY DEF Begin
  <2>6. Loop'
    BY <1>2, <2>5 DEF IInv, Loop
  <2>7. InBounds' /\ ReferenceBehind'
    <3>1. cin = 0 /\ cout + rlen <= lenu /\ lenu = 0 /\ cout \in Nat /\ rlen \in Nat
      BY <2>5 DEF IInv, Loop, InBounds, TypeOK, cout
    <3>2. cout' = cout
      BY <1>2 DEF cout
    <3> QED
      BY <1>2, <2>3, <3>1, <3>2 DEF InBounds, ReferenceBehind
  <2>8. DictIsWindow'
    BY <1>2, UnchangedWindow DEF IInv
  <2> QED
    BY <1>2, <2>4, <2>6, <2>7, <2>8 DEF IInv, Idle
<1> QED
  BY <1>1, <1>2 DEF Begin

(* The loop ends: nothing but the flag, and the bytes of the end code. *)
LEMMA FinishStep ==
  ASSUME IInv, pc \in {"control", "token"}, NEW flag \in {-1, 1}, Finish(flag),
         cin' \in Nat, cin' <= lenc
  PROVE  IInv' /\ Idle
<1>1. rlen = 0 /\ cout \in Nat
  BY DEF IInv, TypeOK, Loop, cout
<1>2. TypeOK' /\ Loop' /\ InBounds' /\ ReferenceBehind'
  BY <1>1 DEF IInv, Finish, TypeOK, Loop, InBounds, ReferenceBehind, cout
<1>3. DictIsWindow'
  BY UnchangedWindow DEF IInv, Finish
<1> QED
  BY <1>2, <1>3 DEF IInv, Finish, Idle

LEMMA OverrunStep ==
  ASSUME IInv, pc \in {"control", "token"}, Overrun
  PROVE  IInv' /\ Idle
<1>1. cin' \in Nat /\ cin' <= lenc
  BY DEF Overrun, IInv, TypeOK, InBounds
<1> QED
  BY <1>1, FinishStep DEF Overrun

LEMMA ControlStep ==
  ASSUME IInv, Control \/ ControlDone
  PROVE  IInv' /\ Idle
<1>1. CASE Control /\ Overrun
  BY <1>1, OverrunStep DEF Control
<1>2. CASE \/ /\ pc = "control" /\ cin + 1 <= lenc /\ cin' = cin + 1
              /\ i' = 0 /\ pc' = "token"
              /\ UNCHANGED <<dest, dict, woff, roff, rlen, endflag>> /\ Fixed
           \/ ControlDone
  <2>1. TypeOK'
    <3>1. /\ pc' \in {"control", "token"} /\ i' \in 0 .. Tokens /\ cin' \in Nat
          /\ UNCHANGED <<value, result, lenc, lenu, dest, dict, woff, roff, rlen,
                         endflag>>
      BY <1>2, RtfAssumption DEF IInv, TypeOK, ControlDone, Fixed
    <3> QED
      BY <3>1 DEF IInv, TypeOK
  <2>5. /\ pc' \in {"control", "token"} /\ pc \in {"control", "token"}
        /\ cin' <= lenc /\ lenc' = lenc /\ lenu' = lenu
        /\ UNCHANGED <<dest, woff, roff, rlen, endflag>>
    BY <1>2 DEF IInv, InBounds, ControlDone, Fixed
  <2>2. Loop' /\ InBounds' /\ ReferenceBehind'
    BY <2>5 DEF IInv, Loop, InBounds, ReferenceBehind, cout
  <2>3. Idle
    BY <1>2 DEF Idle, ControlDone, Fixed
  <2>4. DictIsWindow'
    BY <2>3, UnchangedWindow DEF IInv, Idle
  <2> QED
    BY <2>1, <2>2, <2>3, <2>4 DEF IInv
<1> QED
  BY <1>1, <1>2 DEF Control

(* One literal byte, or the byte a reference is at. *)
LEMMA LiteralStep ==
  ASSUME IInv, Literal
  PROVE  /\ IInv'
         /\ \/ Idle
            \/ /\ \E b \in Byte : dest' = Append(dest, b)
               /\ rlen = 0 /\ rlen' = 0 /\ endflag = 0 /\ endflag' = 0
<1>1. CASE Overrun
  BY <1>1, OverrunStep DEF Literal
<1>2. CASE /\ cin + 1 <= lenc /\ cout + 1 <= lenu
           /\ \E b \in Byte : Put(b)
           /\ cin' = cin + 1
           /\ i' = i + 1
           /\ UNCHANGED <<pc, roff, rlen, endflag>>
           /\ Fixed
  <2>1. PICK b \in Byte : Put(b)
    BY <1>2
  <2>2. /\ dest' \in Seq(Byte) /\ cout' = cout + 1 /\ cout \in Nat
        /\ dict' \in [Slots -> Byte] /\ woff' \in Slots /\ DictIsWindow'
    BY <2>1, PutStep DEF IInv
  <2>3. pc = "token" /\ i < Tokens /\ rlen = 0 /\ endflag = 0
    BY DEF Literal, IInv, Loop, TypeOK
  <2>4. TypeOK'
    BY <1>2, <2>2, <2>3, RtfAssumption DEF IInv, TypeOK, Fixed
  <2>5. Loop' /\ InBounds' /\ ReferenceBehind'
    BY <1>2, <2>2, <2>3 DEF IInv, Loop, InBounds, ReferenceBehind, Fixed, TypeOK
  <2>6. dest' = Append(dest, b)
    BY <2>1 DEF Put
  <2> QED
    BY <1>2, <2>2, <2>3, <2>4, <2>5, <2>6 DEF IInv
<1> QED
  BY <1>1, <1>2 DEF Literal

LEMMA ReferenceStep ==
  ASSUME IInv, Reference
  PROVE  IInv' /\ Idle
<1>1. CASE Overrun
  BY <1>1, OverrunStep DEF Reference
<1>2. pc = "token" /\ i < Tokens /\ rlen = 0 /\ endflag = 0
  BY DEF Reference, IInv, Loop, TypeOK
<1>3. CASE /\ cin + 2 <= lenc /\ cin' = cin + 2
           /\ Finish(1) \/ Finish(-1)
  <2>1. cin' \in Nat /\ cin' <= lenc
    BY <1>3 DEF IInv, TypeOK
  <2> QED
    BY <1>2, <1>3, <2>1, FinishStep
<1>4. ASSUME cin + 2 <= lenc, cin' = cin + 2,
             NEW r \in Slots, NEW len \in MinRun .. MaxRun,
             r # woff, cout + len <= lenu, roff' = r, rlen' = len, pc' = "copy",
             UNCHANGED <<dest, dict, woff, i, endflag>>, Fixed
      PROVE  IInv' /\ Idle
  <2>1. len \in 1 .. MaxRun
    BY RtfAssumption
  <2>2. TypeOK'
    BY <1>4, <2>1 DEF IInv, TypeOK, Fixed
  <2>3. Loop' /\ InBounds' /\ ReferenceBehind'
    BY <1>2, <1>4, <2>1
    DEF IInv, Loop, InBounds, ReferenceBehind, Fixed, TypeOK, cout
  <2>4. Idle
    BY <1>4 DEF Idle, Fixed
  <2>5. DictIsWindow'
    BY <2>4, UnchangedWindow DEF IInv, Idle
  <2> QED
    BY <2>2, <2>3, <2>4, <2>5 DEF IInv
<1> QED
  BY <1>1, <1>3, <1>4 DEF Reference

LEMMA CopyStep ==
  ASSUME IInv, Copy
  PROVE  IInv'
<1>1. /\ pc = "copy" /\ rlen > 0 /\ roff # woff /\ i < Tokens /\ endflag = 0
      /\ woff \in Slots /\ roff \in Slots
      /\ Put(dict[roff]) /\ roff' = Masked(roff + 1) /\ rlen' = rlen - 1
  BY DEF Copy, IInv, Loop, ReferenceBehind, TypeOK
<1>2. dict[roff] \in Byte
  BY <1>1 DEF IInv, TypeOK
<1>3. /\ dest' \in Seq(Byte) /\ cout' = cout + 1 /\ cout \in Nat
      /\ dict' \in [Slots -> Byte] /\ woff' \in Slots /\ DictIsWindow'
  BY <1>1, <1>2, PutStep DEF IInv
<1>4. roff' \in Slots
  BY <1>1, MaskedSlot
<1>5. roff' # woff'
  BY <1>1, CopyDistance DEF Put
<1>6. TypeOK'
  BY <1>1, <1>3, <1>4, RtfAssumption DEF IInv, TypeOK, Copy, Fixed
<1>7. Loop' /\ InBounds' /\ ReferenceBehind'
  BY <1>1, <1>3, <1>5
  DEF IInv, Loop, InBounds, ReferenceBehind, Copy, Fixed, TypeOK
<1> QED
  BY <1>3, <1>6, <1>7 DEF IInv

LEMMA get_rtf_dataStep ==
  ASSUME IInv, get_rtf_data
  PROVE  IInv' /\ Idle
<1>1. PICK r \in Results : Becomes(r)
  BY DEF get_rtf_data, Results
<1> QED
  BY <1>1, BecomesStep DEF get_rtf_data

LEMMA Inductive == IInv /\ [Next]_vars => IInv'
<1> SUFFICES ASSUME IInv, [Next]_vars PROVE IInv'
  OBVIOUS
<1>1. CASE UNCHANGED vars
  BY <1>1 DEF vars, IInv, TypeOK, Loop, InBounds, ReferenceBehind, DictIsWindow,
              Age, Stream!Back, cout
<1>2. CASE Next
  BY <1>2, get_rtf_dataStep, BeginStep, ControlStep, LiteralStep,
     ReferenceStep, CopyStep DEF Next
<1> QED
  BY <1>1, <1>2

LEMMA Invariance == Spec => []IInv
BY InitInv, Inductive, PTL DEF Spec

(* Every variable keeps its type; the offsets stay in the dictionary. *)
THEOREM Typed == Spec => []TypeOK
BY Invariance, PTL DEF IInv

(* Neither the compressed data nor the output buffer is overrun. *)
THEOREM StaysInBounds == Spec => []InBounds
BY Invariance, PTL DEF IInv

(* The circular dictionary is always the last N bytes of history. *)
THEOREM DictionaryIsWindow == Spec => []DictIsWindow
BY Invariance, PTL DEF IInv

(* While a reference is copied its offset never meets the write offset. *)
THEOREM StaysBehind == Spec => []ReferenceBehind
BY Invariance, PTL DEF IInv

-----------------------------------------------------------------------------
(* What the decompressor implements *)

LEMMA MapsLiteral ==
  ASSUME rlen = 0, rlen' = 0, endflag = 0, endflag' = 0,
         \E b \in Byte : dest' = Append(dest, b)
  PROVE  Stream!LzNext
BY DEF Stream!LzNext, Stream!LzLiteral, Distance

LEMMA MapsCopy ==
  ASSUME IInv, Copy
  PROVE  Stream!LzNext
<1>1. /\ pc = "copy" /\ rlen > 0 /\ roff # woff /\ endflag = 0
      /\ woff \in Slots /\ roff \in Slots /\ rlen \in Nat
      /\ rlen' = rlen - 1 /\ endflag' = endflag
      /\ Put(dict[roff]) /\ roff' = Masked(roff + 1)
  BY DEF Copy, IInv, Loop, ReferenceBehind, TypeOK
<1>2. dest' = Append(dest, Stream!Back(Distance))
  BY <1>1 DEF IInv, DictIsWindow, Put, Distance
<1>3. Age(roff)' = Age(roff)
  BY <1>1, CopyDistance DEF Put
<1>4. Distance' = IF rlen = 1 THEN 0 ELSE Distance
  BY <1>1, <1>3 DEF Distance
<1> QED
  BY <1>1, <1>2, <1>4 DEF Stream!LzNext, Stream!LzCopy

LEMMA MapsReference ==
  ASSUME IInv, Reference
  PROVE  Stream!LzNext \/ UNCHANGED Stream!lzVars
<1>1. pc = "token" /\ rlen = 0 /\ endflag = 0 /\ woff \in Slots
  BY DEF Reference, IInv, Loop, TypeOK
<1>2. ASSUME NEW flag \in {-1, 1}, Finish(flag) PROVE Stream!LzNext
  BY <1>1, <1>2 DEF Finish, Stream!LzNext, Stream!LzEnd, Distance
<1>3. ASSUME NEW r \in Slots, NEW len \in MinRun .. MaxRun,
             r # woff, roff' = r, rlen' = len,
             UNCHANGED <<dest, dict, woff, i, endflag>>
      PROVE  Stream!LzNext
  <2>1. len \in Nat /\ len > 0
    BY RtfAssumption
  <2>2. Age(roff)' = Age(r)
    BY <1>3 DEF Age
  <2>3. Age(r) \in 1 .. N - 1
    BY <1>1, <1>3, AgeType
  <2>4. Distance' \in 1 .. N - 1
    BY <1>3, <2>1, <2>2, <2>3 DEF Distance
  <2> QED
    BY <1>1, <1>3, <2>4 DEF Stream!LzNext, Stream!LzRefer
<1> QED
  BY <1>2, <1>3 DEF Reference, Overrun

LEMMA MapsIdle ==
  ASSUME IInv, UNCHANGED <<dest, woff, roff, rlen>>,
         endflag' = endflag \/ (rlen = 0 /\ endflag = 0 /\ endflag' # 0)
  PROVE  Stream!LzNext \/ UNCHANGED Stream!lzVars
<1>1. Distance' = Distance
  BY DEF Distance, Age
<1> QED
  BY <1>1 DEF Stream!LzNext, Stream!LzEnd, Stream!lzVars

(* The decompressor with its wrapping dictionary produces what the stream  *)
(* means: each byte a literal or the byte at the reference's distance.     *)
THEOREM Implements == Spec => Decompresses
<1>1. Init => Stream!LzInit
  BY DEF Init, Stream!LzInit, Distance
<1>2. ASSUME IInv, [Next]_vars PROVE [Stream!LzNext]_(Stream!lzVars)
  <2>1. CASE UNCHANGED vars
    BY <2>1 DEF vars, Stream!lzVars, Distance, Age
  <2>2. CASE get_rtf_data
    BY <1>2, <2>2, MapsIdle DEF get_rtf_data, Becomes
  <2>3. CASE Begin
    BY <1>2, <2>3, MapsIdle DEF Begin, Becomes
  <2>4. CASE Control \/ ControlDone
    <3>1. rlen = 0 /\ endflag = 0
      BY <1>2, <2>4 DEF Control, ControlDone, IInv, TypeOK, Loop
    <3> QED
      BY <1>2, <2>4, <3>1, MapsIdle
      DEF Control, ControlDone, Overrun, Finish, Fixed
  <2>5. CASE Literal
    <3>1. rlen = 0 /\ endflag = 0
      BY <1>2, <2>5 DEF Literal, IInv, TypeOK, Loop
    <3>2. CASE Overrun
      BY <1>2, <3>1, <3>2, MapsIdle DEF Overrun, Finish
    <3>3. CASE /\ \E b \in Byte : Put(b)
               /\ UNCHANGED <<rlen, endflag>>
      BY <3>1, <3>3, MapsLiteral DEF Put
    <3> QED
      BY <2>5, <3>2, <3>3 DEF Literal
  <2>6. CASE Reference
    BY <1>2, <2>6, MapsReference
  <2>7. CASE Copy
    BY <1>2, <2>7, MapsCopy
  <2> QED
    BY <1>2, <2>1, <2>2, <2>3, <2>4, <2>5, <2>6, <2>7 DEF Next
<1> QED
  BY <1>1, <1>2, Invariance, PTL DEF Spec, Decompresses, Stream!LzSpec
-----------------------------------------------------------------------------
(* How much work there may be *)

Counted == StepsLeft \in Nat /\ (pc # "done" => StepsLeft > 0)

LEMMA StepsLeftCounted == IInv => Counted
<1> SUFFICES ASSUME IInv PROVE Counted
  OBVIOUS
<1>1. /\ lenc \in Nat /\ lenu \in Nat /\ cin \in Nat /\ cout \in Nat
      /\ cin <= lenc
      /\ value.len \in Nat /\ value.uncompr \in Nat
  BY RtfAssumption DEF IInv, TypeOK, InBounds, cout
<1>2. cout <= lenu
  <2>1. rlen \in Nat /\ cout + rlen <= lenu
    BY DEF IInv, TypeOK, InBounds
  <2> QED
    BY <1>1, <2>1
<1> QED
  BY <1>1, <1>2 DEF StepsLeft, Counted

(* A step to the end leaves nothing. *)
LEMMA EndsWork ==
  ASSUME IInv, pc # "done", pc' = "done"
  PROVE  StepsLeft' < StepsLeft
BY StepsLeftCounted DEF StepsLeft, Counted

LEMMA NextShortens ==
  ASSUME IInv, Next
  PROVE  StepsLeft' < StepsLeft
<1> DEFINE ahead == 2 * (lenc - cin) + (lenu - cout)
<1>1. /\ lenc \in Nat /\ lenu \in Nat /\ cin \in Nat /\ cout \in Nat
      /\ cin <= lenc
      /\ value.len \in Nat /\ value.uncompr \in Nat
  BY RtfAssumption DEF IInv, TypeOK, InBounds, cout
<1>2. ahead \in Int
  BY <1>1
<1>3. CASE pc' = "done"
  <2>1. pc # "done"
    BY DEF Next, get_rtf_data, Begin, Control, ControlDone, Literal, Reference, Copy
  <2> QED
    BY <1>3, <2>1, EndsWork
<1>4. CASE Begin /\ pc' # "done"
  <2>1. /\ pc = "header" /\ pc' = "control"
        /\ lenc' = value.len - Header /\ lenu' = value.uncompr
        /\ cin' = cin /\ cout' = cout
    BY <1>4 DEF Begin, Becomes, cout
  <2>2. Header \in Nat
    BY RtfAssumption
  <2>3. StepsLeft = 2 * value.len + value.uncompr + 1
    BY <2>1 DEF StepsLeft
  <2>4. StepsLeft' = 2 * (value.len - Header - cin) + (value.uncompr - cout) + 1
    BY <2>1 DEF StepsLeft
  <2>5. Header > 0
    BY RtfAssumption
  <2> QED
    BY <1>1, <2>2, <2>3, <2>4, <2>5
<1>5. CASE Control /\ pc' # "done"
  <2>1. /\ pc = "control" /\ pc' = "token"
        /\ lenc' = lenc /\ lenu' = lenu /\ cin' = cin + 1 /\ cout' = cout
    BY <1>5 DEF Control, Overrun, Finish, Fixed, cout
  <2>2. StepsLeft = ahead + 1
    BY <2>1 DEF StepsLeft
  <2>3. StepsLeft' = ahead' + 2
    BY <2>1 DEF StepsLeft
  <2>4. ahead' = ahead - 2
    BY <1>1, <2>1
  <2> QED
    BY <1>2, <2>2, <2>3, <2>4
<1>6. CASE ControlDone
  <2>1. /\ pc = "token" /\ pc' = "control"
        /\ lenc' = lenc /\ lenu' = lenu /\ cin' = cin /\ cout' = cout
    BY <1>6 DEF ControlDone, Fixed, cout
  <2>2. StepsLeft = ahead + 2
    BY <2>1 DEF StepsLeft
  <2>3. StepsLeft' = ahead + 1
    BY <2>1 DEF StepsLeft
  <2> QED
    BY <1>2, <2>2, <2>3
<1>7. CASE Literal /\ pc' # "done"
  <2>1. /\ pc = "token" /\ pc' = "token"
        /\ lenc' = lenc /\ lenu' = lenu /\ cin' = cin + 1
        /\ \E b \in Byte : Put(b)
    BY <1>7 DEF Literal, Overrun, Finish, Fixed
  <2>2. cout' = cout + 1
    BY <2>1, PutStep DEF IInv
  <2>3. StepsLeft = ahead + 2
    BY <2>1 DEF StepsLeft
  <2>4. StepsLeft' = ahead' + 2
    BY <2>1 DEF StepsLeft
  <2>5. ahead' = ahead - 3
    BY <1>1, <2>1, <2>2
  <2> QED
    BY <1>2, <2>3, <2>4, <2>5
<1>8. CASE Reference /\ pc' # "done"
  <2>1. /\ pc = "token" /\ pc' = "copy"
        /\ lenc' = lenc /\ lenu' = lenu /\ cin' = cin + 2 /\ cout' = cout
    BY <1>8 DEF Reference, Overrun, Finish, Fixed, cout
  <2>2. StepsLeft = ahead + 2
    BY <2>1 DEF StepsLeft
  <2>3. StepsLeft' = ahead' + 2
    BY <2>1 DEF StepsLeft
  <2>4. ahead' = ahead - 4
    BY <1>1, <2>1
  <2> QED
    BY <1>2, <2>2, <2>3, <2>4
<1>9. CASE Copy
  <2>1. /\ pc = "copy" /\ pc' \in {"copy", "token"}
        /\ lenc' = lenc /\ lenu' = lenu /\ cin' = cin
        /\ Put(dict[roff])
    BY <1>9 DEF Copy, Fixed
  <2>2. dict[roff] \in Byte
    BY DEF IInv, TypeOK
  <2>3. cout' = cout + 1
    BY <2>1, <2>2, PutStep DEF IInv
  <2>4. StepsLeft = ahead + 2
    BY <2>1 DEF StepsLeft
  <2>5. StepsLeft' = ahead' + 2
    BY <2>1 DEF StepsLeft
  <2>6. ahead' = ahead - 1
    BY <1>1, <2>1, <2>3
  <2> QED
    BY <1>2, <2>4, <2>5, <2>6
<1>10. CASE get_rtf_data
  <2>1. pc' = "done"
    BY <1>10 DEF get_rtf_data, Becomes
  <2> QED
    BY <1>3, <2>1
<1> QED
  BY <1>3, <1>4, <1>5, <1>6, <1>7, <1>8, <1>9, <1>10 DEF Next

(* No data keeps the decompressor busy for more steps than twice the bytes *)
(* it reads and the bytes it writes: every step uses up one of them.       *)
THEOREM WorkIsBounded == Spec => StepsBounded
<1>1. IInv' => Counted'
  BY StepsLeftCounted, PTL
<1>2. ASSUME IInv, IInv', [Next]_vars
      PROVE  [StepsLeft' \in Nat /\ StepsLeft' < StepsLeft]_vars
  <2>1. CASE UNCHANGED vars
    BY <2>1
  <2>2. CASE Next
    <3>1. StepsLeft' < StepsLeft
      BY <1>2, <2>2, NextShortens
    <3>2. StepsLeft' \in Nat
      BY <1>2, <1>1 DEF Counted
    <3> QED
      BY <3>1, <3>2
  <2> QED
    BY <1>2, <2>1, <2>2
<1> QED
  BY <1>2, Invariance, PTL DEF Spec, StepsBounded
=============================================================================
