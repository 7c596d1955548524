----------------------------- MODULE MapiProofs -----------------------------
(***************************************************************************)
(* Theorems of Mapi, for buffers of any length, any counts and lengths in  *)
(* them and any limit: the walk stays in the buffer, in the UTF-8 buffer   *)
(* and in the array of values, and does no more work than there are bytes. *)
(***************************************************************************)
EXTENDS Mapi, TLAPS

(* The variables the invariants read, as far as they need their types.     *)
Numbers ==
  /\ len \in Nat /\ idx \in Nat /\ rounds \in Nat
  /\ from \in Nat /\ left \in Nat /\ room \in Nat /\ out \in Nat
  /\ num_names \in Nat /\ num_values \in Nat /\ j \in Nat /\ v \in Nat
  /\ type \in Types /\ multi \in BOOLEAN
  /\ access \in [at : Nat, size : Nat]

(* Where idx stands past the end of the buffer, and where it does not.     *)
Cursor ==
  /\ pc = "start" => idx = 0
  /\ pc = "guid" => idx <= len /\ num_values = 0
  /\ pc = "names" => num_names > 0 /\ num_values = 0
  /\ pc = "count" => num_values = 0 /\ (num_names = 0 => idx <= len)
  /\ pc = "value" /\ type = "clsid" /\ (multi \/ num_names = 0) => idx <= len
  /\ pc = "utf8" =>
       /\ from + left <= len
       /\ IF num_values = 0 THEN num_names > 0 ELSE type = "unicode"

(* The bytes n bytes of UTF-16 may become; one more is for the NUL.        *)
Grown(n) == (3 * n) \div 2

(* What is left to convert fits what is left of the UTF-8 buffer.          *)
Utf8Room ==
  /\ out <= room
  /\ pc = "utf8" => out + Grown(left) + 1 <= room

(* A type that advances v fills the slots in turn, any other the first.    *)
SlotsInTurn ==
  /\ j <= num_values
  /\ pc \in {"guid", "names", "count"} => num_values = 0
  /\ type \in SeveralValues => v = j /\ filled = 0 .. j - 1
  /\ type \notin SeveralValues => v = 0 /\ filled \subseteq {0}
                                        /\ (j = 0 => filled = {})

IInv ==
  /\ Numbers /\ Cursor /\ Utf8Room
  /\ SlotsInTurn /\ WorkBounded /\ ReadsInBuffer

(* Padding moves forwards, and by three bytes at most. *)
LEMMA Padding ==
  ASSUME NEW n \in Nat
  PROVE  /\ pad_to_4byte(n) \in Nat
         /\ n <= pad_to_4byte(n) /\ pad_to_4byte(n) <= n + 3
<1> DEFINE m == n + 3
<1>1. m \in Nat
  OBVIOUS
<1>2. m \div 4 \in Nat /\ 4 * (m \div 4) <= m /\ m < 4 * (m \div 4) + 4
  BY <1>1
<1> QED
  BY <1>2 DEF pad_to_4byte

(* Two bytes more to convert take three bytes more room. *)
LEMMA Growing ==
  ASSUME NEW n \in Nat
  PROVE  /\ Grown(n) \in Nat
         /\ n >= 2 => Grown(n) = Grown(n - 2) + 3
  BY DEF Grown

(* A value of fixed size advances idx by four bytes at least. *)
LEMMA Moves ==
  \A t \in DOMAIN FixedType :
    /\ FixedType[t].moves \in Nat /\ FixedType[t].moves >= 4
    /\ FixedType[t].reads \in Nat
    /\ FixedType[t].slots = IF t \in SeveralValues THEN 1 ELSE 0
  BY DEF FixedType, SeveralValues

(* The types of fixed size are these. *)
LEMMA FixedTypes ==
  /\ DOMAIN FixedType = {"short", "int", "float", "systime", "double"}
  /\ Types = {"short", "int", "float", "systime", "double", "clsid", "unicode",
              "bytes", "invalid"}
  BY DEF FixedType, Types

(* What the steps need of the assumptions. *)
LEMMA Constants ==
  /\ Lens \subseteq Nat /\ GuidSize = 16
  /\ Counts \subseteq Nat /\ Lengths \subseteq Nat
<1>1. /\ Lens \subseteq Nat /\ GuidSize = 16 /\ Word \in Nat
      /\ Counts \subseteq 0 .. Word - 1 /\ Lengths \subseteq 0 .. Word - 1
  BY MapiAssumption
<1> QED
  BY <1>1

(* At first nothing is read, and nothing converted. *)
LEMMA Starts == Init => IInv
<1> SUFFICES ASSUME Init PROVE IInv
  OBVIOUS
<1> USE DEF Init
<1>1. Numbers
  BY Constants, FixedTypes DEF Numbers
<1>2. Cursor
  BY DEF Cursor
<1>3. Utf8Room
  BY DEF Utf8Room
<1>4. SlotsInTurn
  BY DEF SlotsInTurn, SeveralValues
<1>5. WorkBounded
  BY DEF WorkBounded
<1>6. ReadsInBuffer
  BY Constants DEF ReadsInBuffer, InBuffer
<1> QED
  BY <1>1, <1>2, <1>3, <1>4, <1>5, <1>6 DEF IInv

(* A run that stops moves nothing the invariant reads. *)
LEMMA Stopping == ASSUME IInv, NEW how, Stops(how) PROVE IInv'
<1> USE DEF Stops, args, prop, utf8
<1>1. Numbers'
  BY DEF IInv, Numbers
<1>2. Cursor'
  BY DEF IInv, Cursor
<1>3. Utf8Room'
  BY DEF IInv, Utf8Room
<1>4. SlotsInTurn'
  BY DEF IInv, SlotsInTurn
<1>5. WorkBounded'
  BY DEF IInv, WorkBounded
<1>6. ReadsInBuffer'
  BY DEF IInv, ReadsInBuffer, InBuffer
<1> QED
  BY <1>1, <1>2, <1>3, <1>4, <1>5, <1>6 DEF IInv

(* Nor does one that fails to allocate. *)
LEMMA Failing ==
  ASSUME IInv, NEW outcomes, NEW onNull, AllocFails(outcomes, onNull)
  PROVE  IInv'
  BY Stopping DEF AllocFails

-----------------------------------------------------------------------------
(* The steps, one lemma each: a step that stops the walk, and one that     *)
(* goes on, conjunct by conjunct of the invariant.                         *)

(* The number of properties is read. *)
LEMMA CountStep == ASSUME IInv, ReadCount PROVE IInv'
<1>1. CASE \E how : Stops(how)
  BY <1>1, Stopping
<1>2. CASE \E outcomes, onNull : AllocFails(outcomes, onNull)
  BY <1>2, Failing
<1>3. CASE
      /\ pc = "start" /\ len > 4
      /\ Reads(4) /\ idx' = idx + 4 /\ pc' = "property"
      /\ UNCHANGED <<args, result, i, prop, utf8, filled, rounds>>
  <2> USE <1>3 DEF args, prop, utf8
  <2>1. Numbers'
    BY DEF IInv, Numbers, Reads
  <2>2. Cursor'
    BY DEF IInv, Cursor
  <2>3. Utf8Room'
    BY DEF IInv, Utf8Room
  <2>4. SlotsInTurn'
    BY DEF IInv, SlotsInTurn
  <2>5. WorkBounded'
    BY DEF IInv, WorkBounded, Numbers
  <2>6. ReadsInBuffer'
    BY DEF IInv, ReadsInBuffer, InBuffer, Cursor, Numbers, Reads, Left
  <2> QED
    BY <2>1, <2>2, <2>3, <2>4, <2>5, <2>6 DEF IInv
<1> QED
  BY <1>1, <1>2, <1>3 DEF ReadCount

(* A property begins: idx is in the buffer, and no slot is filled. *)
LEMMA PropertyStep == ASSUME IInv, ReadProperty PROVE IInv'
<1>1. CASE \E how : Stops(how)
  BY <1>1, Stopping
<1>2. CASE \E outcomes, onNull : AllocFails(outcomes, onNull)
  BY <1>2, Failing
<1>3. CASE
      /\ Left(4) /\ Reads(4) /\ idx' = idx + 4
      /\ type' \in Types /\ multi' \in BOOLEAN
      /\ pc' \in {"guid", "count"}
      /\ num_names' = 0 /\ k' = 0 /\ num_values' = 0 /\ j' = 0 /\ v' = 0
      /\ filled' = {} /\ rounds' = rounds + 1
      /\ UNCHANGED <<args, result, num_properties, i, utf8>>
  <2> USE <1>3 DEF args, utf8
  <2>1. Numbers'
    BY DEF IInv, Numbers, Reads
  <2>2. Cursor'
    BY DEF IInv, Cursor, Numbers, Left
  <2>3. Utf8Room'
    BY DEF IInv, Utf8Room
  <2>4. SlotsInTurn'
    BY DEF IInv, SlotsInTurn
  <2>5. WorkBounded'
    BY DEF IInv, WorkBounded, Numbers
  <2>6. ReadsInBuffer'
    BY DEF IInv, ReadsInBuffer, InBuffer, Cursor, Numbers, Reads, Left
  <2> QED
    BY <2>1, <2>2, <2>3, <2>4, <2>5, <2>6 DEF IInv
<1> QED
  BY <1>1, <1>2, <1>3 DEF ReadProperty

(* With at least 24 bytes left idx stays in the buffer. *)
LEMMA GuidStep == ASSUME IInv, ReadGuid PROVE IInv'
<1>1. CASE \E how : Stops(how)
  BY <1>1, Stopping
<1>2. CASE \E outcomes, onNull : AllocFails(outcomes, onNull)
  BY <1>2, Failing
<1>3. CASE
      \E n \in Counts :
        /\ pc = "guid" /\ UNCHANGED <<type, multi, num_values, j, v>>
        /\ UNCHANGED <<len, utf8, filled, rounds>>
        /\ \/ /\ n > 0 /\ Left(GuidSize + 4)
              /\ num_names' = n /\ pc' = "names"
              /\ Reads(GuidSize + 4) /\ idx' = idx + GuidSize + 4
           \/ /\ Left(GuidSize + 8)
              /\ num_names' = num_names /\ pc' = "count"
              /\ Reads(GuidSize + 8) /\ idx' = idx + GuidSize + 8
  <2> USE <1>3 DEF utf8
  <2>1. Numbers'
    BY Constants DEF IInv, Numbers, Reads
  <2>2. Cursor'
    BY Constants DEF IInv, Cursor, Numbers, Left
  <2>3. Utf8Room'
    BY DEF IInv, Utf8Room
  <2>4. SlotsInTurn'
    BY DEF IInv, SlotsInTurn
  <2>5. WorkBounded'
    BY Constants DEF IInv, WorkBounded, Numbers
  <2>6. ReadsInBuffer'
    BY Constants DEF IInv, ReadsInBuffer, InBuffer, Cursor, Numbers, Reads, Left
  <2> QED
    BY <2>1, <2>2, <2>3, <2>4, <2>5, <2>6 DEF IInv
<1> QED
  BY <1>1, <1>2, <1>3 DEF ReadGuid, args, prop

(* A name is converted into a buffer made for it. *)
LEMMA NameStep == ASSUME IInv, ReadName PROVE IInv'
<1>1. CASE \E how : Stops(how)
  BY <1>1, Stopping
<1>2. CASE
      \E n \in Lengths :
        /\ pc = "names" /\ Left(4 + n) /\ Converts(n)
        /\ UNCHANGED <<len, type, multi, num_names, num_values,
                       j, v, filled>>
  <2>0. PICK n \in Lengths :
          /\ pc = "names" /\ Left(4 + n) /\ Converts(n)
          /\ UNCHANGED <<len, type, multi, num_names, num_values,
                         j, v, filled>>
    BY <1>2
  <2>a. n \in Nat /\ Grown(n) \in Nat /\ pad_to_4byte(n) \in Nat
    BY Constants, Padding, Growing
  <2>b. /\ pc' = "utf8" /\ from' = idx + 4 /\ left' = n
        /\ room' = Grown(n) + 1 /\ out' = 0
        /\ access' = [at |-> idx, size |-> 4]
        /\ idx' = idx + 4 + pad_to_4byte(n) /\ rounds' = rounds + 1
        /\ idx + (4 + n) <= len /\ len' = len
    BY <2>0 DEF Converts, Grown, Left, args
  <2>1. Numbers'
    BY <2>0, <2>a, <2>b DEF IInv, Numbers, Sets
  <2>2. Cursor'
    BY <2>0, <2>a, <2>b DEF IInv, Cursor, Numbers, SlotsInTurn
  <2>3. Utf8Room'
    BY <2>0, <2>a, <2>b DEF Utf8Room
  <2>4. SlotsInTurn'
    BY <2>0, <2>a, <2>b DEF IInv, SlotsInTurn, SeveralValues, Numbers, Sets
  <2>5. WorkBounded'
    BY <2>0, <2>a, <2>b DEF IInv, WorkBounded, Numbers
  <2>6. ReadsInBuffer'
    BY <2>0, <2>a, <2>b DEF IInv, ReadsInBuffer, InBuffer, Numbers
  <2> QED
    BY <2>1, <2>2, <2>3, <2>4, <2>5, <2>6 DEF IInv
<1> QED
  BY <1>1, <1>2 DEF ReadName, args

(* The names are behind idx; idx may be past the end. *)
LEMMA NamesStep == ASSUME IInv, NamesRead PROVE IInv'
<1> USE DEF NamesRead, args, prop, utf8
<1>1. Numbers'
  BY DEF IInv, Numbers, Reads
<1>2. Cursor'
  BY DEF IInv, Cursor
<1>3. Utf8Room'
  BY DEF IInv, Utf8Room
<1>4. SlotsInTurn'
  BY DEF IInv, SlotsInTurn
<1>5. WorkBounded'
  BY DEF IInv, WorkBounded, Numbers
<1>6. ReadsInBuffer'
  BY DEF IInv, ReadsInBuffer, InBuffer, Cursor, Numbers, Reads, Left
<1> QED
  BY <1>1, <1>2, <1>3, <1>4, <1>5, <1>6 DEF IInv

(* The number of values is read, or is one. *)
LEMMA ValueCountStep == ASSUME IInv, ReadValueCount PROVE IInv'
<1>1. CASE \E how : Stops(how)
  BY <1>1, Stopping
<1>2. CASE \E outcomes, onNull : AllocFails(outcomes, onNull)
  BY <1>2, Failing
<1>3. CASE
      \E n :
        /\ pc = "count" /\ n \in Nat \ {0} /\ num_values' = n /\ pc' = "value"
        /\ \/ Left(4) /\ Reads(4) /\ idx' = idx + 4
           \/ ~multi /\ UNCHANGED <<access, idx>>
        /\ UNCHANGED <<len, type, multi, num_names, j, v, utf8, filled, rounds>>
  <2> USE <1>3 DEF utf8
  <2>1. Numbers'
    BY DEF IInv, Numbers, Reads
  <2>2. Cursor'
    BY DEF IInv, Cursor, Numbers, Left
  <2>3. Utf8Room'
    BY DEF IInv, Utf8Room
  <2>4. SlotsInTurn'
    BY DEF IInv, SlotsInTurn, Numbers
  <2>5. WorkBounded'
    BY DEF IInv, WorkBounded, Numbers
  <2>6. ReadsInBuffer'
    BY DEF IInv, ReadsInBuffer, InBuffer, Cursor, Numbers, Reads, Left
  <2> QED
    BY <2>1, <2>2, <2>3, <2>4, <2>5, <2>6 DEF IInv
<1> QED
  BY <1>1, <1>2, <1>3, Constants DEF ReadValueCount, args

(* A value of fixed size is set, and v advanced if the type does that. *)
LEMMA FixedStep == ASSUME IInv, ReadFixed PROVE IInv'
<1>1. CASE \E how : Stops(how)
  BY <1>1, Stopping
<1>2. CASE
      /\ pc = "value" /\ j < num_values /\ type \in DOMAIN FixedType
      /\ Left(FixedType[type].reads) /\ Sets(FixedType[type].slots)
      /\ Reads(FixedType[type].reads)
      /\ idx' = idx + FixedType[type].moves /\ rounds' = rounds + 1
      /\ UNCHANGED <<len, pc, type, multi, num_names, num_values, utf8>>
  <2>a. /\ FixedType[type].reads \in Nat
        /\ FixedType[type].moves \in Nat /\ FixedType[type].moves >= 4
        /\ FixedType[type].slots = IF type \in SeveralValues THEN 1 ELSE 0
    BY <1>2, Moves
  <2> USE <1>2 DEF utf8
  <2>1. Numbers'
    BY <2>a DEF IInv, Numbers, Reads, Sets
  <2>2. Cursor'
    BY FixedTypes DEF IInv, Cursor
  <2>3. Utf8Room'
    BY DEF IInv, Utf8Room
  <2>4. SlotsInTurn'
    BY <2>a, FixedTypes DEF IInv, SlotsInTurn, Sets, Numbers
  <2>5. WorkBounded'
    BY <2>a DEF IInv, WorkBounded, Numbers
  <2>6. ReadsInBuffer'
    BY <2>a DEF IInv, ReadsInBuffer, InBuffer, Numbers, Reads, Left
  <2> QED
    BY <2>1, <2>2, <2>3, <2>4, <2>5, <2>6 DEF IInv
<1> QED
  BY <1>1, <1>2 DEF ReadFixed, Slots, args

(* A GUID among the values. *)
LEMMA ClsidStep == ASSUME IInv, ReadClsid PROVE IInv'
<1>1. CASE \E how : Stops(how)
  BY <1>1, Stopping
<1>2. CASE
      /\ pc = "value" /\ j < num_values /\ type = "clsid"
      /\ GuidLeft /\ Sets(0) /\ Reads(GuidSize)
      /\ idx' = idx + GuidSize /\ rounds' = rounds + 1
      /\ UNCHANGED <<len, pc, type, multi, num_names, num_values, utf8>>
  <2> USE <1>2 DEF utf8
  <2>1. Numbers'
    BY Constants DEF IInv, Numbers, Reads, Sets
  <2>2. Cursor'
    BY Constants DEF IInv, Cursor, Numbers, GuidLeft, Left
  <2>3. Utf8Room'
    BY DEF IInv, Utf8Room
  <2>4. SlotsInTurn'
    BY DEF IInv, SlotsInTurn, Sets, Numbers, SeveralValues
  <2>5. WorkBounded'
    BY Constants DEF IInv, WorkBounded, Numbers
  <2>6. ReadsInBuffer'
    BY Constants DEF IInv, ReadsInBuffer, InBuffer, Cursor, Numbers, Reads,
                     GuidLeft, Left
  <2> QED
    BY <2>1, <2>2, <2>3, <2>4, <2>5, <2>6 DEF IInv
<1> QED
  BY <1>1, <1>2 DEF ReadClsid, args

(* A value in a slot of its own. *)
LEMMA NextSlot ==
  ASSUME Numbers, SlotsInTurn, j < num_values, type \in SeveralValues, Sets(1),
         UNCHANGED <<type, num_values>>, pc' \notin {"guid", "names", "count"}
  PROVE  SlotsInTurn'
<1>1. /\ v = j /\ filled = 0 .. j - 1 /\ j \in Nat /\ num_values \in Nat
  BY DEF SlotsInTurn, Numbers
<1>2. j' = j + 1 /\ v' = v + 1 /\ filled' = filled \cup {v}
  BY DEF Sets
<1>3. (0 .. j - 1) \cup {j} = 0 .. (j + 1) - 1
  BY <1>1
<1> QED
  BY <1>1, <1>2, <1>3 DEF SlotsInTurn

(* A string is converted into a buffer made for it. *)
LEMMA UnicodeStep == ASSUME IInv, ReadUnicode PROVE IInv'
<1>1. CASE \E how : Stops(how)
  BY <1>1, Stopping
<1>2. CASE
      \E n \in Lengths :
        /\ pc = "value" /\ j < num_values /\ type = "unicode"
        /\ Left(4 + n) /\ Converts(n) /\ Sets(1)
        /\ UNCHANGED <<len, type, multi, num_names, num_values>>
  <2>0. PICK n \in Lengths :
          /\ pc = "value" /\ j < num_values /\ type = "unicode"
          /\ Left(4 + n) /\ Converts(n) /\ Sets(1)
          /\ UNCHANGED <<len, type, multi, num_names, num_values>>
    BY <1>2
  <2>a. n \in Nat /\ Grown(n) \in Nat /\ pad_to_4byte(n) \in Nat
    BY Constants, Padding, Growing
  <2>b. /\ pc' = "utf8" /\ from' = idx + 4 /\ left' = n
        /\ room' = Grown(n) + 1 /\ out' = 0
        /\ access' = [at |-> idx, size |-> 4]
        /\ idx' = idx + 4 + pad_to_4byte(n) /\ rounds' = rounds + 1
        /\ idx + (4 + n) <= len /\ len' = len
    BY <2>0 DEF Converts, Grown, Left, args
  <2>1. Numbers'
    BY <2>0, <2>a, <2>b DEF IInv, Numbers, Sets
  <2>2. Cursor'
    BY <2>0, <2>a, <2>b DEF IInv, Cursor, Numbers, SlotsInTurn
  <2>3. Utf8Room'
    BY <2>0, <2>a, <2>b DEF Utf8Room
  <2>4. SlotsInTurn'
    <3>1. type \in SeveralValues /\ pc' = "utf8" /\ UNCHANGED <<type, num_values>>
      BY <2>0, <2>b DEF SeveralValues
    <3> QED
      BY <2>0, <3>1, NextSlot DEF IInv
  <2>5. WorkBounded'
    BY <2>0, <2>a, <2>b DEF IInv, WorkBounded, Numbers
  <2>6. ReadsInBuffer'
    BY <2>0, <2>a, <2>b DEF IInv, ReadsInBuffer, InBuffer, Numbers
  <2> QED
    BY <2>1, <2>2, <2>3, <2>4, <2>5, <2>6 DEF IInv
<1> QED
  BY <1>1, <1>2 DEF ReadUnicode, args

(* A string or a block of bytes is copied: its length is behind idx. *)
LEMMA BytesStep == ASSUME IInv, ReadBytes PROVE IInv'
<1>1. CASE \E how : Stops(how)
  BY <1>1, Stopping
<1>2. CASE \E outcomes, onNull : AllocFails(outcomes, onNull)
  BY <1>2, Failing
<1>3. CASE
      \E n \in Lengths :
        /\ pc = "value" /\ j < num_values /\ type = "bytes"
        /\ Left(4 + n) /\ Sets(1) /\ Reads(4 + n)
        /\ idx' = idx + 4 + pad_to_4byte(n) /\ rounds' = rounds + 1
        /\ UNCHANGED <<len, pc, type, multi, num_names, num_values, utf8>>
  <2>0. PICK n \in Lengths :
          /\ pc = "value" /\ j < num_values /\ type = "bytes"
          /\ Left(4 + n) /\ Sets(1) /\ Reads(4 + n)
          /\ idx' = idx + 4 + pad_to_4byte(n) /\ rounds' = rounds + 1
          /\ UNCHANGED <<len, pc, type, multi, num_names, num_values, utf8>>
    BY <1>3
  <2>a. n \in Nat /\ pad_to_4byte(n) \in Nat
    BY Constants, Padding
  <2>1. Numbers'
    BY <2>0, <2>a DEF IInv, Numbers, Reads, Sets, utf8
  <2>2. Cursor'
    BY <2>0 DEF IInv, Cursor
  <2>3. Utf8Room'
    BY <2>0 DEF IInv, Utf8Room, utf8
  <2>4. SlotsInTurn'
    BY <2>0 DEF IInv, SlotsInTurn, Sets, Numbers, SeveralValues
  <2>5. WorkBounded'
    BY <2>0, <2>a DEF IInv, WorkBounded, Numbers
  <2>6. ReadsInBuffer'
    BY <2>0, <2>a DEF IInv, ReadsInBuffer, InBuffer, Numbers, Reads, Left
  <2> QED
    BY <2>1, <2>2, <2>3, <2>4, <2>5, <2>6 DEF IInv
<1> QED
  BY <1>1, <1>2, <1>3 DEF ReadBytes, args, BytesLeft

(* The next property may begin anywhere. *)
LEMMA PropertyDoneStep == ASSUME IInv, PropertyDone PROVE IInv'
<1> USE DEF PropertyDone, args, prop, utf8
<1>1. Numbers'
  BY DEF IInv, Numbers, Reads
<1>2. Cursor'
  BY DEF IInv, Cursor
<1>3. Utf8Room'
  BY DEF IInv, Utf8Room
<1>4. SlotsInTurn'
  BY DEF IInv, SlotsInTurn
<1>5. WorkBounded'
  BY DEF IInv, WorkBounded, Numbers
<1>6. ReadsInBuffer'
  BY DEF IInv, ReadsInBuffer, InBuffer, Cursor, Numbers, Reads, Left
<1> QED
  BY <1>1, <1>2, <1>3, <1>4, <1>5, <1>6 DEF IInv

(* A unit of two bytes takes three bytes of the room at most. *)
LEMMA UnitStep == ASSUME IInv, ConvertUnit PROVE IInv'
<1> USE DEF ConvertUnit, args, prop
<1>0. left \in Nat /\ left >= 2 /\ Grown(left) \in Nat /\ left - 2 \in Nat
      /\ Grown(left - 2) \in Nat /\ Grown(left) = Grown(left - 2) + 3
  BY Growing DEF IInv, Numbers
<1>a. out' \in Nat /\ out' <= out + 3
  BY DEF Width, IInv, Numbers
<1>1. Numbers'
  BY <1>0, <1>a DEF IInv, Numbers
<1>2. Cursor'
  BY <1>0 DEF IInv, Cursor, Numbers
<1>3. Utf8Room'
  BY <1>0, <1>a DEF IInv, Utf8Room, Numbers
<1>4. SlotsInTurn'
  BY DEF IInv, SlotsInTurn
<1>5. WorkBounded'
  BY DEF IInv, WorkBounded
<1>6. ReadsInBuffer'
  BY <1>0 DEF IInv, ReadsInBuffer, InBuffer, Cursor, Numbers
<1> QED
  BY <1>1, <1>2, <1>3, <1>4, <1>5, <1>6 DEF IInv

(* The terminating NUL takes the byte kept for it. *)
LEMMA ConvertedStep == ASSUME IInv, Converted PROVE IInv'
<1> USE DEF Converted, args, prop
<1>1. Numbers'
  BY DEF IInv, Numbers, Reads
<1>2. Cursor'
  BY DEF IInv, Cursor, Numbers
<1>3. Utf8Room'
  BY Growing DEF IInv, Utf8Room, Numbers
<1>4. SlotsInTurn'
  BY DEF IInv, SlotsInTurn
<1>5. WorkBounded'
  BY DEF IInv, WorkBounded, Numbers
<1>6. ReadsInBuffer'
  BY DEF IInv, ReadsInBuffer, InBuffer, Cursor, Numbers, Reads, Left
<1> QED
  BY <1>1, <1>2, <1>3, <1>4, <1>5, <1>6 DEF IInv

(* A step that changes nothing. *)
LEMMA StutterStep == ASSUME IInv, UNCHANGED vars PROVE IInv'
<1> USE DEF vars, args, prop, utf8
<1>1. Numbers'
  BY DEF IInv, Numbers, Reads
<1>2. Cursor'
  BY DEF IInv, Cursor
<1>3. Utf8Room'
  BY DEF IInv, Utf8Room
<1>4. SlotsInTurn'
  BY DEF IInv, SlotsInTurn
<1>5. WorkBounded'
  BY DEF IInv, WorkBounded, Numbers
<1>6. ReadsInBuffer'
  BY DEF IInv, ReadsInBuffer, InBuffer, Cursor, Numbers, Reads, Left
<1> QED
  BY <1>1, <1>2, <1>3, <1>4, <1>5, <1>6 DEF IInv

-----------------------------------------------------------------------------
(* What every reachable state satisfies. *)

(* The invariant holds at first, and every step keeps it. *)
THEOREM Invariant == Spec => []IInv
<1>1. Init => IInv
  BY Starts
<1>2. IInv /\ [Next]_vars => IInv'
  <2> SUFFICES ASSUME IInv, [Next]_vars PROVE IInv'
    OBVIOUS
  <2>1. CASE ReadCount BY <2>1, CountStep
  <2>2. CASE ReadProperty BY <2>2, PropertyStep
  <2>3. CASE ReadGuid BY <2>3, GuidStep
  <2>4. CASE ReadName BY <2>4, NameStep
  <2>5. CASE NamesRead BY <2>5, NamesStep
  <2>6. CASE ReadValueCount BY <2>6, ValueCountStep
  <2>7. CASE ReadFixed BY <2>7, FixedStep
  <2>8. CASE ReadClsid BY <2>8, ClsidStep
  <2>9. CASE ReadUnicode BY <2>9, UnicodeStep
  <2>10. CASE ReadBytes BY <2>10, BytesStep
  <2>11. CASE ReadInvalid BY <2>11, Stopping DEF ReadInvalid
  <2>12. CASE PropertyDone BY <2>12, PropertyDoneStep
  <2>13. CASE ListDone BY <2>13, Stopping DEF ListDone
  <2>14. CASE ConvertUnit BY <2>14, UnitStep
  <2>15. CASE Converted BY <2>15, ConvertedStep
  <2>16. CASE UNCHANGED vars BY <2>16, StutterStep
  <2> QED
    BY <2>1, <2>2, <2>3, <2>4, <2>5, <2>6, <2>7, <2>8, <2>9, <2>10, <2>11,
       <2>12, <2>13, <2>14, <2>15, <2>16 DEF Next
<1> QED
  BY <1>1, <1>2, PTL DEF Spec

(* No byte behind the buffer is read, but for the GUID of a named property *)
(* with one value: the assert of copy_guid_from_buf may be met there with  *)
(* a length that has wrapped.                                              *)
THEOREM StaysInBuffer == Spec => []ReadsInBuffer
<1>1. IInv => ReadsInBuffer
  BY DEF IInv
<1> QED
  BY <1>1, Invariant, PTL

(* The buffer unicode_to_utf8 allocates holds whatever it writes. *)
THEOREM FitsUtf8 == Spec => []Utf8Fits
<1>1. IInv => Utf8Fits
  BY DEF IInv, Utf8Room, Utf8Fits
<1> QED
  BY <1>1, Invariant, PTL

(* The values of a property fill their slots in turn, whichever types the  *)
(* switch of mapi_attr_read has a v++ for.                                 *)
THEOREM FillsSlots == Spec => []SlotsFilled
<1>1. IInv => SlotsFilled
  <2> SUFFICES ASSUME IInv, num_values > 0 PROVE
        /\ v <= num_values
        /\ filled \subseteq 0 .. num_values - 1
        /\ type \in SeveralValues => filled = 0 .. j - 1
    BY DEF SlotsFilled
  <2> QED
    BY DEF IInv, SlotsInTurn, Numbers
<1> QED
  BY <1>1, Invariant, PTL

(* The work done is bounded by the bytes passed, not by the counts read. *)
THEOREM BoundedWork == Spec => []WorkBounded
<1>1. IInv => WorkBounded
  BY DEF IInv
<1> QED
  BY <1>1, Invariant, PTL
-----------------------------------------------------------------------------
(* The types.  That idx stays near the buffer takes knowing where it may   *)
(* be past the end.                                                        *)

(* Behind the padding of the last string or short, by three bytes at most; *)
(* a GUID that is read from there is the last value of its property.       *)
Overrun ==
  /\ pc \in {"start", "guid", "names", "count", "utf8"} => idx <= len + 3
  /\ pc = "value" /\ j < num_values => idx <= len + 3
  /\ pc = "value" /\ type = "clsid" /\ ~multi => num_values = 1

(* Where the counters of properties and names stand. *)
Counters ==
  /\ pc = "start" => i = 0
  /\ pc \notin {"start", "property"} => i < num_properties
  /\ pc = "guid" => k = 0

Typing == TypeOK /\ Overrun /\ Counters

(* The assumptions, with the bound on the counts. *)
LEMMA Bounds ==
  /\ Word \in Nat /\ Word > 1 /\ Lens \subseteq Nat /\ GuidSize = 16
  /\ Counts \subseteq 0 .. Word - 1 /\ Lengths \subseteq 0 .. Word - 1
  BY MapiAssumption

(* An allocation that fails ends the walk in one of these ways. *)
LEMMA Outcomes ==
  \A l, n, s, e :
    /\ checked_xmalloc(l, n, s, e) \subseteq {"ok", "exit", "abort"}
    /\ checked_xcalloc(l, n, s, e) \subseteq {"ok", "exit", "abort", "null"}
  BY DEF checked_xmalloc, checked_xcalloc, NoMemory

(* Everything is zero at first. *)
LEMMA StartsTyped == Init => Typing
<1> SUFFICES ASSUME Init PROVE Typing
  OBVIOUS
<1>1. TypeOK
  <2>1. /\ idx \in Nat /\ idx <= len + GuidSize + 3
        /\ num_properties \in 0 .. Word - 1 /\ i \in 0 .. num_properties
        /\ num_names \in 0 .. Word - 1 /\ k \in 0 .. num_names
        /\ num_values \in 0 .. Word - 1 /\ j \in 0 .. num_values
        /\ v \in 0 .. j
        /\ from \in Nat /\ left \in Nat /\ room \in Nat /\ out \in Nat
        /\ filled \subseteq Nat /\ rounds \in Nat
    BY Bounds DEF Init
  <2>2. /\ len \in Lens /\ limit \in Limits /\ skip \in BOOLEAN
        /\ pc \in {"start", "property", "guid", "names", "count", "value",
                   "utf8"}
        /\ result \in Results
        /\ multi \in BOOLEAN
    BY DEF Init, Results
  <2>3. type \in Types /\ access \in [at : Nat, size : Nat]
    BY FixedTypes DEF Init
  <2> QED
    BY <2>1, <2>2, <2>3 DEF TypeOK
<1>2. Overrun /\ Counters
  BY Bounds DEF Init, Overrun, Counters
<1> QED
  BY <1>1, <1>2 DEF Typing

(* A run that stops only gets its result. *)
LEMMA StoppingTyped ==
  ASSUME Typing, NEW how \in Results, Stops(how) PROVE Typing'
  BY DEF Stops, Typing, TypeOK, Overrun, Counters, args, prop, utf8

(* The count is one of Counts, idx four. *)
LEMMA CountTyped == ASSUME IInv, Typing, ReadCount PROVE Typing'
<1>1. CASE \E how \in Results : Stops(how)
  BY <1>1, StoppingTyped
<1>2. CASE
      /\ pc = "start" /\ len > 4 /\ num_properties' \in Counts
      /\ Reads(4) /\ idx' = idx + 4 /\ pc' = "property"
      /\ UNCHANGED <<args, result, i, prop, utf8, filled, rounds>>
  BY <1>2, Bounds DEF Typing, TypeOK, Overrun, Counters, args, prop, utf8,
                      Reads, IInv, Cursor
<1> QED
  BY <1>1, <1>2, Outcomes DEF ReadCount, AllocFails, Results

(* idx stays in the buffer, and the counters start over. *)
LEMMA PropertyTyped == ASSUME Typing, ReadProperty PROVE Typing'
<1>1. CASE \E how \in Results : Stops(how)
  BY <1>1, StoppingTyped
<1>2. CASE
      /\ i < num_properties
      /\ Left(4) /\ Reads(4) /\ idx' = idx + 4
      /\ type' \in Types /\ multi' \in BOOLEAN
      /\ pc' \in {"guid", "count"}
      /\ num_names' = 0 /\ k' = 0 /\ num_values' = 0 /\ j' = 0 /\ v' = 0
      /\ filled' = {} /\ rounds' = rounds + 1
      /\ UNCHANGED <<args, result, num_properties, i, utf8>>
  BY <1>2, Bounds DEF Typing, TypeOK, Overrun, Counters, args, utf8, Reads, Left
<1> QED
  BY <1>1, <1>2, Outcomes DEF ReadProperty, AllocFails, Results

(* With at least 20 bytes left idx stays in the buffer. *)
LEMMA GuidTyped == ASSUME IInv, Typing, ReadGuid PROVE Typing'
<1>1. CASE \E how \in Results : Stops(how)
  BY <1>1, StoppingTyped
<1>2. CASE
      /\ pc = "guid"
      /\ UNCHANGED <<args, result, num_properties, i, type, multi, k,
                     num_values, j, v, utf8, filled, rounds>>
      /\ \/ /\ Left(GuidSize + 4) /\ num_names' \in Counts
            /\ num_names' > 0 /\ pc' = "names"
            /\ Reads(GuidSize + 4) /\ idx' = idx + GuidSize + 4
         \/ /\ Left(GuidSize + 8) /\ num_names' = num_names /\ pc' = "count"
            /\ Reads(GuidSize + 8) /\ idx' = idx + GuidSize + 8
  <2>1. /\ k = 0 /\ len \in Nat /\ idx \in Nat /\ GuidSize = 16
        /\ num_names' \in 0 .. Word - 1
    BY <1>2, Bounds DEF Typing, TypeOK, Counters
  <2>2. /\ idx' \in Nat /\ idx' <= len
        /\ access' \in [at : Nat, size : Nat]
    BY <1>2, <2>1 DEF Reads, Left
  <2> QED
    BY <1>2, <2>1, <2>2 DEF Typing, TypeOK, Overrun, Counters, args, utf8
<1> QED
  BY <1>1, <1>2, Outcomes DEF ReadGuid, AllocFails, Results, prop

(* Padding takes idx past the end by three bytes at most. *)
LEMMA NameTyped == ASSUME IInv, Typing, ReadName PROVE Typing'
<1>1. CASE \E how \in Results : Stops(how)
  BY <1>1, StoppingTyped
<1>2. CASE \E n \in Lengths :
        /\ pc = "names" /\ k < num_names /\ Left(4 + n) /\ Converts(n)
        /\ k' = k + 1
        /\ UNCHANGED <<args, result, num_properties, i, type, multi,
                       num_names, num_values, j, v, filled>>
  <2>0. PICK n \in Lengths :
          /\ pc = "names" /\ k < num_names /\ Left(4 + n) /\ Converts(n)
          /\ k' = k + 1
          /\ UNCHANGED <<args, result, num_properties, i, type, multi,
                         num_names, num_values, j, v, filled>>
    BY <1>2
  <2>a. /\ n \in Nat /\ Grown(n) \in Nat /\ pad_to_4byte(n) \in Nat
        /\ pad_to_4byte(n) <= n + 3
    BY Constants, Padding, Growing
  <2>b. /\ pc' = "utf8" /\ from' = idx + 4 /\ left' = n
        /\ room' = Grown(n) + 1 /\ out' = 0
        /\ access' = [at |-> idx, size |-> 4]
        /\ idx' = idx + 4 + pad_to_4byte(n) /\ rounds' = rounds + 1
        /\ idx + (4 + n) <= len
    BY <2>0 DEF Converts, Grown, Left
  <2> QED
    BY <2>0, <2>a, <2>b, Bounds DEF Typing, TypeOK, Overrun, Counters, args
<1> QED
  BY <1>1, <1>2 DEF ReadName, Results

(* So it does behind a string. *)
LEMMA UnicodeTyped == ASSUME IInv, Typing, ReadUnicode PROVE Typing'
<1>1. CASE \E how \in Results : Stops(how)
  BY <1>1, StoppingTyped
<1>2. CASE \E n \in Lengths :
        /\ pc = "value" /\ j < num_values /\ Left(4 + n)
        /\ Converts(n) /\ Sets(1)
        /\ UNCHANGED <<args, result, num_properties, i, type, multi,
                       num_names, k, num_values>>
  <2>0. PICK n \in Lengths :
          /\ pc = "value" /\ j < num_values /\ Left(4 + n)
          /\ Converts(n) /\ Sets(1)
          /\ UNCHANGED <<args, result, num_properties, i, type, multi,
                         num_names, k, num_values>>
    BY <1>2
  <2>a. /\ n \in Nat /\ Grown(n) \in Nat /\ pad_to_4byte(n) \in Nat
        /\ pad_to_4byte(n) <= n + 3
    BY Constants, Padding, Growing
  <2>b. /\ pc' = "utf8" /\ from' = idx + 4 /\ left' = n
        /\ room' = Grown(n) + 1 /\ out' = 0
        /\ access' = [at |-> idx, size |-> 4]
        /\ idx' = idx + 4 + pad_to_4byte(n) /\ rounds' = rounds + 1
        /\ idx + (4 + n) <= len
    BY <2>0 DEF Converts, Grown, Left
  <2>c. /\ j' = j + 1 /\ v' = v + 1 /\ filled' = filled \cup {v}
    BY <2>0 DEF Sets
  <2> QED
    BY <2>0, <2>a, <2>b, <2>c, Bounds
       DEF Typing, TypeOK, Overrun, Counters, args
<1> QED
  BY <1>1, <1>2 DEF ReadUnicode, Results

(* Only pc changes. *)
LEMMA NamesTyped == ASSUME Typing, NamesRead PROVE Typing'
  BY DEF NamesRead, Typing, TypeOK, Overrun, Counters, args, prop, utf8

(* A type that is not multivalued has one value, but for two. *)
LEMMA ValueCountTyped == ASSUME IInv, Typing, ReadValueCount PROVE Typing'
<1>1. CASE \E how \in Results : Stops(how)
  BY <1>1, StoppingTyped
<1>2. CASE
      /\ pc = "count" /\ pc' = "value" /\ num_values' \in 1 .. Word - 1
      /\ \/ /\ Left(4) /\ Reads(4) /\ idx' = idx + 4
            /\ multi \/ type \in {"unicode", "bytes"}
         \/ ~multi /\ num_values' = 1 /\ UNCHANGED <<access, idx>>
      /\ UNCHANGED <<args, result, num_properties, i, type, multi, num_names,
                     k, j, v, utf8, filled, rounds>>
  <2>1. j = 0
    BY <1>2 DEF IInv, SlotsInTurn, Typing, TypeOK
  <2> QED
    BY <1>2, <2>1, Bounds
       DEF Typing, TypeOK, Overrun, Counters, args, utf8, Reads, Left
<1> QED
  BY <1>1, <1>2, Outcomes, Bounds DEF ReadValueCount, AllocFails, Results

(* A short takes idx past the end by two bytes at most. *)
LEMMA FixedTyped == ASSUME Typing, ReadFixed PROVE Typing'
<1>1. CASE \E how \in Results : Stops(how)
  BY <1>1, StoppingTyped
<1>2. CASE
      /\ pc = "value" /\ j < num_values /\ type \in DOMAIN FixedType
      /\ Left(FixedType[type].reads) /\ Sets(FixedType[type].slots)
      /\ Reads(FixedType[type].reads)
      /\ idx' = idx + FixedType[type].moves /\ rounds' = rounds + 1
      /\ UNCHANGED <<args, pc, result, num_properties, i, type, multi,
                     num_names, k, num_values, utf8>>
  <2>1. /\ FixedType[type].reads \in Nat /\ FixedType[type].moves \in Nat
        /\ FixedType[type].moves <= FixedType[type].reads + 2
        /\ FixedType[type].slots \in 0 .. 1
    BY <1>2 DEF FixedType
  <2> QED
    BY <1>2, <2>1, Bounds, FixedTypes
       DEF Typing, TypeOK, Overrun, Counters, args, utf8, Reads, Left, Sets
<1> QED
  BY <1>1, <1>2 DEF ReadFixed, Slots, Results

(* Read past the end, a GUID is the last value of its property. *)
LEMMA ClsidTyped == ASSUME IInv, Typing, ReadClsid PROVE Typing'
<1>1. CASE \E how \in Results : Stops(how)
  BY <1>1, StoppingTyped
<1>2. CASE
      /\ pc = "value" /\ j < num_values /\ type = "clsid"
      /\ GuidLeft /\ Sets(0) /\ Reads(GuidSize)
      /\ idx' = idx + GuidSize /\ rounds' = rounds + 1
      /\ UNCHANGED <<args, pc, result, num_properties, i, type, multi,
                     num_names, k, num_values, utf8>>
  <2>1. CASE multi
    BY <1>2, <2>1, Bounds
       DEF IInv, Cursor, Typing, TypeOK, Overrun, Counters, args, utf8, Reads,
           Sets, GuidLeft, Left
  <2>2. CASE ~multi
    BY <1>2, <2>2, Bounds
       DEF Typing, TypeOK, Overrun, Counters, args, utf8, Reads, Sets
  <2> QED
    BY <2>1, <2>2
<1> QED
  BY <1>1, <1>2 DEF ReadClsid, Results

(* Padding takes idx past the end by three bytes at most. *)
LEMMA BytesTyped == ASSUME Typing, ReadBytes PROVE Typing'
<1>1. CASE \E how \in Results : Stops(how)
  BY <1>1, StoppingTyped
<1>2. CASE \E n \in Lengths :
        /\ pc = "value" /\ j < num_values /\ type = "bytes"
        /\ Left(4 + n) /\ Sets(1) /\ Reads(4 + n)
        /\ idx' = idx + 4 + pad_to_4byte(n) /\ rounds' = rounds + 1
        /\ UNCHANGED <<args, pc, result, num_properties, i, type, multi,
                       num_names, k, num_values, utf8>>
  <2>0. PICK n \in Lengths :
          /\ pc = "value" /\ j < num_values /\ type = "bytes"
          /\ Left(4 + n) /\ Sets(1) /\ Reads(4 + n)
          /\ idx' = idx + 4 + pad_to_4byte(n) /\ rounds' = rounds + 1
          /\ UNCHANGED <<args, pc, result, num_properties, i, type, multi,
                         num_names, k, num_values, utf8>>
    BY <1>2
  <2>a. n \in Nat /\ pad_to_4byte(n) \in Nat /\ pad_to_4byte(n) <= n + 3
    BY Constants, Padding
  <2> QED
    BY <2>0, <2>a, Bounds
       DEF Typing, TypeOK, Overrun, Counters, args, utf8, Reads, Left, Sets
<1> QED
  BY <1>1, <1>2, Outcomes DEF ReadBytes, BytesLeft, AllocFails, Results

(* One property fewer is left. *)
LEMMA PropertyDoneTyped == ASSUME Typing, PropertyDone PROVE Typing'
  BY Bounds DEF PropertyDone, Typing, TypeOK, Overrun, Counters, args, prop,
                utf8

(* Only the conversion moves. *)
LEMMA UnitTyped == ASSUME Typing, ConvertUnit PROVE Typing'
  BY DEF ConvertUnit, Width, Typing, TypeOK, Overrun, Counters, args, prop

(* The caller goes on where idx was left. *)
LEMMA ConvertedTyped == ASSUME IInv, Typing, Converted PROVE Typing'
  BY DEF Converted, IInv, Cursor, Typing, TypeOK, Overrun, Counters, args, prop

(* A step that changes nothing. *)
LEMMA StutterTyped == ASSUME Typing, UNCHANGED vars PROVE Typing'
  BY DEF vars, Typing, TypeOK, Overrun, Counters, args, prop, utf8

(* Every variable keeps its type, and idx is never more than a GUID and    *)
(* the padding past the end of the buffer.                                 *)
THEOREM Typed == Spec => []TypeOK
<1>1. Init => Typing
  BY StartsTyped
<1>2. IInv /\ Typing /\ [Next]_vars => Typing'
  <2> SUFFICES ASSUME IInv, Typing, [Next]_vars PROVE Typing'
    OBVIOUS
  <2>1. CASE ReadCount BY <2>1, CountTyped
  <2>2. CASE ReadProperty BY <2>2, PropertyTyped
  <2>3. CASE ReadGuid BY <2>3, GuidTyped
  <2>4. CASE ReadName BY <2>4, NameTyped
  <2>5. CASE NamesRead BY <2>5, NamesTyped
  <2>6. CASE ReadValueCount BY <2>6, ValueCountTyped
  <2>7. CASE ReadFixed BY <2>7, FixedTyped
  <2>8. CASE ReadClsid BY <2>8, ClsidTyped
  <2>9. CASE ReadUnicode BY <2>9, UnicodeTyped
  <2>10. CASE ReadBytes BY <2>10, BytesTyped
  <2>11. CASE ReadInvalid BY <2>11, StoppingTyped DEF ReadInvalid, Results
  <2>12. CASE PropertyDone BY <2>12, PropertyDoneTyped
  <2>13. CASE ListDone BY <2>13, StoppingTyped DEF ListDone, Results
  <2>14. CASE ConvertUnit BY <2>14, UnitTyped
  <2>15. CASE Converted BY <2>15, ConvertedTyped
  <2>16. CASE UNCHANGED vars BY <2>16, StutterTyped
  <2> QED
    BY <2>1, <2>2, <2>3, <2>4, <2>5, <2>6, <2>7, <2>8, <2>9, <2>10, <2>11,
       <2>12, <2>13, <2>14, <2>15, <2>16 DEF Next
<1>3. Typing => TypeOK
  BY DEF Typing
<1> QED
  BY <1>1, <1>2, <1>3, Invariant, PTL DEF Spec
-----------------------------------------------------------------------------
(* How much work there may be *)

(* While the walk goes on there is a step left to do. *)
Counted == StepsLeft \in Nat /\ (result = "running" => StepsLeft > 0)

LEMMA StepsLeftCounted == TypeOK => Counted
<1> SUFFICES ASSUME TypeOK PROVE Counted
  OBVIOUS
<1> DEFINE ahead == len + GuidSize + 3 - idx
<1>1. ahead \in Nat
  BY Constants DEF TypeOK
<1>2. /\ left \in Nat
      /\ pc \in {"start", "property", "guid", "names", "count", "value", "utf8"}
  BY DEF TypeOK
<1> HIDE DEF ahead
<1>3. StepsLeft = IF result # "running" THEN 0
                  ELSE CASE pc \in {"start", "property"} -> ahead + 1
                         [] pc = "value"               -> ahead + 2
                         [] pc = "count"               -> ahead + 3
                         [] pc \in {"names", "guid"}    -> ahead + 4
                         [] pc = "utf8"                -> ahead + 5 + left
  BY DEF StepsLeft, ahead
<1> QED
  BY <1>1, <1>2, <1>3 DEF Counted

(* A step that ends the walk leaves nothing. *)
LEMMA EndsWork ==
  ASSUME TypeOK, result = "running", result' # "running"
  PROVE  StepsLeft' < StepsLeft
<1>1. StepsLeft \in Nat /\ StepsLeft > 0
  BY StepsLeftCounted DEF Counted
<1>2. StepsLeft' = 0
  BY DEF StepsLeft
<1> QED
  BY <1>1, <1>2

(* A failed allocation ends the walk. *)
LEMMA FailingEnds ==
  ASSUME NEW l, NEW n, NEW s, NEW e, NEW onNull, onNull # "running",
         \/ AllocFails(checked_xmalloc(l, n, s, e), onNull)
         \/ AllocFails(checked_xcalloc(l, n, s, e), onNull)
  PROVE  result' # "running"
  BY Outcomes DEF AllocFails, Stops

(* The steps that go on: how far each moves idx, and where it leads. *)
LEMMA CountMoves ==
  ASSUME ReadCount, result' = "running"
  PROVE  pc = "start" /\ pc' = "property" /\ idx' = idx + 4 /\ len' = len
  BY FailingEnds DEF ReadCount, Stops, args

LEMMA PropertyMoves ==
  ASSUME ReadProperty, result' = "running"
  PROVE  /\ pc = "property" /\ pc' \in {"guid", "count"}
         /\ idx' = idx + 4 /\ len' = len
  BY FailingEnds DEF ReadProperty, Stops, args

LEMMA GuidMoves ==
  ASSUME ReadGuid, result' = "running"
  PROVE  /\ pc = "guid" /\ pc' \in {"names", "count"}
         /\ idx' \in {idx + GuidSize + 4, idx + GuidSize + 8} /\ len' = len
  BY FailingEnds DEF ReadGuid, Stops, args

LEMMA NameMoves ==
  ASSUME ReadName, result' = "running"
  PROVE  \E n \in Lengths :
           /\ pc = "names" /\ pc' = "utf8" /\ left' = n
           /\ idx' = idx + 4 + pad_to_4byte(n) /\ len' = len
  BY DEF ReadName, Converts, Stops, args

LEMMA ValueCountMoves ==
  ASSUME ReadValueCount, result' = "running"
  PROVE  /\ pc = "count" /\ pc' = "value"
         /\ idx' \in {idx, idx + 4} /\ len' = len
  BY FailingEnds DEF ReadValueCount, Stops, args

LEMMA FixedMoves ==
  ASSUME ReadFixed, result' = "running"
  PROVE  \E t \in DOMAIN FixedType :
           /\ pc = "value" /\ pc' = "value"
           /\ idx' = idx + FixedType[t].moves /\ len' = len
  BY DEF ReadFixed, Stops, args

LEMMA ClsidMoves ==
  ASSUME ReadClsid, result' = "running"
  PROVE  pc = "value" /\ pc' = "value" /\ idx' = idx + GuidSize /\ len' = len
  BY DEF ReadClsid, Stops, args

LEMMA UnicodeMoves ==
  ASSUME ReadUnicode, result' = "running"
  PROVE  \E n \in Lengths :
           /\ pc = "value" /\ pc' = "utf8" /\ left' = n
           /\ idx' = idx + 4 + pad_to_4byte(n) /\ len' = len
  BY DEF ReadUnicode, Converts, Stops, args

LEMMA BytesMoves ==
  ASSUME ReadBytes, result' = "running"
  PROVE  \E n \in Lengths :
           /\ pc = "value" /\ pc' = "value"
           /\ idx' = idx + 4 + pad_to_4byte(n) /\ len' = len
  BY FailingEnds DEF ReadBytes, Stops, args

(* A step takes idx on by n, and leaves less to do if its new place has at *)
(* most n steps more to go than the old one.                               *)
Rank(at, bytes) ==
  IF at \in {"start", "property"} THEN 1
  ELSE IF at = "value" THEN 2
  ELSE IF at = "count" THEN 3
  ELSE IF at \in {"names", "guid"} THEN 4
  ELSE 5 + bytes

(* While the walk goes on its work is the bytes ahead and the rank. *)
Ranked ==
  result = "running" =>
    /\ len + GuidSize + 3 - idx \in Nat
    /\ Rank(pc, left) \in Nat
    /\ StepsLeft = (len + GuidSize + 3 - idx) + Rank(pc, left)

LEMMA StepsLeftRanked == TypeOK => Ranked
<1> SUFFICES ASSUME TypeOK, result = "running" PROVE Ranked
  BY DEF Ranked
<1> DEFINE ahead == len + GuidSize + 3 - idx
<1>1. ahead \in Nat /\ left \in Nat
  BY Constants DEF TypeOK
<1>2. pc \in {"start", "property", "guid", "names", "count", "value", "utf8"}
  BY DEF TypeOK
<1>3. StepsLeft = CASE pc \in {"start", "property"} -> ahead + 1
                    [] pc = "value"               -> ahead + 2
                    [] pc = "count"               -> ahead + 3
                    [] pc \in {"names", "guid"}    -> ahead + 4
                    [] pc = "utf8"                -> ahead + 5 + left
  BY DEF StepsLeft
<1> HIDE DEF ahead
<1>4. StepsLeft = ahead + Rank(pc, left)
  BY <1>1, <1>2, <1>3 DEF Rank
<1>5. Rank(pc, left) \in Nat
  BY <1>1 DEF Rank
<1> QED
  BY <1>1, <1>4, <1>5 DEF Ranked, ahead

(* What a step does to the work, from the bytes it passes and its ranks.   *)
LEMMA WorkAfter ==
  ASSUME Ranked, Ranked', result = "running", result' = "running", len' = len,
         len \in Nat, idx \in Nat, NEW n \in Nat, idx' = idx + n, Rank(pc, left)' < n + Rank(pc, left)
  PROVE  StepsLeft' < StepsLeft
<1> DEFINE a == len + GuidSize + 3 - idx
           b == len + GuidSize + 3 - (idx + n)
           r == Rank(pc, left)
           q == Rank(pc, left)'
<1>1. /\ a \in Nat /\ r \in Nat
      /\ StepsLeft = a + r
  BY DEF Ranked
<1>2. /\ b \in Nat /\ q \in Nat
      /\ StepsLeft' = b + q
  BY DEF Ranked
<1> HIDE DEF r, q
<1>3. q < n + r
  BY DEF r, q
<1>4. b = a - n
  BY Constants
<1> HIDE DEF a, b
<1> QED
  BY <1>1, <1>2, <1>3, <1>4

(* Every step of the walk leaves less to do. *)
LEMMA NextShortens ==
  ASSUME TypeOK, Ranked, Ranked', Next
  PROVE  StepsLeft' < StepsLeft
<1>1. result = "running" /\ len \in Nat /\ idx \in Nat /\ left \in Nat
  BY Constants DEF Next, TypeOK
<1>2. CASE result' # "running"
  BY <1>1, <1>2, EndsWork
<1>3. SUFFICES ASSUME result' = "running" PROVE StepsLeft' < StepsLeft
  BY <1>2
<1>4. SUFFICES len' = len /\ \E n \in Nat : /\ idx' = idx + n
                                            /\ Rank(pc, left)' < n + Rank(pc, left)
  BY <1>1, <1>3, WorkAfter
<1>5. \A n \in Lengths : n \in Nat /\ pad_to_4byte(n) \in Nat /\ n <= pad_to_4byte(n)
  BY Constants, Padding
<1>6. CASE ReadCount
  <2>1. pc = "start" /\ pc' = "property" /\ idx' = idx + 4 /\ len' = len
    BY <1>3, <1>6, CountMoves
  <2> QED
    BY <2>1 DEF Rank
<1>7. CASE ReadProperty
  <2>1. /\ pc = "property" /\ pc' \in {"guid", "count"}
        /\ idx' = idx + 4 /\ len' = len
    BY <1>3, <1>7, PropertyMoves
  <2> QED
    BY <2>1 DEF Rank
<1>8. CASE ReadGuid
  <2>1. /\ pc = "guid" /\ pc' \in {"names", "count"}
        /\ idx' \in {idx + GuidSize + 4, idx + GuidSize + 8} /\ len' = len
    BY <1>3, <1>8, GuidMoves
  <2>2. PICK n \in {20, 24} : idx' = idx + n
    BY <1>1, <2>1, Constants
  <2>3. Rank(pc, left)' < n + Rank(pc, left)
    BY <2>1, <2>2 DEF Rank
  <2> QED
    BY <2>1, <2>2, <2>3
<1>9. CASE ReadName
  <2>1. PICK n \in Lengths : /\ pc = "names" /\ pc' = "utf8" /\ left' = n
                             /\ idx' = idx + 4 + pad_to_4byte(n) /\ len' = len
    BY <1>3, <1>9, NameMoves
  <2>2. PICK m \in Nat : m = pad_to_4byte(n) /\ n \in Nat /\ n <= m
    BY <1>5
  <2>3. idx' = idx + (4 + m)
    BY <1>1, <2>1, <2>2
  <2>4. Rank(pc, left) = 4 /\ Rank(pc, left)' = 5 + n
    BY <2>1 DEF Rank
  <2> QED
    BY <2>1, <2>2, <2>3, <2>4
<1>10. CASE NamesRead
  <2>1. pc = "names" /\ pc' = "count" /\ idx' = idx /\ len' = len
    BY <1>10 DEF NamesRead, args
  <2>2. idx' = idx + 0
    BY <1>1, <2>1
  <2>3. Rank(pc, left) = 4 /\ Rank(pc, left)' = 3
    BY <2>1 DEF Rank
  <2> QED
    BY <2>1, <2>2, <2>3
<1>11. CASE ReadValueCount
  <2>1. /\ pc = "count" /\ pc' = "value"
        /\ idx' \in {idx, idx + 4} /\ len' = len
    BY <1>3, <1>11, ValueCountMoves
  <2>2. PICK n \in {0, 4} : idx' = idx + n
    BY <1>1, <2>1
  <2>3. Rank(pc, left) = 3 /\ Rank(pc, left)' = 2
    BY <2>1 DEF Rank
  <2> QED
    BY <2>1, <2>2, <2>3
<1>12. CASE ReadFixed
  <2>1. PICK t \in DOMAIN FixedType :
          /\ pc = "value" /\ pc' = "value"
          /\ idx' = idx + FixedType[t].moves /\ len' = len
    BY <1>3, <1>12, FixedMoves
  <2>2. PICK n \in Nat : n = FixedType[t].moves /\ n >= 4
    BY Moves
  <2>3. Rank(pc, left) = 2 /\ Rank(pc, left)' = 2
    BY <2>1 DEF Rank
  <2> QED
    BY <2>1, <2>2, <2>3
<1>13. CASE ReadClsid
  <2>1. pc = "value" /\ pc' = "value" /\ idx' = idx + 16 /\ len' = len
    BY <1>3, <1>13, ClsidMoves, Constants
  <2>2. Rank(pc, left) = 2 /\ Rank(pc, left)' = 2
    BY <2>1 DEF Rank
  <2> QED
    BY <2>1, <2>2
<1>14. CASE ReadUnicode
  <2>1. PICK n \in Lengths : /\ pc = "value" /\ pc' = "utf8" /\ left' = n
                             /\ idx' = idx + 4 + pad_to_4byte(n) /\ len' = len
    BY <1>3, <1>14, UnicodeMoves
  <2>2. PICK m \in Nat : m = pad_to_4byte(n) /\ n \in Nat /\ n <= m
    BY <1>5
  <2>3. idx' = idx + (4 + m)
    BY <1>1, <2>1, <2>2
  <2>4. Rank(pc, left) = 2 /\ Rank(pc, left)' = 5 + n
    BY <2>1 DEF Rank
  <2> QED
    BY <2>1, <2>2, <2>3, <2>4
<1>15. CASE ReadBytes
  <2>1. PICK n \in Lengths : /\ pc = "value" /\ pc' = "value"
                             /\ idx' = idx + 4 + pad_to_4byte(n) /\ len' = len
    BY <1>3, <1>15, BytesMoves
  <2>2. PICK m \in Nat : m = pad_to_4byte(n)
    BY <1>5
  <2>3. idx' = idx + (4 + m)
    BY <1>1, <2>1, <2>2
  <2>4. Rank(pc, left) = 2 /\ Rank(pc, left)' = 2
    BY <2>1 DEF Rank
  <2> QED
    BY <2>1, <2>2, <2>3, <2>4
<1>16. CASE ReadInvalid \/ ListDone
  BY <1>3, <1>16 DEF ReadInvalid, ListDone, Stops
<1>17. CASE PropertyDone
  <2>1. pc = "value" /\ pc' = "property" /\ idx' = idx /\ len' = len
    BY <1>17 DEF PropertyDone, args
  <2>2. idx' = idx + 0
    BY <1>1, <2>1
  <2>3. Rank(pc, left) = 2 /\ Rank(pc, left)' = 1
    BY <2>1 DEF Rank
  <2> QED
    BY <2>1, <2>2, <2>3
<1>18. CASE ConvertUnit
  <2>1. /\ pc = "utf8" /\ pc' = "utf8" /\ left' = left - 2
        /\ idx' = idx /\ len' = len
    BY <1>18 DEF ConvertUnit, args
  <2>2. idx' = idx + 0
    BY <1>1, <2>1
  <2>3. Rank(pc, left) = 5 + left /\ Rank(pc, left)' = 5 + (left - 2)
    BY <2>1 DEF Rank
  <2> QED
    BY <1>1, <2>1, <2>2, <2>3
<1>19. CASE Converted
  <2>1. /\ pc = "utf8" /\ pc' \in {"names", "value"}
        /\ idx' = idx /\ len' = len
    BY <1>19 DEF Converted, args
  <2>2. idx' = idx + 0
    BY <1>1, <2>1
  <2>3. Rank(pc, left) = 5 + left /\ Rank(pc, left)' \in {2, 4}
    BY <2>1 DEF Rank
  <2> QED
    BY <1>1, <2>1, <2>2, <2>3
<1> QED
  BY <1>6, <1>7, <1>8, <1>9, <1>10, <1>11, <1>12, <1>13, <1>14, <1>15, <1>16,
     <1>17, <1>18, <1>19 DEF Next

(* The steps of the walk are no more than the bytes of the buffer and a    *)
(* few, whatever counts drive its loops and however long its strings are.  *)
THEOREM WorkIsBounded == Spec => StepsBounded
<1>1. TypeOK' => Counted'
  BY StepsLeftCounted, PTL
<1>2. TypeOK' => Ranked'
  BY StepsLeftRanked, PTL
<1>3. ASSUME TypeOK, TypeOK', [Next]_vars
      PROVE  [StepsLeft' \in Nat /\ StepsLeft' < StepsLeft]_vars
  <2>1. CASE UNCHANGED vars
    BY <2>1
  <2>2. CASE Next
    <3>1. StepsLeft' < StepsLeft
      BY <1>2, <1>3, <2>2, StepsLeftRanked, NextShortens
    <3>2. StepsLeft' \in Nat
      BY <1>1, <1>3 DEF Counted
    <3> QED
      BY <3>1, <3>2
  <2> QED
    BY <1>3, <2>1, <2>2
<1> QED
  BY <1>3, Typed, PTL DEF Spec, StepsBounded
=============================================================================
