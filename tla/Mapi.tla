-------------------------------- MODULE Mapi --------------------------------
(***************************************************************************)
(* mapi_attr_read (mapi_attr.c): the walk over the buffer of a MAPIPROPS   *)
(* or ATTACHMENT attribute, with copy_guid_from_buf and unicode_to_utf8    *)
(* (util.c).  The buffer's bytes are chosen as they are read; what is kept *)
(* of them are the counts, lengths and types that steer the walk.          *)
(***************************************************************************)
EXTENDS Alloc

CONSTANTS
  Lens,       \* lengths of the buffer
  Word,       \* values of a uint32
  Counts,     \* the counts the buffer may hold
  Lengths,    \* the lengths of strings and names
  Units,      \* UTF-16 code units
  Limits,     \* the settings of --maxsize, 0 for none
  PtrSize, AttrSize, GuidSize, VarLenSize, ValueSize   \* sizeof

(* Mutant: the padding behind a short is forgotten. *)
FixedType_MutShortTwo ==
  [short   |-> [reads |-> 2, moves |-> 2, slots |-> 0],
   int     |-> [reads |-> 4, moves |-> 4, slots |-> 1],
   float   |-> [reads |-> 4, moves |-> 4, slots |-> 0],
   systime |-> [reads |-> 8, moves |-> 8, slots |-> 1],
   double  |-> [reads |-> 8, moves |-> 8, slots |-> 0]]

(* What a value of a type of fixed size takes: the bytes read, the bytes   *)
(* idx advances, and the slots v advances: only two of the cases have v++. *)
FixedType ==
  [short   |-> [reads |-> 2, moves |-> 4, slots |-> 0],
   int     |-> [reads |-> 4, moves |-> 4, slots |-> 1],
   float   |-> [reads |-> 4, moves |-> 4, slots |-> 0],
   systime |-> [reads |-> 8, moves |-> 8, slots |-> 1],
   double  |-> [reads |-> 8, moves |-> 8, slots |-> 0]]

(* "float" stands for BOOLEAN too, "double" for APPTIME, CURRENCY and      *)
(* INT8BYTE, "bytes" for STRING, OBJECT and BINARY, "invalid" for NULL,    *)
(* ERROR, UNSPECIFIED and every type tnef does not know.                   *)
Types == DOMAIN FixedType \cup {"clsid", "unicode", "bytes", "invalid"}

(* The types that have several values in practice (mapi_attr.c:166).       *)
SeveralValues == {"int", "systime", "unicode", "bytes"}

ASSUME MapiAssumption ==
  /\ Lens \subseteq Nat
  /\ Word \in Nat /\ Word > 1
  /\ Counts \subseteq 0 .. Word - 1 /\ Lengths \subseteq 0 .. Word - 1
  /\ Units \subseteq Nat
  /\ Limits \subseteq Nat
  /\ {PtrSize, AttrSize, VarLenSize, ValueSize} \subseteq Nat \ {0}
  /\ GuidSize = 16

VARIABLES
  len, limit, skip,      \* the arguments: the length, --maxsize, ENCODE_SKIP
  pc, result,
  idx,                   \* index of the next byte
  num_properties, i,
  type, multi,           \* of the current property
  num_names, k,          \* its names, and those read
  num_values, j, v,      \* its values, those read, the slot of the next
  from, left, room, out, \* unicode_to_utf8: next unit, bytes left, the size
                         \* of its buffer, and the bytes written
  access,                \* history: the last bytes read, at and size
  filled,                \* history: the slots of values that have been set
  rounds                 \* history: properties, names and values read

args == <<len, limit, skip>>
prop == <<type, multi, num_names, k, num_values, j, v>>
utf8 == <<from, left, room, out>>
vars == <<args, pc, result, idx, num_properties, i, prop, utf8, access, filled,
          rounds>>

Results == {"running", "list", "null", "exit", "abort", "crash"}

TypeOK ==
  /\ len \in Lens /\ limit \in Limits /\ skip \in BOOLEAN
  /\ pc \in {"start", "property", "guid", "names", "count", "value", "utf8"}
  /\ result \in Results
  /\ idx \in Nat /\ idx <= len + GuidSize + 3
  /\ num_properties \in 0 .. Word - 1 /\ i \in 0 .. num_properties
  /\ type \in Types /\ multi \in BOOLEAN
  /\ num_names \in 0 .. Word - 1 /\ k \in 0 .. num_names
  /\ num_values \in 0 .. Word - 1 /\ j \in 0 .. num_values /\ v \in 0 .. j
  /\ from \in Nat /\ left \in Nat /\ room \in Nat /\ out \in Nat
  /\ access \in [at : Nat, size : Nat]
  /\ filled \subseteq Nat
  /\ rounds \in Nat

Init ==
  /\ len \in Lens /\ limit \in Limits /\ skip \in BOOLEAN
  /\ pc = "start" /\ result = "running"
  /\ idx = 0 /\ num_properties = 0 /\ i = 0
  /\ type = "invalid" /\ multi = FALSE
  /\ num_names = 0 /\ k = 0 /\ num_values = 0 /\ j = 0 /\ v = 0
  /\ from = 0 /\ left = 0 /\ room = 0 /\ out = 0
  /\ access = [at |-> 0, size |-> 0]
  /\ filled = {}
  /\ rounds = 0

-----------------------------------------------------------------------------
(* Helpers *)

pad_to_4byte(n) == ((n + 3) \div 4) * 4

Stops(how) ==
  /\ result' = how
  /\ UNCHANGED <<args, pc, idx, num_properties, i, prop, utf8, access, filled,
                 rounds>>

(* CHECKINT16, CHECKINT32: exit unless n bytes are left. *)
Left(n) == idx + n <= len

Reads(n) == access' = [at |-> idx, size |-> n]

(* Of the outcomes of an allocation those that end the walk; the caller    *)
(* meets NULL with an assert or without looking.                           *)
AllocFails(outcomes, onNull) ==
  \E o \in outcomes \ {"ok"} : Stops(IF o = "null" THEN onNull ELSE o)

-----------------------------------------------------------------------------
(* The list and its properties *)

ReadCount ==
  /\ pc = "start"
  /\ \/ len <= 4 /\ Stops("abort")
     \/ /\ len > 4
        /\ \E n \in Counts :
             LET outcomes == checked_xmalloc(limit, n + 1, PtrSize, 0) IN
             \/ (n + 1) % Word = 0 /\ Stops("abort")
             \/ (n + 1) % Word # 0 /\ AllocFails(outcomes, "crash")
             \/ /\ (n + 1) % Word # 0 /\ "ok" \in outcomes
                /\ num_properties' = n
                /\ Reads(4)
                /\ idx' = idx + 4
                /\ pc' = "property"
                /\ UNCHANGED <<args, result, i, prop, utf8, filled, rounds>>

(* Type and name.  The name's top bit announces a GUID. *)
ReadProperty ==
  /\ pc = "property" /\ i < num_properties
  /\ LET outcomes == checked_xcalloc(limit, 1, AttrSize, 0) IN
     \/ AllocFails(outcomes, "crash")
     \/ "ok" \in outcomes /\ ~Left(4) /\ Stops("exit")
     \/ /\ "ok" \in outcomes /\ Left(4)
        /\ type' \in Types /\ multi' \in BOOLEAN
        /\ pc' \in {"guid", "count"}
        /\ Reads(4)
        /\ idx' = idx + 4
        /\ num_names' = 0 /\ k' = 0 /\ num_values' = 0 /\ j' = 0 /\ v' = 0
        /\ filled' = {}
        /\ rounds' = rounds + 1
        /\ UNCHANGED <<args, result, num_properties, i, utf8>>

(* Mutant: the assert is not there. *)
GuidLeft_MutUnchecked == TRUE

(* assert (len >= 16) in copy_guid_from_buf, on len - idx, a size_t that   *)
(* wraps when idx is past the end.                                         *)
GuidLeft == idx > len \/ Left(GuidSize)

(* The GUID, then the number of names, or the real name of 32 bits.        *)
ReadGuid ==
  /\ pc = "guid"
  /\ LET outcomes == checked_xmalloc(limit, 1, GuidSize, 0)
         named(n) == checked_xcalloc(limit, n, VarLenSize, 0) IN
     \/ AllocFails(outcomes, "crash")
     \/ "ok" \in outcomes /\ ~GuidLeft /\ Stops("abort")
     \/ "ok" \in outcomes /\ GuidLeft /\ ~Left(GuidSize + 4) /\ Stops("exit")
     \/ /\ "ok" \in outcomes /\ GuidLeft /\ Left(GuidSize + 4)
        /\ \E n \in Counts :
             \/ n > 0 /\ AllocFails(named(n), "abort")
             \/ /\ n > 0 /\ "ok" \in named(n)
                /\ num_names' = n
                /\ pc' = "names"
                /\ Reads(GuidSize + 4)
                /\ idx' = idx + GuidSize + 4
                /\ UNCHANGED <<args, result, num_properties, i, type, multi, k,
                               num_values, j, v, utf8, filled, rounds>>
             \/ n = 0 /\ ~Left(GuidSize + 8) /\ Stops("exit")
             \/ /\ n = 0 /\ Left(GuidSize + 8)
                /\ pc' = "count"
                /\ Reads(GuidSize + 8)
                /\ idx' = idx + GuidSize + 8
                /\ UNCHANGED <<args, result, num_properties, i, prop, utf8,
                               filled, rounds>>

(* unicode_to_utf8 is called for the n bytes behind the length at idx; its *)
(* buffer comes from malloc and is not looked at.                          *)
Converts(n) ==
  /\ pc' = "utf8"
  /\ from' = idx + 4 /\ left' = n
  /\ room' = (3 * n) \div 2 + 1
  /\ out' = 0
  /\ access' = [at |-> idx, size |-> 4]
  /\ idx' = idx + 4 + pad_to_4byte(n)
  /\ rounds' = rounds + 1

ReadName ==
  /\ pc = "names" /\ k < num_names
  /\ \/ ~Left(4) /\ Stops("exit")
     \/ /\ Left(4)
        /\ \E n \in Lengths :
             \/ (n = 0 \/ ~Left(4 + n)) /\ Stops("abort")
             \/ n # 0 /\ Left(4 + n) /\ MayRunOut /\ Stops("crash")
             \/ /\ n # 0 /\ Left(4 + n)
                /\ Converts(n)
                /\ k' = k + 1
                /\ UNCHANGED <<args, result, num_properties, i, type, multi,
                               num_names, num_values, j, v, filled>>

NamesRead ==
  /\ pc = "names" /\ k = num_names
  /\ pc' = "count"
  /\ UNCHANGED <<args, result, idx, num_properties, i, prop, utf8, access,
                 filled, rounds>>

(* The number of values; alloc_mapi_values returns NULL for none.          *)
ReadValueCount ==
  /\ pc = "count"
  /\ LET counted == multi \/ type \in {"unicode", "bytes"}
         outcomes(n) == checked_xcalloc(limit, n, ValueSize, 0) IN
     \/ counted /\ ~Left(4) /\ Stops("exit")
     \/ /\ counted => Left(4)
        /\ \E n \in IF counted THEN Counts ELSE {1} :
             \/ n = 0 /\ Stops("abort")
             \/ n # 0 /\ AllocFails(outcomes(n), "abort")
             \/ /\ n # 0 /\ "ok" \in outcomes(n)
                /\ num_values' = n
                /\ pc' = "value"
                /\ IF counted THEN Reads(4) /\ idx' = idx + 4
                              ELSE UNCHANGED <<access, idx>>
                /\ UNCHANGED <<args, result, num_properties, i, type, multi,
                               num_names, k, j, v, utf8, filled, rounds>>

-----------------------------------------------------------------------------
(* The values *)

(* The slot at v has been set; on to the next value. *)
Sets(slots) ==
  /\ filled' = filled \cup {v}
  /\ v' = v + slots
  /\ j' = j + 1

(* Mutant: the values of every type go into a slot of their own, but one   *)
(* type's do not.                                                          *)
Slots_MutSystime == IF type = "int" THEN 1 ELSE 0

Slots == FixedType[type].slots

ReadFixed ==
  /\ pc = "value" /\ j < num_values /\ type \in DOMAIN FixedType
  /\ \/ ~Left(FixedType[type].reads) /\ Stops("exit")
     \/ /\ Left(FixedType[type].reads)
        /\ Sets(Slots)
        /\ Reads(FixedType[type].reads)
        /\ idx' = idx + FixedType[type].moves
        /\ rounds' = rounds + 1
        /\ UNCHANGED <<args, pc, result, num_properties, i, type, multi,
                       num_names, k, num_values, utf8>>

ReadClsid ==
  /\ pc = "value" /\ j < num_values /\ type = "clsid"
  /\ \/ ~GuidLeft /\ Stops("abort")
     \/ /\ GuidLeft
        /\ Sets(0)
        /\ Reads(GuidSize)
        /\ idx' = idx + GuidSize
        /\ rounds' = rounds + 1
        /\ UNCHANGED <<args, pc, result, num_properties, i, type, multi,
                       num_names, k, num_values, utf8>>

ReadUnicode ==
  /\ pc = "value" /\ j < num_values /\ type = "unicode"
  /\ \/ ~Left(4) /\ Stops("exit")
     \/ /\ Left(4)
        /\ \E n \in Lengths :
             \/ (n = 0 \/ ~Left(4 + n)) /\ Stops("abort")
             \/ n # 0 /\ Left(4 + n) /\ MayRunOut /\ Stops("crash")
             \/ /\ n # 0 /\ Left(4 + n)
                /\ Converts(n)
                /\ Sets(1)
                /\ UNCHANGED <<args, result, num_properties, i, type, multi,
                               num_names, k, num_values>>

(* Mutant: the length is compared with the end of the buffer by itself. *)
BytesLeft_MutLengthOnly(n) == n <= len

(* assert (v->len + idx <= len), idx being behind the length. *)
BytesLeft(n) == Left(4 + n)

ReadBytes ==
  /\ pc = "value" /\ j < num_values /\ type = "bytes"
  /\ \/ ~Left(4) /\ Stops("exit")
     \/ /\ Left(4)
        /\ \E n \in Lengths :
             LET outcomes == checked_xmalloc(limit, n, 1, 1) IN
             \/ ~BytesLeft(n) /\ Stops("abort")
             \/ BytesLeft(n) /\ AllocFails(outcomes, "crash")
             \/ /\ BytesLeft(n) /\ "ok" \in outcomes
                /\ Sets(1)
                /\ Reads(4 + n)
                /\ idx' = idx + 4 + pad_to_4byte(n)
                /\ rounds' = rounds + 1
                /\ UNCHANGED <<args, pc, result, num_properties, i, type, multi,
                               num_names, k, num_values, utf8>>

(* Mutant: with ENCODE_SKIP a value of no known type is passed over. *)
ReadInvalid_MutContinues ==
  /\ pc = "value" /\ j < num_values /\ type = "invalid"
  /\ IF skip THEN UNCHANGED vars ELSE Stops("exit")

(* Mutant: with ENCODE_SKIP such a value counts as read. *)
ReadInvalid_MutCounts ==
  /\ pc = "value" /\ j < num_values /\ type = "invalid"
  /\ IF skip
     THEN /\ j' = j + 1
          /\ UNCHANGED <<args, pc, result, idx, num_properties, i, type, multi,
                         num_names, k, num_values, v, utf8, access, filled, rounds>>
     ELSE Stops("exit")

ReadInvalid ==
  /\ pc = "value" /\ j < num_values /\ type = "invalid"
  /\ Stops(IF skip THEN "null" ELSE "exit")

PropertyDone ==
  /\ pc = "value" /\ j = num_values
  /\ i' = i + 1
  /\ pc' = "property"
  /\ UNCHANGED <<args, result, idx, num_properties, prop, utf8, access, filled,
                 rounds>>

ListDone ==
  /\ pc = "property" /\ i = num_properties
  /\ Stops("list")

-----------------------------------------------------------------------------
(* unicode_to_utf8, a unit at a time *)

(* Mutant: room for the surrogates of a pair too. *)
Width_MutFour(c) == IF c <= 127 THEN 1 ELSE IF c < 2047 THEN 2 ELSE 4

Width(c) == IF c <= 127 THEN 1 ELSE IF c < 2047 THEN 2 ELSE 3

ConvertUnit ==
  /\ pc = "utf8" /\ left > 1
  /\ \E c \in Units : out' = out + Width(c)
  /\ access' = [at |-> from, size |-> 2]
  /\ from' = from + 2 /\ left' = left - 2
  /\ UNCHANGED <<args, pc, result, idx, num_properties, i, prop, room, filled,
                 rounds>>

(* The terminating NUL, and back to the caller. *)
Converted ==
  /\ pc = "utf8" /\ left <= 1
  /\ out' = out + 1
  /\ pc' = IF num_values = 0 THEN "names" ELSE "value"
  /\ UNCHANGED <<args, result, idx, num_properties, i, prop, from, left, room,
                 access, filled, rounds>>

Next ==
  /\ result = "running"
  /\ \/ ReadCount
     \/ ReadProperty
     \/ ReadGuid
     \/ ReadName
     \/ NamesRead
     \/ ReadValueCount
     \/ ReadFixed
     \/ ReadClsid
     \/ ReadUnicode
     \/ ReadBytes
     \/ ReadInvalid
     \/ PropertyDone
     \/ ListDone
     \/ ConvertUnit
     \/ Converted

Spec == Init /\ [][Next]_vars

(* The walk is sequential code: it goes on until it returns. *)
FairSpec == Spec /\ WF_vars(Next)

-----------------------------------------------------------------------------
(* Properties *)

InBuffer == access.at + access.size <= len

(* Whatever counts and lengths the buffer holds and wherever the padding   *)
(* of a string has left idx, no byte behind the buffer is read.  (One case *)
(* is left out: see GuidInBuffer.)                                         *)
ReadsInBuffer ==
  ~(type = "clsid" /\ ~multi /\ num_names > 0) => InBuffer

(* mapi_attr.c:49 asserts of the buffer a GUID is copied from that 16      *)
(* bytes of it are left.                                                   *)
GuidInBuffer == InBuffer

(* util.c:84 on the size of the UTF-8 buffer: "won't get any longer than   *)
(* this", the terminating NUL included.                                    *)
Utf8Fits == out <= room

(* What has been read of a property fills the slots from the first on,     *)
(* without a gap and within the array; of the types that come with several *)
(* values none is lost.                                                    *)
SlotsFilled ==
  pc \in {"value", "property"} /\ num_values > 0 =>
    /\ v <= num_values
    /\ filled \subseteq 0 .. num_values - 1
    /\ type \in SeveralValues => filled = 0 .. j - 1

(* Every property, name and value uses up four bytes of the buffer, so its *)
(* length bounds the work whatever counts it holds.                        *)
WorkBounded == 4 * rounds <= idx

(* How many steps there may yet be: one for each byte idx can still pass,  *)
(* or that is left of a string, and a few to end a property.               *)
StepsLeft ==
  LET ahead == len + GuidSize + 3 - idx IN
  IF result # "running" THEN 0
  ELSE CASE pc \in {"start", "property"} -> ahead + 1
         [] pc = "value"               -> ahead + 2
         [] pc = "count"               -> ahead + 3
         [] pc \in {"names", "guid"}    -> ahead + 4
         [] pc = "utf8"                -> ahead + 5 + left

(* Every step of the walk uses up what is left of the buffer: its length   *)
(* bounds the steps of all four loops together, the conversion of strings  *)
(* included, whatever counts, lengths and types it holds.                  *)
StepsBounded == [][StepsLeft' \in Nat /\ StepsLeft' < StepsLeft]_vars

(* mapi_attr_read always comes to an end. *)
Terminates == <>(result # "running")
=============================================================================
