-------------------------- MODULE AttrStreamProofs --------------------------
(***************************************************************************)
(* What AttrStream promises for every input, proved: which bytes the run   *)
(* has decoded at each point of its loop, and that it decodes them all.    *)
(***************************************************************************)
EXTENDS AttrStream, DataInduction

Byte == Nat \cup Names \cup TypeNames

Encodings(xs) == [i \in DOMAIN xs |-> Encoding(xs[i])]

(* The bytes of attributes, one after the other. *)
Flat(xs) == FlattenSeq(Encodings(xs))

HeaderBytes(h) == <<h.lvl, h.name, h.type, h.len>>

-----------------------------------------------------------------------------
(* The bytes *)

(* Concatenation, which the prover does not expand by itself. *)
LEMMA ConcatTyped ==
  ASSUME NEW U, NEW s \in Seq(U), NEW t \in Seq(U)
  PROVE  s \o t \in Seq(U) /\ Len(s \o t) = Len(s) + Len(t)
  OBVIOUS

(* An attribute takes five bytes more than its data. *)
LEMMA EncodingBytes ==
  ASSUME NEW a \in Attr
  PROVE  Encoding(a) \in Seq(Byte) /\ Len(Encoding(a)) = Len(a.buf) + 5
<1>1. /\ a.lvl \in Byte /\ a.name \in Byte /\ a.type \in Byte
      /\ a.buf \in Seq(Byte) /\ a.sum \in Byte /\ Len(a.buf) \in Byte
      /\ Len(a.buf) \in Nat
  <2>1. a.lvl \in LVL /\ a.name \in Names /\ a.type \in TypeNames
    BY DEF Attr
  <2>2. a.buf \in Seq(Contents) /\ a.sum \in Sums
    BY DEF Attr
  <2>3. Contents \subseteq Byte /\ Sums \subseteq Byte
    BY AttrStreamAssumption DEF Byte
  <2>4. a.buf \in Seq(Byte)
    BY <2>2, <2>3
  <2>5. Len(a.buf) \in Nat
    BY <2>2
  <2>6. a.lvl \in Nat
    BY <2>1 DEF LVL
  <2> QED
    BY <2>1, <2>2, <2>3, <2>4, <2>5, <2>6 DEF Byte
<1>2. /\ <<a.lvl, a.name, a.type, Len(a.buf)>> \in Seq(Byte)
      /\ Len(<<a.lvl, a.name, a.type, Len(a.buf)>>) = 4
      /\ <<a.sum>> \in Seq(Byte) /\ Len(<<a.sum>>) = 1
  BY <1>1
<1> DEFINE h == <<a.lvl, a.name, a.type, Len(a.buf)>>
<1> DEFINE t == <<a.sum>>
<1>3. h \in Seq(Byte) /\ Len(h) = 4 /\ t \in Seq(Byte) /\ Len(t) = 1
  BY <1>2
<1>4. Encoding(a) = h \o a.buf \o t
  BY DEF Encoding
<1> HIDE DEF h, t
<1>5. h \o a.buf \in Seq(Byte) /\ Len(h \o a.buf) = 4 + Len(a.buf)
  BY <1>1, <1>3, ConcatTyped
<1>6. PICK g \in Seq(Byte) : g = h \o a.buf
  BY <1>5
<1>7. g \o t \in Seq(Byte) /\ Len(g \o t) = Len(g) + 1
  BY <1>3, ConcatTyped
<1> QED
  BY <1>1, <1>4, <1>5, <1>6, <1>7

(* An attribute handed over adds its bytes to those handed over before. *)
LEMMA FlatAppend ==
  ASSUME NEW xs \in Seq(Attr), NEW a \in Attr
  PROVE  /\ Flat(xs) \in Seq(Byte)
         /\ Flat(Append(xs, a)) = Flat(xs) \o Encoding(a)
<1>1. Len(xs) \in Nat /\ DOMAIN xs = 1 .. Len(xs)
  OBVIOUS
<1>2. \A i \in 1 .. Len(xs) : xs[i] \in Attr
  OBVIOUS
<1>3. Encodings(xs) \in Seq(Seq(Byte))
  <2>1. \A i \in 1 .. Len(xs) : Encoding(xs[i]) \in Seq(Byte)
    BY <1>2, EncodingBytes
  <2>2. Encodings(xs) = [i \in 1 .. Len(xs) |-> Encoding(xs[i])]
    BY <1>1 DEF Encodings
  <2> QED
    BY <1>1, <2>1, <2>2
<1>4. Encodings(Append(xs, a)) = Append(Encodings(xs), Encoding(a))
  <2> DEFINE bs == Append(xs, a)
  <2>1. /\ DOMAIN bs = 1 .. Len(xs) + 1 /\ bs[Len(xs) + 1] = a
        /\ \A i \in 1 .. Len(xs) : bs[i] = xs[i]
    BY <1>1
  <2> HIDE DEF bs
  <2>2. Encodings(bs) = [i \in 1 .. Len(xs) + 1 |-> Encoding(bs[i])]
    BY <2>1 DEF Encodings
  <2>3. Encodings(xs) = [i \in 1 .. Len(xs) |-> Encoding(xs[i])]
    BY <1>1 DEF Encodings
  <2>4. Append(Encodings(xs), Encoding(a))
          = [i \in 1 .. Len(xs) + 1 |->
               IF i <= Len(xs) THEN Encodings(xs)[i] ELSE Encoding(a)]
    <3> DEFINE es == Encodings(xs)
    <3>1. es \in Seq(Seq(Byte)) /\ Len(es) = Len(xs)
      BY <1>1, <1>3, <2>3
    <3> HIDE DEF es
    <3>2. Append(es, Encoding(a))
            = [i \in 1 .. Len(xs) + 1 |->
                 IF i <= Len(xs) THEN es[i] ELSE Encoding(a)]
      <4> DEFINE g == Append(es, Encoding(a))
      <4>1. /\ g \in Seq(Seq(Byte)) /\ Len(g) = Len(xs) + 1
            /\ \A i \in 1 .. Len(xs) : g[i] = es[i]
            /\ g[Len(xs) + 1] = Encoding(a)
        BY <1>1, <3>1, EncodingBytes
      <4> HIDE DEF g
      <4>2. g = [i \in 1 .. Len(xs) + 1 |-> g[i]]
        BY <4>1
      <4>3. ASSUME NEW i \in 1 .. Len(xs) + 1
            PROVE g[i] = IF i <= Len(xs) THEN es[i] ELSE Encoding(a)
        <5>1. i \in 1 .. Len(xs) \/ (i = Len(xs) + 1 /\ ~(i <= Len(xs)))
          BY <1>1
        <5> QED
          BY <4>1, <5>1
      <4> QED
        BY <4>2, <4>3, Zenon DEF g
    <3> QED
      BY <3>2 DEF es
  <2>5. ASSUME NEW i \in 1 .. Len(xs) + 1
        PROVE Encoding(bs[i])
                = IF i <= Len(xs) THEN Encodings(xs)[i] ELSE Encoding(a)
    <3>1. CASE i <= Len(xs)
      <4>1. i \in 1 .. Len(xs)
        BY <1>1, <3>1
      <4>2. bs[i] = xs[i] /\ Encodings(xs)[i] = Encoding(xs[i])
        BY <2>1, <2>3, <4>1
      <4> QED
        BY <3>1, <4>2
    <3>2. CASE ~(i <= Len(xs))
      <4>1. i = Len(xs) + 1
        BY <1>1, <3>2
      <4> QED
        BY <2>1, <3>2, <4>1
    <3> QED
      BY <3>1, <3>2
  <2>6. Encodings(bs) = Append(Encodings(xs), Encoding(a))
    BY <2>2, <2>4, <2>5, Zenon
  <2> QED
    BY <2>6 DEF bs
<1>5. Encoding(a) \in Seq(Byte)
  BY EncodingBytes
<1> QED
  BY <1>3, <1>4, <1>5, FlattenAppend DEF Flat

(* The attributes handed over are bytes, and none are none. *)
LEMMA FlatBytes ==
  ASSUME NEW xs \in Seq(Attr)
  PROVE  Flat(xs) \in Seq(Byte) /\ (xs = <<>> => Flat(xs) = <<>>)
<1>1. ASSUME xs = <<>> PROVE Flat(xs) = <<>>
  <2>1. Encodings(xs) = <<>>
    BY <1>1 DEF Encodings
  <2> QED
    BY <2>1 DEF Flat, FlattenSeq
<1>2. Flat(xs) \in Seq(Byte)
  <2>1. Len(xs) \in Nat /\ DOMAIN xs = 1 .. Len(xs)
    OBVIOUS
  <2>2. \A i \in 1 .. Len(xs) : Encoding(xs[i]) \in Seq(Byte)
    BY EncodingBytes
  <2>3. Encodings(xs) = [i \in 1 .. Len(xs) |-> Encoding(xs[i])]
    BY <2>1 DEF Encodings
  <2>4. Encodings(xs) \in Seq(Seq(Byte))
    BY <2>1, <2>2, <2>3
  <2>5. <<>> \in Seq(Byte)
    OBVIOUS
  <2> QED
    BY <2>4, <2>5, FlattenAppend DEF Flat
<1> QED
  BY <1>1, <1>2

(* What check_checksum computes is the sum of the bytes, modulo SumMod. *)
LEMMA ChecksumIsSum ==
  ASSUME NEW buf \in Seq(Contents)
  PROVE  check_checksum(buf) = FoldSeq(+, 0, buf) % SumMod
<1>1. buf \in Seq(Nat)
  <2>1. Contents \subseteq Nat
    BY AttrStreamAssumption
  <2>2. Len(buf) \in Nat /\ buf \in [1 .. Len(buf) -> Contents]
    OBVIOUS
  <2>3. buf \in [1 .. Len(buf) -> Nat]
    BY <2>1, <2>2
  <2> QED
    BY <2>2, <2>3
<1>2. SumMod \in Nat \ {0}
  BY AttrStreamAssumption
<1> QED
  BY <1>1, <1>2, FoldRemainder DEF check_checksum

(* A header is no attribute, and neither is NULL. *)
LEMMA KindsApart ==
  /\ \A h \in Header : h \notin Attr /\ h # NULL
  /\ \A a \in Attr : a \notin Header /\ a # NULL
<1>1. \A h \in Header, a \in Attr : h # a
  <2>1. ASSUME NEW h \in Header, NEW a \in Attr, h = a PROVE FALSE
    <3>1. "buf" \in DOMAIN a /\ "buf" \notin DOMAIN h
      BY DEF Header, Attr
    <3> QED
      BY <2>1, <3>1
  <2> QED
    BY <2>1
<1> QED
  BY <1>1, AttrStreamAssumption

-----------------------------------------------------------------------------
(* Steps *)

(* The run ends without having come to the bodies. *)
Halt ==
  /\ status' \in {"fail", "abort", "crash"}
  /\ UNCHANGED <<opts, size, pc, attr, bytes, attrs, access>>

Finish ==
  /\ \/ pc = "data_left" /\ Garbage
     \/ pc = "read_object" /\ Remaining = 0
  /\ status' = "ok"
  /\ UNCHANGED <<opts, size, pc, attr, bytes, attrs, access>>

SignatureRead ==
  /\ pc = "signature" /\ Available(Len(Signature))
  /\ pc' = "data_left" /\ bytes' = Signature
  /\ UNCHANGED <<opts, size, status, attr, attrs, access>>

LookOn ==
  /\ pc = "data_left" /\ pc' = "read_object"
  /\ UNCHANGED <<opts, size, status, attr, bytes, attrs, access>>

HeaderRead(h) ==
  /\ pc = "read_object" /\ Available(HeaderSize)
  /\ pc' = "body" /\ attr' = h
  /\ bytes' = bytes \o HeaderBytes(h)
  /\ UNCHANGED <<opts, size, status, attrs, access>>

Summed(a) == FoldSeq(+, 0, a.buf) % SumMod = a.sum

BodyRead(a) ==
  /\ pc = "body" /\ Available(Len(a.buf) + SumSize)
  /\ a.lvl = attr.lvl /\ a.name = attr.name /\ a.type = attr.type
  /\ Len(a.buf) = attr.len
  /\ opts.skip \/ Summed(a)
  /\ bytes' = bytes \o a.buf \o <<a.sum>>
  /\ IF opts.debug
     THEN pc' = "dump" /\ attr' = a /\ UNCHANGED attrs
     ELSE pc' = "data_left" /\ attr' = NULL /\ attrs' = Append(attrs, a)
  /\ UNCHANGED <<opts, size, status, access>>

DumpDone ==
  /\ pc = "dump" /\ Demands
  /\ access' = Reads
  /\ attrs' = Append(attrs, attr) /\ attr' = NULL
  /\ pc' = "data_left"
  /\ UNCHANGED <<opts, size, status, bytes>>

(* A step of the loop is one of these, whatever was allocated. *)
LEMMA StepCases ==
  ASSUME TypeOK, Next
  PROVE  /\ status = "running"
         /\ \/ Halt
            \/ Finish
            \/ SignatureRead
            \/ LookOn
            \/ \E h \in Header : HeaderRead(h)
            \/ \E a \in Attr : BodyRead(a)
            \/ DumpDone
<1>1. CASE ReadSignature
  BY <1>1 DEF Next, ReadSignature, Stops, Halt, SignatureRead
<1>2. CASE data_left
  BY <1>2 DEF Next, data_left, Stops, Goto, Finish, LookOn
<1>3. CASE NoObject
  BY <1>3 DEF Next, NoObject, Stops, Finish
<1>4. CASE ReadHeader
  <2>1. ASSUME NEW outcomes, NEW written, AllocFails(outcomes, written)
        PROVE Halt
    BY <2>1 DEF AllocFails, Stops, Halt
  <2>2. ASSUME NEW how \in {"fail", "abort", "crash"}, Stops(how) PROVE Halt
    BY <2>2 DEF Stops, Halt
  <2>3. \/ \E outcomes, written : AllocFails(outcomes, written)
        \/ \E how \in {"fail", "abort", "crash"} : Stops(how)
        \/ \E h \in Header : HeaderRead(h)
    BY <1>4, Zenon DEF ReadHeader, HeaderRead, HeaderBytes
  <2> QED
    BY <1>4, <2>1, <2>2, <2>3 DEF Next
<1>5. CASE ReadBody
  <2>1. pc = "body" /\ attr \in Header
    BY <1>5 DEF ReadBody, TypeOK
  <2>2. attr.len \in Nat /\ attr.lvl \in LVL /\ attr.name \in Names
        /\ attr.type \in TypeNames
    BY <2>1, AttrStreamAssumption DEF Header
  <2>3. CASE Stops("fail")
    BY <2>3, <1>5 DEF Next, Stops, Halt
  <2>4. CASE ~Stops("fail")
    <3>1. /\ Available(attr.len + SumSize)
          /\ \E buf \in [1 .. attr.len -> Contents], sum \in Sums :
               LET a == [lvl |-> attr.lvl, name |-> attr.name,
                         type |-> attr.type, buf |-> buf, sum |-> sum] IN
               /\ check_checksum(buf) = sum \/ opts.skip
               /\ bytes' = bytes \o buf \o <<sum>>
               /\ IF opts.debug
                  THEN /\ pc' = "dump" /\ attr' = a
                       /\ UNCHANGED attrs
                  ELSE /\ pc' = "data_left" /\ attr' = NULL
                       /\ attrs' = Append(attrs, a)
               /\ UNCHANGED <<opts, size, status, access>>
      BY <1>5, <2>4, Zenon DEF ReadBody
    <3>2. PICK buf \in [1 .. attr.len -> Contents], sum \in Sums :
            LET a == [lvl |-> attr.lvl, name |-> attr.name,
                      type |-> attr.type, buf |-> buf, sum |-> sum] IN
            /\ check_checksum(buf) = sum \/ opts.skip
            /\ bytes' = bytes \o buf \o <<sum>>
            /\ IF opts.debug
               THEN /\ pc' = "dump" /\ attr' = a
                    /\ UNCHANGED attrs
               ELSE /\ pc' = "data_left" /\ attr' = NULL
                    /\ attrs' = Append(attrs, a)
            /\ UNCHANGED <<opts, size, status, access>>
      BY <3>1
    <3>3. buf \in Seq(Contents) /\ Len(buf) = attr.len
      BY <2>2
    <3>4. PICK a : a = [lvl |-> attr.lvl, name |-> attr.name,
                        type |-> attr.type, buf |-> buf, sum |-> sum]
      OBVIOUS
    <3>5. /\ a.lvl = attr.lvl /\ a.name = attr.name /\ a.type = attr.type
          /\ a.buf = buf /\ a.sum = sum /\ a \in Attr
      BY <2>2, <3>3, <3>4 DEF Attr
    <3>6. opts.skip \/ Summed(a)
      <4>1. check_checksum(buf) = FoldSeq(+, 0, buf) % SumMod
        BY <3>3, ChecksumIsSum
      <4> QED
        BY <3>2, <3>5, <4>1, Zenon DEF Summed
    <3>7. BodyRead(a)
      <4>1. Available(Len(a.buf) + SumSize) /\ Len(a.buf) = attr.len
        BY <3>1, <3>3, <3>5
      <4>2. bytes' = bytes \o a.buf \o <<a.sum>>
        BY <3>2, <3>5
      <4>3. /\ IF opts.debug
               THEN pc' = "dump" /\ attr' = a /\ UNCHANGED attrs
               ELSE /\ pc' = "data_left" /\ attr' = NULL
                    /\ attrs' = Append(attrs, a)
            /\ UNCHANGED <<opts, size, status, access>>
        BY <3>2, <3>4, Zenon
      <4> QED
        BY <2>1, <3>5, <3>6, <4>1, <4>2, <4>3, Zenon DEF BodyRead
    <3> QED
      BY <1>5, <3>5, <3>7 DEF Next
  <2> QED
    BY <2>3, <2>4
<1>6. CASE attr_dump
  <2>1. ASSUME NEW how \in {"fail", "abort", "crash"}, Stops(how) PROVE Halt
    BY <2>1 DEF Stops, Halt
  <2>2. \A o \in checked_xmalloc(opts.limit, len + 1, 1, 0) \ {"ok"} :
          o \in {"exit", "abort"}
    BY DEF checked_xmalloc, NoMemory
  <2>3. \/ \E how \in {"fail", "abort", "crash"} : Stops(how)
        \/ DumpDone
    BY <1>6, <2>2 DEF attr_dump, DumpDone
  <2> QED
    BY <1>6, <2>1, <2>3 DEF Next
<1> QED
  BY <1>1, <1>2, <1>3, <1>4, <1>5, <1>6 DEF Next

-----------------------------------------------------------------------------
(* What a dump reads *)

Bound(a) ==
  CASE a.type = "DWORD" -> Len(a.buf) + LONG - 1
    [] a.type = "BYTE" /\ a.name = OEMCODEPAGE -> Max({Len(a.buf), 2 * LONG})
    [] OTHER -> Len(a.buf) + 1

(* Max is above both. *)
LEMMA MaxOfTwo ==
  ASSUME NEW a \in Int, NEW b \in Int
  PROVE  Max({a, b}) >= a /\ Max({a, b}) >= b
<1>1. \E x \in {a, b} : \A y \in {a, b} : x >= y
  OBVIOUS
<1>2. \A y \in {a, b} : Max({a, b}) >= y
  BY <1>1, Zenon DEF Max
<1> QED
  BY <1>2

(* A string ends in the buffer or at its NUL. *)
LEMMA StringEnds ==
  ASSUME attr \in Attr, NEW at \in 0 .. len
  PROVE  \E nul \in at .. len : StringAt(at) = Span(at, nul - at + 1)
<1>1. len \in Nat
  BY DEF Attr, len
<1> DEFINE Ends == {n \in at .. len : n = len \/ attr.buf[n + 1] = 0}
<1>2. Ends \in SUBSET Nat /\ Ends # {}
  BY <1>1
<1>3. PICK n \in Ends : \A m \in Ends : n <= m
  BY <1>2, LeastElement
<1>4. n \in at .. len /\ (n = len \/ attr.buf[n + 1] = 0)
  BY <1>3
<1>5. ASSUME NEW m \in at .. n - 1 PROVE attr.buf[m + 1] # 0
  <2>1. m \in at .. len /\ ~(n <= m)
    BY <1>1, <1>4
  <2> QED
    BY <1>3, <2>1
<1> DEFINE Nul(k) == /\ k = len \/ attr.buf[k + 1] = 0
                     /\ \A m \in at .. k - 1 : attr.buf[m + 1] # 0
<1>6. \E k \in at .. len : Nul(k)
  BY <1>4, <1>5
<1>7. PICK nul : nul = CHOOSE k \in at .. len : Nul(k)
  OBVIOUS
<1>8. nul \in at .. len
  <2> HIDE DEF Nul
  <2> QED
    BY <1>6, <1>7
<1>9. StringAt(at) = Span(at, nul - at + 1)
  BY <1>7 DEF StringAt
<1> QED
  BY <1>8, <1>9

(* What a dump reads stays within the bound of its type. *)
LEMMA ReadsInBuffer ==
  ASSUME attr \in Attr, Demands
  PROVE  \A x \in Reads : /\ x.at \in Nat /\ x.size \in Nat
                          /\ x.at + x.size <= Bound(attr)
<1>1. /\ len \in Nat /\ attr.buf \in Seq(Contents) /\ len = Len(attr.buf)
      /\ attr.type \in TypeNames
  BY DEF Attr, len
<1>2. \A i \in 1 .. len : attr.buf[i] \in Nat
  BY <1>1, AttrStreamAssumption
<1>3. /\ SHORT \in 1 .. 2 /\ LONG \in Nat \ {0} /\ DATE \in Nat \ {0}
      /\ TRP \in Nat /\ TRP > 3
  BY AttrStreamAssumption
<1>4. ASSUME NEW at, NEW n
      PROVE Span(at, n).at = at /\ Span(at, n).size = n
  BY DEF Span
<1>5. CASE attr.type = "BYTE" /\ attr.name = OEMCODEPAGE
  <2>1. Reads = {Span(0, LONG), Span(LONG, LONG)}
    BY <1>5 DEF Reads
  <2>2. Bound(attr) = Max({len, 2 * LONG})
    BY <1>1, <1>5 DEF Bound
  <2>3. Bound(attr) >= 2 * LONG
    <3>1. PICK a \in Int, b \in Int : a = len /\ b = 2 * LONG
      BY <1>1, <1>3
    <3>2. Max({a, b}) >= b
      BY MaxOfTwo
    <3> QED
      BY <2>2, <3>1, <3>2
  <2>4. /\ Span(0, LONG).at = 0 /\ Span(0, LONG).size = LONG
        /\ Span(LONG, LONG).at = LONG /\ Span(LONG, LONG).size = LONG
    BY <1>4
  <2>5. Bound(attr) \in Int
    <3>1. \E x \in {len, 2 * LONG} : \A y \in {len, 2 * LONG} : x >= y
      BY <1>1, <1>3
    <3>2. Max({len, 2 * LONG}) \in {len, 2 * LONG}
      BY <3>1, Zenon DEF Max
    <3> QED
      BY <1>1, <1>3, <2>2, <3>2
  <2> QED
    BY <1>3, <2>1, <2>3, <2>4, <2>5
<1>6. CASE attr.type = "SHORT"
  <2>1. Reads = {Span(0, SHORT), Span(SHORT, len - SHORT)} /\ len >= SHORT
    BY <1>6 DEF Reads, Demands
  <2>2. Bound(attr) = len + 1
    BY <1>1, <1>6 DEF Bound
  <2>3. /\ Span(0, SHORT).at = 0 /\ Span(0, SHORT).size = SHORT
        /\ Span(SHORT, len - SHORT).at = SHORT
        /\ Span(SHORT, len - SHORT).size = len - SHORT
    BY <1>4
  <2> QED
    BY <1>1, <1>3, <2>1, <2>2, <2>3
<1>7. CASE attr.type = "LONG"
  <2>1. Reads = {Span(0, LONG), Span(LONG, len - LONG)} /\ len >= LONG
    BY <1>7 DEF Reads, Demands
  <2>2. Bound(attr) = len + 1
    BY <1>1, <1>7 DEF Bound
  <2>3. /\ Span(0, LONG).at = 0 /\ Span(0, LONG).size = LONG
        /\ Span(LONG, len - LONG).at = LONG
        /\ Span(LONG, len - LONG).size = len - LONG
    BY <1>4
  <2> QED
    BY <1>1, <1>3, <2>1, <2>2, <2>3
<1>8. ASSUME NEW n \in Nat \ {0}, NEW x \in Words(n)
      PROVE x.at \in 0 .. len - 1 /\ x.size = n
  <2>1. PICK i \in 0 .. len - 1 : x = Span(i, n)
    BY DEF Words
  <2> QED
    BY <1>4, <2>1
<1>9. CASE attr.type = "WORD"
  <2>1. Reads = Words(SHORT) /\ Bound(attr) = len + 1
    BY <1>1, <1>9 DEF Reads, Bound
  <2> QED
    BY <1>1, <1>3, <1>8, <2>1
<1>10. CASE attr.type = "DWORD"
  <2>1. Reads = Words(LONG) /\ Bound(attr) = len + LONG - 1
    BY <1>1, <1>10 DEF Reads, Bound
  <2> QED
    BY <1>1, <1>3, <1>8, <2>1
<1>11. CASE attr.type = "DATE"
  <2>1. Reads = {Span(0, DATE)} /\ len >= DATE /\ Bound(attr) = len + 1
    BY <1>1, <1>11 DEF Reads, Demands, Bound
  <2> QED
    BY <1>1, <1>3, <1>4, <2>1
<1>12. CASE attr.type = "TRIPLES"
  <2>1. /\ Reads = {Span(0, TRP), StringAt(TRP), StringAt(TRP + cch)}
        /\ len > TRP /\ len > TRP + cch /\ Bound(attr) = len + 1
    BY <1>1, <1>12 DEF Reads, Demands, Bound
  <2>2. cch \in Nat
    BY <1>1, <1>2, <1>3, <2>1 DEF cch
  <2>3. PICK n1 \in TRP .. len : StringAt(TRP) = Span(TRP, n1 - TRP + 1)
    <3>1. TRP \in 0 .. len
      BY <1>1, <1>3, <2>1
    <3> QED
      BY <3>1, StringEnds
  <2>4. PICK n2 \in TRP + cch .. len :
          StringAt(TRP + cch) = Span(TRP + cch, n2 - (TRP + cch) + 1)
    <3>1. TRP + cch \in 0 .. len
      BY <1>1, <1>3, <2>1, <2>2
    <3> QED
      BY <3>1, StringEnds
  <2>5. /\ StringAt(TRP).at = TRP /\ StringAt(TRP).size = n1 - TRP + 1
        /\ StringAt(TRP + cch).at = TRP + cch
        /\ StringAt(TRP + cch).size = n2 - (TRP + cch) + 1
        /\ Span(0, TRP).at = 0 /\ Span(0, TRP).size = TRP
    <3>1. StringAt(TRP).at = TRP /\ StringAt(TRP).size = n1 - TRP + 1
      BY <2>3 DEF Span
    <3>2. /\ StringAt(TRP + cch).at = TRP + cch
          /\ StringAt(TRP + cch).size = n2 - (TRP + cch) + 1
      BY <2>4 DEF Span
    <3>3. Span(0, TRP).at = 0 /\ Span(0, TRP).size = TRP
      BY DEF Span
    <3> QED
      BY <3>1, <3>2, <3>3
  <2>6. PICK a \in Nat, l \in Nat : a = TRP + cch /\ l = len
    <3>1. TRP + cch \in Nat /\ len \in Nat
      BY <1>1, <1>3, <2>2
    <3> QED
      BY <3>1, Zenon
  <2>7. /\ 0 + TRP <= l + 1
        /\ n1 - TRP + 1 \in Nat /\ TRP + (n1 - TRP + 1) <= l + 1
        /\ n2 - a + 1 \in Nat /\ a + (n2 - a + 1) <= l + 1
    BY <1>3, <2>1, <2>6
  <2>8. /\ Span(0, TRP).at + Span(0, TRP).size <= Bound(attr)
        /\ StringAt(TRP).at + StringAt(TRP).size <= Bound(attr)
        /\ StringAt(TRP + cch).at + StringAt(TRP + cch).size <= Bound(attr)
    BY <2>1, <2>5, <2>6, <2>7
  <2>9. /\ Span(0, TRP).at \in Nat /\ Span(0, TRP).size \in Nat
        /\ StringAt(TRP).at \in Nat /\ StringAt(TRP).size \in Nat
        /\ StringAt(TRP + cch).at \in Nat /\ StringAt(TRP + cch).size \in Nat
    BY <1>3, <2>5, <2>6, <2>7
  <2> QED
    BY <2>1, <2>8, <2>9, Zenon
<1>13. CASE /\ attr.type \notin {"SHORT", "LONG", "WORD", "DWORD", "DATE",
                                 "TRIPLES"}
            /\ ~(attr.type = "BYTE" /\ attr.name = OEMCODEPAGE)
  <2>1. Reads = {Span(0, len)} /\ Bound(attr) = len + 1
    BY <1>1, <1>13 DEF Reads, Bound
  <2> QED
    BY <1>1, <1>4, <2>1
<1> QED
  BY <1>5, <1>6, <1>7, <1>9, <1>10, <1>11, <1>12, <1>13

-----------------------------------------------------------------------------
(* What was read *)

(* At each point of the loop the bytes read are the signature, the         *)
(* attributes handed over, and what is held of the next.                   *)
Consumed ==
  /\ pc = "signature" => bytes = <<>> /\ attrs = <<>>
  /\ pc \in {"data_left", "read_object"} => bytes = Signature \o Flat(attrs)
  /\ pc = "body" => bytes = (Signature \o Flat(attrs)) \o HeaderBytes(attr)
  /\ pc = "dump" => bytes = (Signature \o Flat(attrs)) \o Encoding(attr)

Reading == TypeOK /\ Consumed

(* Concatenation is associative. *)
LEMMA ConcatAssoc ==
  ASSUME NEW s \in Seq(Byte), NEW t \in Seq(Byte), NEW u \in Seq(Byte)
  PROVE  (s \o t) \o u = s \o (t \o u)
  OBVIOUS

(* The signature is made of bytes. *)
LEMMA SignatureBytes == Signature \in Seq(Byte)
<1>1. Len(Signature) \in Nat /\ Signature \in [1 .. Len(Signature) -> Nat]
  BY AttrStreamAssumption
<1>2. Signature \in [1 .. Len(Signature) -> Byte]
  BY <1>1 DEF Byte
<1> QED
  BY <1>1, <1>2

(* A header takes four bytes. *)
LEMMA HeaderBytesTyped ==
  ASSUME NEW h \in Header
  PROVE  HeaderBytes(h) \in Seq(Byte) /\ Len(HeaderBytes(h)) = HeaderSize
<1>1. h.lvl \in Byte /\ h.name \in Byte /\ h.type \in Byte /\ h.len \in Byte
  <2>1. h.lvl \in LVL /\ h.name \in Names /\ h.type \in TypeNames
        /\ h.len \in Lengths
    BY DEF Header
  <2>2. h.lvl \in Nat /\ h.len \in Nat
    BY <2>1, AttrStreamAssumption DEF LVL
  <2> QED
    BY <2>1, <2>2 DEF Byte
<1> QED
  BY <1>1 DEF HeaderBytes, HeaderSize

(* A header with its data and its checksum is the encoding.                *)
LEMMA EncodingOf ==
  ASSUME NEW h \in Header, NEW a \in Attr, NEW s \in Seq(Byte),
         a.lvl = h.lvl, a.name = h.name, a.type = h.type, Len(a.buf) = h.len
  PROVE  (s \o HeaderBytes(h)) \o a.buf \o <<a.sum>> = s \o Encoding(a)
<1>1. /\ a.buf \in Seq(Byte) /\ <<a.sum>> \in Seq(Byte)
  <2>1. a.buf \in Seq(Contents) /\ a.sum \in Sums
    BY DEF Attr
  <2>2. Contents \subseteq Byte /\ Sums \subseteq Byte
    BY AttrStreamAssumption DEF Byte
  <2>3. Len(a.buf) \in Nat /\ a.buf \in [1 .. Len(a.buf) -> Contents]
    BY <2>1
  <2>4. a.buf \in [1 .. Len(a.buf) -> Byte]
    BY <2>2, <2>3
  <2> QED
    BY <2>1, <2>2, <2>3, <2>4
<1>2. PICK x \in Seq(Byte), b \in Seq(Byte), t \in Seq(Byte) :
        x = HeaderBytes(h) /\ b = a.buf /\ t = <<a.sum>>
  BY <1>1, HeaderBytesTyped
<1>3. Encoding(a) = (x \o b) \o t
  BY <1>2 DEF Encoding, HeaderBytes
<1>4. (s \o x) \o b = s \o (x \o b) /\ x \o b \in Seq(Byte)
  BY ConcatAssoc, ConcatTyped
<1>5. PICK y \in Seq(Byte) : y = x \o b
  BY <1>4
<1>6. (s \o y) \o t = s \o (y \o t)
  <2>1. \A u \in Seq(Byte) : (s \o y) \o u = s \o (y \o u)
    BY ConcatAssoc, Zenon
  <2> QED
    BY <2>1, Zenon
<1> QED
  BY <1>2, <1>3, <1>4, <1>5, <1>6, Zenon

(* Nothing is read at first. *)
LEMMA InitReading == Init => Reading
<1> SUFFICES ASSUME Init PROVE Reading
  OBVIOUS
<1>1. NULL \notin Header /\ NULL \notin Attr
  BY AttrStreamAssumption
<1>2. size \in Nat
  BY AttrStreamAssumption DEF Init
<1>3. TypeOK
  BY <1>1, <1>2 DEF Init, TypeOK
<1>4. Consumed
  BY DEF Init, Consumed
<1> QED
  BY <1>3, <1>4 DEF Reading

(* What was read is made of bytes. *)
LEMMA BytesTyped ==
  ASSUME Reading
  PROVE  bytes \in Seq(Byte)
<1> USE DEF Reading
<1>1. Signature \o Flat(attrs) \in Seq(Byte)
  BY SignatureBytes, FlatBytes, ConcatTyped DEF TypeOK
<1>2. CASE pc = "signature"
  BY <1>2 DEF Consumed
<1>3. CASE pc \in {"data_left", "read_object"}
  BY <1>1, <1>3 DEF Consumed
<1>4. CASE pc = "body"
  BY <1>1, <1>4, HeaderBytesTyped, ConcatTyped DEF Consumed, TypeOK
<1>5. CASE pc = "dump"
  BY <1>1, <1>5, EncodingBytes, ConcatTyped DEF Consumed, TypeOK
<1> QED
  BY <1>2, <1>3, <1>4, <1>5 DEF TypeOK

(* The body of an attribute is its data and one byte more. *)
LEMMA BodyBytes ==
  ASSUME Reading, NEW a \in Attr, BodyRead(a)
  PROVE  Len(a.buf) \in Nat /\ Len(bytes') = Len(bytes) + (Len(a.buf) + 1)
<1>1. a.buf \in Seq(Byte) /\ <<a.sum>> \in Seq(Byte) /\ Len(<<a.sum>>) = 1
  <2>1. a.buf \in Seq(Contents) /\ a.sum \in Sums
    BY DEF Attr
  <2>2. Contents \subseteq Byte /\ Sums \subseteq Byte
    BY AttrStreamAssumption DEF Byte
  <2>3. Len(a.buf) \in Nat /\ a.buf \in [1 .. Len(a.buf) -> Contents]
    BY <2>1
  <2>4. a.buf \in [1 .. Len(a.buf) -> Byte]
    BY <2>2, <2>3
  <2> QED
    BY <2>1, <2>2, <2>3, <2>4
<1>2. PICK b \in Seq(Byte), t \in Seq(Byte) :
        b = a.buf /\ t = <<a.sum>> /\ Len(t) = 1
  BY <1>1
<1>3. PICK o \in Seq(Byte) : o = bytes
  BY BytesTyped
<1>4. PICK c \in Seq(Byte) : c = o \o b /\ Len(c) = Len(o) + Len(b)
  BY ConcatTyped
<1>5. Len(c \o t) = Len(c) + Len(t)
  BY ConcatTyped
<1>6. bytes' = c \o t
  BY <1>2, <1>3, <1>4 DEF BodyRead
<1>7. Len(o) \in Nat /\ Len(b) \in Nat
  OBVIOUS
<1> QED
  BY <1>2, <1>3, <1>4, <1>5, <1>6, <1>7

(* What was read is accounted for after each step. *)
LEMMA ReadingStep ==
  ASSUME Reading, Next
  PROVE  Reading'
<1> USE DEF Reading
<1>1. /\ size \in Nat /\ opts \in Settings /\ size \in Sizes
      /\ attrs \in Seq(Attr)
  BY AttrStreamAssumption DEF TypeOK
<1>2. Signature \o Flat(attrs) \in Seq(Byte)
  BY <1>1, SignatureBytes, FlatBytes, ConcatTyped
<1>3. bytes \in Seq(Byte)
  BY BytesTyped
<1>4. CASE Halt \/ Finish
  <2>1. TypeOK'
    BY <1>4 DEF TypeOK, Halt, Finish
  <2>2. Consumed'
    BY <1>4, Zenon DEF Consumed, Halt, Finish
  <2> QED
    BY <2>1, <2>2
<1>5. CASE SignatureRead
  <2>1. bytes = <<>> /\ attrs = <<>>
    BY <1>5 DEF SignatureRead, Consumed
  <2>2. Len(Signature) <= size
    BY <1>1, <1>5, <2>1, SignatureBytes
    DEF SignatureRead, Available, Remaining
  <2>3. attr \notin Header /\ attr \notin Attr
    BY <1>5 DEF SignatureRead, TypeOK
  <2>4. TypeOK'
    BY <1>5, <2>2, <2>3 DEF SignatureRead, TypeOK
  <2>5. Signature \o Flat(attrs) = Signature
    <3>1. Flat(attrs) = <<>>
      BY <1>1, <2>1, FlatBytes
    <3>2. PICK s \in Seq(Byte) : s = Signature
      BY SignatureBytes
    <3>3. s \o <<>> = s
      OBVIOUS
    <3> QED
      BY <3>1, <3>2, <3>3
  <2>6. Consumed'
    BY <1>5, <2>5 DEF SignatureRead, Consumed
  <2> QED
    BY <2>4, <2>6
<1>6. CASE LookOn
  <2>1. TypeOK'
    BY <1>6 DEF LookOn, TypeOK
  <2>2. Consumed'
    BY <1>6 DEF LookOn, Consumed
  <2> QED
    BY <2>1, <2>2
<1>7. ASSUME NEW h \in Header, HeaderRead(h) PROVE Reading'
  <2>1. HeaderBytes(h) \in Seq(Byte) /\ Len(HeaderBytes(h)) = 4
    BY HeaderBytesTyped DEF HeaderSize
  <2>2. Len(bytes \o HeaderBytes(h)) = Len(bytes) + 4
    BY <1>3, <2>1, ConcatTyped
  <2>3. Len(bytes \o HeaderBytes(h)) <= size
    BY <1>1, <1>3, <1>7, <2>2
    DEF HeaderRead, Available, Remaining, HeaderSize
  <2>4. h \notin Attr
    BY KindsApart
  <2>5. TypeOK'
    BY <1>7, <2>3, <2>4 DEF HeaderRead, TypeOK
  <2>6. bytes = Signature \o Flat(attrs)
    BY <1>7 DEF HeaderRead, Consumed
  <2>7. Consumed'
    BY <1>7, <2>6 DEF HeaderRead, Consumed
  <2> QED
    BY <2>5, <2>7
<1>8. ASSUME NEW a \in Attr, BodyRead(a) PROVE Reading'
  <2>1. pc = "body" /\ attr \in Header
    BY <1>8 DEF BodyRead, TypeOK
  <2>2. bytes = (Signature \o Flat(attrs)) \o HeaderBytes(attr)
    BY <2>1 DEF Consumed
  <2>3. bytes' = (Signature \o Flat(attrs)) \o Encoding(a)
    <3>1. (Signature \o Flat(attrs)) \o HeaderBytes(attr) \o a.buf \o <<a.sum>>
            = (Signature \o Flat(attrs)) \o Encoding(a)
      BY <1>2, <1>8, <2>1, EncodingOf DEF BodyRead
    <3> QED
      BY <1>8, <2>2, <3>1 DEF BodyRead
  <2>4. Len(bytes') <= size
    <3>1. PICK m \in Nat : m = Len(a.buf) /\ Len(bytes') = Len(bytes) + (m + 1)
      BY <1>8, BodyBytes
    <3>2. m + 1 <= size - Len(bytes)
      BY <1>8, <3>1 DEF BodyRead, Available, Remaining, SumSize
    <3>3. Len(bytes) \in Nat
      BY <1>3
    <3> QED
      BY <1>1, <3>1, <3>2, <3>3
  <2>5. a \notin Header /\ a # NULL
    BY KindsApart
  <2>6. NULL \notin Header /\ NULL \notin Attr
    BY AttrStreamAssumption
  <2>7. CASE opts.debug
    <3>1. pc' = "dump" /\ attr' = a
          /\ UNCHANGED <<opts, size, status, attrs, access>>
      BY <1>8, <2>7 DEF BodyRead
    <3>2. TypeOK'
      BY <2>4, <2>5, <3>1 DEF TypeOK
    <3>3. Consumed'
      BY <2>3, <3>1 DEF Consumed
    <3> QED
      BY <3>2, <3>3
  <2>8. CASE ~opts.debug
    <3>1. pc' = "data_left" /\ attr' = NULL /\ attrs' = Append(attrs, a)
          /\ UNCHANGED <<opts, size, status, access>>
      BY <1>8, <2>8 DEF BodyRead
    <3>2. TypeOK'
      BY <1>1, <2>4, <2>6, <3>1 DEF TypeOK
    <3>3. Flat(attrs') = Flat(attrs) \o Encoding(a)
      BY <1>1, <3>1, FlatAppend
    <3>4. bytes' = Signature \o Flat(attrs')
      <4>1. Flat(attrs) \in Seq(Byte) /\ Encoding(a) \in Seq(Byte)
        BY <1>1, FlatBytes, EncodingBytes
      <4>2. (Signature \o Flat(attrs)) \o Encoding(a)
              = Signature \o (Flat(attrs) \o Encoding(a))
        BY <4>1, SignatureBytes, ConcatAssoc
      <4> QED
        BY <2>3, <3>3, <4>2
    <3>5. Consumed'
      BY <3>1, <3>4 DEF Consumed
    <3> QED
      BY <3>2, <3>5
  <2> QED
    BY <2>7, <2>8
<1>9. CASE DumpDone
  <2>1. attr \in Attr /\ attr.buf \in Seq(Contents)
    BY <1>9 DEF DumpDone, TypeOK, Attr
  <2>2. NULL \notin Header /\ NULL \notin Attr
    BY AttrStreamAssumption
  <2>3. attrs' \in Seq(Attr)
    BY <1>1, <1>9, <2>1 DEF DumpDone
  <2>4. \A x \in access' : x.at \in Nat /\ x.size \in Nat
    BY <1>9, <2>1, ReadsInBuffer DEF DumpDone
  <2>5. TypeOK'
    BY <1>9, <2>2, <2>3, <2>4 DEF DumpDone, TypeOK
  <2>6. Flat(attrs') = Flat(attrs) \o Encoding(attr)
    BY <1>1, <1>9, <2>1, FlatAppend DEF DumpDone
  <2>7. bytes' = Signature \o Flat(attrs')
    <3>1. Flat(attrs) \in Seq(Byte) /\ Encoding(attr) \in Seq(Byte)
      BY <1>1, <2>1, FlatBytes, EncodingBytes
    <3>2. (Signature \o Flat(attrs)) \o Encoding(attr)
            = Signature \o (Flat(attrs) \o Encoding(attr))
      BY <3>1, SignatureBytes, ConcatAssoc
    <3>3. bytes' = (Signature \o Flat(attrs)) \o Encoding(attr)
      BY <1>9 DEF DumpDone, Consumed
    <3> QED
      BY <2>6, <3>2, <3>3
  <2>8. Consumed'
    BY <1>9, <2>7 DEF DumpDone, Consumed
  <2> QED
    BY <2>5, <2>8
<1> QED
  BY <1>4, <1>5, <1>6, <1>7, <1>8, <1>9, StepCases

-----------------------------------------------------------------------------
(* What was handed over, and when the run ends *)

AllSummed ==
  opts.skip \/ /\ \A i \in DOMAIN attrs : Summed(attrs[i])
               /\ pc = "dump" => Summed(attr)

(* The run comes to the bodies when too little is left for an attribute.   *)
Ended ==
  status = "ok" =>
    /\ pc \in {"data_left", "read_object"}
    /\ opts.src # "pipe" => Remaining \in 0 .. Minimum - 1
    /\ opts.src = "stdin" => Remaining = 0

(* Dumps are made in debugging only, of the attribute handed over last.    *)
Dumped ==
  /\ pc = "dump" => opts.debug
  /\ access # {} =>
       /\ opts.debug /\ attrs # <<>>
       /\ \A x \in access : x.at + x.size <= Bound(Last(attrs))

Inv == Reading /\ AllSummed /\ Ended /\ Dumped

(* What Append adds comes last, and the rest stays. *)
LEMMA AppendLast ==
  ASSUME NEW U, NEW s \in Seq(U), NEW e \in U
  PROVE  /\ Append(s, e) # <<>> /\ Last(Append(s, e)) = e
         /\ \A i \in DOMAIN Append(s, e) :
              Append(s, e)[i] = e
                \/ (i \in DOMAIN s /\ Append(s, e)[i] = s[i])
<1> DEFINE n == Len(s)
<1> DEFINE t == Append(s, e)
<1>1. /\ n \in Nat /\ t \in Seq(U) /\ Len(t) = n + 1 /\ t[n + 1] = e
      /\ DOMAIN t = 1 .. n + 1 /\ DOMAIN s = 1 .. n
      /\ \A i \in 1 .. n : t[i] = s[i]
  OBVIOUS
<1> HIDE DEF t, n
<1>2. t # <<>> /\ Last(t) = e
  BY <1>1 DEF Last
<1>3. \A i \in DOMAIN t : t[i] = e \/ (i \in DOMAIN s /\ t[i] = s[i])
  BY <1>1
<1> QED
  BY <1>2, <1>3 DEF t

(* The invariant holds at first. *)
LEMMA InvInit == Init => Inv
<1> SUFFICES ASSUME Init PROVE Inv
  OBVIOUS
<1>1. Reading
  BY InitReading
<1>2. AllSummed
  BY DEF Init, AllSummed
<1>3. Ended /\ Dumped
  BY DEF Init, Ended, Dumped
<1> QED
  BY <1>1, <1>2, <1>3 DEF Inv

(* Each step keeps the invariant. *)
LEMMA InvStep ==
  ASSUME Inv, Next
  PROVE  Inv'
<1> USE DEF Inv
<1>1. Reading'
  BY ReadingStep
<1>2. attrs \in Seq(Attr) /\ opts \in Settings /\ TypeOK
  BY DEF Reading, TypeOK
<1>3. status = "running"
  BY <1>2, StepCases
<1>4. CASE Halt
  <2>1. AllSummed' /\ Dumped'
    BY <1>4, Zenon DEF Halt, AllSummed, Dumped
  <2>2. Ended'
    BY <1>4 DEF Halt, Ended
  <2> QED
    BY <1>1, <2>1, <2>2
<1>5. CASE Finish
  <2>1. AllSummed' /\ Dumped'
    BY <1>5, Zenon DEF Finish, AllSummed, Dumped
  <2>2. size \in Nat /\ bytes \in Seq(Byte) /\ Remaining \in Nat
    <3>1. size \in Nat
      BY <1>2, AttrStreamAssumption DEF TypeOK
    <3>2. bytes = Signature \o Flat(attrs)
      BY <1>5 DEF Finish, Reading, Consumed
    <3>3. bytes \in Seq(Byte)
      BY <1>2, <3>2, SignatureBytes, FlatBytes, ConcatTyped
    <3>4. Len(bytes) \in Nat /\ Len(bytes) <= size
      BY <1>2, <3>3 DEF TypeOK
    <3> QED
      BY <3>1, <3>3, <3>4 DEF Remaining
  <2>3. opts.src \in Sources
    BY <1>2, AttrStreamAssumption
  <2>4. Remaining' = Remaining
    BY <1>5 DEF Finish, Remaining
  <2>5. Minimum \in Nat \ {0}
    BY AttrStreamAssumption
  <2>6. CASE pc = "data_left" /\ Garbage
    <3>1. opts.src # "stdin" /\ DataLeft \in 1 .. Minimum - 1
      BY <2>6 DEF Garbage
    <3>2. opts.src # "pipe" => Remaining \in 1 .. Minimum - 1
      BY <3>1 DEF DataLeft
    <3>3. opts.src # "pipe" => Remaining \in 0 .. Minimum - 1
      BY <2>2, <3>2
    <3> QED
      BY <1>1, <1>5, <2>1, <2>4, <2>6, <3>1, <3>3 DEF Finish, Ended
  <2>7. CASE pc = "read_object" /\ Remaining = 0
    <3>1. Remaining \in 0 .. Minimum - 1
      BY <2>5, <2>7
    <3> QED
      BY <1>1, <1>5, <2>1, <2>4, <2>7, <3>1 DEF Finish, Ended
  <2> QED
    BY <1>5, <2>6, <2>7 DEF Finish
<1>6. CASE SignatureRead
  <2>1. AllSummed' /\ Dumped'
    BY <1>6 DEF SignatureRead, AllSummed, Dumped
  <2>2. Ended'
    BY <1>3, <1>6 DEF SignatureRead, Ended
  <2> QED
    BY <1>1, <2>1, <2>2
<1>7. CASE LookOn
  <2>1. AllSummed' /\ Dumped'
    BY <1>7 DEF LookOn, AllSummed, Dumped
  <2>2. Ended'
    BY <1>3, <1>7 DEF LookOn, Ended
  <2> QED
    BY <1>1, <2>1, <2>2
<1>8. ASSUME NEW h \in Header, HeaderRead(h) PROVE Inv'
  <2>1. AllSummed' /\ Dumped'
    BY <1>8 DEF HeaderRead, AllSummed, Dumped
  <2>2. Ended'
    BY <1>3, <1>8 DEF HeaderRead, Ended
  <2> QED
    BY <1>1, <2>1, <2>2
<1>9. ASSUME NEW a \in Attr, BodyRead(a) PROVE Inv'
  <2>1. opts' = opts /\ access' = access /\ status' = "running"
    BY <1>3, <1>9 DEF BodyRead
  <2>2. Ended'
    BY <2>1 DEF Ended
  <2>3. CASE opts.debug
    <3>1. pc' = "dump" /\ attr' = a /\ attrs' = attrs
      BY <1>9, <2>3 DEF BodyRead
    <3>2. AllSummed'
      <4>1. opts.skip \/ Summed(a)
        BY <1>9 DEF BodyRead
      <4>2. Summed(attr') <=> Summed(a)
        BY <3>1
      <4> QED
        BY <2>1, <3>1, <4>1, <4>2 DEF AllSummed
    <3>3. Dumped'
      BY <2>1, <2>3, <3>1 DEF Dumped
    <3> QED
      BY <1>1, <2>2, <3>2, <3>3
  <2>4. CASE ~opts.debug
    <3>1. pc' = "data_left" /\ attrs' = Append(attrs, a)
      BY <1>9, <2>4 DEF BodyRead
    <3>2. AllSummed'
      <4>1. CASE opts.skip
        BY <2>1, <4>1 DEF AllSummed
      <4>2. CASE ~opts.skip
        <5>1. Summed(a) /\ \A i \in DOMAIN attrs : Summed(attrs[i])
          BY <1>9, <4>2 DEF BodyRead, AllSummed
        <5>2. \A i \in DOMAIN attrs' :
                attrs'[i] = a \/ (i \in DOMAIN attrs /\ attrs'[i] = attrs[i])
          BY <1>2, <3>1, AppendLast
        <5>3. \A i \in DOMAIN attrs' : Summed(attrs'[i])
          BY <5>1, <5>2, Zenon
        <5> QED
          BY <2>1, <3>1, <5>3 DEF AllSummed
      <4> QED
        BY <4>1, <4>2
    <3>3. Dumped'
      BY <2>1, <2>4, <3>1 DEF Dumped
    <3> QED
      BY <1>1, <2>2, <3>2, <3>3
  <2> QED
    BY <2>3, <2>4
<1>10. CASE DumpDone
  <2>1. pc = "dump" /\ attr \in Attr /\ attrs' = Append(attrs, attr)
        /\ opts' = opts /\ pc' = "data_left" /\ access' = Reads /\ Demands
        /\ status' = status
    BY <1>2, <1>10 DEF DumpDone, TypeOK
  <2>2. Ended'
    BY <1>3, <2>1 DEF Ended
  <2>3. AllSummed'
    <3>1. CASE opts.skip
      BY <2>1, <3>1 DEF AllSummed
    <3>2. CASE ~opts.skip
      <4>1. Summed(attr) /\ \A i \in DOMAIN attrs : Summed(attrs[i])
        BY <2>1, <3>2 DEF AllSummed
      <4>2. \A i \in DOMAIN attrs' :
              attrs'[i] = attr \/ (i \in DOMAIN attrs /\ attrs'[i] = attrs[i])
        BY <1>2, <2>1, AppendLast
      <4>3. \A i \in DOMAIN attrs' : Summed(attrs'[i])
        BY <4>1, <4>2, Zenon
      <4> QED
        BY <2>1, <4>3 DEF AllSummed
    <3> QED
      BY <3>1, <3>2
  <2>4. opts.debug
    BY <2>1 DEF Dumped
  <2>5. Dumped'
    <3>1. \A x \in access' : x.at + x.size <= Bound(attr)
      BY <2>1, ReadsInBuffer
    <3>2. attrs' # <<>> /\ Last(attrs') = attr
      BY <1>2, <2>1, AppendLast
    <3> QED
      BY <2>1, <2>4, <3>1, <3>2 DEF Dumped, Bound
  <2> QED
    BY <1>1, <2>2, <2>3, <2>5
<1> QED
  BY <1>2, <1>4, <1>5, <1>6, <1>7, <1>8, <1>9, <1>10, StepCases

(* The invariant the theorems below follow from. *)
THEOREM Invariant == Spec => []Inv
<1>1. Inv /\ UNCHANGED vars => Inv'
  <2> SUFFICES ASSUME Inv, UNCHANGED vars PROVE Inv'
    OBVIOUS
  <2>1. Reading'
    BY DEF Inv, Reading, TypeOK, Consumed, vars
  <2>2. AllSummed' /\ Dumped'
    BY Zenon DEF Inv, AllSummed, Dumped, vars
  <2>3. Ended'
    BY Zenon DEF Inv, Ended, Remaining, vars
  <2> QED
    BY <2>1, <2>2, <2>3 DEF Inv
<1> QED
  BY InvInit, InvStep, <1>1, PTL DEF Spec

(* The variables keep their types, no more is read than there is, and a    *)
(* header or an attribute is held exactly where the loop holds one.        *)
THEOREM Typed == Spec => []TypeOK
<1>1. Inv => TypeOK
  BY DEF Inv, Reading
<1> QED
  BY Invariant, <1>1, PTL

(* The attributes handed to parse_file are what was read, in its order,    *)
(* and each has its checksum (attr_read, check_checksum, attr_dump).       *)
THEOREM AsRead == Spec => []AttributesAsRead
<1>1. Inv => AttributesAsRead
  <2> SUFFICES ASSUME Inv PROVE AttributesAsRead
    OBVIOUS
  <2>1. pc \in {"data_left", "read_object"} => bytes = Signature \o Flat(attrs)
    BY DEF Inv, Reading, Consumed
  <2>2. opts.skip \/ \A i \in DOMAIN attrs : Summed(attrs[i])
    BY DEF Inv, AllSummed
  <2>3. Flat(attrs) = FlattenSeq([i \in DOMAIN attrs |-> Encoding(attrs[i])])
    BY DEF Flat, Encodings
  <2> QED
    BY <2>1, <2>2, <2>3, Zenon DEF AttributesAsRead, Summed
<1> QED
  BY Invariant, <1>1, PTL

(* A run that comes to the bodies leaves at most Minimum - 1 bytes of a    *)
(* file undecoded, be they a cut attribute or not, and none of a standard  *)
(* input (data_left, read_object, getbuf).                                 *)
THEOREM LittleLeft == Spec => []LittleLeftUndecoded
<1>1. Inv => LittleLeftUndecoded
  <2> SUFFICES ASSUME Inv, status = "ok", opts.src # "pipe"
               PROVE  /\ size - Len(Signature) - Len(Flat(attrs))
                           \in 0 .. Minimum - 1
                      /\ opts.src = "stdin" =>
                           size - Len(Signature) - Len(Flat(attrs)) = 0
    BY Zenon DEF LittleLeftUndecoded, Flat, Encodings
  <2>1. /\ bytes = Signature \o Flat(attrs)
        /\ Remaining \in 0 .. Minimum - 1
        /\ opts.src = "stdin" => Remaining = 0
    BY DEF Inv, Ended, Reading, Consumed
  <2>2. attrs \in Seq(Attr) /\ size \in Nat
    BY AttrStreamAssumption DEF Inv, Reading, TypeOK
  <2>3. Flat(attrs) \in Seq(Byte) /\ Signature \in Seq(Byte)
    BY <2>2, FlatBytes, SignatureBytes
  <2>4. PICK s \in Seq(Byte), f \in Seq(Byte) :
          s = Signature /\ f = Flat(attrs)
    BY <2>3
  <2>5. Len(s \o f) = Len(s) + Len(f) /\ Len(s) \in Nat /\ Len(f) \in Nat
    OBVIOUS
  <2>6. Remaining = size - (Len(s) + Len(f))
    BY <2>1, <2>4, <2>5 DEF Remaining
  <2> QED
    BY <2>1, <2>2, <2>4, <2>5, <2>6
<1> QED
  BY Invariant, <1>1, PTL

(* A dump reads nothing behind the NUL of the buffer, except the rest of a *)
(* last DWORD and the eight bytes of a code page, whatever is there of it  *)
(* (attr_dump).                                                            *)
THEOREM InBuffer == Spec => []DumpInBuffer
<1>1. Inv => DumpInBuffer
  BY Zenon DEF Inv, Dumped, DumpInBuffer, Bound
<1> QED
  BY Invariant, <1>1, PTL

-----------------------------------------------------------------------------
(* How much work there may be *)

Rank(at) ==
  IF at \in {"read_object", "body"} THEN 1 ELSE IF at = "data_left" THEN 2 ELSE 3

Counted ==
  /\ StepsLeft \in Nat
  /\ status = "running" =>
       Remaining \in Nat /\ StepsLeft = 3 * Remaining + Rank(pc)

LEMMA StepsLeftCounted == Reading => Counted
<1> SUFFICES ASSUME Reading PROVE Counted
  OBVIOUS
<1>1. /\ size \in Nat /\ Len(bytes) <= size
      /\ pc \in {"signature", "data_left", "read_object", "body", "dump"}
  BY AttrStreamAssumption DEF Reading, TypeOK
<1>2. Len(bytes) \in Nat
  BY BytesTyped
<1>3. PICK r \in Nat : r = Remaining
  BY <1>1, <1>2 DEF Remaining
<1>4. StepsLeft = IF status # "running" THEN 0 ELSE 3 * r + Rank(pc)
  BY <1>1, <1>3 DEF StepsLeft, Rank
<1>5. Rank(pc) \in Nat
  BY DEF Rank
<1> QED
  BY <1>3, <1>4, <1>5 DEF Counted

(* A step that goes on reads n bytes, and its new place has less than      *)
(* three steps for each of them more to go than the old one.               *)
Takes(n) ==
  /\ Len(bytes') = Len(bytes) + n
  /\ Rank(pc') < 3 * n + Rank(pc)

LEMMA StepTakes ==
  ASSUME Reading, Next, status' = "running"
  PROVE  /\ size' = size
         /\ \E n \in Nat : Takes(n)
<1>1. TypeOK
  BY DEF Reading
<1>2. Len(bytes) \in Nat /\ bytes \in Seq(Byte)
  BY BytesTyped
<1>3. ~Halt /\ ~Finish
  BY DEF Halt, Finish
<1>4. CASE SignatureRead
  <2>1. bytes = <<>> /\ pc = "signature" /\ pc' = "data_left"
        /\ bytes' = Signature /\ size' = size
    BY <1>4 DEF SignatureRead, Reading, Consumed
  <2>2. PICK n \in Nat : n = Len(Signature)
    BY SignatureBytes
  <2>3. Len(bytes') = Len(bytes) + n
    BY <2>1, <2>2
  <2>4. Rank(pc) = 3 /\ Rank(pc') = 2
    BY <2>1 DEF Rank
  <2>5. Takes(n)
    BY <2>3, <2>4 DEF Takes
  <2> QED
    BY <2>1, <2>5, Zenon
<1>5. CASE LookOn
  <2>1. /\ pc = "data_left" /\ pc' = "read_object"
        /\ bytes' = bytes /\ size' = size
    BY <1>5 DEF LookOn
  <2>2. Len(bytes') = Len(bytes) + 0
    BY <1>2, <2>1
  <2>3. Rank(pc) = 2 /\ Rank(pc') = 1
    BY <2>1 DEF Rank
  <2>4. Takes(0)
    BY <2>2, <2>3 DEF Takes
  <2>5. 0 \in Nat
    OBVIOUS
  <2> QED
    BY <2>1, <2>4, <2>5, Zenon
<1>6. CASE \E h \in Header : HeaderRead(h)
  <2>1. PICK h \in Header : HeaderRead(h)
    BY <1>6
  <2>2. /\ pc = "read_object" /\ pc' = "body"
        /\ bytes' = bytes \o HeaderBytes(h) /\ size' = size
    BY <2>1 DEF HeaderRead
  <2>3. HeaderBytes(h) \in Seq(Byte) /\ Len(HeaderBytes(h)) = 4
    BY HeaderBytesTyped DEF HeaderSize
  <2>4. Len(bytes') = Len(bytes) + 4
    BY <1>2, <2>2, <2>3, ConcatTyped
  <2>5. Rank(pc) = 1 /\ Rank(pc') = 1
    BY <2>2 DEF Rank
  <2>6. Takes(4)
    BY <2>4, <2>5 DEF Takes
  <2>7. 4 \in Nat
    OBVIOUS
  <2> QED
    BY <2>2, <2>6, <2>7, Zenon
<1>7. CASE \E a \in Attr : BodyRead(a)
  <2>1. PICK a \in Attr : BodyRead(a)
    BY <1>7
  <2>2. PICK m \in Nat : m = Len(a.buf) /\ Len(bytes') = Len(bytes) + (m + 1)
    BY <2>1, BodyBytes
  <2>3. pc = "body" /\ pc' \in {"dump", "data_left"} /\ size' = size
    BY <2>1 DEF BodyRead
  <2>4. Rank(pc) = 1 /\ Rank(pc') \in {2, 3}
    BY <2>3 DEF Rank
  <2>5. PICK n \in Nat : n = m + 1
    OBVIOUS
  <2>6. Takes(n)
    BY <2>2, <2>4, <2>5 DEF Takes
  <2> QED
    BY <2>3, <2>6, Zenon
<1>8. CASE DumpDone
  <2>1. /\ pc = "dump" /\ pc' = "data_left"
        /\ bytes' = bytes /\ size' = size
    BY <1>8 DEF DumpDone
  <2>2. Len(bytes') = Len(bytes) + 0
    BY <1>2, <2>1
  <2>3. Rank(pc) = 3 /\ Rank(pc') = 2
    BY <2>1 DEF Rank
  <2>4. Takes(0)
    BY <2>2, <2>3 DEF Takes
  <2>5. 0 \in Nat
    OBVIOUS
  <2> QED
    BY <2>1, <2>4, <2>5, Zenon
<1> QED
  BY <1>1, <1>3, <1>4, <1>5, <1>6, <1>7, <1>8, StepCases

LEMMA NextShortens ==
  ASSUME Reading, Counted, Counted', Next
  PROVE  StepsLeft' < StepsLeft
<1>1. status = "running"
  BY DEF Next
<1>2. PICK r \in Nat : r = Remaining /\ StepsLeft = 3 * r + Rank(pc)
  BY <1>1 DEF Counted
<1>3. PICK k \in 1 .. 3 : k = Rank(pc)
  BY DEF Rank
<1>4. CASE status' # "running"
  <2>1. StepsLeft' = 0
    BY <1>4 DEF StepsLeft
  <2> QED
    BY <1>2, <1>3, <2>1
<1>5. CASE status' = "running"
  <2>1. PICK q \in Nat : q = Remaining' /\ StepsLeft' = 3 * q + Rank(pc')
    BY <1>5 DEF Counted, Rank
  <2>2. PICK l \in 1 .. 3 : l = Rank(pc')
    BY DEF Rank
  <2>3. PICK n \in Nat : Takes(n)
    BY <1>5, StepTakes, Zenon
  <2>4. size' = size
    BY <1>5, StepTakes, Zenon
  <2>5. size \in Nat /\ Len(bytes) \in Nat
    BY AttrStreamAssumption, BytesTyped DEF Reading, TypeOK
  <2>6. q = r - n
    BY <1>2, <2>1, <2>3, <2>4, <2>5 DEF Remaining, Takes
  <2> QED
    BY <1>2, <1>3, <2>1, <2>2, <2>3, <2>6 DEF Takes
<1> QED
  BY <1>4, <1>5

(* Three steps for each byte of the input are the most a run can take,     *)
(* whatever the bytes are: none of its loops goes round without reading.   *)
THEOREM WorkIsBounded == Spec => StepsBounded
<1>1. Inv => Reading
  BY DEF Inv
<1>2. Reading' => Counted'
  BY StepsLeftCounted, PTL
<1>3. ASSUME Reading, Reading', [Next]_vars
      PROVE  [StepsLeft' \in Nat /\ StepsLeft' < StepsLeft]_vars
  <2>1. CASE UNCHANGED vars
    BY <2>1
  <2>2. CASE Next
    <3>1. StepsLeft' < StepsLeft
      BY <1>2, <1>3, <2>2, StepsLeftCounted, NextShortens
    <3>2. StepsLeft' \in Nat
      BY <1>2, <1>3 DEF Counted
    <3> QED
      BY <3>1, <3>2
  <2> QED
    BY <1>3, <2>1, <2>2
<1> QED
  BY <1>1, <1>3, Invariant, PTL DEF Spec, StepsBounded
=============================================================================
