--------------------------- MODULE DataInduction ---------------------------
(***************************************************************************)
(* Induction over data: what the recursive operators of the community      *)
(* modules that the models use compute, for every argument.  The prover    *)
(* instantiates no operator parameter, so induction goes over the set of   *)
(* the numbers that have the property (NatSets), and a recursive function  *)
(* is known by its equation once one that satisfies it is shown to exist.  *)
(***************************************************************************)
EXTENDS Integers, SequencesExt, FiniteSetTheorems, WellFoundedInduction, TLAPS

-----------------------------------------------------------------------------
(* Numbers *)

(* A set of numbers that is not empty has a least. *)
LEMMA LeastElement ==
  ASSUME NEW S \in SUBSET Nat, S # {}
  PROVE \E x \in S : \A y \in S : x <= y
<1> DEFINE R == {ss \in Nat \X Nat : ss[1] < ss[2]}
<1>1. IsWellFoundedOn(R, Nat)
  BY NatLessThanWellFounded DEF OpToRel
<1> HIDE DEF R
<1>2. PICK x \in S : \A y \in S : ~(<<y, x>> \in R)
  BY <1>1, WFMin
<1>3. ASSUME NEW y \in S, y < x PROVE <<y, x>> \in R
  BY <1>3 DEF R
<1>4. ASSUME NEW y \in S PROVE x <= y
  <2>1. x \in Nat /\ y \in Nat
    OBVIOUS
  <2>2. ~(y < x)
    BY <1>2, <1>3
  <2> QED
    BY <2>1, <2>2
<1> QED
  BY <1>4

(* Induction: a set with 0 and with the successor of each of its numbers   *)
(* holds them all.                                                         *)
LEMMA NatSets ==
  ASSUME NEW S, 0 \in S, \A n \in Nat : n \in S => n + 1 \in S
  PROVE Nat \subseteq S
<1>1. SUFFICES ASSUME Nat \ S # {} PROVE FALSE
  OBVIOUS
<1>2. PICK x \in Nat \ S : \A y \in Nat \ S : x <= y
  BY <1>1, LeastElement
<1> QED
  BY <1>2

(* A set of numbers that is bounded and not empty has a greatest. *)
LEMMA GreatestElement ==
  ASSUME NEW n \in Nat, NEW S \in SUBSET (1 .. n), S # {}
  PROVE  \E x \in S : \A y \in S : y <= x
<1> DEFINE T == {k \in Nat : \E y \in S : k + y = n}
<1>1. T \in SUBSET Nat /\ T # {}
  <2>1. PICK y \in S : TRUE
    OBVIOUS
  <2>2. n - y \in Nat /\ (n - y) + y = n
    BY <2>1
  <2> QED
    BY <2>1, <2>2
<1>2. PICK k \in T : \A l \in T : k <= l
  <2> HIDE DEF T
  <2> QED
    BY <1>1, LeastElement
<1>3. PICK x \in S : k + x = n
  OBVIOUS
<1>4. ASSUME NEW y \in S PROVE y <= x
  <2>1. n - y \in Nat /\ (n - y) + y = n
    OBVIOUS
  <2>2. k <= n - y
    BY <1>2, <2>1
  <2> QED
    BY <1>3, <2>2
<1> QED
  BY <1>4

(* Max takes the greatest. *)
LEMMA MaxIs ==
  ASSUME NEW S \in SUBSET Nat, NEW x \in S, \A y \in S : y <= x
  PROVE  Max(S) = x
<1>1. \E z \in S : \A y \in S : z >= y
  OBVIOUS
<1>2. Max(S) \in S /\ \A y \in S : Max(S) >= y
  BY <1>1, Zenon DEF Max
<1>3. PICK z \in Nat : z = Max(S)
  BY <1>2
<1>4. z <= x /\ x <= z
  BY <1>2, <1>3
<1> QED
  BY <1>3, <1>4

(* The greatest of numbers below m, and of those and m. *)
LEMMA MaxGrows ==
  ASSUME NEW m \in Nat \ {0}, NEW I \in SUBSET (1 .. m - 1)
  PROVE  Max(I \cup {m}) = m /\ (I # {} => Max(I) \in I)
<1>1. Max(I \cup {m}) = m
  <2> DEFINE J == I \cup {m}
  <2>1. J \in SUBSET Nat /\ m \in J /\ \A i \in J : i <= m
    OBVIOUS
  <2> HIDE DEF J
  <2>2. Max(J) = m
    BY <2>1, MaxIs
  <2> QED
    BY <2>2 DEF J
<1>2. ASSUME I # {} PROVE Max(I) \in I
  <2>1. m - 1 \in Nat /\ I \in SUBSET Nat
    OBVIOUS
  <2>2. PICK x \in I : \A y \in I : y <= x
    BY <1>2, <2>1, GreatestElement
  <2> QED
    BY <2>1, <2>2, MaxIs
<1> QED
  BY <1>1, <1>2

(* The greatest of the positions I of a sequence of n elements, where J are *)
(* those of its tail.                                                      *)
PlacesOf(n, I, J) ==
  /\ J = {} => I = IF 1 \in I THEN {1} ELSE {}
  /\ 1 \in I /\ J = {} => Max(I) = 1
  /\ J # {} => /\ I # {} /\ Max(J) \in 1 .. n - 1
               /\ Max(I) = Max(J) + 1

LEMMA TailMax ==
  ASSUME NEW n \in Nat \ {0},
         NEW I \in SUBSET (1 .. n), NEW J \in SUBSET (1 .. n - 1),
         \A j \in 1 .. n - 1 : j \in J <=> j + 1 \in I
  PROVE  PlacesOf(n, I, J)
<1>1. I \in SUBSET Nat /\ J \in SUBSET Nat /\ n - 1 \in Nat
  OBVIOUS
<1>2. ASSUME NEW i \in I PROVE i = 1 \/ i - 1 \in J
  <2>1. CASE i # 1
    <3>1. PICK j \in 1 .. n - 1 : j = i - 1 /\ j + 1 = i
      BY <2>1
    <3> QED
      BY <3>1
  <2> QED
    BY <2>1
<1>3. J = {} => I = IF 1 \in I THEN {1} ELSE {}
  BY <1>2
<1>4. ASSUME 1 \in I, J = {} PROVE Max(I) = 1
  <2>1. \A i \in I : i <= 1
    BY <1>2, <1>4
  <2> QED
    BY <1>1, <1>4, <2>1, MaxIs
<1>5. ASSUME J # {}
      PROVE  I # {} /\ Max(J) \in 1 .. n - 1 /\ Max(I) = Max(J) + 1
  <2>1. PICK t \in J : \A i \in J : i <= t
    BY <1>1, <1>5, GreatestElement
  <2>2. PICK u \in Nat : u = t + 1
    BY <1>1, <2>1
  <2>3. u \in I
    BY <2>1, <2>2
  <2>4. ASSUME NEW i \in I PROVE i <= u
    <3>1. i \in Nat /\ t \in Nat
      BY <1>1, <2>1
    <3>2. CASE i - 1 \in J
      <4>1. i - 1 <= t
        BY <2>1, <3>2
      <4> QED
        BY <2>2, <3>1, <4>1
    <3>3. CASE i = 1
      BY <2>2, <3>1, <3>3
    <3> QED
      BY <1>2, <3>2, <3>3
  <2>5. Max(I) = u /\ Max(J) = t
    BY <1>1, <2>1, <2>3, <2>4, MaxIs
  <2> QED
    BY <2>1, <2>2, <2>3, <2>5
<1> QED
  BY <1>3, <1>4, <1>5 DEF PlacesOf

(* The remainder is the one below the divisor. *)
LEMMA Remainder ==
  ASSUME NEW a \in Int, NEW m \in Nat \ {0}, NEW q \in Int,
         NEW r \in 0 .. m - 1, a = m * q + r
  PROVE  a % m = r
  OBVIOUS

(* Division with remainder. *)
LEMMA Division ==
  ASSUME NEW m \in Nat \ {0}
  PROVE  \A a \in Nat : \E q \in Nat, r \in 0 .. m - 1 : a = m * q + r
<1> DEFINE Good == {a \in Nat : \E q \in Nat, r \in 0 .. m - 1 : a = m * q + r}
<1>1. 0 \in Good
  <2>1. 0 = m * 0 + 0 /\ 0 \in 0 .. m - 1
    OBVIOUS
  <2> QED
    BY <2>1
<1>2. ASSUME NEW a \in Nat, a \in Good PROVE a + 1 \in Good
  <2>1. PICK q \in Nat, r \in 0 .. m - 1 : a = m * q + r
    BY <1>2
  <2>2. CASE r + 1 < m
    <3>1. a + 1 = m * q + (r + 1) /\ r + 1 \in 0 .. m - 1
      BY <2>1, <2>2
    <3> QED
      BY <3>1
  <2>3. CASE r + 1 = m
    <3>1. m * (q + 1) = m * q + m
      OBVIOUS
    <3>2. q + 1 \in Nat /\ 0 \in 0 .. m - 1
      OBVIOUS
    <3>3. a + 1 = m * (q + 1) + 0
      <4>1. a + 1 = m * q + m
        BY <2>1, <2>3
      <4> QED
        BY <3>1, <4>1
    <3>4. \E q1 \in Nat, r1 \in 0 .. m - 1 : a + 1 = m * q1 + r1
      BY <3>2, <3>3
    <3> QED
      BY <3>4
  <2> QED
    BY <2>1, <2>2, <2>3
<1> HIDE DEF Good
<1>3. Nat \subseteq Good
  BY <1>1, <1>2, NatSets
<1> QED
  BY <1>3 DEF Good

(* The remainder of a sum may be taken of a summand first. *)
LEMMA ModAdd ==
  ASSUME NEW a \in Nat, NEW b \in Nat, NEW m \in Nat \ {0}
  PROVE  ((a % m) + b) % m = (a + b) % m
<1>1. PICK p \in Nat, r \in 0 .. m - 1 : a = m * p + r
  BY Division
<1>2. a % m = r
  BY <1>1, Remainder
<1>3. r + b \in Nat
  OBVIOUS
<1>4. PICK q \in Nat, s \in 0 .. m - 1 : r + b = m * q + s
  BY <1>3, Division
<1>5. (r + b) % m = s
  <2>1. r + b \in Int /\ q \in Int
    OBVIOUS
  <2> QED
    BY <1>4, <2>1, Remainder
<1>6. p + q \in Int /\ a + b \in Int
  OBVIOUS
<1>7. m * (p + q) = m * p + m * q
  OBVIOUS
<1>8. a + b = m * (p + q) + s
  BY <1>1, <1>4, <1>7
<1>9. (a + b) % m = s
  BY <1>4, <1>6, <1>8, Remainder
<1> QED
  BY <1>2, <1>5, <1>9

-----------------------------------------------------------------------------
(* FlattenSeq *)

(* There is a function that joins the first i sequences. *)
LEMMA JoinExists ==
  ASSUME NEW ss
  PROVE  \A n \in Nat :
           \E f : f = [i \in 1 .. n |->
                         IF i = 1 THEN ss[i] ELSE f[i - 1] \o ss[i]]
<1> DEFINE Good ==
      {n \in Nat : \E f : f = [i \in 1 .. n |->
                                 IF i = 1 THEN ss[i] ELSE f[i - 1] \o ss[i]]}
<1>1. 0 \in Good
  <2> DEFINE g == [i \in 1 .. 0 |-> 0]
  <2>1. g = [i \in 1 .. 0 |-> IF i = 1 THEN ss[i] ELSE g[i-1] \o ss[i]]
    OBVIOUS
  <2>2. \E f : f = [i \in 1 .. 0 |-> IF i = 1 THEN ss[i] ELSE f[i-1] \o ss[i]]
    BY <2>1
  <2> QED
    BY <2>2
<1>2. ASSUME NEW n \in Nat, n \in Good PROVE n + 1 \in Good
  <2>1. PICK f : f = [i \in 1 .. n |->
                        IF i = 1 THEN ss[i] ELSE f[i - 1] \o ss[i]]
    BY <1>2
  <2> DEFINE g == [i \in 1 .. n + 1 |->
                     IF i <= n THEN f[i]
                     ELSE IF i = 1 THEN ss[i] ELSE f[i - 1] \o ss[i]]
  <2>2. g = [i \in 1 .. n + 1 |-> IF i = 1 THEN ss[i] ELSE g[i-1] \o ss[i]]
    <3>1. ASSUME NEW i \in 1 .. n + 1
          PROVE g[i] = IF i = 1 THEN ss[i] ELSE g[i - 1] \o ss[i]
      <4>1. CASE i <= n
        <5>1. f[i] = IF i = 1 THEN ss[i] ELSE f[i-1] \o ss[i]
          <6>1. i \in 1 .. n
            BY <4>1
          <6> QED
            BY <2>1, <6>1, Zenon
        <5>2. i = 1 \/ (i - 1 \in 1 .. n /\ i - 1 \in 1 .. n + 1)
          BY <4>1
        <5> QED
          BY <5>1, <5>2, <4>1
      <4>2. CASE i = n + 1
        <5>2. i = 1 \/ (i - 1 \in 1 .. n /\ i - 1 \in 1 .. n + 1)
          BY <4>2
        <5> QED
          BY <4>2, <5>2
      <4> QED
        BY <4>1, <4>2
    <3> QED
      BY <3>1
  <2>3. \E h : h = [i \in 1 .. n + 1 |->
                      IF i = 1 THEN ss[i] ELSE h[i - 1] \o ss[i]]
    <3> HIDE DEF g
    <3> QED
      BY <2>2
  <2>4. n + 1 \in Nat
    OBVIOUS
  <2> QED
    BY <2>3, <2>4, Zenon
<1> HIDE DEF Good
<1>3. Nat \subseteq Good
  BY <1>1, <1>2, NatSets
<1> QED
  BY <1>3 DEF Good

Joins(ss, f) ==
  f = [i \in 1 .. Len(ss) |-> IF i = 1 THEN ss[i] ELSE f[i-1] \o ss[i]]

(* FlattenSeq takes the last of the joined sequences. *)
LEMMA FlattenJoins ==
  ASSUME NEW ss, Len(ss) \in Nat \ {0}
  PROVE  \E f : Joins(ss, f) /\ FlattenSeq(ss) = f[Len(ss)]
<1>1. \E f : Joins(ss, f)
  BY JoinExists DEF Joins
<1>2. Joins(ss, CHOOSE f : Joins(ss, f))
  BY <1>1
<1>3. FlattenSeq(ss) = (CHOOSE f : Joins(ss, f))[Len(ss)]
  BY DEF FlattenSeq, Joins
<1> QED
  BY <1>2, <1>3

(* The joined sequences, each the one before and the next part. *)
JoinedStepwise(U, ss, f) ==
  /\ \A i \in 1 .. Len(ss) : f[i] \in Seq(U)
  /\ Len(ss) > 0 => f[1] = ss[1]
  /\ \A i \in 1 .. Len(ss) : i > 1 => f[i] = f[i - 1] \o ss[i]

(* Each joined sequence is the one before it and one more. *)
LEMMA JoinSteps ==
  ASSUME NEW U, NEW ss \in Seq(Seq(U)), NEW f, Joins(ss, f)
  PROVE  JoinedStepwise(U, ss, f)
<1>1. \A i \in 1 .. Len(ss) :
        f[i] = IF i = 1 THEN ss[i] ELSE f[i - 1] \o ss[i]
  BY DEF Joins
<1> DEFINE Good == {i \in Nat : i \in 1 .. Len(ss) => f[i] \in Seq(U)}
<1>2. 0 \in Good
  OBVIOUS
<1>3. ASSUME NEW i \in Nat, i \in Good PROVE i + 1 \in Good
  <2>1. SUFFICES ASSUME i + 1 \in 1 .. Len(ss) PROVE f[i + 1] \in Seq(U)
    OBVIOUS
  <2>2. ss[i + 1] \in Seq(U)
    BY <2>1
  <2>3. CASE i = 0
    BY <1>1, <2>1, <2>2, <2>3
  <2>4. CASE i # 0
    <3>1. i \in 1 .. Len(ss)
      BY <2>1, <2>4
    <3>2. f[i] \in Seq(U)
      BY <1>3, <3>1
    <3>3. f[i + 1] = f[i] \o ss[i + 1]
      <4>1. PICK j \in 1 .. Len(ss) : j = i + 1
        BY <2>1
      <4>2. j # 1 /\ j - 1 = i
        BY <2>4, <4>1
      <4>3. f[j] = IF j = 1 THEN ss[j] ELSE f[j - 1] \o ss[j]
        BY <1>1, Zenon
      <4> QED
        BY <4>1, <4>2, <4>3, Zenon
    <3> QED
      BY <2>2, <3>2, <3>3
  <2> QED
    BY <2>3, <2>4
<1> HIDE DEF Good
<1>4. Nat \subseteq Good
  BY <1>2, <1>3, NatSets
<1>5. \A i \in 1 .. Len(ss) : f[i] \in Seq(U)
  BY <1>4 DEF Good
<1>6. ASSUME Len(ss) > 0 PROVE f[1] = ss[1]
  <2>1. 1 \in 1 .. Len(ss)
    BY <1>6
  <2> QED
    BY <1>1, <2>1, Zenon
<1>7. ASSUME NEW i \in 1 .. Len(ss), i > 1
      PROVE f[i] = f[i - 1] \o ss[i]
  <2>1. i # 1
    BY <1>7
  <2> QED
    BY <1>1, <2>1, Zenon
<1> QED
  BY <1>5, <1>6, <1>7, Zenon DEF JoinedStepwise

(* FlattenSeq joins sequences to a sequence, and one appended to its       *)
(* argument comes last.                                                    *)
LEMMA FlattenAppend ==
  ASSUME NEW U, NEW ss \in Seq(Seq(U)), NEW s \in Seq(U)
  PROVE  /\ FlattenSeq(ss) \in Seq(U)
         /\ FlattenSeq(Append(ss, s)) = FlattenSeq(ss) \o s
<1> DEFINE n == Len(ss)
<1> DEFINE tt == Append(ss, s)
<1>1. /\ n \in Nat /\ tt \in Seq(Seq(U)) /\ Len(tt) = n + 1
      /\ tt[n + 1] = s /\ \A i \in 1 .. n : tt[i] = ss[i]
  OBVIOUS
<1> HIDE DEF tt
<1>2. PICK g : Joins(tt, g) /\ FlattenSeq(tt) = g[n + 1]
  BY <1>1, FlattenJoins
<1>3. /\ \A i \in 1 .. n + 1 : g[i] \in Seq(U)
      /\ n + 1 > 0 => g[1] = tt[1]
      /\ \A i \in 1 .. n + 1 : i > 1 => g[i] = g[i - 1] \o tt[i]
  <2>1. tt \in Seq(Seq(U)) /\ Joins(tt, g)
    BY <1>1, <1>2
  <2>2. JoinedStepwise(U, tt, g)
    BY <2>1, JoinSteps
  <2>3. Len(tt) = n + 1
    BY <1>1
  <2> QED
    BY <2>2, <2>3, Zenon DEF JoinedStepwise
<1>4. CASE n = 0
  <2>1. FlattenSeq(ss) = <<>>
    BY <1>4 DEF FlattenSeq
  <2>2. FlattenSeq(tt) = s
    BY <1>1, <1>2, <1>3, <1>4
  <2> QED
    BY <2>1, <2>2 DEF tt
<1>5. CASE n # 0
  <2>1. PICK f : Joins(ss, f) /\ FlattenSeq(ss) = f[n]
    BY <1>1, <1>5, FlattenJoins
  <2>2. /\ \A i \in 1 .. n : f[i] \in Seq(U)
        /\ n > 0 => f[1] = ss[1]
        /\ \A i \in 1 .. n : i > 1 => f[i] = f[i - 1] \o ss[i]
    <3>1. JoinedStepwise(U, ss, f)
      BY <2>1, JoinSteps
    <3> QED
      BY <3>1, Zenon DEF JoinedStepwise
  <2> DEFINE Good == {i \in Nat : i \in 1 .. n => f[i] = g[i]}
  <2>3. 0 \in Good
    OBVIOUS
  <2>4. ASSUME NEW i \in Nat, i \in Good PROVE i + 1 \in Good
    <3>1. SUFFICES ASSUME i + 1 \in 1 .. n PROVE f[i + 1] = g[i + 1]
      OBVIOUS
    <3>2. CASE i = 0
      BY <1>1, <1>3, <2>2, <3>1, <3>2
    <3>3. CASE i # 0
      <4>1. i \in 1 .. n /\ i + 1 \in 1 .. n + 1 /\ i + 1 > 1
        BY <3>1, <3>3, <1>1
      <4>2. f[i] = g[i]
        BY <2>4, <4>1
      <4>3. f[i + 1] = f[i] \o ss[i + 1]
        <5>1. PICK j \in 1 .. n : j = i + 1
          BY <3>1
        <5>2. j > 1 /\ j - 1 = i
          BY <3>3, <5>1
        <5>3. f[j] = f[j - 1] \o ss[j]
          BY <2>2, <5>2, Zenon
        <5> QED
          BY <5>1, <5>2, <5>3, Zenon
      <4>4. g[i + 1] = g[i] \o tt[i + 1]
        <5>1. PICK j \in 1 .. n + 1 : j = i + 1
          BY <4>1
        <5>2. j > 1 /\ j - 1 = i
          BY <3>3, <5>1
        <5>3. g[j] = g[j - 1] \o tt[j]
          BY <1>3, <5>2, Zenon
        <5> QED
          BY <5>1, <5>2, <5>3, Zenon
      <4>5. tt[i + 1] = ss[i + 1]
        BY <1>1, <3>1
      <4> QED
        BY <4>2, <4>3, <4>4, <4>5
    <3> QED
      BY <3>2, <3>3
  <2> HIDE DEF Good
  <2>5. Nat \subseteq Good
    BY <2>3, <2>4, NatSets
  <2>6. n \in Nat /\ n \in 1 .. n
    BY <1>1, <1>5
  <2>7. n \in Good
    BY <2>5, <2>6
  <2>8. f[n] = g[n] /\ f[n] \in Seq(U)
    BY <2>2, <2>6, <2>7 DEF Good
  <2>9. g[n + 1] = g[n] \o s
    <3>1. PICK j \in 1 .. n + 1 : j = n + 1
      BY <2>6
    <3>2. j > 1 /\ j - 1 = n
      BY <2>6, <3>1
    <3>3. g[j] = g[j - 1] \o tt[j]
      BY <1>3, <3>2, Zenon
    <3> QED
      BY <1>1, <3>1, <3>2, <3>3, Zenon
  <2> QED
    BY <1>2, <2>1, <2>8, <2>9 DEF tt
<1> QED
  BY <1>4, <1>5

(* The first elements of a sequence, and the next. *)
LEMMA OneElementMore ==
  ASSUME NEW w \in Nat, NEW g
  PROVE  [i \in 1 .. w + 1 |-> g[i]]
           = Append([i \in 1 .. w |-> g[i]], g[w + 1])
OBVIOUS

(* One element more of a sequence that is joined to another. *)
LEMMA JoinedAppend ==
  ASSUME NEW V, NEW s \in Seq(V), NEW c \in Nat, NEW g,
         \A m \in 1 .. c + 1 : g[m] \in V
  PROVE  /\ s \o [m \in 1 .. c |-> g[m]] \in Seq(V)
         /\ s \o [m \in 1 .. c + 1 |-> g[m]]
              = Append(s \o [m \in 1 .. c |-> g[m]], g[c + 1])
<1>1. PICK p : p = [m \in 1 .. c |-> g[m]]
  OBVIOUS
<1>2. PICK e \in V : e = g[c + 1]
  <2>1. c + 1 \in 1 .. c + 1
    OBVIOUS
  <2> QED
    BY <2>1
<1>3. p \in Seq(V)
  <2>1. \A m \in 1 .. c : m \in 1 .. c + 1
    OBVIOUS
  <2> QED
    BY <1>1, <2>1
<1>4. [m \in 1 .. c + 1 |-> g[m]] = Append(p, e)
  BY <1>1, <1>2, OneElementMore
<1>5. s \o Append(p, e) = Append(s \o p, e) /\ s \o p \in Seq(V)
  BY <1>3
<1> QED
  BY <1>1, <1>2, <1>4, <1>5, Zenon

-----------------------------------------------------------------------------
(* Sums over a sequence *)

Pick(s) == CHOOSE x \in s : TRUE

SumTable(S, buf, f) ==
  f = [s \in SUBSET S |->
         IF s = {} THEN 0 ELSE buf[Pick(s)] + f[s \ {Pick(s)}]]

RemainderTable(S, buf, m, f) ==
  f = [s \in SUBSET S |->
         IF s = {} THEN 0 ELSE (f[s \ {Pick(s)}] + buf[Pick(s)]) % m]

(* What is left of a set when an element is picked. *)
LEMMA Picked ==
  ASSUME NEW S, IsFiniteSet(S), NEW s \in SUBSET S, s # {}
  PROVE  /\ Pick(s) \in S /\ Pick(s) \in s
         /\ s \ {Pick(s)} \in SUBSET S
         /\ Cardinality(s) \in Nat /\ Cardinality(s \ {Pick(s)}) \in Nat
         /\ Cardinality(s) = Cardinality(s \ {Pick(s)}) + 1
<1>1. Pick(s) \in s
  BY DEF Pick
<1>2. IsFiniteSet(s)
  BY FS_Subset
<1>3. /\ IsFiniteSet(s \ {Pick(s)})
      /\ Cardinality(s \ {Pick(s)}) = Cardinality(s) - 1
  BY <1>1, <1>2, FS_RemoveElement
<1>4. Cardinality(s) \in Nat /\ Cardinality(s \ {Pick(s)}) \in Nat
  BY <1>2, <1>3, FS_CardinalityType
<1> QED
  BY <1>1, <1>3, <1>4

(* Induction over the finite subsets of a set. *)
LEMMA SubsetInduction ==
  ASSUME NEW S, IsFiniteSet(S), NEW G \in SUBSET (SUBSET S), {} \in G,
         \A s \in SUBSET S : s # {} /\ s \ {Pick(s)} \in G => s \in G
  PROVE  \A s \in SUBSET S : s \in G
<1> DEFINE Good ==
      {n \in Nat : \A s \in SUBSET S : Cardinality(s) = n => s \in G}
<1>1. 0 \in Good
  <2>1. ASSUME NEW s \in SUBSET S, Cardinality(s) = 0 PROVE s \in G
    <3>1. IsFiniteSet(s)
      BY FS_Subset
    <3>2. s = {}
      BY <2>1, <3>1, FS_EmptySet
    <3> QED
      BY <3>2
  <2> QED
    BY <2>1
<1>2. ASSUME NEW n \in Nat, n \in Good PROVE n + 1 \in Good
  <2>1. ASSUME NEW s \in SUBSET S, Cardinality(s) = n + 1 PROVE s \in G
    <3>1. s # {}
      <4>1. IsFiniteSet(s) /\ Cardinality(s) # 0
        BY <2>1, FS_Subset
      <4> QED
        BY <4>1, FS_EmptySet
    <3>2. /\ s \ {Pick(s)} \in SUBSET S
          /\ Cardinality(s \ {Pick(s)}) \in Nat
          /\ Cardinality(s) = Cardinality(s \ {Pick(s)}) + 1
      BY <3>1, Picked
    <3>3. Cardinality(s \ {Pick(s)}) = n
      BY <2>1, <3>2
    <3>4. s \ {Pick(s)} \in G
      BY <1>2, <3>2, <3>3
    <3> QED
      BY <3>1, <3>4
  <2>2. n + 1 \in Nat
    OBVIOUS
  <2> QED
    BY <2>1, <2>2, Zenon
<1> HIDE DEF Good
<1>3. Nat \subseteq Good
  BY <1>1, <1>2, NatSets
<1>4. ASSUME NEW s \in SUBSET S PROVE s \in G
  <2>1. Cardinality(s) \in Nat
    BY FS_Subset, FS_CardinalityType
  <2> QED
    BY <1>3, <2>1 DEF Good
<1> QED
  BY <1>4

(* There is a function that sums the elements of each set of places. *)
LEMMA SumTableExists ==
  ASSUME NEW S, IsFiniteSet(S), NEW buf
  PROVE  \E f : SumTable(S, buf, f)
<1> DEFINE Step(f, s) ==
             f[s] = IF s = {} THEN 0 ELSE buf[Pick(s)] + f[s \ {Pick(s)}]
<1> DEFINE Good ==
      {n \in Nat : \E f : /\ f = [s \in SUBSET S |-> f[s]]
                          /\ \A s \in SUBSET S :
                               Cardinality(s) <= n => Step(f, s)}
<1>1. 0 \in Good
  <2> DEFINE g == [s \in SUBSET S |-> 0]
  <2>1. ASSUME NEW s \in SUBSET S, Cardinality(s) <= 0 PROVE Step(g, s)
    <3>1. IsFiniteSet(s) /\ Cardinality(s) \in Nat
      BY FS_Subset, FS_CardinalityType
    <3>2. s = {}
      BY <2>1, <3>1, FS_EmptySet
    <3> QED
      BY <3>2
  <2>2. g = [s \in SUBSET S |-> g[s]]
    OBVIOUS
  <2> HIDE DEF g
  <2> QED
    BY <2>1, <2>2
<1>2. ASSUME NEW n \in Nat, n \in Good PROVE n + 1 \in Good
  <2>1. PICK f : /\ f = [s \in SUBSET S |-> f[s]]
                 /\ \A s \in SUBSET S : Cardinality(s) <= n => Step(f, s)
    BY <1>2
  <2> DEFINE g == [s \in SUBSET S |->
                     IF Cardinality(s) <= n THEN f[s]
                     ELSE buf[Pick(s)] + f[s \ {Pick(s)}]]
  <2>2. ASSUME NEW s \in SUBSET S, Cardinality(s) <= n + 1 PROVE Step(g, s)
    <3>1. CASE s = {}
      <4>1. Cardinality(s) <= n
        BY <3>1, FS_EmptySet
      <4>2. Step(f, s)
        BY <2>1, <4>1
      <4> QED
        BY <3>1, <4>1, <4>2
    <3>2. CASE s # {}
      <4>1. /\ s \ {Pick(s)} \in SUBSET S
            /\ Cardinality(s) \in Nat /\ Cardinality(s \ {Pick(s)}) \in Nat
            /\ Cardinality(s) = Cardinality(s \ {Pick(s)}) + 1
        BY <3>2, Picked
      <4>2. g[s \ {Pick(s)}] = f[s \ {Pick(s)}]
        <5>1. Cardinality(s \ {Pick(s)}) <= n
          BY <2>2, <4>1
        <5> QED
          BY <4>1, <5>1
      <4>3. g[s] = buf[Pick(s)] + f[s \ {Pick(s)}]
        <5>1. CASE Cardinality(s) <= n
          <6>1. Step(f, s)
            BY <2>1, <5>1
          <6> QED
            BY <3>2, <5>1, <6>1
        <5>2. CASE ~(Cardinality(s) <= n)
          BY <5>2
        <5> QED
          BY <5>1, <5>2
      <4> HIDE DEF g
      <4> QED
        BY <3>2, <4>2, <4>3
    <3> QED
      BY <3>1, <3>2
  <2>3. g = [s \in SUBSET S |-> g[s]]
    OBVIOUS
  <2>4. n + 1 \in Nat
    OBVIOUS
  <2> HIDE DEF g
  <2>5. \E h : /\ h = [s \in SUBSET S |-> h[s]]
               /\ \A s \in SUBSET S : Cardinality(s) <= n + 1 => Step(h, s)
    BY <2>2, <2>3
  <2> QED
    BY <2>4, <2>5, Zenon
<1> HIDE DEF Good
<1>3. Nat \subseteq Good
  BY <1>1, <1>2, NatSets
<1>4. Cardinality(S) \in Nat
  BY FS_CardinalityType
<1>5. PICK f : /\ f = [s \in SUBSET S |-> f[s]]
               /\ \A s \in SUBSET S :
                    Cardinality(s) <= Cardinality(S) => Step(f, s)
  BY <1>3, <1>4 DEF Good
<1>6. ASSUME NEW s \in SUBSET S PROVE Step(f, s)
  <2>1. Cardinality(s) <= Cardinality(S)
    BY FS_Subset
  <2> QED
    BY <1>5, <2>1
<1>7. SumTable(S, buf, f)
  BY <1>5, <1>6, Zenon DEF SumTable
<1> QED
  BY <1>7

(* Sums of numbers are numbers. *)
LEMMA SumTableNumbers ==
  ASSUME NEW S, IsFiniteSet(S), NEW buf \in [S -> Nat],
         NEW f, SumTable(S, buf, f)
  PROVE  \A s \in SUBSET S : f[s] \in Nat
<1> DEFINE G == {s \in SUBSET S : f[s] \in Nat}
<1>1. ASSUME NEW s \in SUBSET S
      PROVE f[s] = IF s = {} THEN 0 ELSE buf[Pick(s)] + f[s \ {Pick(s)}]
  BY Zenon DEF SumTable
<1>2. {} \in G
  <2>1. {} \in SUBSET S
    OBVIOUS
  <2>2. f[{}] = 0
    BY <1>1, <2>1, Zenon
  <2> QED
    BY <2>1, <2>2
<1>3. ASSUME NEW s \in SUBSET S, s # {}, s \ {Pick(s)} \in G PROVE s \in G
  <2>1. buf[Pick(s)] \in Nat
    BY <1>3, Picked
  <2>2. f[s] = buf[Pick(s)] + f[s \ {Pick(s)}]
    BY <1>1, <1>3
  <2> QED
    BY <1>3, <2>1, <2>2
<1>4. G \in SUBSET (SUBSET S)
  OBVIOUS
<1> HIDE DEF G
<1>5. \A s \in SUBSET S : s \in G
  BY <1>2, <1>3, <1>4, SubsetInduction
<1> QED
  BY <1>5 DEF G

(* The sums of which the remainder is taken at each step are the           *)
(* remainders of the sums, and nothing else is.                            *)
LEMMA RemainderTableOfSums ==
  ASSUME NEW S, IsFiniteSet(S), NEW buf \in [S -> Nat], NEW m \in Nat \ {0},
         NEW f, SumTable(S, buf, f),
         NEW g, g = [s \in SUBSET S |-> f[s] % m]
  PROVE  RemainderTable(S, buf, m, g)
<1>1. \A s \in SUBSET S : f[s] \in Nat
  BY SumTableNumbers
<1>2. ASSUME NEW s \in SUBSET S
      PROVE g[s] = IF s = {} THEN 0 ELSE (g[s \ {Pick(s)}] + buf[Pick(s)]) % m
  <2>1. f[s] = IF s = {} THEN 0 ELSE buf[Pick(s)] + f[s \ {Pick(s)}]
    BY Zenon DEF SumTable
  <2>2. CASE s = {}
    BY <2>1, <2>2
  <2>3. CASE s # {}
    <3>1. buf[Pick(s)] \in Nat /\ s \ {Pick(s)} \in SUBSET S
      BY <2>3, Picked
    <3>2. PICK a \in Nat, b \in Nat :
            a = f[s \ {Pick(s)}] /\ b = buf[Pick(s)]
      BY <1>1, <3>1
    <3>3. f[s] = a + b
      BY <2>1, <2>3, <3>2
    <3>4. ((a % m) + b) % m = (a + b) % m
      BY ModAdd
    <3>5. g[s] = (a + b) % m /\ g[s \ {Pick(s)}] = a % m
      BY <3>1, <3>2, <3>3
    <3> QED
      BY <2>3, <3>2, <3>4, <3>5
  <2> QED
    BY <2>2, <2>3
<1>3. g = [s \in SUBSET S |-> g[s]]
  OBVIOUS
<1> QED
  BY <1>2, <1>3, Zenon DEF RemainderTable

(* Two tables of remainders agree on the whole set. *)
LEMMA RemainderTableUnique ==
  ASSUME NEW S, IsFiniteSet(S), NEW buf, NEW m,
         NEW f, RemainderTable(S, buf, m, f),
         NEW g, RemainderTable(S, buf, m, g)
  PROVE  f[S] = g[S]
<1> DEFINE G == {s \in SUBSET S : f[s] = g[s]}
<1>1. ASSUME NEW s \in SUBSET S
      PROVE /\ f[s] = IF s = {} THEN 0
                      ELSE (f[s \ {Pick(s)}] + buf[Pick(s)]) % m
            /\ g[s] = IF s = {} THEN 0
                      ELSE (g[s \ {Pick(s)}] + buf[Pick(s)]) % m
  BY Zenon DEF RemainderTable
<1>2. {} \in G
  BY <1>1
<1>3. ASSUME NEW s \in SUBSET S, s # {}, s \ {Pick(s)} \in G PROVE s \in G
  <2>1. f[s \ {Pick(s)}] = g[s \ {Pick(s)}]
    BY <1>3
  <2>2. f[s] = g[s]
    BY <1>1, <1>3, <2>1, Zenon
  <2> QED
    BY <2>2
<1>4. G \in SUBSET (SUBSET S)
  OBVIOUS
<1> HIDE DEF G
<1>5. \A s \in SUBSET S : s \in G
  BY <1>2, <1>3, <1>4, SubsetInduction
<1> QED
  BY <1>5 DEF G

(* A fold that takes the remainder of each partial sum computes the        *)
(* remainder of the sum.                                                   *)
LEMMA FoldRemainder ==
  ASSUME NEW buf \in Seq(Nat), NEW m \in Nat \ {0}
  PROVE  /\ FoldSeq(+, 0, buf) \in Nat
         /\ FoldSeq(LAMBDA b, s : (s + b) % m, 0, buf) = FoldSeq(+, 0, buf) % m
<1> DEFINE D == DOMAIN buf
<1>1. D = 1 .. Len(buf) /\ Len(buf) \in Nat /\ buf \in [D -> Nat]
  OBVIOUS
<1>2. IsFiniteSet(D)
  BY <1>1, FS_Interval
<1>3. FoldSeq(+, 0, buf) = (CHOOSE f : SumTable(D, buf, f))[D]
  BY DEF FoldSeq, FoldFunction, FoldFunctionOnSet, MapThenFoldSet,
         SumTable, Pick
<1>4. FoldSeq(LAMBDA b, s : (s + b) % m, 0, buf)
        = (CHOOSE f : RemainderTable(D, buf, m, f))[D]
  BY DEF FoldSeq, FoldFunction, FoldFunctionOnSet, MapThenFoldSet,
         RemainderTable, Pick
<1> HIDE DEF D
<1> DEFINE f == CHOOSE f : SumTable(D, buf, f)
<1> DEFINE g == CHOOSE g : RemainderTable(D, buf, m, g)
<1>5. SumTable(D, buf, f)
  BY <1>2, SumTableExists
<1> HIDE DEF f
<1>6. f[D] \in Nat
  BY <1>1, <1>2, <1>5, SumTableNumbers
<1>11. PICK h : h = [s \in SUBSET D |-> f[s] % m]
  OBVIOUS
<1>7. RemainderTable(D, buf, m, h)
  <2>1. buf \in [D -> Nat]
    BY <1>1
  <2> QED
    BY <1>2, <1>5, <1>11, <2>1, RemainderTableOfSums
<1>8. h[D] = f[D] % m
  BY <1>11
<1>9. RemainderTable(D, buf, m, g)
  BY <1>7
<1> HIDE DEF g
<1>10. g[D] = h[D]
  BY <1>2, <1>7, <1>9, RemainderTableUnique
<1> QED
  BY <1>3, <1>4, <1>6, <1>8, <1>10 DEF f, g

=============================================================================
