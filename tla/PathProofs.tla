----------------------------- MODULE PathProofs -----------------------------
(***************************************************************************)
(* Proofs about the making of paths, for names of any length over any      *)
(* alphabet, any directory and any setting of the options.                 *)
(***************************************************************************)
EXTENDS Path, DataInduction

EndsWell(s) == s # <<>> /\ s[Len(s)] # Slash

(* What a name becomes must not start with a slash unless that is allowed. *)
Relative(s) == flags.absoluteOk \/ s[1] # Slash

(* The parts of the name, and the text made of them, at each place. *)
Parts ==
  /\ pc = "split" => dir = NULL /\ path = NULL
  /\ pc = "split" => buf = <<>> /\ cp = 0 /\ base = <<>>
  /\ pc \in {"strip", "sanitize"} => fname # <<>> /\ base # <<>>
  /\ pc = "strip" => flags.usePaths /\ dir # NULL
  /\ pc = "sanitize" /\ dir # NULL => flags.usePaths /\ Relative(dir)
  /\ cp <= Len(buf) /\ Len(buf) <= 3 * cp
  /\ pc = "place" /\ path # NULL => EndsWell(path) /\ Relative(path)

IInv == TypeOK /\ Parts /\ Sanitary /\ NamedUnlessEmpty /\ BeginsWithDirectory

-----------------------------------------------------------------------------
(* concat_fname *)

LEMMA TrimNothing ==
  ASSUME NEW s \in Str, EndsWell(s)
  PROVE  Trim(s) = s
<1> DEFINE P(n) == /\ \A j \in n + 1 .. Len(s) : s[j] = Slash
                   /\ n > 0 => s[n] # Slash
<1>1. Len(s) \in 0 .. Len(s) /\ P(Len(s))
  BY DEF EndsWell, Str
<1>2. ASSUME NEW n \in 0 .. Len(s), P(n)
      PROVE  n = Len(s)
  <2>1. CASE n < Len(s)
    <3>1. Len(s) \in n + 1 .. Len(s)
      BY <1>1, <2>1
    <3> QED
      BY <1>2, <3>1 DEF EndsWell
  <2> QED
    BY <1>2, <2>1
<1>3. (CHOOSE n \in 0 .. Len(s) : P(n)) = Len(s)
  BY <1>1, <1>2
<1>4. Trim(s) = SubSeq(s, 1, Len(s))
  BY <1>3 DEF Trim
<1> QED
  BY <1>4 DEF Str

(* Putting one string behind another keeps the first as it is, unless the  *)
(* second has trailing slashes to lose.                                    *)
LEMMA Concat ==
  ASSUME NEW f \in Str \cup {NULL}, NEW g \in Str, EndsWell(g)
  PROVE  LET c == concat_fname(f, g) IN
         /\ c \in Str /\ c # NULL /\ EndsWell(c)
         /\ f \in {NULL, <<>>} => c = g
         /\ f \notin {NULL, <<>>} =>
              /\ Len(c) > Len(f)
              /\ SubSeq(c, 1, Len(f)) = f /\ c[1] = f[1]
              /\ f[Len(f)] = Slash \/ c[Len(f) + 1] = Slash
<1>0. Slash \in Char /\ NULL \notin Str
  BY PathAssumption DEF Forbidden, Str
<1>1. CASE f \in {NULL, <<>>}
  <2>1. concat_fname(f, g) = g
    BY <1>1, TrimNothing DEF concat_fname, EndsWell
  <2> QED
    BY <1>0, <1>1, <2>1
<1>2. CASE f \notin {NULL, <<>>}
  <2>0. f \in Seq(Char) /\ Len(f) \in Nat /\ Len(f) > 0
        /\ g \in Seq(Char) /\ Len(g) \in Nat /\ Len(g) > 0
    BY <1>2 DEF Str, EndsWell
  <2>1. CASE f[Len(f)] = Slash \/ g[1] = Slash
    <3>1. f \o g \in Str /\ EndsWell(f \o g)
      BY <2>0 DEF EndsWell, Str
    <3>2. concat_fname(f, g) = f \o g
      BY <1>2, <2>0, <2>1, <3>1, TrimNothing DEF concat_fname, EndsWell
    <3>3. SubSeq(f \o g, 1, Len(f)) = f
      BY <2>0
    <3>4. /\ Len(f \o g) > Len(f) /\ (f \o g)[1] = f[1]
          /\ f[Len(f)] = Slash \/ (f \o g)[Len(f) + 1] = Slash
      BY <2>0, <2>1
    <3> QED
      BY <1>0, <1>2, <3>1, <3>2, <3>3, <3>4
  <2>2. CASE ~(f[Len(f)] = Slash \/ g[1] = Slash)
    <3> DEFINE w == f \o <<Slash>> \o g
    <3>1. w \in Str /\ EndsWell(w)
      BY <1>0, <2>0 DEF EndsWell, Str
    <3>2. concat_fname(f, g) = w
      BY <1>2, <2>0, <2>2, <3>1, TrimNothing DEF concat_fname, EndsWell
    <3>3. SubSeq(w, 1, Len(f)) = f
      BY <1>0, <2>0
    <3>4. Len(w) > Len(f) /\ w[1] = f[1] /\ w[Len(f) + 1] = Slash
      BY <1>0, <2>0
    <3> HIDE DEF w
    <3> QED
      BY <1>0, <1>2, <3>1, <3>2, <3>3, <3>4
  <2> QED
    BY <2>1, <2>2
<1> QED
  BY <1>1, <1>2

(* What is put behind another string brings no slashes but its own and the *)
(* one that joins them.                                                    *)
LEMMA ConcatJoins ==
  ASSUME NEW f \in Str, f # <<>>, NEW g \in Str, EndsWell(g),
         \A i \in 1 .. Len(g) : g[i] # Slash,
         NEW from, from = IF f[Len(f)] = Slash THEN Len(f) + 1 ELSE Len(f) + 2
  PROVE  \A i \in from .. Len(concat_fname(f, g)) : concat_fname(f, g)[i] # Slash
<1>0. Slash \in Char /\ f # NULL
  BY PathAssumption DEF Forbidden, Str
<1>1. f \in Seq(Char) /\ Len(f) \in Nat /\ Len(f) > 0
      /\ g \in Seq(Char) /\ Len(g) \in Nat /\ Len(g) > 0 /\ g[1] # Slash
  BY DEF Str, EndsWell
<1>2. CASE f[Len(f)] = Slash
  <2>1. f \o g \in Str /\ EndsWell(f \o g)
    BY <1>1 DEF EndsWell, Str
  <2>2. concat_fname(f, g) = f \o g
    BY <1>0, <1>1, <1>2, <2>1, TrimNothing DEF concat_fname, EndsWell
  <2>3. /\ Len(f \o g) = Len(f) + Len(g)
        /\ \A i \in 1 .. Len(g) : (f \o g)[Len(f) + i] = g[i]
    BY <1>1
  <2>4. ASSUME NEW i \in Len(f) + 1 .. Len(f) + Len(g)
        PROVE  (f \o g)[i] # Slash
    <3>1. PICK j \in 1 .. Len(g) : i = Len(f) + j
      <4>1. i - Len(f) \in 1 .. Len(g) /\ i = Len(f) + (i - Len(f))
        BY <1>1
      <4> QED
        BY <4>1
    <3> QED
      BY <2>3, <3>1
  <2> QED
    BY <1>2, <2>2, <2>3, <2>4
<1>3. CASE f[Len(f)] # Slash
  <2> DEFINE w == f \o <<Slash>> \o g
  <2>1. w \in Str /\ EndsWell(w)
    BY <1>0, <1>1 DEF EndsWell, Str
  <2>2. concat_fname(f, g) = w
    BY <1>0, <1>1, <1>3, <2>1, TrimNothing DEF concat_fname, EndsWell
  <2>3. /\ Len(w) = Len(f) + 1 + Len(g)
        /\ \A i \in 1 .. Len(g) : w[Len(f) + 1 + i] = g[i]
    BY <1>0, <1>1
  <2> HIDE DEF w
  <2>4. ASSUME NEW i \in Len(f) + 2 .. Len(f) + 1 + Len(g)
        PROVE  w[i] # Slash
    <3>1. PICK j \in 1 .. Len(g) : i = Len(f) + 1 + j
      <4>1. i - Len(f) - 1 \in 1 .. Len(g) /\ i = Len(f) + 1 + (i - Len(f) - 1)
        BY <1>1
      <4> QED
        BY <4>1
    <3> QED
      BY <2>3, <3>1
  <2> QED
    BY <1>3, <2>2, <2>3, <2>4
<1> QED
  BY <1>2, <1>3

-----------------------------------------------------------------------------
(* The steps *)

LEMMA InitInv == Init => IInv
<1> SUFFICES ASSUME Init PROVE IInv
  OBVIOUS
<1>0. <<>> \in Seq(Char) /\ Len(<<>>) = 0
  OBVIOUS
<1>1. NULL # <<>> /\ <<>> \in Seq(Char) /\ Len(<<>>) = 0
  BY <1>0, PathAssumption
<1>2. TypeOK
  BY <1>1 DEF Init, TypeOK, Str
<1>3. Parts
  BY <1>1 DEF Init, Parts
<1> QED
  BY <1>2, <1>3 DEF Init, IInv, Sanitary, NamedUnlessEmpty, BeginsWithDirectory

LEMMA Bystanders ==
  ASSUME TypeOK, UNCHANGED <<flags, directory, fname>>
  PROVE  /\ flags' \in [usePaths : BOOLEAN, unixFs : BOOLEAN, absoluteOk : BOOLEAN]
         /\ directory' \in Directories /\ fname' \in Names
         /\ fname \in Seq(Char)
BY PathAssumption DEF TypeOK

LEMMA GiveUpStep ==
  ASSUME IInv, GiveUp
  PROVE  IInv'
BY DEF IInv, TypeOK, Parts, Sanitary, NamedUnlessEmpty, BeginsWithDirectory, GiveUp

LEMMA SplitBaseStep ==
  ASSUME IInv, SplitBase
  PROVE  IInv'
<1>1. fname \in Str /\ Len(fname) \in Nat
  BY PathAssumption DEF IInv, TypeOK, Str
<1> QED
  BY <1>1 DEF IInv, TypeOK, Parts, Sanitary, NamedUnlessEmpty, BeginsWithDirectory, SplitBase

LEMMA SplitPathStep ==
  ASSUME IInv, SplitPath
  PROVE  IInv'
<1>1. fname \in Seq(Char) /\ Len(fname) \in Nat
  BY PathAssumption DEF IInv, TypeOK
<1>2. PICK k \in DOMAIN fname :
        /\ fname[k] = Backslash
        /\ dir' = [i \in 1 .. k |-> IF fname[i] = Backslash THEN Slash ELSE fname[i]]
        /\ base' = SubSeq(fname, k + 1, Len(fname))
        /\ pc' = IF dir'[1] = Slash /\ ~flags.absoluteOk
                 THEN "strip" ELSE "sanitize"
  BY DEF SplitPath
<1>3. k \in 1 .. Len(fname) /\ k < Len(fname)
  BY <1>1, <1>2 DEF SplitPath, could_be_a_windows_path
<1>4. dir' \in Seq(Char) /\ Len(dir') = k /\ dir' # <<>>
  <2>1. \A i \in 1 .. k : dir'[i] \in Char
    <3>1. Slash \in Char
      BY PathAssumption DEF Forbidden
    <3>2. \A i \in 1 .. k : fname[i] \in Char
      BY <1>1, <1>3
    <3> QED
      BY <1>2, <3>1, <3>2
  <2>2. k \in Nat \ {0} /\ dir' \in [1 .. k -> Char]
    BY <1>1, <1>2, <1>3, <2>1
  <2> QED
    BY <2>2
<1>5. base' \in Seq(Char) /\ base' # <<>> /\ Len(base') \in Nat
  BY <1>1, <1>2, <1>3
<1>6. NULL # dir'
  BY <1>4, PathAssumption
<1>7. TypeOK'
  <2>1. /\ pc' \in {"strip", "sanitize"}
        /\ UNCHANGED <<flags, directory, fname, cp, buf, path>>
    BY <1>2 DEF SplitPath
  <2>2. cp = 0 /\ buf \in Str /\ path \in Str \cup {NULL}
        /\ fname \in Names /\ directory \in Directories
        /\ flags \in [usePaths : BOOLEAN, unixFs : BOOLEAN, absoluteOk : BOOLEAN]
    BY DEF IInv, TypeOK, Parts, SplitPath
  <2>3. dir' \in Str /\ base' \in Str /\ cp \in 0 .. Len(base')
    BY <1>4, <1>5, <2>2 DEF Str
  <2> QED
    BY <1>4, <2>1, <2>2, <2>3 DEF TypeOK
<1>8. Parts'
  <2>1. /\ pc' = "strip" \/ (pc' = "sanitize" /\ Relative(dir)')
        /\ flags' = flags /\ flags.usePaths /\ fname' = fname /\ fname # <<>>
        /\ UNCHANGED <<cp, buf>>
    BY <1>2 DEF SplitPath, Relative
  <2>2. cp <= Len(buf) /\ Len(buf) <= 3 * cp
    BY DEF IInv, Parts
  <2> QED
    BY <1>5, <1>6, <2>1, <2>2 DEF Parts
<1>9. pc' \in {"strip", "sanitize"} /\ UNCHANGED <<flags, directory, fname, cp, buf, path>>
  BY <1>2 DEF SplitPath
<1>10. Sanitary'
  BY <1>9 DEF IInv, Sanitary
<1>11. NamedUnlessEmpty' /\ BeginsWithDirectory'
  BY <1>9 DEF NamedUnlessEmpty, BeginsWithDirectory
<1> QED
  BY <1>7, <1>8, <1>10, <1>11 DEF IInv

LEMMA StripStep ==
  ASSUME IInv, Strip
  PROVE  IInv'
<1>1. dir \in Seq(Char)
  BY DEF IInv, TypeOK, Parts, Strip, Str
<1>2. \/ /\ dir # <<>> /\ dir[1] = Slash
         /\ dir' = Tail(dir) /\ pc' = "strip"
      \/ /\ dir = <<>> \/ dir[1] # Slash
         /\ dir' = IF dir = <<>> THEN NULL ELSE dir
         /\ pc' = "sanitize"
  BY DEF Strip
<1>3. /\ dir' \in Seq(Char) \cup {NULL}
      /\ pc' = "strip" => dir' # NULL
      /\ pc' = "sanitize" => dir' # <<>>
      /\ pc' = "sanitize" /\ dir' # NULL => dir'[1] # Slash
  <2>1. NULL \notin Seq(Char) /\ <<>> \in Seq(Char)
    BY PathAssumption
  <2>2. dir # <<>> => Tail(dir) \in Seq(Char)
    BY <1>1
  <2> QED
    BY <1>1, <1>2, <2>1, <2>2
<1>4. TypeOK'
  BY <1>2, <1>3 DEF IInv, TypeOK, Strip, Str
<1>5. Parts'
  BY <1>2, <1>3 DEF IInv, Parts, Strip, Relative
<1> QED
  BY <1>2, <1>4, <1>5
     DEF IInv, Sanitary, NamedUnlessEmpty, BeginsWithDirectory, Strip

(* A character adds itself or its escape, and both are harmless.           *)
LEMMA SanitizeStep ==
  ASSUME IInv, Sanitize
  PROVE  IInv'
<1> DEFINE c == base[cp + 1]
           add == IF Escaped(c) THEN <<Percent, Hi[c], Lo[c]>> ELSE <<c>>
           Harmless(x) ==
             /\ x \notin Control \cup Unsanitary
             /\ flags.unixFs => x \notin NonAscii \cup Unsavory
<1>1. /\ base \in Seq(Char) /\ Len(base) \in Nat
      /\ buf \in Seq(Char) /\ Len(buf) \in Nat
      /\ cp \in Nat /\ cp < Len(base) /\ c \in Char
  BY DEF IInv, TypeOK, Sanitize, Str
<1>2. /\ add \in Seq(Char) /\ Len(add) \in 1 .. 3
      /\ \A i \in 1 .. Len(add) : Harmless(add[i])
  <2>1. CASE Escaped(c)
    <3>1. /\ Percent \in Char \ Forbidden
          /\ Hi[c] \in Char \ Forbidden /\ Lo[c] \in Char \ Forbidden
      BY <1>1, PathAssumption
    <3>2. \A x \in Char \ Forbidden : Harmless(x)
      BY DEF Forbidden
    <3> QED
      BY <2>1, <3>1, <3>2
  <2>2. CASE ~Escaped(c)
    <3>1. Harmless(c)
      BY <2>2 DEF Escaped
    <3> QED
      BY <1>1, <2>2, <3>1
  <2> QED
    BY <2>1, <2>2
<1> HIDE DEF add
<1>3. buf' = buf \o add /\ cp' = cp + 1
  BY DEF Sanitize, add
<1>4. /\ buf' \in Seq(Char) /\ Len(buf') = Len(buf) + Len(add)
      /\ \A i \in 1 .. Len(buf) : buf'[i] = buf[i]
      /\ \A i \in Len(buf) + 1 .. Len(buf') : buf'[i] = add[i - Len(buf)]
  BY <1>1, <1>2, <1>3
<1>5. \A i \in DOMAIN buf' : Harmless(buf'[i])
  <2>1. SUFFICES ASSUME NEW i \in 1 .. Len(buf') PROVE Harmless(buf'[i])
    BY <1>4
  <2>2. CASE i \in 1 .. Len(buf)
    BY <1>1, <1>4, <2>2 DEF IInv, Sanitary
  <2>3. CASE i \notin 1 .. Len(buf)
    <3>1. i \in Len(buf) + 1 .. Len(buf') /\ i - Len(buf) \in 1 .. Len(add)
      BY <1>1, <1>2, <1>4, <2>1, <2>3
    <3>2. buf'[i] = add[i - Len(buf)]
      BY <1>4, <3>1
    <3> QED
      BY <1>2, <3>1, <3>2
  <2> QED
    BY <2>2, <2>3
<1>6. TypeOK'
  BY <1>1, <1>3, <1>4 DEF IInv, TypeOK, Sanitize, Str
<1>7. Parts'
  <2>0. cp <= Len(buf) /\ Len(buf) <= 3 * cp
    BY DEF IInv, Parts
  <2>1. cp' <= Len(buf') /\ Len(buf') <= 3 * cp'
    <3>1. /\ cp \in Nat /\ Len(buf) \in Nat /\ Len(add) \in 1 .. 3
          /\ cp' = cp + 1 /\ Len(buf') = Len(buf) + Len(add)
      BY <1>1, <1>2, <1>3, <1>4
    <3>2. \A m, n \in Nat : \A a \in 1 .. 3 :
            m <= n /\ n <= 3 * m => m + 1 <= n + a /\ n + a <= 3 * (m + 1)
      OBVIOUS
    <3> QED
      BY <2>0, <3>1, <3>2
  <2>2. pc = "sanitize" /\ UNCHANGED <<pc, flags, dir, fname, base>>
    BY DEF Sanitize
  <2>3. fname # <<>> /\ base # <<>>
        /\ (dir # NULL => flags.usePaths /\ Relative(dir))
    BY <2>2 DEF IInv, Parts
  <2>4. Relative(dir) => Relative(dir)'
    BY <2>2 DEF Relative
  <2> QED
    BY <2>1, <2>2, <2>3, <2>4 DEF Parts
<1>8. Sanitary'
  BY <1>5 DEF Sanitary, Sanitize
<1> QED
  BY <1>6, <1>7, <1>8 DEF IInv, NamedUnlessEmpty, BeginsWithDirectory, Sanitize

LEMMA JoinStep ==
  ASSUME IInv, Join
  PROVE  IInv'
<1>1. /\ dir \in Str \cup {NULL} /\ buf \in Seq(Char)
      /\ fname # <<>> /\ base \in Seq(Char) /\ base # <<>> /\ cp = Len(base)
      /\ dir # <<>>
  BY DEF IInv, TypeOK, Parts, Join, Str
<1>2. buf # <<>> /\ Len(buf) \in Nat
  BY <1>1 DEF IInv, Parts
<1>3. \A i \in 1 .. Len(buf) : buf[i] # Slash
  BY <1>1, PathAssumption DEF IInv, Sanitary
<1>4. EndsWell(buf) /\ buf[1] # Slash
  BY <1>1, <1>2, <1>3 DEF EndsWell
<1>5. /\ path' = concat_fname(dir, buf) /\ path' \in Str /\ path' # NULL
      /\ EndsWell(path)'
      /\ dir = NULL => path' = buf
      /\ dir # NULL => path'[1] = dir[1]
  BY <1>1, <1>4, Concat DEF Join, EndsWell, Str
<1>6. TypeOK'
  BY <1>5 DEF IInv, TypeOK, Join
<1>7. Parts'
  BY <1>4, <1>5 DEF IInv, Parts, Join, Relative
<1>8. Sanitary'
  BY <1>5 DEF IInv, Parts, Sanitary, Join
<1> QED
  BY <1>1, <1>5, <1>6, <1>7, <1>8 DEF IInv, NamedUnlessEmpty, BeginsWithDirectory, Join

LEMMA PlaceStep ==
  ASSUME IInv, Place
  PROVE  IInv'
<1>1. Local \in Str /\ EndsWell(Local) /\ Relative(Local)
  <2>1. /\ DefaultName \in Seq(Char) /\ DefaultName # <<>>
        /\ Len(DefaultName) \in 1 .. Len(DefaultName)
        /\ 1 \in 1 .. Len(DefaultName)
        /\ \A i \in 1 .. Len(DefaultName) : DefaultName[i] # Slash
    BY PathAssumption
  <2>2. CASE path = NULL
    BY <2>1, <2>2 DEF Local, EndsWell, Relative, Str
  <2>3. CASE path # NULL
    BY <2>3 DEF IInv, TypeOK, Parts, Place, Local
  <2> QED
    BY <2>2, <2>3
<1>2. directory \in Str \cup {NULL}
  BY PathAssumption DEF IInv, TypeOK, Str
<1>3. LET c == concat_fname(directory, Local) IN
      /\ path' = c /\ c \in Str
      /\ directory \in {NULL, <<>>} => c = Local
      /\ directory \notin {NULL, <<>>} =>
           /\ Len(c) > Len(directory)
           /\ SubSeq(c, 1, Len(directory)) = directory
           /\ directory[Len(directory)] = Slash \/ c[Len(directory) + 1] = Slash
  BY <1>1, <1>2, Concat DEF Place
<1>4. TypeOK'
  BY <1>3 DEF IInv, TypeOK, Place
<1>5. Parts' /\ Sanitary' /\ NamedUnlessEmpty'
  BY DEF IInv, Parts, Sanitary, NamedUnlessEmpty, Place
<1>6. ASSUME ~flags.usePaths
      PROVE  \A i \in AfterDirectory .. Len(path') : path'[i] # Slash
  <2>1. \A i \in 1 .. Len(Local) : Local[i] # Slash
    <3>1. CASE path = NULL
      BY <3>1, PathAssumption DEF Local
    <3>2. CASE path # NULL
      <4>1. path = buf /\ buf \in Seq(Char)
        BY <1>6, <3>2 DEF IInv, TypeOK, Sanitary, Place, Str
      <4>2. \A i \in 1 .. Len(buf) : buf[i] # Slash
        BY <4>1, PathAssumption DEF IInv, Sanitary
      <4> QED
        BY <3>2, <4>1, <4>2 DEF Local
    <3> QED
      BY <3>1, <3>2
  <2>2. CASE directory \in {NULL, <<>>}
    <3>1. path' = Local /\ AfterDirectory = 1
      BY <1>3, <2>2 DEF AfterDirectory
    <3> QED
      BY <2>1, <3>1
  <2>3. CASE directory \notin {NULL, <<>>}
    <3>1. path' = concat_fname(directory, Local)
      BY <1>3
    <3>2. AfterDirectory = IF directory[Len(directory)] = Slash
                   THEN Len(directory) + 1 ELSE Len(directory) + 2
      BY <2>3 DEF AfterDirectory
    <3>3. directory \in Str /\ directory # <<>>
      BY <1>2, <2>3
    <3> QED
      BY <1>1, <2>1, <3>1, <3>2, <3>3, ConcatJoins
  <2> QED
    BY <2>2, <2>3
<1>7. BeginsWithDirectory'
  <2>1. AfterDirectory' = AfterDirectory
    BY DEF AfterDirectory, Place
  <2> QED
    BY <1>1, <1>3, <1>6, <2>1 DEF BeginsWithDirectory, Place, Relative
<1> QED
  BY <1>4, <1>5, <1>7 DEF IInv

LEMMA OverLimitStep ==
  ASSUME IInv, OverLimit
  PROVE  IInv'
BY DEF IInv, TypeOK, Parts, Sanitary, NamedUnlessEmpty, BeginsWithDirectory, OverLimit

LEMMA StutterStep ==
  ASSUME IInv, UNCHANGED vars
  PROVE  IInv'
BY DEF IInv, TypeOK, Parts, Sanitary, NamedUnlessEmpty, BeginsWithDirectory,
       AfterDirectory, Relative, vars

LEMMA Invariance == Spec => []IInv
<1>1. IInv /\ [Next]_vars => IInv'
  BY GiveUpStep, SplitBaseStep, SplitPathStep, StripStep, SanitizeStep,
     JoinStep, PlaceStep, OverLimitStep, StutterStep DEF Next
<1> QED
  BY <1>1, InitInv, PTL DEF Spec

-----------------------------------------------------------------------------
(* Escaped texts and what they decode to *)

(* Between positions i and j, text s holds c or the escape of c. *)
Piece(s, i, j, c) ==
  /\ j <= Len(s)
  /\ \/ /\ j = i + 3 /\ s[i + 1] = Percent
        /\ s[i + 2] = Hi[c] /\ s[i + 3] = Lo[c]
     \/ /\ j = i + 1 /\ s[i + 1] = c
        /\ c # Percent

(* Text s is t with some characters escaped, every % among them; m[k] is   *)
(* where in s the first k characters of t end.                             *)
Marks(s, t, m) ==
  /\ m \in [0 .. Len(t) -> Nat]
  /\ m[0] = 0 /\ m[Len(t)] = Len(s)
  /\ \A k \in 1 .. Len(t) : Piece(s, m[k - 1], m[k], t[k])

Spells(s, t) == \E m : Marks(s, t, m)

Escapes(s, i) ==
  {c \in Char : /\ s[i] = Percent /\ i + 2 <= Len(s)
                /\ s[i + 1] = Hi[c] /\ s[i + 2] = Lo[c]}

Decodes(s, f) ==
  f = [i \in 1 .. Len(s) + 3 |->
         IF i > Len(s) THEN <<>>
         ELSE IF Escapes(s, i) = {} THEN <<s[i]>> \o f[i + 1]
         ELSE <<CHOOSE c \in Escapes(s, i) : TRUE>> \o f[i + 3]]

(* There is such a function: it is built from the end of the text. *)
LEMMA DecodesExists ==
  ASSUME NEW s, Len(s) \in Nat
  PROVE  \E f : Decodes(s, f)
<1> DEFINE L == Len(s)
           D == 1 .. L + 3
           Step(f, i) ==
             IF i > L THEN <<>>
             ELSE IF Escapes(s, i) = {} THEN <<s[i]>> \o f[i + 1]
             ELSE <<CHOOSE c \in Escapes(s, i) : TRUE>> \o f[i + 3]
           Built(f, n) == /\ f = [i \in D |-> f[i]]
                          /\ \A i \in D : i + n > L => f[i] = Step(f, i)
           Good == {n \in Nat : n <= L => \E f : Built(f, n)}
<1>1. 0 \in Good
  <2> DEFINE g == [i \in D |-> <<>>]
  <2>0. g = [i \in D |-> g[i]]
    OBVIOUS
  <2>1. Built(g, 0)
    <3>1. ASSUME NEW i \in D, i + 0 > L PROVE g[i] = Step(g, i)
      <4>1. i > L
        BY <3>1
      <4>2. g[i] = <<>>
        OBVIOUS
      <4> HIDE DEF g
      <4> QED
        BY <4>1, <4>2, Zenon
    <3> HIDE DEF g, Step, D, L
    <3> QED
      BY <2>0, <3>1, Zenon
  <2> HIDE DEF Built, g
  <2> QED
    BY <2>1
<1>2. ASSUME NEW n \in Nat, n \in Good PROVE n + 1 \in Good
  <2>1. SUFFICES ASSUME n + 1 <= L PROVE \E f : Built(f, n + 1)
    <3> HIDE DEF Built, L
    <3> QED
      OBVIOUS
  <2>2. PICK f : Built(f, n)
    <3> HIDE DEF Built
    <3>1. n <= L
      BY <2>1
    <3> QED
      BY <1>2, <3>1
  <2>3. PICK p \in 1 .. L : p + n = L
    <3>1. L - n \in 1 .. L /\ (L - n) + n = L
      BY <2>1
    <3> QED
      BY <3>1
  <2> HIDE DEF Step, L
  <2>4. L \in Nat
    BY DEF L
  <2> DEFINE g == [i \in D |-> IF i = p THEN Step(f, p) ELSE f[i]]
  <2>5. ASSUME NEW i \in D, i >= p PROVE Step(g, i) = Step(f, i)
    <3>1. CASE i > L
      BY <3>1 DEF Step
    <3>2. CASE ~(i > L)
      <4>1. i + 1 \in D /\ i + 3 \in D /\ i + 1 # p /\ i + 3 # p
        BY <2>3, <2>4, <2>5, <3>2
      <4>2. g[i + 1] = f[i + 1] /\ g[i + 3] = f[i + 3]
        BY <4>1
      <4> HIDE DEF g
      <4>3. CASE Escapes(s, i) = {}
        <5>1. Step(g, i) = <<s[i]>> \o g[i + 1] /\ Step(f, i) = <<s[i]>> \o f[i + 1]
          BY <3>2, <4>3, Zenon DEF Step
        <5> QED
          BY <4>2, <5>1, Zenon
      <4>4. CASE Escapes(s, i) # {}
        <5> DEFINE d == CHOOSE c \in Escapes(s, i) : TRUE
        <5>1. Step(g, i) = <<d>> \o g[i + 3] /\ Step(f, i) = <<d>> \o f[i + 3]
          BY <3>2, <4>4, Zenon DEF Step
        <5> QED
          BY <4>2, <5>1, Zenon
      <4> QED
        BY <4>3, <4>4
    <3> QED
      BY <3>1, <3>2
  <2>6. ASSUME NEW i \in D, i + (n + 1) > L PROVE g[i] = Step(g, i)
    <3>1. i >= p
      BY <2>3, <2>4, <2>6
    <3>2. Step(g, i) = Step(f, i)
      BY <2>5, <3>1
    <3>3. CASE i = p
      <4>1. g[i] = Step(f, i)
        BY <3>3
      <4> QED
        BY <3>2, <4>1, Zenon
    <3>4. CASE i # p
      <4>1. i + n > L
        BY <2>3, <2>4, <3>1, <3>4
      <4>2. f[i] = Step(f, i)
        BY <2>2, <4>1
      <4>3. g[i] = f[i]
        BY <3>4
      <4> QED
        BY <3>2, <4>2, <4>3, Zenon
    <3> QED
      BY <3>3, <3>4
  <2>7. g = [i \in D |-> g[i]]
    OBVIOUS
  <2>8. Built(g, n + 1)
    BY <2>6, <2>7, Zenon
  <2> HIDE DEF Built, g
  <2> QED
    BY <2>8
<1> HIDE DEF Built
<1>3. Nat \subseteq Good
  <2> HIDE DEF Good
  <2> QED
    BY <1>1, <1>2, NatSets
<1>4. PICK f : Built(f, L)
  BY <1>3
<1>5. ASSUME NEW i \in D PROVE i + L > L
  OBVIOUS
<1>6. f = [i \in D |-> Step(f, i)]
  <2>1. f = [i \in D |-> f[i]]
    BY <1>4, Zenon DEF Built
  <2>2. \A i \in D : f[i] = Step(f, i)
    BY <1>4, <1>5, Zenon DEF Built
  <2> HIDE DEF Step, D
  <2> QED
    BY <2>1, <2>2, Zenon
<1>7. Decodes(s, f)
  BY <1>6, Zenon DEF Decodes
<1> QED
  BY <1>7

LEMMA DecodedBy ==
  ASSUME NEW s, Len(s) \in Nat
  PROVE  \E f : Decodes(s, f) /\ Decoded(s) = f[1]
<1>1. Decodes(s, CHOOSE f : Decodes(s, f))
  BY DecodesExists, Zenon
<1>2. Decoded(s) = (CHOOSE f : Decodes(s, f))[1]
  BY DEF Decoded, Decodes, Escapes
<1> QED
  BY <1>1, <1>2

(* Marks only go up, by three at most. *)
LEMMA Positions ==
  ASSUME NEW s \in Str, NEW t \in Str, NEW m, Marks(s, t, m),
         NEW k \in 1 .. Len(t)
  PROVE  /\ m[k - 1] \in Nat /\ m[k] \in Nat
         /\ m[k - 1] + 1 \in 1 .. Len(s) /\ m[k] <= Len(s)
         /\ Piece(s, m[k - 1], m[k], t[k])
<1>1. Len(t) \in Nat /\ Len(s) \in Nat
  BY DEF Str
<1>2. k - 1 \in 0 .. Len(t) /\ k \in 0 .. Len(t)
  BY <1>1
<1>3. m \in [0 .. Len(t) -> Nat] /\ Piece(s, m[k - 1], m[k], t[k])
  BY Zenon DEF Marks
<1>4. PICK i \in Nat, j \in Nat : i = m[k - 1] /\ j = m[k]
  BY <1>2, <1>3
<1>5. j <= Len(s) /\ (j = i + 3 \/ j = i + 1)
  BY <1>3, <1>4 DEF Piece
<1>6. i + 1 \in 1 .. Len(s)
  BY <1>1, <1>5
<1> QED
  BY <1>3, <1>4, <1>5, <1>6

(* A piece is decoded into the character it stands for. *)
LEMMA PieceDecoded ==
  ASSUME NEW s \in Str, NEW f, Decodes(s, f), NEW c \in Char,
         NEW i \in Nat, NEW j \in Nat, i + 1 <= Len(s), Piece(s, i, j, c)
  PROVE  f[i + 1] = <<c>> \o f[j + 1]
<1>1. Len(s) \in Nat
  BY DEF Str
<1> DEFINE h == i + 1
<1>2. h \in 1 .. Len(s) + 3 /\ h \in Nat /\ ~(h > Len(s))
  BY <1>1
<1>3. f[h] = IF Escapes(s, h) = {} THEN <<s[h]>> \o f[h + 1]
             ELSE <<CHOOSE x \in Escapes(s, h) : TRUE>> \o f[h + 3]
  <2> HIDE DEF h
  <2>1. f[h] = IF h > Len(s) THEN <<>>
               ELSE IF Escapes(s, h) = {} THEN <<s[h]>> \o f[h + 1]
               ELSE <<CHOOSE x \in Escapes(s, h) : TRUE>> \o f[h + 3]
    BY <1>2, Zenon DEF Decodes
  <2> QED
    BY <1>2, <2>1, Zenon
<1>4. CASE /\ j = i + 3 /\ s[i + 1] = Percent
           /\ s[i + 2] = Hi[c] /\ s[i + 3] = Lo[c]
  <2>1. /\ h + 1 = i + 2 /\ h + 2 = i + 3 /\ h + 3 = j + 1 /\ h + 2 <= Len(s)
    BY <1>1, <1>4 DEF Piece
  <2>2. Escapes(s, h) = {c}
    <3>1. /\ s[h] = Percent /\ h + 2 <= Len(s)
          /\ s[h + 1] = Hi[c] /\ s[h + 2] = Lo[c]
      BY <1>4, <2>1
    <3>2. c \in Escapes(s, h)
      BY <3>1 DEF Escapes
    <3>3. ASSUME NEW d \in Escapes(s, h) PROVE d = c
      <4>1. d \in Char /\ s[h + 1] = Hi[d] /\ s[h + 2] = Lo[d]
        BY DEF Escapes
      <4> QED
        BY <3>1, <4>1, PathAssumption
    <3> QED
      BY <3>2, <3>3
  <2>3. (CHOOSE x \in {c} : TRUE) = c
    OBVIOUS
  <2>4. f[h] = <<c>> \o f[h + 3]
    <3> HIDE DEF h
    <3> QED
      BY <1>3, <2>2, <2>3
  <2> QED
    BY <2>1, <2>4
<1>5. CASE j = i + 1 /\ s[i + 1] = c /\ c # Percent
  <2>1. Escapes(s, h) = {}
    BY <1>5 DEF Escapes
  <2>2. f[h] = <<s[h]>> \o f[h + 1]
    <3> HIDE DEF h
    <3> QED
      BY <1>3, <2>1, Zenon
  <2> QED
    BY <1>5, <2>2
<1> QED
  BY <1>4, <1>5 DEF Piece

(* The text reads as what it spells. *)
LEMMA SpellingDecoded ==
  ASSUME NEW s \in Str, NEW t \in Str, Spells(s, t)
  PROVE  Decoded(s) = t
<1>1. PICK m : Marks(s, t, m)
  BY DEF Spells
<1>2. Len(s) \in Nat /\ t \in Seq(Char)
  BY DEF Str
<1>3. PICK f : Decodes(s, f) /\ Decoded(s) = f[1]
  BY <1>2, DecodedBy
<1>4. PICK L \in Nat : L = Len(t)
  BY <1>2
<1> DEFINE Good == {n \in Nat : \A k \in 0 .. L :
                      k + n = L => f[m[k] + 1] = SubSeq(t, k + 1, L)}
<1>5. 0 \in Good
  <2>1. m[L] = Len(s) /\ SubSeq(t, L + 1, L) = <<>>
    BY <1>1, <1>2, <1>4 DEF Marks
  <2>2. f[Len(s) + 1] = <<>>
    <3>1. PICK i \in Nat : i = Len(s) + 1
      BY <1>2
    <3>2. i \in 1 .. Len(s) + 3 /\ i > Len(s)
      BY <1>2, <3>1
    <3>3. f[i] = <<>>
      BY <1>3, <3>2, Zenon DEF Decodes
    <3> QED
      BY <3>1, <3>3
  <2>3. f[m[L] + 1] = SubSeq(t, L + 1, L)
    BY <2>1, <2>2
  <2>4. \A k \in 0 .. L : k + 0 = L => k = L
    OBVIOUS
  <2> QED
    BY <2>3, <2>4
<1>6. ASSUME NEW n \in Nat, n \in Good PROVE n + 1 \in Good
  <2> SUFFICES ASSUME NEW k \in 0 .. L, k + (n + 1) = L
               PROVE  f[m[k] + 1] = SubSeq(t, k + 1, L)
    OBVIOUS
  <2>1. PICK l \in 1 .. Len(t) : l = k + 1
    BY <1>4
  <2>2. l \in 0 .. L /\ l + n = L /\ l - 1 = k
    BY <1>4, <2>1
  <2>3. f[m[l] + 1] = SubSeq(t, l + 1, L)
    BY <1>6, <2>2
  <2>4. /\ m[k] \in Nat /\ m[l] \in Nat /\ m[k] + 1 <= Len(s)
        /\ Piece(s, m[k], m[l], t[l])
    <3>1. /\ m[l - 1] \in Nat /\ m[l] \in Nat
          /\ m[l - 1] + 1 \in 1 .. Len(s) /\ Piece(s, m[l - 1], m[l], t[l])
      BY <1>1, Positions
    <3>2. PICK i \in Nat : i = m[l - 1]
      BY <3>1
    <3>3. i + 1 <= Len(s)
      BY <1>2, <3>1, <3>2
    <3> QED
      BY <2>2, <3>1, <3>2, <3>3, Zenon
  <2>5. t[l] \in Char
    BY <1>2, <2>1
  <2>6. f[m[k] + 1] = <<t[l]>> \o f[m[l] + 1]
    <3>1. PICK i \in Nat, j \in Nat : i = m[k] /\ j = m[l]
      BY <2>4
    <3>2. i + 1 <= Len(s) /\ Piece(s, i, j, t[l]) /\ Decodes(s, f)
      BY <1>3, <2>4, <3>1
    <3>3. f[i + 1] = <<t[l]>> \o f[j + 1]
      BY <2>5, <3>2, PieceDecoded
    <3> QED
      BY <3>1, <3>3
  <2>7. <<t[l]>> \o SubSeq(t, l + 1, L) = SubSeq(t, l, L)
    BY <1>2, <1>4, <2>1
  <2> QED
    BY <2>1, <2>3, <2>6, <2>7
<1>7. Nat \subseteq Good
  <2> HIDE DEF Good
  <2> QED
    BY <1>5, <1>6, NatSets
<1>8. f[m[0] + 1] = SubSeq(t, 1, L)
  <2>1. L \in Good /\ 0 \in 0 .. L /\ 0 + L = L
    BY <1>7
  <2>2. f[m[0] + 1] = SubSeq(t, 0 + 1, L)
    BY <2>1
  <2> QED
    BY <2>2
<1>9. m[0] = 0 /\ SubSeq(t, 1, L) = t
  BY <1>1, <1>2, <1>4 DEF Marks
<1> QED
  BY <1>3, <1>8, <1>9

(* The empty text spells the empty name. *)
LEMMA SpellsNothing == Spells(<<>>, <<>>)
<1> DEFINE m == [k \in 0 .. 0 |-> 0]
<1>1. Marks(<<>>, <<>>, m)
  BY DEF Marks
<1> QED
  BY <1>1 DEF Spells

(* One more character, or its escape, spells one more character. *)
LEMMA SpellsMore ==
  ASSUME NEW s \in Str, NEW t \in Str, NEW c \in Char, NEW u \in Str,
         Spells(s, t),
         Piece(s \o u, Len(s), Len(s) + Len(u), c)
  PROVE  Spells(s \o u, Append(t, c))
<1>1. PICK m : Marks(s, t, m)
  BY DEF Spells
<1>2. /\ s \in Seq(Char) /\ t \in Seq(Char) /\ u \in Seq(Char)
      /\ Len(s) \in Nat /\ Len(u) \in Nat
  BY DEF Str
<1>3. PICK n \in Nat : n = Len(t)
  BY <1>2
<1>4. PICK w : w = s \o u
  OBVIOUS
<1>5. PICK v : v = Append(t, c)
  OBVIOUS
<1>6. /\ Len(w) = Len(s) + Len(u)
      /\ \A i \in 1 .. Len(s) : w[i] = s[i]
  BY <1>2, <1>4
<1>7. Len(v) = n + 1 /\ v[n + 1] = c /\ \A k \in 1 .. n : v[k] = t[k]
  BY <1>2, <1>3, <1>5
<1> DEFINE p == [k \in 0 .. n + 1 |-> IF k = n + 1 THEN Len(w) ELSE m[k]]
<1>8. p \in [0 .. Len(v) -> Nat]
  BY <1>1, <1>2, <1>3, <1>6, <1>7 DEF Marks
<1>9. p[0] = 0 /\ p[Len(v)] = Len(w)
  BY <1>1, <1>7 DEF Marks
<1>10. ASSUME NEW k \in 1 .. Len(v) PROVE Piece(w, p[k - 1], p[k], v[k])
  <2>1. CASE k = n + 1
    <3>1. p[k] = Len(s) + Len(u) /\ p[k - 1] = Len(s) /\ v[k] = c
      BY <1>1, <1>3, <1>6, <1>7, <2>1 DEF Marks
    <3> QED
      BY <1>4, <3>1
  <2>2. CASE k # n + 1
    <3>1. k \in 1 .. n
      BY <1>7, <2>2
    <3>2. p[k] = m[k] /\ p[k - 1] = m[k - 1] /\ v[k] = t[k]
      BY <1>7, <3>1
    <3>3. /\ m[k - 1] \in Nat /\ m[k] \in Nat /\ m[k] <= Len(s)
          /\ Piece(s, m[k - 1], m[k], t[k])
      BY <1>1, <1>3, <3>1, Positions
    <3>4. Piece(w, m[k - 1], m[k], t[k])
      <4>1. PICK i \in Nat, j \in Nat : i = m[k - 1] /\ j = m[k]
        BY <3>3
      <4>2. j <= Len(w)
        BY <1>2, <1>6, <3>3, <4>1
      <4>3. CASE /\ j = i + 3 /\ s[i + 1] = Percent
                 /\ s[i + 2] = Hi[t[k]] /\ s[i + 3] = Lo[t[k]]
        <5>1. i + 3 <= Len(s)
          BY <3>3, <4>1, <4>3
        <5>2. /\ i + 1 \in 1 .. Len(s) /\ i + 2 \in 1 .. Len(s)
              /\ i + 3 \in 1 .. Len(s)
          BY <1>2, <5>1
        <5>3. w[i + 1] = s[i + 1] /\ w[i + 2] = s[i + 2] /\ w[i + 3] = s[i + 3]
          BY <1>6, <5>2, Zenon
        <5> QED
          BY <4>1, <4>2, <4>3, <5>3 DEF Piece
      <4>4. CASE j = i + 1 /\ s[i + 1] = t[k] /\ t[k] # Percent
        <5>1. i + 1 \in 1 .. Len(s)
          BY <1>2, <3>3, <4>1, <4>4
        <5>2. w[i + 1] = s[i + 1]
          BY <1>6, <5>1
        <5> QED
          BY <4>1, <4>2, <4>4, <5>2 DEF Piece
      <4> QED
        BY <3>3, <4>1, <4>3, <4>4 DEF Piece
    <3> QED
      BY <3>2, <3>4
  <2> QED
    BY <2>1, <2>2
<1>11. Marks(w, v, p)
  <2> HIDE DEF p
  <2> QED
    BY <1>8, <1>9, <1>10 DEF Marks
<1> QED
  BY <1>4, <1>5, <1>11 DEF Spells

(* What the name has become so far spells the part of it already read. *)
Spelled == Spells(buf, SubSeq(base, 1, cp))

(* At most the name is split, and nothing has been read of it yet. *)
LEMMA NothingSpelled ==
  ASSUME IInv, pc = "split", UNCHANGED <<cp, buf>>, base' \in Str
  PROVE  Spelled'
<1>1. cp' = 0 /\ buf' = <<>>
  BY DEF IInv, Parts
<1>2. SubSeq(base', 1, 0) = <<>>
  BY DEF Str
<1> QED
  BY <1>1, <1>2, SpellsNothing DEF Spelled

(* Where the characters of the second of two joined texts are. *)
LEMMA Behind ==
  ASSUME NEW s \in Str, NEW u \in Str
  PROVE  /\ Len(s \o u) = Len(s) + Len(u)
         /\ \A i \in 1 .. Len(u) : (s \o u)[Len(s) + i] = u[i]
<1>1. s \in Seq(Char) /\ u \in Seq(Char) /\ Len(s) \in Nat /\ Len(u) \in Nat
  BY DEF Str
<1>2. Len(s \o u) = Len(s) + Len(u)
  BY <1>1
<1>3. ASSUME NEW i \in 1 .. Len(u) PROVE (s \o u)[Len(s) + i] = u[i]
  <2>1. PICK k \in 1 .. Len(s) + Len(u) : k = Len(s) + i
    BY <1>1
  <2>2. k > Len(s) /\ k - Len(s) = i
    BY <1>1, <2>1
  <2>3. (s \o u)[k] = u[k - Len(s)]
    BY <1>1, <2>1, <2>2
  <2> QED
    BY <2>1, <2>2, <2>3
<1> QED
  BY <1>2, <1>3

LEMMA SanitizeSpells ==
  ASSUME IInv, Spelled, Sanitize
  PROVE  Spelled'
<1>1. /\ base \in Seq(Char) /\ Len(base) \in Nat /\ buf \in Str
      /\ cp \in Nat /\ cp < Len(base)
  BY DEF IInv, TypeOK, Sanitize, Str
<1>2. PICK c \in Char : c = base[cp + 1]
  BY <1>1
<1>3. PICK b : b = buf
  OBVIOUS
<1>4. PICK t : t = SubSeq(base, 1, cp)
  OBVIOUS
<1>5. t \in Str /\ b \in Str /\ Spells(b, t)
  BY <1>1, <1>3, <1>4 DEF Spelled, Str
<1>6. SubSeq(base', 1, cp') = Append(t, c)
  BY <1>1, <1>2, <1>4 DEF Sanitize
<1>7. b \in Seq(Char) /\ Len(b) \in Nat /\ Percent \in Char
  BY <1>5, PathAssumption DEF Str
<1>8. CASE Escaped(c)
  <2>1. Hi[c] \in Char /\ Lo[c] \in Char
    BY PathAssumption
  <2>2. PICK u : u = <<Percent, Hi[c], Lo[c]>>
    OBVIOUS
  <2>3. /\ u \in Str /\ Len(u) = 3
        /\ u[1] = Percent /\ u[2] = Hi[c] /\ u[3] = Lo[c]
    BY <1>7, <2>1, <2>2 DEF Str
  <2>4. Piece(b \o u, Len(b), Len(b) + Len(u), c)
    <3>1. /\ (b \o u)[Len(b) + 1] = u[1] /\ (b \o u)[Len(b) + 2] = u[2]
          /\ (b \o u)[Len(b) + 3] = u[3] /\ Len(b \o u) = Len(b) + 3
      <4>1. {1, 2, 3} \subseteq 1 .. Len(u)
        BY <2>3
      <4>2. /\ Len(b \o u) = Len(b) + Len(u)
            /\ \A i \in 1 .. Len(u) : (b \o u)[Len(b) + i] = u[i]
        BY <1>5, <2>3, Behind
      <4> QED
        BY <2>3, <4>1, <4>2
    <3>2. Len(b) + Len(u) = Len(b) + 3 /\ Len(b) + 3 <= Len(b \o u)
      BY <1>7, <2>3, <3>1
    <3> QED
      BY <2>3, <3>1, <3>2 DEF Piece
  <2>5. Spells(b \o u, Append(t, c))
    BY <1>5, <2>3, <2>4, SpellsMore
  <2>6. buf' = b \o u
    BY <1>2, <1>3, <1>8, <2>2 DEF Sanitize
  <2> QED
    BY <1>6, <2>5, <2>6 DEF Spelled
<1>9. CASE ~Escaped(c)
  <2>1. c # Percent
    BY <1>9 DEF Escaped
  <2>2. PICK u : u = <<c>>
    OBVIOUS
  <2>3. u \in Str /\ Len(u) = 1 /\ u[1] = c
    BY <2>2 DEF Str
  <2>4. Piece(b \o u, Len(b), Len(b) + Len(u), c)
    <3>1. (b \o u)[Len(b) + 1] = u[1] /\ Len(b \o u) = Len(b) + 1
      <4>1. 1 \in 1 .. Len(u)
        BY <2>3
      <4>2. /\ Len(b \o u) = Len(b) + Len(u)
            /\ \A i \in 1 .. Len(u) : (b \o u)[Len(b) + i] = u[i]
        BY <1>5, <2>3, Behind
      <4> QED
        BY <2>3, <4>1, <4>2
    <3>2. Len(b) + Len(u) = Len(b) + 1 /\ Len(b) + 1 <= Len(b \o u)
      BY <1>7, <2>3, <3>1
    <3> QED
      BY <2>1, <2>3, <3>1, <3>2 DEF Piece
  <2>5. Spells(b \o u, Append(t, c))
    BY <1>5, <2>3, <2>4, SpellsMore
  <2>6. buf' = b \o u
    BY <1>2, <1>3, <1>9, <2>2 DEF Sanitize
  <2> QED
    BY <1>6, <2>5, <2>6 DEF Spelled
<1> QED
  BY <1>8, <1>9

LEMMA SpelledInvariance == Spec => []Spelled
<1>1. Init => Spelled
  <2> SUFFICES ASSUME Init PROVE Spelled
    OBVIOUS
  <2>1. SubSeq(<<>>, 1, 0) = <<>>
    OBVIOUS
  <2>2. buf = <<>> /\ base = <<>> /\ cp = 0
    BY DEF Init
  <2> QED
    BY <2>1, <2>2, SpellsNothing, Zenon DEF Spelled
<1>2. IInv /\ IInv' /\ Spelled /\ [Next]_vars => Spelled'
  <2> SUFFICES ASSUME IInv, IInv', Spelled, [Next]_vars PROVE Spelled'
    OBVIOUS
  <2>1. CASE SplitBase \/ SplitPath
    <3>1. base' \in Str
      BY DEF IInv, TypeOK
    <3> QED
      BY <2>1, <3>1, NothingSpelled DEF SplitBase, SplitPath
  <2>2. CASE Sanitize
    BY <2>2, SanitizeSpells
  <2>3. CASE GiveUp \/ Strip \/ Join \/ Place \/ OverLimit \/ UNCHANGED vars
    <3>1. UNCHANGED <<base, cp, buf>>
      BY <2>3 DEF GiveUp, Strip, Join, Place, OverLimit, vars
    <3> QED
      BY <3>1 DEF Spelled
  <2> QED
    BY <2>1, <2>2, <2>3 DEF Next
<1> QED
  BY <1>1, <1>2, Invariance, PTL DEF Spec

-----------------------------------------------------------------------------
(* Theorems *)

(* Every variable keeps its type, and no directory part is empty.          *)
THEOREM Typed == Spec => []TypeOK
BY Invariance, PTL DEF IInv

(* sanitize_filename never writes past the buffer it allocated.            *)
THEOREM StaysInBuffer == Spec => []BufferFits
<1>1. IInv => BufferFits
  <2> SUFFICES ASSUME IInv PROVE BufferFits
    OBVIOUS
  <2>1. /\ cp \in Nat /\ cp <= Len(base) /\ Len(base) \in Nat
        /\ Len(buf) \in Nat /\ Len(buf) <= 3 * cp
    BY DEF IInv, TypeOK, Parts, Str
  <2> QED
    BY <2>1, PathAssumption DEF BufferFits, Capacity
<1> QED
  BY <1>1, Invariance, PTL

(* No separator, control or other unwanted character survives in the file  *)
(* name.                                                                   *)
THEOREM NamesAreSanitary == Spec => []Sanitary
BY Invariance, PTL DEF IInv

(* Every path opened begins with the output directory; without --use-paths *)
(* one name follows it.  That a path with a ".." leads nowhere else is not *)
(* said.                                                                   *)
THEOREM PathsBegin == Spec => []BeginsWithDirectory
BY Invariance, PTL DEF IInv

(* A name that is not empty is never replaced by the default name.         *)
THEOREM NamesAreKept == Spec => []NamedUnlessEmpty
BY Invariance, PTL DEF IInv

(* Escaping loses nothing, however long the name: what it becomes decodes  *)
(* to the name, so two names never become one.                             *)
THEOREM EscapingIsReversible == Spec => []Reversible
<1>1. IInv /\ Spelled => Reversible
  <2> SUFFICES ASSUME IInv, Spelled PROVE Reversible
    OBVIOUS
  <2>1. buf \in Str /\ SubSeq(base, 1, cp) \in Str
    BY DEF IInv, TypeOK, Str
  <2> QED
    BY <2>1, SpellingDecoded DEF Spelled, Reversible
<1> QED
  BY <1>1, Invariance, SpelledInvariance, PTL
=============================================================================
