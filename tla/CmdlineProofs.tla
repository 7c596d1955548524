--------------------------- MODULE CmdlineProofs ---------------------------
(***************************************************************************)
(* What parse_cmdline and main promise parse_file, for every command line: *)
(* the settings are what the words passed so far ask for.                  *)
(***************************************************************************)
EXTENDS Cmdline, DataInduction

-----------------------------------------------------------------------------
(* Words *)

(* Which of the names go with a flag. *)
LEMMA FlagNames ==
  /\ "save_body" \in DOMAIN FlagsOf
  /\ \A n \in {"file", "directory", "body_pref", "maxsize", "operand"} :
       n \notin DOMAIN FlagsOf
  BY DEF FlagsOf

(* --save-body alone sets SAVEBODY. *)
LEMMA SaveBodyFlag ==
  /\ "SAVEBODY" \in FlagsOf["save_body"]
  /\ \A n \in DOMAIN FlagsOf \ {"save_body"} : "SAVEBODY" \notin FlagsOf[n]
  BY DEF FlagsOf

(* No option sets more than there is. *)
LEMMA FlagsInRange ==
  ASSUME NEW n \in DOMAIN FlagsOf
  PROVE  FlagsOf[n] \subseteq Flags
  BY DEF Flags

(* An option has an argument of its own kind. *)
LEMMA Arguments ==
  ASSUME NEW w \in Word
  PROVE  /\ w.name \in {"file", "operand"} => w.arg \in Path \cup {Dash}
         /\ w.name = "directory" => w.arg \in Path
         /\ w.name = "save_body" => w.arg \in Path \cup {NULL}
         /\ w.name = "body_pref" => w.arg \in Seq(Char)
         /\ w.name = "maxsize" => w.arg.value \in Int
<1>1. w.arg \in ArgsOf(w.name)
  BY CmdlineAssumption
<1>2. w.name = "maxsize" => w.arg \in Size
  BY <1>1 DEF ArgsOf
<1> QED
  BY <1>1, <1>2 DEF ArgsOf, Size

(* Lowering keeps a word a word of its length. *)
LEMMA LowerTyped ==
  ASSUME NEW s \in Seq(Char)
  PROVE  /\ Lower(s) \in Seq(Char) /\ Len(Lower(s)) = Len(s)
         /\ DOMAIN Lower(s) = DOMAIN s
<1>1. Len(s) \in Nat /\ DOMAIN s = 1 .. Len(s)
  OBVIOUS
<1>2. \A i \in 1 .. Len(s) : ToLower[s[i]] \in Char
  <2>1. ToLower \in [Char -> Char]
    BY CmdlineAssumption
  <2> QED
    BY <2>1
<1>3. Lower(s) = [i \in 1 .. Len(s) |-> ToLower[s[i]]]
  BY <1>1 DEF Lower
<1> QED
  BY <1>1, <1>2, <1>3

(* The default is in lower case. *)
LEMMA DefaultLower == Default \in Seq(Char) /\ Lower(Default) = Default
<1>1. {"r", "h", "t"} \subseteq Char
      /\ \A c \in {"r", "h", "t"} : ToLower[c] = c
  BY CmdlineAssumption DEF Kinds
<1>2. Default \in Seq(Char) /\ DOMAIN Default = 1 .. 3
  BY <1>1 DEF Default
<1>3. Default = [i \in 1 .. 3 |-> Default[i]]
  BY DEF Default
<1>4. \A i \in 1 .. 3 : Default[i] \in {"r", "h", "t"}
  BY DEF Default
<1>5. Lower(Default) = [i \in 1 .. 3 |-> ToLower[Default[i]]]
  BY <1>2 DEF Lower
<1> QED
  BY <1>1, <1>2, <1>3, <1>4, <1>5, Zenon

-----------------------------------------------------------------------------
(* The words up to one *)

NamedTo(args, k, name) == {i \in 1 .. k - 1 : args[i].name = name}

ArgTo(args, k, name, default) ==
  IF NamedTo(args, k, name) = {} THEN default
  ELSE args[LastOf(NamedTo(args, k, name))].arg

FlagsTo(args, k) ==
  UNION {FlagsOf[n] : n \in {m \in DOMAIN FlagsOf : NamedTo(args, k, m) # {}}}

(* One word more is the last of its name, and changes no other name. *)
LEMMA OneMore ==
  ASSUME NEW args, NEW k \in Nat \ {0}, NEW name, NEW default
  PROVE  /\ args[k].name = name =>
              /\ NamedTo(args, k + 1, name) # {}
              /\ ArgTo(args, k + 1, name, default) = args[k].arg
         /\ args[k].name # name =>
              /\ NamedTo(args, k + 1, name) = NamedTo(args, k, name)
              /\ ArgTo(args, k + 1, name, default)
                   = ArgTo(args, k, name, default)
<1>1. 1 .. k + 1 - 1 = (1 .. k - 1) \cup {k}
  OBVIOUS
<1>2. ASSUME args[k].name = name
      PROVE  /\ NamedTo(args, k + 1, name) # {}
             /\ ArgTo(args, k + 1, name, default) = args[k].arg
  <2>1. NamedTo(args, k + 1, name) = NamedTo(args, k, name) \cup {k}
    BY <1>1, <1>2 DEF NamedTo
  <2> DEFINE S == NamedTo(args, k, name) \cup {k}
  <2>2. S \subseteq Nat /\ k \in S /\ \A j \in S : j <= k
    BY DEF NamedTo
  <2> HIDE DEF S
  <2>3. LastOf(S) \in S /\ \A j \in S : j <= LastOf(S)
    BY <2>2, Zenon DEF LastOf
  <2>4. LastOf(S) = k
    <3>1. PICK l \in Nat : l = LastOf(S)
      BY <2>2, <2>3
    <3>2. l <= k /\ k <= l
      BY <2>2, <2>3, <3>1
    <3> QED
      BY <3>1, <3>2
  <2> QED
    BY <2>1, <2>2, <2>4 DEF S, ArgTo
<1>3. ASSUME args[k].name # name
      PROVE  NamedTo(args, k + 1, name) = NamedTo(args, k, name)
  BY <1>1, <1>3 DEF NamedTo
<1> QED
  BY <1>2, <1>3, Zenon DEF ArgTo

(* And adds its flags, if it has any. *)
LEMMA OneMoreFlag ==
  ASSUME NEW args, NEW k \in Nat \ {0}
  PROVE  /\ args[k].name \in DOMAIN FlagsOf =>
              FlagsTo(args, k + 1)
                = FlagsTo(args, k) \cup FlagsOf[args[k].name]
         /\ args[k].name \notin DOMAIN FlagsOf =>
              FlagsTo(args, k + 1) = FlagsTo(args, k)
<1>1. ASSUME NEW m
      PROVE NamedTo(args, k + 1, m) # {}
              <=> (NamedTo(args, k, m) # {} \/ m = args[k].name)
  BY OneMore, Zenon
<1>2. ASSUME args[k].name \in DOMAIN FlagsOf
      PROVE FlagsTo(args, k + 1) = FlagsTo(args, k) \cup FlagsOf[args[k].name]
  BY <1>1, <1>2 DEF FlagsTo
<1>3. ASSUME args[k].name \notin DOMAIN FlagsOf
      PROVE FlagsTo(args, k + 1) = FlagsTo(args, k)
  BY <1>1, <1>3 DEF FlagsTo
<1> QED
  BY <1>2, <1>3

-----------------------------------------------------------------------------
(* The invariant *)

FileTo(k) ==
  IF ArgTo(argv, k, "file", Dash) = Dash THEN NULL
  ELSE ArgTo(argv, k, "file", Dash)

BodyFileTo(k) ==
  IF /\ NamedTo(argv, k, "save_body") # {}
     /\ ArgTo(argv, k, "save_body", NULL) = NULL
  THEN Message ELSE ArgTo(argv, k, "save_body", NULL)

(* The settings are what the words before optind ask for.                  *)
SoFar ==
  /\ flags = FlagsTo(argv, optind)
  /\ out_dir = ArgTo(argv, optind, "directory", NULL)
  /\ body_pref = Lower(ArgTo(argv, optind, "body_pref", Default))
  /\ body_file = BodyFileTo(optind)
  /\ in_file = IF pc \in {"open", "parse"} /\ Operands # {}
               THEN argv[FirstOf(Operands)].arg ELSE FileTo(optind)

Usable(s) ==
  s = All \/ (Len(s) \in 1 .. 3 /\ \A i \in DOMAIN s : s[i] \in Kinds)

Inv ==
  /\ TypeOK
  /\ pc \notin {"exit", "abort"} => SoFar
  /\ Usable(body_pref)
  /\ pc \in {"operands", "open", "parse"} => optind = Len(argv) + 1
  /\ pc = "parse" => ~PromptsOnInput

(* The invariant holds before the first word. *)
LEMMA InvInit == Init => Inv
<1> SUFFICES ASSUME Init PROVE Inv
  OBVIOUS
<1>1. PICK n \in 0 .. MaxWords : argv \in [1 .. n -> Word]
  BY DEF Init
<1>2. n \in Nat /\ n <= MaxWords
  BY CmdlineAssumption
<1>3. argv \in Seq(Word) /\ Len(argv) = n
  BY <1>1, <1>2
<1>4. SizeMod \in Nat \ {0} /\ NULL \notin Path
  BY CmdlineAssumption
<1>5. TypeOK
  BY <1>2, <1>3, <1>4, DefaultLower DEF Init, TypeOK
<1>6. \A name : NamedTo(argv, 1, name) = {}
  BY DEF NamedTo
<1>7. FlagsTo(argv, 1) = {}
  BY <1>6 DEF FlagsTo
<1>8. \A name, default : ArgTo(argv, 1, name, default) = default
  BY <1>6 DEF ArgTo
<1>9. SoFar
  BY <1>6, <1>7, <1>8, DefaultLower DEF Init, SoFar, FileTo, BodyFileTo
<1>10. Usable(body_pref)
  BY DEF Init, Usable, Default, Kinds
<1> QED
  BY <1>5, <1>9, <1>10 DEF Init, Inv

(* What a word that is passed needs to change for the settings to be what  *)
(* is asked for: nothing else does.                                        *)
LEMMA TakenSoFar ==
  ASSUME TypeOK, SoFar, pc = "options", optind <= Len(argv), Taken
  PROVE  LET name == argv[optind].name IN
         /\ flags' = flags \cup IF name \in DOMAIN FlagsOf THEN FlagsOf[name]
                                ELSE {}
         /\ out_dir' = IF name = "directory" THEN Arg ELSE out_dir
         /\ body_pref' = IF name = "body_pref" THEN Lower(Arg) ELSE body_pref
         /\ body_file' = IF name # "save_body" THEN body_file
                         ELSE IF Arg = NULL THEN Message ELSE Arg
         /\ in_file' = IF name # "file" THEN in_file
                       ELSE IF Arg = Dash THEN NULL ELSE Arg
         => SoFar'
<1> DEFINE name == argv[optind].name
<1> SUFFICES ASSUME
         /\ flags' = flags \cup IF name \in DOMAIN FlagsOf THEN FlagsOf[name]
                                ELSE {}
         /\ out_dir' = IF name = "directory" THEN Arg ELSE out_dir
         /\ body_pref' = IF name = "body_pref" THEN Lower(Arg) ELSE body_pref
         /\ body_file' = IF name # "save_body" THEN body_file
                         ELSE IF Arg = NULL THEN Message ELSE Arg
         /\ in_file' = IF name # "file" THEN in_file
                       ELSE IF Arg = Dash THEN NULL ELSE Arg
             PROVE SoFar'
  OBVIOUS
<1>1. optind \in Nat \ {0} /\ optind' = optind + 1 /\ argv' = argv /\ pc' = pc
  BY DEF TypeOK, Taken
<1>2. flags' = FlagsTo(argv', optind')
  <2>1. flags = FlagsTo(argv, optind)
    BY DEF SoFar
  <2>2. CASE name \in DOMAIN FlagsOf
    <3>1. FlagsTo(argv, optind + 1) = FlagsTo(argv, optind) \cup FlagsOf[name]
      BY <1>1, <2>2, OneMoreFlag
    <3> QED
      BY <1>1, <2>1, <2>2, <3>1
  <2>3. CASE name \notin DOMAIN FlagsOf
    <3>1. FlagsTo(argv, optind + 1) = FlagsTo(argv, optind)
      BY <1>1, <2>3, OneMoreFlag
    <3> QED
      BY <1>1, <2>1, <2>3, <3>1
  <2> QED
    BY <2>2, <2>3
<1>3. ASSUME NEW n, NEW d
      PROVE  ArgTo(argv', optind', n, d)
               = IF name = n THEN Arg ELSE ArgTo(argv, optind, n, d)
  <2>1. ArgTo(argv, optind + 1, n, d)
          = IF name = n THEN argv[optind].arg ELSE ArgTo(argv, optind, n, d)
    <3>1. PICK args : args = argv
      OBVIOUS
    <3>2. PICK k \in Nat \ {0} : k = optind
      BY <1>1
    <3>3. /\ args[k].name = n =>
               ArgTo(args, k + 1, n, d) = args[k].arg
          /\ args[k].name # n =>
               ArgTo(args, k + 1, n, d) = ArgTo(args, k, n, d)
      BY OneMore
    <3> QED
      BY <3>1, <3>2, <3>3, Zenon
  <2> QED
    BY <1>1, <2>1 DEF Arg
<1>4. out_dir' = ArgTo(argv', optind', "directory", NULL)
  BY <1>3 DEF SoFar
<1>5. body_pref' = Lower(ArgTo(argv', optind', "body_pref", Default))
  BY <1>3 DEF SoFar
<1>6. body_file' = BodyFileTo(optind)'
  <2>1. body_file = BodyFileTo(optind)
    BY DEF SoFar
  <2>2. NamedTo(argv', optind', "save_body") # {}
          <=> (name = "save_body" \/ NamedTo(argv, optind, "save_body") # {})
    BY <1>1, OneMore
  <2>3. ArgTo(argv', optind', "save_body", NULL)
          = IF name = "save_body" THEN Arg
            ELSE ArgTo(argv, optind, "save_body", NULL)
    BY <1>3
  <2> QED
    BY <2>1, <2>2, <2>3 DEF BodyFileTo
<1>7. in_file' = FileTo(optind)'
  <2>1. in_file = FileTo(optind)
    BY DEF SoFar
  <2>2. ArgTo(argv', optind', "file", Dash)
          = IF name = "file" THEN Arg ELSE ArgTo(argv, optind, "file", Dash)
    BY <1>3
  <2> QED
    BY <2>1, <2>2 DEF FileTo
<1> QED
  BY <1>1, <1>2, <1>4, <1>5, <1>6, <1>7 DEF SoFar

(* A preference that is taken is usable. *)
LEMMA ValidIsUsable ==
  ASSUME NEW s \in Seq(Char), validate_body_pref(s)
  PROVE  Usable(Lower(s))
  BY LowerTyped DEF validate_body_pref, Usable

(* The first of the operands is one. *)
LEMMA FirstOperand ==
  ASSUME TypeOK, Operands # {}
  PROVE  FirstOf(Operands) \in Operands
<1>1. Operands \in SUBSET Nat
  BY DEF Operands, TypeOK
<1>2. \E i \in Operands : \A j \in Operands : i <= j
  BY <1>1, LeastElement
<1> QED
  BY <1>2, Zenon DEF FirstOf

(* Each step keeps the invariant. *)
LEMMA InvStep ==
  ASSUME Inv, Next
  PROVE  Inv'
<1> USE DEF Inv
<1>1. /\ argv \in Seq(Word) /\ Len(argv) \in Nat /\ Len(argv) <= MaxWords
      /\ optind \in 1 .. Len(argv) + 1
  BY DEF TypeOK
<1>2. Message \in Path /\ NULL \notin Path /\ SizeMod \in Nat \ {0}
  BY CmdlineAssumption
<1>3. ASSUME NEW names, Option(names)
      PROVE  /\ argv[optind] \in Word /\ argv[optind].name \in names
             /\ pc = "options" /\ optind <= Len(argv) /\ SoFar
             /\ optind + 1 \in 1 .. Len(argv) + 1
  BY <1>1, <1>3 DEF Option
<1>4. CASE FlagOption
  <2> DEFINE name == argv[optind].name
  <2>1. /\ name \in DOMAIN FlagsOf \ {"save_body"}
        /\ pc = "options" /\ optind <= Len(argv) /\ SoFar /\ Taken
        /\ optind + 1 \in 1 .. Len(argv) + 1
        /\ flags' = flags \cup FlagsOf[name]
        /\ UNCHANGED <<in_file, out_dir, body_file, body_pref, max_size>>
    BY <1>3, <1>4 DEF FlagOption
  <2>2. FlagsOf[name] \subseteq Flags /\ "SAVEBODY" \notin FlagsOf[name]
    BY <2>1, FlagsInRange, SaveBodyFlag
  <2>3. TypeOK'
    BY <2>1, <2>2 DEF TypeOK, Taken
  <2>4. name \notin {"file", "directory", "body_pref", "save_body"}
    BY <2>1, FlagNames
  <2>5. SoFar'
    BY <2>1, <2>4, TakenSoFar
  <2> QED
    BY <2>1, <2>3, <2>5 DEF Taken
<1>5. CASE SaveBody
  <2>1. /\ argv[optind].name = "save_body" /\ Arg \in Path \cup {NULL}
        /\ pc = "options" /\ optind <= Len(argv) /\ SoFar /\ Taken
        /\ optind + 1 \in 1 .. Len(argv) + 1
        /\ flags' = flags \cup FlagsOf["save_body"]
        /\ body_file' = IF Arg = NULL THEN Message ELSE Arg
        /\ UNCHANGED <<in_file, out_dir, body_pref, max_size>>
    BY <1>3, <1>5, Arguments DEF SaveBody, Arg
  <2>2. FlagsOf["save_body"] \subseteq Flags
        /\ "SAVEBODY" \in FlagsOf["save_body"]
    BY FlagNames, FlagsInRange, SaveBodyFlag
  <2>3. TypeOK'
    BY <1>2, <2>1, <2>2 DEF TypeOK, Taken
  <2>4. SoFar'
    BY <2>1, FlagNames, TakenSoFar
  <2> QED
    BY <2>1, <2>3, <2>4 DEF Taken
<1>6. CASE BodyPref
  <2>1. /\ argv[optind].name = "body_pref" /\ Arg \in Seq(Char)
        /\ pc = "options" /\ optind <= Len(argv) /\ SoFar /\ Taken
        /\ optind + 1 \in 1 .. Len(argv) + 1
        /\ validate_body_pref(Arg) /\ body_pref' = Lower(Arg)
        /\ UNCHANGED <<flags, in_file, out_dir, body_file, max_size>>
    BY <1>3, <1>6, Arguments DEF BodyPref, Arg
  <2>2. Lower(Arg) \in Seq(Char) /\ Usable(Lower(Arg))
    BY <2>1, LowerTyped, ValidIsUsable
  <2>3. TypeOK'
    BY <2>1, <2>2 DEF TypeOK, Taken
  <2>4. SoFar'
    BY <2>1, FlagNames, TakenSoFar
  <2> QED
    BY <2>1, <2>2, <2>3, <2>4 DEF Taken
<1>7. CASE FileOption
  <2>1. /\ argv[optind].name = "file" /\ Arg \in Path \cup {Dash}
        /\ pc = "options" /\ optind <= Len(argv) /\ SoFar /\ Taken
        /\ optind + 1 \in 1 .. Len(argv) + 1
        /\ in_file' = IF Arg = Dash THEN NULL ELSE Arg
        /\ UNCHANGED <<flags, out_dir, body_file, body_pref, max_size>>
    BY <1>3, <1>7, Arguments DEF FileOption, Arg
  <2>2. TypeOK'
    BY <2>1 DEF TypeOK, Taken
  <2>3. SoFar'
    BY <2>1, FlagNames, TakenSoFar
  <2> QED
    BY <2>1, <2>2, <2>3 DEF Taken
<1>8. CASE Directory
  <2>1. /\ argv[optind].name = "directory" /\ Arg \in Path
        /\ pc = "options" /\ optind <= Len(argv) /\ SoFar /\ Taken
        /\ optind + 1 \in 1 .. Len(argv) + 1
        /\ out_dir' = Arg
        /\ UNCHANGED <<flags, in_file, body_file, body_pref, max_size>>
    BY <1>3, <1>8, Arguments DEF Directory, Arg
  <2>2. TypeOK'
    BY <2>1 DEF TypeOK, Taken
  <2>3. SoFar'
    BY <2>1, FlagNames, TakenSoFar
  <2> QED
    BY <2>1, <2>2, <2>3 DEF Taken
<1>9. CASE MaxsizeOption
  <2>1. /\ argv[optind].name = "maxsize" /\ Arg.value \in Int
        /\ pc = "options" /\ optind <= Len(argv) /\ SoFar /\ Taken
        /\ optind + 1 \in 1 .. Len(argv) + 1
        /\ max_size' = IF CutNegative(Strtoul(Arg.value)) THEN 0
                       ELSE Strtoul(Arg.value)
        /\ UNCHANGED <<flags, in_file, out_dir, body_file, body_pref>>
    BY <1>3, <1>9, Arguments DEF MaxsizeOption, Arg
  <2>2. Strtoul(Arg.value) \in 0 .. SizeMod - 1
    BY <1>2, <2>1 DEF Strtoul
  <2>3. max_size' \in 0 .. SizeMod - 1
    BY <1>2, <2>1, <2>2
  <2>4. TypeOK'
    BY <2>1, <2>3 DEF TypeOK, Taken
  <2>5. SoFar'
    BY <2>1, FlagNames, TakenSoFar
  <2> QED
    BY <2>1, <2>4, <2>5 DEF Taken
<1>10. CASE PassOver
  <2>1. /\ argv[optind].name = "operand"
        /\ pc = "options" /\ optind <= Len(argv) /\ SoFar /\ Taken
        /\ optind + 1 \in 1 .. Len(argv) + 1
        /\ UNCHANGED settings
    BY <1>3, <1>10 DEF PassOver
  <2>2. TypeOK'
    BY <2>1 DEF TypeOK, Taken, settings
  <2>3. SoFar'
    BY <2>1, FlagNames, TakenSoFar DEF settings
  <2> QED
    BY <2>1, <2>2, <2>3 DEF Taken, settings
<1>11. CASE Leave \/ BadBodyPref
  <2>1. pc' \in {"exit", "abort"} /\ UNCHANGED <<argv, optind, settings>>
    BY <1>11 DEF Leave, BadBodyPref
  <2>2. TypeOK'
    BY <2>1 DEF TypeOK, settings
  <2> QED
    BY <2>1, <2>2 DEF settings
<1>12. CASE OptionsDone
  <2>1. /\ pc = "options" /\ optind = Len(argv) + 1 /\ pc' = "operands"
        /\ UNCHANGED <<argv, optind, settings>>
    BY <1>12 DEF OptionsDone
  <2>2. TypeOK'
    BY <2>1 DEF TypeOK, settings
  <2>3. SoFar'
    BY <2>1 DEF SoFar, FileTo, BodyFileTo, settings
  <2> QED
    BY <2>1, <2>2, <2>3 DEF settings
<1>13. CASE TakeOperands
  <2>1. /\ pc = "operands" /\ pc' = "open" /\ SoFar /\ optind = Len(argv) + 1
        /\ in_file' = IF Operands = {} THEN in_file
                      ELSE argv[FirstOf(Operands)].arg
        /\ UNCHANGED <<argv, optind, flags, out_dir, body_file, body_pref,
                       max_size>>
    BY <1>13 DEF TakeOperands
  <2>2. Operands # {} => argv[FirstOf(Operands)].arg \in Path \cup {Dash}
    <3>1. ASSUME Operands # {}
          PROVE  argv[FirstOf(Operands)].arg \in Path \cup {Dash}
      <4>1. FirstOf(Operands) \in Operands
        BY <3>1, FirstOperand
      <4>2. argv[FirstOf(Operands)] \in Word
            /\ argv[FirstOf(Operands)].name = "operand"
        BY <1>1, <4>1 DEF Operands
      <4> QED
        BY <4>2, Arguments
    <3> QED
      BY <3>1
  <2>3. in_file' \in Path \cup {NULL, Dash}
    BY <2>1, <2>2 DEF TypeOK
  <2>4. TypeOK'
    BY <2>1, <2>3 DEF TypeOK
  <2>5. SoFar'
    <3>1. Operands' = Operands
      BY <2>1 DEF Operands
    <3>2. in_file = FileTo(optind) /\ FileTo(optind)' = FileTo(optind)
          /\ BodyFileTo(optind)' = BodyFileTo(optind)
      BY <2>1 DEF SoFar, FileTo, BodyFileTo
    <3>3. in_file' = IF Operands' # {} THEN argv'[FirstOf(Operands')].arg
                     ELSE FileTo(optind)'
      BY <2>1, <3>1, <3>2
    <3> QED
      BY <2>1, <3>2, <3>3 DEF SoFar
  <2> QED
    BY <2>1, <2>4, <2>5
<1>14. CASE CannotOpen \/ RefusePrompts
  <2>1. pc' = "exit" /\ UNCHANGED <<argv, optind, settings>>
    BY <1>14 DEF CannotOpen, RefusePrompts
  <2>2. TypeOK'
    BY <2>1 DEF TypeOK, settings
  <2> QED
    BY <2>1, <2>2 DEF settings
<1>15. CASE CallParseFile
  <2>1. /\ pc = "open" /\ ~PromptsOnInput /\ pc' = "parse"
        /\ UNCHANGED <<argv, optind, settings>>
    BY <1>15 DEF CallParseFile
  <2>2. TypeOK'
    BY <2>1 DEF TypeOK, settings
  <2>3. SoFar'
    BY <2>1 DEF SoFar, FileTo, BodyFileTo, Operands, settings
  <2>4. ~PromptsOnInput'
    BY <2>1 DEF PromptsOnInput, settings
  <2> QED
    BY <2>1, <2>2, <2>3, <2>4 DEF settings
<1> QED
  BY <1>4, <1>5, <1>6, <1>7, <1>8, <1>9, <1>10, <1>11, <1>12, <1>13, <1>14,
     <1>15 DEF Next

(* The invariant the theorems below follow from. *)
THEOREM Invariant == Spec => []Inv
<1>1. Inv /\ UNCHANGED vars => Inv'
  <2> SUFFICES ASSUME Inv, UNCHANGED vars PROVE Inv'
    OBVIOUS
  <2>1. TypeOK' /\ Usable(body_pref)'
    BY DEF Inv, TypeOK, vars, settings
  <2>2. pc' \notin {"exit", "abort"} => SoFar'
    BY DEF Inv, SoFar, FileTo, BodyFileTo, Operands, vars, settings
  <2> QED
    BY <2>1, <2>2 DEF Inv, PromptsOnInput, vars, settings
<1> QED
  BY InvInit, InvStep, <1>1, PTL DEF Spec

(* The settings keep their types, and a body has a file to go to exactly   *)
(* when bodies are saved (parse_cmdline).                                  *)
THEOREM Typed == Spec => []TypeOK
<1>1. Inv => TypeOK
  BY DEF Inv
<1> QED
  BY Invariant, <1>1, PTL

(* What parse_file is called with is what the words ask for, in any order  *)
(* but for the last of each kind (parse_cmdline).                          *)
THEOREM AsAsked == Spec => []SettingsAsAsked
<1>1. Inv => SettingsAsAsked
  <2> SUFFICES ASSUME Inv, pc = "parse" PROVE SettingsAsAsked
    BY DEF SettingsAsAsked
  <2>1. SoFar /\ optind = Len(argv) + 1 /\ argv \in Seq(Word)
    BY DEF Inv, TypeOK
  <2>2. ASSUME NEW name PROVE NamedTo(argv, optind, name) = Given(name)
    <3>1. 1 .. optind - 1 = DOMAIN argv
      BY <2>1
    <3> QED
      BY <3>1 DEF NamedTo, Given
  <2>3. ASSUME NEW name, NEW default
        PROVE ArgTo(argv, optind, name, default) = LastArg(name, default)
    <3>1. NamedTo(argv, optind, name) = Given(name)
      BY <2>2
    <3>2. ArgTo(argv, optind, name, default)
            = IF NamedTo(argv, optind, name) = {} THEN default
              ELSE argv[LastOf(NamedTo(argv, optind, name))].arg
      BY DEF ArgTo
    <3> QED
      BY <3>1, <3>2 DEF LastArg
  <2>4. flags = UNION {FlagsOf[n] :
                         n \in {m \in DOMAIN FlagsOf : Given(m) # {}}}
    BY <2>1, <2>2 DEF SoFar, FlagsTo
  <2>5. /\ out_dir = LastArg("directory", NULL)
        /\ body_pref = Lower(LastArg("body_pref", Default))
    BY <2>1, <2>3, Zenon DEF SoFar
  <2>6. body_file = IF Given("save_body") # {}
                         /\ LastArg("save_body", NULL) = NULL
                    THEN Message ELSE LastArg("save_body", NULL)
    BY <2>1, <2>2, <2>3 DEF SoFar, BodyFileTo
  <2>7. in_file = IF Operands # {} THEN argv[FirstOf(Operands)].arg
                  ELSE IF LastArg("file", Dash) = Dash THEN NULL
                  ELSE LastArg("file", Dash)
    BY <2>1, <2>3 DEF SoFar, FileTo
  <2> QED
    BY <2>4, <2>5, <2>6, <2>7, Zenon DEF SettingsAsAsked
<1> QED
  BY Invariant, <1>1, PTL

(* parse_file gets a preference it can use (validate_body_pref).           *)
THEOREM Preference == Spec => []PrefUsable
<1>1. Inv => PrefUsable
  BY DEF Inv, Usable, PrefUsable
<1> QED
  BY Invariant, <1>1, PTL

(* With --interactive the stream does not come from where the answers do   *)
(* (main).                                                                 *)
THEOREM Answers == Spec => []AnswersApart
<1>1. Inv => AnswersApart
  BY DEF Inv, PromptsOnInput, AnswersApart
<1> QED
  BY Invariant, <1>1, PTL
=============================================================================
