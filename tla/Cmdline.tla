------------------------------ MODULE Cmdline ------------------------------
(***************************************************************************)
(* main.c: the command line, folded into flags and settings option by      *)
(* option, and what main tests before it calls parse_file.  An option and  *)
(* its argument are one word, as getopt_long returns them; getopt_long     *)
(* passes over operands, which main takes last.                            *)
(***************************************************************************)
EXTENDS Integers, Sequences, FiniteSets

CONSTANTS
  Word,        \* what a command line may hold: records of name and arg
  MaxWords,    \* bound: words in a command line
  Path,        \* names of files and directories
  Dash,        \* "-", as an argument of --file
  Message,     \* "message", the default of --save-body
  Char,        \* the characters of a --body-pref
  ToLower,     \* tolower
  IntMod, SizeMod,   \* values of an int32 and of a size_t
  NULL

FlagsOf ==
  [debug |-> {"DBG_OUT"}, use_paths |-> {"PATHS"},
   unix_paths |-> {"UNIX_PATHS"}, allow_absolute_paths |-> {"ABSOLUTE_PATHS"},
   overwrite |-> {"OVERWRITE"}, number_backups |-> {"NUMBERED"},
   save_body |-> {"SAVEBODY"}, list_with_mime_types |-> {"LIST", "LISTMIME"},
   ignore_encode |-> {"ENCODE_OK"}, ignore_cruft |-> {"CRUFT_OK"},
   verbose |-> {"VERBOSE", "LISTMIME"}, list |-> {"LIST"},
   interactive |-> {"CONFIRM"}, ignore_checksum |-> {"CHECKSUM_OK"}]

Flags == UNION {FlagsOf[n] : n \in DOMAIN FlagsOf}

Kinds == {"r", "h", "t"}
All == <<"a", "l", "l">>
Default == <<"r", "h", "t">>

(* The argument of --maxsize: a number, and whether the digits are followed *)
(* by something else.                                                       *)
Size == [value : Int, junk : BOOLEAN]

ArgsOf(name) ==
  CASE name \in {"file", "operand"} -> Path \cup {Dash}
    [] name = "directory"           -> Path
    [] name = "save_body"           -> Path \cup {NULL}
    [] name = "body_pref"           -> Seq(Char)
    [] name = "maxsize"             -> Size
    [] OTHER                        -> {NULL}

ASSUME CmdlineAssumption ==
  /\ MaxWords \in Nat /\ {IntMod, SizeMod} \subseteq Nat \ {0}
  /\ IntMod <= SizeMod
  /\ Message \in Path /\ NULL \notin Path \cup {Dash}
  /\ Kinds \cup {"a", "l"} \subseteq Char /\ ToLower \in [Char -> Char]
  /\ \A c \in Kinds \cup {"a", "l"} : ToLower[c] = c
  /\ \A w \in Word :
       /\ w.name \in DOMAIN FlagsOf \cup
            {"file", "directory", "body_pref", "maxsize", "operand", "help",
             "version", "unknown"}
       /\ w.arg \in ArgsOf(w.name)

VARIABLES
  argv,     \* the command line
  optind,   \* the word getopt_long returns next
  pc,       \* "options", "operands", "open", "parse", "exit" or "abort"
  flags, in_file, out_dir, body_file, body_pref, max_size

settings == <<flags, in_file, out_dir, body_file, body_pref, max_size>>
vars == <<argv, optind, pc, settings>>

(* Bodies are saved to a file that has a name. *)
TypeOK ==
  /\ argv \in Seq(Word) /\ Len(argv) <= MaxWords
  /\ optind \in 1 .. Len(argv) + 1
  /\ pc \in {"options", "operands", "open", "parse", "exit", "abort"}
  /\ flags \subseteq Flags
  /\ in_file \in Path \cup {NULL, Dash}
  /\ out_dir \in Path \cup {NULL} /\ body_file \in Path \cup {NULL}
  /\ "SAVEBODY" \in flags <=> body_file # NULL
  /\ body_pref \in Seq(Char)
  /\ max_size \in 0 .. SizeMod - 1

Init ==
  /\ argv \in UNION {[1 .. n -> Word] : n \in 0 .. MaxWords}
  /\ optind = 1 /\ pc = "options"
  /\ flags = {} /\ in_file = NULL /\ out_dir = NULL /\ body_file = NULL
  /\ body_pref = Default
  /\ max_size = 0

-----------------------------------------------------------------------------
(* parse_cmdline *)

Option(names) ==
  pc = "options" /\ optind <= Len(argv) /\ argv[optind].name \in names

Arg == argv[optind].arg

(* Goes on with the next word. *)
Taken == optind' = optind + 1 /\ UNCHANGED <<argv, pc>>

(* Mutant: an option replaces the flags instead of adding its own. *)
FlagOption_MutAssigns ==
  /\ Option(DOMAIN FlagsOf \ {"save_body"}) /\ Taken
  /\ flags' = FlagsOf[argv[optind].name]
  /\ UNCHANGED <<in_file, out_dir, body_file, body_pref, max_size>>

FlagOption ==
  /\ Option(DOMAIN FlagsOf \ {"save_body"}) /\ Taken
  /\ flags' = flags \cup FlagsOf[argv[optind].name]
  /\ UNCHANGED <<in_file, out_dir, body_file, body_pref, max_size>>

SaveBody ==
  /\ Option({"save_body"}) /\ Taken
  /\ flags' = flags \cup FlagsOf["save_body"]
  /\ body_file' = IF Arg = NULL THEN Message ELSE Arg
  /\ UNCHANGED <<in_file, out_dir, body_pref, max_size>>

Lower(s) == [i \in DOMAIN s |-> ToLower[s[i]]]

(* Mutant: there is room for a fourth letter. *)
validate_body_pref_MutFour(s) ==
  /\ Len(s) \in 1 .. 4
  /\ Lower(s) = All \/ \A i \in DOMAIN s : Lower(s)[i] \in Kinds

validate_body_pref(s) ==
  /\ Len(s) \in 1 .. 3
  /\ Lower(s) = All \/ \A i \in DOMAIN s : Lower(s)[i] \in Kinds

BodyPref ==
  /\ Option({"body_pref"}) /\ validate_body_pref(Arg) /\ Taken
  /\ body_pref' = Lower(Arg)
  /\ UNCHANGED <<flags, in_file, out_dir, body_file, max_size>>

FileOption ==
  /\ Option({"file"}) /\ Taken
  /\ in_file' = IF Arg = Dash THEN NULL ELSE Arg
  /\ UNCHANGED <<flags, out_dir, body_file, body_pref, max_size>>

Directory ==
  /\ Option({"directory"}) /\ Taken
  /\ out_dir' = Arg
  /\ UNCHANGED <<flags, in_file, body_file, body_pref, max_size>>

(* strtoul: out of range it returns the greatest value, a negative number  *)
(* is taken modulo the word.                                               *)
Strtoul(n) ==
  IF n \in 1 - SizeMod .. SizeMod - 1 THEN n % SizeMod ELSE SizeMod - 1

(* The size as an int32 is negative. *)
CutNegative(n) == 2 * (n % IntMod) >= IntMod

MaxsizeOption ==
  /\ Option({"maxsize"}) /\ ~Arg.junk /\ Taken
  /\ max_size' = IF CutNegative(Strtoul(Arg.value)) THEN 0
                 ELSE Strtoul(Arg.value)
  /\ UNCHANGED <<flags, in_file, out_dir, body_file, body_pref>>

(* The options on which tnef ends at once, and the words it refuses.       *)
Leave ==
  /\ \/ Option({"help", "version", "unknown"})
     \/ Option({"maxsize"}) /\ Arg.junk
  /\ pc' = "exit"
  /\ UNCHANGED <<argv, optind, settings>>

BadBodyPref ==
  /\ Option({"body_pref"}) /\ ~validate_body_pref(Arg)
  /\ pc' = "abort"
  /\ UNCHANGED <<argv, optind, settings>>

(* getopt_long passes over an operand. *)
PassOver ==
  /\ Option({"operand"}) /\ Taken
  /\ UNCHANGED settings

OptionsDone ==
  /\ pc = "options" /\ optind = Len(argv) + 1
  /\ pc' = "operands"
  /\ UNCHANGED <<argv, optind, settings>>

Operands == {i \in DOMAIN argv : argv[i].name = "operand"}

FirstOf(S) == CHOOSE i \in S : \A j \in S : i <= j

(* The first operand is the input, the others are only complained about. *)
TakeOperands ==
  /\ pc = "operands"
  /\ in_file' = IF Operands = {} THEN in_file ELSE argv[FirstOf(Operands)].arg
  /\ pc' = "open"
  /\ UNCHANGED <<argv, optind, flags, out_dir, body_file, body_pref, max_size>>

-----------------------------------------------------------------------------
(* main *)

(* Mutant: only listing is refused on the standard input. *)
PromptsOnInput_MutList == in_file = NULL /\ {"CONFIRM", "LIST"} \subseteq flags

(* Answers could not be told from the stream. *)
PromptsOnInput == in_file = NULL /\ "CONFIRM" \in flags

CannotOpen ==
  /\ pc = "open" /\ in_file # NULL
  /\ pc' = "exit"
  /\ UNCHANGED <<argv, optind, settings>>

RefusePrompts ==
  /\ pc = "open" /\ PromptsOnInput
  /\ pc' = "exit"
  /\ UNCHANGED <<argv, optind, settings>>

CallParseFile ==
  /\ pc = "open" /\ ~PromptsOnInput
  /\ pc' = "parse"
  /\ UNCHANGED <<argv, optind, settings>>

Next ==
  \/ FlagOption \/ SaveBody \/ BodyPref \/ FileOption \/ Directory
  \/ MaxsizeOption \/ Leave \/ BadBodyPref \/ PassOver \/ OptionsDone
  \/ TakeOperands \/ CannotOpen \/ RefusePrompts \/ CallParseFile

Spec == Init /\ [][Next]_vars

-----------------------------------------------------------------------------
(* Properties *)

Given(name) == {i \in DOMAIN argv : argv[i].name = name}

LastOf(S) == CHOOSE i \in S : \A j \in S : j <= i

(* The argument of the last use of an option. *)
LastArg(name, default) ==
  IF Given(name) = {} THEN default ELSE argv[LastOf(Given(name))].arg

(* What parse_file is called with does not depend on the order of the      *)
(* options but for the last of each kind: flags add up, an operand goes    *)
(* before --file wherever it stands.                                       *)
SettingsAsAsked ==
  pc = "parse" =>
    /\ flags = UNION {FlagsOf[n] : n \in {m \in DOMAIN FlagsOf : Given(m) # {}}}
    /\ out_dir = LastArg("directory", NULL)
    /\ body_pref = Lower(LastArg("body_pref", Default))
    /\ body_file = IF Given("save_body") # {} /\ LastArg("save_body", NULL) = NULL
                   THEN Message ELSE LastArg("save_body", NULL)
    /\ in_file = IF Operands # {} THEN argv[FirstOf(Operands)].arg
                 ELSE IF LastArg("file", Dash) = Dash THEN NULL
                 ELSE LastArg("file", Dash)

(* parse_file may rely on one to three letters that name kinds of bodies,  *)
(* or the word all: what Extract assumes of its options.                   *)
PrefUsable ==
  pc = "parse" =>
    body_pref = All \/ (Len(body_pref) \in 1 .. 3
                          /\ \A i \in DOMAIN body_pref : body_pref[i] \in Kinds)

(* With --interactive the stream does not come from where the answers do.  *)
AnswersApart == pc = "parse" /\ "CONFIRM" \in flags => in_file # NULL

(* "Ignoring negative value given" (main.c:288): a size is ignored if and  *)
(* only if it is negative.                                                 *)
NegativeSizeIgnored ==
  pc = "parse" /\ Given("maxsize") # {} =>
    LET n == LastArg("maxsize", NULL).value IN
    n < SizeMod => max_size = IF n < 0 THEN 0 ELSE n
=============================================================================
