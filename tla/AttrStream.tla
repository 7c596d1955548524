----------------------------- MODULE AttrStream -----------------------------
(***************************************************************************)
(* How parse_file gets its attributes: data_left and read_object (tnef.c), *)
(* attr_read, check_checksum and attr_dump (attr.c), getbuf (util.c).  The *)
(* bytes of the input are chosen as they are read, its length beforehand.  *)
(* A level, a name, a type, a length and a checksum take one byte each     *)
(* here (in the code 1, 2, 2, 4 and 2).                                    *)
(***************************************************************************)
EXTENDS Alloc, SequencesExt

CONSTANTS
  Sizes,      \* lengths of the input
  Settings,   \* [src, skip (CHECKSUM_SKIP), debug, limit] of a run
  Levels, Names, Lengths, Contents, Sums,   \* what the fields may hold
  SumMod,     \* a checksum is taken modulo it: 65536
  Signature,  \* TNEF_SIGNATURE, and the key after it
  Minimum,    \* MINIMUM_ATTR_LENGTH: 8
  AttrSize,   \* sizeof (Attr)
  SHORT, LONG,   \* bytes of these numbers: 2, 4
  DATE, TRP,     \* bytes of a date, of the numbers of a triple: 14, 8
  LastDay,       \* Saturday: 6
  OEMCODEPAGE,              \* attOEMCODEPAGE, among the Names
  NULL

Sources == {"stdin", "file", "pipe"}   \* "pipe": named, but not seekable

LVL == {1, 2}     \* LVL_MESSAGE, LVL_ATTACHMENT

(* The types attr_dump tells apart; TEXT and STRING are dumped alike. *)
TypeNames == {"TRIPLES", "STRING", "DATE", "SHORT", "LONG", "BYTE", "WORD",
              "DWORD", "OTHER"}

Header == [lvl : LVL \cap Levels, name : Names, type : TypeNames, len : Lengths]

(* Attr.  The buffer has a NUL after the len bytes of the stream. *)
Attr == [lvl : LVL, name : Names, type : TypeNames,
         buf : Seq(Contents), sum : Sums]

ASSUME AttrStreamAssumption ==
  /\ \A S \in {Sizes, Levels, Lengths, Contents, Sums} : S \subseteq Nat
  /\ SumMod \in Nat \ {0} /\ Sums \subseteq 0 .. SumMod - 1
  /\ Signature \in Seq(Nat)
  /\ Minimum \in Nat \ {0} /\ AttrSize \in Nat
  /\ SHORT \in 1 .. 2 /\ LONG \in Nat \ {0}
  /\ DATE \in Nat \ {0} /\ LastDay \in Nat
  /\ TRP \in Nat /\ TRP > 3
  /\ NULL \notin Header \cup Attr
  /\ \A o \in Settings : /\ o.src \in Sources /\ o.limit \in Nat
                         /\ {o.skip, o.debug} \subseteq BOOLEAN

VARIABLES
  opts, size,  \* the settings of the run and the length of its input
  pc,          \* "signature", "data_left", "read_object", "body", "dump"
  status,      \* "running", "ok" once parse_file goes on to the bodies,
               \* "fail" (exit), "abort" or "crash"
  attr,        \* the attribute being read: its header, then all of it
  bytes,       \* history: the bytes read
  attrs,       \* history: the attributes handed to parse_file
  access       \* history: what the last dump read of the buffer

vars == <<opts, size, pc, status, attr, bytes, attrs, access>>

TypeOK ==
  /\ opts \in Settings /\ size \in Sizes
  /\ pc \in {"signature", "data_left", "read_object", "body", "dump"}
  /\ status \in {"running", "ok", "fail", "abort", "crash"}
  /\ attr \in Header \cup Attr \cup {NULL}
  /\ pc = "body" <=> attr \in Header
  /\ pc = "dump" <=> attr \in Attr
  /\ Len(bytes) <= size
  /\ attrs \in Seq(Attr)
  /\ \A x \in access : x.at \in Nat /\ x.size \in Nat

Init ==
  /\ opts \in Settings /\ size \in Sizes
  /\ pc = "signature" /\ status = "running"
  /\ attr = NULL
  /\ bytes = <<>> /\ attrs = <<>>
  /\ access = {}

-----------------------------------------------------------------------------
(* The input *)

Stops(how) ==
  /\ status' = how
  /\ UNCHANGED <<opts, size, pc, attr, bytes, attrs, access>>

Goto(label) ==
  /\ pc' = label
  /\ UNCHANGED <<opts, size, status, attr, bytes, attrs, access>>

Remaining == size - Len(bytes)

(* getbuf: a read that falls short ends the run. *)
Available(n) == n <= Remaining

(* The signature and the key, or "Seems not to be a TNEF file". *)
ReadSignature ==
  /\ pc = "signature"
  /\ \/ Stops("fail")
     \/ /\ Available(Len(Signature))
        /\ pc' = "data_left"
        /\ bytes' = Signature
        /\ UNCHANGED <<opts, size, status, attr, attrs, access>>

(* st_size - ftell: of what cannot be seeked the size is 0 and the         *)
(* position -1, which as a size_t leaves 1.                                *)
DataLeft ==
  IF opts.src = "pipe" THEN (0 + SizeMod - (SizeMod - 1)) % SizeMod ELSE Remaining

(* Mutant: any garbage is garbage, however much of it. *)
Garbage_MutAny == opts.src # "stdin" /\ DataLeft # 0 /\ attrs # <<>>

(* Of the standard input data_left knows nothing: feof is false until a    *)
(* read falls short, and then the run has ended.  The flavour of garbage   *)
(* CRUFT_SKIP forgives makes a difference to the message only.             *)
Garbage == opts.src # "stdin" /\ DataLeft \in 1 .. Minimum - 1

data_left ==
  /\ pc = "data_left"
  /\ IF Garbage THEN Stops("ok") ELSE Goto("read_object")

(* Mutant: no object, and parse_file looks for the next. *)
NoObject_MutContinues ==
  /\ pc = "read_object" /\ Remaining = 0
  /\ Goto("data_left")

(* The peek of read_object meets the end. *)
NoObject ==
  /\ pc = "read_object" /\ Remaining = 0
  /\ Stops("ok")

-----------------------------------------------------------------------------
(* attr_read *)

HeaderSize == 4     \* level, name, type and length
SumSize == 1

(* An Attr that is NULL is written to at once; a buffer that is, as soon   *)
(* as there is a byte to put into it.                                      *)
AllocFails(outcomes, written) ==
  \/ "abort" \in outcomes /\ Stops("abort")
  \/ "exit" \in outcomes /\ Stops("fail")
  \/ "null" \in outcomes /\ written /\ Stops("crash")

ReadHeader ==
  /\ pc = "read_object" /\ Remaining > 0
  /\ LET object == checked_xcalloc(opts.limit, 1, AttrSize, 0) IN
     \/ AllocFails(object, TRUE)
     \/ "ok" \in object /\ Levels \ LVL # {} /\ Stops("abort")
     \/ "ok" \in object /\ ~Available(HeaderSize) /\ Stops("fail")
     \/ /\ "ok" \in object /\ Available(HeaderSize)
        /\ \E h \in Header :
             LET buf == checked_xcalloc(opts.limit, h.len, 1, 1) IN
             \/ AllocFails(buf, h.len > 0 /\ Available(HeaderSize + 1))
             \/ /\ "ok" \in buf
                /\ attr' = h
                /\ bytes' = bytes \o <<h.lvl, h.name, h.type, h.len>>
                /\ pc' = "body"
                /\ UNCHANGED <<opts, size, status, attrs, access>>

(* Mutant: the last byte is not summed. *)
check_checksum_MutShort(buf) ==
  FoldSeq(LAMBDA b, s : (s + b) % SumMod, 0, SubSeq(buf, 1, Len(buf) - 1))

(* The sum check_checksum compares with the one that was read. *)
check_checksum(buf) == FoldSeq(LAMBDA b, s : (s + b) % SumMod, 0, buf)

(* The data and its checksum; in debugging a dump before it is handed over. *)
ReadBody ==
  /\ pc = "body"
  /\ \/ ~Available(attr.len + SumSize) /\ Stops("fail")
     \/ /\ Available(attr.len + SumSize)
        /\ \E buf \in [1 .. attr.len -> Contents], sum \in Sums :
             LET a == [lvl |-> attr.lvl, name |-> attr.name,
                       type |-> attr.type, buf |-> buf, sum |-> sum] IN
             \/ /\ check_checksum(buf) # sum /\ ~opts.skip
                /\ Stops("fail")
             \/ /\ check_checksum(buf) = sum \/ opts.skip
                /\ bytes' = bytes \o buf \o <<sum>>
                /\ IF opts.debug
                   THEN /\ pc' = "dump" /\ attr' = a
                        /\ UNCHANGED attrs
                   ELSE /\ pc' = "data_left" /\ attr' = NULL
                        /\ attrs' = Append(attrs, a)
                /\ UNCHANGED <<opts, size, status, access>>

-----------------------------------------------------------------------------
(* attr_dump *)

Span(at, n) == [at |-> at, size |-> n]

len == Len(attr.buf)

(* Where a string that starts at a byte ends: its NUL, at len if not sooner. *)
StringAt(at) ==
  LET nul == CHOOSE n \in at .. len :
               /\ n = len \/ attr.buf[n + 1] = 0
               /\ \A m \in at .. n - 1 : attr.buf[m + 1] # 0
  IN Span(at, nul - at + 1)

(* TRIPLE.cch: how long the first of the two strings of a triple is. *)
cch == attr.buf[3]       \* id, chbgtrp, cch, cb

(* The day of the week, the last number of a date, that dow_str refuses. *)
BadDay == attr.buf[DATE] > LastDay

(* What the dump of a type wants of the buffer before it reads it, by an   *)
(* assert or an if and abort.                                              *)
Demands ==
  CASE attr.type = "SHORT"   -> len >= SHORT
    [] attr.type = "LONG"    -> len >= LONG
    [] attr.type = "DATE"    -> len >= DATE /\ ~BadDay
    [] attr.type = "TRIPLES" -> len > TRP /\ len > TRP + cch
    [] OTHER                 -> TRUE

(* Mutant: the loops stop one word too late. *)
Words_MutLate(n) == {Span(i, n) : i \in {k \in 0 .. len : k % n = 0}}

(* The words of a buffer, the last of them when it is not a whole one too. *)
Words(n) == {Span(i, n) : i \in {k \in 0 .. len - 1 : k % n = 0}}

(* The bytes a dump then reads. *)
Reads ==
  CASE attr.type = "BYTE" /\ attr.name = OEMCODEPAGE ->
         {Span(0, LONG), Span(LONG, LONG)}
    [] attr.type = "SHORT"   -> {Span(0, SHORT), Span(SHORT, len - SHORT)}
    [] attr.type = "LONG"    -> {Span(0, LONG), Span(LONG, len - LONG)}
    [] attr.type = "WORD"    -> Words(SHORT)
    [] attr.type = "DWORD"   -> Words(LONG)
    [] attr.type = "DATE"    -> {Span(0, DATE)}
    [] attr.type = "TRIPLES" -> {Span(0, TRP), StringAt(TRP), StringAt(TRP + cch)}
    [] OTHER                 -> {Span(0, len)}

(* The copy of a string is allocated for the dump. *)
attr_dump ==
  /\ pc = "dump"
  /\ \/ ~Demands /\ Stops("abort")
     \/ /\ attr.type = "STRING"
        /\ \E o \in checked_xmalloc(opts.limit, len + 1, 1, 0) \ {"ok"} :
             Stops(IF o = "exit" THEN "fail" ELSE o)
     \/ /\ MayRunOut /\ len = 0      \* the buffer of no bytes may be NULL
        /\ attr.type = "BYTE" /\ attr.name = OEMCODEPAGE
        /\ Stops("crash")
     \/ /\ Demands
        /\ attr.type = "STRING" => "ok" \in checked_xmalloc(opts.limit, len + 1, 1, 0)
        /\ access' = Reads
        /\ attrs' = Append(attrs, attr)
        /\ attr' = NULL
        /\ pc' = "data_left"
        /\ UNCHANGED <<opts, size, status, bytes>>

Next ==
  /\ status = "running"
  /\ \/ ReadSignature
     \/ data_left
     \/ NoObject
     \/ ReadHeader
     \/ ReadBody
     \/ attr_dump

Spec == Init /\ [][Next]_vars

(* Nothing here waits: the input is read without a pause, and the run      *)
(* takes the next step it can.                                             *)
FairSpec == Spec /\ WF_vars(Next)

-----------------------------------------------------------------------------
(* Properties *)

Encoding(a) ==
  <<a.lvl, a.name, a.type, Len(a.buf)>> \o a.buf \o <<a.sum>>

(* The attributes handed to parse_file are all that was read, in its       *)
(* order: no byte between two of them is skipped or read twice, whichever  *)
(* of them were dumped, and none is handed over with a checksum that is    *)
(* not its own unless the user forgives that (attr_read, check_checksum).  *)
AttributesAsRead ==
  /\ pc \in {"data_left", "read_object"} =>
       bytes = Signature \o FlattenSeq([i \in DOMAIN attrs |-> Encoding(attrs[i])])
  /\ opts.skip
       \/ \A i \in DOMAIN attrs :
            FoldSeq(+, 0, attrs[i].buf) % SumMod = attrs[i].sum

(* A run that comes to the bodies has decoded its input but for less than  *)
(* Minimum bytes, and a standard input to its end.  So a stream cut within *)
(* an attribute ends in an error, unless it is a file and no more than     *)
(* Minimum - 1 bytes of the attribute are there: data_left takes them for  *)
(* garbage, and the end for a good one.  A cut between two attributes is   *)
(* not noticed.  Of a named file that cannot be seeked nothing is read,    *)
(* and nothing is said here (data_left, read_object, getbuf).              *)
LittleLeftUndecoded ==
  status = "ok" /\ opts.src # "pipe" =>
    LET read == FlattenSeq([i \in DOMAIN attrs |-> Encoding(attrs[i])])
        rest == size - Len(Signature) - Len(read)
    IN rest \in 0 .. Minimum - 1 /\ (opts.src = "stdin" => rest = 0)

(* What a dump reads is in the buffer or is its NUL, also for a length the *)
(* type does not expect (attr_dump).  Two types ask for nothing: a last    *)
(* DWORD of one or two bytes reads up to two bytes beyond the NUL, a code  *)
(* page its eight bytes whatever the length; nothing reads further.        *)
DumpInBuffer ==
  pc = "data_left" /\ access # {} =>
    LET a == Last(attrs) IN
    \A x \in access :
      x.at + x.size <=
        CASE a.type = "DWORD" -> Len(a.buf) + LONG - 1
          [] a.type = "BYTE" /\ a.name = OEMCODEPAGE -> Max({Len(a.buf), 2 * LONG})
          [] OTHER -> Len(a.buf) + 1

(* How many steps there may yet be: three for each byte of the input. *)
StepsLeft ==
  IF status # "running" THEN 0
  ELSE 3 * Remaining + (CASE pc \in {"read_object", "body"} -> 1
                          [] pc = "data_left"              -> 2
                          [] pc \in {"signature", "dump"}   -> 3)

(* Every round of parse_file's loop uses up input: no attribute is so      *)
(* short, no garbage so odd, and no kind of input so unlike a file that    *)
(* data_left and read_object go round without reading.                     *)
StepsBounded == [][StepsLeft' \in Nat /\ StepsLeft' < StepsLeft]_vars

(* parse_file comes to the end of its input, or stops before it. *)
Terminates == <>(status # "running")
=============================================================================
