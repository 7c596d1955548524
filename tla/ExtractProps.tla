---------------------------- MODULE ExtractProps ----------------------------
(***************************************************************************)
(* What a run of tnef owes its user, stated from the attributes read       *)
(* (input) and the files asked for (log), without the File object or the   *)
(* MessageBody parse_file works with.                                      *)
(***************************************************************************)
EXTENDS Extract, SequencesExt

-----------------------------------------------------------------------------
(* Attachments, read off the input *)

Starts == {i \in DOMAIN input : input[i].name = "RENDDATA"}

NthStart(n) == CHOOSE s \in Starts : Cardinality({t \in Starts : t <= s}) = n

(* The attributes that belong to the attachment begun at s. *)
Within(s) ==
  {i \in DOMAIN input : i > s /\ input[i].lvl = "attachment"
                              /\ \A t \in Starts : t <= s \/ t > i}

PropOf == [name |-> "LONG_FILENAME", data |-> "DATA_OBJ", mime |-> "MIME_TAG",
           cid |-> "CONTENT_ID"]

AttrOf == [name |-> "TITLE", data |-> "DATA", date |-> "MODIFYDATE"]

IsList(i) == input[i].name \in {"ATTACHMENT", "MAPIPROPS"}
               /\ input[i].value \notin {Malformed, Undecodable}

(* The properties of attribute i that assign the field. *)
PropsFor(i, field) ==
  IF field \in DOMAIN PropOf /\ input[i].name = "ATTACHMENT" /\ IsList(i)
  THEN {n \in DOMAIN input[i].value : input[i].value[n].name = PropOf[field]}
  ELSE {}

IsAttrFor(i, field) ==
  field \in DOMAIN AttrOf /\ input[i].name = AttrOf[field]

Assigns(i, field) == IsAttrFor(i, field) \/ PropsFor(i, field) # {}

(* What attribute i leaves in the field. *)
Assigned(i, field) ==
  IF IsAttrFor(i, field) THEN input[i].value
  ELSE input[i].value[Max(PropsFor(i, field))].values[1]

(* The last assignment wins; a field nobody assigns is empty. *)
FieldAt(s, field) ==
  LET I == {i \in Within(s) : Assigns(i, field)} IN
  IF I = {} THEN NULL ELSE Assigned(Max(I), field)

AttachmentAt(s) == [field \in DOMAIN FreshFile |-> FieldAt(s, field)]

(* The calls of file_write for attachments. *)
Done == {i \in DOMAIN log : log[i].src = "attachment"}

(* The attachments reach file_write in stream order and before any body,   *)
(* each with exactly the fields its own attributes gave it, and nothing    *)
(* left over from the one whose File object it reuses.  While tnef runs    *)
(* only the newest can be outstanding, whatever stops it; none is when     *)
(* parse_file returns 0.                                                   *)
AttachmentsInOrder ==
  LET d == Cardinality(Done)
      n == Cardinality(Starts)
  IN  /\ d <= n
      /\ status = "running" => d >= n - 1
      /\ status = "ok" => d = n
      /\ Done = 1 .. d
      /\ \A k \in Done : log[k].file = AttachmentAt(NthStart(k))

-----------------------------------------------------------------------------
(* Message bodies, read off the input *)

BodyProp == [h |-> "BODY_HTML", r |-> "RTF_COMPRESSED"]

(* The properties of attribute i that are bodies of kind k. *)
BodyPropsOf(i, k) ==
  IF k \in DOMAIN BodyProp /\ input[i].name = "MAPIPROPS" /\ IsList(i)
  THEN {n \in DOMAIN input[i].value :
          input[i].value[n].type = "binary" /\ input[i].value[n].name = BodyProp[k]}
  ELSE {}

IsText(i, k) == k = "t" /\ input[i].name = "BODY"

HasBody(i, k) ==
  input[i].lvl = "message" /\ (IsText(i, k) \/ BodyPropsOf(i, k) # {})

(* The body of kind k attribute i holds: the values of its last one. *)
BodyIn(i, k) ==
  IF IsText(i, k) THEN <<input[i].value>>
  ELSE LET vs == input[i].value[Max(BodyPropsOf(i, k))].values
       IN  IF k = "r" THEN [m \in DOMAIN vs |-> RtfDecode[vs[m]]] ELSE vs

(* The values of the body of kind k; NULL when the stream has none. *)
Found(k) ==
  LET I == {i \in DOMAIN input : HasBody(i, k)} IN
  IF I = {} THEN NULL ELSE BodyIn(Max(I), k)

(* The values before the first that is not RTF. *)
Readable(list) ==
  LET H == {i \in DOMAIN list : list[i] = Hole} IN
  IF H = {} THEN list ELSE SubSeq(list, 1, Min(H) - 1)

Preference == IF opts.all THEN <<"r", "h", "t">> ELSE opts.pref

(* Of the kinds preferred that the stream has, the first is wanted, or all. *)
Wanted(n) ==
  /\ opts.saveBody
  /\ Found(Preference[n]) # NULL
  /\ opts.all \/ \A m \in 1 .. n - 1 : Found(Preference[m]) = NULL

(* The files owed for the n-th kind of the preference. *)
Bodies(n) ==
  IF ~Wanted(n) THEN <<>>
  ELSE LET k == Preference[n] IN
       [m \in DOMAIN Readable(Found(k)) |-> <<k, Found(k)[m]>>]

(* When parse_file returns 0 the log is the attachments and then, in order *)
(* the bodies of the first kind of --body-pref the stream has, or of all   *)
(* kinds for "all", each kind up to its first undecodable value.  (A       *)
(* preference of one letter is left out: see OnlyPreferredKindsSaved.)     *)
BodiesFollowPreference ==
  status = "ok" /\ (opts.all \/ Len(opts.pref) > 1) =>
    LET bodies == SubSeq(log, Cardinality(Starts) + 1, Len(log)) IN
    [i \in DOMAIN bodies |-> <<bodies[i].src, bodies[i].file.data>>]
    = FlattenSeq([n \in DOMAIN Preference |-> Bodies(n)])

(* tnef.1.in on --body-pref: "Specifies which of the possibly three        *)
(* message body formats will be saved".                                    *)
OnlyPreferredKindsSaved ==
  opts.all \/ \A i \in DOMAIN log :
                log[i].src \in Kinds => log[i].src \in ToSet(opts.pref)

(* tnef.1.in on --save-body: "the message bodies are written to a file     *)
(* named message with an extension based upon the type".                   *)
BodyFilesNamed ==
  \A i \in DOMAIN log :
    log[i].src \in Kinds => log[i].file.name = BodyName[log[i].src]

(* What lies ahead of parse_file, and the turns left of the loop it is in. *)
Ahead ==
  CASE pc = "signature"               -> 11
    [] pc \in {"attProps", "msgProps"} -> 10
    [] pc = "attr"                    -> 9
    [] pc = "last"                    -> 8
    [] pc = "kind"                    -> 7 - 2 * bi
    [] pc = "files"                   -> 6 - 2 * bi

Turns ==
  CASE pc \in {"attProps", "msgProps"} -> Len(props)
    [] pc = "files"                   -> Len(body[kind]) - bj
    [] OTHER                          -> 0

(* Every step ends the run, reads an attribute, comes nearer to the end or *)
(* makes a turn of a loop that has one less then: what the attributes hold *)
(* never sends parse_file back, from the bodies to the stream or from one  *)
(* body to an earlier one.                                                 *)
OnlyForward ==
  [][/\ status = "running"
     /\ Turns' \in Nat
     /\ \/ status' # "running"
        \/ Len(input') > Len(input)
        \/ input' = input /\ Ahead' < Ahead
        \/ input' = input /\ Ahead' = Ahead /\ Turns' < Turns]_vars

(* Every run over a finite stream ends. *)
Terminates == <>(status # "running")
=============================================================================
