------------------------------ MODULE Extract ------------------------------
(***************************************************************************)
(* parse_file (tnef.c): the run of tnef over one TNEF stream.  The stream  *)
(* is a sequence of attributes, chosen as they are read; the attributes of *)
(* an attachment are gathered in one File object (file.c) that is written  *)
(* when the next attachment begins; message bodies are written last.       *)
(***************************************************************************)
EXTENDS OutputDir

CONSTANTS
  Attr,        \* the attributes a stream may hold
  MaxAttrs,    \* bound: attributes in a stream
  RtfDecode,   \* get_rtf_data: Data -> Data, Hole (not RTF) or Malformed
  BodyName,    \* kind -> Name, the --save-body name with its extension
  BodyMime,    \* kind -> Tag
  AttrSize, FileSize,   \* sizeof (Attr), sizeof (File)
  Hole,        \* a NULL entry of a body list
  Malformed,   \* bytes a parser asserts against, or leaves by exit
  Undecodable  \* a property list with a type tnef does not know

Kinds == {"r", "h", "t"}

PropNames == {"LONG_FILENAME", "DATA_OBJ", "MIME_TAG", "CONTENT_ID",
              "BODY_HTML", "RTF_COMPRESSED", "OTHER"}

Prop == [name   : PropNames,
         type   : {"string", "binary", "object", "other"},
         values : Seq(Name \cup Data \cup Tag) \ {<<>>}]

PropList == {Malformed, Undecodable} \cup Seq(Prop)

(* The properties file_add_mapi_attrs knows, with the types it asserts.    *)
PropType ==
  [LONG_FILENAME |-> {"string"}, DATA_OBJ |-> {"binary", "object"},
   MIME_TAG |-> {"string"}, CONTENT_ID |-> {"string"}]

(* What the first value of a property of the right type is. *)
PropRange ==
  [LONG_FILENAME |-> Name, DATA_OBJ |-> Data, MIME_TAG |-> Tag,
   CONTENT_ID |-> Tag]

ValuesOf(name) ==
  CASE name = "MODIFYDATE"                 -> Date \cup {Malformed}
    [] name = "TITLE"                      -> Name
    [] name \in {"DATA", "BODY"}           -> Data
    [] name \in {"ATTACHMENT", "MAPIPROPS"} -> PropList
    [] name \in {"RENDDATA", "OTHER"}      -> {NULL}

AttrNames == {"RENDDATA", "MODIFYDATE", "TITLE", "DATA", "ATTACHMENT",
              "BODY", "MAPIPROPS", "OTHER"}

WellTyped(p) ==
  /\ p.name \in DOMAIN PropType /\ p.type \in PropType[p.name] =>
       p.values[1] \in PropRange[p.name]
  /\ p.type = "binary" => \A i \in DOMAIN p.values : p.values[i] \in Data

ASSUME ExtractAssumption ==
  /\ MaxAttrs \in Nat /\ AttrSize \in Nat /\ FileSize \in Nat
  /\ BodyName \in [Kinds -> Name] /\ BodyMime \in [Kinds -> Tag]
  /\ RtfDecode \in [Data -> Data \cup {Hole, Malformed}]
  /\ Hole \notin Data /\ Malformed \notin Data /\ Malformed \notin Date
  /\ NULL \notin File /\ NULL \notin Kinds
  /\ NULL \notin Seq(Data \cup {Hole})
  /\ Hole # NULL /\ Hole # Malformed /\ Malformed # Undecodable
  /\ Malformed \notin Seq(Prop) /\ Undecodable \notin Seq(Prop)
  /\ \A a \in Attr :
       /\ a.lvl \in {"message", "attachment"} /\ a.name \in AttrNames
       /\ a.len \in Nat /\ a.intact \in BOOLEAN
       /\ a.value \in ValuesOf(a.name)
       /\ a.name \in {"ATTACHMENT", "MAPIPROPS"}
            /\ a.value \notin {Malformed, Undecodable} =>
              \A i \in DOMAIN a.value : WellTyped(a.value[i])
  /\ \A o \in Options :
       /\ {o.saveBody, o.all, o.checksumOk, o.encodeOk} \subseteq BOOLEAN
       /\ o.maxsize \in Nat
       /\ o.pref \in Seq(Kinds) /\ Len(o.pref) \in 1 .. 3

VARIABLES
  pc,      \* where parse_file stands
  file,    \* the attachment being gathered; NULL: none yet
  props,   \* the MAPI properties of the last attribute still to be applied
  body,    \* MessageBody: kind -> the values found, NULL for none
  bi, bj,  \* the loop counters of the body section
  kind,    \* the body type bi selected
  input    \* history: the attributes read

vars == <<dirVars, pc, file, props, body, bi, bj, kind, input>>
bodyVars == <<bi, bj, kind>>

TypeOK ==
  /\ DirTypeOK
  /\ pc \in {"signature", "attr", "attProps", "msgProps", "last", "kind",
             "files"}
  /\ file \in File \cup {NULL}
  /\ props \in Seq(Prop)
  /\ body \in [Kinds -> Seq(Data \cup {Hole}) \cup {NULL}]
  /\ bi \in 0 .. 3 /\ bj \in Nat /\ kind \in Kinds \cup {NULL}
  /\ input \in Seq(Attr) /\ Len(input) <= MaxAttrs

Init ==
  /\ DirInit
  /\ pc = "signature"
  /\ file = NULL
  /\ props = <<>>
  /\ body = [k \in Kinds |-> NULL]
  /\ bi = 0 /\ bj = 0 /\ kind = NULL
  /\ input = <<>>

-----------------------------------------------------------------------------
(* Reading *)

Stops(how) ==
  /\ Ends(how)
  /\ UNCHANGED <<pc, file, props, body, bodyVars>>

Goto(label) ==
  /\ pc' = label
  /\ UNCHANGED <<dirVars, file, props, body, bodyVars>>

(* main opens the input, parse_file checks the signature. *)
StartFile ==
  /\ pc = "signature"
  /\ \/ Goto("attr")
     \/ Stops("fail")
  /\ UNCHANGED input

(* alloc_limit_assert *)
Fits(size) == opts.maxsize = 0 \/ size <= opts.maxsize

(* No more input, or fewer bytes than an attribute takes (data_left). *)
EndOfInput ==
  /\ pc = "attr"
  /\ Goto("last")
  /\ UNCHANGED input

(* A truncated attribute, or one of a level that does not exist. *)
attr_read_fails ==
  /\ pc = "attr"
  /\ \/ Stops("fail")
     \/ Stops("abort")
  /\ UNCHANGED input

Accepted(a) ==
  /\ Fits(AttrSize) /\ Fits(a.len)
  /\ a.intact \/ opts.checksumOk

AttrRejected(a) ==
  /\ ~Accepted(a)
  /\ Stops("fail")
  /\ UNCHANGED input

-----------------------------------------------------------------------------
(* The attributes *)

SetFile(f) ==
  /\ file' = f
  /\ UNCHANGED <<dirVars, pc, props, body, bodyVars>>

Ignored == UNCHANGED <<dirVars, pc, file, props, body, bodyVars>>

(* Mutant: of the File object used again only the name is cleared. *)
BeginAttachment_MutKeepsFields(a) ==
  /\ a.name = "RENDDATA"
  /\ \/ /\ file # NULL
        /\ file_write(file, "attachment")
        /\ file' = [file EXCEPT !.name = NULL]
        /\ UNCHANGED <<pc, props, body, bodyVars>>
     \/ /\ file = NULL
        /\ SetFile(FreshFile)

(* RENDDATA, at either level: the attachment gathered so far is written    *)
(* and its object cleared and used again.                                  *)
BeginAttachment(a) ==
  /\ a.name = "RENDDATA"
  /\ \/ /\ file # NULL
        /\ file_write(file, "attachment")
        /\ file' = FreshFile
        /\ UNCHANGED <<pc, props, body, bodyVars>>
     \/ /\ file = NULL /\ Fits(FileSize)
        /\ SetFile(FreshFile)
     \/ /\ file = NULL /\ ~Fits(FileSize)
        /\ Stops("fail")

(* mapi_attr_read parses the whole list before any of it is applied.       *)
mapi_attr_read(list, label) ==
  \/ /\ list = Malformed
     /\ Stops("fail") \/ Stops("abort")
  \/ /\ list = Undecodable
     /\ IF opts.encodeOk THEN Ignored ELSE Stops("fail")
  \/ /\ list \notin {Malformed, Undecodable}
     /\ pc' = label
     /\ props' = list
     /\ UNCHANGED <<dirVars, file, body, bodyVars>>
  \/ /\ opts.maxsize # 0       \* an array of the parse exceeds the limit
     /\ Stops("fail")

file_add_attr(a) ==
  /\ a.lvl = "attachment" /\ a.name # "RENDDATA"
  /\ \/ /\ file = NULL         \* assert (file && attr)
        /\ Stops("abort")
     \/ /\ file # NULL
        /\ \/ /\ a.name = "MODIFYDATE" /\ a.value = Malformed
              /\ Stops("abort")
           \/ /\ a.name = "MODIFYDATE" /\ a.value # Malformed
              /\ SetFile([file EXCEPT !.date = a.value])
           \/ /\ a.name = "TITLE"
              /\ SetFile([file EXCEPT !.name = a.value])
           \/ /\ a.name = "DATA"
              /\ SetFile([file EXCEPT !.data = a.value])
           \/ /\ a.name = "ATTACHMENT"
              /\ mapi_attr_read(a.value, "attProps")
           \/ /\ a.name \in {"BODY", "MAPIPROPS", "OTHER"}
              /\ Ignored

MessageAttr(a) ==
  /\ a.lvl = "message"
  /\ \/ /\ a.name = "BODY"
        /\ body' = [body EXCEPT !["t"] = <<a.value>>]
        /\ UNCHANGED <<dirVars, pc, file, props, bodyVars>>
     \/ /\ a.name = "MAPIPROPS"
        /\ mapi_attr_read(a.value, "msgProps")
     \/ /\ a.name \notin {"BODY", "MAPIPROPS", "RENDDATA"}
        /\ Ignored

ReadAttr(a) ==
  /\ pc = "attr"
  /\ Len(input) < MaxAttrs
  /\ \/ AttrRejected(a)
     \/ /\ Accepted(a)
        /\ input' = Append(input, a)
        /\ \/ BeginAttachment(a)
           \/ file_add_attr(a)
           \/ MessageAttr(a)

-----------------------------------------------------------------------------
(* The MAPI properties of an attribute, one per step *)

(* Mutant: a name that is there is not replaced. *)
SetField_MutKeepsName(f, p) ==
  CASE p.name = "LONG_FILENAME" /\ f.name = NULL
                              -> [f EXCEPT !.name = p.values[1]]
    [] p.name = "DATA_OBJ"    -> [f EXCEPT !.data = p.values[1]]
    [] p.name = "MIME_TAG"    -> [f EXCEPT !.mime = p.values[1]]
    [] p.name = "CONTENT_ID"  -> [f EXCEPT !.cid = p.values[1]]
    [] OTHER                  -> f

SetField(f, p) ==
  CASE p.name = "LONG_FILENAME" -> [f EXCEPT !.name = p.values[1]]
    [] p.name = "DATA_OBJ"      -> [f EXCEPT !.data = p.values[1]]
    [] p.name = "MIME_TAG"      -> [f EXCEPT !.mime = p.values[1]]
    [] p.name = "CONTENT_ID"    -> [f EXCEPT !.cid = p.values[1]]
    [] OTHER                    -> f

file_add_mapi_attrs ==
  /\ pc = "attProps" /\ props # <<>>
  /\ LET p == Head(props) IN
       IF p.name \in DOMAIN PropType /\ p.type \notin PropType[p.name]
       THEN Stops("abort")
       ELSE /\ file' = SetField(file, p)
            /\ props' = Tail(props)
            /\ UNCHANGED <<dirVars, pc, body, bodyVars>>
  /\ UNCHANGED input

(* The decoded values of a property of the message. *)
Decoded(p) ==
  IF p.name = "RTF_COMPRESSED"
  THEN [i \in DOMAIN p.values |-> RtfDecode[p.values[i]]]
  ELSE p.values

IsBody(p) == p.type = "binary" /\ p.name \in {"BODY_HTML", "RTF_COMPRESSED"}

BodyKind(p) == IF p.name = "BODY_HTML" THEN "h" ELSE "r"

AddMessageProp ==
  /\ pc = "msgProps" /\ props # <<>>
  /\ LET p == Head(props) IN
       \/ /\ IsBody(p) => \A i \in DOMAIN p.values : Decoded(p)[i] # Malformed
          /\ body' = IF IsBody(p)
                     THEN [body EXCEPT ![BodyKind(p)] = Decoded(p)] ELSE body
          /\ props' = Tail(props)
          /\ UNCHANGED <<dirVars, pc, file, bodyVars>>
       \/ /\ IsBody(p)
          /\ \E i \in DOMAIN p.values : Decoded(p)[i] = Malformed
          /\ Stops("abort")
       \/ /\ IsBody(p) /\ BodyKind(p) = "r"
          /\ opts.maxsize # 0     \* the decoded body exceeds the limit
          /\ Stops("fail")
  /\ UNCHANGED input

PropsDone ==
  /\ pc \in {"attProps", "msgProps"} /\ props = <<>>
  /\ Goto("attr")
  /\ UNCHANGED input

-----------------------------------------------------------------------------
(* After the stream *)

WriteLast ==
  /\ pc = "last"
  /\ IF file # NULL
     THEN file_write(file, "attachment") ELSE UNCHANGED dirVars
  /\ pc' = "kind"
  /\ file' = NULL
  /\ UNCHANGED <<props, body, bodyVars, input>>

(* The characters body_pref[i] may be: after the NUL that ends a shorter   *)
(* preference the code reads past the string.                              *)
PrefChars(i) ==
  IF opts.all THEN {<<"r", "h", "t">>[i + 1]}
  ELSE IF i < Len(opts.pref) THEN {opts.pref[i + 1]}
  ELSE IF i = Len(opts.pref) THEN {NULL}
  ELSE Kinds \cup {NULL}

(* get_body_files: the list it returns ends at the first hole. *)
FileLeft ==
  /\ bj + 1 \in DOMAIN body[kind]
  /\ body[kind][bj + 1] # Hole

(* Mutant: the loop counter stays where the kind was not found. *)
NextKind_MutNoAdvance ==
  /\ pc = "kind" /\ opts.saveBody /\ bi < 3
  /\ \E k \in PrefChars(bi) :
       /\ k \in Kinds /\ body[k] # NULL
       /\ kind' = k
       /\ bj' = 0
       /\ pc' = "files"
       /\ UNCHANGED <<dirVars, file, props, body, bi>>
  /\ UNCHANGED input

NextKind ==
  /\ pc = "kind" /\ opts.saveBody /\ bi < 3
  /\ \E k \in PrefChars(bi) :
       \/ /\ k \in Kinds /\ body[k] # NULL
          /\ kind' = k
          /\ bj' = 0
          /\ pc' = "files"
          /\ UNCHANGED <<dirVars, file, props, body, bi>>
       \/ /\ k \in Kinds => body[k] = NULL
          /\ bi' = bi + 1
          /\ UNCHANGED <<dirVars, pc, file, props, body, bj, kind>>
       \/ /\ k \in Kinds /\ body[k] # NULL
          /\ opts.maxsize # 0      \* the name or the copy exceeds the limit
          /\ Stops("fail")
  /\ UNCHANGED input

BodyFile(name, mime) ==
  [FreshFile EXCEPT !.name = name, !.data = body[kind][bj + 1], !.mime = mime]

(* All the files of a list share one name and one MIME type, freed with    *)
(* the first of them: the second's are whatever the freed memory holds.    *)
WriteBody ==
  /\ pc = "files" /\ FileLeft
  /\ \E name \in IF bj = 0 THEN {BodyName[kind]} ELSE Name,
        mime \in IF bj = 0 THEN {BodyMime[kind]} ELSE Tag :
       file_write(BodyFile(name, mime), kind)
  /\ bj' = bj + 1
  /\ UNCHANGED <<pc, file, props, body, bi, kind, input>>

NameFreedTwice ==
  /\ pc = "files" /\ bj > 1
  /\ Stops("abort")
  /\ UNCHANGED input

(* Mutant: the search goes on after the first kind found. *)
KindDone_MutNoBreak ==
  /\ pc = "files" /\ ~FileLeft
  /\ pc' = "kind"
  /\ bi' = bi + 1
  /\ UNCHANGED <<dirVars, file, props, body, bj, kind, input>>

(* Mutant: with all kinds wanted the one written is looked at again. *)
KindDone_MutAgain ==
  /\ pc = "files" /\ ~FileLeft
  /\ pc' = "kind"
  /\ bi' = IF opts.all THEN bi ELSE 3
  /\ UNCHANGED <<dirVars, file, props, body, bj, kind, input>>

KindDone ==
  /\ pc = "files" /\ ~FileLeft
  /\ pc' = "kind"
  /\ bi' = IF opts.all THEN bi + 1 ELSE 3
  /\ UNCHANGED <<dirVars, file, props, body, bj, kind, input>>

Return ==
  /\ pc = "kind" /\ (~opts.saveBody \/ bi = 3)
  /\ Stops("ok")
  /\ UNCHANGED input

Next ==
  /\ status = "running"
  /\ \/ StartFile
     \/ EndOfInput
     \/ attr_read_fails
     \/ \E a \in Attr : ReadAttr(a)
     \/ file_add_mapi_attrs
     \/ AddMessageProp
     \/ PropsDone
     \/ WriteLast
     \/ NextKind
     \/ WriteBody
     \/ NameFreedTwice
     \/ KindDone
     \/ Return

Spec == Init /\ [][Next]_vars

(* The process is scheduled and its input, a finite stream, arrives. *)
FairSpec == Spec /\ WF_vars(Next)

=============================================================================
