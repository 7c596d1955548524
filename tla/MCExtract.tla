----------------------------- MODULE MCExtract -----------------------------
(***************************************************************************)
(* Small instances of ExtractProps for TLC.  A path is a tuple: <<"a">> is *)
(* the file a, <<"a", 1>> the file a.1, whether it is a numbered backup or *)
(* an attachment of that name.                                             *)
(***************************************************************************)
EXTENDS ExtractProps

CONSTANTS mcNull, mcHole, mcMalformed, mcUndecodable

MCName == {"a", "a.1", "locked", "", "message.r", "message.h", "message.t"}
MCBase == {<<"a">>, <<"a", 1>>, <<"locked">>, <<"tnef-tmp">>,
           <<"message.r">>, <<"message.h">>, <<"message.t">>}
MCDefault == <<"tnef-tmp">>
MCNumbers == 4
MCPath == MCBase \cup {Append(p, n) : p \in MCBase, n \in 1 .. MCNumbers}
MCMunge ==
  [n \in MCName |-> CASE n = "a.1" -> <<"a", 1>>
                      [] n = "" -> mcNull
                      [] OTHER     -> <<n>>]
MCNumbered == [q \in MCBase \X (1 .. MCNumbers) |-> Append(q[1], q[2])]
MCUnwritable == {<<"locked">>}

MCData == {"", "x", "y", "rtf", "not rtf", "bad rtf"}
MCRtfDecode ==
  [d \in MCData |-> CASE d = "not rtf" -> mcHole
                      [] d = "bad rtf" -> mcMalformed
                      [] OTHER         -> d]
MCDate == {"monday", "day 9"}
MCBadDates == {"day 9"}
MCTag == {"mime", "cid"}
MCBodyName ==
  [r |-> "message.r", h |-> "message.h", t |-> "message.t"]
MCBodyMime == [r |-> "mime", h |-> "mime", t |-> "mime"]

-----------------------------------------------------------------------------
(* Attributes *)

A(lvl, name, value) ==
  [lvl |-> lvl, name |-> name, value |-> value, len |-> 2, intact |-> TRUE]

P(name, type, values) == [name |-> name, type |-> type, values |-> values]

Rend == A("attachment", "RENDDATA", mcNull)

(* Two attachments and the names they collide on. *)
NameAttrs ==
  {Rend,
   A("attachment", "TITLE", "a"), A("attachment", "TITLE", "a.1"),
   A("attachment", "DATA", "x"), A("attachment", "DATA", "y")}

(* Every way an attachment gets its fields, and the ways it cannot. *)
FieldAttrs ==
  {Rend, A("message", "RENDDATA", mcNull),
   [A("attachment", "TITLE", "a") EXCEPT !.intact = FALSE],
   [A("attachment", "DATA", "y") EXCEPT !.len = 9],
   A("attachment", "MODIFYDATE", "day 9"),
   A("attachment", "MODIFYDATE", mcMalformed),
   A("attachment", "ATTACHMENT",
     <<P("LONG_FILENAME", "string", <<"locked">>), P("OTHER", "other", <<"x">>),
       P("DATA_OBJ", "object", <<"x">>)>>),
   A("attachment", "ATTACHMENT",
     <<P("MIME_TAG", "string", <<"mime">>), P("LONG_FILENAME", "string", <<"">>),
       P("CONTENT_ID", "binary", <<"x">>)>>),
   A("attachment", "ATTACHMENT", mcMalformed),
   A("attachment", "ATTACHMENT", mcUndecodable),
   A("attachment", "OTHER", mcNull)}

(* The message bodies, with an attachment beside them. *)
BodyAttrs ==
  {Rend, A("attachment", "TITLE", "message.r"), A("message", "OTHER", mcNull),
   A("message", "BODY", "x"),
   A("message", "MAPIPROPS", <<P("BODY_HTML", "binary", <<"y">>)>>),
   A("message", "MAPIPROPS", <<P("RTF_COMPRESSED", "binary", <<"rtf">>),
                               P("BODY_HTML", "string", <<"a">>)>>),
   A("message", "MAPIPROPS",
     <<P("BODY_HTML", "binary", <<"x", "y">>),
       P("RTF_COMPRESSED", "binary", <<"rtf", "not rtf", "x">>)>>),
   A("message", "MAPIPROPS", <<P("RTF_COMPRESSED", "binary", <<"not rtf">>)>>),
   A("message", "MAPIPROPS", <<P("RTF_COMPRESSED", "binary", <<"bad rtf">>)>>),
   A("message", "MAPIPROPS", mcUndecodable)}

(* The two together: what an attachment and a body share is one stream. *)
StreamAttrs == FieldAttrs \cup BodyAttrs

-----------------------------------------------------------------------------
(* Command lines *)

Plain ==
  [list |-> FALSE, verbose |-> FALSE, interactive |-> FALSE,
   overwrite |-> FALSE, numbered |-> FALSE, checksumOk |-> FALSE,
   encodeOk |-> FALSE, saveBody |-> FALSE, all |-> FALSE,
   pref |-> <<"r", "h", "t">>, maxsize |-> 0]

NameOptions ==
  {[Plain EXCEPT !.overwrite = o, !.numbered = n, !.interactive = i] :
     o, n, i \in BOOLEAN}

FieldOptions ==
  {Plain,
   [Plain EXCEPT !.checksumOk = TRUE, !.encodeOk = TRUE, !.numbered = TRUE],
   [Plain EXCEPT !.checksumOk = TRUE, !.list = TRUE, !.verbose = TRUE],
   [Plain EXCEPT !.overwrite = TRUE, !.maxsize = 8],
   [Plain EXCEPT !.maxsize = 4]}

Saving == [Plain EXCEPT !.saveBody = TRUE]

BodyOptions ==
  {Plain, Saving, [Saving EXCEPT !.all = TRUE, !.numbered = TRUE],
   [Saving EXCEPT !.pref = <<"t", "r">>], [Saving EXCEPT !.pref = <<"h">>],
   [Saving EXCEPT !.all = TRUE, !.list = TRUE, !.encodeOk = TRUE],
   [Saving EXCEPT !.all = TRUE, !.maxsize = 8]}

StreamOptions == FieldOptions \cup BodyOptions

OneLetter     == {[Saving EXCEPT !.pref = <<"h">>]}
SavingAll     == {[Saving EXCEPT !.all = TRUE]}

-----------------------------------------------------------------------------
(* Directories the run may find *)

NoFiles   == {{}}
SomeFiles == {{}, {<<"a">>}, {<<"a">>, <<"a", 1>>, <<"a", 2>>},
              {<<"a">>, <<"a", 2>>}}
=============================================================================
