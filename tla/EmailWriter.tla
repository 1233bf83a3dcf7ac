----------------------------- MODULE EmailWriter -----------------------------
(***************************************************************************)
(* write_normal_email of readpst.c and what it calls: the headers a mail   *)
(* gets, the MIME parts it is written as, its attachments, and the         *)
(* embedded messages that are written by the same function while the outer *)
(* one is still open.  Embedded messages without headers of their own      *)
(* borrow some from a string all of them share, extra_mime_headers.        *)
(*                                                                         *)
(* The text in a header field is a sequence of chunks, the pieces between  *)
(* empty lines:                                                            *)
(*   first   what its first line is: "listed" (a field valid_headers knows *)
(*           by name), "other" (a line that looks like a field), "bogus",  *)
(*   rest    the same, once the fields that are not emitted are gone,      *)
(*   rfc822  whether its Content-Type is message/rfc822,                   *)
(*   fields  the fields it has.                                            *)
(***************************************************************************)
EXTENDS Integers, Sequences, FiniteSets, SequencesExt, TLC

CONSTANTS Mails,    \* each a function from block ids to messages; 1 is written
          WriteModes, \* "normal", "separate" or "mh" (separate files, no mode_MH)
          Embedded  \* PST_ATTACH_EMBEDDED

Kinds == {"listed", "other", "bogus"}
Chunks == [first: Kinds, rest: Kinds, rfc822: BOOLEAN, fields: SUBSET STRING]
Stems == STRING \cup {"", "attach", "rtf-body.rtf"}  \* those of a file and of readpst
FileNames == [stem: Stems, number: Nat, suffix: Seq(Nat)]
Attachments == [n: Int, method: Int, msg: Nat, data: BOOLEAN, known: BOOLEAN,
                i_id: BOOLEAN, wanted: BOOLEAN, name: FileNames]
MessageTypes == [email: BOOLEAN, type: STRING, header: Seq(Chunks), has: SUBSET STRING,
                 report: BOOLEAN, body: BOOLEAN, html: BOOLEAN, rtf: BOOLEAN, encrypted: BOOLEAN,
                 encryptedHtml: BOOLEAN, appointment: BOOLEAN, attach: Seq(Attachments)]

(* A message embeds messages with greater numbers only: one that contains  *)
(* itself would have its boundary inside itself, and here no id2 tree      *)
(* bounds how deep the calls go.                                           *)
ASSUME MailsAssumption ==
  \A m \in Mails :
    /\ 1 \in DOMAIN m
    /\ \A i \in DOMAIN m :
         /\ m[i] \in MessageTypes
         /\ \A j \in DOMAIN m[i].attach :
              /\ m[i].attach[j].n > 0
              /\ m[i].attach[j].msg # 0 => m[i].attach[j].msg \in DOMAIN m /\ m[i].attach[j].msg > i
              /\ \A k \in DOMAIN m[i].attach : m[i].attach[j].n = m[i].attach[k].n => j = k
ASSUME EmbeddedAssumption == Embedded \in Nat \ {0}

VARIABLES mail,     \* the messages of the file
          saveRtf,  \* save_rtf
          stack,    \* the calls of write_normal_email, innermost last
          extra,    \* what extra_mime_headers points to
          calls,    \* counts the calls, which numbers the items
          out,      \* what went into the mail file: the MIME structure
          files,    \* the files of separate attachments, by name
          given     \* the headers every message got, in the order of writing

mailVars == <<mail, saveRtf, stack, extra, calls, out, files, given>>

\* NULL, or a chunk of the header of some item.  ends: a 0 byte ends the
\* chunk; stripped: header_strip_field went over it.
NoExtra == [item |-> 0, msg |-> 0, chunk |-> 0, ends |-> TRUE, stripped |-> FALSE]

Frame(item, msg, how) ==
  [item |-> item, msg |-> msg, mode |-> how, pc |-> "headers", attach |-> <<>>, num |-> 0]

Top == stack[Len(stack)]
Message == mail[Top.msg]
Replace(frame) == [stack EXCEPT ![Len(stack)] = frame]
AtStep(pc) == stack # <<>> /\ Top.pc = pc

\* The items that are allocated: those of the calls under way.
Live == {stack[s].item : s \in DOMAIN stack}

MailInit ==
  /\ mail \in Mails /\ saveRtf \in BOOLEAN
  /\ \E how \in WriteModes : stack = <<Frame(1, 1, how)>>
  /\ extra = NoExtra /\ calls = 1
  /\ out = <<>> /\ files = <<>> /\ given = <<>>

-----------------------------------------------------------------------------
(* valid_headers: a listed first field, or one that is at least reasonable *)
(* and ends with CR LF.  The text behind extra_mime_headers has gone       *)
(* through removeCR, so only the list is left for it.                      *)
ValidOwn(header) == header # <<>> /\ header[1].first \in {"listed", "other"}

ExtraChunk == mail[extra.msg].header[extra.chunk]

ValidExtra ==
  /\ extra # NoExtra
  /\ (IF extra.stripped THEN ExtraChunk.rest ELSE ExtraChunk.first) = "listed"

\* Variant: the search stops at the part that announces the message.
FindRfc822Early(x) ==
  LET header == mail[x.msg].header
      hits == {j \in x.chunk .. Len(header) - 1 : header[j].rfc822}
  IN IF x = NoExtra \/ x.ends \/ x.chunk = Len(header) THEN x
     ELSE [x EXCEPT !.stripped = FALSE,
                    !.chunk = IF hits = {} THEN Len(header)
                              ELSE CHOOSE j \in hits : \A i \in hits : j <= i]

(* find_rfc822_headers: on to the chunk after the next one that announces  *)
(* a message/rfc822, or to the last one.  Chunks that are passed are cut.  *)
FindRfc822(x) ==
  LET header == mail[x.msg].header
      hits == {j \in x.chunk .. Len(header) - 1 : header[j].rfc822}
  IN IF x = NoExtra \/ x.ends \/ x.chunk = Len(header) THEN x
     ELSE [x EXCEPT !.stripped = FALSE,
                    !.chunk = IF hits = {} THEN Len(header)
                              ELSE 1 + CHOOSE j \in hits : \A i \in hits : j <= i]

\* Own headers are cut at the first empty line; what follows becomes the
\* extra headers if there are none yet.
AfterOwn(x, item, msg) ==
  IF x = NoExtra /\ Len(mail[msg].header) > 1
  THEN [item |-> item, msg |-> msg, chunk |-> 2, ends |-> FALSE, stripped |-> FALSE]
  ELSE x

\* Borrowed headers are cut in place; extra_mime_headers stays where it is.
AfterBorrowed(x) == [x EXCEPT !.ends = TRUE, !.stripped = TRUE]

\* The fields header_strip_field takes out.
StripFields == {"Mail-Internet-Headers", "MIME-Version", "Content-Type", "Content-Transfer-Encoding",
                "Content-class", "X-MimeOLE", "X-From_"}

(* The fields written after the headers: what they lack, as far as the     *)
(* item has it, and always our own two.                                    *)
Created(present, m) ==
  (({"From", "Subject"} \cup m.has) \ present) \cup {"MIME-Version", "Content-Type"}

\* What gets into the mail file.  A boundary is that of a message, by the
\* block id in its name, or that of its alternative part.
Boundary(msg, alt) == [msg |-> msg, alt |-> alt]
MainBoundary == Boundary(Top.msg, FALSE)
Token(kind, boundary, what, n) ==
  [kind |-> kind, boundary |-> boundary, what |-> what, item |-> Top.item, n |-> n]

Headed(source, chunk, copied, created) ==
  [item |-> Top.item, msg |-> Top.msg, source |-> source, from |-> extra.msg,
   alive |-> extra.item \in Live, chunk |-> chunk, copied |-> copied, created |-> created]

(* The start of write_normal_email, up to the end of the headers.  When    *)
(* the item extra_mime_headers points into has been freed, its text may    *)
(* still be there, or whatever is there is no valid header.                *)
UseHeaders(source, chunk, fields, x) ==
  /\ given' = Append(given, Headed(source, chunk, fields \ StripFields, Created(fields, Message)))
  /\ extra' = x
  /\ out' = Append(out, Token("open", MainBoundary, "mail", 0))
  /\ stack' = Replace([Top EXCEPT !.pc = "bodies"])
  /\ UNCHANGED <<mail, saveRtf, calls, files>>

OwnHeaders ==
  /\ AtStep("headers") /\ ValidOwn(Message.header)
  /\ UseHeaders("own", 1, Message.header[1].fields, AfterOwn(extra, Top.item, Top.msg))

BorrowHeaders ==
  /\ AtStep("headers") /\ ~ValidOwn(Message.header) /\ ValidExtra
  /\ UseHeaders("extra", extra.chunk, ExtraChunk.fields \ (IF extra.stripped THEN StripFields ELSE {}),
                AfterBorrowed(extra))

NoHeaders ==
  /\ AtStep("headers") /\ ~ValidOwn(Message.header)
  /\ ~ValidExtra \/ extra.item \notin Live
  /\ UseHeaders("none", 0, {}, extra)

-----------------------------------------------------------------------------
(* The body parts, in the order they are written.                          *)
Parts(present, tokens) == IF present THEN tokens ELSE <<>>

\* Variant: the HTML body is a part of the whole message.
BodyPartsFlat(m) ==
  LET both == m.body /\ m.html
      inner == Boundary(Top.msg, both)
  IN Parts(m.type = "REPORT" /\ m.report, <<Token("part", MainBoundary, "report", 0)>>)
     \o Parts(both, <<Token("part", MainBoundary, "multipart", 0), Token("open", inner, "alternative", 0)>>)
     \o Parts(m.body, <<Token("part", inner, "plain", 0)>>)
     \o Parts(m.html, <<Token("part", MainBoundary, "html", 0)>>)
     \o Parts(both, <<Token("close", inner, "alternative", 0)>>)

\* A plain and an HTML body are the two parts of an alternative.
BodyParts(m) ==
  LET both == m.body /\ m.html
      inner == Boundary(Top.msg, both)
  IN Parts(m.type = "REPORT" /\ m.report, <<Token("part", MainBoundary, "report", 0)>>)
     \o Parts(both, <<Token("part", MainBoundary, "multipart", 0), Token("open", inner, "alternative", 0)>>)
     \o Parts(m.body, <<Token("part", inner, "plain", 0)>>)
     \o Parts(m.html, <<Token("part", inner, "html", 0)>>)
     \o Parts(both, <<Token("close", inner, "alternative", 0)>>)

\* write_schedule_part: the request twice, inline and as an attachment.
ScheduleParts(m) ==
  Parts(m.type = "SCHEDULE" /\ m.appointment,
        <<Token("part", MainBoundary, "calendar", 1),
          Token("part", MainBoundary, "calendar", 2)>>)

\* An attachment: n identifies it, msg is the message it embeds or 0, known
\* says that its block is in the index, wanted is acceptable_ext, name is what
\* check_filename leaves of its file name.
NoName == [stem |-> "", number |-> 0, suffix |-> <<>>]
BodyAttach(n, name) == [n |-> n, method |-> 0, msg |-> 0, data |-> TRUE, known |-> FALSE,
                        i_id |-> FALSE, wanted |-> TRUE, name |-> name]
RtfName == [stem |-> "rtf-body.rtf", number |-> 0, suffix |-> <<>>]

\* The bodies that are turned into attachments, each in front of the list;
\* encrypted bodies have no name.
\* (rtf: compressed RTF that can be decompressed)
BodyAttachments(m) ==
  Parts(m.encryptedHtml, <<BodyAttach(-3, NoName)>>)
  \o Parts(m.encrypted, <<BodyAttach(-2, NoName)>>)
  \o Parts(m.rtf /\ saveRtf, <<BodyAttach(-1, RtfName)>>)

WriteBodies ==
  /\ AtStep("bodies")
  /\ out' = out \o BodyParts(Message) \o ScheduleParts(Message)
  /\ stack' = Replace([Top EXCEPT !.pc = "attachments", !.attach = BodyAttachments(Message) \o Message.attach])
  /\ UNCHANGED <<mail, saveRtf, extra, calls, files, given>>

-----------------------------------------------------------------------------
(* The loop over the attachments.                                          *)
Next1 == Head(Top.attach)
AttachLeft == AtStep("attachments") /\ Top.attach # <<>>
Advanced == [Top EXCEPT !.attach = Tail(@)]

\* A freed item's text may be gone when the search for rfc822 headers reads it.
FoundExtra == {FindRfc822(extra)} \cup (IF extra.item \in Live THEN {} ELSE {extra})

\* pst_parse_item gives an item with an email part.
IsMail(msg) == msg # 0 /\ mail[msg].email

(* write_embedded_message: the part is announced once the item is known to *)
(* be a mail, which is then written into the same file.                    *)
EmbedMessage ==
  /\ AttachLeft /\ Next1.method = Embedded /\ IsMail(Next1.msg)
  /\ extra' \in FoundExtra
  /\ out' = Append(out, Token("part", MainBoundary, "multipart", Next1.n))
  /\ calls' = calls + 1
  /\ stack' = Append(Replace(Advanced), Frame(calls', Next1.msg, "normal"))
  /\ UNCHANGED <<mail, saveRtf, files, given>>

EmbedNothing ==
  /\ AttachLeft /\ Next1.method = Embedded /\ ~IsMail(Next1.msg)
  /\ extra' \in FoundExtra
  /\ stack' = Replace(Advanced)
  /\ UNCHANGED <<mail, saveRtf, calls, out, files, given>>

\* There is something to write, of a kind that is asked for.
HasContent(a) == (a.data \/ a.i_id) /\ a.wanted
Separately == Top.mode = "separate"

\* Neither data nor a block with it.
Unfetchable(a) == ~a.data /\ ~a.known

(* write_separate_attachment: a name is probed with -1, -2... until no     *)
(* file has it; without a name the number of the attachment makes one,     *)
(* which is not probed.                                                    *)
Suffixed(name, x) == IF x = 0 THEN name ELSE [name EXCEPT !.suffix = Append(@, x)]
DummyName(num) == [stem |-> "attach", number |-> num, suffix |-> <<>>]

\* Variant: names are not probed either.
FreeNameUnprobed(name) == name

FreeName(name) ==
  LET free == {x \in 0 .. Cardinality(DOMAIN files) : Suffixed(name, x) \notin DOMAIN files}
  IN Suffixed(name, CHOOSE x \in free : \A y \in free : x <= y)

WithFile(name, n) == [f \in DOMAIN files \cup {name} |-> IF f = name THEN n ELSE files[f]]

WriteSeparateAttachment ==
  /\ AttachLeft /\ Next1.method # Embedded /\ HasContent(Next1) /\ Separately
  /\ LET num == Top.num + 1
         name == IF Next1.name = NoName THEN DummyName(num) ELSE FreeName(Next1.name)
     IN /\ files' = IF Unfetchable(Next1) THEN files ELSE WithFile(name, Next1.n)
        /\ stack' = Replace([Advanced EXCEPT !.num = num])
  /\ UNCHANGED <<mail, saveRtf, extra, calls, out, given>>

WriteInline ==
  /\ AttachLeft /\ Next1.method # Embedded /\ HasContent(Next1) /\ ~Separately
  /\ out' = IF Unfetchable(Next1) THEN out
            ELSE Append(out, Token("part", MainBoundary, "attachment", Next1.n))
  /\ stack' = Replace(Advanced)
  /\ UNCHANGED <<mail, saveRtf, extra, calls, files, given>>

SkipAttachment ==
  /\ AttachLeft /\ Next1.method # Embedded /\ ~HasContent(Next1)
  /\ stack' = Replace(Advanced)
  /\ UNCHANGED <<mail, saveRtf, extra, calls, out, files, given>>

\* The end of the message; write_embedded_message or process frees the item.
Finish ==
  /\ AtStep("attachments") /\ Top.attach = <<>>
  /\ out' = Append(out, Token("close", MainBoundary, "mail", 0))
  /\ stack' = Front(stack)
  /\ UNCHANGED <<mail, saveRtf, extra, calls, files, given>>

Done == stack = <<>> /\ UNCHANGED mailVars

MailNext == \/ OwnHeaders \/ BorrowHeaders \/ NoHeaders
        \/ WriteBodies
        \/ EmbedMessage \/ EmbedNothing \/ WriteSeparateAttachment \/ WriteInline \/ SkipAttachment
        \/ Finish \/ Done

MailSpec == MailInit /\ [][MailNext]_mailVars

-----------------------------------------------------------------------------
(* The boundaries that are open after each token, outermost first.         *)
AfterToken(open, t) ==
  CASE t.kind = "open" -> Append(open, t.boundary)
    [] t.kind = "close" /\ open # <<>> -> Front(open)
    [] OTHER -> open

OpenAfter[i \in 0 .. Len(out)] == IF i = 0 THEN <<>> ELSE AfterToken(OpenAfter[i - 1], out[i])

Fits(open, t) ==
  IF t.kind = "open" THEN t.boundary \notin ToSet(open)
  ELSE open # <<>> /\ Last(open) = t.boundary

(* The mail file is one well-formed MIME entity: a part appears inside the *)
(* boundary that was opened last, a boundary is closed before the one it   *)
(* is nested in and never opened inside itself, and a part is announced as *)
(* a multipart exactly when one follows.  At the end everything is closed. *)
(* Every message has From, Subject, MIME-Version and Content-Type, none of *)
(* them twice, wherever its headers came from.                             *)
MimeWellFormed ==
  /\ \A i \in DOMAIN out : Fits(OpenAfter[i - 1], out[i])
  /\ stack = <<>> => OpenAfter[Len(out)] = <<>>
  /\ \A i \in DOMAIN out :
       /\ i > 1 => ((out[i].kind = "open") <=> (out[i - 1].kind = "part" /\ out[i - 1].what = "multipart"))
  /\ \A g \in ToSet(given) : /\ g.copied \cap g.created = {}
                             /\ {"From", "Subject", "MIME-Version", "Content-Type"} \subseteq g.copied \cup g.created

\* What has to be kept of an attachment of the message of a call.
Wanted(a) == IF a.method = Embedded THEN IsMail(a.msg) ELSE HasContent(a) /\ ~Unfetchable(a)
AllAttachments(m) == BodyAttachments(m) \o m.attach
Written(frame, a) == {i \in DOMAIN out : out[i].item = frame.item /\ out[i].n = a.n /\ a.n # 0
                                         /\ out[i].what \in {"attachment", "multipart"}}
FilesOf(a) == {f \in DOMAIN files : files[f] = a.n}
Unnamed(frame) == {a.n : a \in {a \in ToSet(AllAttachments(mail[frame.msg])) : a.name = NoName}}

(* Every attachment that can be read is written exactly once, into the     *)
(* mail or into a file of its own that later attachments leave alone, also *)
(* when two have the same name or one has the name another is renamed to.  *)
(* Only attachments without a name break this: the name made up for them   *)
(* is not probed and replaces a file that has it.                          *)
AttachmentsKept ==
  \A s \in DOMAIN stack :
    LET frame == stack[s]
    IN frame.pc = "attachments" =>
         \A a \in ToSet(AllAttachments(mail[frame.msg])) :
           Wanted(a) /\ a \notin ToSet(frame.attach) =>
             IF frame.mode = "separate" /\ a.method # Embedded
             THEN \/ Cardinality(FilesOf(a)) = 1
                  \/ \E f \in DOMAIN files : /\ f.stem = "attach" /\ files[f] \in Unnamed(frame)
                                             /\ a.name.stem = "attach"
             ELSE Cardinality(Written(frame, a)) = 1

(* Borrowed headers are those of an embedded message: they directly follow *)
(* a part that announced one, or are the last there are, and later         *)
(* messages never go back to earlier chunks.  The outermost message never  *)
(* borrows, and nobody who has valid headers does.  Nothing is promised    *)
(* of text that is read from a freed item, which the code does: see        *)
(* UseHeaders.                                                             *)
BorrowedHeaders ==
  \A j \in DOMAIN given :
    LET g == given[j]
    IN g.source = "extra" /\ g.alive =>
         /\ j > 1 /\ ~ValidOwn(mail[g.msg].header)
         /\ g.chunk = Len(mail[g.from].header) \/ mail[g.from].header[g.chunk - 1].rfc822
         /\ \A i \in 1 .. j - 1 : given[i].source = "extra" /\ given[i].from = g.from => given[i].chunk <= g.chunk
=============================================================================
