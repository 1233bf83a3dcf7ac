--------------------------- MODULE MCEmailWriter ---------------------------
(* Small mails: message 1 is written; 2 and 3 can be embedded, 4 is no     *)
(* mail.                                                                   *)
EXTENDS EmailWriter

Chunk(first, rest, rfc822, fields) == [first |-> first, rest |-> rest, rfc822 |-> rfc822, fields |-> fields]

Real == Chunk("listed", "listed", FALSE, {"From", "Date", "Content-Type", "MIME-Version"})
Odd == Chunk("other", "other", FALSE, {"Subject"})
TextPart == Chunk("listed", "bogus", FALSE, {"Content-Type"})
MailPart == Chunk("listed", "bogus", TRUE, {"Content-Type"})
Bogus == Chunk("bogus", "bogus", FALSE, {})

Attach(n, method, msg, data, i_id, known, wanted, name) ==
  [n |-> n, method |-> method, msg |-> msg, data |-> data, i_id |-> i_id,
   known |-> known, wanted |-> wanted, name |-> name]
Embed(n, msg) == Attach(n, Embedded, msg, FALSE, TRUE, TRUE, TRUE, NoName)
Name(stem, number, suffix) == [stem |-> stem, number |-> number, suffix |-> suffix]

\* A message with these headers and attachments and nothing else.
Plain(header, attach) ==
  [email |-> TRUE, type |-> "NOTE", header |-> header, has |-> {"To"}, report |-> FALSE, body |-> TRUE,
   html |-> FALSE, rtf |-> FALSE, encrypted |-> FALSE, encryptedHtml |-> FALSE,
   appointment |-> FALSE, attach |-> attach]

NoMail == [Plain(<<>>, <<>>) EXCEPT !.email = FALSE]
Pair(m) == m @@ (4 :> NoMail)

OuterHeaders ==
  {<<>>, <<Real>>, <<Bogus, MailPart, Real>>, <<Odd, MailPart>>}
  \cup {<<Real, MailPart, Real>> \o t : t \in {<<>>, <<TextPart>>, <<MailPart, Real>>, <<TextPart, MailPart, Odd>>}}
  \cup {<<Real, TextPart>> \o t : t \in {<<>>, <<MailPart, Real, TextPart>>, <<MailPart, Odd, MailPart, Real>>}}

InnerHeaders == {<<>>, <<Real>>, <<Odd, MailPart, Real>>}

\* Who gets which headers: embedded messages side by side and nested.
HeaderMails ==
  {Pair((1 :> Plain(o, a)) @@ (2 :> Plain(i, b)) @@ (3 :> Plain(j, <<>>))) :
     o \in OuterHeaders, i \in InnerHeaders, j \in InnerHeaders,
     a \in {<<Embed(1, 2), Embed(2, 3)>>, <<Embed(1, 3), Embed(2, 2), Embed(3, 3)>>,
            <<Embed(1, 4), Embed(2, 2)>>, <<Embed(1, 0), Embed(2, 3), Embed(3, 3)>>},
     b \in {<<>>, <<Embed(1, 3)>>}}

\* Every combination of bodies, in a message and in one it embeds.
BodyMails ==
  {Pair((1 :> m) @@ (2 :> [m EXCEPT !.attach = <<>>]) @@ (3 :> Plain(<<>>, <<>>))) :
     m \in {[Plain(<<Real>>, <<Embed(1, 2)>>) EXCEPT !.type = t, !.report = r, !.body = r, !.html = h, !.rtf = f,
                     !.encrypted = e, !.encryptedHtml = x, !.appointment = h] :
              t \in {"NOTE", "REPORT", "SCHEDULE"}, r \in BOOLEAN, h \in BOOLEAN,
              f \in BOOLEAN, e \in BOOLEAN, x \in BOOLEAN}}

Names == {NoName, Name("a", 0, <<>>), Name("a", 0, <<1>>), Name("attach", 1, <<>>), Name("attach", 2, <<>>)}

\* Attachments of every kind and names that meet.
NamedAttach(n) == {Attach(n, 1, 0, TRUE, FALSE, FALSE, TRUE, name) : name \in Names}
OddAttach(n) == {Attach(n, 1, 0, FALSE, TRUE, k, TRUE, NoName) : k \in BOOLEAN}
                \cup {Attach(n, 1, 0, FALSE, FALSE, FALSE, TRUE, NoName),
                      Attach(n, 1, 0, TRUE, TRUE, TRUE, FALSE, Name("a", 0, <<>>)), Embed(n, 2)}
AnyAttach(n) == NamedAttach(n) \cup OddAttach(n)

AttachMails ==
  {Pair((1 :> [Plain(<<Real>>, <<a, b, c>>) EXCEPT !.encrypted = e])
        @@ (2 :> Plain(<<>>, <<a>>)) @@ (3 :> Plain(<<>>, <<>>))) :
     a \in NamedAttach(1), b \in AnyAttach(2), c \in AnyAttach(3), e \in BOOLEAN}

MCMails == HeaderMails \cup BodyMails \cup AttachMails
=============================================================================
