---------------------------- MODULE MCItemParse ----------------------------
(* Small files: a message (block 10) with an id2 tree (blocks 1 and 2),    *)
(* report rows (11), an attachment table (12) with two records (13, 14),   *)
(* and an embedded message (15); and one file for every MAPI field.        *)
EXTENDS ItemParse

El(part, name, type, value) ==
  [field |-> <<part, name>>, type |-> type, size |-> 1, value |-> value, text |-> <<>>]

Class(c) == [El("item", "message_class", "text", 0) EXCEPT !.text = c]
Note == Class(<<"IPM", "Note">>)
Mail == <<Note, El("email", "header", "text", 0)>>

\* A row of the table: its place, the record it names, how it is attached.
TableRow(s, id2, method) ==
  <<El("attach", "sequence", "int", s), El("attach", "id2_val", "int", id2),
    El("attach", "method", "int", method), El("attach", "filename1", "text", 0)>>

Later(id2) == <<El("attach", "data", "external", id2)>>
Direct == <<El("attach", "data", "binary", 0), El("item", "file_as", "text", 0)>>

Rec(id2, id, child) == [id2 |-> id2, id |-> id, child |-> child]

\* back = 0, 1 or 99: what lies below the embedded message (1 is a cycle, 99
\* is not in the index).
MailFile(main, reports, table, first, second, inner, back) ==
  [desc |-> 10, assocRoot |-> 1, index |-> {1, 2, 10, 11, 12, 13, 14, 15},
   assoc |-> (1 :> <<Rec(ReportsId, 11, 0), Rec(TableId, 12, 0), Rec(5, 13, 2), Rec(6, 14, 2), Rec(8, 98, 0)>>)
             @@ (2 :> <<Rec(7, 15, back), Rec(5, 14, 0)>>),
   rows |-> main @@ reports @@ table @@ first @@ second @@ inner]

Absent == <<>>
MailFiles ==
  {MailFile(m, r, t, f, s, i, b) :
     m \in {Absent, 10 :> <<Mail>>, 10 :> <<<<Note>>>>},
     r \in {Absent, 11 :> <<<<El("attach", "filename2", "text", 0)>>, <<El("attach", "data", "binary", 0)>>>>,
            11 :> <<<<El("attach", "id2_val", "int", 5)>>, <<El("attach", "data", "binary", 0)>>>>},
     t \in {Absent, 12 :> <<TableRow(1, 5, Embedded), TableRow(2, 6, Embedded)>>,
            12 :> <<TableRow(1, 6, 1), TableRow(2, 8, Embedded), TableRow(3, 5, Embedded)>>},
     f \in {Absent, 13 :> <<Later(7)>>, 13 :> <<Later(7), Direct>>},
     s \in {14 :> <<Direct>>, 14 :> <<Later(5)>>},
     i \in {Absent, 15 :> <<Mail>>},
     b \in {0, 1, 99}}

Kinds == {"text", "binary", "time", "bool", "int", "array", "external"}

\* A message that sets one field, twice and in two ways, without a tree.
FieldFile(f, a, b) ==
  LET e(t) == [El(f[1], f[2], t, 0) EXCEPT
                 !.text = IF f[2] = "extra_fields" THEN <<"charset">> ELSE <<"REPORT">>]
  IN [desc |-> 10, assocRoot |-> 0, index |-> {10}, assoc |-> <<>>,
      rows |-> 10 :> <<<<Note, e(a), e(b)>>>>]

FieldFiles == {FieldFile(f, a, b) : f \in AllFields, a \in {"text", "time", "binary"}, b \in {"array", "external", "int"}}

MCFiles == MailFiles \cup FieldFiles
=============================================================================
