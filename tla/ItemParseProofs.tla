--------------------------- MODULE ItemParseProofs ---------------------------
(***************************************************************************)
(* The life of trees and items for every file, whatever its blocks lead    *)
(* to, and every maximal depth: every id2 tree has one owner from the call *)
(* of pst_build_id2 to its pst_free_id2, embedded messages nest no deeper  *)
(* than the trees they are read from, and in the end nothing is left.      *)
(*                                                                         *)
(* The argument goes through the height of trees.  A tree that is built    *)
(* has at most MaxDepth + 1 levels; the copy an attachment keeps lies two  *)
(* levels below the tree it was found in; so call s has at most            *)
(* MaxDepth + 3 - 2s levels to read, and there is no call without one.     *)
(* Height is stated through a family of sets of trees (Levels) since a     *)
(* tree is data of no bounded size.                                        *)
(*                                                                         *)
(* The last part is about what the attachments hold.  A row, and a record, *)
(* reaches one place of the list and does there what it does in a message  *)
(* with a single attachment (RowPlace, ListPlace, RecordPlace); the        *)
(* invariant PairInv says how far a call has come with its list, and that  *)
(* the copies of finished attachments are still what they were made as.    *)
(***************************************************************************)
EXTENDS ItemParse, FiniteSetTheorems, SequenceTheorems, WellFoundedInduction, TLAPS

-----------------------------------------------------------------------------
(* What pst_freeItem gives back.                                           *)
\* Every buffer an element can leave in an item is given back but one.
Storable == Fields("text") \cup Fields("time") \cup Fields("bin") \cup Fields("entry")
            \cup {<<"attach", "data">>, <<"item", "extra_fields">>,
                  <<"item", "ascii_type">>, <<"item", "body_charset">>}
Forgotten == {<<"journal", "description">>}

\* One kind of field of one table.
FreedSoon(t) == /\ t.text \subseteq FreedFields \cup Forgotten
                /\ t.time \subseteq FreedFields \cup Forgotten
                /\ t.bin \subseteq FreedFields \cup Forgotten
                /\ t.entry \subseteq FreedFields \cup Forgotten

\* The tables one by one.
LEMMA EnvelopeFreed == FreedSoon(Envelope)
BY DEF FreedSoon, Envelope, Of, FreedFields, FreedEmail, FreedOther, Forgotten

\* Senders and recipients.
LEMMA SendersFreed == FreedSoon(Senders)
BY DEF FreedSoon, Senders, Of, FreedFields, FreedEmail

\* Bodies and addresses.
LEMMA BodiesFreed == FreedSoon(Bodies)
BY DEF FreedSoon, Bodies, Of, FreedFields, FreedEmail, FreedOther, FreedContact

\* The store and its folders.
LEMMA StoreFreed == FreedSoon(StoreAndFolder)
BY DEF FreedSoon, StoreAndFolder, Of, FreedFields, FreedOther

\* Attachments.
LEMMA AttachFreed == FreedSoon(AttachFields)
BY DEF FreedSoon, AttachFields, Of, FreedFields, FreedAttach

\* Names and numbers of a contact.
LEMMA NamesFreed == FreedSoon(ContactNames)
BY DEF FreedSoon, ContactNames, Of, FreedFields, FreedContact

\* Places of a contact.
LEMMA PlacesFreed == FreedSoon(ContactPlaces)
BY DEF FreedSoon, ContactPlaces, Of, FreedFields, FreedContact

\* What belongs to none of the others.
LEMMA VariousFreed == FreedSoon(Various)
BY DEF FreedSoon, Various, Of, FreedFields, FreedEmail, FreedOther

\* Addresses of a contact.
LEMMA AddressesFreed == FreedSoon(ContactAddresses)
BY DEF FreedSoon, ContactAddresses, Of, FreedFields, FreedContact

\* Appointments.
LEMMA AppointmentFreed == FreedSoon(AppointmentFields)
BY DEF FreedSoon, AppointmentFields, Of, FreedFields, FreedOther

\* Follow-up and journal.
LEMMA LateFreed == FreedSoon(LateFields)
BY DEF FreedSoon, LateFields, Of, FreedFields, FreedOther, FreedContact, Forgotten

\* A field some macro stores to belongs to a table.
LEMMA TablesFreed == \A t \in Tables : FreedSoon(t)
BY EnvelopeFreed, SendersFreed, BodiesFreed, StoreFreed, AttachFreed, NamesFreed, PlacesFreed, VariousFreed,
   AddressesFreed, AppointmentFreed, LateFreed DEF Tables

\* Nothing else is ever lost.
LEMMA StorableFreed == Storable \subseteq FreedFields \cup Forgotten
<1>1. \A x \in Fields("text") : x \in FreedFields \cup Forgotten
  BY TablesFreed DEF Fields, FreedSoon
<1>2. \A x \in Fields("time") : x \in FreedFields \cup Forgotten
  BY TablesFreed DEF Fields, FreedSoon
<1>3. \A x \in Fields("bin") : x \in FreedFields \cup Forgotten
  BY TablesFreed DEF Fields, FreedSoon
<1>4. \A x \in Fields("entry") : x \in FreedFields \cup Forgotten
  BY TablesFreed DEF Fields, FreedSoon
<1>5. {<<"attach", "data">>, <<"item", "extra_fields">>, <<"item", "ascii_type">>, <<"item", "body_charset">>}
      \subseteq FreedFields
  BY DEF FreedFields, FreedAttach, FreedOther, Of
<1> QED BY <1>1, <1>2, <1>3, <1>4, <1>5 DEF Storable

-----------------------------------------------------------------------------
(* What a list of elements does to an item.                                *)
Attachment == [held : SUBSET Storable, id2_val : Int, i_id : Int, id2_head : Nat, method : Int, sequence : Int]
ItemTypes == {"NONE", "OTHER", "NOTE", "CONTACT", "REPORT", "JOURNAL", "APPOINTMENT", "SCHEDULE",
              "STICKYNOTE", "TASK"}
Parts == {f[1] : f \in AllFields}
Item == [parts : SUBSET Parts, held : SUBSET Storable, type : ItemTypes, block_id : Int, attach : Seq(Attachment)]

\* The attachments stay where they are, with their trees.
Keeps(item, new) ==
  /\ new \in Item
  /\ Len(new.attach) = Len(item.attach)
  /\ \A j \in 1 .. Len(item.attach) :
       new.attach[j].i_id = item.attach[j].i_id /\ new.attach[j].id2_head = item.attach[j].id2_head

\* Two lists of elements one after the other.
LEMMA KeepsTransitive ==
  ASSUME NEW a \in Item, NEW b, NEW c, Keeps(a, b), Keeps(b, c)
  PROVE  Keeps(a, c)
BY DEF Keeps

\* A set of numbers has a least one.
LEMMA Least == ASSUME NEW S, S \subseteq Nat, S # {} PROVE \E i \in S : \A j \in S : i <= j
<1>1. \E x \in S : \A y \in S : ~ (<<y, x>> \in OpToRel(<, Nat))
  BY NatLessThanWellFounded, WFMin
<1>2. PICK x \in S : \A y \in S : ~ (y < x)
  BY <1>1 DEF OpToRel
<1>3. \A y \in S : x <= y
  BY <1>2
<1> QED BY <1>3

\* The classes have types.
Classes(table) == \A i \in DOMAIN table : i \in Nat /\ table[i].type \in ItemTypes

\* Both tables of classes name types of items.
LEMMA ClassTables == Classes(MessageClasses) /\ Classes(ContainerClasses)
<1>1. Classes(MessageClasses)
  BY DEF Classes, MessageClasses, Row, ItemTypes
<1>2. Classes(ContainerClasses)
  BY DEF Classes, ContainerClasses, Row, ItemTypes
<1> QED BY <1>1, <1>2

\* So does a search in such a table.
LEMMA ClassFound == ASSUME NEW table, Classes(table), NEW cls PROVE FirstMatch(table, cls) \in ItemTypes
<1> DEFINE hits == {i \in DOMAIN table : IF table[i].exact THEN table[i].class = cls
                                                      ELSE SameStart(table[i].class, cls)}
<1>1. hits \subseteq DOMAIN table /\ hits \subseteq Nat
  BY DEF Classes
<1>2. FirstMatch(table, cls) =
        IF hits = {} THEN "OTHER" ELSE table[CHOOSE i \in hits : \A j \in hits : i <= j].type
  BY DEF FirstMatch
<1> HIDE DEF hits
<1>3. CASE hits # {}
  <2>1. PICK x \in hits : x = CHOOSE i \in hits : \A j \in hits : i <= j
    BY <1>1, <1>3, Least
  <2>2. FirstMatch(table, cls) = table[x].type
    BY <1>2, <1>3, <2>1
  <2> QED BY <1>1, <2>2 DEF Classes
<1> QED BY <1>2, <1>3 DEF ItemTypes

\* A copying macro only keeps buffers it can store.
LEMMA CopiedStorable ==
  ASSUME NEW held \in SUBSET Storable, NEW e
  PROVE  Copied(held, e) \in SUBSET Storable
BY DEF Copied, CopyText, CopyTime, CopyBin, CopyEntry, Storable

\* An element of the item itself.
LEMMA ItemProcessed ==
  ASSUME NEW item \in Item, NEW e \in Element
  PROVE  Keeps(item, ProcessItem(item, e))
<1>1. CASE e.field \in {<<"item", "message_class">>, <<"item", "container_class">>}
  <2> DEFINE h == CopyText(item.held, [e EXCEPT !.field = AsciiType])
  <2>1. h \in SUBSET Storable
    BY DEF Item, CopyText, AsciiType, Storable, Element, Textual
  <2>2. ClassType(e, h) \in ItemTypes
    BY ClassTables, ClassFound DEF ClassType
  <2>3. ProcessItem(item, e) = SetClass(item, e)
    <3>1. e.field # <<"item", "extra_fields">> /\ e.field # <<"item", "unknown">> /\ ~ Refused(e)
      BY <1>1 DEF Refused, Of
    <3> QED BY <1>1, <3>1 DEF ProcessItem
  <2>4. SetClass(item, e) = item \/ SetClass(item, e) = [item EXCEPT !.held = h, !.type = ClassType(e, h)]
    BY DEF SetClass
  <2> HIDE DEF h
  <2>5. Keeps(item, item)
    BY DEF Keeps
  <2>6. Keeps(item, [item EXCEPT !.held = h, !.type = ClassType(e, h)])
    BY <2>1, <2>2 DEF Keeps, Item
  <2> QED BY <2>3, <2>4, <2>5, <2>6
<1>2. CASE e.field = <<"item", "extra_fields">>
  <2>1. PICK new : new \subseteq {<<"item", "extra_fields">>, <<"item", "body_charset">>}
                   /\ AddHeader(item, e) = [item EXCEPT !.held = item.held \cup new]
    <3> DEFINE kept == IF Textual(e) \/ (e.type = "array" /\ e.size > 0) THEN {e.field} ELSE {}
               charset == IF Textual(e) /\ e.text = <<"charset">> THEN {<<"item", "body_charset">>} ELSE {}
    <3>1. kept \cup charset \subseteq {<<"item", "extra_fields">>, <<"item", "body_charset">>}
      BY <1>2
    <3>2. AddHeader(item, e) = [item EXCEPT !.held = item.held \cup kept \cup charset]
      BY DEF AddHeader
    <3> HIDE DEF kept, charset
    <3>3. (item.held \cup kept) \cup charset = item.held \cup (kept \cup charset)
      OBVIOUS
    <3> QED BY <3>1, <3>2, <3>3
  <2>2. ProcessItem(item, e) = AddHeader(item, e)
    <3>1. /\ e.field \notin {<<"item", "message_class">>, <<"item", "container_class">>}
          /\ e.field # <<"item", "unknown">> /\ ~ Refused(e)
      BY <1>2 DEF Refused, Of
    <3> QED BY <1>2, <3>1 DEF ProcessItem
  <2>3. item.held \cup new \in SUBSET Storable
    BY <2>1 DEF Storable, Item
  <2> QED BY <2>1, <2>2, <2>3 DEF Keeps, Item
<1>3. CASE e.field \notin {<<"item", "message_class">>, <<"item", "container_class">>, <<"item", "extra_fields">>}
  <2>1. ProcessItem(item, e) = item
        \/ ProcessItem(item, e) = [item EXCEPT !.parts = Allocated(@, e), !.held = Copied(@, e)]
    BY <1>3 DEF ProcessItem
  <2>2. Copied(item.held, e) \in SUBSET Storable /\ Allocated(item.parts, e) \in SUBSET Parts
    BY CopiedStorable DEF Item, Allocated, Element, Parts
  <2>3. Keeps(item, item)
    BY DEF Keeps
  <2> QED BY <2>1, <2>2, <2>3 DEF Keeps, Item
<1> QED BY <1>1, <1>2, <1>3

\* An element of the attachment that is next.
LEMMA AttachProcessed ==
  ASSUME NEW a \in Attachment, NEW e \in Element
  PROVE  /\ ProcessAttach(a, e) \in Attachment
         /\ ProcessAttach(a, e).i_id = a.i_id /\ ProcessAttach(a, e).id2_head = a.id2_head
<1>1. Copied(a.held, e) \in SUBSET Storable
  BY CopiedStorable DEF Attachment
<1>2. e.value \in Int /\ 0 \in Int
  BY DEF Element
<1> QED BY <1>1, <1>2 DEF ProcessAttach, Attachment

\* One element keeps the attachments.
LEMMA ElementProcessed ==
  ASSUME NEW item \in Item, NEW e \in Element, NEW k
  PROVE  Keeps(item, ProcessElement(item, k, e))
<1>1. CASE e.field[1] # "attach"
  BY <1>1, ItemProcessed DEF ProcessElement
<1>2. CASE e.field[1] = "attach" /\ k \notin DOMAIN item.attach
  BY <1>2 DEF ProcessElement, Keeps
<1>3. CASE e.field[1] = "attach" /\ k \in DOMAIN item.attach
  <2> DEFINE a == ProcessAttach(item.attach[k], e)
  <2>0. item.attach \in Seq(Attachment)
    BY DEF Item
  <2>1. k \in 1 .. Len(item.attach) /\ item.attach[k] \in Attachment
    BY <1>3, <2>0
  <2>2. a \in Attachment /\ a.i_id = item.attach[k].i_id /\ a.id2_head = item.attach[k].id2_head
    BY <2>1, AttachProcessed
  <2>3. ProcessElement(item, k, e) = [item EXCEPT !.attach[k] = a]
    BY <1>3 DEF ProcessElement
  <2> HIDE DEF a
  <2> DEFINE s == [item.attach EXCEPT ![k] = a]
  <2>4. s \in Seq(Attachment) /\ Len(s) = Len(item.attach)
    BY <2>0, <2>1, <2>2
  <2>5. \A j \in 1 .. Len(item.attach) : s[j] = IF j = k THEN a ELSE item.attach[j]
    BY <2>0, <2>1
  <2>6. \A j \in 1 .. Len(item.attach) : s[j].i_id = item.attach[j].i_id /\ s[j].id2_head = item.attach[j].id2_head
    BY <2>2, <2>5
  <2>7. [item EXCEPT !.attach[k] = a] = [item EXCEPT !.attach = s]
    BY DEF Item
  <2> HIDE DEF s
  <2>8. [item EXCEPT !.attach = s] \in Item /\ [item EXCEPT !.attach = s].attach = s
    BY <2>4 DEF Item
  <2> QED BY <2>3, <2>4, <2>6, <2>7, <2>8 DEF Keeps
<1> QED BY <1>1, <1>2, <1>3

-----------------------------------------------------------------------------
\* Induction over a set of numbers.
LEMMA SetInduction ==
  ASSUME NEW T, T \subseteq Nat, 0 \in T, \A n \in T : n + 1 \in T
  PROVE  T = Nat
<1> SUFFICES ASSUME Nat \ T # {} PROVE FALSE
  OBVIOUS
<1>1. PICK x \in Nat \ T : \A y \in Nat \ T : x <= y
  <2>1. Nat \ T \subseteq Nat
    OBVIOUS
  <2> QED BY <2>1, Least
<1>2. x - 1 \in Nat /\ x - 1 < x /\ (x - 1) + 1 = x
  OBVIOUS
<1>3. x - 1 \in T
  BY <1>1, <1>2
<1> QED BY <1>2, <1>3

\* The item before and behind every element of a row.
RowSteps(f, n, item, k, row) ==
  f = [i \in 0 .. n |-> IF i = 0 THEN item ELSE ProcessElement(f[i - 1], k, row[i])]

\* There are such items.
LEMMA RowStepsExist == ASSUME NEW item, NEW k, NEW row, NEW n \in Nat PROVE \E f : RowSteps(f, n, item, k, row)
<1> DEFINE T == {m \in Nat : \E f : RowSteps(f, m, item, k, row)}
<1>1. 0 \in T
  <2> DEFINE f == [i \in 0 .. 0 |-> item]
  <2>1. RowSteps(f, 0, item, k, row)
    BY DEF RowSteps
  <2> QED BY <2>1
<1>2. ASSUME NEW m \in T PROVE m + 1 \in T
  <2>1. PICK f : RowSteps(f, m, item, k, row)
    OBVIOUS
  <2> DEFINE Then(g, i) == IF i = 0 THEN item ELSE ProcessElement(g[i - 1], k, row[i])
             h == [i \in 0 .. m + 1 |-> Then(f, i)]
  <2>2. \A i \in 0 .. m : h[i] = f[i]
    <3>1. \A i \in 0 .. m : f[i] = Then(f, i)
      BY <2>1 DEF RowSteps
    <3>2. \A i \in 0 .. m : i \in 0 .. m + 1
      OBVIOUS
    <3>3. \A i \in 0 .. m + 1 : h[i] = Then(f, i)
      OBVIOUS
    <3> HIDE DEF h, Then
    <3> QED BY <3>1, <3>2, <3>3
  <2>3. ASSUME NEW i \in 0 .. m + 1, i # 0 PROVE h[i - 1] = f[i - 1]
    <3>1. i - 1 \in 0 .. m
      BY <2>3
    <3> HIDE DEF h
    <3> QED BY <2>2, <3>1
  <2>4. \A i \in 0 .. m + 1 : Then(f, i) = Then(h, i)
    <3> HIDE DEF h
    <3> QED BY <2>3
  <2>5. h = [i \in 0 .. m + 1 |-> Then(h, i)]
    <3> HIDE DEF Then
    <3> QED BY <2>4
  <2>6. RowSteps(h, m + 1, item, k, row)
    <3> HIDE DEF h
    <3> QED BY <2>5 DEF RowSteps
  <2>7. m + 1 \in Nat
    OBVIOUS
  <2> HIDE DEF h
  <2> QED BY <2>6, <2>7
<1>3. T = Nat
  <2> HIDE DEF T
  <2>1. T \subseteq Nat
    BY DEF T
  <2> QED BY <1>1, <1>2, <2>1, SetInduction
<1> QED BY <1>3

\* A row keeps the attachments.
LEMMA RowProcessed ==
  ASSUME NEW item \in Item, NEW k, NEW row \in Seq(Element)
  PROVE  Keeps(item, ProcessRow(item, k, row))
<1> DEFINE n == Len(row)
           f == CHOOSE h : RowSteps(h, n, item, k, row)
           T == {m \in Nat : m <= n => Keeps(item, f[m])}
<1>0. n \in Nat
  OBVIOUS
<1>1. RowSteps(f, n, item, k, row)
  BY <1>0, RowStepsExist
<1>2. ProcessRow(item, k, row) = f[n]
  BY DEF ProcessRow, RowSteps
<1> HIDE DEF f
<1>3. \A i \in 0 .. n : f[i] = IF i = 0 THEN item ELSE ProcessElement(f[i - 1], k, row[i])
  BY <1>1 DEF RowSteps
<1>4. 0 \in T
  BY <1>0, <1>3 DEF Keeps
<1>5. ASSUME NEW m \in T PROVE m + 1 \in T
  <2>1. SUFFICES ASSUME m + 1 <= n PROVE Keeps(item, f[m + 1])
    BY DEF T
  <2>2. PICK i \in 0 .. n : i = m + 1 /\ i # 0 /\ i - 1 = m /\ i \in 1 .. n
    BY <1>0, <2>1
  <2>3. Keeps(item, f[m]) /\ row[i] \in Element
    BY <1>0, <2>1, <2>2
  <2>4. Keeps(f[m], ProcessElement(f[m], k, row[i]))
    BY <2>3, ElementProcessed, SMTT(30) DEF Keeps
  <2>5. f[i] = ProcessElement(f[m], k, row[i])
    BY <1>3, <2>2
  <2> QED BY <2>2, <2>3, <2>4, <2>5, KeepsTransitive
<1>6. T = Nat
  <2> HIDE DEF T
  <2>1. T \subseteq Nat
    BY DEF T
  <2> QED BY <1>4, <1>5, <2>1, SetInduction
<1> QED BY <1>0, <1>2, <1>6

\* The item before and behind every row.
Place(k, i) == IF k = 0 THEN 0 ELSE k + i - 1
ListSteps(f, n, item, k, rows) ==
  f = [i \in 0 .. n |-> IF i = 0 THEN item ELSE ProcessRow(f[i - 1], Place(k, i), rows[i])]

\* There are such items.
LEMMA ListStepsExist == ASSUME NEW item, NEW k, NEW rows, NEW n \in Nat PROVE \E f : ListSteps(f, n, item, k, rows)
<1> DEFINE T == {m \in Nat : \E f : ListSteps(f, m, item, k, rows)}
<1>1. 0 \in T
  <2> DEFINE f == [i \in 0 .. 0 |-> item]
  <2>1. ListSteps(f, 0, item, k, rows)
    BY DEF ListSteps
  <2> QED BY <2>1
<1>2. ASSUME NEW m \in T PROVE m + 1 \in T
  <2>1. PICK f : ListSteps(f, m, item, k, rows)
    OBVIOUS
  <2> DEFINE Then(g, i) == IF i = 0 THEN item ELSE ProcessRow(g[i - 1], Place(k, i), rows[i])
             h == [i \in 0 .. m + 1 |-> Then(f, i)]
  <2>2. \A i \in 0 .. m : h[i] = f[i]
    <3>1. \A i \in 0 .. m : f[i] = Then(f, i)
      BY <2>1 DEF ListSteps
    <3>2. \A i \in 0 .. m : i \in 0 .. m + 1
      OBVIOUS
    <3>3. \A i \in 0 .. m + 1 : h[i] = Then(f, i)
      OBVIOUS
    <3> HIDE DEF h, Then
    <3> QED BY <3>1, <3>2, <3>3
  <2>3. ASSUME NEW i \in 0 .. m + 1, i # 0 PROVE h[i - 1] = f[i - 1]
    <3>1. i - 1 \in 0 .. m
      BY <2>3
    <3> HIDE DEF h
    <3> QED BY <2>2, <3>1
  <2>4. \A i \in 0 .. m + 1 : Then(f, i) = Then(h, i)
    <3> HIDE DEF h
    <3> QED BY <2>3
  <2>5. h = [i \in 0 .. m + 1 |-> Then(h, i)]
    <3> HIDE DEF Then
    <3> QED BY <2>4
  <2>6. ListSteps(h, m + 1, item, k, rows)
    <3> HIDE DEF h
    <3> QED BY <2>5 DEF ListSteps
  <2>7. m + 1 \in Nat
    OBVIOUS
  <2> HIDE DEF h
  <2> QED BY <2>6, <2>7
<1>3. T = Nat
  <2> HIDE DEF T
  <2>1. T \subseteq Nat
    BY DEF T
  <2> QED BY <1>1, <1>2, <2>1, SetInduction
<1> QED BY <1>3

\* A list of rows keeps the attachments.
LEMMA ListProcessed ==
  ASSUME NEW item \in Item, NEW block \in Int, NEW k, NEW rows \in Seq(Seq(Element))
  PROVE  Keeps(item, Process(block, rows, item, k))
<1> DEFINE n == Len(rows)
           start == [item EXCEPT !.block_id = block]
           f == CHOOSE h : ListSteps(h, n, start, k, rows)
           T == {m \in Nat : m <= n => Keeps(item, f[m])}
<1>0. n \in Nat
  OBVIOUS
<1>1. ListSteps(f, n, start, k, rows)
  BY <1>0, ListStepsExist
<1>2. Process(block, rows, item, k) = f[n]
  BY DEF Process, Place, ListSteps
<1> HIDE DEF f
<1>2a. Keeps(item, start)
  BY DEF Keeps, Item
<1> HIDE DEF start
<1>3. \A i \in 0 .. n : f[i] = IF i = 0 THEN start ELSE ProcessRow(f[i - 1], Place(k, i), rows[i])
  BY <1>1 DEF ListSteps
<1>4. 0 \in T
  BY <1>0, <1>2a, <1>3
<1>5. ASSUME NEW m \in T PROVE m + 1 \in T
  <2>1. SUFFICES ASSUME m + 1 <= n PROVE Keeps(item, f[m + 1])
    BY DEF T
  <2>2. PICK i \in 0 .. n : i = m + 1 /\ i # 0 /\ i - 1 = m /\ i \in 1 .. n
    BY <1>0, <2>1
  <2>3. Keeps(item, f[m]) /\ rows[i] \in Seq(Element)
    BY <1>0, <2>1, <2>2
  <2>4. Keeps(f[m], ProcessRow(f[m], Place(k, i), rows[i]))
    BY <2>3, RowProcessed, SMTT(30) DEF Keeps
  <2>5. f[i] = ProcessRow(f[m], Place(k, i), rows[i])
    BY <1>3, <2>2
  <2> QED BY <2>2, <2>3, <2>4, <2>5, KeepsTransitive
<1>6. T = Nat
  <2> HIDE DEF T
  <2>1. T \subseteq Nat
    BY DEF T
  <2> QED BY <1>4, <1>5, <2>1, SetInduction
<1> QED BY <1>0, <1>2, <1>6

-----------------------------------------------------------------------------
(* Trees of a height.                                                      *)
Levels(L) ==
  \A n \in Nat : \A t \in L[n] :
    /\ DOMAIN t \subseteq Nat
    /\ \A i \in DOMAIN t : n > 0 /\ t[i].id \in Nat /\ t[i].child \in L[n - 1]

High(t, n) == \E L : Levels(L) /\ t \in L[n]

\* The NULL pointer has every height.
LEMMA NothingHigh == ASSUME NEW n \in Nat PROVE High(<<>>, n)
<1> DEFINE L == [m \in Nat |-> {<<>>}]
<1>1. DOMAIN <<>> = {}
  OBVIOUS
<1>2. Levels(L)
  BY <1>1 DEF Levels
<1>3. <<>> \in L[n]
  OBVIOUS
<1> QED BY <1>2, <1>3 DEF High

\* What a node leads to.
LEMMA ChildHigh ==
  ASSUME NEW t, NEW n \in Nat, High(t, n), NEW i \in DOMAIN t
  PROVE  n > 0 /\ i \in Nat /\ t[i].id \in Nat /\ High(t[i].child, n - 1)
<1>1. PICK L : Levels(L) /\ t \in L[n]
  BY DEF High
<1>2. n > 0 /\ i \in Nat /\ t[i].id \in Nat /\ t[i].child \in L[n - 1]
  BY <1>1 DEF Levels
<1> QED BY <1>1, <1>2 DEF High

\* pst_getID2 returns a node of the tree.
LEMMA FoundNode ==
  ASSUME NEW t, NEW n \in Nat, High(t, n), NEW x, HasId2(t, x)
  PROVE  /\ n > 0 /\ GetId2(t, x).id \in Nat /\ High(GetId2(t, x).child, n - 1)
<1>1. \A i \in DOMAIN t : i \in Nat
  BY ChildHigh
<1>2. Siblings(t, x) \subseteq Nat /\ Siblings(t, x) # {} /\ Siblings(t, x) \subseteq DOMAIN t
  BY <1>1 DEF Siblings, HasId2
<1>3. PICK i \in Siblings(t, x) : i = CHOOSE i1 \in Siblings(t, x) : \A j \in Siblings(t, x) : i1 <= j
  BY <1>2, Least
<1>4. GetId2(t, x) = t[i] /\ i \in DOMAIN t
  BY <1>2, <1>3 DEF GetId2
<1> QED BY <1>4, ChildHigh

-----------------------------------------------------------------------------
(* pst_build_id2.                                                          *)
Calls == file.index \X (0 .. MaxDepth + 1)
Tree(build, c) ==
  IF c[2] > MaxDepth \/ c[1] \notin DOMAIN file.assoc THEN <<>> ELSE NodesOf(build, c[1], c[2])
Building(build) == build = [c \in Calls |-> Tree(build, c)]

\* A call only looks at the calls one level deeper.
LEMMA DeeperOnly ==
  ASSUME NEW f, NEW g, NEW c \in Calls,
         \A x \in Calls : x[2] = c[2] + 1 => f[x] = g[x]
  PROVE  Tree(f, c) = Tree(g, c)
<1>0. c[1] \in file.index /\ c[2] \in 0 .. MaxDepth + 1 /\ MaxDepth \in Nat
  BY DepthAssumption DEF Calls
<1>1. ASSUME c[2] <= MaxDepth, NEW r PROVE Below(f, r, c[2]) = Below(g, r, c[2])
  <2>1. CASE r.child # 0 /\ Known(r.child)
    <3>1. <<r.child, c[2] + 1>> \in Calls
      BY <1>0, <1>1, <2>1 DEF Calls, Known
    <3>2. f[<<r.child, c[2] + 1>>] = g[<<r.child, c[2] + 1>>]
      BY <3>1
    <3> QED BY <2>1, <3>2 DEF Below
  <2> QED BY <2>1 DEF Below
<1>2. CASE c[2] > MaxDepth \/ c[1] \notin DOMAIN file.assoc
  BY <1>2 DEF Tree
<1>3. CASE ~ (c[2] > MaxDepth \/ c[1] \notin DOMAIN file.assoc)
  <2>1. c[2] <= MaxDepth
    BY <1>0, <1>3
  <2>2. NodesOf(f, c[1], c[2]) = NodesOf(g, c[1], c[2])
    BY <1>1, <2>1 DEF NodesOf
  <2> QED BY <1>3, <2>2 DEF Tree
<1> QED BY <1>2, <1>3

\* The recursion ends, so there is a function that satisfies its equation.
LEMMA BuildingExists == \E f : Building(f)
<1> DEFINE T == {n \in Nat : \E f : \A c \in Calls : c[2] + n >= MaxDepth + 1 => f[c] = Tree(f, c)}
<1>0. MaxDepth \in Nat /\ \A c \in Calls : c[2] \in 0 .. MaxDepth + 1
  BY DepthAssumption DEF Calls
<1>1. 0 \in T
  <2> DEFINE f == [c \in Calls |-> <<>>]
  <2>1. \A c \in Calls : c[2] + 0 >= MaxDepth + 1 => f[c] = Tree(f, c)
    BY <1>0 DEF Tree
  <2> QED BY <2>1
<1>2. ASSUME NEW n \in T PROVE n + 1 \in T
  <2>1. PICK f : \A c \in Calls : c[2] + n >= MaxDepth + 1 => f[c] = Tree(f, c)
    OBVIOUS
  <2> DEFINE h == [c \in Calls |-> Tree(f, c)]
  <2>2. \A c \in Calls : h[c] = Tree(f, c)
    OBVIOUS
  <2> HIDE DEF h
  <2>3. \A c \in Calls : c[2] + n >= MaxDepth + 1 => h[c] = f[c]
    BY <2>1, <2>2
  <2>4. ASSUME NEW c \in Calls, c[2] + (n + 1) >= MaxDepth + 1 PROVE Tree(f, c) = Tree(h, c)
    <3>1. \A x \in Calls : x[2] = c[2] + 1 => f[x] = h[x]
      BY <1>0, <2>3, <2>4
    <3> QED BY <3>1, DeeperOnly
  <2>5. \A c \in Calls : c[2] + (n + 1) >= MaxDepth + 1 => h[c] = Tree(h, c)
    BY <2>2, <2>4
  <2>6. n + 1 \in Nat
    OBVIOUS
  <2> QED BY <2>5, <2>6
<1>3. T = Nat
  <2> HIDE DEF T
  <2>1. T \subseteq Nat
    BY DEF T
  <2> QED BY <1>1, <1>2, <2>1, SetInduction
<1>4. PICK f : \A c \in Calls : c[2] + (MaxDepth + 1) >= MaxDepth + 1 => f[c] = Tree(f, c)
  <2>1. MaxDepth + 1 \in T
    <3> HIDE DEF T
    <3> QED BY <1>0, <1>3
  <2> QED BY <2>1
<1>5. \A c \in Calls : f[c] = Tree(f, c)
  BY <1>0, <1>4
<1> DEFINE g == [c \in Calls |-> Tree(f, c)]
<1>6. \A c \in Calls : g[c] = Tree(f, c)
  OBVIOUS
<1>7. \A c \in Calls : Tree(f, c) = Tree(g, c)
  <2> HIDE DEF g
  <2>1. \A c \in Calls : f[c] = g[c]
    BY <1>5, <1>6
  <2> QED BY <2>1, DeeperOnly
<1>8. g = [c \in Calls |-> Tree(g, c)]
  BY <1>7
<1> HIDE DEF g
<1> QED BY <1>8 DEF Building

\* No tree is higher than the depth allows, whatever the blocks lead to.
LEMMA BuiltHigh ==
  ASSUME IsFile(file), NEW block \in file.index
  PROVE  High(BuildId2(block), MaxDepth + 1)
<1> DEFINE f == CHOOSE g : Building(g)
<1>0. MaxDepth \in Nat /\ \A c \in Calls : c[1] \in file.index /\ c[2] \in 0 .. MaxDepth + 1
  BY DepthAssumption DEF Calls
<1>1. Building(f)
  BY BuildingExists
<1>2. BuildId2(block) = f[<<block, 0>>]
  BY DEF BuildId2, Building, Calls, Tree
<1> HIDE DEF f
<1>3. \A c \in Calls : f[c] = Tree(f, c)
  BY <1>1 DEF Building
<1> DEFINE At1(n) == {c \in Calls : c[2] + n = MaxDepth + 1}
           L == [n \in Nat |-> {<<>>} \cup {f[c] : c \in At1(n)}]
<1>4. ASSUME NEW n \in Nat, NEW t \in L[n]
      PROVE  /\ DOMAIN t \subseteq Nat
             /\ \A i \in DOMAIN t : n > 0 /\ t[i].id \in Nat /\ t[i].child \in L[n - 1]
  <2>1. CASE t = <<>>
    <3>1. DOMAIN t = {}
      BY <2>1
    <3> QED BY <3>1
  <2>2. CASE t # <<>>
    <3>1. PICK c \in At1(n) : t = f[c]
      BY <2>2
    <3>2. c \in Calls /\ c[2] + n = MaxDepth + 1
      BY <3>1
    <3> HIDE DEF L, At1
    <3>3. t = NodesOf(f, c[1], c[2]) /\ c[2] <= MaxDepth /\ c[1] \in DOMAIN file.assoc
      BY <1>0, <1>3, <2>2, <3>1, <3>2 DEF Tree
    <3>4. n > 0 /\ n - 1 \in Nat
      BY <1>0, <3>2, <3>3
    <3> DEFINE rs == file.assoc[c[1]]
    <3>5. rs \in Seq(Record)
      BY <3>3 DEF IsFile
    <3>6. DOMAIN t \subseteq DOMAIN rs /\ DOMAIN t \subseteq Nat
      <4>1. DOMAIN t = {i \in DOMAIN rs : Known(rs[i].id)}
        BY <3>3 DEF NodesOf
      <4>2. DOMAIN rs \subseteq Nat
        BY <3>5
      <4> QED BY <4>1, <4>2
    <3>7. ASSUME NEW i \in DOMAIN t PROVE t[i].id \in Nat /\ t[i].child \in L[n - 1]
      <4>1. t[i].id = rs[i].id /\ t[i].child = Below(f, rs[i], c[2])
        BY <3>3, <3>7 DEF NodesOf
      <4>2. rs[i] \in Record
        BY <3>5, <3>6
      <4>3. \/ Below(f, rs[i], c[2]) = <<>>
            \/ Below(f, rs[i], c[2]) = f[<<rs[i].child, c[2] + 1>>] /\ Known(rs[i].child)
        BY DEF Below
      <4>4. <<>> \in L[n - 1]
        BY <3>4 DEF L
      <4>5. ASSUME Known(rs[i].child) PROVE f[<<rs[i].child, c[2] + 1>>] \in L[n - 1]
        <5>0. rs[i].child \in file.index /\ c[2] + 1 \in 0 .. MaxDepth + 1
          BY <1>0, <3>2, <3>3, <4>5 DEF Known
        <5>1. PICK d \in Calls : d = <<rs[i].child, c[2] + 1>>
          BY <5>0 DEF Calls
        <5>2. d[2] + (n - 1) = MaxDepth + 1
          BY <1>0, <3>2, <5>1
        <5> QED BY <3>4, <5>1, <5>2 DEF L, At1
      <4> QED BY <4>1, <4>2, <4>3, <4>4, <4>5 DEF Record
    <3> QED BY <3>4, <3>6, <3>7
  <2> QED BY <2>1, <2>2
<1>5. Levels(L)
  <2> HIDE DEF L
  <2> QED BY <1>4 DEF Levels
<1>6. f[<<block, 0>>] \in L[MaxDepth + 1]
  <2>1. PICK d \in Calls : d = <<block, 0>>
    <3>1. 0 \in 0 .. MaxDepth + 1
      BY <1>0
    <3> QED BY <3>1 DEF Calls
  <2>2. d \in At1(MaxDepth + 1) /\ MaxDepth + 1 \in Nat
    BY <1>0, <2>1
  <2> QED BY <2>1, <2>2
<1> HIDE DEF L
<1> QED BY <1>2, <1>5, <1>6 DEF High

-----------------------------------------------------------------------------
(* The inductive invariant.                                                *)
Pcs == {"enter", "message", "reports", "table", "attach", "leave", "write"}
Frames(S) == [call : {"parse", "write"}, pc : Pcs, desc : Int, assoc : Int, master : Nat, head : Nat,
              item : Nat, at : Int, seen : S]

\* The heap holds what it should, and only one kind of buffer was lost.
Heap ==
  /\ file \in Files /\ leaked \subseteq Forgotten
  /\ DOMAIN trees \subseteq Nat \ {0} /\ IsFiniteSet(DOMAIN trees)
  /\ DOMAIN items \subseteq Nat \ {0} /\ IsFiniteSet(DOMAIN items)
  /\ trees = [a \in DOMAIN trees |-> trees[a]] /\ items = [i \in DOMAIN items |-> items[i]]
  /\ \A i \in DOMAIN items : items[i] \in Item

\* How high the tree of call s may be: an embedded message lies two levels
\* below the one it is in.
Height(s) == MaxDepth + 3 - 2 * s
Reaches(a, s) == a \in DOMAIN trees \cup {0} /\ High(TreeAt(a), Height(s))

\* A call: only the innermost one parses.
FrameOK(s) ==
  /\ stack[s].call = "write" =>
       stack[s].pc = "write" /\ stack[s].item # 0 /\ stack[s].head = 0 /\ stack[s].master = 0
  /\ stack[s].call = "parse" =>
       /\ s = Len(stack) /\ stack[s].pc # "write"
       /\ (stack[s].item = 0) = (stack[s].pc \in {"enter", "message"})
       /\ stack[s].pc \notin {"attach", "leave"} => stack[s].at = 1
       /\ stack[s].pc = "enter" =>
            stack[s].head = 0 /\ (stack[s].assoc # 0 => s = 1 /\ stack[s].assoc \in file.index)
       /\ stack[s].pc # "enter" /\ stack[s].master # 0 => stack[s].head = stack[s].master
  /\ stack[s].item \in DOMAIN items \cup {0}
  /\ Height(s) \in Nat /\ Reaches(stack[s].head, s) /\ Reaches(stack[s].master, s)

\* Its item: the copies go with the ids, and are made in order.
ItemOK(s) ==
  stack[s].item # 0 =>
    \A k \in 1 .. Len(items[stack[s].item].attach) :
      LET a == items[stack[s].item].attach[k]
      IN /\ a.i_id # 0 => Height(s + 1) \in Nat /\ High(TreeAt(a.id2_head), Height(s + 1))
         /\ stack[s].call = "parse" /\ stack[s].pc # "leave" /\ k >= stack[s].at => a.id2_head = 0

\* Every item belongs to one call.
ItemOwned ==
  /\ \A i \in DOMAIN items : \E s \in 1 .. Len(stack) : stack[s].item = i
  /\ \A s, t \in 1 .. Len(stack) : stack[s].item = stack[t].item /\ stack[s].item # 0 => s = t

\* Attachment k of item i owns a tree; the innermost call owns one.
Holds(i, k, a) ==
  /\ i \in DOMAIN items /\ k \in 1 .. Len(items[i].attach)
  /\ items[i].attach[k].id2_head = a /\ a # 0
Mine(a) == a # 0 /\ stack # <<>> /\ Top.master = 0 /\ Top.head = a

\* Every tree has one owner.
Owned ==
  /\ \A i, k, a \in Nat : Holds(i, k, a) => a \in DOMAIN trees
  /\ \A i, j, k, l, a \in Nat : Holds(i, k, a) /\ Holds(j, l, a) => i = j /\ k = l
  /\ \A i, k, a \in Nat : Mine(a) => ~ Holds(i, k, a)
  /\ \A a \in DOMAIN trees : Mine(a) \/ \E i, k \in Nat : Holds(i, k, a)

LifeInv ==
  /\ Heap
  /\ \E S : stack \in Seq(Frames(S))
  /\ \A s \in 1 .. Len(stack) : FrameOK(s) /\ ItemOK(s)
  /\ ItemOwned /\ Owned

-----------------------------------------------------------------------------
(* Lemmas about stacks and heaps.                                          *)
\* The innermost call.
LEMMA TopParts ==
  ASSUME NEW S, stack \in Seq(Frames(S)), stack # <<>>
  PROVE  /\ Len(stack) \in Nat \ {0} /\ Len(stack) \in 1 .. Len(stack)
         /\ Top = stack[Len(stack)] /\ Top \in Frames(S)
<1>1. Len(stack) \in Nat \ {0}
  BY EmptySeq
<1>2. Len(stack) \in 1 .. Len(stack)
  BY <1>1
<1> QED BY <1>1, <1>2, ElementOfSeq DEF Top

\* The calls around the innermost one.
LEMMA FrontParts ==
  ASSUME NEW S, stack \in Seq(Frames(S)), stack # <<>>
  PROVE  /\ Front(stack) \in Seq(Frames(S)) /\ Len(Front(stack)) = Len(stack) - 1
         /\ \A s \in 1 .. Len(stack) - 1 : Front(stack)[s] = stack[s]
<1>1. Len(stack) \in Nat \ {0}
  BY EmptySeq
<1>2. \A i \in 1 .. Len(stack) - 1 : i \in 1 .. Len(stack)
  BY <1>1
<1>3. \A i \in 1 .. Len(stack) - 1 : stack[i] \in Frames(S)
  BY <1>2, ElementOfSeq
<1>4. \A i \in 1 .. (Len(stack) - 1) - 1 + 1 : 1 + i - 1 = i /\ i \in 1 .. Len(stack) - 1
  BY <1>1
<1>5. /\ Front(stack) \in Seq(Frames(S))
      /\ Len(Front(stack)) = IF 1 <= Len(stack) - 1 THEN (Len(stack) - 1) - 1 + 1 ELSE 0
      /\ \A i \in 1 .. (Len(stack) - 1) - 1 + 1 : Front(stack)[i] = stack[1 + i - 1]
  BY <1>1, <1>3, SubSeqProperties DEF Front
<1>6. ASSUME NEW i \in 1 .. Len(stack) - 1 PROVE Front(stack)[i] = stack[i]
  <2>1. i \in 1 .. (Len(stack) - 1) - 1 + 1
    BY <1>1
  <2> QED BY <1>4, <1>5, <2>1
<1>7. Len(Front(stack)) = Len(stack) - 1
  <2>1. Len(Front(stack)) = IF 1 <= Len(stack) - 1 THEN (Len(stack) - 1) - 1 + 1 ELSE 0
    BY <1>5
  <2>2. \A n \in Nat \ {0} : (IF 1 <= n - 1 THEN (n - 1) - 1 + 1 ELSE 0) = n - 1
    OBVIOUS
  <2> QED BY <1>1, <2>1, <2>2
<1> QED BY <1>5, <1>6, <1>7

\* The innermost call moves on.
LEMMA ReplaceParts ==
  ASSUME NEW S, stack \in Seq(Frames(S)), stack # <<>>, NEW fr \in Frames(S)
  PROVE  /\ Replace(fr) \in Seq(Frames(S)) /\ Len(Replace(fr)) = Len(stack) /\ Replace(fr) # <<>>
         /\ Replace(fr)[Len(stack)] = fr
         /\ \A s \in 1 .. Len(stack) - 1 : Replace(fr)[s] = stack[s]
<1>1. Len(stack) \in Nat \ {0}
  BY EmptySeq
<1> DEFINE f == Front(stack)
<1>2. f \in Seq(Frames(S)) /\ Len(f) = Len(stack) - 1 /\ \A s \in 1 .. Len(stack) - 1 : f[s] = stack[s]
  BY FrontParts
<1>3. Replace(fr) = Append(f, fr)
  BY DEF Replace
<1> HIDE DEF f
<1>4. /\ Append(f, fr) \in Seq(Frames(S)) /\ Append(f, fr) # <<>>
      /\ Len(Append(f, fr)) = Len(f) + 1 /\ Append(f, fr)[Len(f) + 1] = fr
      /\ \A s \in 1 .. Len(f) : Append(f, fr)[s] = f[s]
  BY <1>2, AppendProperties
<1> QED BY <1>1, <1>2, <1>3, <1>4

\* malloc returns an address that is not in use.
LEMMA FreshNew ==
  ASSUME NEW f, IsFiniteSet(DOMAIN f), DOMAIN f \subseteq Nat \ {0}
  PROVE  Fresh(f) \in Nat \ {0} /\ Fresh(f) \notin DOMAIN f
<1> DEFINE n == Cardinality(DOMAIN f)
<1>1. n \in Nat
  BY FS_CardinalityType
<1>2. Cardinality(1 .. n + 1) = n + 1
  BY <1>1, FS_Interval
<1>3. ~ (1 .. n + 1 \subseteq DOMAIN f)
  <2>1. SUFFICES ASSUME 1 .. n + 1 \subseteq DOMAIN f PROVE FALSE
    OBVIOUS
  <2>2. Cardinality(1 .. n + 1) <= n
    BY <2>1, FS_Subset
  <2> QED BY <1>1, <1>2, <2>2
<1>4. \E a \in 1 .. n + 1 : a \notin DOMAIN f
  BY <1>3
<1>5. Fresh(f) \in 1 .. n + 1 /\ Fresh(f) \notin DOMAIN f
  BY <1>4 DEF Fresh
<1> QED BY <1>1, <1>5

\* The heap f with x at the new address a.
Grown(w, f, x, a) ==
  /\ a \in Nat \ {0} /\ a \notin DOMAIN f
  /\ DOMAIN w = DOMAIN f \cup {a} /\ w[a] = x /\ \A b \in DOMAIN f : w[b] = f[b]
  /\ IsFiniteSet(DOMAIN w) /\ DOMAIN w \subseteq Nat \ {0}
  /\ w = [b \in DOMAIN w |-> w[b]]

LEMMA WithParts ==
  ASSUME NEW f, NEW x, IsFiniteSet(DOMAIN f), DOMAIN f \subseteq Nat \ {0}
  PROVE  Grown(With(f, x), f, x, Fresh(f))
<1>1. Fresh(f) \in Nat \ {0} /\ Fresh(f) \notin DOMAIN f
  BY FreshNew
<1>2. DOMAIN With(f, x) = DOMAIN f \cup {Fresh(f)}
  BY DEF With
<1>3. With(f, x)[Fresh(f)] = x /\ \A a \in DOMAIN f : With(f, x)[a] = f[a]
  BY <1>1 DEF With
<1>4. IsFiniteSet(DOMAIN With(f, x))
  BY <1>2, FS_AddElement
<1>5. With(f, x) = [a \in DOMAIN With(f, x) |-> With(f, x)[a]]
  BY DEF With
<1>6. PICK w, a : w = With(f, x) /\ a = Fresh(f)
  OBVIOUS
<1>7. Grown(w, f, x, a)
  BY <1>1, <1>2, <1>3, <1>4, <1>5, <1>6 DEF Grown
<1> QED BY <1>6, <1>7

-----------------------------------------------------------------------------
(* What follows from the invariant.                                        *)
\* Only the innermost call can have a tree.
LEMMA LowerCalls ==
  ASSUME LifeInv, NEW s \in 1 .. Len(stack), s # Len(stack)
  PROVE  stack[s].call = "write" /\ stack[s].head = 0 /\ stack[s].master = 0 /\ stack[s].item # 0
<1>1. PICK S : stack \in Seq(Frames(S))
  BY DEF LifeInv
<1>2. stack[s] \in Frames(S)
  BY <1>1, ElementOfSeq
<1> QED BY <1>2 DEF LifeInv, FrameOK, Frames

\* One owner for each tree.
LEMMA OneOwner == ASSUME LifeInv, NEW a \in DOMAIN trees PROVE Cardinality(Owners(a)) = 1
<1>1. PICK S : stack \in Seq(Frames(S))
  BY DEF LifeInv
<1>2. DOMAIN stack = 1 .. Len(stack) /\ Len(stack) \in Nat
  BY <1>1
<1>3. a \in Nat /\ a # 0 /\ DOMAIN items \subseteq Nat
  BY DEF LifeInv, Heap
<1>4. \A i \in DOMAIN items : DOMAIN items[i].attach = 1 .. Len(items[i].attach) /\ Len(items[i].attach) \in Nat
  BY DEF LifeInv, Heap, Item
<1>5. \A s \in DOMAIN stack : stack[s].head = a /\ stack[s].master = 0 <=> s = Len(stack) /\ Mine(a)
  <2>1. ASSUME NEW s \in DOMAIN stack PROVE stack # <<>> /\ Len(stack) \in DOMAIN stack
    BY <1>1, <1>2, <2>1
  <2> QED BY <1>2, <1>3, <2>1, LowerCalls DEF Mine, Top
<1>6. \A i \in DOMAIN items : \A k \in DOMAIN items[i].attach :
        i \in Nat /\ k \in Nat /\ (items[i].attach[k].id2_head = a <=> Holds(i, k, a))
  BY <1>3, <1>4 DEF Holds
<1>7. CASE Mine(a)
  <2>1. \A i \in DOMAIN items : \A k \in DOMAIN items[i].attach : items[i].attach[k].id2_head # a
    BY <1>3, <1>6, <1>7 DEF LifeInv, Owned
  <2>2. Len(stack) \in DOMAIN stack
    BY <1>1, <1>2, <1>7, TopParts DEF Mine
  <2>3. Owners(a) = {<<"call", Len(stack)>>}
    BY <1>5, <1>7, <2>1, <2>2 DEF Owners
  <2> QED BY <2>3, FS_Singleton
<1>8. CASE ~ Mine(a)
  <2>1. PICK i \in Nat, k \in Nat : Holds(i, k, a)
    BY <1>8 DEF LifeInv, Owned
  <2>2. \A j \in DOMAIN items : \A l \in DOMAIN items[j].attach :
          items[j].attach[l].id2_head = a <=> j = i /\ l = k
    <3>1. i \in DOMAIN items /\ k \in DOMAIN items[i].attach
      BY <1>4, <2>1 DEF Holds
    <3> QED BY <1>3, <1>6, <2>1, <3>1, SMTT(30) DEF LifeInv, Owned
  <2>3. i \in DOMAIN items /\ k \in DOMAIN items[i].attach
    BY <1>4, <2>1 DEF Holds
  <2>4. Owners(a) = {<<i, k>>}
    BY <1>5, <1>8, <2>2, <2>3 DEF Owners
  <2> QED BY <2>4, FS_Singleton
<1> QED BY <1>7, <1>8

\* The properties of the runs.
LEMMA LifeFollows == LifeInv => TreesOwned /\ NothingLeft
<1> SUFFICES ASSUME LifeInv PROVE TreesOwned /\ NothingLeft
  OBVIOUS
<1>1. PICK S : stack \in Seq(Frames(S))
  BY DEF LifeInv
<1>2. DOMAIN stack = 1 .. Len(stack) /\ Len(stack) \in Nat
  BY <1>1
<1>3. \A s \in DOMAIN stack :
        /\ stack[s].item \in DOMAIN items \cup {0} /\ (s < Len(stack) => stack[s].call = "write")
        /\ {stack[s].head, stack[s].master} \subseteq DOMAIN trees \cup {0}
  <2>1. ASSUME NEW s \in DOMAIN stack
        PROVE  /\ stack[s].item \in DOMAIN items \cup {0}
               /\ stack[s].head \in DOMAIN trees \cup {0} /\ stack[s].master \in DOMAIN trees \cup {0}
    BY <1>2, <2>1 DEF LifeInv, FrameOK, Reaches
  <2>2. ASSUME NEW s \in DOMAIN stack, s < Len(stack) PROVE stack[s].call = "write"
    <3>1. s \in 1 .. Len(stack) /\ s # Len(stack)
      BY <1>2, <2>2
    <3> QED BY <3>1, LowerCalls
  <2> QED BY <2>1, <2>2
<1>4. leaked \subseteq AllFields
  <2>1. <<"journal", "description">> \in AllFields
    <3>1. <<"journal", "description">> \in LateFields.text
      BY DEF LateFields, Of
    <3>2. LateFields \in Tables
      BY DEF Tables
    <3>3. <<"journal", "description">> \in Fields("text")
      BY <3>1, <3>2 DEF Fields
    <3> QED BY <3>3 DEF AllFields
  <2> QED BY <2>1 DEF LifeInv, Heap, Forgotten
<1>5. TypeOK
  BY <1>3, <1>4 DEF TypeOK, LifeInv, Heap
<1>6. Len(stack) <= (MaxDepth + 1) \div 2 + 1
  <2>1. CASE stack = <<>>
    BY <2>1, DepthAssumption
  <2>2. CASE stack # <<>>
    <3>1. Height(Len(stack)) \in Nat
      BY <1>1, <2>2, TopParts DEF LifeInv, FrameOK
    <3> QED BY <1>2, <3>1, DepthAssumption DEF Height
  <2> QED BY <2>1, <2>2
<1>7. \A i \in DOMAIN items : \A k \in DOMAIN items[i].attach :
        items[i].attach[k].id2_head \in DOMAIN trees \cup {0}
  <2>1. ASSUME NEW i \in DOMAIN items, NEW k \in DOMAIN items[i].attach, items[i].attach[k].id2_head # 0
        PROVE  items[i].attach[k].id2_head \in DOMAIN trees
    <3>1. items[i] \in Item /\ i \in Nat
      BY DEF LifeInv, Heap
    <3>2. k \in 1 .. Len(items[i].attach) /\ k \in Nat /\ items[i].attach[k] \in Attachment
      BY <3>1 DEF Item
    <3>3. items[i].attach[k].id2_head \in Nat
      BY <3>2 DEF Attachment
    <3>4. Holds(i, k, items[i].attach[k].id2_head)
      BY <2>1, <3>2 DEF Holds
    <3> QED BY <3>1, <3>2, <3>3, <3>4 DEF LifeInv, Owned
  <2> QED BY <2>1
<1>8. TreesOwned
  BY <1>3, <1>5, <1>6, <1>7, OneOwner DEF TreesOwned
<1>9. ASSUME stack = <<>> PROVE trees = <<>> /\ items = <<>>
  <2>1. DOMAIN items = {}
    BY <1>9 DEF LifeInv, ItemOwned
  <2>2. DOMAIN trees = {}
    BY <1>9, <2>1 DEF LifeInv, Owned, Mine, Holds
  <2>3. \A f : DOMAIN f = {} /\ f = [x \in DOMAIN f |-> f[x]] => f = <<>>
    <3>1. SUFFICES ASSUME NEW f, DOMAIN f = {}, f = [x \in DOMAIN f |-> f[x]] PROVE f = <<>>
      OBVIOUS
    <3>2. f \in Seq({})
      BY <3>1
    <3>3. Len(f) = 0
      BY <3>1, <3>2
    <3> QED BY <3>2, <3>3, EmptySeq
  <2> QED BY <2>1, <2>2, <2>3 DEF LifeInv, Heap
<1>10. NothingLeft
  BY <1>9 DEF NothingLeft, LifeInv, Heap, Forgotten
<1> QED BY <1>8, <1>10

-----------------------------------------------------------------------------
(* What every step has in common.                                          *)
\* Trees that stay allocated stay as they are.
TreesStay == \A a \in DOMAIN trees : a \in DOMAIN trees' => trees'[a] = trees[a]

\* The copy an attachment keeps stays as high as it was.
LEMMA CopyKept ==
  ASSUME LifeInv, Owned', TreesStay, NEW s \in 1 .. Len(stack), NEW i, i = stack[s].item, i # 0,
         NEW k \in 1 .. Len(items[i].attach), items[i].attach[k].i_id # 0,
         NEW b, b = items[i].attach[k].id2_head, b # 0 => Holds(i, k, b)'
  PROVE  Height(s + 1) \in Nat /\ High(TreeAt(b)', Height(s + 1))
<1>1. Height(s + 1) \in Nat /\ High(TreeAt(b), Height(s + 1))
  BY DEF LifeInv, ItemOK
<1>2. i \in DOMAIN items /\ i \in Nat /\ items[i] \in Item
  BY DEF LifeInv, FrameOK, Heap
<1>3. k \in Nat /\ items[i].attach[k] \in Attachment
  BY <1>2 DEF Item
<1>4. b \in Nat
  BY <1>3 DEF Attachment
<1>5. CASE b # 0
  <2>1. Holds(i, k, b) /\ Holds(i, k, b)'
    BY <1>2, <1>5 DEF Holds
  <2>2. b \in DOMAIN trees /\ b \in DOMAIN trees'
    BY <1>2, <1>3, <1>4, <2>1 DEF LifeInv, Owned
  <2>3. TreeAt(b) = trees[b] /\ TreeAt(b)' = trees'[b]
    BY <1>5 DEF TreeAt
  <2> QED BY <1>1, <2>2, <2>3 DEF TreesStay
<1>6. CASE b = 0
  BY <1>1, <1>6 DEF TreeAt
<1> QED BY <1>5, <1>6

\* What has to be known of the item of a call after a step.
LEMMA ItemAfter ==
  ASSUME NEW n \in Nat, NEW i, i # 0 => stack'[n].item = i, i = 0 => stack'[n].item = 0,
         i # 0 => \A k \in 1 .. Len(items'[i].attach) : \E b :
           /\ b = items'[i].attach[k].id2_head
           /\ items'[i].attach[k].i_id # 0 => Height(n + 1) \in Nat /\ High(TreeAt(b)', Height(n + 1))
           /\ stack'[n].call = "parse" /\ stack'[n].pc # "leave" /\ k >= stack'[n].at => b = 0
  PROVE  ItemOK(n)'
BY DEF ItemOK, TreeAt, Height

\* An item that has not changed.
LEMMA ItemSame ==
  ASSUME LifeInv, Owned', TreesStay, NEW n \in 1 .. Len(stack), n \in Nat,
         NEW i, i = stack[n].item, i # 0, i \in DOMAIN items',
         stack'[n].item = i, Keeps(items[i], items'[i]),
         \A k \in 1 .. Len(items[i].attach) :
           stack'[n].call = "parse" /\ stack'[n].pc # "leave" /\ k >= stack'[n].at => items[i].attach[k].id2_head = 0
  PROVE  ItemOK(n)'
<1>1. ASSUME NEW k \in 1 .. Len(items[i].attach), NEW b, b = items[i].attach[k].id2_head,
             items[i].attach[k].i_id # 0
      PROVE  Height(n + 1) \in Nat /\ High(TreeAt(b)', Height(n + 1))
  <2>1. b # 0 => Holds(i, k, b)'
    BY <1>1 DEF Holds, Keeps
  <2> QED BY <1>1, <2>1, CopyKept
<1>2. \A k \in 1 .. Len(items'[i].attach) : \E b :
           /\ b = items'[i].attach[k].id2_head
           /\ items'[i].attach[k].i_id # 0 => Height(n + 1) \in Nat /\ High(TreeAt(b)', Height(n + 1))
           /\ stack'[n].call = "parse" /\ stack'[n].pc # "leave" /\ k >= stack'[n].at => b = 0
  <2>1. ASSUME NEW k \in 1 .. Len(items'[i].attach)
        PROVE  /\ k \in 1 .. Len(items[i].attach)
               /\ items'[i].attach[k].i_id = items[i].attach[k].i_id
               /\ items'[i].attach[k].id2_head = items[i].attach[k].id2_head
    BY <2>1 DEF Keeps
  <2> QED BY <1>1, <2>1
<1> QED BY <1>2, ItemAfter

\* A call that is not the innermost one is not concerned.
LEMMA LowerKept ==
  ASSUME LifeInv, Heap', Owned', TreesStay, NEW s \in 1 .. Len(stack), s # Len(stack),
         stack'[s] = stack[s], stack[s].item \in DOMAIN items',
         items'[stack[s].item] = items[stack[s].item]
  PROVE  FrameOK(s)' /\ ItemOK(s)'
<1> DEFINE i == stack[s].item
<1>1. stack[s].call = "write" /\ stack[s].head = 0 /\ stack[s].master = 0 /\ i # 0
  BY LowerCalls
<1>2. FrameOK(s) /\ ItemOK(s)
  BY DEF LifeInv
<1>4. Reaches(0, s) /\ Reaches(0, s)'
  BY <1>1, <1>2 DEF FrameOK, Reaches, TreeAt
<1>5. FrameOK(s)'
  BY <1>1, <1>2, <1>4 DEF FrameOK, Height
<1>6. ASSUME NEW k \in 1 .. Len(items[i].attach), items[i].attach[k].i_id # 0
      PROVE  Height(s + 1) \in Nat /\ High(TreeAt(items[i].attach[k].id2_head)', Height(s + 1))
  <2>1. PICK b : b = items[i].attach[k].id2_head
    OBVIOUS
  <2>2. b # 0 => Holds(i, k, b)'
    BY <2>1 DEF Holds
  <2>3. Height(s + 1) \in Nat /\ High(TreeAt(b)', Height(s + 1))
    <3> HIDE DEF i
    <3> QED BY <1>1, <1>6, <2>1, <2>2, CopyKept DEF i
  <2> QED BY <2>1, <2>3 DEF TreeAt
<1>7. ItemOK(s)'
  BY <1>1, <1>6 DEF ItemOK, Height, TreeAt
<1> QED BY <1>5, <1>7

\* The innermost call goes on, perhaps with a new item.
LEMMA TopChanged ==
  ASSUME LifeInv, NEW S, stack \in Seq(Frames(S)), stack # <<>>, NEW fr \in Frames(S),
         stack' = Replace(fr), Heap', Owned', TreesStay,
         \A i \in DOMAIN items : i # Top.item => items'[i] = items[i],
         DOMAIN items' = DOMAIN items \cup ({fr.item} \ {0}),
         fr.item = Top.item \/ (Top.item = 0 /\ fr.item \notin DOMAIN items),
         NEW n \in Nat, n = Len(stack), FrameOK(n)', ItemOK(n)'
  PROVE  LifeInv'
<1>1. /\ Replace(fr) \in Seq(Frames(S)) /\ Len(Replace(fr)) = n /\ Replace(fr)[n] = fr
      /\ \A s \in 1 .. n - 1 : Replace(fr)[s] = stack[s]
  BY ReplaceParts
<1>2. n \in 1 .. n /\ n # 0 /\ Top = stack[n]
  BY TopParts
<1>2a. Len(stack') = n /\ stack'[n] = fr /\ \A s \in 1 .. n - 1 : stack'[s] = stack[s]
  BY <1>1
<1>3. ASSUME NEW s \in 1 .. n, s # n PROVE stack'[s] = stack[s] /\ stack[s].item # 0 /\ stack[s].item # Top.item
                                          /\ stack[s].item \in DOMAIN items
  <2>1. s \in 1 .. n - 1
    BY <1>3
  <2>2. stack[s].item # 0
    BY <1>3, LowerCalls
  <2>3. stack[s].item # Top.item
    BY <1>2, <1>3, <2>2 DEF LifeInv, ItemOwned
  <2> QED BY <1>2a, <2>1, <2>2, <2>3 DEF LifeInv, FrameOK
<1>4. ASSUME NEW s \in 1 .. n PROVE FrameOK(s)' /\ ItemOK(s)'
  <2>1. CASE s # n
    <3>1. stack'[s] = stack[s] /\ stack[s].item \in DOMAIN items' /\ items'[stack[s].item] = items[stack[s].item]
      BY <1>3, <2>1
    <3> QED BY <2>1, <3>1, LowerKept
  <2> QED BY <2>1
<1>5. ItemOwned'
  <2>1. ASSUME NEW i \in DOMAIN items' PROVE \E s \in 1 .. n : stack'[s].item = i
    <3>1. CASE i = fr.item
      BY <1>2, <1>2a, <3>1
    <3>2. CASE i # fr.item
      <4>1. i \in DOMAIN items
        BY <3>2
      <4>2. PICK s \in 1 .. n : stack[s].item = i
        BY <4>1 DEF LifeInv, ItemOwned
      <4>3. s # n
        BY <1>2, <3>2, <4>1, <4>2 DEF LifeInv, Heap
      <4> QED BY <1>3, <4>2, <4>3
    <3> QED BY <3>1, <3>2
  <2>2. ASSUME NEW s \in 1 .. n, NEW t \in 1 .. n, stack'[s].item = stack'[t].item, stack'[s].item # 0
        PROVE  s = t
    <3>1. CASE s # n /\ t # n
      BY <1>3, <2>2, <3>1 DEF LifeInv, ItemOwned
    <3>2. \A r \in 1 .. n : r # n => stack'[r].item # fr.item
      BY <1>3
    <3> QED BY <1>2a, <2>2, <3>1, <3>2
  <2> QED BY <1>2a, <2>1, <2>2 DEF ItemOwned
<1> QED BY <1>1, <1>2a, <1>4, <1>5 DEF LifeInv

\* The innermost call returns, and its item goes with it.
LEMMA TopLeft ==
  ASSUME LifeInv, NEW S, stack \in Seq(Frames(S)), stack # <<>>,
         stack' = Front(stack), Heap', Owned', TreesStay,
         \A i \in DOMAIN items : i # Top.item => items'[i] = items[i],
         DOMAIN items' = DOMAIN items \ {Top.item}
  PROVE  LifeInv'
<1> DEFINE n == Len(stack)
<1>1. n \in Nat \ {0} /\ n \in 1 .. n /\ Top = stack[n]
  BY TopParts
<1>2. stack' \in Seq(Frames(S)) /\ Len(stack') = n - 1 /\ \A s \in 1 .. n - 1 : stack'[s] = stack[s]
  BY FrontParts
<1>3. ASSUME NEW s \in 1 .. n - 1
      PROVE  /\ s \in 1 .. n /\ s # n /\ stack'[s] = stack[s]
             /\ stack[s].item \in DOMAIN items' /\ items'[stack[s].item] = items[stack[s].item]
  <2>1. s \in 1 .. n /\ s # n
    BY <1>1
  <2>2. stack[s].item # 0
    BY <2>1, LowerCalls
  <2>3. stack[s].item # Top.item
    BY <1>1, <2>1, <2>2 DEF LifeInv, ItemOwned
  <2>4. stack[s].item \in DOMAIN items
    BY <2>1, <2>2 DEF LifeInv, FrameOK
  <2> QED BY <1>2, <2>1, <2>3, <2>4
<1>4. ASSUME NEW s \in 1 .. n - 1 PROVE FrameOK(s)' /\ ItemOK(s)'
  BY <1>3, LowerKept
<1>5. ItemOwned'
  <2>1. ASSUME NEW i \in DOMAIN items' PROVE \E s \in 1 .. n - 1 : stack'[s].item = i
    <3>1. i \in DOMAIN items /\ i # Top.item
      OBVIOUS
    <3>2. PICK s \in 1 .. n : stack[s].item = i
      BY <3>1 DEF LifeInv, ItemOwned
    <3>3. s \in 1 .. n - 1
      BY <1>1, <3>1, <3>2
    <3> QED BY <1>2, <3>2, <3>3
  <2>2. \A s, t \in 1 .. n - 1 : stack'[s].item = stack'[t].item /\ stack'[s].item # 0 => s = t
    BY <1>3, SMTT(30) DEF LifeInv, ItemOwned
  <2> QED BY <1>2, <2>1, <2>2 DEF ItemOwned
<1> QED BY <1>2, <1>4, <1>5 DEF LifeInv

-----------------------------------------------------------------------------
(* The steps one by one.                                                   *)
\* What the invariant says of the innermost call.
LEMMA AtTop ==
  ASSUME LifeInv, NEW call, NEW pc, At(call, pc)
  PROVE  \E S : /\ stack \in Seq(Frames(S)) /\ stack # <<>>
                /\ Len(stack) \in Nat \ {0} /\ Len(stack) \in 1 .. Len(stack)
                /\ Top = stack[Len(stack)] /\ Top \in Frames(S) /\ Top.call = call /\ Top.pc = pc
                /\ FrameOK(Len(stack)) /\ ItemOK(Len(stack))
<1>1. PICK S : stack \in Seq(Frames(S))
  BY DEF LifeInv
<1>2. stack # <<>> /\ Top.call = call /\ Top.pc = pc
  BY DEF At
<1> QED BY <1>1, <1>2, TopParts DEF LifeInv

\* The empty heap.
LEMMA EmptyHeap ==
  DOMAIN <<>> = {} /\ IsFiniteSet(DOMAIN <<>>) /\ <<>> = [a \in DOMAIN <<>> |-> <<>>[a]]
<1>1. DOMAIN <<>> = {}
  OBVIOUS
<1> QED BY <1>1, FS_EmptySet

\* Nothing is allocated before the first call.
LEMMA InitLife == Init => LifeInv
<1> SUFFICES ASSUME Init PROVE LifeInv
  OBVIOUS
<1> DEFINE fr == ParseCall(file.desc, file.assocRoot, 0)
<1>1. IsFile(file) /\ file \in Files
  BY FilesAssumption DEF Init
<1>2. fr \in Frames({<<>>}) /\ fr.call = "parse" /\ fr.pc = "enter" /\ fr.master = 0 /\ fr.head = 0 /\ fr.item = 0
      /\ fr.at = 1 /\ fr.assoc = file.assocRoot
  BY <1>1 DEF ParseCall, Frames, Pcs, IsFile
<1>3. stack = <<fr>>
  BY DEF Init
<1> HIDE DEF fr
<1>4. stack \in Seq(Frames({<<>>})) /\ Len(stack) = 1 /\ stack[1] = fr /\ stack # <<>>
  BY <1>2, <1>3
<1>5. Heap
  BY <1>1, EmptyHeap DEF Heap, Init
<1>6. Height(1) \in Nat
  BY DepthAssumption DEF Height
<1>7. FrameOK(1)
  <2>1. Reaches(0, 1)
    BY <1>6, NothingHigh DEF Reaches, TreeAt
  <2> QED BY <1>1, <1>2, <1>4, <1>6, <2>1 DEF FrameOK, IsFile
<1>8. ItemOK(1)
  BY <1>2, <1>4 DEF ItemOK
<1>9. ItemOwned
  BY <1>4, EmptyHeap DEF Init, ItemOwned
<1>10. Owned
  BY <1>2, <1>4, EmptyHeap DEF Init, Owned, Holds, Mine, Top
<1> QED BY <1>4, <1>5, <1>7, <1>8, <1>9, <1>10 DEF LifeInv

\* pst_malloc for a tree that is not empty.
LEMMA StoredParts ==
  ASSUME LifeInv, NEW tree, trees' = Stored(tree)
  PROVE  \E x \in Nat :
           /\ x = NewTree(tree) /\ x \notin DOMAIN trees /\ TreeAt(x)' = tree
           /\ DOMAIN trees' = DOMAIN trees \cup ({x} \ {0})
           /\ DOMAIN trees' \subseteq Nat \ {0} /\ IsFiniteSet(DOMAIN trees')
           /\ trees' = [a \in DOMAIN trees' |-> trees'[a]]
           /\ TreesStay
<1>1. CASE tree = <<>>
  BY <1>1 DEF Stored, NewTree, TreesStay, LifeInv, Heap, TreeAt
<1>2. CASE tree # <<>>
  <2>1. trees' = With(trees, tree) /\ NewTree(tree) = Fresh(trees)
    BY <1>2 DEF Stored, NewTree
  <2>a. IsFiniteSet(DOMAIN trees) /\ DOMAIN trees \subseteq Nat \ {0}
    BY DEF LifeInv, Heap
  <2>b. Grown(With(trees, tree), trees, tree, Fresh(trees))
    BY <2>a, WithParts
  <2>2. PICK w, x : w = With(trees, tree) /\ x = Fresh(trees)
    OBVIOUS
  <2>3. /\ x \in Nat \ {0} /\ x \notin DOMAIN trees /\ DOMAIN w = DOMAIN trees \cup {x} /\ w[x] = tree
        /\ \A a \in DOMAIN trees : w[a] = trees[a]
        /\ IsFiniteSet(DOMAIN w) /\ DOMAIN w \subseteq Nat \ {0} /\ w = [a \in DOMAIN w |-> w[a]]
    BY <2>2, <2>b DEF Grown
  <2>4. trees' = w /\ NewTree(tree) = x
    BY <2>1, <2>2
  <2>5. TreeAt(x)' = tree /\ TreesStay
    BY <2>3, <2>4 DEF TreesStay, TreeAt
  <2>6. DOMAIN w = DOMAIN trees \cup ({x} \ {0})
    BY <2>3
  <2> QED BY <2>3, <2>4, <2>5, <2>6
<1> QED BY <1>1, <1>2

\* The tree of the call is freed, when it is its own.
LEMMA OwnTreeFreed ==
  ASSUME LifeInv, stack # <<>>, trees' = FreeOwnTree, items' = items, \A a \in Nat : ~ Mine(a)'
  PROVE  /\ TreesStay /\ Owned'
         /\ DOMAIN trees' \subseteq Nat \ {0} /\ IsFiniteSet(DOMAIN trees')
         /\ trees' = [a \in DOMAIN trees' |-> trees'[a]]
<1> DEFINE own == Top.master = 0 /\ Top.head # 0
<1>1. \A a : Mine(a) <=> own /\ a = Top.head
  BY DEF Mine
<1>2. \A i, k, a : Holds(i, k, a)' <=> Holds(i, k, a)
  BY DEF Holds
<1>3. CASE own
  <2>1. PICK x : x = Top.head
    OBVIOUS
  <2>2. trees' = [a \in DOMAIN trees \ {x} |-> trees[a]]
    BY <1>3, <2>1 DEF FreeOwnTree, Without
  <2>3. DOMAIN trees' = DOMAIN trees \ {x}
    BY <2>2
  <2>4. Mine(x) /\ \A a : Mine(a) => a = x
    BY <1>1, <1>3, <2>1
  <2>5. Owned'
    <3>1. \A i, k, a \in Nat : Holds(i, k, a) => a \in DOMAIN trees /\ a # x
      BY <2>4 DEF LifeInv, Owned
    <3>2. \A a \in DOMAIN trees : a # x => \E i, k \in Nat : Holds(i, k, a)
      BY <2>4 DEF LifeInv, Owned
    <3>3. \A i, j, k, l, a \in Nat : Holds(i, k, a) /\ Holds(j, l, a) => i = j /\ k = l
      BY DEF LifeInv, Owned
    <3> QED BY <1>2, <2>3, <3>1, <3>2, <3>3 DEF Owned
  <2>6. IsFiniteSet(DOMAIN trees')
    BY <2>3, FS_RemoveElement DEF LifeInv, Heap
  <2> QED BY <2>2, <2>3, <2>5, <2>6 DEF TreesStay, LifeInv, Heap
<1>4. CASE ~ own
  <2>1. trees' = trees
    BY <1>4 DEF FreeOwnTree
  <2>2. \A a : ~ Mine(a)
    BY <1>1, <1>4
  <2>3. Owned'
    BY <1>2, <2>1, <2>2 DEF LifeInv, Owned
  <2> QED BY <2>1, <2>3 DEF TreesStay, LifeInv, Heap
<1> QED BY <1>3, <1>4

\* After the innermost call has returned, the next one owns no tree.
LEMMA NoneMine ==
  ASSUME LifeInv, stack # <<>>, stack' = Front(stack), NEW a PROVE ~ Mine(a)'
<1>1. PICK S : stack \in Seq(Frames(S))
  BY DEF LifeInv
<1>2. PICK n \in Nat \ {0} : n = Len(stack)
  BY <1>1, TopParts
<1>3. stack' \in Seq(Frames(S)) /\ Len(stack') = n - 1 /\ \A s \in 1 .. n - 1 : stack'[s] = stack[s]
  BY <1>1, <1>2, FrontParts
<1>4. SUFFICES ASSUME stack' # <<>> PROVE stack'[n - 1].head = 0
  BY <1>3 DEF Mine, Top
<1>5. n - 1 \in 1 .. n - 1 /\ n - 1 \in 1 .. n /\ n - 1 # n
  BY <1>2, <1>3, <1>4, EmptySeq
<1> QED BY <1>2, <1>3, <1>5, LowerCalls

\* The block of the message cannot be read: the tree of the call goes with it.
LEMMA ParseFailsLife == ASSUME LifeInv, ParseFails PROVE LifeInv'
<1>1. PICK S : /\ stack \in Seq(Frames(S)) /\ stack # <<>>
               /\ Top = stack[Len(stack)] /\ Top.call = "parse" /\ Top.pc = "message" /\ FrameOK(Len(stack))
  BY AtTop DEF ParseFails
<1>2. trees' = FreeOwnTree /\ stack' = Front(stack) /\ file' = file /\ items' = items /\ leaked' = leaked
  BY DEF ParseFails
<1>3. \A a \in Nat : ~ Mine(a)'
  BY <1>1, <1>2, NoneMine
<1>4. /\ TreesStay /\ Owned'
      /\ DOMAIN trees' \subseteq Nat \ {0} /\ IsFiniteSet(DOMAIN trees')
      /\ trees' = [a \in DOMAIN trees' |-> trees'[a]]
  BY <1>1, <1>2, <1>3, OwnTreeFreed
<1>5. Heap'
  BY <1>2, <1>4 DEF LifeInv, Heap
<1>6. Top.item = 0
  BY <1>1 DEF FrameOK
<1>7. DOMAIN items' = DOMAIN items \ {Top.item}
  BY <1>2, <1>6 DEF LifeInv, Heap
<1> QED BY <1>1, <1>2, <1>4, <1>5, <1>7, TopLeft

\* The call hands its item on and frees its tree.
LEMMA LeaveLife == ASSUME LifeInv, Leave PROVE LifeInv'
<1>1. PICK S : /\ stack \in Seq(Frames(S)) /\ stack # <<>>
               /\ Len(stack) \in Nat \ {0} /\ Len(stack) \in 1 .. Len(stack)
               /\ Top = stack[Len(stack)] /\ Top \in Frames(S) /\ Top.call = "parse" /\ Top.pc = "leave"
               /\ FrameOK(Len(stack)) /\ ItemOK(Len(stack))
  BY AtTop DEF Leave
<1>2. /\ trees' = FreeOwnTree /\ stack' = Replace(WriteCall(Top))
      /\ file' = file /\ items' = items /\ leaked' = leaked
  BY DEF Leave
<1>3. PICK n, fr : n \in Nat /\ n = Len(stack) /\ fr = WriteCall(Top)
  BY <1>1
<1>4. /\ fr \in Frames(S) /\ fr.call = "write" /\ fr.pc = "write" /\ fr.master = 0 /\ fr.head = 0
      /\ fr.item = Top.item
  <2>1. PICK t \in Frames(S) : t = Top
    BY <1>1
  <2>2. fr = [call |-> "write", pc |-> "write", desc |-> t.desc, assoc |-> t.assoc, master |-> 0, head |-> 0,
              item |-> t.item, at |-> 1, seen |-> t.seen]
    BY <1>3, <2>1 DEF WriteCall, Frames
  <2>3. "write" \in Pcs
    BY DEF Pcs
  <2> QED BY <2>1, <2>2, <2>3 DEF Frames
<1>5. Len(stack') = n /\ stack'[n] = fr /\ stack' # <<>>
  BY <1>1, <1>2, <1>3, <1>4, ReplaceParts
<1>6. \A a \in Nat : ~ Mine(a)'
  BY <1>4, <1>5 DEF Mine, Top
<1>7. /\ TreesStay /\ Owned'
      /\ DOMAIN trees' \subseteq Nat \ {0} /\ IsFiniteSet(DOMAIN trees')
      /\ trees' = [a \in DOMAIN trees' |-> trees'[a]]
  BY <1>1, <1>2, <1>6, OwnTreeFreed
<1>8. Heap'
  BY <1>2, <1>7 DEF LifeInv, Heap
<1>9. Top.item # 0 /\ Top.item \in DOMAIN items
  BY <1>1 DEF FrameOK
<1>10. FrameOK(n)'
  <2>1. Height(n) \in Nat
    BY <1>1, <1>3 DEF FrameOK
  <2>2. Reaches(0, n)'
    BY <2>1, NothingHigh DEF Reaches, TreeAt, Height
  <2> QED BY <1>2, <1>4, <1>5, <1>9, <2>1, <2>2 DEF FrameOK, Height
<1>11. DOMAIN items' = DOMAIN items \cup ({fr.item} \ {0})
  BY <1>2, <1>4, <1>9
<1>12. ItemOK(n)'
  <2>1. PICK i : i = Top.item
    OBVIOUS
  <2>2. n \in 1 .. Len(stack) /\ i = stack[n].item /\ i # 0 /\ stack'[n].item = i /\ stack'[n].call = "write"
        /\ i \in DOMAIN items' /\ items'[i] = items[i] /\ items[i] \in Item
    BY <1>1, <1>2, <1>3, <1>4, <1>5, <1>9, <2>1 DEF LifeInv, Heap
  <2> QED BY <1>3, <1>7, <2>2, ItemSame DEF Keeps
<1> QED BY <1>1, <1>2, <1>3, <1>4, <1>7, <1>8, <1>10, <1>11, <1>12, TopChanged

\* The innermost call goes on with the trees it has; its item i becomes new.
GoesOn(S, n, fr, i, new) ==
  /\ stack \in Seq(Frames(S)) /\ stack # <<>> /\ n \in Nat /\ n = Len(stack)
  /\ fr \in Frames(S) /\ stack' = Replace(fr)
  /\ fr.head = Top.head /\ fr.master = Top.master /\ fr.item = i /\ fr.call = Top.call
  /\ fr.call = "write" => fr.pc = "write"
  /\ fr.call = "parse" => /\ fr.pc \in {"reports", "table", "attach", "leave"}
                          /\ fr.pc \notin {"attach", "leave"} => fr.at = 1
  /\ UNCHANGED <<file, trees, leaked>>
  /\ i = Top.item /\ i # 0 /\ new \in Item /\ items' = [items EXCEPT ![i] = new]

SameCopies(i, new) ==
  \A k, a \in Nat : a # 0 =>
    (k \in 1 .. Len(new.attach) /\ new.attach[k].id2_head = a
      <=> k \in 1 .. Len(items[i].attach) /\ items[i].attach[k].id2_head = a)

\* Such a step keeps the invariant.
LEMMA ItemStep ==
  ASSUME LifeInv, NEW S, NEW n, NEW fr, NEW i, NEW new, GoesOn(S, n, fr, i, new), SameCopies(i, new),
         Owned' /\ TreesStay => ItemOK(n)'
  PROVE  LifeInv'
<1>0. /\ stack \in Seq(Frames(S)) /\ stack # <<>> /\ n \in Nat /\ n = Len(stack)
      /\ fr \in Frames(S) /\ stack' = Replace(fr)
      /\ fr.head = Top.head /\ fr.master = Top.master /\ fr.item = i /\ fr.call = Top.call
      /\ fr.call = "write" => fr.pc = "write"
      /\ fr.call = "parse" => /\ fr.pc \in {"reports", "table", "attach", "leave"}
                              /\ fr.pc \notin {"attach", "leave"} => fr.at = 1
      /\ UNCHANGED <<file, trees, leaked>>
      /\ i = Top.item /\ i # 0 /\ new \in Item /\ items' = [items EXCEPT ![i] = new]
  BY DEF GoesOn
<1>1. /\ n \in 1 .. n /\ Top = stack[n] /\ Top \in Frames(S) /\ FrameOK(n)
  BY <1>0, TopParts DEF LifeInv
<1>2. Len(stack') = n /\ stack'[n] = fr /\ stack' # <<>>
  BY <1>0, ReplaceParts
<1>3. i \in DOMAIN items /\ i \in Nat /\ items = [j \in DOMAIN items |-> items[j]]
  BY <1>0, <1>1 DEF FrameOK, LifeInv, Heap
<1>4. DOMAIN items' = DOMAIN items /\ items'[i] = new /\ \A j \in DOMAIN items : j # i => items'[j] = items[j]
  BY <1>0, <1>3
<1>5. \A j, k, a \in Nat : Holds(j, k, a)' <=> Holds(j, k, a)
  BY <1>3, <1>4 DEF Holds, SameCopies
<1>6. \A a \in Nat : Mine(a)' <=> Mine(a)
  BY <1>0, <1>1, <1>2 DEF Mine, Top
<1>7. Owned' /\ TreesStay
  <2>1. Owned
    BY DEF LifeInv
  <2>2. trees' = trees /\ DOMAIN trees \subseteq Nat
    BY <1>0 DEF LifeInv, Heap
  <2> QED BY <1>5, <1>6, <2>1, <2>2 DEF Owned, TreesStay
<1>8. Heap'
  <2>1. items' = [j \in DOMAIN items' |-> items'[j]]
    BY <1>0, <1>4
  <2>2. \A j \in DOMAIN items' : items'[j] \in Item
    BY <1>0, <1>4 DEF LifeInv, Heap
  <2> QED BY <1>0, <1>4, <2>1, <2>2 DEF LifeInv, Heap
<1>9. FrameOK(n)'
  <2>1. Height(n) \in Nat /\ Reaches(Top.head, n) /\ Reaches(Top.master, n)
    BY <1>0, <1>1 DEF FrameOK
  <2>2. PICK h, m : h = fr.head /\ m = fr.master
    OBVIOUS
  <2>3. Reaches(h, n)' /\ Reaches(m, n)'
    BY <1>0, <2>1, <2>2 DEF Reaches, TreeAt, Height
  <2>4. fr.call = "write" => fr.head = 0 /\ fr.master = 0
    BY <1>0, <1>1 DEF FrameOK
  <2>5. fr.call = "parse" => (fr.master # 0 => fr.head = fr.master)
    BY <1>0, <1>1 DEF FrameOK
  <2> QED BY <1>0, <1>2, <1>3, <1>4, <2>1, <2>2, <2>3, <2>4, <2>5 DEF FrameOK, Height, Reaches, TreeAt
<1> QED BY <1>0, <1>3, <1>4, <1>7, <1>8, <1>9, TopChanged

\* The last attachment is done.
LEMMA AttachDoneLife == ASSUME LifeInv, AttachDone PROVE LifeInv'
<1>1. PICK S : /\ stack \in Seq(Frames(S)) /\ stack # <<>>
               /\ Len(stack) \in Nat \ {0} /\ Len(stack) \in 1 .. Len(stack)
               /\ Top = stack[Len(stack)] /\ Top \in Frames(S) /\ Top.call = "parse" /\ Top.pc = "attach"
               /\ FrameOK(Len(stack)) /\ ItemOK(Len(stack))
  BY AtTop DEF AttachDone
<1>2. PICK n, i, t : n \in Nat /\ n = Len(stack) /\ i = Top.item /\ t \in Frames(S) /\ t = Top
  BY <1>1
<1>3. i # 0 /\ i \in DOMAIN items /\ items[i] \in Item
  BY <1>1, <1>2 DEF FrameOK, LifeInv, Heap
<1> DEFINE fr == [t EXCEPT !.pc = "leave"]
<1>4. /\ fr \in Frames(S) /\ fr.call = "parse" /\ fr.pc = "leave" /\ fr.head = t.head /\ fr.master = t.master
      /\ fr.item = t.item
  BY <1>1, <1>2 DEF Frames, Pcs
<1>5. stack' = Replace(fr) /\ UNCHANGED <<file, trees, items, leaked>>
  BY <1>2 DEF AttachDone
<1> HIDE DEF fr
<1>6. items' = [items EXCEPT ![i] = items[i]]
  BY <1>3, <1>5 DEF LifeInv, Heap
<1>7. stack'[n] = fr
  BY <1>1, <1>2, <1>4, <1>5, ReplaceParts
<1>8. ASSUME Owned', TreesStay PROVE ItemOK(n)'
  <2>1. Keeps(items[i], items'[i])
    BY <1>3, <1>5 DEF Keeps
  <2>2. n \in 1 .. Len(stack) /\ i = stack[n].item /\ stack'[n].item = i /\ i \in DOMAIN items'
    BY <1>1, <1>2, <1>3, <1>4, <1>5, <1>7
  <2> QED BY <1>2, <1>3, <1>4, <1>7, <1>8, <2>1, <2>2, ItemSame
<1>9. /\ stack \in Seq(Frames(S)) /\ stack # <<>> /\ fr.head = Top.head /\ fr.master = Top.master /\ fr.item = i
      /\ fr.call = Top.call /\ UNCHANGED <<file, trees, leaked>>
  BY <1>1, <1>2, <1>4, <1>5
<1>10. PICK new \in Item : new = items[i]
  BY <1>3
<1>11. SameCopies(i, new)
  BY <1>10 DEF SameCopies
<1>12. GoesOn(S, n, fr, i, new)
  BY <1>2, <1>3, <1>4, <1>5, <1>6, <1>9, <1>10 DEF GoesOn
<1> QED BY <1>8, <1>11, <1>12, ItemStep

\* An attachment that is not an embedded message changes nothing.
LEMMA WriteOtherLife == ASSUME LifeInv, WriteOther PROVE LifeInv'
<1>1. PICK S : /\ stack \in Seq(Frames(S)) /\ stack # <<>>
               /\ Len(stack) \in Nat \ {0} /\ Len(stack) \in 1 .. Len(stack)
               /\ Top = stack[Len(stack)] /\ Top \in Frames(S) /\ Top.call = "write" /\ Top.pc = "write"
               /\ FrameOK(Len(stack)) /\ ItemOK(Len(stack))
  BY AtTop DEF WriteOther, AttachLeft
<1>2. PICK n, i, t : n \in Nat /\ n = Len(stack) /\ i = Top.item /\ t \in Frames(S) /\ t = Top
  BY <1>1
<1>3. i # 0 /\ i \in DOMAIN items /\ items[i] \in Item
  BY <1>1, <1>2 DEF FrameOK, LifeInv, Heap
<1>2a. t.at + 1 \in Int
  BY <1>2 DEF Frames
<1> DEFINE fr == [t EXCEPT !.at = t.at + 1]
<1>4. /\ fr \in Frames(S) /\ fr.call = "write" /\ fr.pc = "write" /\ fr.head = t.head /\ fr.master = t.master
      /\ fr.item = t.item
  BY <1>1, <1>2, <1>2a DEF Frames
<1>5. stack' = Replace(fr) /\ UNCHANGED <<file, trees, items, leaked>>
  BY <1>2 DEF WriteOther
<1> HIDE DEF fr
<1>6. items' = [items EXCEPT ![i] = items[i]]
  BY <1>3, <1>5 DEF LifeInv, Heap
<1>7. stack'[n] = fr
  BY <1>1, <1>2, <1>4, <1>5, ReplaceParts
<1>8. ASSUME Owned', TreesStay PROVE ItemOK(n)'
  <2>1. Keeps(items[i], items'[i])
    BY <1>3, <1>5 DEF Keeps
  <2>2. n \in 1 .. Len(stack) /\ i = stack[n].item /\ stack'[n].item = i /\ i \in DOMAIN items'
    BY <1>1, <1>2, <1>3, <1>4, <1>5, <1>7
  <2> QED BY <1>2, <1>3, <1>4, <1>7, <1>8, <2>1, <2>2, ItemSame
<1>9. /\ stack \in Seq(Frames(S)) /\ stack # <<>> /\ fr.head = Top.head /\ fr.master = Top.master /\ fr.item = i
      /\ fr.call = Top.call /\ UNCHANGED <<file, trees, leaked>>
  BY <1>1, <1>2, <1>4, <1>5
<1>10. PICK new \in Item : new = items[i]
  BY <1>3
<1>11. SameCopies(i, new)
  BY <1>10 DEF SameCopies
<1>12. GoesOn(S, n, fr, i, new)
  BY <1>2, <1>3, <1>4, <1>5, <1>6, <1>9, <1>10 DEF GoesOn
<1> QED BY <1>8, <1>11, <1>12, ItemStep

-----------------------------------------------------------------------------
(* Blocks and rows.                                                        *)
\* What pst_parse_block makes of a readable block.
LEMMA BlockParsed ==
  ASSUME LifeInv, NEW b, Readable(b), NEW tree
  PROVE  ParseBlock(b, tree) \in Seq(Seq(Element))
<1>1. IsFile(file)
  BY FilesAssumption DEF LifeInv, Heap
<1>2. PICK rs : rs = file.rows[b] /\ rs \in Seq(Seq(Element))
  BY <1>1 DEF IsFile, Readable
<1>3. ASSUME NEW e \in Element PROVE Fetched(e, tree) \in Element
  <2>1. "binary" \in ElementTypes /\ "later" \in ElementTypes /\ 0 \in Nat /\ 1 \in Nat
    BY DEF ElementTypes
  <2> QED BY <2>1 DEF Fetched, Element
<1>4. ASSUME NEW row \in Seq(Element) PROVE [i \in DOMAIN row |-> Fetched(row[i], tree)] \in Seq(Element)
  <2>1. \A i \in DOMAIN row : Fetched(row[i], tree) \in Element
    BY <1>3
  <2> HIDE DEF Element
  <2> QED BY <2>1
<1>5. ASSUME NEW r \in DOMAIN rs PROVE rs[r] \in Seq(Element)
  BY <1>2
<1>6. ParseBlock(b, tree) = [r \in DOMAIN rs |-> [i \in DOMAIN rs[r] |-> Fetched(rs[r][i], tree)]]
  BY <1>2 DEF ParseBlock
<1>7. \A r \in DOMAIN rs : [i \in DOMAIN rs[r] |-> Fetched(rs[r][i], tree)] \in Seq(Element)
  BY <1>4, <1>5
<1>8. PICK n \in Nat : n = Len(rs) /\ DOMAIN rs = 1 .. n
  BY <1>2
<1>9. PICK E, f : E = Seq(Element) /\ f = [r \in DOMAIN rs |-> [i \in DOMAIN rs[r] |-> Fetched(rs[r][i], tree)]]
  OBVIOUS
<1>10. DOMAIN f = 1 .. n /\ f = [r \in 1 .. n |-> f[r]] /\ \A r \in 1 .. n : f[r] \in E
  BY <1>7, <1>8, <1>9
<1>11. f \in Seq(E)
  BY <1>10
<1> QED BY <1>6, <1>9, <1>11

\* The attachments of the rows come without trees.
NoCopies(item) == \A k \in 1 .. Len(item.attach) : item.attach[k].id2_head = 0

\* Rows that are added bring no copies and no data of their own.
LEMMA RowsAdded ==
  ASSUME LifeInv, NEW item \in Item, NoCopies(item), NEW node, node.id \in Nat, Readable(node.id)
  PROVE  /\ WithRows(item, node) \in Item /\ NoCopies(WithRows(item, node))
         /\ \A k \in 1 .. Len(WithRows(item, node).attach) : WithRows(item, node).attach[k].i_id # 0 =>
              \E j \in 1 .. Len(item.attach) : item.attach[j].i_id # 0
<1> DEFINE rows == ParseBlock(node.id, node.child)
           front == [r \in DOMAIN rows |-> NewAttach]
           mid == Attached(item, rows)
<1>1. rows \in Seq(Seq(Element)) /\ node.id \in Int
  BY BlockParsed
<1>2. WithRows(item, node) = Process(node.id, rows, mid, 1)
  BY DEF WithRows
<1>2a. mid = [item EXCEPT !.attach = front \o item.attach]
  BY DEF Attached
<1>3. NewAttach \in Attachment /\ NewAttach.id2_head = 0 /\ NewAttach.i_id = 0
  BY DEF NewAttach, Attachment
<1> HIDE DEF rows, mid
<1>3a. PICK n \in Nat : DOMAIN rows = 1 .. n
  BY <1>1
<1>4. front \in Seq(Attachment) /\ \A k \in 1 .. Len(front) : front[k] = NewAttach
  BY <1>3, <1>3a
<1> HIDE DEF front
<1>5. item.attach \in Seq(Attachment)
  BY DEF Item
<1>6. PICK s : s = front \o item.attach
  OBVIOUS
<1>7. /\ s \in Seq(Attachment) /\ Len(s) = Len(front) + Len(item.attach)
      /\ \A k \in 1 .. Len(front) + Len(item.attach) :
           s[k] = IF k <= Len(front) THEN front[k] ELSE item.attach[k - Len(front)]
  BY <1>4, <1>5, <1>6, ConcatProperties
<1>8. mid \in Item /\ mid.attach = s
  BY <1>2a, <1>6, <1>7 DEF Item
<1>9. ASSUME NEW k \in 1 .. Len(s)
      PROVE  s[k].id2_head = 0 /\ (s[k].i_id # 0 => \E j \in 1 .. Len(item.attach) : item.attach[j].i_id # 0)
  <2>0. Len(front) \in Nat /\ Len(item.attach) \in Nat
    BY <1>4, <1>5
  <2>1. CASE k <= Len(front)
    <3>1. k \in 1 .. Len(front)
      BY <2>0, <2>1
    <3> QED BY <1>3, <1>4, <1>7, <2>1, <3>1
  <2>2. CASE ~ (k <= Len(front))
    <3>1. PICK j \in 1 .. Len(item.attach) : j = k - Len(front)
      BY <1>7, <2>0, <2>2
    <3>2. s[k] = item.attach[j]
      BY <1>7, <2>2, <3>1
    <3> QED BY <3>2 DEF NoCopies
  <2> QED BY <2>1, <2>2
<1>10. Keeps(mid, Process(node.id, rows, mid, 1))
  BY <1>1, <1>8, ListProcessed
<1>11. PICK new : new = Process(node.id, rows, mid, 1)
  OBVIOUS
<1>12. new \in Item /\ Len(new.attach) = Len(s) /\ \A j \in 1 .. Len(s) :
        new.attach[j].i_id = s[j].i_id /\ new.attach[j].id2_head = s[j].id2_head
  BY <1>8, <1>10, <1>11 DEF Keeps
<1>13. \A k \in 1 .. Len(new.attach) : new.attach[k].id2_head = 0
  BY <1>9, <1>12
<1>14. \A k \in 1 .. Len(new.attach) : new.attach[k].i_id # 0 =>
         \E j \in 1 .. Len(item.attach) : item.attach[j].i_id # 0
  BY <1>9, <1>12
<1> QED BY <1>2, <1>11, <1>12, <1>13, <1>14 DEF NoCopies

\* A call that reads rows: a readable table is added, otherwise nothing happens.
LEMMA RowsLife ==
  ASSUME LifeInv, NEW pc, At("parse", pc), pc \in {"reports", "table"},
         NEW id2, NEW next, next \in {"table", "attach", "leave"},
         UNCHANGED <<file, trees, leaked>>, stack' = Replace([Top EXCEPT !.pc = next]),
         \/ items' = items
         \/ TableReadable(id2) /\ items' = [items EXCEPT ![Top.item] = WithRows(@, GetId2(TreeAt(Top.head), id2))]
  PROVE  LifeInv'
<1>1. PICK S : /\ stack \in Seq(Frames(S)) /\ stack # <<>>
               /\ Len(stack) \in Nat \ {0} /\ Len(stack) \in 1 .. Len(stack)
               /\ Top = stack[Len(stack)] /\ Top \in Frames(S) /\ Top.call = "parse" /\ Top.pc = pc
               /\ FrameOK(Len(stack)) /\ ItemOK(Len(stack))
  BY AtTop
<1>2. PICK n, i, t : n \in Nat /\ n = Len(stack) /\ i = Top.item /\ t \in Frames(S) /\ t = Top
  BY <1>1
<1>3. i # 0 /\ i \in DOMAIN items /\ items[i] \in Item /\ t.at = 1
  BY <1>1, <1>2 DEF FrameOK, LifeInv, Heap
<1> DEFINE fr == [t EXCEPT !.pc = next]
<1>4. /\ fr \in Frames(S) /\ fr.call = "parse" /\ fr.pc = next /\ fr.head = t.head /\ fr.master = t.master
      /\ fr.item = t.item /\ fr.at = 1
  BY <1>1, <1>2, <1>3 DEF Frames, Pcs
<1>5. stack' = Replace(fr)
  BY <1>2
<1> HIDE DEF fr
<1>6. NoCopies(items[i]) /\ \A k \in 1 .. Len(items[i].attach) : items[i].attach[k].i_id # 0 => Height(n + 1) \in Nat
  <2>1. \A k \in 1 .. Len(items[i].attach) : k >= t.at
    BY <1>3
  <2>2. stack[n].item = i /\ stack[n].call = "parse" /\ stack[n].pc # "leave" /\ stack[n].at = t.at /\ ItemOK(n)
    BY <1>1, <1>2
  <2> QED BY <1>3, <2>1, <2>2 DEF ItemOK, NoCopies
<1>7. \E new \in Item :
        /\ items' = [items EXCEPT ![i] = new] /\ NoCopies(new)
        /\ \A k \in 1 .. Len(new.attach) : new.attach[k].i_id # 0 => Height(n + 1) \in Nat
  <2>1. CASE items' = items
    <3>1. items' = [items EXCEPT ![i] = items[i]]
      BY <1>3, <2>1 DEF LifeInv, Heap
    <3> QED BY <1>3, <1>6, <3>1
  <2>2. CASE TableReadable(id2) /\ items' = [items EXCEPT ![i] = WithRows(items[i], GetId2(TreeAt(t.head), id2))]
    <3>1. PICK tree, node : tree = TreeAt(t.head) /\ node = GetId2(tree, id2)
      OBVIOUS
    <3>2. Height(n) \in Nat /\ High(tree, Height(n)) /\ HasId2(tree, id2) /\ Readable(node.id)
      BY <1>1, <1>2, <2>2, <3>1 DEF FrameOK, Reaches, TableReadable
    <3>3. node.id \in Nat
      BY <3>1, <3>2, FoundNode
    <3>4. PICK new : new = WithRows(items[i], node)
      OBVIOUS
    <3>5. /\ new \in Item /\ NoCopies(new)
          /\ \A k \in 1 .. Len(new.attach) : new.attach[k].i_id # 0 =>
               \E j \in 1 .. Len(items[i].attach) : items[i].attach[j].i_id # 0
      BY <1>3, <1>6, <3>2, <3>3, <3>4, RowsAdded
    <3>6. items' = [items EXCEPT ![i] = new]
      BY <2>2, <3>1, <3>4
    <3> QED BY <1>6, <3>5, <3>6
  <2>3. CASE TableReadable(id2) /\ items' = [items EXCEPT ![Top.item] = WithRows(@, GetId2(TreeAt(Top.head), id2))]
    BY <1>2, <2>2, <2>3
  <2> QED BY <2>1, <2>3
<1>8. PICK new \in Item :
        /\ items' = [items EXCEPT ![i] = new] /\ NoCopies(new)
        /\ \A k \in 1 .. Len(new.attach) : new.attach[k].i_id # 0 => Height(n + 1) \in Nat
  BY <1>7
<1>9. SameCopies(i, new)
  BY <1>6, <1>8 DEF SameCopies, NoCopies
<1>10. stack'[n] = fr /\ items'[i] = new
  BY <1>1, <1>2, <1>3, <1>4, <1>5, <1>8, ReplaceParts
<1>11. ItemOK(n)'
  <2>1. ASSUME Height(n + 1) \in Nat PROVE High(TreeAt(0)', Height(n + 1))
    BY <2>1, NothingHigh DEF TreeAt
  <2>2. \A k \in 1 .. Len(items'[i].attach) : \E b :
           /\ b = items'[i].attach[k].id2_head
           /\ items'[i].attach[k].i_id # 0 => Height(n + 1) \in Nat /\ High(TreeAt(b)', Height(n + 1))
           /\ stack'[n].call = "parse" /\ stack'[n].pc # "leave" /\ k >= stack'[n].at => b = 0
    <3>1. ASSUME NEW k \in 1 .. Len(new.attach)
          PROVE new.attach[k].id2_head = 0 /\ (new.attach[k].i_id # 0 => Height(n + 1) \in Nat)
      BY <1>8 DEF NoCopies
    <3> QED BY <1>10, <2>1, <3>1
  <2> QED BY <1>2, <1>3, <1>4, <1>10, <2>2, ItemAfter, SMTT(30)
<1>12. GoesOn(S, n, fr, i, new)
  BY <1>1, <1>2, <1>3, <1>4, <1>5, <1>8 DEF GoesOn
<1> QED BY <1>9, <1>11, <1>12, ItemStep

\* The delivery reports.
LEMMA ParseReportsLife == ASSUME LifeInv, ParseReports PROVE LifeInv'
<1>1. /\ At("parse", "reports") /\ UNCHANGED <<file, trees, leaked>> /\ stack' = Replace([Top EXCEPT !.pc = "table"])
      /\ \/ items' = items
         \/ TableReadable(ReportsId)
            /\ items' = [items EXCEPT ![Top.item] = WithRows(@, GetId2(TreeAt(Top.head), ReportsId))]
  BY DEF ParseReports
<1> QED BY <1>1, RowsLife

\* The attachment table, or the end without one.
LEMMA ParseTableLife == ASSUME LifeInv, ParseTable PROVE LifeInv'
<1>1. /\ At("parse", "table") /\ UNCHANGED <<file, trees, leaked>>
      /\ stack' = Replace([Top EXCEPT !.pc = "attach"]) \/ stack' = Replace([Top EXCEPT !.pc = "leave"])
      /\ \/ items' = items
         \/ TableReadable(TableId)
            /\ items' = [items EXCEPT ![Top.item] = WithRows(@, GetId2(TreeAt(Top.head), TableId))]
  BY DEF ParseTable
<1> QED BY <1>1, RowsLife

\* The stack with the tree that is searched from now on.
LEMMA WiderFrames ==
  ASSUME NEW S, NEW T, S \subseteq T, stack \in Seq(Frames(S))
  PROVE  stack \in Seq(Frames(T))
<1>1. \A fr \in Frames(S) : fr \in Frames(T)
  BY DEF Frames
<1>2. Frames(S) \subseteq Frames(T)
  BY <1>1
<1> HIDE DEF Frames
<1> QED BY <1>2

\* The tree is built, or borrowed from the caller.
LEMMA EnterLife == ASSUME LifeInv, Enter PROVE LifeInv'
<1>1. PICK S0 : /\ stack \in Seq(Frames(S0)) /\ stack # <<>>
               /\ Len(stack) \in Nat \ {0} /\ Len(stack) \in 1 .. Len(stack)
               /\ Top = stack[Len(stack)] /\ Top \in Frames(S0) /\ Top.call = "parse" /\ Top.pc = "enter"
               /\ FrameOK(Len(stack)) /\ ItemOK(Len(stack))
  BY AtTop DEF Enter
<1>2. PICK n, t : n \in Nat /\ n = Len(stack) /\ t = Top
  BY <1>1
<1>3. t.item = 0 /\ t.head = 0 /\ (t.assoc # 0 => n = 1 /\ t.assoc \in file.index) /\ t.at = 1 /\ t.call = "parse"
  BY <1>1, <1>2 DEF FrameOK
<1>4. Height(n) \in Nat /\ Reaches(t.master, n)
  BY <1>1, <1>2 DEF FrameOK
<1>5. file' = file /\ items' = items /\ leaked' = leaked
  BY DEF Enter
<1> DEFINE Fr(tree, m, x) == [t EXCEPT !.pc = "message", !.seen = tree, !.master = m, !.head = x]
           Searched(tree, m, x) ==
             /\ m \in Nat /\ x \in Nat /\ stack' = Replace(Fr(tree, m, x))
             /\ TreesStay /\ DOMAIN trees' \subseteq Nat \ {0} /\ IsFiniteSet(DOMAIN trees')
             /\ trees' = [a \in DOMAIN trees' |-> trees'[a]]
             /\ DOMAIN trees' = DOMAIN trees \cup (IF m = 0 THEN {x} \ {0} ELSE {})
             /\ IF m = 0 THEN x \notin DOMAIN trees ELSE x = m
             /\ Reaches(x, n)' /\ Reaches(m, n)'
<1>6. ASSUME t.assoc # 0 PROVE \E tree, m, x : Searched(tree, m, x)
  <2>1. PICK tree : tree = BuildId2(t.assoc)
    OBVIOUS
  <2>2. trees' = Stored(tree)
        /\ stack' = Replace([t EXCEPT !.pc = "message", !.seen = tree, !.master = 0, !.head = NewTree(tree)])
    BY <1>2, <1>6, <2>1 DEF Enter
  <2>3. PICK x \in Nat :
          /\ x = NewTree(tree) /\ x \notin DOMAIN trees /\ TreeAt(x)' = tree
          /\ DOMAIN trees' = DOMAIN trees \cup ({x} \ {0})
          /\ DOMAIN trees' \subseteq Nat \ {0} /\ IsFiniteSet(DOMAIN trees')
          /\ trees' = [a \in DOMAIN trees' |-> trees'[a]]
          /\ TreesStay
    BY <2>2, StoredParts
  <2>4. High(tree, Height(n))
    <3>1. IsFile(file)
      BY FilesAssumption DEF LifeInv, Heap
    <3>2. High(tree, MaxDepth + 1)
      BY <1>3, <1>6, <2>1, <3>1, BuiltHigh
    <3>3. Height(n) = MaxDepth + 1
      BY <1>3, <1>6, DepthAssumption DEF Height
    <3> QED BY <3>2, <3>3
  <2>5. Reaches(x, n)' /\ Reaches(0, n)'
    BY <1>4, <2>3, <2>4, NothingHigh DEF Reaches, TreeAt, Height
  <2>6. stack' = Replace(Fr(tree, 0, x))
    BY <2>2, <2>3
  <2> HIDE DEF Fr
  <2>7. Searched(tree, 0, x)
    BY <2>3, <2>5, <2>6
  <2> QED BY <2>7
<1>7. ASSUME t.assoc = 0 PROVE \E tree, m, x : Searched(tree, m, x)
  <2>1. PICK m, tree : m = t.master /\ tree = TreeAt(m) /\ m \in Nat
    BY <1>1, <1>2 DEF Frames
  <2>2. trees' = trees /\ stack' = Replace([t EXCEPT !.pc = "message", !.seen = tree, !.master = @, !.head = m])
    BY <1>2, <1>7, <2>1 DEF Enter
  <2>3. [t EXCEPT !.pc = "message", !.seen = tree, !.master = @, !.head = m] = Fr(tree, m, m)
    BY <2>1
  <2>4. stack' = Replace(Fr(tree, m, m))
    BY <2>2, <2>3
  <2>5. Reaches(m, n)'
    BY <1>4, <2>1, <2>2 DEF Reaches, TreeAt, Height
  <2> HIDE DEF Fr
  <2>6. Searched(tree, m, m)
    BY <2>1, <2>2, <2>4, <2>5 DEF LifeInv, Heap, TreesStay
  <2> QED BY <2>6
<1>8. PICK tree, m, x : Searched(tree, m, x)
  BY <1>6, <1>7
<1>9. PICK S, fr : S = S0 \cup {tree} /\ fr = Fr(tree, m, x)
  OBVIOUS
<1>10. stack \in Seq(Frames(S))
  BY <1>1, <1>9, WiderFrames
<1>11. /\ fr \in Frames(S) /\ fr.call = "parse" /\ fr.pc = "message" /\ fr.master = m /\ fr.head = x
       /\ fr.item = 0 /\ fr.at = 1
  <2>1. /\ t \in [call : {"parse", "write"}, pc : Pcs, desc : Int, assoc : Int, master : Nat, head : Nat,
                 item : Nat, at : Int, seen : S]
        /\ tree \in S /\ "message" \in Pcs
    BY <1>1, <1>2, <1>9 DEF Frames, Pcs
  <2>2. fr \in Frames(S)
    BY <1>8, <1>9, <2>1 DEF Frames
  <2> QED BY <1>3, <1>9, <2>1, <2>2
<1>12. stack' = Replace(fr)
  BY <1>8, <1>9
<1>13. Searched(tree, m, x) /\ Len(stack') = n /\ stack'[n] = fr /\ stack' # <<>>
  BY <1>1, <1>2, <1>8, <1>10, <1>11, <1>12, ReplaceParts
<1> HIDE DEF Fr
<1>14. Heap'
  BY <1>5, <1>13 DEF LifeInv, Heap
<1>15. Owned'
  <2>1. \A i, k, a : Holds(i, k, a)' <=> Holds(i, k, a)
    BY <1>5 DEF Holds
  <2>2. \A a : ~ Mine(a)
    BY <1>2, <1>3 DEF Mine
  <2>3. \A a : Mine(a)' <=> a # 0 /\ m = 0 /\ a = x
    BY <1>11, <1>13 DEF Mine, Top
  <2>4. Owned
    BY DEF LifeInv
  <2>5. \A i, k, a \in Nat : Mine(a)' => ~ Holds(i, k, a)
    BY <1>13, <2>3, <2>4 DEF Owned
  <2>6. \A a \in DOMAIN trees' : Mine(a)' \/ \E i, k \in Nat : Holds(i, k, a)
    BY <1>13, <2>2, <2>3, <2>4 DEF Owned
  <2>7. \A i, k, a \in Nat : Holds(i, k, a) => a \in DOMAIN trees'
    BY <1>13, <2>4 DEF Owned
  <2> QED BY <2>1, <2>4, <2>5, <2>6, <2>7 DEF Owned
<1>16. FrameOK(n)'
  <2>1. Reaches(x, n)' /\ Reaches(m, n)' /\ (m # 0 => x = m)
    BY <1>13
  <2> QED BY <1>4, <1>11, <1>13, <2>1 DEF FrameOK, Reaches, TreeAt, Height
<1>17. ItemOK(n)'
  BY <1>11, <1>13 DEF ItemOK
<1>18. /\ Top.item = 0 /\ fr.item = Top.item /\ TreesStay
       /\ \A i \in DOMAIN items : i # Top.item => items'[i] = items[i]
       /\ DOMAIN items' = DOMAIN items \cup ({fr.item} \ {0})
  BY <1>2, <1>3, <1>5, <1>11, <1>13
<1> QED BY <1>1, <1>2, <1>10, <1>11, <1>12, <1>14, <1>15, <1>16, <1>17, <1>18, TopChanged

\* The item of the message is allocated.
LEMMA ParseMessageLife == ASSUME LifeInv, ParseMessage PROVE LifeInv'
<1>1. PICK S : /\ stack \in Seq(Frames(S)) /\ stack # <<>>
               /\ Len(stack) \in Nat \ {0} /\ Len(stack) \in 1 .. Len(stack)
               /\ Top = stack[Len(stack)] /\ Top \in Frames(S) /\ Top.call = "parse" /\ Top.pc = "message"
               /\ FrameOK(Len(stack)) /\ ItemOK(Len(stack))
  BY AtTop DEF ParseMessage
<1>2. PICK n, t : n \in Nat /\ n = Len(stack) /\ t \in Frames(S) /\ t = Top
  BY <1>1
<1>3. t.item = 0 /\ t.at = 1 /\ t.call = "parse" /\ (t.master # 0 => t.head = t.master) /\ t.desc \in Int
  BY <1>1, <1>2 DEF FrameOK, Frames
<1>4. Height(n) \in Nat /\ Reaches(t.head, n) /\ Reaches(t.master, n)
  BY <1>1, <1>2 DEF FrameOK
<1>5. PICK rows : rows = ParseBlock(t.desc, TreeAt(t.head)) /\ rows \in Seq(Seq(Element))
  BY <1>2, BlockParsed DEF ParseMessage
<1>6. PICK item : item = Process(t.desc, rows, NewItem, 0)
  OBVIOUS
<1>7. item \in Item /\ Len(item.attach) = 0
  <2>1. NewItem \in Item /\ Len(NewItem.attach) = 0
    BY DEF NewItem, Item, ItemTypes
  <2>2. Keeps(NewItem, item)
    BY <1>3, <1>5, <1>6, <2>1, ListProcessed
  <2> QED BY <2>1, <2>2 DEF Keeps
<1>8. file' = file /\ trees' = trees /\ leaked' = leaked /\ items' = With(items, item)
      /\ stack' = Replace([t EXCEPT !.pc = "reports", !.item = Fresh(items)])
  BY <1>2, <1>5, <1>6 DEF ParseMessage
<1>9. PICK w, i : w = With(items, item) /\ i = Fresh(items)
  OBVIOUS
<1>10. /\ i \in Nat \ {0} /\ i \notin DOMAIN items /\ DOMAIN w = DOMAIN items \cup {i} /\ w[i] = item
       /\ \A a \in DOMAIN items : w[a] = items[a]
       /\ IsFiniteSet(DOMAIN w) /\ DOMAIN w \subseteq Nat \ {0} /\ w = [a \in DOMAIN w |-> w[a]]
  <2>1. IsFiniteSet(DOMAIN items) /\ DOMAIN items \subseteq Nat \ {0}
    BY DEF LifeInv, Heap
  <2>2. Grown(With(items, item), items, item, Fresh(items))
    BY <2>1, WithParts
  <2> QED BY <1>9, <2>2 DEF Grown
<1> DEFINE fr == [t EXCEPT !.pc = "reports", !.item = i]
<1>11. /\ fr \in Frames(S) /\ fr.call = "parse" /\ fr.pc = "reports" /\ fr.master = t.master /\ fr.head = t.head
       /\ fr.item = i /\ fr.at = 1
  <2>1. "reports" \in Pcs /\ i \in Nat
    BY <1>10 DEF Pcs
  <2> QED BY <1>2, <1>3, <2>1 DEF Frames
<1>12. stack' = Replace(fr) /\ items' = w
  BY <1>8, <1>9
<1> HIDE DEF fr
<1>13. Len(stack') = n /\ stack'[n] = fr /\ stack' # <<>>
  BY <1>1, <1>2, <1>11, <1>12, ReplaceParts
<1>14. Heap'
  <2>1. \A a \in DOMAIN w : w[a] \in Item
    BY <1>7, <1>10 DEF LifeInv, Heap
  <2> QED BY <1>8, <1>10, <1>12, <2>1 DEF LifeInv, Heap
<1>15. Owned' /\ TreesStay
  <2>1. \A j, k, a \in Nat : Holds(j, k, a)' <=> Holds(j, k, a)
    BY <1>7, <1>10, <1>12 DEF Holds
  <2>2. \A a : Mine(a)' <=> Mine(a)
    BY <1>1, <1>2, <1>11, <1>13 DEF Mine, Top
  <2>3. Owned /\ DOMAIN trees \subseteq Nat
    BY DEF LifeInv, Heap
  <2> QED BY <1>8, <2>1, <2>2, <2>3 DEF Owned, TreesStay
<1>16. FrameOK(n)'
  <2>1. PICK h, m : h = t.head /\ m = t.master
    OBVIOUS
  <2>2. Reaches(h, n)' /\ Reaches(m, n)'
    BY <1>4, <1>8, <2>1 DEF Reaches, TreeAt, Height
  <2> QED BY <1>3, <1>4, <1>10, <1>11, <1>12, <1>13, <2>1, <2>2 DEF FrameOK, Reaches, TreeAt, Height
<1>17. ItemOK(n)'
  BY <1>7, <1>10, <1>11, <1>12, <1>13 DEF ItemOK
<1>18. /\ Top.item = 0 /\ fr.item \notin DOMAIN items
       /\ \A j \in DOMAIN items : j # Top.item => items'[j] = items[j]
       /\ DOMAIN items' = DOMAIN items \cup ({fr.item} \ {0})
  BY <1>2, <1>3, <1>10, <1>11, <1>12
<1> QED BY <1>1, <1>2, <1>11, <1>12, <1>14, <1>15, <1>16, <1>17, <1>18, TopChanged

\* An embedded message is parsed with the copy its attachment keeps.
LEMMA WriteEmbeddedLife == ASSUME LifeInv, WriteEmbedded PROVE LifeInv'
<1>1. PICK S0 : /\ stack \in Seq(Frames(S0)) /\ stack # <<>>
                /\ Len(stack) \in Nat \ {0} /\ Len(stack) \in 1 .. Len(stack)
                /\ Top = stack[Len(stack)] /\ Top \in Frames(S0) /\ Top.call = "write" /\ Top.pc = "write"
                /\ FrameOK(Len(stack)) /\ ItemOK(Len(stack))
  BY AtTop DEF WriteEmbedded, AttachLeft
<1>2. PICK n, i, t, S : /\ n \in Nat /\ n = Len(stack) /\ i = Top.item /\ t = Top /\ S = S0 \cup {<<>>}
  BY <1>1
<1>3. stack \in Seq(Frames(S)) /\ t \in Frames(S)
  <2>1. stack \in Seq(Frames(S))
    BY <1>1, <1>2, WiderFrames
  <2> QED BY <1>1, <1>2, <2>1, TopParts
<1>4. i # 0 /\ i \in DOMAIN items /\ i \in Nat /\ items[i] \in Item /\ t.head = 0 /\ t.master = 0 /\ Height(n) \in Nat
  BY <1>1, <1>2 DEF FrameOK, LifeInv, Heap
<1>5. PICK k \in 1 .. Len(items[i].attach) : k = t.at
  BY <1>2, <1>4 DEF WriteEmbedded, AttachLeft, Item
<1>6. PICK a \in Attachment : a = items[i].attach[k]
  BY <1>4, <1>5 DEF Item
<1>7. /\ Known(a.i_id) /\ file' = file /\ trees' = trees /\ items' = items /\ leaked' = leaked
      /\ stack' = Append(Replace([t EXCEPT !.at = t.at + 1]), ParseCall(a.i_id, 0, a.id2_head))
  BY <1>2, <1>5, <1>6 DEF WriteEmbedded
<1>8. a.i_id \in Nat /\ a.i_id # 0
  BY <1>7, FilesAssumption DEF Known, LifeInv, Heap, IsFile
<1>9. PICK h \in Nat : h = a.id2_head
  BY <1>6 DEF Attachment
<1>10. Height(n + 1) \in Nat /\ High(TreeAt(h), Height(n + 1))
  <2>1. stack[n].item = i /\ ItemOK(n)
    BY <1>1, <1>2
  <2> QED BY <1>4, <1>5, <1>6, <1>8, <1>9, <2>1 DEF ItemOK
<1>11. h \in DOMAIN trees \cup {0}
  <2>1. h # 0 => Holds(i, k, h)
    BY <1>4, <1>5, <1>6, <1>9 DEF Holds
  <2>2. k \in Nat
    BY <1>4, <1>5
  <2> QED BY <1>4, <1>9, <2>1, <2>2 DEF LifeInv, Owned
<1> DEFINE fr == [t EXCEPT !.at = t.at + 1]
           call == ParseCall(a.i_id, 0, h)
<1>12. fr \in Frames(S) /\ fr.call = "write" /\ fr.pc = "write" /\ fr.item = i /\ fr.head = 0 /\ fr.master = 0
  <2>1. t.at + 1 \in Int
    BY <1>3 DEF Frames
  <2> QED BY <1>1, <1>2, <1>3, <1>4, <2>1 DEF Frames
<1>13. /\ call \in Frames(S) /\ call.call = "parse" /\ call.pc = "enter" /\ call.item = 0 /\ call.head = 0
       /\ call.master = h /\ call.assoc = 0 /\ call.at = 1
  <2>1. "enter" \in Pcs /\ <<>> \in S /\ a.i_id \in Int
    BY <1>2, <1>8 DEF Pcs
  <2> QED BY <1>8, <2>1 DEF Frames, ParseCall
<1>14. stack' = Append(Replace(fr), call)
  BY <1>7, <1>9
<1> HIDE DEF fr, call
<1>15. PICK r : r = Replace(fr)
  OBVIOUS
<1>16. /\ r \in Seq(Frames(S)) /\ Len(r) = n /\ r[n] = fr /\ \A s \in 1 .. n - 1 : r[s] = stack[s]
  BY <1>1, <1>2, <1>3, <1>12, <1>15, ReplaceParts
<1>17. /\ stack' \in Seq(Frames(S)) /\ Len(stack') = n + 1 /\ stack'[n + 1] = call /\ stack' # <<>>
       /\ \A s \in 1 .. n : stack'[s] = r[s]
  BY <1>13, <1>14, <1>15, <1>16, AppendProperties
<1>18. stack'[n] = fr /\ \A s \in 1 .. n - 1 : stack'[s] = stack[s]
  BY <1>1, <1>2, <1>16, <1>17
<1>19. Heap' /\ TreesStay
  BY <1>7 DEF LifeInv, Heap, TreesStay
<1>20. Owned'
  <2>1. \A j, l, b : Holds(j, l, b)' <=> Holds(j, l, b)
    BY <1>7 DEF Holds
  <2>2. \A b : ~ Mine(b)
    BY <1>2, <1>4 DEF Mine
  <2>3. \A b : ~ Mine(b)'
    BY <1>13, <1>17 DEF Mine, Top
  <2>4. Owned
    BY DEF LifeInv
  <2> QED BY <1>7, <2>1, <2>2, <2>3, <2>4 DEF Owned
<1>21. ASSUME NEW s \in 1 .. n - 1 PROVE FrameOK(s)' /\ ItemOK(s)'
  <2>1. s \in 1 .. Len(stack) /\ s # Len(stack) /\ stack'[s] = stack[s]
    BY <1>1, <1>2, <1>18
  <2>2. stack[s].item \in DOMAIN items
    BY <2>1, LowerCalls DEF LifeInv, FrameOK
  <2> QED BY <1>7, <1>19, <1>20, <2>1, <2>2, LowerKept
<1>22. FrameOK(n)'
  <2>1. Reaches(0, n)'
    BY <1>4, NothingHigh DEF Reaches, TreeAt, Height
  <2> QED BY <1>4, <1>7, <1>12, <1>18, <2>1 DEF FrameOK, Reaches, TreeAt, Height
<1>23. ItemOK(n)'
  <2>1. Keeps(items[i], items'[i])
    BY <1>4, <1>7 DEF Keeps
  <2>2. n \in 1 .. Len(stack) /\ i = stack[n].item /\ stack'[n].item = i /\ i \in DOMAIN items'
    BY <1>1, <1>2, <1>4, <1>7, <1>12, <1>18
  <2> QED BY <1>2, <1>4, <1>12, <1>18, <1>19, <1>20, <2>1, <2>2, ItemSame
<1>24. FrameOK(n + 1)'
  <2>1. Reaches(h, n + 1)' /\ Reaches(0, n + 1)'
    BY <1>7, <1>10, <1>11, NothingHigh DEF Reaches, TreeAt, Height
  <2> QED BY <1>2, <1>10, <1>13, <1>17, <2>1 DEF FrameOK, Reaches, TreeAt, Height
<1>25. ItemOK(n + 1)'
  BY <1>13, <1>17 DEF ItemOK
<1>26. ItemOwned'
  <2>1. \A s \in 1 .. n : stack'[s].item = stack[s].item
    BY <1>1, <1>2, <1>12, <1>18
  <2>2. stack'[n + 1].item = 0 /\ n + 1 \in 1 .. n + 1 /\ \A s \in 1 .. n : s \in 1 .. n + 1
    BY <1>2, <1>13, <1>17
  <2>3. \A s \in 1 .. n + 1 : s # n + 1 => s \in 1 .. n
    BY <1>2
  <2>4. ItemOwned
    BY DEF LifeInv
  <2>5. \A j \in DOMAIN items : \E s \in 1 .. n + 1 : stack'[s].item = j
    BY <1>2, <2>1, <2>2, <2>4 DEF ItemOwned
  <2>6. \A s, s2 \in 1 .. n + 1 : stack'[s].item = stack'[s2].item /\ stack'[s].item # 0 => s = s2
    BY <1>2, <2>1, <2>2, <2>3, <2>4 DEF ItemOwned
  <2> QED BY <1>7, <1>17, <2>5, <2>6 DEF ItemOwned
<1>27. \A s \in 1 .. n + 1 : FrameOK(s)' /\ ItemOK(s)'
  <2>1. \A s \in 1 .. n + 1 : s = n + 1 \/ s = n \/ s \in 1 .. n - 1
    BY <1>1, <1>2
  <2> QED BY <1>21, <1>22, <1>23, <1>24, <1>25, <2>1
<1> QED BY <1>17, <1>19, <1>20, <1>26, <1>27 DEF LifeInv

\* pst_freeItem gives back what it holds, but for one field.
LEMMA ForgottenOnly == ASSUME NEW item \in Item PROVE Unfreed(item) \subseteq Forgotten
<1>1. item.held \subseteq Storable
  BY DEF Item
<1>2. ASSUME NEW a \in ToSet(item.attach) PROVE a.held \subseteq Storable
  <2>1. PICK k \in DOMAIN item.attach : a = item.attach[k]
    BY DEF ToSet
  <2>2. a \in Attachment
    BY <2>1 DEF Item
  <2> QED BY <2>2 DEF Attachment
<1>3. Holdings(item) \subseteq Storable
  BY <1>1, <1>2 DEF Holdings
<1> QED BY <1>3, StorableFreed DEF Unfreed

\* The item is freed with the copies of its attachments.
LEMMA FreeItemLife == ASSUME LifeInv, FreeItem PROVE LifeInv'
<1>1. PICK S : /\ stack \in Seq(Frames(S)) /\ stack # <<>>
               /\ Len(stack) \in Nat \ {0} /\ Len(stack) \in 1 .. Len(stack)
               /\ Top = stack[Len(stack)] /\ Top.call = "write" /\ Top.pc = "write"
               /\ FrameOK(Len(stack))
  BY AtTop DEF FreeItem
<1>2. PICK i, item, copies :
        /\ i = Top.item /\ item = items[i] /\ copies = {item.attach[k].id2_head : k \in DOMAIN item.attach}
  OBVIOUS
<1>3. i # 0 /\ i \in DOMAIN items /\ i \in Nat /\ item \in Item /\ Top.head = 0 /\ Top.master = 0
  BY <1>1, <1>2 DEF FrameOK, LifeInv, Heap
<1>4. /\ trees' = [a \in DOMAIN trees \ copies |-> trees[a]] /\ leaked' = leaked \cup Unfreed(item)
      /\ items' = [j \in DOMAIN items \ {i} |-> items[j]] /\ stack' = Front(stack) /\ file' = file
  BY <1>2 DEF FreeItem, Without
<1>5. DOMAIN trees' = DOMAIN trees \ copies /\ DOMAIN items' = DOMAIN items \ {i} /\ TreesStay
      /\ \A j \in DOMAIN items : j # i => items'[j] = items[j]
  BY <1>4 DEF TreesStay
<1>6. Heap'
  <2>1. IsFiniteSet(DOMAIN trees') /\ IsFiniteSet(DOMAIN items')
    <3>1. IsFiniteSet(DOMAIN trees) /\ IsFiniteSet(DOMAIN items)
      BY DEF LifeInv, Heap
    <3>2. IsFiniteSet(DOMAIN trees \ copies)
      BY <3>1, FS_Difference
    <3>3. IsFiniteSet(DOMAIN items \ {i})
      BY <3>1, FS_RemoveElement
    <3> QED BY <1>5, <3>2, <3>3
  <2>2. leaked' \subseteq Forgotten
    BY <1>3, <1>4, ForgottenOnly DEF LifeInv, Heap
  <2>3. trees' = [a \in DOMAIN trees' |-> trees'[a]] /\ items' = [j \in DOMAIN items' |-> items'[j]]
    BY <1>4, <1>5
  <2>4. \A j \in DOMAIN items' : items'[j] \in Item
    BY <1>5 DEF LifeInv, Heap
  <2> QED BY <1>4, <1>5, <2>1, <2>2, <2>3, <2>4 DEF LifeInv, Heap
<1>7. Owned'
  <2>1. \A j, k, a : Holds(j, k, a)' <=> j # i /\ Holds(j, k, a)
    BY <1>3, <1>5 DEF Holds
  <2>2. \A a : ~ Mine(a)
    BY <1>3 DEF Mine
  <2>3. \A a : ~ Mine(a)'
    BY <1>1, <1>4, NoneMine
  <2>4. Owned
    BY DEF LifeInv
  <2>5. \A a \in Nat \ {0} : a \in copies <=> \E k \in Nat : Holds(i, k, a)
    <3>1. DOMAIN item.attach = 1 .. Len(item.attach) /\ Len(item.attach) \in Nat
      BY <1>3 DEF Item
    <3> QED BY <1>2, <1>3, <3>1 DEF Holds
  <2>6. DOMAIN trees \subseteq Nat \ {0}
    BY DEF LifeInv, Heap
  <2>7. \A j, k, a \in Nat : j # i /\ Holds(j, k, a) => a \in DOMAIN trees'
    BY <1>3, <1>5, <2>4, <2>5, <2>6 DEF Owned
  <2>8. \A a \in DOMAIN trees' : \E j, k \in Nat : j # i /\ Holds(j, k, a)
    <3>1. ASSUME NEW a \in DOMAIN trees' PROVE \E j, k \in Nat : j # i /\ Holds(j, k, a)
      <4>1. a \in DOMAIN trees /\ a \notin copies /\ a \in Nat \ {0}
        BY <1>5, <2>6, <3>1
      <4>2. PICK j \in Nat, k \in Nat : Holds(j, k, a)
        BY <2>2, <2>4, <4>1 DEF Owned
      <4> QED BY <2>5, <4>1, <4>2
    <3> QED BY <3>1
  <2> QED BY <2>1, <2>3, <2>4, <2>7, <2>8 DEF Owned
<1> QED BY <1>1, <1>2, <1>4, <1>5, <1>6, <1>7, TopLeft

\* An attachment that keeps what it has: it is not found, its block cannot be
\* read, or there is no tree below its data.
LEMMA AttachKept ==
  ASSUME LifeInv, At("parse", "attach"), Top.at \in DOMAIN items[Top.item].attach,
         UNCHANGED <<file, trees, leaked>>, stack' = Replace([Top EXCEPT !.at = @ + 1]),
         NEW new, items' = [items EXCEPT ![Top.item] = new], Keeps(items[Top.item], new)
  PROVE  LifeInv'
<1>1. PICK S : /\ stack \in Seq(Frames(S)) /\ stack # <<>>
               /\ Len(stack) \in Nat \ {0} /\ Len(stack) \in 1 .. Len(stack)
               /\ Top = stack[Len(stack)] /\ Top \in Frames(S) /\ Top.call = "parse" /\ Top.pc = "attach"
               /\ FrameOK(Len(stack)) /\ ItemOK(Len(stack))
  BY AtTop
<1>2. PICK n, i, t : n \in Nat /\ n = Len(stack) /\ i = Top.item /\ t \in Frames(S) /\ t = Top
  BY <1>1
<1>3. i # 0 /\ i \in DOMAIN items /\ items[i] \in Item
  BY <1>1, <1>2 DEF FrameOK, LifeInv, Heap
<1>3a. t.at \in Int /\ t.at + 1 \in Int
  BY <1>2 DEF Frames
<1> DEFINE fr == [t EXCEPT !.at = t.at + 1]
<1>4. /\ fr \in Frames(S) /\ fr.call = "parse" /\ fr.pc = "attach" /\ fr.head = t.head /\ fr.master = t.master
      /\ fr.item = t.item /\ fr.at = t.at + 1
  BY <1>1, <1>2, <1>3a DEF Frames
<1>5. stack' = Replace(fr) /\ items' = [items EXCEPT ![i] = new] /\ Keeps(items[i], new)
  BY <1>2
<1> HIDE DEF fr
<1>6. stack'[n] = fr /\ items'[i] = new /\ i \in DOMAIN items'
  BY <1>1, <1>2, <1>3, <1>4, <1>5, ReplaceParts
<1>7. ASSUME Owned', TreesStay PROVE ItemOK(n)'
  <2>1. n \in 1 .. Len(stack) /\ i = stack[n].item /\ stack'[n].item = i /\ Keeps(items[i], items'[i])
    BY <1>1, <1>2, <1>3, <1>4, <1>5, <1>6
  <2>2. ASSUME NEW k \in 1 .. Len(items[i].attach), k >= stack'[n].at PROVE items[i].attach[k].id2_head = 0
    <3>1. stack[n].at = t.at /\ stack[n].call = "parse" /\ stack[n].pc # "leave" /\ ItemOK(n) /\ stack[n].item = i
      BY <1>1, <1>2
    <3>2. k >= t.at
      BY <1>3, <1>3a, <1>4, <1>6, <2>2
    <3> QED BY <1>3, <3>1, <3>2 DEF ItemOK
  <2> QED BY <1>2, <1>3, <1>6, <1>7, <2>1, <2>2, ItemSame
<1>8. SameCopies(i, new)
  BY <1>3, <1>5 DEF SameCopies, Keeps
<1>9. GoesOn(S, n, fr, i, new)
  BY <1>1, <1>2, <1>3, <1>4, <1>5 DEF GoesOn, Keeps
<1> QED BY <1>7, <1>8, <1>9, ItemStep

\* The tree below the data is copied for the attachment.
LEMMA AttachCopied ==
  ASSUME LifeInv, At("parse", "attach"), Top.at \in DOMAIN items[Top.item].attach,
         UNCHANGED <<file, leaked>>, stack' = Replace([Top EXCEPT !.at = @ + 1]),
         NEW done, Keeps(items[Top.item], done), NEW node, node.id \in Nat,
         Height(Len(stack) + 1) \in Nat, High(node.child, Height(Len(stack) + 1)),
         trees' = Stored(node.child),
         items' = [items EXCEPT ![Top.item] =
                     [done EXCEPT !.attach[Top.at].i_id = node.id, !.attach[Top.at].id2_head = NewTree(node.child)]]
  PROVE  LifeInv'
<1>1. PICK S : /\ stack \in Seq(Frames(S)) /\ stack # <<>>
               /\ Len(stack) \in Nat \ {0} /\ Len(stack) \in 1 .. Len(stack)
               /\ Top = stack[Len(stack)] /\ Top \in Frames(S) /\ Top.call = "parse" /\ Top.pc = "attach"
               /\ FrameOK(Len(stack)) /\ ItemOK(Len(stack))
  BY AtTop
<1>2. PICK n, i, t : n \in Nat /\ n = Len(stack) /\ i = Top.item /\ t \in Frames(S) /\ t = Top
  BY <1>1
<1>3. i # 0 /\ i \in DOMAIN items /\ i \in Nat /\ items[i] \in Item /\ Height(n) \in Nat
  BY <1>1, <1>2 DEF FrameOK, LifeInv, Heap
<1>4. PICK k \in 1 .. Len(items[i].attach) : k = t.at /\ k \in Nat
  BY <1>2, <1>3 DEF Item
<1>5. PICK tree, id : tree = node.child /\ id = node.id /\ id \in Nat
  OBVIOUS
<1>6. PICK x \in Nat :
        /\ x = NewTree(tree) /\ x \notin DOMAIN trees /\ TreeAt(x)' = tree
        /\ DOMAIN trees' = DOMAIN trees \cup ({x} \ {0})
        /\ DOMAIN trees' \subseteq Nat \ {0} /\ IsFiniteSet(DOMAIN trees')
        /\ trees' = [a \in DOMAIN trees' |-> trees'[a]]
        /\ TreesStay
  BY <1>5, StoredParts
<1>7. PICK att : att \in Seq(Attachment) /\ att = done.attach /\ Len(att) = Len(items[i].attach)
                 /\ \A j \in 1 .. Len(att) : att[j].i_id = items[i].attach[j].i_id
                                             /\ att[j].id2_head = items[i].attach[j].id2_head
  BY <1>2 DEF Keeps, Item
<1>8. PICK b : b = [att[k] EXCEPT !.i_id = id, !.id2_head = x]
  OBVIOUS
<1>9. b \in Attachment /\ b.i_id = id /\ b.id2_head = x
  <2>1. PICK c \in Attachment : c = att[k]
    BY <1>4, <1>7
  <2>2. b = [held |-> c.held, id2_val |-> c.id2_val, i_id |-> id, id2_head |-> x, method |-> c.method,
             sequence |-> c.sequence]
    BY <1>8, <2>1 DEF Attachment
  <2> QED BY <1>5, <1>6, <2>1, <2>2 DEF Attachment
<1>10. PICK s : s = [att EXCEPT ![k] = b]
  OBVIOUS
<1>11. s \in Seq(Attachment) /\ Len(s) = Len(att) /\ \A j \in 1 .. Len(att) : s[j] = IF j = k THEN b ELSE att[j]
  BY <1>4, <1>7, <1>9, <1>10
<1>12. PICK new : new = [done EXCEPT !.attach = s]
  OBVIOUS
<1>13. new \in Item /\ new.attach = s
  BY <1>2, <1>11, <1>12 DEF Keeps, Item
<1>14. items' = [items EXCEPT ![i] = new]
  <2>1. done \in Item
    BY <1>2 DEF Keeps
  <2>2. [done EXCEPT !.attach[k].i_id = id, !.attach[k].id2_head = x] = new
    <3>1. DOMAIN att = 1 .. Len(att) /\ k \in DOMAIN att
      BY <1>4, <1>7
    <3>2. [[att EXCEPT ![k].i_id = id] EXCEPT ![k].id2_head = x] = s
      BY <1>7, <1>8, <1>10, <3>1
    <3> QED BY <1>7, <1>12, <2>1, <3>1, <3>2 DEF Item
  <2> QED BY <1>2, <1>4, <1>5, <1>6, <2>2
<1>15. DOMAIN items' = DOMAIN items /\ items'[i] = new /\ \A j \in DOMAIN items : j # i => items'[j] = items[j]
  BY <1>3, <1>14 DEF LifeInv, Heap
<1>16. t.at + 1 \in Int /\ t.at \in Int
  BY <1>2 DEF Frames
<1> DEFINE fr == [t EXCEPT !.at = t.at + 1]
<1>17. /\ fr \in Frames(S) /\ fr.call = "parse" /\ fr.pc = "attach" /\ fr.head = t.head /\ fr.master = t.master
       /\ fr.item = i /\ fr.at = k + 1
  BY <1>1, <1>2, <1>4, <1>16 DEF Frames
<1>18. stack' = Replace(fr)
  BY <1>2
<1> HIDE DEF fr
<1>19. stack'[n] = fr /\ Len(stack') = n /\ stack' # <<>>
  BY <1>1, <1>2, <1>17, <1>18, ReplaceParts
<1>20. /\ stack[n].item = i /\ stack[n].at = k /\ stack[n].call = "parse" /\ stack[n].pc # "leave" /\ ItemOK(n)
  BY <1>1, <1>2, <1>4
<1>21. \A j \in 1 .. Len(items[i].attach) : j >= k => items[i].attach[j].id2_head = 0
  BY <1>3, <1>20 DEF ItemOK
<1>22. Heap'
  <2>1. items' = [j \in DOMAIN items' |-> items'[j]]
    BY <1>14, <1>15
  <2>2. \A j \in DOMAIN items' : items'[j] \in Item
    BY <1>13, <1>15 DEF LifeInv, Heap
  <2> QED BY <1>6, <1>15, <2>1, <2>2 DEF LifeInv, Heap
<1>23. \A j, l, a \in Nat : Holds(j, l, a)' <=> Holds(j, l, a) \/ (j = i /\ l = k /\ a = x /\ x # 0)
  <2>1. \A j, l, a \in Nat : j # i => (Holds(j, l, a)' <=> Holds(j, l, a))
    BY <1>15 DEF Holds
  <2>2. \A l, a \in Nat : l # k => (Holds(i, l, a)' <=> Holds(i, l, a))
    <3>1. \A l \in 1 .. Len(items[i].attach) : l # k => s[l].id2_head = items[i].attach[l].id2_head
      BY <1>7, <1>11
    <3>2. Len(s) = Len(items[i].attach)
      BY <1>7, <1>11
    <3>3. items'[i].attach = s /\ i \in DOMAIN items'
      BY <1>3, <1>13, <1>15
    <3> QED BY <1>3, <3>1, <3>2, <3>3 DEF Holds
  <2>3. \A a \in Nat : Holds(i, k, a)' <=> a = x /\ x # 0
    <3>1. items'[i].attach = s /\ i \in DOMAIN items' /\ k \in 1 .. Len(s)
      BY <1>3, <1>4, <1>7, <1>11, <1>13, <1>15
    <3>2. s[k].id2_head = x
      BY <1>4, <1>7, <1>9, <1>11
    <3> QED BY <3>1, <3>2 DEF Holds
  <2>4. \A a \in Nat : ~ Holds(i, k, a)
    BY <1>4, <1>21 DEF Holds
  <2> QED BY <2>1, <2>2, <2>3, <2>4
<1>24. Owned'
  <2>1. \A a : Mine(a)' <=> Mine(a)
    BY <1>1, <1>2, <1>17, <1>19 DEF Mine, Top
  <2>2. Owned
    BY DEF LifeInv
  <2>3. \A j, l \in Nat : ~ Holds(j, l, x)
    BY <1>6, <2>2 DEF Owned
  <2>4. ~ Mine(x)
    <3>1. \A a : Mine(a) => a \in DOMAIN trees
      BY <1>1 DEF Mine, FrameOK, Reaches
    <3> QED BY <1>6, <3>1
  <2>5. \A j, l, a \in Nat : Holds(j, l, a)' => a \in DOMAIN trees'
    BY <1>6, <1>23, <2>2 DEF Owned
  <2>6. \A j, m, l, o, a \in Nat : Holds(j, l, a)' /\ Holds(m, o, a)' => j = m /\ l = o
    BY <1>23, <2>2, <2>3 DEF Owned
  <2>7. \A j, l, a \in Nat : Mine(a)' => ~ Holds(j, l, a)'
    BY <1>23, <2>1, <2>2, <2>4 DEF Owned
  <2>8. \A a \in DOMAIN trees' : Mine(a)' \/ \E j, l \in Nat : Holds(j, l, a)'
    <3>1. ASSUME NEW a \in DOMAIN trees', ~ Mine(a) PROVE \E j, l \in Nat : Holds(j, l, a)'
      <4>1. a \in Nat /\ a # 0
        BY <1>6, <3>1
      <4>2. CASE a = x
        BY <1>3, <1>4, <1>23, <4>1, <4>2
      <4>3. CASE a # x
        <5>1. a \in DOMAIN trees
          BY <1>6, <3>1, <4>3
        <5>2. PICK j \in Nat, l \in Nat : Holds(j, l, a)
          BY <2>2, <3>1, <5>1 DEF Owned
        <5> QED BY <1>23, <4>1, <5>2
      <4> QED BY <4>2, <4>3
    <3> QED BY <2>1, <3>1
  <2> QED BY <2>5, <2>6, <2>7, <2>8 DEF Owned
<1>25. FrameOK(n)'
  <2>1. PICK h, m : h = t.head /\ m = t.master
    OBVIOUS
  <2>2. Reaches(h, n) /\ Reaches(m, n) /\ (m # 0 => h = m)
    BY <1>1, <1>2, <2>1 DEF FrameOK
  <2>3. \A a : Reaches(a, n) => Reaches(a, n)'
    BY <1>6 DEF Reaches, TreeAt, Height, TreesStay
  <2>4. Reaches(h, n)' /\ Reaches(m, n)'
    BY <2>2, <2>3
  <2>5. stack'[n] = fr /\ Len(stack') = n /\ fr.head = h /\ fr.master = m
    BY <1>2, <1>17, <1>19, <2>1
  <2>6. Height(n) \in Nat /\ fr.call = "parse" /\ fr.pc = "attach" /\ fr.item = i /\ i # 0 /\ i \in DOMAIN items'
    BY <1>3, <1>15, <1>17
  <2> QED BY <2>2, <2>4, <2>5, <2>6 DEF FrameOK, Reaches, TreeAt, Height
<1>26. ItemOK(n)'
  <2>1. ASSUME NEW l \in 1 .. Len(s), NEW a, a = s[l].id2_head
        PROVE  /\ s[l].i_id # 0 => Height(n + 1) \in Nat /\ High(TreeAt(a)', Height(n + 1))
               /\ l >= k + 1 => a = 0
    <3>1. CASE l = k
      <4>1. a = x
        BY <1>4, <1>7, <1>9, <1>11, <2>1, <3>1
      <4>2. TreeAt(a)' = tree
        BY <1>6, <4>1
      <4>3. Height(n + 1) \in Nat /\ High(tree, Height(n + 1))
        BY <1>2, <1>5
      <4> QED BY <1>4, <3>1, <4>2, <4>3
    <3>2. CASE l # k
      <4>1. s[l].i_id = items[i].attach[l].i_id /\ a = items[i].attach[l].id2_head
            /\ l \in 1 .. Len(items[i].attach)
        BY <1>7, <1>11, <2>1, <3>2
      <4>2. a # 0 => Holds(i, l, a)'
        BY <1>13, <1>15, <1>3, <2>1, <4>1 DEF Holds
      <4>3. n \in 1 .. Len(stack) /\ i = stack[n].item
        BY <1>1, <1>2, <1>20
      <4>4. s[l].i_id # 0 => Height(n + 1) \in Nat /\ High(TreeAt(a)', Height(n + 1))
        BY <1>3, <1>6, <1>24, <4>1, <4>2, <4>3, CopyKept
      <4>5. l >= k + 1 => a = 0
        BY <1>4, <1>21, <4>1
      <4> QED BY <4>4, <4>5
    <3> QED BY <3>1, <3>2
  <2>2. \A l \in 1 .. Len(items'[i].attach) : \E a :
           /\ a = items'[i].attach[l].id2_head
           /\ items'[i].attach[l].i_id # 0 => Height(n + 1) \in Nat /\ High(TreeAt(a)', Height(n + 1))
           /\ stack'[n].call = "parse" /\ stack'[n].pc # "leave" /\ l >= stack'[n].at => a = 0
    <3>1. items'[i].attach = s /\ stack'[n].at = k + 1
      BY <1>13, <1>15, <1>17, <1>19
    <3>2. ASSUME NEW l \in 1 .. Len(items'[i].attach)
          PROVE  \E a : /\ a = items'[i].attach[l].id2_head
                        /\ items'[i].attach[l].i_id # 0 => Height(n + 1) \in Nat /\ High(TreeAt(a)', Height(n + 1))
                        /\ stack'[n].call = "parse" /\ stack'[n].pc # "leave" /\ l >= stack'[n].at => a = 0
      <4>1. l \in 1 .. Len(s) /\ items'[i].attach[l] = s[l]
        BY <3>1
      <4>2. PICK a : a = s[l].id2_head
        OBVIOUS
      <4>3. /\ s[l].i_id # 0 => Height(n + 1) \in Nat /\ High(TreeAt(a)', Height(n + 1))
            /\ l >= k + 1 => a = 0
        BY <2>1, <4>1, <4>2
      <4> QED BY <3>1, <4>1, <4>2, <4>3
    <3> QED BY <3>2
  <2> QED BY <1>2, <1>3, <1>17, <1>19, <2>2, ItemAfter
<1>27. /\ Top.item = i /\ TreesStay
       /\ \A j \in DOMAIN items : j # Top.item => items'[j] = items[j]
       /\ DOMAIN items' = DOMAIN items \cup ({fr.item} \ {0}) /\ fr.item = Top.item
  <2>1. Top.item = i /\ fr.item = i
    BY <1>2, <1>17
  <2>2. DOMAIN items' = DOMAIN items \cup ({fr.item} \ {0})
    BY <1>3, <1>15, <2>1
  <2>3. \A j \in DOMAIN items : j # Top.item => items'[j] = items[j]
    BY <1>15, <2>1
  <2> QED BY <1>6, <2>1, <2>2, <2>3
<1> QED BY <1>1, <1>2, <1>17, <1>18, <1>22, <1>24, <1>25, <1>26, <1>27, TopChanged

\* The second pass over an attachment, in its four ways.
LEMMA ParseAttachLife == ASSUME LifeInv, ParseAttach PROVE LifeInv'
<1>1. PICK S : /\ stack \in Seq(Frames(S)) /\ stack # <<>>
               /\ Len(stack) \in Nat \ {0} /\ Len(stack) \in 1 .. Len(stack)
               /\ Top = stack[Len(stack)] /\ Top \in Frames(S) /\ Top.call = "parse" /\ Top.pc = "attach"
               /\ FrameOK(Len(stack)) /\ ItemOK(Len(stack))
  BY AtTop DEF ParseAttach
<1>2. /\ At("parse", "attach") /\ Top.at \in DOMAIN items[Top.item].attach
      /\ UNCHANGED <<file, leaked>> /\ stack' = Replace([Top EXCEPT !.at = @ + 1])
  BY DEF ParseAttach
<1>3. PICK i, item, k, tree :
        /\ i = Top.item /\ item = items[i] /\ k = Top.at /\ tree = TreeAt(Top.head)
  OBVIOUS
<1>4. i # 0 /\ i \in DOMAIN items /\ item \in Item /\ items = [j \in DOMAIN items |-> items[j]]
  BY <1>1, <1>3 DEF FrameOK, LifeInv, Heap
<1>5. PICK x : x = item.attach[k].id2_val
  OBVIOUS
<1>6. PICK record : record = GetId2(tree, x)
  OBVIOUS
<1>7. k \in DOMAIN item.attach /\ k \in 1 .. Len(item.attach)
  BY <1>2, <1>3, <1>4 DEF Item
<1>8. Keeps(item, item)
  BY <1>4 DEF Keeps
<1>9. CASE ~ HasId2(tree, x)
  <2>1. trees' = trees /\ items' = [items EXCEPT ![Top.item].attach[Top.at].id2_val = 0]
    BY <1>3, <1>5, <1>9 DEF ParseAttach
  <2>2. PICK new : new = [item EXCEPT !.attach[k].id2_val = 0]
    OBVIOUS
  <2>3. Keeps(item, new)
    <3>1. PICK c \in Attachment : c = item.attach[k]
      BY <1>4, <1>7 DEF Item
    <3>2. PICK b : b = [c EXCEPT !.id2_val = 0]
      OBVIOUS
    <3>3. b \in Attachment /\ b.i_id = c.i_id /\ b.id2_head = c.id2_head
      BY <3>2 DEF Attachment
    <3>4. PICK att : att = item.attach /\ att \in Seq(Attachment)
      BY <1>4 DEF Item
    <3>5. PICK s : s = [att EXCEPT ![k] = b]
      OBVIOUS
    <3>6. s \in Seq(Attachment) /\ Len(s) = Len(att) /\ \A j \in 1 .. Len(att) : s[j] = IF j = k THEN b ELSE att[j]
      BY <1>7, <3>3, <3>4, <3>5
    <3>7. new = [item EXCEPT !.attach = s]
      BY <1>4, <1>7, <2>2, <3>1, <3>2, <3>4, <3>5 DEF Item
    <3>8. new \in Item /\ new.attach = s
      BY <1>4, <3>6, <3>7 DEF Item
    <3> QED BY <3>1, <3>3, <3>4, <3>6, <3>8 DEF Keeps
  <2>4. items' = [items EXCEPT ![Top.item] = new]
    BY <1>3, <2>1, <2>2
  <2> QED BY <1>2, <1>3, <2>1, <2>3, <2>4, AttachKept
<1>10. CASE HasId2(tree, x) /\ ~ Readable(record.id)
  <2>1. trees' = trees /\ items' = items
    BY <1>3, <1>5, <1>6, <1>10 DEF ParseAttach, RecordOf
  <2>2. items' = [items EXCEPT ![Top.item] = item]
    BY <1>3, <1>4, <2>1
  <2> QED BY <1>2, <1>3, <1>8, <2>1, <2>2, AttachKept
<1>11. CASE HasId2(tree, x) /\ Readable(record.id)
  <2>1. items' = [items EXCEPT ![Top.item] = Located(item, k, record)] /\ trees' = Copy(item, k, record)
    BY <1>3, <1>5, <1>6, <1>11 DEF ParseAttach, RecordOf
  <2>2. PICK n : n \in Nat /\ n = Len(stack)
    BY <1>1
  <2>3. Height(n) \in Nat /\ High(tree, Height(n))
    BY <1>1, <1>3, <2>2 DEF FrameOK, Reaches
  <2>4. Height(n) > 0 /\ record.id \in Nat /\ High(record.child, Height(n) - 1)
    BY <1>6, <1>11, <2>3, FoundNode
  <2>5. PICK done : done = Process(record.id, ParseBlock(record.id, <<>>), item, k)
    OBVIOUS
  <2>6. Keeps(item, done)
    <3>1. ParseBlock(record.id, <<>>) \in Seq(Seq(Element)) /\ record.id \in Int
      BY <1>11, <2>4, BlockParsed
    <3> QED BY <1>4, <2>5, <3>1, ListProcessed
  <2>7. PICK id2 : id2 = done.attach[k].id2_val
    OBVIOUS
  <2>8. CASE ~ HasId2(record.child, id2)
    <3>1. items' = [items EXCEPT ![Top.item] = done] /\ trees' = trees
      BY <2>1, <2>5, <2>7, <2>8 DEF Located, Copy
    <3> QED BY <1>2, <1>3, <2>6, <3>1, AttachKept
  <2>9. CASE HasId2(record.child, id2)
    <3>1. PICK node : node = GetId2(record.child, id2)
      OBVIOUS
    <3>2. Height(n) - 1 > 0 /\ node.id \in Nat /\ High(node.child, (Height(n) - 1) - 1)
      <4>1. Height(n) - 1 \in Nat
        BY <2>3, <2>4
      <4> QED BY <2>4, <2>9, <3>1, <4>1, FoundNode
    <3>3. Height(n + 1) = (Height(n) - 1) - 1 /\ Height(n + 1) \in Nat
      BY <2>2, <2>3, <3>2, DepthAssumption DEF Height
    <3>4. trees' = Stored(node.child)
          /\ items' = [items EXCEPT ![Top.item] =
                        [done EXCEPT !.attach[Top.at].i_id = node.id,
                                     !.attach[Top.at].id2_head = NewTree(node.child)]]
      BY <1>3, <2>1, <2>5, <2>7, <2>9, <3>1 DEF Located, Copy
    <3>5. Height(Len(stack) + 1) \in Nat /\ High(node.child, Height(Len(stack) + 1)) /\ Keeps(items[Top.item], done)
      BY <1>3, <2>2, <2>6, <3>2, <3>3
    <3> QED BY <1>2, <3>2, <3>4, <3>5, AttachCopied
  <2> QED BY <2>8, <2>9
<1> QED BY <1>9, <1>10, <1>11

\* Every step keeps the invariant.
LEMMA NextLife == LifeInv /\ [Next]_vars => LifeInv'
<1> SUFFICES ASSUME LifeInv, [Next]_vars PROVE LifeInv'
  OBVIOUS
<1>1. CASE UNCHANGED vars
  <2>1. file' = file /\ trees' = trees /\ items' = items /\ leaked' = leaked /\ stack' = stack
    BY <1>1 DEF vars
  <2>2. Heap'
    BY <2>1 DEF LifeInv, Heap
  <2>3. PICK S : stack \in Seq(Frames(S))
    BY DEF LifeInv
  <2>4. stack' \in Seq(Frames(S))
    BY <2>1, <2>3
  <2>5. \A a, s : Reaches(a, s)' <=> Reaches(a, s)
    BY <2>1 DEF Reaches, TreeAt, Height
  <2>6. ASSUME NEW s \in 1 .. Len(stack) PROVE FrameOK(s)'
    <3>1. PICK h, m : h = stack[s].head /\ m = stack[s].master
      OBVIOUS
    <3>2. FrameOK(s) /\ Reaches(h, s)' /\ Reaches(m, s)'
      BY <2>5, <3>1 DEF LifeInv, FrameOK
    <3> QED BY <2>1, <3>1, <3>2 DEF FrameOK, Reaches, TreeAt, Height
  <2>7. ASSUME NEW s \in 1 .. Len(stack) PROVE ItemOK(s)'
    <3>1. ItemOK(s)
      BY DEF LifeInv
    <3> QED BY <2>1, <3>1 DEF ItemOK, TreeAt, Height
  <2>8. ItemOwned'
    BY <2>1 DEF LifeInv, ItemOwned
  <2>9. Owned'
    <3>1. \A i, k, a : (Holds(i, k, a)' <=> Holds(i, k, a)) /\ (Mine(a)' <=> Mine(a))
      BY <2>1 DEF Holds, Mine, Top
    <3>2. Owned
      BY DEF LifeInv
    <3> QED BY <2>1, <3>1, <3>2 DEF Owned
  <2> QED BY <2>1, <2>2, <2>4, <2>6, <2>7, <2>8, <2>9 DEF LifeInv
<1>2. CASE Enter
  BY <1>2, EnterLife
<1>3. CASE ParseFails
  BY <1>3, ParseFailsLife
<1>4. CASE ParseMessage
  BY <1>4, ParseMessageLife
<1>5. CASE ParseReports
  BY <1>5, ParseReportsLife
<1>6. CASE ParseTable
  BY <1>6, ParseTableLife
<1>7. CASE ParseAttach
  BY <1>7, ParseAttachLife
<1>8. CASE AttachDone
  BY <1>8, AttachDoneLife
<1>9. CASE Leave
  BY <1>9, LeaveLife
<1>10. CASE WriteEmbedded
  BY <1>10, WriteEmbeddedLife
<1>11. CASE WriteOther
  BY <1>11, WriteOtherLife
<1>12. CASE FreeItem
  BY <1>12, FreeItemLife
<1> QED BY <1>1, <1>2, <1>3, <1>4, <1>5, <1>6, <1>7, <1>8, <1>9, <1>10, <1>11, <1>12 DEF Next, Done

\* So it holds throughout.
LEMMA LifeAlways == Spec => []LifeInv
BY InitLife, NextLife, PTL DEF Spec

\* For every file, every maximal depth and every nesting of embedded messages:
\* an allocated id2 tree always has exactly one owner, pst_parse_item or an
\* attachment, and no call ever holds a pointer into a tree that is freed.
THEOREM EveryTreeOwned == Spec => []TreesOwned
<1>1. LifeInv => TreesOwned
  BY LifeFollows
<1> QED BY <1>1, LifeAlways, PTL

\* For the same files: when the last item has been written and freed, no tree
\* and no item is left, and the only buffers lost are descriptions of journal
\* entries, which pst_freeItem forgets.
THEOREM NothingIsLeft == Spec => []NothingLeft
<1>1. LifeInv => NothingLeft
  BY LifeFollows
<1> QED BY <1>1, LifeAlways, PTL

-----------------------------------------------------------------------------
(* Attachments do not depend on each other.                                *)
\* What an element makes of the attachment it is for.
Onto(a, e) == IF e.field[1] = "attach" THEN ProcessAttach(a, e) ELSE a

\* One element reaches one attachment.
LEMMA ElementPlace ==
  ASSUME NEW item \in Item, NEW e \in Element, NEW k, NEW j \in 1 .. Len(item.attach)
  PROVE  ProcessElement(item, k, e).attach[j] = IF j = k THEN Onto(item.attach[j], e) ELSE item.attach[j]
<1>0. PICK att, n : att = item.attach /\ att \in Seq(Attachment) /\ n = Len(att) /\ n \in Nat /\ DOMAIN att = 1 .. n
  BY DEF Item
<1>1. CASE e.field[1] # "attach"
  <2>1. ProcessElement(item, k, e) = ProcessItem(item, e)
    BY <1>1 DEF ProcessElement
  <2>2. ProcessItem(item, e) \in {SetClass(item, e), AddHeader(item, e), item,
                                  [item EXCEPT !.parts = Allocated(@, e), !.held = Copied(@, e)]}
    BY DEF ProcessItem
  <2>3. SetClass(item, e).attach = item.attach
    BY DEF SetClass, Item
  <2>4. AddHeader(item, e).attach = item.attach
    BY DEF AddHeader, Item
  <2>5. [item EXCEPT !.parts = Allocated(@, e), !.held = Copied(@, e)].attach = item.attach
    BY DEF Item
  <2>6. ProcessItem(item, e).attach = item.attach
    BY <2>2, <2>3, <2>4, <2>5
  <2> QED BY <1>1, <2>1, <2>6 DEF Onto
<1>2. CASE e.field[1] = "attach" /\ k \notin DOMAIN item.attach
  BY <1>0, <1>2 DEF ProcessElement
<1>3. CASE e.field[1] = "attach" /\ k \in DOMAIN item.attach
  <2>1. PICK b : b = ProcessAttach(att[k], e)
    OBVIOUS
  <2>2. ProcessElement(item, k, e) = [item EXCEPT !.attach = [att EXCEPT ![k] = b]]
    BY <1>0, <1>3, <2>1 DEF ProcessElement
  <2>3. ProcessElement(item, k, e).attach = [att EXCEPT ![k] = b]
    BY <2>2 DEF Item
  <2> QED BY <1>0, <1>3, <2>1, <2>3 DEF Onto
<1> QED BY <1>1, <1>2, <1>3

\* A message with one attachment.
LEMMA OnlyItem == ASSUME NEW a \in Attachment PROVE Only(a) \in Item /\ Len(Only(a).attach) = 1 /\ Only(a).attach[1] = a
<1>0. <<a>> \in Seq(Attachment) /\ Len(<<a>>) = 1 /\ <<a>>[1] = a
  OBVIOUS
<1>1. PICK s : s = <<a>> /\ s \in Seq(Attachment) /\ Len(s) = 1 /\ s[1] = a
  BY <1>0
<1>2. NewItem \in Item
  BY DEF NewItem, Item, ItemTypes
<1>3. [NewItem EXCEPT !.attach = s] \in Item /\ [NewItem EXCEPT !.attach = s].attach = s
  BY <1>1, <1>2 DEF Item
<1> QED BY <1>1, <1>3 DEF Only

\* One element keeps what Keeps says, on the way through a row.
LEMMA StepKeeps ==
  ASSUME NEW item \in Item, NEW new, Keeps(item, new), NEW e \in Element, NEW k
  PROVE  Keeps(item, ProcessElement(new, k, e))
<1>1. new \in Item
  BY DEF Keeps
<1>2. Keeps(new, ProcessElement(new, k, e))
  BY <1>1, ElementProcessed
<1> QED BY <1>2, KeepsTransitive

\* A row reaches one attachment, and does to it what it does to an only one.
LEMMA RowPlace ==
  ASSUME NEW item \in Item, NEW k, NEW row \in Seq(Element), NEW j \in 1 .. Len(item.attach)
  PROVE  ProcessRow(item, k, row).attach[j] = IF j = k THEN Alone(item.attach[j], row) ELSE item.attach[j]
<1>0. PICK n, a : n = Len(row) /\ n \in Nat /\ a = item.attach[j] /\ a \in Attachment
  BY DEF Item
<1> DEFINE f == CHOOSE h : RowSteps(h, n, item, k, row)
           g == CHOOSE h : RowSteps(h, n, Only(a), 1, row)
           T == {m \in Nat : m <= n => /\ Keeps(item, f[m]) /\ Keeps(Only(a), g[m])
                                       /\ f[m].attach[j] = IF j = k THEN g[m].attach[1] ELSE a}
<1>1. RowSteps(f, n, item, k, row) /\ RowSteps(g, n, Only(a), 1, row)
  BY <1>0, RowStepsExist
<1>2. ProcessRow(item, k, row) = f[n] /\ ProcessRow(Only(a), 1, row) = g[n]
  BY <1>0 DEF ProcessRow, RowSteps
<1> HIDE DEF f, g
<1>3. \A i \in 0 .. n : /\ f[i] = IF i = 0 THEN item ELSE ProcessElement(f[i - 1], k, row[i])
                        /\ g[i] = IF i = 0 THEN Only(a) ELSE ProcessElement(g[i - 1], 1, row[i])
  BY <1>1 DEF RowSteps
<1>3a. Only(a) \in Item /\ Len(Only(a).attach) = 1 /\ Only(a).attach[1] = a
  BY <1>0, OnlyItem
<1>4. 0 \in T
  <2>1. f[0] = item /\ g[0] = Only(a)
    BY <1>0, <1>3
  <2>2. Keeps(item, item) /\ Keeps(Only(a), Only(a))
    BY <1>3a DEF Keeps
  <2> QED BY <1>0, <1>3a, <2>1, <2>2
<1>5. ASSUME NEW m \in T PROVE m + 1 \in T
  <2>1. SUFFICES ASSUME m + 1 <= n
                 PROVE  /\ Keeps(item, f[m + 1]) /\ Keeps(Only(a), g[m + 1])
                        /\ f[m + 1].attach[j] = IF j = k THEN g[m + 1].attach[1] ELSE a
    BY DEF T
  <2>2. PICK i \in 0 .. n : i = m + 1 /\ i # 0 /\ i - 1 = m /\ i \in 1 .. n
    BY <1>0, <2>1
  <2>3. PICK e \in Element : e = row[i]
    BY <1>0, <2>2
  <2>4. PICK x, y : x = f[m] /\ y = g[m]
    OBVIOUS
  <2>5. /\ Keeps(item, x) /\ Keeps(Only(a), y)
        /\ x.attach[j] = IF j = k THEN y.attach[1] ELSE a
    BY <1>0, <2>1, <2>4
  <2>6. f[m + 1] = ProcessElement(x, k, e) /\ g[m + 1] = ProcessElement(y, 1, e)
    BY <1>3, <2>2, <2>3, <2>4
  <2>7. Keeps(item, f[m + 1]) /\ Keeps(Only(a), g[m + 1])
    BY <1>3a, <2>5, <2>6, StepKeeps
  <2>8. x \in Item /\ y \in Item /\ j \in 1 .. Len(x.attach) /\ 1 \in 1 .. Len(y.attach)
    BY <1>3a, <2>5 DEF Keeps
  <2>9. f[m + 1].attach[j] = IF j = k THEN Onto(x.attach[j], e) ELSE x.attach[j]
    BY <2>6, <2>8, ElementPlace
  <2>10. g[m + 1].attach[1] = Onto(y.attach[1], e)
    BY <2>6, <2>8, ElementPlace
  <2> QED BY <2>5, <2>7, <2>9, <2>10
<1>6. n \in T
  <2> HIDE DEF T
  <2>1. T \subseteq Nat
    BY DEF T
  <2> QED BY <1>0, <1>4, <1>5, <2>1, SetInduction
<1> QED BY <1>0, <1>2, <1>6 DEF Alone

\* What a row makes of an attachment.
LEMMA AloneParts ==
  ASSUME NEW a \in Attachment, NEW row \in Seq(Element)
  PROVE  Alone(a, row) \in Attachment /\ Alone(a, row).i_id = a.i_id /\ Alone(a, row).id2_head = a.id2_head
<1>1. PICK new : new = ProcessRow(Only(a), 1, row)
  OBVIOUS
<1>2. Keeps(Only(a), new) /\ Len(Only(a).attach) = 1 /\ Only(a).attach[1] = a
  BY <1>1, OnlyItem, RowProcessed
<1>3. new \in Item /\ Len(new.attach) = 1 /\ new.attach[1].i_id = a.i_id /\ new.attach[1].id2_head = a.id2_head
  BY <1>2 DEF Keeps
<1>4. new.attach[1] \in Attachment
  BY <1>3 DEF Item
<1> QED BY <1>1, <1>3, <1>4 DEF Alone

\* Row r of a list reaches the attachment r places behind the first.
LEMMA ListPlace ==
  ASSUME NEW item \in Item, NEW block \in Int, NEW k \in Nat \ {0}, NEW rows \in Seq(Seq(Element)),
         NEW j \in 1 .. Len(item.attach)
  PROVE  Process(block, rows, item, k).attach[j] =
           IF k <= j /\ j < k + Len(rows) THEN Alone(item.attach[j], rows[j - k + 1]) ELSE item.attach[j]
<1>0. PICK n, a : n = Len(rows) /\ n \in Nat /\ a = item.attach[j] /\ j \in Nat
  BY DEF Item
<1> DEFINE start == [item EXCEPT !.block_id = block]
           f == CHOOSE h : ListSteps(h, n, start, k, rows)
           T == {m \in Nat : m <= n =>
                   /\ Keeps(item, f[m])
                   /\ f[m].attach[j] = IF k <= j /\ j < k + m THEN Alone(a, rows[j - k + 1]) ELSE a}
<1>1. ListSteps(f, n, start, k, rows)
  BY <1>0, ListStepsExist
<1>2. Process(block, rows, item, k) = f[n]
  BY <1>0 DEF Process, Place, ListSteps
<1> HIDE DEF f
<1>2a. Keeps(item, start) /\ start.attach = item.attach
  BY DEF Keeps, Item
<1> HIDE DEF start
<1>3. \A i \in 0 .. n : f[i] = IF i = 0 THEN start ELSE ProcessRow(f[i - 1], Place(k, i), rows[i])
  BY <1>1 DEF ListSteps
<1>4. 0 \in T
  <2>1. f[0] = start
    BY <1>0, <1>3
  <2> QED BY <1>0, <1>2a, <2>1
<1>5. ASSUME NEW m \in T PROVE m + 1 \in T
  <2>1. SUFFICES ASSUME m + 1 <= n
                 PROVE  /\ Keeps(item, f[m + 1])
                        /\ f[m + 1].attach[j] = IF k <= j /\ j < k + (m + 1) THEN Alone(a, rows[j - k + 1]) ELSE a
    BY DEF T
  <2>2. PICK i \in 0 .. n : i = m + 1 /\ i # 0 /\ i - 1 = m /\ i \in 1 .. n
    BY <1>0, <2>1
  <2>3. PICK row \in Seq(Element) : row = rows[i]
    BY <1>0, <2>2
  <2>4. PICK x : x = f[m]
    OBVIOUS
  <2>5. Keeps(item, x) /\ x.attach[j] = IF k <= j /\ j < k + m THEN Alone(a, rows[j - k + 1]) ELSE a
    BY <1>0, <2>1, <2>4
  <2>6. Place(k, i) = k + m
    BY <2>2 DEF Place
  <2>7. f[m + 1] = ProcessRow(x, k + m, row)
    BY <1>3, <2>2, <2>3, <2>4, <2>6
  <2>8. x \in Item /\ j \in 1 .. Len(x.attach)
    BY <2>5 DEF Keeps
  <2>9. Keeps(item, f[m + 1])
    <3>1. Keeps(x, ProcessRow(x, k + m, row))
      BY <2>8, RowProcessed
    <3> QED BY <2>5, <2>7, <3>1, KeepsTransitive
  <2>10. f[m + 1].attach[j] = IF j = k + m THEN Alone(x.attach[j], row) ELSE x.attach[j]
    BY <2>7, <2>8, RowPlace
  <2>11. CASE j = k + m
    <3>1. x.attach[j] = a /\ row = rows[j - k + 1] /\ k <= j /\ j < k + (m + 1)
      <4>1. j - k + 1 = i
        BY <1>0, <2>2, <2>11
      <4>2. row = rows[j - k + 1]
        BY <2>3, <4>1
      <4>3. k <= j /\ j < k + (m + 1) /\ ~ (j < k + m)
        BY <1>0, <2>11
      <4>4. x.attach[j] = a
        BY <2>5, <4>3
      <4> QED BY <4>2, <4>3, <4>4
    <3> QED BY <2>9, <2>10, <2>11, <3>1
  <2>12. CASE j # k + m
    <3>1. j < k + m <=> j < k + (m + 1)
      BY <1>0, <2>12
    <3> QED BY <2>5, <2>9, <2>10, <2>12, <3>1
  <2> QED BY <2>11, <2>12
<1>6. n \in T
  <2> HIDE DEF T
  <2>1. T \subseteq Nat
    BY DEF T
  <2> QED BY <1>0, <1>4, <1>5, <2>1, SetInduction
<1> QED BY <1>0, <1>2, <1>6

-----------------------------------------------------------------------------
(* How far a call has come with its rows.                                  *)
\* The attachments are what their rows alone make of them.
ByRows(rows, attach) == Len(attach) = Len(rows) /\ \A r \in 1 .. Len(rows) : attach[r] = ByRow(rows[r])

\* The records of the rows before at have been read as well.
ByRecords(tree, rows, attach, at) ==
  /\ Len(attach) = Len(rows)
  /\ \A r \in 1 .. Len(rows) :
       (\A q \in 1 .. r - 1 : OneObject(tree, rows[q])) =>
         IF r < at THEN Resolved(tree, rows[r], attach[r]) ELSE attach[r] = ByRow(rows[r])

Reports(tree) == RowsOf(tree, ReportsId)
AllRows(tree) == RowsOf(tree, TableId) \o Reports(tree)

\* The attachments a call has made at each of its places.
Stage(fr, attach) ==
  /\ fr.call = "parse" /\ fr.pc = "reports" => Len(attach) = 0
  /\ fr.call = "parse" /\ fr.pc = "table" => ByRows(Reports(fr.seen), attach)
  /\ fr.call = "parse" /\ fr.pc = "attach" =>
       HasRows(fr.seen, TableId) /\ ByRecords(fr.seen, AllRows(fr.seen), attach, fr.at)
  /\ fr.call = "write" \/ fr.pc = "leave" => ByRecords(fr.seen, AllRows(fr.seen), attach, Len(attach) + 1)

PairOK(s) ==
  /\ stack[s].call = "parse" /\ stack[s].pc # "enter" => TreeAt(stack[s].head) = stack[s].seen
  /\ stack[s].call = "parse" => stack[s].at >= 1
  /\ stack[s].item # 0 => Stage(stack[s], items[stack[s].item].attach)

PairInv == \A s \in 1 .. Len(stack) : PairOK(s)

\* The property of the run.
LEMMA PairFollows == LifeInv /\ PairInv => AttachmentResolved
<1> SUFFICES ASSUME LifeInv, PairInv PROVE AttachmentResolved
  OBVIOUS
<1>1. SUFFICES ASSUME NEW s \in DOMAIN stack, stack[s].call = "write"
      PROVE  LET tree == stack[s].seen
                 rows == RowsOf(tree, TableId) \o RowsOf(tree, ReportsId)
                 attach == items[stack[s].item].attach
             IN /\ Len(attach) = Len(rows)
                /\ \A r \in DOMAIN rows :
                     (\A q \in 1 .. r - 1 : OneObject(tree, rows[q])) => Resolved(tree, rows[r], attach[r])
  BY DEF AttachmentResolved
<1>2. PICK S : stack \in Seq(Frames(S))
  BY DEF LifeInv
<1>3. s \in 1 .. Len(stack)
  BY <1>2
<1>4. PICK i, tree, attach : i = stack[s].item /\ tree = stack[s].seen /\ attach = items[i].attach
  OBVIOUS
<1>5. i # 0 /\ i \in DOMAIN items
  BY <1>1, <1>3, <1>4 DEF LifeInv, FrameOK
<1>6. attach \in Seq(Attachment)
  BY <1>4, <1>5 DEF LifeInv, Heap, Item
<1>7. ByRecords(tree, AllRows(tree), attach, Len(attach) + 1)
  BY <1>1, <1>3, <1>4, <1>5 DEF PairInv, PairOK, Stage
<1>8. PICK rows : rows = RowsOf(tree, TableId) \o RowsOf(tree, ReportsId)
  OBVIOUS
<1>9. DOMAIN rows = 1 .. Len(rows)
  BY <1>8
<1>10. \A r \in 1 .. Len(rows) : r < Len(attach) + 1
  BY <1>6, <1>7, <1>8 DEF ByRecords, AllRows, Reports
<1> QED BY <1>4, <1>7, <1>8, <1>9, <1>10 DEF ByRecords, AllRows, Reports

\* What the rows of a tree are.
LEMMA RowsType ==
  ASSUME LifeInv, NEW tree, NEW x
  PROVE  RowsOf(tree, x) \in Seq(Seq(Element))
<1>1. CASE HasRows(tree, x)
  BY <1>1, BlockParsed DEF HasRows, RowsOf
<1>2. CASE ~ HasRows(tree, x)
  BY <1>2 DEF RowsOf
<1> QED BY <1>1, <1>2

\* A row alone gives an attachment no data yet.
LEMMA ByRowParts ==
  ASSUME NEW row \in Seq(Element)
  PROVE  ByRow(row) \in Attachment /\ ByRow(row).i_id = 0 /\ ByRow(row).id2_head = 0
<1>1. NewAttach \in Attachment /\ NewAttach.i_id = 0 /\ NewAttach.id2_head = 0
  BY DEF NewAttach, Attachment
<1> QED BY <1>1, AloneParts DEF ByRow

\* Other trees do not matter to an attachment.
LEMMA ResolvedKept ==
  ASSUME file' = file, NEW tree, NEW row, NEW a, NEW h, h = a.id2_head, TreeAt(h)' = TreeAt(h), Resolved(tree, row, a)
  PROVE  Resolved(tree, row, a)'
<1>1. \A x : HasRows(tree, x)' <=> HasRows(tree, x)
  BY DEF HasRows, Readable
<1>2. \A x : ByRecord(tree, x)' = ByRecord(tree, x)
  BY DEF ByRecord, ParseBlock
<1>3. \A t : DataFrom(t, a) => DataFrom(t, a)'
  BY DEF DataFrom, TreeAt
<1> QED BY <1>1, <1>2, <1>3 DEF Resolved

\* Nor do they matter to a list of attachments.
LEMMA RowsKept ==
  ASSUME file' = file
  PROVE  \A tree : /\ \A x : (HasRows(tree, x)' <=> HasRows(tree, x)) /\ RowsOf(tree, x)' = RowsOf(tree, x)
                   /\ \A row : OneObject(tree, row)' <=> OneObject(tree, row)
<1>1. \A tree, x : HasRows(tree, x)' <=> HasRows(tree, x)
  BY DEF HasRows, Readable
<1>2. \A tree, x : RowsOf(tree, x)' = RowsOf(tree, x)
  BY <1>1 DEF RowsOf, ParseBlock
<1>3. \A tree, row : OneObject(tree, row)' <=> OneObject(tree, row)
  BY <1>2 DEF OneObject
<1> QED BY <1>1, <1>2, <1>3

\* So a list that has been paired with its rows stays so.
LEMMA RecordsKept ==
  ASSUME file' = file, NEW tree, NEW rows, NEW attach, NEW at, ByRecords(tree, rows, attach, at),
         \A k \in 1 .. Len(attach) : \E h : h = attach[k].id2_head /\ TreeAt(h)' = TreeAt(h)
  PROVE  ByRecords(tree, rows, attach, at)'
<1>1. \A row : OneObject(tree, row)' <=> OneObject(tree, row)
  BY RowsKept
<1>2. ASSUME NEW r \in 1 .. Len(rows), Resolved(tree, rows[r], attach[r]) PROVE Resolved(tree, rows[r], attach[r])'
  <2>1. PICK row, a : row = rows[r] /\ a = attach[r]
    OBVIOUS
  <2>2. PICK h : h = a.id2_head /\ TreeAt(h)' = TreeAt(h)
    BY <2>1 DEF ByRecords
  <2>3. Resolved(tree, row, a)'
    BY <1>2, <2>1, <2>2, ResolvedKept
  <2> QED BY <2>1, <2>3
<1> QED BY <1>1, <1>2 DEF ByRecords

\* A place that has been reached stays reached.
LEMMA StageKept ==
  ASSUME file' = file, NEW fr, NEW attach, Stage(fr, attach),
         \A k \in 1 .. Len(attach) : \E h : h = attach[k].id2_head /\ TreeAt(h)' = TreeAt(h)
  PROVE  Stage(fr, attach)'
<1>1. PICK tree : tree = fr.seen
  OBVIOUS
<1>2. \A x : (HasRows(tree, x)' <=> HasRows(tree, x)) /\ RowsOf(tree, x)' = RowsOf(tree, x)
  BY RowsKept
<1>3. Reports(tree)' = Reports(tree) /\ AllRows(tree)' = AllRows(tree)
  BY <1>2 DEF Reports, AllRows
<1>4. ASSUME NEW at, ByRecords(tree, AllRows(tree), attach, at) PROVE ByRecords(tree, AllRows(tree), attach, at)'
  <2>1. PICK rows : rows = AllRows(tree)
    OBVIOUS
  <2>2. ByRecords(tree, rows, attach, at)'
    BY <1>4, <2>1, RecordsKept
  <2> QED BY <1>3, <2>1, <2>2 DEF ByRecords
<1>5. ByRows(Reports(tree), attach) => ByRows(Reports(tree), attach)'
  BY <1>3 DEF ByRows
<1> QED BY <1>1, <1>2, <1>4, <1>5 DEF Stage

-----------------------------------------------------------------------------
(* What every step has in common.                                          *)
\* A step that leaves file and allocated trees alone and only works for the
\* innermost call.
Works ==
  /\ file' = file /\ TreesStay
  /\ \A i \in DOMAIN items : i # Top.item => i \in DOMAIN items' /\ items'[i] = items[i]

\* The trees of attachments that stay.
LEMMA CopiesStay ==
  ASSUME LifeInv, LifeInv', TreesStay, NEW i, i \in DOMAIN items, i \in DOMAIN items',
         NEW attach, attach = items[i].attach, NEW k \in 1 .. Len(attach),
         items'[i].attach[k].id2_head = attach[k].id2_head, Len(items'[i].attach) = Len(attach)
  PROVE  \E h : h = attach[k].id2_head /\ TreeAt(h)' = TreeAt(h)
<1>1. PICK h : h = attach[k].id2_head
  OBVIOUS
<1>2. items[i] \in Item /\ i \in Nat
  BY DEF LifeInv, Heap
<1>3. k \in Nat /\ attach[k] \in Attachment
  BY <1>2 DEF Item
<1>4. h \in Nat
  BY <1>1, <1>3 DEF Attachment
<1>5. CASE h # 0
  <2>1. Holds(i, k, h) /\ Holds(i, k, h)'
    BY <1>1, <1>5 DEF Holds
  <2>2. Owned /\ Owned'
    BY DEF LifeInv
  <2>3. h \in DOMAIN trees
    BY <1>2, <1>3, <1>4, <2>1, <2>2 DEF Owned
  <2>4. h \in DOMAIN trees'
    BY <1>2, <1>3, <1>4, <2>1, <2>2 DEF Owned
  <2> QED BY <1>1, <1>5, <2>3, <2>4 DEF TreeAt, TreesStay
<1>6. CASE h = 0
  BY <1>1, <1>6 DEF TreeAt
<1> QED BY <1>5, <1>6

\* The calls around the innermost one keep what they have.
LEMMA LowerPairs ==
  ASSUME LifeInv, LifeInv', PairInv, Works, stack # <<>>,
         NEW s \in 1 .. Len(stack), s # Len(stack), s \in 1 .. Len(stack'), stack'[s] = stack[s]
  PROVE  PairOK(s)'
<1>1. PICK fr, i : fr = stack[s] /\ i = fr.item
  OBVIOUS
<1>2. fr.call = "write" /\ i # 0
  BY <1>1, LowerCalls
<1>3. i \in DOMAIN items
  BY <1>1, <1>2 DEF LifeInv, FrameOK
<1>4. i # Top.item
  <2>1. PICK S : stack \in Seq(Frames(S))
    BY DEF LifeInv
  <2>2. Len(stack) \in 1 .. Len(stack) /\ Top = stack[Len(stack)]
    BY <2>1, TopParts
  <2> QED BY <1>1, <1>2, <2>2 DEF LifeInv, ItemOwned
<1>5. i \in DOMAIN items' /\ items'[i] = items[i]
  BY <1>3, <1>4 DEF Works
<1>6. PICK attach : attach = items[i].attach
  OBVIOUS
<1>7. \A k \in 1 .. Len(attach) : \E h : h = attach[k].id2_head /\ TreeAt(h)' = TreeAt(h)
  <2>1. ASSUME NEW k \in 1 .. Len(attach) PROVE \E h : h = attach[k].id2_head /\ TreeAt(h)' = TreeAt(h)
    <3>1. items'[i].attach[k].id2_head = attach[k].id2_head /\ Len(items'[i].attach) = Len(attach)
      BY <1>5, <1>6
    <3>2. TreesStay
      BY DEF Works
    <3> QED BY <1>3, <1>5, <1>6, <2>1, <3>1, <3>2, CopiesStay
  <2> QED BY <2>1
<1>8. Stage(fr, attach)
  BY <1>1, <1>2, <1>6 DEF PairInv, PairOK
<1>9. Stage(fr, attach)'
  BY <1>7, <1>8, StageKept DEF Works
<1> QED BY <1>1, <1>2, <1>5, <1>6, <1>9 DEF PairOK, Stage

\* The innermost call goes on.
LEMMA PairStep ==
  ASSUME LifeInv, LifeInv', PairInv, Works, NEW S, stack \in Seq(Frames(S)), stack # <<>>,
         NEW n, n = Len(stack), NEW fr \in Frames(S), stack' = Replace(fr), PairOK(n)'
  PROVE  PairInv'
<1>1. /\ n \in Nat /\ Len(stack') = n /\ \A s \in 1 .. n - 1 : stack'[s] = stack[s]
  BY ReplaceParts, TopParts
<1>2. ASSUME NEW s \in 1 .. n, s # n PROVE PairOK(s)'
  <2>1. s \in 1 .. n - 1
    BY <1>1, <1>2
  <2> QED BY <1>1, <1>2, <2>1, LowerPairs
<1> QED BY <1>1, <1>2 DEF PairInv

\* The innermost call returns.
LEMMA PairLeft ==
  ASSUME LifeInv, LifeInv', PairInv, Works, stack # <<>>, stack' = Front(stack)
  PROVE  PairInv'
<1>1. PICK S : stack \in Seq(Frames(S))
  BY DEF LifeInv
<1>2. PICK n \in Nat \ {0} : n = Len(stack)
  BY <1>1, TopParts
<1>3. Len(stack') = n - 1 /\ \A s \in 1 .. n - 1 : stack'[s] = stack[s]
  BY <1>1, <1>2, FrontParts
<1>4. ASSUME NEW s \in 1 .. n - 1 PROVE PairOK(s)'
  <2>1. s \in 1 .. n /\ s # n
    BY <1>2
  <2> QED BY <1>2, <1>3, <2>1, LowerPairs
<1> QED BY <1>3, <1>4 DEF PairInv

\* The tree that is searched stays.
LEMMA SearchedStays ==
  ASSUME LifeInv, PairInv, trees' = trees, NEW n, n = Len(stack), n \in 1 .. Len(stack), NEW t, t = stack[n],
         NEW fr, stack'[n] = fr, fr.head = t.head, fr.seen = t.seen, t.call = "parse", t.pc # "enter"
  PROVE  TreeAt(stack[n].head)' = stack'[n].seen /\ t.at >= 1
<1>1. TreeAt(t.head) = t.seen /\ t.at >= 1
  BY DEF PairInv, PairOK
<1>2. stack'[n].head = t.head /\ stack'[n].seen = t.seen
  OBVIOUS
<1> QED BY <1>1, <1>2 DEF TreeAt

-----------------------------------------------------------------------------
(* The steps one by one.                                                   *)
\* At first there are no rows.
LEMMA InitPair == Init => PairInv
<1> SUFFICES ASSUME Init PROVE PairInv
  OBVIOUS
<1>1. PICK fr : fr = ParseCall(file.desc, file.assocRoot, 0)
  OBVIOUS
<1>2. stack = <<fr>> /\ Len(stack) = 1 /\ stack[1] = fr
  BY <1>1 DEF Init
<1>3. fr.pc = "enter" /\ fr.item = 0 /\ fr.at = 1 /\ fr.call = "parse"
  BY <1>1 DEF ParseCall
<1>4. PairOK(1)
  BY <1>2, <1>3 DEF PairOK
<1> QED BY <1>2, <1>4 DEF PairInv

\* The block of the message cannot be read.
LEMMA ParseFailsPair == ASSUME LifeInv, LifeInv', PairInv, ParseFails PROVE PairInv'
<1>1. trees' = FreeOwnTree /\ stack' = Front(stack) /\ file' = file /\ items' = items /\ stack # <<>>
  BY DEF ParseFails, At
<1>2. TreesStay
  BY <1>1, NoneMine, OwnTreeFreed
<1>3. Works
  BY <1>1, <1>2 DEF Works
<1> QED BY <1>1, <1>3, PairLeft

\* The item has been written.
LEMMA FreeItemPair == ASSUME LifeInv, LifeInv', PairInv, FreeItem PROVE PairInv'
<1>1. PICK copies, i : trees' = [a \in DOMAIN trees \ copies |-> trees[a]] /\ i = Top.item
                       /\ items' = [j \in DOMAIN items \ {i} |-> items[j]]
  BY DEF FreeItem, Without
<1>2. Works
  BY <1>1 DEF Works, TreesStay, FreeItem
<1> QED BY <1>2, PairLeft DEF FreeItem, At

\* The tree is built or borrowed.
LEMMA EnterPair == ASSUME LifeInv, LifeInv', PairInv, Enter PROVE PairInv'
<1>1. PICK S0 : /\ stack \in Seq(Frames(S0)) /\ stack # <<>>
               /\ Len(stack) \in Nat \ {0} /\ Len(stack) \in 1 .. Len(stack)
               /\ Top = stack[Len(stack)] /\ Top \in Frames(S0) /\ Top.call = "parse" /\ Top.pc = "enter"
               /\ FrameOK(Len(stack)) /\ ItemOK(Len(stack))
  BY AtTop DEF Enter
<1>2. PICK n, t : n \in Nat /\ n = Len(stack) /\ t = Top
  BY <1>1
<1>3. t.item = 0 /\ t.at = 1 /\ t.call = "parse" /\ t \in Frames(S0)
  BY <1>1, <1>2 DEF FrameOK
<1>4. PICK tree : tree = IF t.assoc # 0 THEN BuildId2(t.assoc) ELSE TreeAt(t.master)
  OBVIOUS
<1>5. \E m, x \in Nat : /\ stack' = Replace([t EXCEPT !.pc = "message", !.seen = tree, !.master = m, !.head = x])
                        /\ TreeAt(x)' = tree /\ TreesStay
  <2>1. CASE t.assoc # 0
    <3>1. trees' = Stored(tree)
          /\ stack' = Replace([t EXCEPT !.pc = "message", !.seen = tree, !.master = 0, !.head = NewTree(tree)])
      BY <1>2, <1>4, <2>1 DEF Enter
    <3>2. PICK x \in Nat : x = NewTree(tree) /\ TreeAt(x)' = tree /\ TreesStay
      BY <3>1, StoredParts
    <3> QED BY <3>1, <3>2
  <2>2. CASE t.assoc = 0
    <3>1. PICK m \in Nat : m = t.master
      BY <1>3 DEF Frames
    <3>2. trees' = trees /\ stack' = Replace([t EXCEPT !.pc = "message", !.seen = tree, !.master = @, !.head = m])
      BY <1>2, <1>4, <2>2, <3>1 DEF Enter
    <3>3. TreeAt(m)' = tree /\ TreesStay
      BY <1>4, <2>2, <3>1, <3>2 DEF TreeAt, TreesStay
    <3>4. [t EXCEPT !.pc = "message", !.seen = tree, !.master = @, !.head = m]
          = [t EXCEPT !.pc = "message", !.seen = tree, !.master = m, !.head = m]
      BY <3>1
    <3> QED BY <3>2, <3>3, <3>4
  <2> QED BY <2>1, <2>2
<1>6. PICK m \in Nat, x \in Nat :
        /\ stack' = Replace([t EXCEPT !.pc = "message", !.seen = tree, !.master = m, !.head = x])
        /\ TreeAt(x)' = tree /\ TreesStay
  BY <1>5
<1>7. PICK S, fr : S = S0 \cup {tree}
                   /\ fr = [t EXCEPT !.pc = "message", !.seen = tree, !.master = m, !.head = x]
  OBVIOUS
<1>8. stack \in Seq(Frames(S))
  BY <1>1, <1>7, WiderFrames
<1>9. /\ fr \in Frames(S) /\ fr.call = "parse" /\ fr.pc = "message" /\ fr.head = x
      /\ fr.item = 0 /\ fr.at = 1 /\ fr.seen = tree
  <2>1. /\ t \in [call : {"parse", "write"}, pc : Pcs, desc : Int, assoc : Int, master : Nat, head : Nat,
                 item : Nat, at : Int, seen : S]
        /\ tree \in S /\ "message" \in Pcs
    BY <1>3, <1>7 DEF Frames, Pcs
  <2> QED BY <1>3, <1>7, <2>1 DEF Frames
<1>10. stack' = Replace(fr)
  BY <1>6, <1>7
<1>11. stack'[n] = fr
  BY <1>1, <1>2, <1>8, <1>9, <1>10, ReplaceParts
<1>12. PairOK(n)'
  BY <1>6, <1>9, <1>11 DEF PairOK, TreeAt
<1>13. Works
  BY <1>6 DEF Works, Enter
<1> QED BY <1>1, <1>2, <1>8, <1>9, <1>10, <1>12, <1>13, PairStep

\* The item of the message has no attachments yet.
LEMMA ParseMessagePair == ASSUME LifeInv, LifeInv', PairInv, ParseMessage PROVE PairInv'
<1>1. PICK S : /\ stack \in Seq(Frames(S)) /\ stack # <<>>
               /\ Len(stack) \in Nat \ {0} /\ Len(stack) \in 1 .. Len(stack)
               /\ Top = stack[Len(stack)] /\ Top \in Frames(S) /\ Top.call = "parse" /\ Top.pc = "message"
               /\ FrameOK(Len(stack)) /\ ItemOK(Len(stack))
  BY AtTop DEF ParseMessage
<1>2. PICK n, t : n \in Nat /\ n = Len(stack) /\ t \in Frames(S) /\ t = Top
  BY <1>1
<1>3. t.item = 0 /\ t.at = 1 /\ t.call = "parse" /\ t.pc = "message" /\ t.desc \in Int
  BY <1>1, <1>2 DEF FrameOK, Frames
<1>4. PICK rows : rows = ParseBlock(t.desc, TreeAt(t.head)) /\ rows \in Seq(Seq(Element))
  BY <1>2, BlockParsed DEF ParseMessage
<1>5. PICK item : item = Process(t.desc, rows, NewItem, 0)
  OBVIOUS
<1>6. Len(item.attach) = 0
  <2>1. NewItem \in Item /\ Len(NewItem.attach) = 0
    BY DEF NewItem, Item, ItemTypes
  <2>2. Keeps(NewItem, item)
    BY <1>3, <1>4, <1>5, <2>1, ListProcessed
  <2> QED BY <2>1, <2>2 DEF Keeps
<1>7. PICK w, i : w = With(items, item) /\ i = Fresh(items)
  OBVIOUS
<1>8. file' = file /\ trees' = trees /\ items' = w
      /\ stack' = Replace([t EXCEPT !.pc = "reports", !.item = i])
  BY <1>2, <1>4, <1>5, <1>7 DEF ParseMessage
<1>9. i \in Nat \ {0} /\ DOMAIN w = DOMAIN items \cup {i} /\ w[i] = item /\ \A a \in DOMAIN items : w[a] = items[a]
  <2>1. IsFiniteSet(DOMAIN items) /\ DOMAIN items \subseteq Nat \ {0}
    BY DEF LifeInv, Heap
  <2>2. Grown(With(items, item), items, item, Fresh(items))
    BY <2>1, WithParts
  <2> QED BY <1>7, <2>2 DEF Grown
<1>10. PICK fr : fr = [t EXCEPT !.pc = "reports", !.item = i]
  OBVIOUS
<1>11. /\ fr \in Frames(S) /\ fr.call = "parse" /\ fr.pc = "reports" /\ fr.head = t.head /\ fr.seen = t.seen
       /\ fr.item = i /\ fr.at = 1
  <2>1. "reports" \in Pcs /\ i \in Nat
    BY <1>9 DEF Pcs
  <2> QED BY <1>2, <1>3, <1>10, <2>1 DEF Frames
<1>12. stack' = Replace(fr) /\ items' = w
  BY <1>8, <1>10
<1>13. stack'[n] = fr
  BY <1>1, <1>2, <1>11, <1>12, ReplaceParts
<1>14. TreeAt(stack[n].head)' = stack'[n].seen
  BY <1>1, <1>2, <1>3, <1>8, <1>11, <1>13, SearchedStays
<1>15. PairOK(n)'
  BY <1>6, <1>9, <1>11, <1>12, <1>13, <1>14 DEF PairOK, Stage, TreeAt
<1>16. Works
  BY <1>8, <1>9 DEF Works, TreesStay
<1> QED BY <1>1, <1>2, <1>11, <1>12, <1>15, <1>16, PairStep

\* Rows that are added come in front and get an attachment each.
LEMMA RowsPaired ==
  ASSUME LifeInv, NEW item \in Item, NEW node, node.id \in Nat, Readable(node.id),
         NEW rows, rows = ParseBlock(node.id, node.child), NEW old \in Seq(Seq(Element)), ByRows(old, item.attach)
  PROVE  ByRows(rows \o old, WithRows(item, node).attach)
<1> DEFINE front == [r \in DOMAIN rows |-> NewAttach]
           mid == Attached(item, rows)
<1>1. rows \in Seq(Seq(Element)) /\ node.id \in Int
  BY BlockParsed
<1>2. WithRows(item, node) = Process(node.id, rows, mid, 1)
  BY DEF WithRows
<1>3. mid = [item EXCEPT !.attach = front \o item.attach]
  BY DEF Attached
<1>4. NewAttach \in Attachment
  BY DEF NewAttach, Attachment
<1> HIDE DEF mid
<1>5. PICK n \in Nat : DOMAIN rows = 1 .. n /\ n = Len(rows)
  BY <1>1
<1>6. front \in Seq(Attachment) /\ Len(front) = n /\ \A k \in 1 .. n : front[k] = NewAttach
  BY <1>4, <1>5
<1> HIDE DEF front
<1>7. item.attach \in Seq(Attachment) /\ Len(item.attach) = Len(old) /\ Len(old) \in Nat
  BY DEF Item, ByRows
<1>8. PICK s : s = front \o item.attach
  OBVIOUS
<1>9. /\ s \in Seq(Attachment) /\ Len(s) = n + Len(old)
      /\ \A k \in 1 .. n + Len(old) : s[k] = IF k <= n THEN front[k] ELSE item.attach[k - n]
  <2>1. /\ s \in Seq(Attachment) /\ Len(s) = Len(front) + Len(item.attach)
        /\ \A k \in 1 .. Len(front) + Len(item.attach) :
             s[k] = IF k <= Len(front) THEN front[k] ELSE item.attach[k - Len(front)]
    BY <1>6, <1>7, <1>8, ConcatProperties
  <2>2. Len(front) = n /\ Len(item.attach) = Len(old)
    BY <1>6, <1>7
  <2> QED BY <2>1, <2>2
<1>10. mid \in Item /\ mid.attach = s
  BY <1>3, <1>8, <1>9 DEF Item
<1>11. PICK new : new = Process(node.id, rows, mid, 1)
  OBVIOUS
<1>12. Len(new.attach) = n + Len(old)
  <2>1. Keeps(mid, new)
    BY <1>1, <1>10, <1>11, ListProcessed
  <2> QED BY <1>9, <1>10, <2>1 DEF Keeps
<1>13. PICK all : all = rows \o old
  OBVIOUS
<1>14. /\ Len(all) = n + Len(old)
       /\ \A k \in 1 .. n + Len(old) : all[k] = IF k <= n THEN rows[k] ELSE old[k - n]
  BY <1>1, <1>5, <1>13, ConcatProperties
<1>15. ASSUME NEW r \in 1 .. n + Len(old) PROVE new.attach[r] = ByRow(all[r])
  <2>1. new.attach[r] = IF 1 <= r /\ r < 1 + n THEN Alone(s[r], rows[r - 1 + 1]) ELSE s[r]
    <3>1. r \in 1 .. Len(mid.attach) /\ 1 \in Nat \ {0} /\ mid.attach[r] = s[r]
      BY <1>9, <1>10
    <3>2. Process(node.id, rows, mid, 1).attach[r] =
            IF 1 <= r /\ r < 1 + Len(rows) THEN Alone(mid.attach[r], rows[r - 1 + 1]) ELSE mid.attach[r]
      <4>0. PICK m \in Item : m = mid
        BY <1>10
      <4>a. PICK one \in Nat \ {0} : one = 1
        BY <3>1
      <4>b. PICK b \in Int : b = node.id
        BY <1>1
      <4>c. PICK R \in Seq(Seq(Element)) : R = rows
        BY <1>1
      <4>d. PICK j \in 1 .. Len(m.attach) : j = r
        BY <3>1, <4>0
      <4>2. Process(b, R, m, one).attach[j] =
              IF one <= j /\ j < one + Len(R) THEN Alone(m.attach[j], R[j - one + 1]) ELSE m.attach[j]
        BY ListPlace
      <4> QED BY <4>0, <4>a, <4>b, <4>c, <4>d, <4>2
    <3> QED BY <1>5, <1>11, <3>1, <3>2
  <2>2. CASE r <= n
    <3>1. s[r] = NewAttach /\ all[r] = rows[r] /\ r - 1 + 1 = r /\ 1 <= r /\ r < 1 + n
      BY <1>5, <1>6, <1>7, <1>9, <1>14, <2>2
    <3> QED BY <2>1, <3>1 DEF ByRow
  <2>3. CASE ~ (r <= n)
    <3>0. \A l \in Nat : r \in 1 .. n + l => r - n \in 1 .. l
      BY <2>3
    <3>1. PICK q \in 1 .. Len(old) : q = r - n
      BY <1>7, <3>0
    <3>2. item.attach[q] = ByRow(old[q])
      BY DEF ByRows
    <3>3. s[r] = item.attach[q] /\ all[r] = old[q] /\ ~ (r < 1 + n)
      BY <1>5, <1>7, <1>9, <1>14, <2>3, <3>1
    <3> QED BY <2>1, <3>2, <3>3
  <2> QED BY <2>2, <2>3
<1> QED BY <1>2, <1>11, <1>12, <1>13, <1>14, <1>15 DEF ByRows

\* A call that reads rows.
LEMMA RowsPair ==
  ASSUME LifeInv, LifeInv', PairInv, NEW pc, At("parse", pc), pc \in {"reports", "table"},
         NEW id2, NEW next, next \in {"table", "attach", "leave"},
         UNCHANGED <<file, trees, leaked>>, stack' = Replace([Top EXCEPT !.pc = next]),
         IF TableReadable(id2)
         THEN items' = [items EXCEPT ![Top.item] = WithRows(@, GetId2(TreeAt(Top.head), id2))]
         ELSE items' = items,
         NEW old \in Seq(Seq(Element)), ByRows(old, items[Top.item].attach),
         \A att, fr : /\ att \in Seq(Attachment) /\ ByRows(RowsOf(Top.seen, id2) \o old, att)
                      /\ fr.call = "parse" /\ fr.pc = next /\ fr.seen = Top.seen /\ fr.at = 1
                      => Stage(fr, att)
  PROVE  PairInv'
<1>1. PICK S : /\ stack \in Seq(Frames(S)) /\ stack # <<>>
               /\ Len(stack) \in Nat \ {0} /\ Len(stack) \in 1 .. Len(stack)
               /\ Top = stack[Len(stack)] /\ Top \in Frames(S) /\ Top.call = "parse" /\ Top.pc = pc
               /\ FrameOK(Len(stack)) /\ ItemOK(Len(stack))
  BY AtTop
<1>2. PICK n, i, t : n \in Nat /\ n = Len(stack) /\ i = Top.item /\ t \in Frames(S) /\ t = Top
  BY <1>1
<1>3. i # 0 /\ i \in DOMAIN items /\ items[i] \in Item /\ t.at = 1 /\ t.call = "parse" /\ t.pc # "enter"
  BY <1>1, <1>2 DEF FrameOK, LifeInv, Heap
<1>4. PICK fr : fr = [t EXCEPT !.pc = next]
  OBVIOUS
<1>5. /\ fr \in Frames(S) /\ fr.call = "parse" /\ fr.pc = next /\ fr.head = t.head /\ fr.item = i /\ fr.at = 1
      /\ fr.seen = t.seen
  BY <1>1, <1>2, <1>3, <1>4 DEF Frames, Pcs
<1>6. stack' = Replace(fr)
  BY <1>2, <1>4
<1>7. stack'[n] = fr
  BY <1>1, <1>2, <1>5, <1>6, ReplaceParts
<1>8. TreeAt(stack[n].head)' = stack'[n].seen
  BY <1>1, <1>2, <1>3, <1>5, <1>7, SearchedStays
<1>9. PICK tree : tree = TreeAt(t.head) /\ tree = t.seen
  BY <1>1, <1>2, <1>3 DEF PairInv, PairOK
<1>10. \E new \in Item : items' = [items EXCEPT ![i] = new] /\ ByRows(RowsOf(tree, id2) \o old, new.attach)
  <2>1. CASE TableReadable(id2)
    <3>1. PICK node : node = GetId2(tree, id2)
      OBVIOUS
    <3>2. Height(n) \in Nat /\ High(tree, Height(n)) /\ HasId2(tree, id2) /\ Readable(node.id)
      BY <1>1, <1>2, <1>9, <2>1, <3>1 DEF FrameOK, Reaches, TableReadable
    <3>3. node.id \in Nat
      BY <3>1, <3>2, FoundNode
    <3>4. PICK new, rows : new = WithRows(items[i], node) /\ rows = ParseBlock(node.id, node.child)
      OBVIOUS
    <3>5. items' = [items EXCEPT ![i] = new]
      BY <1>2, <1>9, <2>1, <3>1, <3>4
    <3>6. RowsOf(tree, id2) = rows
      BY <3>1, <3>2, <3>4 DEF RowsOf, HasRows
    <3>7. ByRows(rows \o old, new.attach)
      BY <1>2, <1>3, <3>2, <3>3, <3>4, RowsPaired
    <3>8. new \in Item
      <4>1. NoCopies(items[i])
        <5>1. \A k \in 1 .. Len(items[i].attach) : k >= t.at
          BY <1>3
        <5>2. stack[n].item = i /\ stack[n].call = "parse" /\ stack[n].pc # "leave" /\ stack[n].at = t.at /\ ItemOK(n)
          BY <1>1, <1>2
        <5> QED BY <1>3, <5>1, <5>2 DEF ItemOK, NoCopies
      <4> QED BY <1>3, <3>2, <3>3, <3>4, <4>1, RowsAdded
    <3> QED BY <3>5, <3>6, <3>7, <3>8
  <2>2. CASE ~ TableReadable(id2)
    <3>1. items' = [items EXCEPT ![i] = items[i]]
      BY <1>3, <2>2 DEF LifeInv, Heap
    <3>2. RowsOf(tree, id2) = <<>>
      BY <1>2, <1>9, <2>2 DEF RowsOf, HasRows, TableReadable
    <3>3. PICK rows : rows = RowsOf(tree, id2) \o old
      OBVIOUS
    <3>4. rows = old
      BY <3>2, <3>3
    <3> QED BY <1>2, <1>3, <3>1, <3>3, <3>4
  <2> QED BY <2>1, <2>2
<1>11. PICK new \in Item : items' = [items EXCEPT ![i] = new] /\ ByRows(RowsOf(tree, id2) \o old, new.attach)
  BY <1>10
<1>12. items'[i] = new /\ DOMAIN items' = DOMAIN items
  BY <1>3, <1>11
<1>13. PICK att : att = new.attach /\ att \in Seq(Attachment)
  BY DEF Item
<1>14. Stage(fr, att)
  BY <1>2, <1>5, <1>9, <1>11, <1>13
<1>15. Stage(fr, att)'
  <2>1. \A h : TreeAt(h)' = TreeAt(h)
    BY DEF TreeAt
  <2> QED BY <1>14, <2>1, StageKept
<1>16. PairOK(n)'
  <2>1. stack'[n].at = 1 /\ stack'[n].item = i /\ items'[i].attach = att
    BY <1>5, <1>7, <1>12, <1>13
  <2>2. Stage(stack[n], items[stack[n].item].attach)'
    BY <1>7, <1>15, <2>1 DEF Stage
  <2> QED BY <1>8, <2>1, <2>2 DEF PairOK
<1>17. Works
  BY <1>2, <1>11 DEF Works, TreesStay
<1> QED BY <1>1, <1>2, <1>5, <1>6, <1>16, <1>17, PairStep

\* What is known of the innermost call while it reads rows.
LEMMA RowsSoFar ==
  ASSUME LifeInv, PairInv, NEW pc, At("parse", pc), pc \in {"reports", "table"}
  PROVE  /\ Top.seen = TreeAt(Top.head)
         /\ pc = "reports" => ByRows(<<>>, items[Top.item].attach)
         /\ pc = "table" => ByRows(Reports(Top.seen), items[Top.item].attach)
<1>1. PICK S : /\ stack \in Seq(Frames(S)) /\ stack # <<>>
               /\ Len(stack) \in Nat \ {0} /\ Len(stack) \in 1 .. Len(stack)
               /\ Top = stack[Len(stack)] /\ Top \in Frames(S) /\ Top.call = "parse" /\ Top.pc = pc
               /\ FrameOK(Len(stack)) /\ ItemOK(Len(stack))
  BY AtTop
<1>2. Top.item # 0
  BY <1>1 DEF FrameOK
<1>3. PairOK(Len(stack))
  BY <1>1 DEF PairInv
<1>4. Stage(Top, items[Top.item].attach) /\ Top.seen = TreeAt(Top.head)
  BY <1>1, <1>2, <1>3 DEF PairOK
<1> QED BY <1>1, <1>4 DEF Stage, ByRows

\* The delivery reports.
LEMMA ParseReportsPair == ASSUME LifeInv, LifeInv', PairInv, ParseReports PROVE PairInv'
<1>1. /\ At("parse", "reports") /\ UNCHANGED <<file, trees, leaked>> /\ stack' = Replace([Top EXCEPT !.pc = "table"])
      /\ IF TableReadable(ReportsId)
         THEN items' = [items EXCEPT ![Top.item] = WithRows(@, GetId2(TreeAt(Top.head), ReportsId))]
         ELSE items' = items
  BY DEF ParseReports
<1>1a. \A E : <<>> \in Seq(E)
  OBVIOUS
<1>2. PICK old : old = <<>>
  OBVIOUS
<1>2a. old \in Seq(Seq(Element))
  <2> HIDE DEF Element
  <2> QED BY <1>1a, <1>2
<1>3. ByRows(old, items[Top.item].attach)
  BY <1>1, <1>2, RowsSoFar
<1>4. PICK rows \in Seq(Seq(Element)) : rows = RowsOf(Top.seen, ReportsId)
  <2>1. PICK tree : tree = Top.seen
    OBVIOUS
  <2> QED BY <2>1, RowsType
<1>5. rows \o old = rows
  BY <1>2
<1>6. \A att, fr : /\ att \in Seq(Attachment) /\ ByRows(RowsOf(Top.seen, ReportsId) \o old, att)
                   /\ fr.call = "parse" /\ fr.pc = "table" /\ fr.seen = Top.seen /\ fr.at = 1
                   => Stage(fr, att)
  BY <1>4, <1>5 DEF Stage, Reports
<1> QED BY <1>1, <1>2a, <1>3, <1>6, RowsPair

\* The attachment table, or the end without one.
LEMMA ParseTablePair == ASSUME LifeInv, LifeInv', PairInv, ParseTable PROVE PairInv'
<1>1. PICK next \in {"attach", "leave"} :
        /\ next = IF TableReadable(TableId) THEN "attach" ELSE "leave"
        /\ At("parse", "table") /\ UNCHANGED <<file, trees, leaked>> /\ stack' = Replace([Top EXCEPT !.pc = next])
        /\ IF TableReadable(TableId)
           THEN items' = [items EXCEPT ![Top.item] = WithRows(@, GetId2(TreeAt(Top.head), TableId))]
           ELSE items' = items
  BY DEF ParseTable
<1>2. PICK tree : tree = Top.seen
  OBVIOUS
<1>3. PICK old, rows \in Seq(Seq(Element)) : old = Reports(tree) /\ rows = RowsOf(tree, TableId)
  BY RowsType DEF Reports
<1>4. tree = TreeAt(Top.head) /\ ByRows(old, items[Top.item].attach)
  BY <1>1, <1>2, <1>3, RowsSoFar
<1>5. HasRows(tree, TableId) <=> next = "attach"
  BY <1>1, <1>4 DEF HasRows, TableReadable
<1>6. ASSUME NEW att \in Seq(Attachment), NEW fr, ByRows(rows \o old, att),
             fr.call = "parse", fr.pc = next, fr.seen = tree, fr.at = 1
      PROVE  Stage(fr, att)
  <2>1. AllRows(tree) = rows \o old
    BY <1>3 DEF AllRows
  <2>2. PICK all : all = rows \o old
    OBVIOUS
  <2>3. Len(att) = Len(all) /\ \A r \in 1 .. Len(all) : att[r] = ByRow(all[r])
    BY <1>6, <2>2 DEF ByRows
  <2>4. CASE next = "attach"
    <3>1. \A r \in 1 .. Len(all) : ~ (r < 1)
      OBVIOUS
    <3>2. ByRecords(tree, all, att, 1)
      BY <2>3, <3>1 DEF ByRecords
    <3> QED BY <1>5, <1>6, <2>1, <2>2, <2>4, <3>2 DEF Stage
  <2>5. CASE next = "leave"
    <3>1. \A r \in 1 .. Len(all) : Resolved(tree, all[r], att[r])
      BY <1>5, <2>3, <2>5 DEF Resolved
    <3>2. ByRecords(tree, all, att, Len(att) + 1)
      BY <2>3, <3>1 DEF ByRecords
    <3> QED BY <1>6, <2>1, <2>2, <2>5, <3>2 DEF Stage
  <2> QED BY <2>4, <2>5
<1>7. \A att, fr : /\ att \in Seq(Attachment) /\ ByRows(RowsOf(Top.seen, TableId) \o old, att)
                   /\ fr.call = "parse" /\ fr.pc = next /\ fr.seen = Top.seen /\ fr.at = 1
                   => Stage(fr, att)
  BY <1>2, <1>3, <1>6
<1> QED BY <1>1, <1>3, <1>4, <1>7, RowsPair

\* A call whose item stays and which gets no further with its rows.
LEMMA SameItemPair ==
  ASSUME LifeInv, LifeInv', PairInv, file' = file, TreesStay, items' = items,
         NEW S, stack \in Seq(Frames(S)), stack # <<>>, NEW n, n = Len(stack), NEW fr \in Frames(S),
         stack'[n] = fr, fr.item = Top.item, fr.item # 0,
         fr.call = "parse" => TreeAt(stack[n].head)' = fr.seen /\ fr.at >= 1,
         Stage(fr, items[Top.item].attach)
  PROVE  PairOK(n)'
<1>1. n \in 1 .. Len(stack) /\ Top = stack[n]
  BY TopParts
<1>2. PICK i, attach : i = Top.item /\ attach = items[i].attach
  OBVIOUS
<1>3. i \in DOMAIN items
  BY <1>1, <1>2 DEF LifeInv, FrameOK
<1>4. ASSUME NEW k \in 1 .. Len(attach) PROVE \E h : h = attach[k].id2_head /\ TreeAt(h)' = TreeAt(h)
  <2>1. items'[i].attach[k].id2_head = attach[k].id2_head /\ Len(items'[i].attach) = Len(attach)
    BY <1>2
  <2> QED BY <1>2, <1>3, <2>1, CopiesStay
<1>5. Stage(fr, attach)'
  BY <1>2, <1>4, StageKept
<1>6. stack'[n].item = i /\ items'[i].attach = attach
  BY <1>2
<1>7. Stage(stack[n], items[stack[n].item].attach)'
  BY <1>5, <1>6 DEF Stage
<1> QED BY <1>6, <1>7 DEF PairOK

\* The last attachment is done.
LEMMA AttachDonePair == ASSUME LifeInv, LifeInv', PairInv, AttachDone PROVE PairInv'
<1>1. PICK S : /\ stack \in Seq(Frames(S)) /\ stack # <<>>
               /\ Len(stack) \in Nat \ {0} /\ Len(stack) \in 1 .. Len(stack)
               /\ Top = stack[Len(stack)] /\ Top \in Frames(S) /\ Top.call = "parse" /\ Top.pc = "attach"
               /\ FrameOK(Len(stack)) /\ ItemOK(Len(stack))
  BY AtTop DEF AttachDone
<1>2. PICK n, i, t : n \in Nat /\ n = Len(stack) /\ i = Top.item /\ t \in Frames(S) /\ t = Top
  BY <1>1
<1>3. i # 0 /\ i \in DOMAIN items /\ items[i] \in Item
  BY <1>1, <1>2 DEF FrameOK, LifeInv, Heap
<1>4. PICK fr : fr = [t EXCEPT !.pc = "leave"]
  OBVIOUS
<1>5. /\ fr \in Frames(S) /\ fr.call = "parse" /\ fr.pc = "leave" /\ fr.head = t.head /\ fr.at = t.at
      /\ fr.item = i /\ fr.seen = t.seen
  BY <1>1, <1>2, <1>4 DEF Frames, Pcs
<1>6. stack' = Replace(fr) /\ file' = file /\ trees' = trees /\ items' = items
  BY <1>2, <1>4 DEF AttachDone
<1>7. stack'[n] = fr
  BY <1>1, <1>2, <1>5, <1>6, ReplaceParts
<1>8. TreeAt(stack[n].head)' = stack'[n].seen /\ t.at >= 1
  BY <1>1, <1>2, <1>5, <1>6, <1>7, SearchedStays
<1>9. PICK attach \in Seq(Attachment) : attach = items[i].attach
  BY <1>3 DEF Item
<1>10. Stage(t, attach)
  BY <1>1, <1>2, <1>3, <1>9 DEF PairInv, PairOK
<1>11. PICK tree, rows : tree = t.seen /\ rows = AllRows(tree)
  OBVIOUS
<1>12. ByRecords(tree, rows, attach, t.at)
  BY <1>1, <1>2, <1>10, <1>11 DEF Stage
<1>13. t.at \in Int /\ t.at \notin 1 .. Len(attach) /\ Len(attach) \in Nat
  BY <1>2, <1>9 DEF Frames, AttachDone
<1>14. ByRecords(tree, rows, attach, Len(attach) + 1)
  <2>1. \A r \in 1 .. Len(rows) : r < t.at /\ r < Len(attach) + 1
    BY <1>8, <1>12, <1>13 DEF ByRecords
  <2> QED BY <1>12, <2>1 DEF ByRecords
<1>15. Stage(fr, attach)
  BY <1>5, <1>11, <1>14 DEF Stage
<1>16. TreesStay /\ Works
  BY <1>6 DEF TreesStay, Works
<1>17. PairOK(n)'
  <2>1. fr.item = Top.item /\ fr.item # 0 /\ Stage(fr, items[Top.item].attach)
    BY <1>2, <1>3, <1>5, <1>9, <1>15
  <2>2. TreeAt(stack[n].head)' = fr.seen /\ fr.at >= 1
    BY <1>5, <1>7, <1>8
  <2> QED BY <1>1, <1>2, <1>5, <1>6, <1>7, <1>16, <2>1, <2>2, SameItemPair
<1> QED BY <1>1, <1>2, <1>5, <1>6, <1>16, <1>17, PairStep

\* The call hands its item on.
LEMMA LeavePair == ASSUME LifeInv, LifeInv', PairInv, Leave PROVE PairInv'
<1>1. PICK S : /\ stack \in Seq(Frames(S)) /\ stack # <<>>
               /\ Len(stack) \in Nat \ {0} /\ Len(stack) \in 1 .. Len(stack)
               /\ Top = stack[Len(stack)] /\ Top \in Frames(S) /\ Top.call = "parse" /\ Top.pc = "leave"
               /\ FrameOK(Len(stack)) /\ ItemOK(Len(stack))
  BY AtTop DEF Leave
<1>2. PICK n, t : n \in Nat /\ n = Len(stack) /\ t \in Frames(S) /\ t = Top
  BY <1>1
<1>3. PICK fr : fr = WriteCall(t)
  OBVIOUS
<1>4. trees' = FreeOwnTree /\ stack' = Replace(fr) /\ file' = file /\ items' = items
  BY <1>2, <1>3 DEF Leave
<1>5. /\ fr \in Frames(S) /\ fr.call = "write" /\ fr.pc = "write" /\ fr.head = 0 /\ fr.item = t.item
      /\ fr.seen = t.seen
  <2>1. fr = [call |-> "write", pc |-> "write", desc |-> t.desc, assoc |-> t.assoc, master |-> 0, head |-> 0,
              item |-> t.item, at |-> 1, seen |-> t.seen]
    BY <1>2, <1>3 DEF WriteCall, Frames
  <2>2. "write" \in Pcs
    BY DEF Pcs
  <2> QED BY <1>2, <2>1, <2>2 DEF Frames
<1>6. Len(stack') = n /\ stack'[n] = fr /\ stack' # <<>>
  BY <1>1, <1>2, <1>4, <1>5, ReplaceParts
<1>7. TreesStay
  <2>1. \A a \in Nat : ~ Mine(a)'
    BY <1>5, <1>6 DEF Mine, Top
  <2> QED BY <1>1, <1>4, <2>1, OwnTreeFreed
<1>8. Works
  BY <1>4, <1>7 DEF Works
<1>9. t.item # 0
  BY <1>1, <1>2 DEF FrameOK
<1>10. PICK attach : attach = items[t.item].attach
  OBVIOUS
<1>11. Stage(t, attach)
  BY <1>1, <1>2, <1>9, <1>10 DEF PairInv, PairOK
<1>12. Stage(fr, attach)
  BY <1>1, <1>2, <1>5, <1>11 DEF Stage
<1>13. PairOK(n)'
  <2>1. fr.item = Top.item /\ fr.item # 0 /\ Stage(fr, items[Top.item].attach) /\ fr.call # "parse"
    BY <1>2, <1>5, <1>9, <1>10, <1>12
  <2> QED BY <1>1, <1>2, <1>4, <1>5, <1>6, <1>7, <2>1, SameItemPair
<1> QED BY <1>1, <1>2, <1>4, <1>5, <1>8, <1>13, PairStep

\* What is known of the innermost call while it writes.
Onward(fr) == [fr EXCEPT !.at = @ + 1]

\* The item of a call stays paired while the call writes it.
LEMMA WriteParts ==
  ASSUME LifeInv, PairInv, At("write", "write"), NEW t, t = Top, NEW fr, fr = Onward(t)
  PROVE  /\ \A S : t \in Frames(S) => fr \in Frames(S)
         /\ fr.call = "write" /\ fr.item = t.item /\ t.item # 0 /\ Stage(fr, items[t.item].attach)
<1>1. PICK S : /\ stack \in Seq(Frames(S)) /\ stack # <<>>
               /\ Len(stack) \in Nat \ {0} /\ Len(stack) \in 1 .. Len(stack)
               /\ Top = stack[Len(stack)] /\ Top \in Frames(S) /\ Top.call = "write" /\ Top.pc = "write"
               /\ FrameOK(Len(stack)) /\ ItemOK(Len(stack))
  BY AtTop
<1>2. t \in Frames(S) /\ t.call = "write" /\ t.item # 0
  BY <1>1 DEF FrameOK
<1>3. \A R : t \in Frames(R) => fr \in Frames(R)
  BY DEF Frames, Onward
<1>4. fr.call = "write" /\ fr.item = t.item /\ fr.seen = t.seen
  BY <1>2 DEF Frames, Onward
<1>5. Stage(t, items[t.item].attach)
  BY <1>1, <1>2 DEF PairInv, PairOK
<1>6. Stage(fr, items[t.item].attach)
  BY <1>2, <1>4, <1>5 DEF Stage
<1> QED BY <1>2, <1>3, <1>4, <1>6

\* An attachment that is not an embedded message.
LEMMA WriteOtherPair == ASSUME LifeInv, LifeInv', PairInv, WriteOther PROVE PairInv'
<1>1. PICK S : /\ stack \in Seq(Frames(S)) /\ stack # <<>>
               /\ Len(stack) \in Nat \ {0} /\ Len(stack) \in 1 .. Len(stack)
               /\ Top = stack[Len(stack)] /\ Top \in Frames(S) /\ Top.call = "write" /\ Top.pc = "write"
               /\ FrameOK(Len(stack)) /\ ItemOK(Len(stack))
  BY AtTop DEF WriteOther, AttachLeft
<1>2. PICK n, t : n \in Nat /\ n = Len(stack) /\ t \in Frames(S) /\ t = Top
  BY <1>1
<1>3. PICK fr : fr = Onward(t)
  OBVIOUS
<1>4. fr \in Frames(S) /\ fr.call = "write" /\ fr.item = t.item /\ t.item # 0 /\ Stage(fr, items[t.item].attach)
  <2>1. At("write", "write")
    BY DEF WriteOther, AttachLeft
  <2>2. (\A R : t \in Frames(R) => fr \in Frames(R))
        /\ fr.call = "write" /\ fr.item = t.item /\ t.item # 0 /\ Stage(fr, items[t.item].attach)
    BY <1>2, <1>3, <2>1, WriteParts
  <2> QED BY <1>2, <2>2
<1>5. stack' = Replace(fr) /\ file' = file /\ trees' = trees /\ items' = items
  BY <1>2, <1>3 DEF WriteOther, Onward
<1>6. stack'[n] = fr
  BY <1>1, <1>2, <1>4, <1>5, ReplaceParts
<1>7. TreesStay /\ Works
  BY <1>5 DEF TreesStay, Works
<1>8. PairOK(n)'
  <2>1. fr.item = Top.item /\ fr.item # 0 /\ Stage(fr, items[Top.item].attach) /\ fr.call # "parse"
    BY <1>2, <1>4
  <2> QED BY <1>1, <1>2, <1>4, <1>5, <1>6, <1>7, <2>1, SameItemPair
<1> QED BY <1>1, <1>2, <1>4, <1>5, <1>7, <1>8, PairStep

\* The call for an embedded message is new.
LEMMA WriteEmbeddedPair == ASSUME LifeInv, LifeInv', PairInv, WriteEmbedded PROVE PairInv'
<1>1. PICK S0 : /\ stack \in Seq(Frames(S0)) /\ stack # <<>>
               /\ Len(stack) \in Nat \ {0} /\ Len(stack) \in 1 .. Len(stack)
               /\ Top = stack[Len(stack)] /\ Top \in Frames(S0) /\ Top.call = "write" /\ Top.pc = "write"
               /\ FrameOK(Len(stack)) /\ ItemOK(Len(stack))
  BY AtTop DEF WriteEmbedded, AttachLeft
<1>2. PICK n, t, S : n \in Nat /\ n = Len(stack) /\ t = Top /\ S = S0
  BY <1>1
<1>3. PICK fr : fr = Onward(t)
  OBVIOUS
<1>4. fr \in Frames(S) /\ fr.call = "write" /\ fr.item = t.item /\ t.item # 0 /\ Stage(fr, items[t.item].attach)
  <2>1. At("write", "write")
    BY DEF WriteEmbedded, AttachLeft
  <2>2. (\A R : t \in Frames(R) => fr \in Frames(R))
        /\ fr.call = "write" /\ fr.item = t.item /\ t.item # 0 /\ Stage(fr, items[t.item].attach)
    BY <1>2, <1>3, <2>1, WriteParts
  <2> QED BY <1>1, <1>2, <2>2
<1>5. PICK a : a = items[Top.item].attach[Top.at]
  OBVIOUS
<1>6. PICK new : new = ParseCall(a.i_id, 0, a.id2_head)
  OBVIOUS
<1>7. stack' = Append(Replace(fr), new) /\ file' = file /\ trees' = trees /\ items' = items
  BY <1>2, <1>3, <1>5, <1>6 DEF WriteEmbedded, Onward
<1>8. /\ Replace(fr) \in Seq(Frames(S)) /\ Len(Replace(fr)) = n /\ Replace(fr)[n] = fr
      /\ \A s \in 1 .. n - 1 : Replace(fr)[s] = stack[s]
  BY <1>1, <1>2, <1>4, ReplaceParts
<1>9. Len(stack') = n + 1 /\ stack'[n + 1] = new /\ \A s \in 1 .. n : stack'[s] = Replace(fr)[s]
  <2>1. PICK R : R = Replace(fr)
    OBVIOUS
  <2>2. R \in Seq(Frames(S) \cup {new}) /\ new \in Frames(S) \cup {new} /\ Len(R) = n
    <3>1. Frames(S) \subseteq Frames(S) \cup {new}
      OBVIOUS
    <3>2. PICK F : F = Frames(S)
      OBVIOUS
    <3>3. \A G : F \subseteq G /\ R \in Seq(F) => R \in Seq(G)
      OBVIOUS
    <3> QED BY <1>8, <2>1, <3>1, <3>2, <3>3
  <2> QED BY <1>7, <2>1, <2>2, AppendProperties
<1>10. stack'[n] = fr
  BY <1>1, <1>2, <1>8, <1>9
<1>11. TreesStay /\ Works
  BY <1>7 DEF TreesStay, Works
<1>12. PairOK(n)'
  <2>1. fr.item = Top.item /\ fr.item # 0 /\ Stage(fr, items[Top.item].attach) /\ fr.call # "parse"
    BY <1>2, <1>4
  <2> QED BY <1>1, <1>2, <1>4, <1>7, <1>10, <1>11, <2>1, SameItemPair
<1>13. PairOK(n + 1)'
  <2>1. new.pc = "enter" /\ new.item = 0 /\ new.at = 1
    BY <1>6 DEF ParseCall
  <2> QED BY <1>9, <2>1 DEF PairOK
<1>14. ASSUME NEW s \in 1 .. n + 1, s # n, s # n + 1 PROVE PairOK(s)'
  <2>1. s \in 1 .. n - 1 /\ s \in 1 .. n
    BY <1>2, <1>14
  <2>2. stack'[s] = stack[s] /\ s \in 1 .. Len(stack')
    BY <1>8, <1>9, <2>1
  <2> QED BY <1>1, <1>2, <1>11, <1>14, <2>1, <2>2, LowerPairs
<1> QED BY <1>9, <1>12, <1>13, <1>14 DEF PairInv

-----------------------------------------------------------------------------
(* The second pass.                                                        *)
\* The record of attachment k is read: new are the attachments afterwards.
\* Those in front stay as they are, those behind unless the record has several
\* objects, and the attachment is what its row alone leads to.
Passed(tree, attach, k, new) ==
  /\ new \in Seq(Attachment) /\ Len(new) = Len(attach)
  /\ \A j \in 1 .. Len(attach) :
       j < k \/ (j > k /\ Len(RowsOf(tree, attach[k].id2_val)) <= 1) => new[j] = attach[j]
  /\ \A j \in 1 .. Len(attach) : j # k => new[j].id2_head = attach[j].id2_head
  /\ \A row \in Seq(Element) : attach[k] = ByRow(row) => Resolved(tree, row, new[k])'

\* So another attachment has been resolved.
LEMMA RecordRead ==
  ASSUME LifeInv, file' = file, NEW tree, NEW rows \in Seq(Seq(Element)), NEW attach \in Seq(Attachment),
         NEW k \in 1 .. Len(attach), ByRecords(tree, rows, attach, k),
         NEW new, Passed(tree, attach, k, new),
         \A j \in 1 .. Len(attach) : j # k => \E h : h = attach[j].id2_head /\ TreeAt(h)' = TreeAt(h)
  PROVE  ByRecords(tree, rows, new, k + 1)'
<1>1. Len(new) = Len(rows) /\ Len(attach) = Len(rows) /\ Len(rows) \in Nat
  BY DEF ByRecords, Passed
<1>2. \A row : OneObject(tree, row)' <=> OneObject(tree, row)
  BY RowsKept
<1>3. ASSUME NEW r \in 1 .. Len(rows), \A q \in 1 .. r - 1 : OneObject(tree, rows[q])
      PROVE  IF r < k + 1 THEN Resolved(tree, rows[r], new[r])' ELSE new[r] = ByRow(rows[r])
  <2>1. IF r < k THEN Resolved(tree, rows[r], attach[r]) ELSE attach[r] = ByRow(rows[r])
    BY <1>3 DEF ByRecords
  <2>2. k \in Nat /\ r \in Nat /\ rows[r] \in Seq(Element)
    BY <1>1
  <2>3. CASE r < k
    <3>1. r \in 1 .. Len(attach) /\ r # k
      BY <1>1, <2>2, <2>3
    <3>2. PICK row, a, h : row = rows[r] /\ a = attach[r] /\ h = a.id2_head /\ TreeAt(h)' = TreeAt(h)
      BY <3>1
    <3>3. Resolved(tree, row, a)'
      BY <2>1, <2>3, <3>2, ResolvedKept
    <3>4. new[r] = a
      BY <2>3, <3>1, <3>2 DEF Passed
    <3>5. Resolved(tree, rows[r], new[r])'
      BY <3>2, <3>3, <3>4
    <3> QED BY <2>2, <2>3, <3>5
  <2>4. CASE r = k
    <3>1. attach[k] = ByRow(rows[k]) /\ rows[k] \in Seq(Element)
      BY <2>1, <2>2, <2>4
    <3>2. Resolved(tree, rows[k], new[k])'
      BY <3>1 DEF Passed
    <3> QED BY <2>2, <2>4, <3>2
  <2>5. CASE r > k
    <3>1. k \in 1 .. r - 1 /\ k \in 1 .. Len(rows) /\ \A q \in 1 .. k - 1 : q \in 1 .. r - 1
      BY <1>1, <2>2, <2>5
    <3>2. attach[k] = ByRow(rows[k])
      BY <1>3, <2>2, <3>1 DEF ByRecords
    <3>3. Len(RowsOf(tree, attach[k].id2_val)) <= 1
      BY <1>3, <3>1, <3>2 DEF OneObject
    <3>4. new[r] = attach[r]
      BY <1>1, <2>5, <3>3 DEF Passed
    <3>5. ~ (r < k) /\ ~ (r < k + 1)
      BY <2>2, <2>5
    <3> QED BY <2>1, <3>4, <3>5
  <2> QED BY <2>2, <2>3, <2>4, <2>5
<1> QED BY <1>1, <1>2, <1>3 DEF ByRecords

\* What the second pass changes itself: a name that leads nowhere, the data.
Unnamed(a) == [a EXCEPT !.id2_val = 0]
WithData(a, id, h) == [a EXCEPT !.i_id = id, !.id2_head = h]
Put(attach, k, a) == [attach EXCEPT ![k] = a]

\* One attachment of a list is replaced.
LEMMA PutParts ==
  \A attach \in Seq(Attachment), a \in Attachment : \A k \in 1 .. Len(attach) :
    /\ Put(attach, k, a) \in Seq(Attachment) /\ Len(Put(attach, k, a)) = Len(attach) /\ Put(attach, k, a)[k] = a
    /\ \A j \in 1 .. Len(attach) : j # k => Put(attach, k, a)[j] = attach[j]
<1> SUFFICES ASSUME NEW attach \in Seq(Attachment), NEW a \in Attachment, NEW k \in 1 .. Len(attach)
             PROVE  /\ Put(attach, k, a) \in Seq(Attachment) /\ Len(Put(attach, k, a)) = Len(attach)
                    /\ Put(attach, k, a)[k] = a
                    /\ \A j \in 1 .. Len(attach) : j # k => Put(attach, k, a)[j] = attach[j]
  OBVIOUS
<1>1. PICK S, new : S = Attachment /\ new = [attach EXCEPT ![k] = a]
  OBVIOUS
<1>2. attach \in Seq(S) /\ a \in S
  BY <1>1
<1>3. new \in Seq(S) /\ Len(new) = Len(attach) /\ new[k] = a /\ \A j \in 1 .. Len(attach) : j # k => new[j] = attach[j]
  BY <1>1, <1>2
<1> QED BY <1>1, <1>3 DEF Put

\* The other fields of an attachment stay as they are.
LEMMA UnnamedParts ==
  ASSUME NEW a \in Attachment
  PROVE  Unnamed(a) \in Attachment /\ Unnamed(a).id2_head = a.id2_head
BY DEF Unnamed, Attachment

\* And an attachment can be given its former data again.
LEMMA WithDataParts ==
  \A a \in Attachment : \A id, h \in Nat :
    /\ WithData(a, id, h) \in Attachment /\ WithData(a, id, h).i_id = id /\ WithData(a, id, h).id2_head = h
    /\ WithData(a, id, h).id2_val = a.id2_val /\ WithData(WithData(a, id, h), a.i_id, a.id2_head) = a
<1> SUFFICES ASSUME NEW a \in Attachment, NEW id \in Nat, NEW h \in Nat, NEW b, b = WithData(a, id, h)
             PROVE  /\ b \in Attachment /\ b.i_id = id /\ b.id2_head = h /\ b.id2_val = a.id2_val
                    /\ WithData(b, a.i_id, a.id2_head) = a
  OBVIOUS
<1> DEFINE Given(c, x, y) == [held |-> c.held, id2_val |-> c.id2_val, i_id |-> x, id2_head |-> y,
                              method |-> c.method, sequence |-> c.sequence]
<1>1. ASSUME NEW c \in Attachment, NEW x, NEW y PROVE WithData(c, x, y) = Given(c, x, y)
  <2>1. PICK d : d = [c EXCEPT !.i_id = x]
    OBVIOUS
  <2>2. d = Given(c, x, c.id2_head)
    BY <2>1 DEF Attachment
  <2>3. [d EXCEPT !.id2_head = y] = Given(c, x, y)
    BY <2>2
  <2>4. WithData(c, x, y) = [d EXCEPT !.id2_head = y]
    BY <2>1, Zenon DEF WithData
  <2> QED BY <2>3, <2>4
<1>2. Given(a, a.i_id, a.id2_head) = a
  BY DEF Attachment
<1>3. b = Given(a, id, h)
  BY <1>1
<1>4. b \in Attachment /\ b.i_id = id /\ b.id2_head = h /\ b.id2_val = a.id2_val
  BY <1>3 DEF Attachment
<1>5. Given(b, a.i_id, a.id2_head) = Given(a, a.i_id, a.id2_head)
  BY <1>3
<1> QED BY <1>1, <1>2, <1>4, <1>5

\* The cases of Resolved in these terms.
LEMMA ResolvedMissed ==
  ASSUME file' = file, NEW tree, NEW row, NEW a, a = ByRow(row), HasRows(tree, TableId), ~ HasRows(tree, a.id2_val)
  PROVE  Resolved(tree, row, IF HasId2(tree, a.id2_val) THEN a ELSE Unnamed(a))'
<1>1. HasRows(tree, TableId)' /\ ~ HasRows(tree, a.id2_val)'
  BY RowsKept
<1>2. CASE HasId2(tree, a.id2_val)
  BY <1>1, <1>2 DEF Resolved
<1>3. CASE ~ HasId2(tree, a.id2_val)
  BY <1>1, <1>3 DEF Resolved, Unnamed
<1> QED BY <1>2, <1>3

\* With a record that can be read.
LEMMA ResolvedFound ==
  ASSUME file' = file, NEW tree, NEW row, NEW a, a = ByRow(row), HasRows(tree, TableId), HasRows(tree, a.id2_val),
         NEW b, WithData(b, 0, 0) = ByRecord(tree, a), DataFrom(GetId2(tree, a.id2_val).child, b)'
  PROVE  Resolved(tree, row, b)'
<1>1. HasRows(tree, TableId)' /\ HasRows(tree, a.id2_val)' /\ HasId2(tree, a.id2_val)
  BY RowsKept DEF HasRows
<1>2. ByRecord(tree, a)' = ByRecord(tree, a)
  BY DEF ByRecord, ParseBlock
<1> QED BY <1>1, <1>2 DEF Resolved, WithData

\* An attachment whose record is not there, or cannot be read.
LEMMA RecordMissed ==
  ASSUME LifeInv, file' = file, NEW tree, HasRows(tree, TableId), NEW attach \in Seq(Attachment), NEW k \in 1 .. Len(attach),
         NEW a, a = attach[k], ~ HasRows(tree, a.id2_val),
         NEW new, new = IF HasId2(tree, a.id2_val) THEN attach ELSE Put(attach, k, Unnamed(a))
  PROVE  Passed(tree, attach, k, new)
<1>1. a \in Attachment
  OBVIOUS
<1>2. PICK c \in Attachment : c = (IF HasId2(tree, a.id2_val) THEN a ELSE Unnamed(a)) /\ c.id2_head = a.id2_head
  BY <1>1, UnnamedParts
<1>3. /\ new \in Seq(Attachment) /\ Len(new) = Len(attach) /\ new[k] = c
      /\ \A j \in 1 .. Len(attach) : j # k => new[j] = attach[j]
  <2>1. CASE HasId2(tree, a.id2_val)
    BY <1>2, <2>1
  <2>2. CASE ~ HasId2(tree, a.id2_val)
    <3>1. PICK list : list = Put(attach, k, c)
      OBVIOUS
    <3>2. new = list
      BY <1>2, <2>2, <3>1
    <3>3. /\ list \in Seq(Attachment) /\ Len(list) = Len(attach) /\ list[k] = c
          /\ \A j \in 1 .. Len(attach) : j # k => list[j] = attach[j]
      BY <1>2, <3>1, PutParts
    <3> QED BY <3>2, <3>3
  <2> QED BY <2>1, <2>2
<1>4. ASSUME NEW row \in Seq(Element), attach[k] = ByRow(row) PROVE Resolved(tree, row, new[k])'
  <2>1. Resolved(tree, row, c)'
    BY <1>2, <1>4, ResolvedMissed
  <2> QED BY <1>3, <2>1
<1>5. k \in Nat /\ \A j \in 1 .. Len(attach) : j < k \/ j > k => j # k
  OBVIOUS
<1> QED BY <1>3, <1>4, <1>5 DEF Passed

\* As many objects as the record has, whatever the tree is.
LEMMA SameLength ==
  ASSUME LifeInv, NEW tree, NEW x, HasRows(tree, x)
  PROVE  \E R \in Seq(Seq(Element)) : R = ParseBlock(GetId2(tree, x).id, <<>>) /\ Len(R) = Len(RowsOf(tree, x))
<1>0. PICK id : id = GetId2(tree, x).id
  OBVIOUS
<1>1. IsFile(file)
  BY FilesAssumption DEF LifeInv, Heap
<1>2. PICK rs \in Seq(Seq(Element)) : rs = file.rows[id]
  BY <1>0, <1>1 DEF HasRows, Readable, IsFile
<1>3. PICK child : child = GetId2(tree, x).child
  OBVIOUS
<1>4. DOMAIN ParseBlock(id, <<>>) = DOMAIN rs /\ DOMAIN ParseBlock(id, child) = DOMAIN rs
  BY <1>2 DEF ParseBlock
<1>5. RowsOf(tree, x) = ParseBlock(id, child)
  BY <1>0, <1>3 DEF RowsOf
<1>6. Readable(id)
  BY <1>0 DEF HasRows
<1>7. PICK P, Q \in Seq(Seq(Element)) : P = ParseBlock(id, <<>>) /\ Q = ParseBlock(id, child)
  BY <1>6, BlockParsed
<1>8. Len(P) = Len(rs) /\ Len(Q) = Len(rs)
  BY <1>2, <1>4, <1>7, LenProperties
<1> QED BY <1>0, <1>5, <1>7, <1>8

\* What the objects of a record make of the only attachment.
LEMMA OnlyPlace ==
  ASSUME NEW item \in Item, Len(item.attach) = 1, NEW block \in Int, NEW rows \in Seq(Seq(Element))
  PROVE  Process(block, rows, item, 1).attach[1] =
           IF Len(rows) > 0 THEN Alone(item.attach[1], rows[1]) ELSE item.attach[1]
<1>1. 1 \in Nat \ {0} /\ 1 \in 1 .. Len(item.attach) /\ Len(rows) \in Nat
  OBVIOUS
<1>2. Process(block, rows, item, 1).attach[1] =
        IF 1 <= 1 /\ 1 < 1 + Len(rows) THEN Alone(item.attach[1], rows[1 - 1 + 1]) ELSE item.attach[1]
  BY <1>1, ListPlace
<1>3. (1 <= 1 /\ 1 < 1 + Len(rows) <=> Len(rows) > 0) /\ 1 - 1 + 1 = 1
  BY <1>1
<1> QED BY <1>2, <1>3

\* The record of attachment k reaches it, the attachments in front not at all,
\* and those behind with further objects; it changes no data.
Placed(att, k, n, new) ==
  /\ new \in Seq(Attachment) /\ Len(new) = Len(att)
  /\ \A j \in 1 .. Len(att) : /\ new[j].i_id = att[j].i_id /\ new[j].id2_head = att[j].id2_head
                              /\ j < k \/ (j > k /\ n <= 1) => new[j] = att[j]

\* What it makes of the attachment is what it makes of an only one.
LEMMA RecordPlace ==
  ASSUME NEW item \in Item, NEW k \in 1 .. Len(item.attach), NEW id \in Nat, NEW R \in Seq(Seq(Element))
  PROVE  /\ Placed(item.attach, k, Len(R), Process(id, R, item, k).attach)
         /\ Process(id, R, item, k).attach[k] = Process(id, R, Only(item.attach[k]), 1).attach[1]
<1> DEFINE done == Process(id, R, item, k).attach
           att == item.attach
           a == att[k]
<1> HIDE DEF done
<1>0. att \in Seq(Attachment) /\ a \in Attachment /\ k \in Nat \ {0} /\ id \in Int
  BY DEF Item
<1>1. PICK n \in Nat : n = Len(R)
  OBVIOUS
<1>2. /\ done \in Seq(Attachment) /\ Len(done) = Len(att)
      /\ \A j \in 1 .. Len(att) : done[j].i_id = att[j].i_id /\ done[j].id2_head = att[j].id2_head
  <2>1. PICK new : new = Process(id, R, item, k) /\ Keeps(item, new)
    BY <1>0, ListProcessed
  <2> QED BY <2>1 DEF Keeps, Item, done
<1>3. \A j \in 1 .. Len(att) : done[j] = IF k <= j /\ j < k + n THEN Alone(att[j], R[j - k + 1]) ELSE att[j]
  BY <1>0, <1>1, ListPlace DEF done
<1>4. \A j \in 1 .. Len(att) : j < k \/ (j > k /\ n <= 1) => done[j] = att[j]
  <2>1. \A j \in 1 .. Len(att) : j < k \/ (j > k /\ n <= 1) => ~ (k <= j /\ j < k + n)
    BY <1>0
  <2> QED BY <1>3, <2>1
<1>5. PICK one : one = Only(a) /\ one \in Item /\ Len(one.attach) = 1 /\ one.attach[1] = a
  BY <1>0, OnlyItem
<1>6. Process(id, R, one, 1).attach[1] = IF n > 0 THEN Alone(a, R[1]) ELSE a
  BY <1>0, <1>1, <1>5, OnlyPlace
<1>7. done[k] = IF n > 0 THEN Alone(a, R[1]) ELSE a
  <2>1. k - k + 1 = 1 /\ (k <= k /\ k < k + n <=> n > 0)
    BY <1>0, <1>1
  <2> QED BY <1>3, <2>1
<1>8. Placed(att, k, n, done)
  BY <1>2, <1>4 DEF Placed
<1> QED BY <1>1, <1>5, <1>6, <1>7, <1>8 DEF done

\* So it is with the record a tree has for it.
LEMMA RecordPlaced ==
  ASSUME LifeInv, NEW tree, NEW item \in Item, NEW k \in 1 .. Len(item.attach),
         HasRows(tree, item.attach[k].id2_val), GetId2(tree, item.attach[k].id2_val).id \in Nat
  PROVE  \E x, id, done : /\ x = item.attach[k].id2_val /\ id = GetId2(tree, x).id
                          /\ done = Process(id, ParseBlock(id, <<>>), item, k).attach
                          /\ Placed(item.attach, k, Len(RowsOf(tree, x)), done)
                          /\ done[k] = ByRecord(tree, item.attach[k])
<1>0. PICK x, id : x = item.attach[k].id2_val /\ id = GetId2(tree, x).id /\ id \in Nat /\ HasRows(tree, x)
  OBVIOUS
<1>1. PICK R \in Seq(Seq(Element)) : R = ParseBlock(id, <<>>) /\ Len(R) = Len(RowsOf(tree, x))
  BY <1>0, SameLength
<1>2. PICK done : done = Process(id, R, item, k).attach
  OBVIOUS
<1>3. Placed(item.attach, k, Len(R), done) /\ done[k] = Process(id, R, Only(item.attach[k]), 1).attach[1]
  BY <1>0, <1>2, RecordPlace
<1>4. done[k] = ByRecord(tree, item.attach[k])
  BY <1>0, <1>1, <1>3 DEF ByRecord
<1> QED BY <1>0, <1>1, <1>2, <1>3, <1>4

\* An attachment gets its data from below its record, unless it has some.
GetsData(child, d, b) ==
  /\ WithData(b, d.i_id, d.id2_head) = d
  /\ d.i_id = 0 /\ d.id2_head = 0 => DataFrom(child, b)'

\* It gets them from the node found there.
LEMMA DataGot ==
  ASSUME NEW child, NEW d \in Attachment, NEW id \in Nat, NEW h \in Nat, HasId2(child, d.id2_val),
         GetId2(child, d.id2_val).id = id, TreeAt(h)' = GetId2(child, d.id2_val).child
  PROVE  WithData(d, id, h) \in Attachment /\ GetsData(child, d, WithData(d, id, h))
<1>1. PICK b : b = WithData(d, id, h)
  OBVIOUS
<1>2. /\ b \in Attachment /\ b.i_id = id /\ b.id2_head = h /\ b.id2_val = d.id2_val
      /\ WithData(b, d.i_id, d.id2_head) = d
  BY <1>1, WithDataParts
<1>3. DataFrom(child, b)'
  BY <1>2 DEF DataFrom, TreeAt
<1> QED BY <1>1, <1>2, <1>3 DEF GetsData

\* An attachment whose record is read: done is what the record makes of the
\* attachments, b the attachment with its data.
LEMMA RecordFound ==
  ASSUME LifeInv, file' = file, NEW tree, HasRows(tree, TableId), NEW att \in Seq(Attachment), NEW k \in 1 .. Len(att),
         HasRows(tree, att[k].id2_val), NEW done, Placed(att, k, Len(RowsOf(tree, att[k].id2_val)), done),
         done[k] = ByRecord(tree, att[k]), NEW b \in Attachment, GetsData(GetId2(tree, att[k].id2_val).child, done[k], b)
  PROVE  Passed(tree, att, k, Put(done, k, b))
<1>1. PICK n : n = Len(RowsOf(tree, att[k].id2_val))
  OBVIOUS
<1>2. /\ done \in Seq(Attachment) /\ Len(done) = Len(att) /\ k \in 1 .. Len(done)
      /\ \A j \in 1 .. Len(att) : /\ done[j].i_id = att[j].i_id /\ done[j].id2_head = att[j].id2_head
                                  /\ j < k \/ (j > k /\ n <= 1) => done[j] = att[j]
  BY <1>1 DEF Placed
<1>3. PICK new : new = Put(done, k, b)
  OBVIOUS
<1>4. /\ new \in Seq(Attachment) /\ Len(new) = Len(att) /\ new[k] = b
      /\ \A j \in 1 .. Len(att) : j # k => new[j] = done[j]
  BY <1>2, <1>3, PutParts
<1>5. ASSUME NEW row \in Seq(Element), att[k] = ByRow(row) PROVE Resolved(tree, row, new[k])'
  <2>1. PICK a, d : a = att[k] /\ d = done[k] /\ a = ByRow(row) /\ a.i_id = 0 /\ a.id2_head = 0
    BY <1>5, ByRowParts
  <2>2. d.i_id = 0 /\ d.id2_head = 0
    BY <1>2, <2>1
  <2>3. WithData(b, 0, 0) = d /\ DataFrom(GetId2(tree, a.id2_val).child, b)'
    BY <2>1, <2>2 DEF GetsData
  <2>4. ByRecord(tree, a) = d
    BY <2>1
  <2>5. Resolved(tree, row, b)'
    BY <2>1, <2>3, <2>4, ResolvedFound
  <2> QED BY <1>4, <2>5
<1>6. \A j \in 1 .. Len(att) : j < k \/ j > k => j # k
  OBVIOUS
<1>7. \A j \in 1 .. Len(att) : j < k \/ (j > k /\ n <= 1) => new[j] = att[j]
  BY <1>2, <1>4, <1>6
<1>8. \A j \in 1 .. Len(att) : j # k => new[j].id2_head = att[j].id2_head
  BY <1>2, <1>4
<1> QED BY <1>1, <1>3, <1>4, <1>5, <1>7, <1>8 DEF Passed

\* The same in the item.
LEMMA UnnamedItem ==
  ASSUME NEW item \in Item, NEW k \in 1 .. Len(item.attach)
  PROVE  [item EXCEPT !.attach[k].id2_val = 0].attach = Put(item.attach, k, Unnamed(item.attach[k]))
<1>1. PICK att \in Seq(Attachment) : att = item.attach
  BY DEF Item
<1>2. PICK c \in Attachment : c = att[k]
  BY <1>1
<1>3. PICK b : b = [c EXCEPT !.id2_val = 0]
  OBVIOUS
<1>4. PICK s : s = [att EXCEPT ![k] = b]
  OBVIOUS
<1>5. DOMAIN att = 1 .. Len(att) /\ k \in DOMAIN att
  BY <1>1
<1>6. [item EXCEPT !.attach[k].id2_val = 0] = [item EXCEPT !.attach = s]
  BY <1>1, <1>2, <1>3, <1>4, <1>5 DEF Item
<1>7. [item EXCEPT !.attach = s].attach = s
  BY DEF Item
<1>8. Unnamed(c) = b
  BY <1>3 DEF Unnamed
<1>9. Put(att, k, b) = s
  BY <1>4 DEF Put
<1> QED BY <1>1, <1>2, <1>6, <1>7, <1>8, <1>9

\* An attachment gets its data within the item.
LEMMA WithDataItem ==
  ASSUME NEW item \in Item, NEW k \in 1 .. Len(item.attach), NEW id \in Nat, NEW h \in Nat
  PROVE  [item EXCEPT !.attach[k].i_id = id, !.attach[k].id2_head = h].attach =
           Put(item.attach, k, WithData(item.attach[k], id, h))
<1>1. PICK att \in Seq(Attachment) : att = item.attach
  BY DEF Item
<1>2. PICK c \in Attachment : c = att[k]
  BY <1>1
<1>3. PICK b : b = [c EXCEPT !.i_id = id, !.id2_head = h]
  OBVIOUS
<1>4. PICK s : s = [att EXCEPT ![k] = b]
  OBVIOUS
<1>5. DOMAIN att = 1 .. Len(att) /\ k \in DOMAIN att
  BY <1>1
<1>6. [item EXCEPT !.attach[k].i_id = id, !.attach[k].id2_head = h] = [item EXCEPT !.attach = s]
  <2>1. [[att EXCEPT ![k].i_id = id] EXCEPT ![k].id2_head = h] = s
    BY <1>2, <1>3, <1>4, <1>5
  <2> QED BY <1>1, <1>5, <2>1 DEF Item
<1>7. [item EXCEPT !.attach = s].attach = s
  BY DEF Item
<1>8. WithData(c, id, h) = b
  BY <1>3, Zenon DEF WithData
<1>9. Put(att, k, b) = s
  BY <1>4 DEF Put
<1> QED BY <1>1, <1>2, <1>6, <1>7, <1>8, <1>9

\* A record that is not there, or cannot be read.
LEMMA AttachMissed ==
  ASSUME LifeInv, NEW i, i \in DOMAIN items, NEW item \in Item, item = items[i], NEW k \in 1 .. Len(item.attach),
         NEW tree, NEW x, x = item.attach[k].id2_val, HasRows(tree, TableId), ~ HasRows(tree, x), file' = file,
         items' = IF HasId2(tree, x) THEN items ELSE [items EXCEPT ![i].attach[k].id2_val = 0]
  PROVE  DOMAIN items' = DOMAIN items /\ \E new : new = items'[i].attach /\ Passed(tree, item.attach, k, new)
<1>0. items = [j \in DOMAIN items |-> items[j]]
  BY DEF LifeInv, Heap
<1>1. PICK att \in Seq(Attachment) : att = item.attach
  BY DEF Item
<1>2. PICK a : a = att[k] /\ x = a.id2_val
  BY <1>1
<1>3. DOMAIN items' = DOMAIN items
  BY <1>0
<1>4. items'[i].attach = IF HasId2(tree, x) THEN att ELSE Put(att, k, Unnamed(a))
  <2>1. CASE HasId2(tree, x)
    BY <1>1, <2>1
  <2>2. CASE ~ HasId2(tree, x)
    <3>1. items'[i] = [item EXCEPT !.attach[k].id2_val = 0]
      BY <1>0, <2>2
    <3>2. [item EXCEPT !.attach[k].id2_val = 0].attach = Put(item.attach, k, Unnamed(item.attach[k]))
      BY UnnamedItem
    <3>3. items'[i].attach = Put(att, k, Unnamed(a))
      BY <1>1, <1>2, <3>1, <3>2, Zenon
    <3> QED BY <2>2, <3>3
  <2> QED BY <2>1, <2>2
<1>5. PICK new : new = items'[i].attach
  OBVIOUS
<1>6. Passed(tree, att, k, new)
  BY <1>1, <1>2, <1>4, <1>5, RecordMissed
<1> QED BY <1>1, <1>3, <1>5, <1>6

\* A record that is read, with data below it or without.
LEMMA AttachFound ==
  ASSUME LifeInv, NEW i, i \in DOMAIN items, NEW item \in Item, item = items[i], NEW k \in 1 .. Len(item.attach),
         NEW tree, NEW n \in Nat, High(tree, n), NEW x, x = item.attach[k].id2_val,
         HasRows(tree, TableId), HasRows(tree, x), file' = file,
         items' = [items EXCEPT ![i] = Located(item, k, GetId2(tree, x))], trees' = Copy(item, k, GetId2(tree, x))
  PROVE  TreesStay /\ DOMAIN items' = DOMAIN items /\ \E new : new = items'[i].attach /\ Passed(tree, item.attach, k, new)
<1>0. items = [j \in DOMAIN items |-> items[j]]
  BY DEF LifeInv, Heap
<1>1. PICK att \in Seq(Attachment) : att = item.attach
  BY DEF Item
<1>2. PICK record, id, child : record = GetId2(tree, x) /\ id = record.id /\ child = record.child
  OBVIOUS
<1>3. n > 0 /\ id \in Nat /\ High(child, n - 1) /\ n - 1 \in Nat
  <2>1. HasId2(tree, x)
    BY DEF HasRows
  <2>2. n > 0 /\ id \in Nat /\ High(child, n - 1)
    BY <1>2, <2>1, FoundNode
  <2> QED BY <2>2
<1>4. PICK got : got = Process(id, ParseBlock(id, <<>>), item, k)
  OBVIOUS
<1>5. PICK done : /\ done = got.attach /\ Placed(att, k, Len(RowsOf(tree, x)), done)
                  /\ done[k] = ByRecord(tree, att[k])
  <2>1. HasRows(tree, item.attach[k].id2_val) /\ GetId2(tree, item.attach[k].id2_val).id \in Nat
    BY <1>2, <1>3
  <2>2. PICK y, l, z : /\ y = item.attach[k].id2_val /\ l = GetId2(tree, y).id
                       /\ z = Process(l, ParseBlock(l, <<>>), item, k).attach
                       /\ Placed(item.attach, k, Len(RowsOf(tree, y)), z)
                       /\ z[k] = ByRecord(tree, item.attach[k])
    BY <2>1, RecordPlaced
  <2>3. y = x /\ l = id
    BY <1>2, <2>2
  <2> QED BY <1>1, <1>4, <2>2, <2>3
<1>6. got \in Item
  <2>1. ParseBlock(id, <<>>) \in Seq(Seq(Element)) /\ id \in Int
    BY <1>2, <1>3, BlockParsed DEF HasRows
  <2> QED BY <1>4, <2>1, ListProcessed DEF Keeps
<1>7. done \in Seq(Attachment) /\ k \in 1 .. Len(done) /\ k \in 1 .. Len(got.attach)
  BY <1>1, <1>5 DEF Placed
<1>8. PICK d \in Attachment : d = done[k]
  BY <1>7
<1>9. PICK id2 : id2 = d.id2_val
  OBVIOUS
<1>10. DOMAIN items' = DOMAIN items /\ items'[i] = Located(item, k, record)
  BY <1>0, <1>2
<1>11. /\ TreesStay
       /\ \E b \in Attachment : items'[i].attach = Put(done, k, b) /\ GetsData(child, d, b)
  <2>1. CASE ~ HasId2(child, id2)
    <3>1. trees' = trees /\ items'[i] = got
      BY <1>2, <1>4, <1>5, <1>8, <1>9, <1>10, <2>1 DEF Located, Copy
    <3>2. WithData(d, d.i_id, d.id2_head) = d
      <4>1. d.i_id \in Int /\ d.id2_head \in Nat
        BY DEF Attachment
      <4> QED BY DEF WithData, Attachment
    <3>3. Put(done, k, d) = done
      BY <1>7, <1>8 DEF Put
    <3>4. d.i_id = 0 /\ d.id2_head = 0 => DataFrom(child, d)'
      BY <1>9, <2>1 DEF DataFrom
    <3> QED BY <1>5, <3>1, <3>2, <3>3, <3>4 DEF GetsData, TreesStay
  <2>2. CASE HasId2(child, id2)
    <3>1. PICK node : node = GetId2(child, id2)
      OBVIOUS
    <3>2. PICK m \in Nat : m = node.id
      BY <1>3, <2>2, <3>1, FoundNode
    <3>3. trees' = Stored(node.child)
          /\ items'[i] = [got EXCEPT !.attach[k].i_id = node.id, !.attach[k].id2_head = NewTree(node.child)]
      BY <1>2, <1>4, <1>5, <1>8, <1>9, <1>10, <2>2, <3>1 DEF Located, Copy
    <3>4. PICK h \in Nat : h = NewTree(node.child) /\ TreeAt(h)' = node.child /\ TreesStay
      BY <3>3, StoredParts
    <3>5. items'[i].attach = Put(done, k, WithData(d, m, h))
      <4>1. items'[i] = [got EXCEPT !.attach[k].i_id = m, !.attach[k].id2_head = h]
        BY <3>2, <3>3, <3>4
      <4>2. [got EXCEPT !.attach[k].i_id = m, !.attach[k].id2_head = h].attach =
              Put(got.attach, k, WithData(got.attach[k], m, h))
        BY <1>6, <1>7, WithDataItem
      <4> QED BY <1>5, <1>8, <4>1, <4>2, Zenon
    <3>6. HasId2(child, d.id2_val) /\ GetId2(child, d.id2_val).id = m /\ TreeAt(h)' = GetId2(child, d.id2_val).child
      BY <1>9, <2>2, <3>1, <3>2, <3>4
    <3>7. WithData(d, m, h) \in Attachment /\ GetsData(child, d, WithData(d, m, h))
      BY <3>6, DataGot
    <3> QED BY <3>4, <3>5, <3>7
  <2> QED BY <2>1, <2>2
<1>12. PICK b \in Attachment : items'[i].attach = Put(done, k, b) /\ GetsData(child, d, b)
  BY <1>11
<1>13. Passed(tree, att, k, Put(done, k, b))
  BY <1>1, <1>2, <1>5, <1>8, <1>12, RecordFound
<1> QED BY <1>1, <1>10, <1>11, <1>12, <1>13

\* The second pass over an attachment.
LEMMA AttachPair == ASSUME LifeInv, LifeInv', PairInv, ParseAttach PROVE PairInv'
<1>1. PICK S : /\ stack \in Seq(Frames(S)) /\ stack # <<>>
               /\ Len(stack) \in Nat \ {0} /\ Len(stack) \in 1 .. Len(stack)
               /\ Top = stack[Len(stack)] /\ Top \in Frames(S) /\ Top.call = "parse" /\ Top.pc = "attach"
               /\ FrameOK(Len(stack)) /\ ItemOK(Len(stack))
  BY AtTop DEF ParseAttach
<1>2. PICK n, i, t, tree, item, k :
        /\ n \in Nat /\ n = Len(stack) /\ i = Top.item /\ t \in Frames(S) /\ t = Top
        /\ tree = TreeAt(Top.head) /\ item = items[i] /\ k = Top.at
  BY <1>1
<1>3. i # 0 /\ i \in DOMAIN items /\ item \in Item /\ items = [j \in DOMAIN items |-> items[j]]
  BY <1>1, <1>2 DEF FrameOK, LifeInv, Heap
<1>4. PICK att \in Seq(Attachment) : att = item.attach
  BY <1>3 DEF Item
<1>5. k \in 1 .. Len(att) /\ k \in 1 .. Len(item.attach) /\ k \in Nat
  <2>1. k \in DOMAIN att
    BY <1>2, <1>4 DEF ParseAttach
  <2> QED BY <1>4, <2>1
<1>6. PICK fr : fr = Onward(t)
  OBVIOUS
<1>7. stack' = Replace(fr) /\ file' = file
  BY <1>2, <1>6 DEF ParseAttach, Onward
<1>8. /\ fr \in Frames(S) /\ fr.call = "parse" /\ fr.pc = "attach" /\ fr.head = t.head
      /\ fr.item = i /\ fr.at = k + 1 /\ fr.seen = t.seen
  <2>1. fr \in Frames(S)
    BY <1>2, <1>6 DEF Frames, Onward
  <2>2. fr.call = t.call /\ fr.pc = t.pc /\ fr.head = t.head /\ fr.item = t.item /\ fr.seen = t.seen /\ fr.at = t.at + 1
    BY <1>2, <1>6 DEF Frames, Onward
  <2> QED BY <1>1, <1>2, <2>1, <2>2
<1>9. stack'[n] = fr
  BY <1>1, <1>2, <1>7, <1>8, ReplaceParts
<1>10. tree = t.seen /\ Stage(t, att)
  BY <1>1, <1>2, <1>3, <1>4 DEF PairInv, PairOK
<1>11. HasRows(tree, TableId) /\ ByRecords(tree, AllRows(tree), att, k)
  BY <1>1, <1>2, <1>10 DEF Stage
<1>12. PICK x : x = item.attach[k].id2_val
  OBVIOUS
<1>13. /\ TreesStay /\ DOMAIN items' = DOMAIN items
       /\ \E new : new = items'[i].attach /\ Passed(tree, att, k, new)
       /\ \A j \in DOMAIN items : j # i => items'[j] = items[j]
  <2>1. CASE ~ HasRows(tree, x)
    <3>1. trees' = trees /\ items' = IF HasId2(tree, x) THEN items ELSE [items EXCEPT ![i].attach[k].id2_val = 0]
      BY <1>2, <1>12, <2>1 DEF ParseAttach, RecordOf, HasRows
    <3>2. DOMAIN items' = DOMAIN items /\ \E new : new = items'[i].attach /\ Passed(tree, att, k, new)
      BY <1>2, <1>3, <1>4, <1>5, <1>7, <1>11, <1>12, <2>1, <3>1, AttachMissed
    <3> QED BY <1>3, <3>1, <3>2 DEF TreesStay
  <2>2. CASE HasRows(tree, x)
    <3>1. /\ trees' = Copy(item, k, GetId2(tree, x))
          /\ items' = [items EXCEPT ![i] = Located(item, k, GetId2(tree, x))]
      BY <1>2, <1>12, <2>2 DEF ParseAttach, RecordOf, HasRows
    <3>2. Height(n) \in Nat /\ High(tree, Height(n))
      BY <1>1, <1>2 DEF FrameOK, Reaches
    <3>3. TreesStay /\ DOMAIN items' = DOMAIN items /\ \E new : new = items'[i].attach /\ Passed(tree, att, k, new)
      BY <1>2, <1>3, <1>4, <1>5, <1>7, <1>11, <1>12, <2>2, <3>1, <3>2, AttachFound
    <3> QED BY <1>3, <3>1, <3>3
  <2> QED BY <2>1, <2>2
<1>14. PICK new : new = items'[i].attach /\ Passed(tree, att, k, new)
  BY <1>13
<1>15. ASSUME NEW j \in 1 .. Len(att), j # k PROVE \E h : h = att[j].id2_head /\ TreeAt(h)' = TreeAt(h)
  <2>1. new[j].id2_head = att[j].id2_head /\ Len(new) = Len(att)
    BY <1>13, <1>14, <1>15 DEF Passed
  <2> QED BY <1>2, <1>3, <1>4, <1>13, <1>14, <2>1, CopiesStay
<1>16. PICK rows \in Seq(Seq(Element)) : rows = AllRows(tree)
  <2>1. PICK a, b \in Seq(Seq(Element)) : a = RowsOf(tree, TableId) /\ b = RowsOf(tree, ReportsId)
    BY RowsType
  <2>2. PICK E : E = Seq(Element)
    OBVIOUS
  <2>3. \A p, q \in Seq(E) : p \o q \in Seq(E)
    OBVIOUS
  <2> QED BY <2>1, <2>2, <2>3 DEF AllRows, Reports
<1>17. ByRecords(tree, rows, new, k + 1)'
  BY <1>4, <1>5, <1>7, <1>11, <1>13, <1>14, <1>15, <1>16, RecordRead
<1>18. HasRows(tree, TableId)' /\ AllRows(tree)' = rows
  BY <1>7, <1>11, <1>16, RowsKept DEF AllRows, Reports
<1>19. Stage(fr, new)'
  BY <1>8, <1>10, <1>17, <1>18 DEF Stage
<1>20. TreeAt(t.head)' = TreeAt(t.head)
  <2>1. PICK h : h = t.head
    OBVIOUS
  <2>2. Reaches(h, n)
    BY <1>1, <1>2, <2>1 DEF FrameOK
  <2>3. Reaches(h, n)'
    <3>1. n \in 1 .. Len(stack') /\ stack'[n].head = h
      BY <1>1, <1>2, <1>7, <1>8, <1>9, <2>1, ReplaceParts
    <3> QED BY <3>1 DEF LifeInv, FrameOK
  <2>4. TreeAt(h)' = TreeAt(h)
    BY <1>13, <2>2, <2>3 DEF Reaches, TreeAt, TreesStay
  <2> QED BY <2>1, <2>4
<1>21. PairOK(n)'
  <2>1. TreeAt(stack[n].head)' = stack'[n].seen /\ stack'[n].at >= 1
    BY <1>1, <1>2, <1>5, <1>8, <1>9, <1>10, <1>20 DEF TreeAt
  <2>2. Stage(stack[n], items[stack[n].item].attach)'
    BY <1>8, <1>9, <1>14, <1>19
  <2> QED BY <2>1, <2>2 DEF PairOK
<1>22. Works
  BY <1>2, <1>7, <1>13 DEF Works
<1> QED BY <1>1, <1>2, <1>7, <1>8, <1>21, <1>22, PairStep

\* Every step keeps the invariant.
LEMMA NextPair == LifeInv /\ LifeInv' /\ PairInv /\ [Next]_vars => PairInv'
<1> SUFFICES ASSUME LifeInv, LifeInv', PairInv, [Next]_vars PROVE PairInv'
  OBVIOUS
<1>1. CASE UNCHANGED vars
  <2>1. file' = file /\ trees' = trees /\ items' = items /\ stack' = stack
    BY <1>1 DEF vars
  <2>2. \A h : TreeAt(h)' = TreeAt(h)
    BY <2>1 DEF TreeAt
  <2>3. ASSUME NEW s \in 1 .. Len(stack) PROVE PairOK(s)'
    <3>1. PICK fr, attach : fr = stack[s] /\ attach = items[fr.item].attach
      OBVIOUS
    <3>2. PairOK(s)
      BY DEF PairInv
    <3>3. fr.item # 0 => Stage(fr, attach)'
      BY <2>1, <2>2, <3>1, <3>2, StageKept DEF PairOK
    <3>4. stack'[s] = fr /\ items'[stack'[s].item].attach = attach
      BY <2>1, <3>1
    <3>5. stack[s].item' # 0 => Stage(stack[s], items[stack[s].item].attach)'
      BY <3>3, <3>4
    <3>6. TreeAt(stack[s].head)' = TreeAt(stack[s].head)
      BY <2>1 DEF TreeAt
    <3> QED BY <2>1, <3>2, <3>5, <3>6 DEF PairOK
  <2> QED BY <2>1, <2>3 DEF PairInv
<1>2. CASE Enter
  BY <1>2, EnterPair
<1>3. CASE ParseFails
  BY <1>3, ParseFailsPair
<1>4. CASE ParseMessage
  BY <1>4, ParseMessagePair
<1>5. CASE ParseReports
  BY <1>5, ParseReportsPair
<1>6. CASE ParseTable
  BY <1>6, ParseTablePair
<1>7. CASE ParseAttach
  BY <1>7, AttachPair
<1>8. CASE AttachDone
  BY <1>8, AttachDonePair
<1>9. CASE Leave
  BY <1>9, LeavePair
<1>10. CASE WriteEmbedded
  BY <1>10, WriteEmbeddedPair
<1>11. CASE WriteOther
  BY <1>11, WriteOtherPair
<1>12. CASE FreeItem
  BY <1>12, FreeItemPair
<1> QED BY <1>1, <1>2, <1>3, <1>4, <1>5, <1>6, <1>7, <1>8, <1>9, <1>10, <1>11, <1>12 DEF Next, Done

\* So it holds throughout.
LEMMA PairAlways == Spec => []PairInv
BY InitPair, NextPair, LifeAlways, PTL DEF Spec

\* For every file, also one whose blocks lead back to each other, whose
\* records share their id2 values or whose delivery reports have attachments
\* too: the attachments of a message that is written are those of its rows in
\* their order, and each one's fields, data block and tree are what they would
\* be if it were the only one, up to the first record with several objects.
THEOREM AttachmentsKeptApart == Spec => []AttachmentResolved
<1>1. LifeInv /\ PairInv => AttachmentResolved
  BY PairFollows
<1> QED BY <1>1, LifeAlways, PairAlways, PTL
=============================================================================
