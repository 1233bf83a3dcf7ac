------------------------------ MODULE ItemParse ------------------------------
(***************************************************************************)
(* pst_parse_item of libpst.c and the life of what it returns: the id2     *)
(* tree of a message is built, searched and freed by the call that built   *)
(* it, attachments keep a deep copy of the part below them, and readpst    *)
(* parses an embedded message with that copy as a borrowed master tree     *)
(* before it frees the outer item.                                         *)
(*                                                                         *)
(* A tree is a function from the numbers of the records of its block, in   *)
(* their order, to nodes [id2, id, child], where child is a tree; the      *)
(* empty tree is the NULL pointer.  Trees and items live at addresses.     *)
(***************************************************************************)
EXTENDS MapiFields, Integers

CONSTANTS Files,    \* the files to parse
          MaxDepth, \* PST_MAX_BTREE_DEPTH
          Embedded  \* PST_ATTACH_EMBEDDED

ASSUME DepthAssumption == MaxDepth \in Nat

\* A file: assoc[b] are the records of an id2 block, rows[b] what
\* pst_parse_block makes of a block, both undefined where the block cannot be
\* read; index is the set of blocks pst_getID finds.
Record == [id2 : Nat, id : Nat, child : Nat]
IsFile(f) ==
  /\ f.index \subseteq Nat \ {0}
  /\ f.desc \in Nat /\ f.assocRoot \in f.index \cup {0}
  /\ \A b \in DOMAIN f.assoc : f.assoc[b] \in Seq(Record)
  /\ \A b \in DOMAIN f.rows : f.rows[b] \in Seq(Seq(Element))

ASSUME FilesAssumption == \A f \in Files : IsFile(f)

VARIABLES file,   \* the file that is read
          trees,  \* the allocated id2 trees, by address
          items,  \* the allocated items, by address
          leaked, \* the fields whose buffers nobody can free any more
          stack   \* the calls under way, innermost last

vars == <<file, trees, items, leaked, stack>>

ReportsId == 1682  \* 0x692, delivery reports
TableId == 1649    \* 0x671, the attachment table

Known(b) == b \in file.index

(* pst_build_id2: one node for every record whose block is known.  Blocks  *)
(* may lead back to each other; only the depth ends the recursion.         *)
Below(build, r, depth) ==
  IF r.child # 0 /\ Known(r.child) THEN build[<<r.child, depth + 1>>] ELSE <<>>

NodesOf(build, block, depth) ==
  LET rs == file.assoc[block]
  IN [i \in {i \in DOMAIN rs : Known(rs[i].id)} |->
        [id2 |-> rs[i].id2, id |-> rs[i].id, child |-> Below(build, rs[i], depth)]]

BuildId2(block) ==
  LET build[c \in file.index \X (0 .. MaxDepth + 1)] ==
        IF c[2] > MaxDepth \/ c[1] \notin DOMAIN file.assoc THEN <<>> ELSE NodesOf(build, c[1], c[2])
  IN build[<<block, 0>>]

(* pst_getID2: the first sibling with that id2, children are not searched. *)
Siblings(tree, id2) == {i \in DOMAIN tree : tree[i].id2 = id2}
HasId2(tree, id2) == Siblings(tree, id2) # {}
GetId2(tree, id2) == tree[CHOOSE i \in Siblings(tree, id2) : \A j \in Siblings(tree, id2) : i <= j]

(* pst_parse_block, as far as the id2 tree matters: an element that refers *)
(* to an id2 gets the data of that sibling, or is left to be read later.   *)
Fetched(e, tree) ==
  IF e.type # "external" THEN e
  ELSE IF HasId2(tree, e.value) THEN [e EXCEPT !.type = "binary", !.size = 1]
  ELSE [e EXCEPT !.type = "later", !.size = 0]

Readable(b) == b \in DOMAIN file.rows
ParseBlock(b, tree) == [r \in DOMAIN file.rows[b] |->
                          [i \in DOMAIN file.rows[b][r] |-> Fetched(file.rows[b][r][i], tree)]]

-----------------------------------------------------------------------------
(* The heap.                                                               *)
Fresh(f) == CHOOSE a \in 1 .. Cardinality(DOMAIN f) + 1 : a \notin DOMAIN f
Without(f, a) == [b \in DOMAIN f \ {a} |-> f[b]]
With(f, x) == [b \in DOMAIN f \cup {Fresh(f)} |-> IF b = Fresh(f) THEN x ELSE f[b]]
TreeAt(a) == IF a = 0 THEN <<>> ELSE trees[a]

\* The address a new tree gets; the empty tree is not allocated.
NewTree(tree) == IF tree = <<>> THEN 0 ELSE Fresh(trees)
Stored(tree) == IF tree = <<>> THEN trees ELSE With(trees, tree)

Top == stack[Len(stack)]
Replace(frame) == Append(Front(stack), frame)
At(call, pc) == stack # <<>> /\ Top.call = call /\ Top.pc = pc

\* master is m_head, head is id2_head; seen is a copy of the tree for the
\* properties, at is the attachment that is next.
ParseCall(desc, assoc, master) ==
  [call |-> "parse", pc |-> "enter", desc |-> desc, assoc |-> assoc, master |-> master,
   head |-> 0, item |-> 0, at |-> 1, seen |-> <<>>]

\* process() or write_embedded_message with the item it got.
WriteCall(frame) ==
  [frame EXCEPT !.call = "write", !.pc = "write", !.master = 0, !.head = 0, !.at = 1]

Init ==
  /\ file \in Files
  /\ trees = <<>> /\ items = <<>> /\ leaked = {}
  /\ stack = <<ParseCall(file.desc, file.assocRoot, 0)>>

-----------------------------------------------------------------------------
(* pst_parse_item: the tree is built, or is the one of the caller.         *)
Enter ==
  /\ At("parse", "enter")
  /\ LET own == Top.assoc # 0
         tree == IF own THEN BuildId2(Top.assoc) ELSE TreeAt(Top.master)
     IN /\ trees' = IF own THEN Stored(tree) ELSE trees
        /\ stack' = Replace([Top EXCEPT !.pc = "message", !.seen = tree,
                                        !.master = IF own THEN 0 ELSE @,
                                        !.head = IF own THEN NewTree(tree) ELSE Top.master])
  /\ UNCHANGED <<file, items, leaked>>

\* Variant: the tree is freed whoever built it.
FreeAnyTree == IF Top.head # 0 THEN Without(trees, Top.head) ELSE trees

\* if (!m_head) pst_free_id2(id2_head)
FreeOwnTree == IF Top.master = 0 /\ Top.head # 0 THEN Without(trees, Top.head) ELSE trees

\* Variant: the early exit forgets the tree.
ParseFailsKeepsTree ==
  /\ At("parse", "message") /\ ~Readable(Top.desc)
  /\ stack' = Front(stack)
  /\ UNCHANGED <<file, trees, items, leaked>>

\* The block of the message cannot be read: no item.
ParseFails ==
  /\ At("parse", "message") /\ ~Readable(Top.desc)
  /\ trees' = FreeOwnTree
  /\ stack' = Front(stack)
  /\ UNCHANGED <<file, items, leaked>>

ParseMessage ==
  /\ At("parse", "message") /\ Readable(Top.desc)
  /\ LET item == Process(Top.desc, ParseBlock(Top.desc, TreeAt(Top.head)), NewItem, 0)
     IN items' = With(items, item)
  /\ stack' = Replace([Top EXCEPT !.pc = "reports", !.item = Fresh(items)])
  /\ UNCHANGED <<file, trees, leaked>>

\* Variant: the new attachments come last.
AttachedLast(item, rows) == [item EXCEPT !.attach = @ \o [r \in DOMAIN rows |-> NewAttach]]

\* One new attachment for every row, in front of those there are.
Attached(item, rows) == [item EXCEPT !.attach = [r \in DOMAIN rows |-> NewAttach] \o @]

\* The rows of the block below the node with that id2 become attachments.
WithRows(item, node) ==
  LET rows == ParseBlock(node.id, node.child)
  IN Process(node.id, rows, Attached(item, rows), 1)

TableReadable(id2) == /\ HasId2(TreeAt(Top.head), id2)
                      /\ Readable(GetId2(TreeAt(Top.head), id2).id)

\* Delivery reports: a block that cannot be read is only reported.
ParseReports ==
  /\ At("parse", "reports")
  /\ items' = IF TableReadable(ReportsId)
              THEN [items EXCEPT ![Top.item] = WithRows(@, GetId2(TreeAt(Top.head), ReportsId))]
              ELSE items
  /\ stack' = Replace([Top EXCEPT !.pc = "table"])
  /\ UNCHANGED <<file, trees, leaked>>

\* The attachment table; without one the item is returned as it is.
ParseTable ==
  /\ At("parse", "table")
  /\ IF TableReadable(TableId)
     THEN /\ items' = [items EXCEPT ![Top.item] = WithRows(@, GetId2(TreeAt(Top.head), TableId))]
          /\ stack' = Replace([Top EXCEPT !.pc = "attach"])
     ELSE /\ UNCHANGED items
          /\ stack' = Replace([Top EXCEPT !.pc = "leave"])
  /\ UNCHANGED <<file, trees, leaked>>

(* The second pass over every attachment: its own record, which may change *)
(* id2_val, and below that record the block that holds its data.           *)
RecordOf(a) == GetId2(TreeAt(Top.head), a.id2_val)

Located(item, k, record) ==
  LET done == Process(record.id, ParseBlock(record.id, <<>>), item, k)
      id2 == done.attach[k].id2_val
  IN IF ~HasId2(record.child, id2) THEN done
     ELSE [done EXCEPT !.attach[k].i_id = GetId2(record.child, id2).id,
                       !.attach[k].id2_head = NewTree(GetId2(record.child, id2).child)]

Copy(item, k, record) ==
  LET id2 == Process(record.id, ParseBlock(record.id, <<>>), item, k).attach[k].id2_val
  IN IF HasId2(record.child, id2) THEN Stored(GetId2(record.child, id2).child) ELSE trees

ParseAttach ==
  /\ At("parse", "attach") /\ Top.at \in DOMAIN items[Top.item].attach
  /\ LET item == items[Top.item]
         found == HasId2(TreeAt(Top.head), item.attach[Top.at].id2_val)
         record == RecordOf(item.attach[Top.at])
     IN IF ~found
        THEN /\ items' = [items EXCEPT ![Top.item].attach[Top.at].id2_val = 0]
             /\ UNCHANGED trees
        ELSE IF Readable(record.id)
        THEN /\ items' = [items EXCEPT ![Top.item] = Located(item, Top.at, record)]
             /\ trees' = Copy(item, Top.at, record)
        ELSE UNCHANGED <<items, trees>>
  /\ stack' = Replace([Top EXCEPT !.at = @ + 1])
  /\ UNCHANGED <<file, leaked>>

AttachDone ==
  /\ At("parse", "attach") /\ Top.at \notin DOMAIN items[Top.item].attach
  /\ stack' = Replace([Top EXCEPT !.pc = "leave"])
  /\ UNCHANGED <<file, trees, items, leaked>>

Leave ==
  /\ At("parse", "leave")
  /\ trees' = FreeOwnTree
  /\ stack' = Replace(WriteCall(Top))
  /\ UNCHANGED <<file, items, leaked>>

-----------------------------------------------------------------------------
(* readpst: only an email of these types reaches write_normal_email; an    *)
(* embedded message only has to have an email part.                        *)
Written(frame) ==
  /\ "email" \in items[frame.item].parts
  /\ Len(stack) > 1 \/ items[frame.item].type \in {"NOTE", "SCHEDULE", "REPORT"}

AttachLeft == /\ At("write", "write") /\ Written(Top)
              /\ Top.at \in DOMAIN items[Top.item].attach

\* write_embedded_message: a descriptor without a tree of its own and the
\* copy the attachment keeps; pst_getID may not find the block.
WriteEmbedded ==
  /\ AttachLeft
  /\ LET a == items[Top.item].attach[Top.at]
     IN /\ a.method = Embedded /\ Known(a.i_id)
        /\ stack' = Append(Replace([Top EXCEPT !.at = @ + 1]), ParseCall(a.i_id, 0, a.id2_head))
  /\ UNCHANGED <<file, trees, items, leaked>>

WriteOther ==
  /\ AttachLeft
  /\ LET a == items[Top.item].attach[Top.at] IN ~(a.method = Embedded /\ Known(a.i_id))
  /\ stack' = Replace([Top EXCEPT !.at = @ + 1])
  /\ UNCHANGED <<file, trees, items, leaked>>

\* pst_freeItem, with pst_free_attach and pst_free_id2 of what each keeps.
FreeItem ==
  /\ At("write", "write") /\ ~AttachLeft
  /\ LET item == items[Top.item]
         copies == {item.attach[k].id2_head : k \in DOMAIN item.attach}
     IN /\ trees' = [a \in DOMAIN trees \ copies |-> trees[a]]
        /\ leaked' = leaked \cup Unfreed(item)
        /\ items' = Without(items, Top.item)
  /\ stack' = Front(stack)
  /\ UNCHANGED file

Done == stack = <<>> /\ UNCHANGED vars

Next == \/ Enter \/ ParseFails \/ ParseMessage \/ ParseReports \/ ParseTable
        \/ ParseAttach \/ AttachDone \/ Leave
        \/ WriteEmbedded \/ WriteOther \/ FreeItem \/ Done

Spec == Init /\ [][Next]_vars

-----------------------------------------------------------------------------
TypeOK ==
  /\ DOMAIN trees \subseteq Nat \ {0} /\ DOMAIN items \subseteq Nat \ {0}
  /\ leaked \subseteq AllFields
  /\ \A s \in DOMAIN stack : /\ stack[s].item \in DOMAIN items \cup {0}
                             /\ s < Len(stack) => stack[s].call = "write"

\* Who has to free the tree at a: a call that built it, or an attachment.
Owners(a) ==
  {<<"call", s>> : s \in {s \in DOMAIN stack : stack[s].head = a /\ stack[s].master = 0}}
  \cup UNION {{<<i, k>> : k \in {k \in DOMAIN items[i].attach : items[i].attach[k].id2_head = a}}
              : i \in DOMAIN items}

(* Every allocated tree has exactly one owner, and every tree a call still *)
(* searches or has borrowed is allocated: pst_parse_item frees the tree on *)
(* each of its exits if and only if it built it, and an attachment never   *)
(* keeps a pointer into the tree that is freed with the call.  The calls   *)
(* nest no deeper than half the levels of a tree: an embedded message is   *)
(* parsed with what lies two levels further down, also in a file whose     *)
(* blocks form a cycle.                                                    *)
TreesOwned ==
  /\ TypeOK
  /\ Len(stack) <= (MaxDepth + 1) \div 2 + 1
  /\ \A a \in DOMAIN trees : Cardinality(Owners(a)) = 1
  /\ \A s \in DOMAIN stack : {stack[s].head, stack[s].master} \subseteq DOMAIN trees \cup {0}
  /\ \A i \in DOMAIN items : \A k \in DOMAIN items[i].attach :
       items[i].attach[k].id2_head \in DOMAIN trees \cup {0}

(* When everything has been written, nothing is left: no tree, no item,    *)
(* and of all the buffers that some property can store in an item only the *)
(* description of a journal entry, which pst_freeItem forgets.             *)
NothingLeft ==
  /\ leaked \subseteq {<<"journal", "description">>}
  /\ stack = <<>> => trees = <<>> /\ items = <<>>

\* Whether pst_parse_block can read the block of the node with that id2, and
\* what it makes of it.
HasRows(tree, id2) == HasId2(tree, id2) /\ Readable(GetId2(tree, id2).id)
RowsOf(tree, id2) ==
  IF HasRows(tree, id2) THEN ParseBlock(GetId2(tree, id2).id, GetId2(tree, id2).child) ELSE <<>>

\* What becomes of the only attachment of a message: its row is processed into
\* it, and then the record that one names.
Only(a) == [NewItem EXCEPT !.attach = <<a>>]
Alone(a, row) == ProcessRow(Only(a), 1, row).attach[1]
ByRow(row) == Alone(NewAttach, row)
ByRecord(tree, a) ==
  LET id == GetId2(tree, a.id2_val).id
  IN Process(id, ParseBlock(id, <<>>), Only(a), 1).attach[1]

\* The data is that of the node with that id2, and the copy the tree below it.
DataFrom(tree, a) ==
  IF HasId2(tree, a.id2_val)
  THEN a.i_id = GetId2(tree, a.id2_val).id /\ TreeAt(a.id2_head) = GetId2(tree, a.id2_val).child
  ELSE a.i_id = 0 /\ a.id2_head = 0

\* Attachment a of a message with this tree is what its row alone leads to;
\* without an attachment table no record is looked up.
Resolved(tree, row, a) ==
  LET first == ByRow(row)
  IN IF ~HasRows(tree, TableId) THEN a = first
     ELSE IF ~HasId2(tree, first.id2_val) THEN a = [first EXCEPT !.id2_val = 0]
     ELSE IF ~HasRows(tree, first.id2_val) THEN a = first
     ELSE /\ [a EXCEPT !.i_id = 0, !.id2_head = 0] = ByRecord(tree, first)
          /\ DataFrom(GetId2(tree, first.id2_val).child, a)

OneObject(tree, row) == Len(RowsOf(tree, ByRow(row).id2_val)) <= 1

(* Rows and attachments stay paired, although the attachments of delivery  *)
(* reports come into the same list before those of the table and id2       *)
(* values are reused below other records: there is one attachment for      *)
(* every row, those of the table first and in its order, and each is what  *)
(* it would be in a message without any other, in its fields, the block    *)
(* its data is in and the tree below that data.  Records of several        *)
(* objects, which the code expects to overrun the list of attachments, are *)
(* the exception: they may reach the attachments behind their own.         *)
AttachmentResolved ==
  \A s \in DOMAIN stack :
    LET tree == stack[s].seen
        rows == RowsOf(tree, TableId) \o RowsOf(tree, ReportsId)
        attach == items[stack[s].item].attach
    IN stack[s].call = "write" =>
         /\ Len(attach) = Len(rows)
         /\ \A r \in DOMAIN rows :
              (\A q \in 1 .. r - 1 : OneObject(tree, rows[q])) => Resolved(tree, rows[r], attach[r])
=============================================================================
