---------------------------- MODULE PropertyBlock ----------------------------
(***************************************************************************)
(* pst_parse_block of libpst.c: a block of MAPI properties, in one piece   *)
(* or in sub-blocks, becomes a list of objects with their elements.  What  *)
(* can go wrong here is memory: seven offset pointers that may or may not  *)
(* own what they point to, slots of elements that are skipped and used     *)
(* again, and counts in the file that promise more than there is.          *)
(*                                                                         *)
(* What the file says is chosen when it is read.  A buffer is a number, 0  *)
(* is NULL.  Of a size only matters whether it is 0, but for the rows of a *)
(* table; of a type whether it is 0 ("none"), a type of the format         *)
(* ("known") or any other number.                                          *)
(***************************************************************************)
EXTENDS Integers, Sequences, FiniteSets, SequencesExt

CONSTANTS MaxSubs,     \* bound on the sub-blocks of a block
          MaxElements, \* bound on the elements of an object
          MaxObjects,  \* bound on the objects of a table
          MaxCells,    \* bound on the elements of all its objects
          PageSize,    \* ind2_max_block_size: rows of a table do not cross it
          RowSizes,    \* the sizes a row can have
          RowEnds      \* the sizes a row matrix can have

ASSUME BoundsAssumption ==
  /\ {MaxSubs, MaxElements, MaxObjects, MaxCells} \subseteq Nat
  /\ PageSize \in Nat \ {0} /\ RowSizes \subseteq 1 .. PageSize /\ RowEnds \subseteq Nat

VARIABLES
  pc,     \* "read", "header", "bc", "7c", "7c5", "object", "element", "returned", "done"
  heap,   \* the buffers that are allocated
  subs,   \* subblocks.subs[i].buf
  ptr,    \* block_offset1 to block_offset7: buffer and needfree
  shape,  \* the type of the block, its counts, how many records its list holds
  list,   \* the objects, newest first (mo_head)
  n,      \* count_mapi_elements
  x,      \* the slot the next element goes to
  row     \* ind2_ptr, ind2_block_start and ind2_end, from the start of the matrix

vars == <<pc, heap, subs, ptr, shape, list, n, x, row>>

NoPtr == [buf |-> 0, need |-> FALSE]
NoShape == [kind |-> "none", elements |-> 0, objects |-> 0, records |-> 0, recSize |-> 1]
NoRow == [at |-> 0, start |-> 0, end |-> 0]

\* slot says what became of the pointer: NULL, allocated and zeroed ("empty"),
\* or filled from a record with a reference type that is known or is not.
NoElement == [slot |-> "null", data |-> 0, size |-> 0, type |-> "none"]
SkippedElement == [NoElement EXCEPT !.slot = "empty"]

Init ==
  /\ pc = "read" /\ heap = {} /\ subs = <<>>
  /\ ptr = [i \in 1 .. 7 |-> NoPtr]
  /\ shape = NoShape /\ list = <<>> /\ n = 0 /\ x = 1 /\ row = NoRow

New(h) == CHOOSE b \in 1 .. Cardinality(h) + 1 : b \notin h
Buffers(s) == ToSet(s) \ {0}
Owned(p) == {p[i].buf : i \in {i \in DOMAIN p : p[i].need}}

-----------------------------------------------------------------------------
(* Reading the block.                                                      *)

\* The block is missing or shorter than its header: NULL.
ReadFails ==
  /\ pc = "read"
  /\ pc' = "done"
  /\ UNCHANGED <<heap, subs, ptr, shape, list, n, x, row>>

ReadSingle ==
  /\ pc = "read"
  /\ heap' = {1} /\ subs' = <<1>>
  /\ pc' = "header"
  /\ UNCHANGED <<ptr, shape, list, n, x, row>>

(* Type 0x0101: the sub-blocks that can be read; a table that ends early   *)
(* leaves the rest NULL.  The table itself is freed.  No sub-blocks at all *)
(* is a failure, and so is a first one that cannot be read.                *)
ReadSubBlocks ==
  /\ pc = "read"
  /\ \E count \in 0 .. MaxSubs : \E readable \in SUBSET (1 .. count) :
       LET bufs == [i \in 1 .. count |-> IF i \in readable THEN i ELSE 0]
       IN IF 1 \in readable
          THEN heap' = readable /\ subs' = bufs /\ pc' = "header"
          ELSE heap' = {} /\ subs' = <<>> /\ pc' = "done"
  /\ UNCHANGED <<ptr, shape, list, n, x, row>>

(* pst_getBlockOffsetPointer: the pointer gives back what it owned, then   *)
(* is NULL, points into a sub-block (pst_getBlockOffset) or owns the data  *)
(* of an id2.                                                              *)
Pointers(h) ==
  {[heap |-> h, to |-> NoPtr]}
  \cup {[heap |-> h, to |-> [buf |-> b, need |-> FALSE]] : b \in Buffers(subs)}
  \cup {[heap |-> h \cup {New(h)}, to |-> [buf |-> New(h), need |-> TRUE]]}

\* Variant: what the pointer owned is not given back.
GetPointerKeeps(h, i) == Pointers(h)

GetPointer(h, i) == Pointers(IF ptr[i].need THEN h \ {ptr[i].buf} ELSE h)

\* freeall: every sub-block and what the pointers own.
FreeAll(h, p) == h \ (Buffers(subs) \cup Owned(p))

\* freeall and return NULL.
Refuse(h, p) == /\ heap' = FreeAll(h, p) /\ subs' = <<>>
                /\ ptr' = [i \in 1 .. 7 |-> NoPtr]
                /\ pc' = "done"

Unparsed == UNCHANGED <<list, n, x>>

UnknownType ==
  /\ pc = "header"
  /\ Refuse(heap, ptr)
  /\ Unparsed /\ UNCHANGED <<shape, row>>

\* block_offset i is set; ok says that it is large enough and that the
\* constants in it are the right ones.
Fetch(i, next) ==
  \E got \in GetPointer(heap, i), ok \in BOOLEAN :
    LET p == [ptr EXCEPT ![i] = got.to]
    IN IF got.to = NoPtr \/ ~ok THEN Refuse(got.heap, p)
       ELSE heap' = got.heap /\ ptr' = p /\ pc' = next /\ UNCHANGED subs

\* 0xBCEC: the table of the properties of one object.
BcHeader ==
  /\ pc = "header" /\ Fetch(1, "bc")
  /\ Unparsed /\ UNCHANGED <<shape, row>>

BcList ==
  /\ pc = "bc" /\ Fetch(2, "object")
  /\ \E count \in 0 .. MaxElements :
       shape' = [kind |-> "bc", elements |-> count, objects |-> 1, records |-> count, recSize |-> 1]
  /\ Unparsed /\ UNCHANGED row

\* 0x7CEC: a table; its list of columns may be shorter than it says.
SevenHeader ==
  /\ pc = "header" /\ Fetch(3, "7c")
  /\ \E count \in 0 .. MaxElements, size \in RowSizes : \E records \in 0 .. count :
       shape' = [kind |-> "7c", elements |-> count, objects |-> 0, records |-> records, recSize |-> size]
  /\ Unparsed /\ UNCHANGED row

\* Without a value in the 0xB5 record there are no rows.
SevenFive ==
  /\ pc = "7c" /\ (Fetch(4, "object") \/ Fetch(4, "7c5"))
  /\ Unparsed /\ UNCHANGED <<shape, row>>

\* block_offset5 gives the number of rows, block_offset6 the rows.
SevenRows ==
  /\ pc = "7c5"
  /\ \E five \in GetPointer(heap, 5) :
       LET p == [ptr EXCEPT ![5] = five.to]
       IN IF five.to = NoPtr THEN Refuse(five.heap, p)
          ELSE \E six \in GetPointer(five.heap, 6) :
                 IF six.to = NoPtr THEN Refuse(six.heap, [p EXCEPT ![6] = six.to])
                 ELSE /\ heap' = six.heap /\ ptr' = [p EXCEPT ![6] = six.to]
                      /\ pc' = "object" /\ UNCHANGED subs
  /\ \E count \in 0 .. MaxObjects : /\ count * shape.elements <= MaxCells
                                    /\ shape' = [shape EXCEPT !.objects = count]
  /\ \E end \in RowEnds : row' = [NoRow EXCEPT !.end = end]
  /\ Unparsed

-----------------------------------------------------------------------------
(* The objects and their elements.                                         *)
NewObject ==
  /\ pc = "object" /\ Len(list) < shape.objects
  /\ list' = <<[elements |-> [i \in 1 .. shape.elements |-> NoElement], count |-> shape.elements,
                objects |-> shape.objects]>> \o list
  /\ n' = 0 /\ x' = 1
  /\ pc' = "element"
  /\ UNCHANGED <<heap, subs, ptr, shape, row>>

HasRecord == pc = "element" /\ n < shape.elements /\ n < shape.records

\* The slot is filled with an element: x and the loop move on.
Fill(h, p, element) ==
  /\ list' = [list EXCEPT ![1].elements[x] = element]
  /\ heap' = h /\ ptr' = p
  /\ x' = x + 1 /\ n' = n + 1
  /\ UNCHANGED <<pc, subs, shape, row>>

\* A type of 0 is replaced by the type of the record.
Element(data, size, type) ==
  [slot |-> "known", data |-> data, size |-> size, type |-> IF type = "none" THEN "known" ELSE type]

\* Two or four bytes, a Boolean: copied from the record.
InlineElement ==
  HasRecord /\ Fill(heap \cup {New(heap)}, ptr, Element(New(heap), 1, "known"))

\* A type nobody knows: an element that stays zeroed, and is counted.
UnknownElement ==
  HasRecord /\ Fill(heap, ptr, [NoElement EXCEPT !.slot = "unknown"])

ElementTypes == {"none", "known", "other"}

(* What is done with the types 0x0d and 0x1f after their data was copied.  *)
(* The data of an object is read into the buffer that holds its id2, which *)
(* the id is then read from once more: after a failure that has moved or   *)
(* shrunk the buffer it may be any number, and 0 or a known type too.  A   *)
(* converted string is a new buffer with its zero at least, unless the     *)
(* conversion fails.                                                       *)
ObjectRead(h, data) == [heap |-> h, element |-> Element(data, 1, "known")]

\* Variant: what the failed read has left is released, but the size stays that
\* of the record with the id.
AfterObjectSized(h, data) ==
  {ObjectRead(h, data)}
  \cup {[heap |-> h \ {data}, element |-> Element(0, 1, type)] : type \in ElementTypes}

AfterObject(h, data) ==
  {ObjectRead(h, data)}
  \cup {[heap |-> h \ {data}, element |-> Element(0, 0, type)] : type \in ElementTypes}

AfterString(h, data, size, type) ==
  LET rest == h \ {data}
  IN {[heap |-> h, element |-> Element(data, size, type)],
      [heap |-> rest \cup {New(rest)}, element |-> Element(New(rest), 1, type)]}

After(ref, h, data, size, type) ==
  CASE ref = "object" -> AfterObject(h, data)
    [] ref = "string" -> AfterString(h, data, size, type)
    [] OTHER -> {[heap |-> h, element |-> Element(data, size, type)]}

References == {"object", "string", "binary"}

\* A row of a table that lies in the matrix; outside of it a value is 0.
RowThere == shape.kind = "7c" /\ row.at < row.end

\* More than four bytes in the row itself.
LargeElement ==
  /\ HasRecord /\ RowThere
  /\ \E ref \in References : \E r \in After(ref, heap \cup {New(heap)}, New(heap), 1, "known") :
       Fill(r.heap, ptr, r.element)

\* The slot is left as memset made it, for the next element.
SkipElement(p, h) ==
  /\ list' = [list EXCEPT ![1].elements[x] = SkippedElement, ![1].count = @ - 1]
  /\ heap' = h /\ ptr' = p
  /\ n' = n + 1
  /\ UNCHANGED <<pc, subs, shape, x, row>>

\* The pointer for the values.
ValueSlot == 7

\* Nothing is there: skipped.
MissingElement ==
  /\ HasRecord
  /\ \E got \in GetPointer(heap, ValueSlot) :
       /\ got.to = NoPtr
       /\ SkipElement([ptr EXCEPT ![ValueSlot] = got.to], got.heap)

\* An id2 that cannot be read now is left to be read later: the type is its
\* number, which may look like a known type.  An object has no data then to
\* take its id2 from (see the README).
LaterElement ==
  /\ HasRecord /\ (shape.kind = "bc" \/ RowThere)
  /\ \E got \in GetPointer(heap, ValueSlot), ref \in References \ {"object"} :
       /\ got.to = NoPtr
       /\ \E type \in ElementTypes \ {"none"} : \E r \in After(ref, got.heap, 0, 0, type) :
            Fill(r.heap, [ptr EXCEPT ![ValueSlot] = got.to], r.element)

\* A copy of what the pointer gives: nothing, perhaps, of a sub-block, but
\* never of an id2 that could be read.
CopiedElement ==
  /\ HasRecord /\ (shape.kind = "bc" \/ RowThere)
  /\ \E got \in GetPointer(heap, ValueSlot), ref \in References :
       /\ got.to # NoPtr
       /\ \E size \in IF got.to.need THEN {1} ELSE {0, 1} :
          \E r \in After(ref, got.heap \cup {New(got.heap)}, New(got.heap), size, "known") :
            Fill(r.heap, [ptr EXCEPT ![ValueSlot] = got.to], r.element)

\* Variant: pages are filled to the last byte.
NextRowPacked == [row EXCEPT !.at = @ + shape.recSize]

\* The next row, at the start of the next page if it would cross its end.
NextRow ==
  LET at == row.at + shape.recSize
  IN IF at + shape.recSize > row.start + PageSize
     THEN [row EXCEPT !.start = @ + PageSize, !.at = row.start + PageSize]
     ELSE [row EXCEPT !.at = at]

\* Variant: the count of elements that was promised is kept.
EndObjectPromised ==
  /\ pc = "element" /\ ~HasRecord
  /\ row' = IF shape.kind = "7c" THEN NextRow ELSE row
  /\ pc' = "object"
  /\ UNCHANGED <<heap, subs, ptr, shape, list, n, x>>

\* count_elements becomes the number of slots that were filled.
EndObject ==
  /\ pc = "element" /\ ~HasRecord
  /\ list' = [list EXCEPT ![1].count = x - 1]
  /\ row' = IF shape.kind = "7c" THEN NextRow ELSE row
  /\ pc' = "object"
  /\ UNCHANGED <<heap, subs, ptr, shape, n, x>>

\* freeall; the caller gets the list, which is NULL without objects.
Return ==
  /\ pc = "object" /\ Len(list) = shape.objects
  /\ heap' = FreeAll(heap, ptr) /\ subs' = <<>> /\ ptr' = [i \in 1 .. 7 |-> NoPtr]
  /\ pc' = "returned"
  /\ UNCHANGED <<shape, list, n, x, row>>

\* pst_free_list, over all the slots an object was made with.
Data(object) == {object.elements[i].data : i \in DOMAIN object.elements} \ {0}

FreeList ==
  /\ pc = "returned"
  /\ heap' = heap \ UNION {Data(object) : object \in ToSet(list)}
  /\ list' = <<>>
  /\ pc' = "done"
  /\ UNCHANGED <<subs, ptr, shape, n, x, row>>

Done == pc = "done" /\ UNCHANGED vars

Next == \/ ReadFails \/ ReadSingle \/ ReadSubBlocks
        \/ UnknownType \/ BcHeader \/ BcList \/ SevenHeader \/ SevenFive \/ SevenRows
        \/ NewObject \/ InlineElement \/ UnknownElement \/ LargeElement
        \/ MissingElement \/ LaterElement \/ CopiedElement
        \/ EndObject \/ Return \/ FreeList \/ Done

Spec == Init /\ [][Next]_vars

-----------------------------------------------------------------------------
\* Everything that frees b one day: a sub-block, a pointer, an element.
Owners(b) ==
  {<<"sub", i, 0>> : i \in {i \in DOMAIN subs : subs[i] = b}}
  \cup {<<"ptr", i, 0>> : i \in {i \in DOMAIN ptr : ptr[i].need /\ ptr[i].buf = b}}
  \cup UNION {{<<"list", o, i>> : i \in {i \in DOMAIN list[o].elements : list[o].elements[i].data = b}}
              : o \in DOMAIN list}

(* Every buffer has exactly one owner, whatever fails on the way: nothing  *)
(* is lost when a pointer is set again, when a slot is used again or when  *)
(* a block is refused, nothing is freed twice, and the list of elements    *)
(* and the rows stay allocated while elements are read from them.          *)
BuffersOwned ==
  /\ \A b \in heap : Cardinality(Owners(b)) = 1
  /\ \A i \in DOMAIN ptr : ptr[i].buf \in heap \cup {0}
  /\ Buffers(subs) \subseteq heap
  /\ \A object \in ToSet(list) : Data(object) \subseteq heap
  /\ pc = "element" => (IF shape.kind = "bc" THEN ptr[2].buf ELSE ptr[3].buf) \in heap
  /\ pc = "done" => heap = {}

(* What a caller gets: every object counts the objects of the list, and    *)
(* the elements it counts are there: each was filled from a record, none   *)
(* is a slot that was skipped or never reached, whatever was skipped, used *)
(* again or cut short.  An element with a size has data, also when reading *)
(* an object or converting a string has failed half way (callers copy size *)
(* bytes), and one of a known reference type has a type.                   *)
ElementsSound ==
  pc = "returned" =>
    \A object \in ToSet(list) :
      /\ object.objects = Len(list)
      /\ object.count <= Len(object.elements)
      /\ \A i \in 1 .. object.count :
           LET element == object.elements[i]
           IN /\ element.slot \in {"unknown", "known"}
              /\ element.size # 0 => element.data # 0
              /\ element.slot = "known" => element.type # "none"

(* The rows of a table lie where the format has them: as many as fit into  *)
(* a page, and the next at the start of the next page.                     *)
RowsInPages ==
  shape.kind = "7c" /\ pc \in {"object", "element"} /\ shape.objects > 0 =>
    LET done == IF pc = "element" THEN Len(list) - 1 ELSE Len(list)
        perPage == PageSize \div shape.recSize
    IN row.at = (done \div perPage) * PageSize + (done % perPage) * shape.recSize
=============================================================================
