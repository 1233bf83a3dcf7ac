----------------------------- MODULE IndexTree ------------------------------
(***************************************************************************)
(* pst_load_index() of libpst.c: the recursive descent into the index1     *)
(* b-tree (pst_build_id_ptr), which fills the table i_table, then into the *)
(* index2 b-tree (pst_build_desc_ptr), whose records keep pointers that    *)
(* pst_getID found in the table.                                           *)
(*                                                                         *)
(* A block of the file is chosen when it is read: its level and its        *)
(* entries, in any order and with any values, so that a damaged file is a  *)
(* possible file.  The result of a subtree is ignored by its parent, as in *)
(* the code.                                                               *)
(***************************************************************************)
EXTENDS Integers, Sequences, SequencesExt

CONSTANTS MaxId,      \* ids are 1 .. MaxId; MaxId + 1 stands for UINT64_MAX
          DescStart,  \* the lowest descriptor id, 0x21 in the code
          MaxDepth,   \* PST_MAX_BTREE_DEPTH
          GrowBy,     \* the constant 16 of the growth of i_table
          MaxBlock,   \* bound on the entries of a block
          MaxEntries, \* bounds on the entries of all blocks of the index1
          MaxDescs    \* and of the index2 tree

ASSUME SizesAssumption ==
  /\ {MaxId, MaxDepth, MaxBlock, MaxEntries, MaxDescs} \subseteq Nat
  /\ DescStart \in 0 .. MaxId
  /\ GrowBy \in Nat \ {0}

VARIABLES
  phase,       \* the tree that is being read, an index into Trees
  stack,       \* the activations of pst_build_id_ptr or pst_build_desc_ptr
  i_table,     \* the ids of the table; i_count is its length
  i_capacity,
  moves,       \* history: how often pst_realloc may have moved the table
  descs,       \* history: the pointers the descriptors hold
  failed,      \* history: some call has returned -1
  budget       \* entries the blocks still to be read may have

vars == <<phase, stack, i_table, i_capacity, moves, descs, failed, budget>>

-----------------------------------------------------------------------------
Overrun == -1  \* an entry that would lie behind the end of the block
Infinity == MaxId + 1
\* Nothing is read behind an entry that ends the loop over a block.
Blocks == {b \in BoundedSeq({Overrun} \cup 0 .. MaxId, MaxBlock) :
             \A x \in 1 .. Len(b) - 1 : b[x] > 0}
Keys == 0 .. Infinity

\* Mutant of Trees: the table is extended when descriptors point into it.
TreesReloaded == <<"id", "desc", "id">>

\* The order of pst_load_index.
Trees == <<"id", "desc">>
Tree == Trees[phase]
Loading == phase <= Len(Trees)

NewFrame(from, to) ==
  [start |-> from, end |-> to, old |-> from, level |-> "enter", rest |-> <<>>]
Root(t) == NewFrame(IF t = "id" THEN 0 ELSE DescStart, Infinity)

Top == stack[Len(stack)]
Entry == Head(Top.rest)

\* Mutant of EndOf: the subtree gets the bound of the node.
EndOfNode(f) == f.end

\* The bound of the subtree of an entry: the next entry, or the bound of the node.
EndOf(f) == IF Len(f.rest) > 1 THEN f.rest[2] ELSE f.end

InRange(id) == id >= Top.old /\ id < Top.end

\* The low bit of an id is not part of it.
Even(key) == key - (key % 2)

\* bsearch() of the C library for s[3] between the positions s[1] and s[2], 0 when
\* it finds nothing.
Places == 1 .. MaxEntries + 1
Search[s \in Places \X Places \X Keys] ==
  IF s[1] >= s[2] THEN 0
  ELSE LET m == (s[1] + s[2]) \div 2
       IN  IF s[3] = i_table[m] THEN m
           ELSE IF s[3] < i_table[m] THEN Search[<<s[1], m, s[3]>>]
           ELSE Search[<<m + 1, s[2], s[3]>>]

\* Mutant of GetID: the low bit of the id is looked up too.
GetIDUnmasked(key) ==
  IF key = 0 THEN 0 ELSE Search[<<1, Len(i_table) + 1, key>>]

\* pst_getID: the position of a block in the table, or 0 for NULL.
GetID(key) ==
  IF key = 0 THEN 0 ELSE Search[<<1, Len(i_table) + 1, Even(key)>>]

\* The current call returns: to the loop of its caller, or to pst_load_index.
Leave ==
  LET rest == Front(stack)
  IN  IF rest # <<>> THEN stack' = rest /\ UNCHANGED <<phase, budget>>
      ELSE /\ phase' = phase + 1
           /\ stack' = IF phase < Len(Trees) THEN <<Root(Trees[phase + 1])>> ELSE <<>>
           /\ budget' = MaxDescs

Return == Leave /\ UNCHANGED <<i_table, i_capacity, moves, descs, failed>>
Fail == Leave /\ failed' = TRUE /\ UNCHANGED <<i_table, i_capacity, moves, descs>>

SetTop(f) == [stack EXCEPT ![Len(stack)] = f]

-----------------------------------------------------------------------------
Init ==
  /\ phase = 1
  /\ stack = <<Root(Trees[1])>>
  /\ i_table = <<>> /\ i_capacity = 0 /\ moves = 0
  /\ descs = <<>>
  /\ failed = FALSE
  /\ budget = MaxEntries

\* Mutant of TooDeep: the depth is not tested.
NeverTooDeep == FALSE

TooDeep == Len(stack) - 1 > MaxDepth

\* The tests before a block is read, and a block that cannot be used: a short
\* read, more items than the maximum, a back link that does not match.
Refuse ==
  /\ Loading /\ Top.level = "enter"
  /\ Fail

Read ==
  /\ Loading /\ Top.level = "enter"
  /\ ~TooDeep /\ Top.end > Top.start
  /\ \E level \in {"leaf", "inner"}, b \in Blocks :
       /\ Len(b) <= budget
       /\ stack' = SetTop([Top EXCEPT !.level = level, !.rest = b])
       /\ budget' = budget - Len(b)
  /\ UNCHANGED <<phase, i_table, i_capacity, moves, descs, failed>>

\* The loop over the entries is over.
EndBlock ==
  /\ Loading /\ Top.level # "enter" /\ Top.rest = <<>>
  /\ Return

\* An entry the loop looks at; an id of 0 ends it in the index1 tree and in the
\* inner nodes of both.
HasEntry == Loading /\ Top.level # "enter" /\ Top.rest # <<>>
ZeroEnds == Tree = "id" \/ Top.level = "inner"

StopAtZero ==
  /\ HasEntry /\ ZeroEnds /\ Entry = 0
  /\ Return

\* "This item isn't right. Must be corruption, or I got it wrong!"
BadEntry ==
  /\ HasEntry /\ (ZeroEnds => Entry # 0)
  /\ \/ Entry = Overrun
     \/ Top.level = "inner" /\ EndOf(Top) = Overrun
     \/ ~InRange(Entry)
  /\ Fail

Good(level) ==
  /\ HasEntry /\ Top.level = level
  /\ Entry # Overrun /\ InRange(Entry)
  /\ ZeroEnds => Entry # 0

Passed == [Top EXCEPT !.old = Entry, !.rest = Tail(@)]

\* A leaf of index1: the item goes to the end of the table.
AddIndex ==
  /\ Good("leaf") /\ Tree = "id"
  /\ i_table' = Append(i_table, Entry)
  /\ IF Len(i_table) = i_capacity
     THEN i_capacity' = i_capacity + i_capacity \div 2 + GrowBy /\ moves' = moves + 1
     ELSE UNCHANGED <<i_capacity, moves>>
  /\ stack' = SetTop(Passed)
  /\ UNCHANGED <<phase, descs, failed, budget>>

\* A leaf of index2: the descriptor points into the table.
AddDesc ==
  /\ Good("leaf") /\ Tree = "desc"
  /\ \E key \in Keys :
       descs' = Append(descs, [key |-> key, at |-> GetID(key), moves |-> moves])
  /\ stack' = SetTop(Passed)
  /\ UNCHANGED <<phase, i_table, i_capacity, moves, failed, budget>>

\* An inner node: the recursive call for the subtree of the entry.
Descend ==
  /\ Good("inner") /\ EndOf(Top) # Overrun
  /\ stack' = Append(SetTop(Passed), NewFrame(Entry, EndOf(Top)))
  /\ UNCHANGED <<phase, i_table, i_capacity, moves, descs, failed, budget>>

Next == Refuse \/ Read \/ EndBlock \/ StopAtZero \/ BadEntry \/ AddIndex \/ AddDesc \/ Descend

Spec == Init /\ [][Next]_vars

-----------------------------------------------------------------------------
Frame == [start : Keys, end : Keys, old : Keys, level : {"enter", "leaf", "inner"},
          rest : Seq({Overrun} \cup 0 .. MaxId)]

\* The type invariant.
TypeOK ==
  /\ phase \in 1 .. 3
  /\ stack \in Seq(Frame) /\ (stack = <<>>) = ~Loading
  /\ i_table \in Seq(0 .. MaxId)
  /\ i_capacity \in Nat
  /\ moves \in Nat /\ failed \in BOOLEAN /\ budget \in Nat
  /\ descs \in Seq([key : Keys, at : 0 .. Len(i_table), moves : Nat])

Sorted == \A x, y \in DOMAIN i_table : x < y => i_table[x] <= i_table[y]

\* What the recursion over the index1 tree promises.  The stack of the C program
\* is bounded although a block may lead back to a block above it, and the table
\* never outgrows its memory.  bsearch needs a sorted table: the bound of a
\* subtree is taken from the next entry before that entry has been tested, and
\* the failure of a subtree is ignored; still, as long as no call has failed, the
\* table is sorted.
IndexSound ==
  /\ Len(stack) <= MaxDepth + 2
  /\ Len(i_table) <= i_capacity
  /\ ~failed => Sorted

\* So pst_getID finds every block of an index that was accepted, with the low bit
\* of the id set or not, and nothing else.
LookupFinds ==
  /\ TypeOK
  /\ ~failed =>
       \A key \in Keys \ {0} :
         IF Contains(i_table, Even(key))
         THEN GetID(key) # 0 /\ i_table[GetID(key)] = Even(key)
         ELSE GetID(key) = 0

\* A descriptor keeps a pointer into the table: the table never moves or changes
\* afterwards, so the pointer still leads to the block it was looked up for.
DescPointersValid ==
  \A x \in DOMAIN descs :
    LET d == descs[x]
    IN  d.at # 0 => d.moves = moves /\ i_table[d.at] = Even(d.key)
=============================================================================
