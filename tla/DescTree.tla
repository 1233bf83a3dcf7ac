------------------------------ MODULE DescTree ------------------------------
(***************************************************************************)
(* The descriptor tree of a pst_file: record_descriptor(), pst_getDptr(),  *)
(* pst_getTopOfFolders() and pst_getNextDptr() of libpst.c, pointer by     *)
(* pointer.  The nodes are numbered in the order they are allocated; 0 is  *)
(* the NULL pointer.  The records of the index2 b-tree come in any order,  *)
(* ids may repeat and a parent may come after its children or never.       *)
(***************************************************************************)
EXTENDS Integers, Sequences, FiniteSets, SequencesExt

CONSTANTS MaxNodes,  \* bound on the descriptors of a file
          Ids,       \* descriptor ids the index2 b-tree may hold
          Wants,     \* parent ids; 0 is "no parent"
          TopIds     \* ids the message store may name as the top of folders

ASSUME NodesAssumption == MaxNodes \in Nat \ {0}
ASSUME IdsAssumption == Ids \subseteq Nat /\ Wants \subseteq Nat /\ TopIds \subseteq Nat

VARIABLES
  pc,                      \* "idle", a loop of record_descriptor or of pst_getDptr
  d_id, parent_d_id,       \* the ids of the allocated nodes, in order
  next, prev, parent,      \* the pointers of each node
  child, child_tail, no_child,
  d_head, d_tail,          \* the top level list of the pst_file
  node,                    \* the node record_descriptor works on, or 0
  cur,                     \* the loop variable: n of the adoption, ptr of a walk
  caller,                  \* who walks the tree: "record", "top" or "walk"
  goal,                    \* the id pst_getDptr looks for
  seen,                    \* history: the nodes the current walk has compared
  topnode                  \* the result of pst_getTopOfFolders, 0 before

ids == <<d_id, parent_d_id>>
kidLists == <<parent, child, child_tail, no_child>>
topList == <<d_head, d_tail>>
links == <<next, prev, kidLists, topList>>
walk == <<cur, caller, goal, seen>>
vars == <<pc, ids, links, node, walk, topnode>>

-----------------------------------------------------------------------------
Nodes == 1 .. MaxNodes
Ptr == 0 .. MaxNodes
Count == Len(d_id)
Allocated == 1 .. Count
NoId == -1

\* An assignment through a pointer that the code has tested for NULL.
Put(f, p, v) == IF p = 0 THEN f ELSE [f EXCEPT ![p] = v]
OrElse(p, q) == IF p = 0 THEN q ELSE p

\* Mutant of AddToTop: the node is put at the front.
AddToTopFront(n) ==
  /\ next' = [next EXCEPT ![n] = d_head]
  /\ prev' = [Put(prev, d_head, n) EXCEPT ![n] = 0]
  /\ d_head' = n
  /\ d_tail' = OrElse(d_tail, n)

\* add_descriptor_to_list(n, &pf->d_head, &pf->d_tail)
AddToTop(n) ==
  /\ next' = [Put(next, d_tail, n) EXCEPT ![n] = 0]
  /\ prev' = [prev EXCEPT ![n] = d_tail]
  /\ d_head' = OrElse(d_head, n)
  /\ d_tail' = n

\* Mutants of AddToParent: the parent pointer is not set; the head of the list
\* is always replaced.
AddWithoutParent(n, p) ==
  /\ no_child' = [no_child EXCEPT ![p] = @ + 1]
  /\ parent' = parent
  /\ child' = [child EXCEPT ![p] = OrElse(@, n)]
  /\ child_tail' = [child_tail EXCEPT ![p] = n]
\* no_child++, parent = p and add_descriptor_to_list(n, &p->child, &p->child_tail)
AddToParent(n, p) ==
  /\ no_child' = [no_child EXCEPT ![p] = @ + 1]
  /\ parent' = [parent EXCEPT ![n] = p]
  /\ child' = [child EXCEPT ![p] = OrElse(@, n)]
  /\ child_tail' = [child_tail EXCEPT ![p] = n]

\* pst_malloc of a node and the start of record_descriptor.
StartRecord(i, w) ==
  /\ d_id' = Append(d_id, i)
  /\ parent_d_id' = Append(parent_d_id, w)
  /\ node' = Count + 1
  /\ cur' = d_head
  /\ pc' = "adopt"
  /\ UNCHANGED links

StartSearch(who, i) ==
  /\ pc' = "search"
  /\ cur' = d_head
  /\ caller' = who
  /\ goal' = i
  /\ seen' = {}

-----------------------------------------------------------------------------
Init ==
  /\ pc = "idle"
  /\ d_id = <<>> /\ parent_d_id = <<>>
  /\ next = [n \in Nodes |-> 0] /\ prev = [n \in Nodes |-> 0]
  /\ parent = [n \in Nodes |-> 0]
  /\ child = [n \in Nodes |-> 0] /\ child_tail = [n \in Nodes |-> 0]
  /\ no_child = [n \in Nodes |-> 0]
  /\ d_head = 0 /\ d_tail = 0
  /\ node = 0 /\ cur = 0 /\ caller = "record" /\ goal = NoId /\ seen = {}
  /\ topnode = 0

\* A leaf record of the index2 b-tree.  The last node is kept for InventTop.
Load(i, w) ==
  /\ pc = "idle" /\ topnode = 0
  /\ Count < MaxNodes - 1
  /\ StartRecord(i, w)
  /\ UNCHANGED <<caller, goal, seen, topnode>>

\* The adoption loop finds an orphan of the new node: it goes to the end of the
\* child list first and is unlinked from the top level with the neighbours that
\* were read before.  The loop goes on at n.
AdoptStep(n, tail) ==
  /\ pc = "adopt" /\ cur # 0
  /\ parent_d_id[cur] = d_id[node]
  /\ LET nn == next[cur]
         pp == prev[cur]
     IN  /\ AddToParent(cur, node)
         /\ next' = Put([Put(next, child_tail[node], cur) EXCEPT ![cur] = 0], pp, nn)
         /\ prev' = Put([prev EXCEPT ![cur] = child_tail[node]], nn, pp)
         /\ d_head' = IF pp = 0 THEN nn ELSE d_head
  /\ d_tail' = tail
  /\ cur' = n
  /\ UNCHANGED <<pc, ids, node, caller, goal, seen, topnode>>

TailWithout(n) == IF next[n] = 0 THEN prev[n] ELSE d_tail

\* Mutants of AdoptOrphan: the tail is not moved; the next node is read after
\* the orphan has left the list.
AdoptKeepsTail == AdoptStep(next[cur], d_tail)
AdoptReadsLate == AdoptStep(0, TailWithout(cur))

AdoptOrphan == AdoptStep(next[cur], TailWithout(cur))

PassOver ==
  /\ pc = "adopt" /\ cur # 0
  /\ parent_d_id[cur] # d_id[node]
  /\ cur' = next[cur]
  /\ UNCHANGED <<pc, ids, links, node, caller, goal, seen, topnode>>

\* The loop is over.  Without a parent, or as its own parent, the node goes to
\* the top level; otherwise pst_getDptr is asked for the parent.
HookTop ==
  /\ pc = "adopt" /\ cur = 0
  /\ parent_d_id[node] \in {0, d_id[node]}
  /\ AddToTop(node)
  /\ node' = 0 /\ pc' = "idle"
  /\ UNCHANGED <<ids, kidLists, walk, topnode>>

LookForParent ==
  /\ pc = "adopt" /\ cur = 0
  /\ parent_d_id[node] \notin {0, d_id[node]}
  /\ StartSearch("record", parent_d_id[node])
  /\ UNCHANGED <<ids, links, node, topnode>>

\* pst_getDptr, and a loop over pst_getNextDptr: down, or up until there is a
\* sibling and across to it.
Down ==
  /\ pc = "search" /\ cur # 0
  /\ d_id[cur] # goal
  /\ child[cur] # 0
  /\ seen' = seen \cup {cur}
  /\ cur' = child[cur]
  /\ UNCHANGED <<pc, ids, links, node, caller, goal, topnode>>

Leaf ==
  /\ pc = "search" /\ cur # 0
  /\ d_id[cur] # goal
  /\ child[cur] = 0
  /\ seen' = seen \cup {cur}
  /\ pc' = "climb"
  /\ UNCHANGED <<ids, links, node, cur, caller, goal, topnode>>

\* Mutant of Up: the parent is compared again.
UpRevisits ==
  /\ pc = "climb"
  /\ next[cur] = 0 /\ parent[cur] # 0
  /\ cur' = parent[cur]
  /\ pc' = "search"
  /\ UNCHANGED <<ids, links, node, caller, goal, seen, topnode>>

Up ==
  /\ pc = "climb"
  /\ next[cur] = 0 /\ parent[cur] # 0
  /\ cur' = parent[cur]
  /\ UNCHANGED <<pc, ids, links, node, caller, goal, seen, topnode>>

Across ==
  /\ pc = "climb"
  /\ next[cur] # 0 \/ parent[cur] = 0
  /\ cur' = next[cur]
  /\ pc' = "search"
  /\ UNCHANGED <<ids, links, node, caller, goal, seen, topnode>>

Found == cur # 0 /\ d_id[cur] = goal

\* record_descriptor has found the parent: the node is its last child.
HookUnder ==
  /\ pc = "search" /\ caller = "record" /\ Found
  /\ AddToParent(node, cur)
  /\ next' = [Put(next, child_tail[cur], node) EXCEPT ![node] = 0]
  /\ prev' = [prev EXCEPT ![node] = child_tail[cur]]
  /\ node' = 0 /\ pc' = "idle"
  /\ UNCHANGED <<ids, topList, walk, topnode>>

\* No parent yet: an orphan at the top level.
HookOrphan ==
  /\ pc = "search" /\ caller = "record" /\ cur = 0
  /\ AddToTop(node)
  /\ node' = 0 /\ pc' = "idle"
  /\ UNCHANGED <<ids, kidLists, walk, topnode>>

\* pst_getTopOfFolders: topid is 0x2142 or taken from the message store.
LookForTop(t) ==
  /\ pc = "idle" /\ topnode = 0
  /\ StartSearch("top", t)
  /\ UNCHANGED <<ids, links, node, topnode>>

TopFound ==
  /\ pc = "search" /\ caller = "top" /\ Found
  /\ topnode' = cur
  /\ pc' = "idle"
  /\ UNCHANGED <<ids, links, node, walk>>

\* "add dummy top record to pickup orphan children"
InventTop ==
  /\ pc = "search" /\ caller = "top" /\ cur = 0
  /\ StartRecord(goal, 0)
  /\ topnode' = Count + 1
  /\ UNCHANGED <<caller, goal, seen>>

\* A client walks the whole tree: d_ptr = pst_getNextDptr(d_ptr).
StartWalk ==
  /\ pc = "idle" /\ topnode # 0
  /\ StartSearch("walk", NoId)
  /\ UNCHANGED <<ids, links, node, topnode>>

EndWalk ==
  /\ pc = "search" /\ caller = "walk" /\ cur = 0
  /\ pc' = "done"
  /\ UNCHANGED <<ids, links, node, walk, topnode>>

\* A step of a loop that was entered.
Step ==
  \/ AdoptOrphan \/ PassOver \/ HookTop \/ LookForParent
  \/ Down \/ Leaf \/ Up \/ Across
  \/ HookUnder \/ HookOrphan \/ TopFound \/ InventTop \/ EndWalk

Next ==
  \/ \E i \in Ids, w \in Wants : Load(i, w)
  \/ \E t \in TopIds : LookForTop(t)
  \/ StartWalk
  \/ Step

\* The program is sequential: a loop that was entered goes on.
Spec == Init /\ [][Next]_vars
FairSpec == Spec /\ WF_vars(Step)

-----------------------------------------------------------------------------
\* The sibling list that starts at p, cut off after k nodes, so that it is
\* defined for a broken tree too.
Chain[c \in Ptr \X (0 .. MaxNodes)] ==
  IF c[1] = 0 \/ c[2] = 0 THEN <<>> ELSE <<c[1]>> \o Chain[<<next[c[1]], c[2] - 1>>]

TopChain == Chain[<<d_head, MaxNodes>>]
Kids(n) == Chain[<<child[n], MaxNodes>>]

\* n is on every way up from m: in every set with m that has the parents of its
\* members.
Rooted(A) == \A n \in A : parent[n] \in A \cup {0}
IsBelow(m, n) == \A A \in SUBSET Allocated : m \in A /\ Rooted(A) => n \in A

\* pst_free_desc: the order in which pst_close frees the nodes from c[1] on,
\* cut off after c[2] levels of child and next.
FreeOrder[c \in Ptr \X (0 .. MaxNodes)] ==
  IF c[1] = 0 \/ c[2] = 0 THEN <<>>
  ELSE FreeOrder[<<child[c[1]], c[2] - 1>>] \o <<c[1]>> \o FreeOrder[<<next[c[1]], c[2] - 1>>]

\* The nodes that hang in some list.  The node record_descriptor works on does
\* not, although its adopted children already name it.
Hooked == Allocated \ {node}

VariableTypes ==
  /\ pc \in {"idle", "adopt", "search", "climb", "done"}
  /\ d_id \in Seq(Nat) /\ parent_d_id \in Seq(Nat)
  /\ Len(parent_d_id) = Count /\ Count <= MaxNodes
  /\ next \in [Nodes -> Ptr] /\ prev \in [Nodes -> Ptr] /\ parent \in [Nodes -> Ptr]
  /\ child \in [Nodes -> Ptr] /\ child_tail \in [Nodes -> Ptr]
  /\ no_child \in [Nodes -> Nat]
  /\ d_head \in Ptr /\ d_tail \in Ptr
  /\ node \in Ptr /\ cur \in Ptr /\ topnode \in Ptr
  /\ caller \in {"record", "top", "walk"}
  /\ goal \in Nat \cup {NoId}
  /\ seen \subseteq Nodes

\* The type invariant; no pointer leads to a node that is not allocated, and a
\* node is being recorded exactly while its loops run.
TypeOK ==
  /\ VariableTypes
  /\ {d_head, d_tail, node, cur, topnode} \subseteq Allocated \cup {0}
  /\ (node # 0) = (pc = "adopt" \/ (pc \in {"search", "climb"} /\ caller = "record"))
  /\ pc = "climb" => cur # 0

\* The list that starts at head and ends at tail holds exactly the nodes S, each
\* linked in both directions.
IsList(head, tail, S) ==
  /\ (head = 0) = (S = {}) /\ (tail = 0) = (S = {})
  /\ head # 0 => head \in S /\ prev[head] = 0
  /\ tail # 0 => tail \in S /\ next[tail] = 0
  /\ \A n \in S : /\ next[n] = 0 => n = tail
                  /\ prev[n] = 0 => n = head
                  /\ next[n] # 0 => next[n] \in S /\ prev[next[n]] = n
                  /\ prev[n] # 0 => prev[n] \in S /\ next[prev[n]] = n

ChildrenOf(p) == {n \in Hooked : parent[n] = p}

\* The adoption loop unlinks nodes from a list while it runs along it, and a
\* record is linked into one of two lists from three places: at every step every
\* list is sound in both directions, its tail pointer is right, a node is in
\* the list of the parent it names, and no_child counts the children.
LinksConsistent ==
  /\ TypeOK
  /\ IsList(d_head, d_tail, ChildrenOf(0))
  /\ \A p \in Allocated : /\ IsList(child[p], child_tail[p], ChildrenOf(p))
                          /\ no_child[p] = Cardinality(ChildrenOf(p))

\* pst_getNextDptr reaches every node once, and so does pst_free_desc at
\* pst_close: no descriptor is lost, read twice or freed twice, whatever the
\* order, the duplicates and the cycles of the parent ids in the file.
EveryNodeOnce ==
  /\ pc = "done" => seen = Allocated
  /\ pc = "search" => cur \notin seen
  /\ pc \in {"idle", "done"} =>
       LET order == FreeOrder[<<d_head, MaxNodes>>]
       IN  ToSet(order) = Allocated /\ Len(order) = Count

\* A child list holds only nodes that ask for its owner, and a node waits at the
\* top level for a parent only while no node of the file has that id, its own
\* descendants (a cycle of parent ids) left aside: the orphans of ChangeLog:363
\* are always picked up.
NoLostParent ==
  pc \in {"idle", "done"} =>
    \A n \in Allocated :
      IF parent[n] # 0 THEN d_id[parent[n]] = parent_d_id[n]
      ELSE parent_d_id[n] \notin {0, d_id[n]} =>
             \A m \in Allocated : d_id[m] = parent_d_id[n] => IsBelow(m, n)

\* A record or a search that was started ends: the loops over next, child and
\* parent never run in a circle.
LoopsEnd == pc \notin {"idle", "done"} ~> pc \in {"idle", "done"}

\* The pointers implement the ordered forest of DescForest.
Forest == INSTANCE DescForest WITH
  id <- d_id, want <- parent_d_id,
  roots <- TopChain,
  kids <- [n \in Nodes |-> Kids(n)],
  fresh <- node,
  top <- topnode
ImplementsForest == Forest!Spec
=============================================================================
