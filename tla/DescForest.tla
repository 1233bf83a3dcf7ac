----------------------------- MODULE DescForest -----------------------------
(***************************************************************************)
(* What the descriptor tree of libpst promises, without its pointers: an   *)
(* ordered forest of descriptors that is built one record at a time.  A    *)
(* record first collects the orphans that were waiting for it and is then  *)
(* put under the first node, in preorder, that carries the id of its       *)
(* parent; it waits at the top level when there is none.                   *)
(***************************************************************************)
EXTENDS Naturals, Sequences, SequencesExt

CONSTANTS MaxNodes,  \* bound on the descriptors of a file
          Ids,       \* descriptor ids the index2 b-tree may hold
          Wants,     \* parent ids; 0 is "no parent"
          TopIds     \* ids the message store may name as the top of folders

VARIABLES id, want,  \* d_id and parent_d_id of the descriptors recorded so far
          roots,     \* the top level, in order
          kids,      \* kids[n]: the children of n, in order
          fresh,     \* the descriptor that is being recorded, 0 when there is none
          top        \* the top of folders once it is known, else 0

vars == <<id, want, roots, kids, fresh, top>>

Nodes == 1 .. MaxNodes
Count == Len(id)

\* n is m or above it: in every set with m that has the owners of its members.
Closed(A) == \A p \in 1 .. Count : A \cap ToSet(kids[p]) # {} => p \in A
Below(m, n) == \A A \in SUBSET (1 .. Count) : m \in A /\ Closed(A) => n \in A

\* Preorder: a node comes before those below it, and before those below a later
\* one of its list or below a later one of the list of a node above it.
Before(n, m) ==
  \/ Below(m, n)
  \/ \E s \in {roots} \cup {kids[p] : p \in 1 .. Count} :
       \E x, y \in DOMAIN s : x < y /\ Below(n, s[x]) /\ Below(m, s[y])

\* The nodes of the forest with an id; the record that is being placed and what
\* it has collected is not part of it yet.
WithId(i) == {n \in 1 .. Count : id[n] = i /\ ~Below(n, fresh)}
FirstWithId(i, n) == n \in WithId(i) /\ \A m \in WithId(i) : Before(n, m)

Waiting == {x \in 1 .. Len(roots) : want[roots[x]] = id[fresh]}

Init ==
  /\ id = <<>> /\ want = <<>>
  /\ roots = <<>>
  /\ kids = [n \in Nodes |-> <<>>]
  /\ fresh = 0
  /\ top = 0

\* A record of the file: any id, any parent id, any order.  The last node is
\* kept for InventTop.
Load(i, w) ==
  /\ fresh = 0 /\ top = 0 /\ Count < MaxNodes - 1
  /\ id' = Append(id, i) /\ want' = Append(want, w)
  /\ fresh' = Count + 1
  /\ UNCHANGED <<roots, kids, top>>

\* The first orphan that waits for the new record becomes its last child.
Adopt ==
  /\ fresh # 0 /\ Waiting # {}
  /\ LET x == CHOOSE y \in Waiting : \A z \in Waiting : y <= z
     IN  /\ roots' = RemoveAt(roots, x)
         /\ kids' = [kids EXCEPT ![fresh] = Append(@, roots[x])]
  /\ UNCHANGED <<id, want, fresh, top>>

\* No orphan is left: the record finds its place.  The record that stands in
\* for a missing top of folders has no parent.
Place ==
  /\ fresh # 0 /\ Waiting = {}
  /\ IF want[fresh] \in {0, id[fresh]} \/ WithId(want[fresh]) = {}
     THEN roots' = Append(roots, fresh) /\ UNCHANGED kids
     ELSE /\ \E n \in Nodes : /\ FirstWithId(want[fresh], n)
                             /\ kids' = [kids EXCEPT ![n] = Append(@, fresh)]
          /\ UNCHANGED roots
  /\ fresh' = 0
  /\ UNCHANGED <<id, want, top>>

FindTop(t) ==
  /\ fresh = 0 /\ top = 0
  /\ \E n \in Nodes : FirstWithId(t, n) /\ top' = n
  /\ UNCHANGED <<id, want, roots, kids, fresh>>

\* No descriptor has the id of the top of folders: one is made up.
InventTop(t) ==
  /\ fresh = 0 /\ top = 0 /\ WithId(t) = {} /\ Count < MaxNodes
  /\ id' = Append(id, t) /\ want' = Append(want, 0)
  /\ fresh' = Count + 1
  /\ top' = Count + 1
  /\ UNCHANGED <<roots, kids>>

Next ==
  \/ \E i \in Ids, w \in Wants : Load(i, w)
  \/ Adopt
  \/ Place
  \/ \E t \in TopIds : FindTop(t) \/ InventTop(t)

Spec == Init /\ [][Next]_vars
=============================================================================
