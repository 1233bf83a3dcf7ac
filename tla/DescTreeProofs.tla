--------------------------- MODULE DescTreeProofs ---------------------------
(***************************************************************************)
(* For any number of records with any ids in any order: the lists of the   *)
(* descriptor tree stay sound at every step of every loop, a walk and      *)
(* pst_close meet every node once, every orphan finds its parent, and the  *)
(* pointers implement the ordered forest of DescForest.                    *)
(***************************************************************************)
EXTENDS DescTree, FiniteSetTheorems, WellFoundedInduction, TLAPS

-----------------------------------------------------------------------------
\* A list over any two functions next and prev.
ListIn(nx, pv, head, tail, S) ==
  /\ (head = 0 <=> S = {}) /\ (tail = 0 <=> S = {})
  /\ head # 0 => head \in S /\ pv[head] = 0
  /\ tail # 0 => tail \in S /\ nx[tail] = 0
  /\ \A n \in S : /\ nx[n] = 0 => n = tail
                  /\ pv[n] = 0 => n = head
                  /\ nx[n] # 0 => nx[n] \in S /\ pv[nx[n]] = n
                  /\ pv[n] # 0 => pv[n] \in S /\ nx[pv[n]] = n

\* No part of S is a circle.
Ends(nx, S) == \A A \in SUBSET S : A # {} => \E n \in A : nx[n] \notin A

\* The list of p, where 0 stands for the top level.
HeadOf(p) == IF p = 0 THEN d_head ELSE child[p]
TailOf(p) == IF p = 0 THEN d_tail ELSE child_tail[p]
Lists == \A p \in Allocated \cup {0} :
           ListIn(next, prev, HeadOf(p), TailOf(p), ChildrenOf(p))
Counted == \A p \in Allocated : no_child[p] = Cardinality(ChildrenOf(p))
Acyclic == Ends(next, Hooked)

\* Nodes that are not allocated are as pst_malloc and memset leave them.
Unused == \A n \in Nodes : n > Count =>
            parent[n] = 0 /\ child[n] = 0 /\ child_tail[n] = 0 /\ no_child[n] = 0
Placed == /\ \A n \in Allocated : parent[n] \in Allocated \cup {0}
          /\ node # 0 => parent[node] = 0

\* The adoption loop is in the top level list; a walk is among hooked nodes
\* whose parents are so too, which the node that is being recorded is not.
Walks ==
  /\ pc = "adopt" => cur \in ChildrenOf(0) \cup {0}
  /\ pc \in {"search", "climb"} =>
       \E A \in SUBSET Hooked : cur \in A \cup {0} /\ Rooted(A)
  /\ topnode = 0 => Count < MaxNodes
  /\ pc \in {"search", "climb"} /\ caller = "top" => topnode = 0 /\ goal \in Nat

Pointers == Lists /\ Counted /\ Acyclic /\ Unused /\ Placed
TreeInv == TypeOK /\ Pointers /\ Walks

-----------------------------------------------------------------------------
\* Nodes are the numbers from 1, and 0 is the null pointer.
LEMMA NodesNat == MaxNodes \in Nat /\ Nodes \subseteq Nat /\ 0 \notin Nodes /\ Ptr = Nodes \cup {0}
BY NodesAssumption DEF Nodes, Ptr

\* The allocated nodes are the first ones; lists hold hooked nodes only.
LEMMA AllocatedNodes ==
  ASSUME TypeOK
  PROVE  /\ Count \in Nat /\ Allocated \subseteq Nodes /\ Hooked \subseteq Allocated
         /\ 0 \notin Allocated /\ IsFiniteSet(Allocated)
         /\ \A n \in Nodes : n \in Allocated <=> n <= Count
         /\ \A p : ChildrenOf(p) \subseteq Hooked /\ IsFiniteSet(ChildrenOf(p))
<1>1. Count \in Nat /\ Count <= MaxNodes
  BY DEF TypeOK, VariableTypes, Count
<1>2. Allocated \subseteq Nodes /\ 0 \notin Allocated /\ \A n \in Nodes : n \in Allocated <=> n <= Count
  BY <1>1, NodesAssumption DEF Allocated, Nodes
<1>3. IsFiniteSet(Allocated)
  BY <1>1, FS_Interval DEF Allocated
<1>4. Hooked \subseteq Allocated /\ \A p : ChildrenOf(p) \subseteq Hooked
  BY DEF Hooked, ChildrenOf
<1>5. \A p : IsFiniteSet(ChildrenOf(p))
  BY <1>3, <1>4, FS_Subset
<1> QED BY <1>1, <1>2, <1>3, <1>4, <1>5

\* The invariant is strong enough.
LEMMA InvLinks == TreeInv => LinksConsistent
<1> SUFFICES ASSUME TreeInv PROVE LinksConsistent
  OBVIOUS
<1>1. \A h, t, S : ListIn(next, prev, h, t, S) => IsList(h, t, S)
  BY DEF ListIn, IsList
<1>2. 0 \notin Allocated
  BY AllocatedNodes DEF TreeInv
<1>3. IsList(d_head, d_tail, ChildrenOf(0))
  BY <1>1 DEF TreeInv, Pointers, Lists, HeadOf, TailOf
<1>4. \A p \in Allocated : IsList(child[p], child_tail[p], ChildrenOf(p))
  BY <1>1, <1>2 DEF TreeInv, Pointers, Lists, HeadOf, TailOf
<1> QED BY <1>3, <1>4 DEF LinksConsistent, TreeInv, Pointers, Counted

\* A list is not changed where its nodes are not touched.
LEMMA ListFrame ==
  ASSUME NEW nx, NEW pv, NEW nx2, NEW pv2, NEW h, NEW t, NEW S, ListIn(nx, pv, h, t, S),
         \A m \in S : nx2[m] = nx[m] /\ pv2[m] = pv[m]
  PROVE  ListIn(nx2, pv2, h, t, S)
BY DEF ListIn

\* add_descriptor_to_list keeps a list.
LEMMA ListAppend ==
  ASSUME NEW nx, NEW pv, NEW nx2, NEW pv2, NEW h \in Ptr, NEW t \in Ptr,
         NEW S \in SUBSET Nodes, NEW n \in Nodes, n \notin S,
         ListIn(nx, pv, h, t, S),
         \A m \in S : nx2[m] = (IF m = t THEN n ELSE nx[m]) /\ pv2[m] = pv[m],
         nx2[n] = 0, pv2[n] = t
  PROVE  ListIn(nx2, pv2, OrElse(h, n), n, S \cup {n})
<1>1. n # 0 /\ 0 \notin S
  BY NodesNat
<1>2. \A m \in S : nx2[m] = 0 => FALSE
  BY <1>1 DEF ListIn
<1>3. \A m \in S : nx2[m] \in S \cup {n} /\ pv2[nx2[m]] = m
  BY <1>1, <1>2 DEF ListIn
<1>4. \A m \in S : pv2[m] = 0 => m = h
  BY DEF ListIn
<1>5. \A m \in S : pv2[m] # 0 => pv2[m] \in S /\ nx2[pv2[m]] = m
  <2> TAKE m \in S
  <2> HAVE pv2[m] # 0
  <2>1. pv[m] \in S /\ nx[pv[m]] = m /\ m # 0
    BY <1>1 DEF ListIn
  <2>2. pv[m] # t
    BY <2>1 DEF ListIn
  <2> QED BY <2>1, <2>2
<1>6. t # 0 => t \in S /\ nx2[t] = n
  BY DEF ListIn
<1>7. OrElse(h, n) \in S \cup {n} /\ OrElse(h, n) # 0 /\ pv2[OrElse(h, n)] = 0
  BY <1>1 DEF ListIn, OrElse
<1>8. pv2[n] = 0 => n = OrElse(h, n)
  BY DEF ListIn, OrElse
<1>9. \A m \in S : pv2[m] = 0 => m = OrElse(h, n)
  BY <1>1, <1>4 DEF OrElse
<1> QED BY <1>1, <1>2, <1>3, <1>5, <1>6, <1>7, <1>8, <1>9 DEF ListIn

\* The unlinking of the adoption loop: the neighbours of c name each other, and
\* head and tail are moved where c was at an end.
Unlinks(nx, pv, h, t, S, c, nx2, pv2, h2, t2) ==
  /\ \A m \in S \ {c} : nx2[m] = IF m = pv[c] THEN nx[c] ELSE nx[m]
  /\ \A m \in S \ {c} : pv2[m] = IF m = nx[c] THEN pv[c] ELSE pv[m]
  /\ h2 = IF pv[c] = 0 THEN nx[c] ELSE h
  /\ t2 = IF nx[c] = 0 THEN pv[c] ELSE t

\* It keeps a list that ends.
LEMMA ListUnlink ==
  ASSUME NEW nx, NEW pv, NEW nx2, NEW pv2, NEW h \in Ptr, NEW t \in Ptr, NEW h2, NEW t2,
         NEW S \in SUBSET Nodes, NEW c \in S,
         ListIn(nx, pv, h, t, S), Ends(nx, S),
         Unlinks(nx, pv, h, t, S, c, nx2, pv2, h2, t2)
  PROVE  ListIn(nx2, pv2, h2, t2, S \ {c})
<1> USE DEF Unlinks
<1> DEFINE T == S \ {c}
<1>1. c # 0 /\ 0 \notin S
  BY NodesNat
<1>2. nx[c] # c
  <2>1. {c} \in SUBSET S /\ {c} # {}
    OBVIOUS
  <2> QED BY <2>1 DEF Ends
<1>3. pv[c] # c
  BY <1>1, <1>2 DEF ListIn
<1>4. /\ nx[c] = 0 => c = t
      /\ pv[c] = 0 => c = h
      /\ nx[c] # 0 => nx[c] \in T /\ pv[nx[c]] = c
      /\ pv[c] # 0 => pv[c] \in T /\ nx[pv[c]] = c
  BY <1>2, <1>3 DEF ListIn
<1>5. nx[c] = 0 /\ pv[c] = 0 => T = {}
  <2> SUFFICES ASSUME nx[c] = 0, pv[c] = 0, T # {} PROVE FALSE
    OBVIOUS
  <2>1. PICK n \in T : nx[n] \notin T
    BY DEF Ends
  <2>2. nx[n] # 0
    BY <1>4, <2>1 DEF ListIn
  <2>3. nx[n] = c
    BY <2>1, <2>2 DEF ListIn
  <2> QED BY <1>1, <2>1, <2>3 DEF ListIn
<1>6. h2 = 0 <=> T = {}
  BY <1>1, <1>4, <1>5 DEF ListIn
<1>7. t2 = 0 <=> T = {}
  BY <1>1, <1>4, <1>5 DEF ListIn
<1>8. h2 # 0 => h2 \in T /\ pv2[h2] = 0
  <2>1. CASE pv[c] = 0
    BY <1>4, <2>1
  <2>2. CASE pv[c] # 0
    BY <1>1, <1>4, <2>2 DEF ListIn
  <2> QED BY <2>1, <2>2
<1>9. t2 # 0 => t2 \in T /\ nx2[t2] = 0
  <2>1. CASE nx[c] = 0
    BY <1>4, <2>1
  <2>2. CASE nx[c] # 0
    BY <1>1, <1>4, <2>2 DEF ListIn
  <2> QED BY <2>1, <2>2
<1>10. ASSUME NEW n \in T
       PROVE  /\ nx2[n] = 0 => n = t2
              /\ nx2[n] # 0 => nx2[n] \in T /\ pv2[nx2[n]] = n
  <2>1. CASE n = pv[c]
    BY <1>1, <1>4, <2>1 DEF ListIn
  <2>2. CASE n # pv[c]
    <3>1. nx2[n] = nx[n]
      BY <2>2
    <3>2. nx[n] # c
      BY <1>1, <2>2 DEF ListIn
    <3>3. nx[n] # 0 => nx[n] \in T /\ nx[n] # nx[c] /\ pv[nx[n]] = n
      BY <1>4, <3>2 DEF ListIn
    <3>4. nx[n] = 0 => n = t2
      BY <1>4 DEF ListIn
    <3> QED BY <3>1, <3>3, <3>4
  <2> QED BY <2>1, <2>2
<1>11. ASSUME NEW n \in T
       PROVE  /\ pv2[n] = 0 => n = h2
              /\ pv2[n] # 0 => pv2[n] \in T /\ nx2[pv2[n]] = n
  <2>1. CASE n = nx[c]
    BY <1>1, <1>4, <2>1 DEF ListIn
  <2>2. CASE n # nx[c]
    <3>1. pv2[n] = pv[n]
      BY <2>2
    <3>2. pv[n] # c
      BY <1>1, <2>2 DEF ListIn
    <3>3. pv[n] # 0 => pv[n] \in T /\ pv[n] # pv[c] /\ nx[pv[n]] = n
      BY <1>4, <3>2 DEF ListIn
    <3>4. pv[n] = 0 => n = h2
      BY <1>4 DEF ListIn
    <3> QED BY <3>1, <3>3, <3>4
  <2> QED BY <2>1, <2>2
<1> QED BY <1>6, <1>7, <1>8, <1>9, <1>10, <1>11 DEF ListIn

\* A part of a set without circles has none.
LEMMA EndsPart == ASSUME NEW nx, NEW S, Ends(nx, S), NEW T \in SUBSET S PROVE Ends(nx, T)
BY DEF Ends

\* A node that is hung behind a tail makes no circle.
LEMMA EndsAppend ==
  ASSUME NEW nx, NEW nx2, NEW S \in SUBSET Nodes, NEW n \in Nodes, NEW t \in Ptr, Ends(nx, S),
         n \notin S, nx2[n] = 0,
         \A m \in S : nx2[m] = IF m = t THEN n ELSE nx[m]
  PROVE  Ends(nx2, S \cup {n})
<1> SUFFICES ASSUME NEW A \in SUBSET (S \cup {n}), A # {}, \A m \in A : nx2[m] \in A PROVE FALSE
  BY DEF Ends
<1>1. n \notin A
  BY NodesNat
<1>2. A \in SUBSET S /\ t \notin A
  BY <1>1
<1> QED BY <1>2 DEF Ends

\* Neither does a node that is taken from between its neighbours to the end of
\* another list.
LEMMA EndsMove ==
  ASSUME NEW nx, NEW nx2, NEW S \in SUBSET Nodes, NEW c \in S, NEW p \in Ptr, NEW t \in Ptr, Ends(nx, S),
         nx2[c] = 0, p \in S => nx[p] = c,
         \A m \in S \ {c} : nx2[m] = IF m = p THEN nx[c] ELSE IF m = t THEN c ELSE nx[m]
  PROVE  Ends(nx2, S)
<1> SUFFICES ASSUME NEW A \in SUBSET S, A # {}, \A m \in A : nx2[m] \in A PROVE FALSE
  BY DEF Ends
<1>1. c \notin A
  BY NodesNat
<1>2. CASE p \notin A
  BY <1>1, <1>2 DEF Ends
<1>3. CASE p \in A
  <2> DEFINE B == A \cup {c}
  <2>1. nx[c] \in A /\ nx[p] = c
    BY <1>1, <1>3
  <2>2. \A m \in A : m # p => nx[m] \in A
    BY <1>1
  <2>3. B \in SUBSET S /\ B # {} /\ \A m \in B : nx[m] \in B
    BY <2>1, <2>2
  <2> QED BY <2>3 DEF Ends
<1> QED BY <1>2, <1>3

-----------------------------------------------------------------------------
\* A step of a walk touches no list.
LEMMA Frame ==
  ASSUME TypeOK, Pointers, UNCHANGED <<ids, links, node>>
  PROVE  Pointers' /\ Count' = Count /\ Hooked' = Hooked /\ parent' = parent
<1>1. /\ d_id' = d_id /\ next' = next /\ prev' = prev /\ parent' = parent /\ child' = child
      /\ child_tail' = child_tail /\ no_child' = no_child /\ d_head' = d_head /\ d_tail' = d_tail
      /\ node' = node
  BY DEF ids, links, kidLists, topList
<1>2. Count' = Count /\ Allocated' = Allocated /\ Hooked' = Hooked
  BY <1>1 DEF Count, Allocated, Hooked
<1>3. \A p : ChildrenOf(p)' = ChildrenOf(p) /\ HeadOf(p)' = HeadOf(p) /\ TailOf(p)' = TailOf(p)
  BY <1>1, <1>2 DEF ChildrenOf, HeadOf, TailOf
<1>4. Lists'
  BY <1>1, <1>2, <1>3 DEF Pointers, Lists
<1>5. Counted'
  BY <1>1, <1>2, <1>3 DEF Pointers, Counted
<1>6. Acyclic' /\ Unused' /\ Placed'
  BY <1>1, <1>2 DEF Pointers, Acyclic, Unused, Placed
<1> QED BY <1>1, <1>2, <1>4, <1>5, <1>6 DEF Pointers

\* A node is allocated: the lists stay, and its own is empty.
LEMMA StartRecordInv ==
  ASSUME TreeInv, node = 0, Count < MaxNodes, NEW i \in Nat, NEW w \in Nat, StartRecord(i, w),
         caller' = caller, goal' = goal, seen' = seen,
         topnode' \in {topnode, Count + 1},
         topnode' = 0 => Count + 1 < MaxNodes
  PROVE  TreeInv'
<1> PICK n : n = Count + 1
  OBVIOUS
<1>1. /\ d_id' = Append(d_id, i) /\ parent_d_id' = Append(parent_d_id, w)
      /\ node' = n /\ cur' = d_head /\ pc' = "adopt"
      /\ next' = next /\ prev' = prev /\ parent' = parent /\ child' = child
      /\ child_tail' = child_tail /\ no_child' = no_child /\ d_head' = d_head /\ d_tail' = d_tail
  BY DEF StartRecord, links, kidLists, topList
<1>2. Count' = n /\ Len(parent_d_id') = n /\ Count \in Nat /\ n \in Nodes /\ n # 0
  BY <1>1, NodesAssumption, SMTT(30) DEF TreeInv, TypeOK, VariableTypes, Count, Nodes
<1>3. Allocated' = Allocated \cup {n} /\ n \notin Allocated /\ Allocated \subseteq Nodes
  <2>1. Allocated' = 1 .. n /\ Allocated = 1 .. Count
    BY <1>2 DEF Allocated
  <2>2. 1 .. (Count + 1) = (1 .. Count) \cup {Count + 1} /\ Count + 1 \notin 1 .. Count
    BY <1>2
  <2> QED BY <2>1, <2>2, AllocatedNodes DEF TreeInv
<1>4. Hooked' = Allocated /\ Hooked = Allocated /\ 0 \notin Allocated
  BY <1>1, <1>3, <1>2 DEF Hooked, Allocated
<1>5. \A p \in Allocated \cup {0} : ChildrenOf(p)' = ChildrenOf(p)
  BY <1>1, <1>4 DEF ChildrenOf
<1>6. ChildrenOf(n)' = {}
  <2>1. \A m \in Allocated : parent[m] # n
    BY <1>2, <1>3 DEF TreeInv, Pointers, Placed
  <2> QED BY <1>1, <1>4, <2>1 DEF ChildrenOf
<1>7. parent[n] = 0 /\ child[n] = 0 /\ child_tail[n] = 0 /\ no_child[n] = 0
  BY <1>2 DEF TreeInv, Pointers, Unused
<1>8. Lists'
  <2>1. \A p : HeadOf(p)' = HeadOf(p) /\ TailOf(p)' = TailOf(p)
    BY <1>1 DEF HeadOf, TailOf
  <2>2. ListIn(next, prev, HeadOf(n), TailOf(n), {})
    BY <1>2, <1>7 DEF ListIn, HeadOf, TailOf
  <2>3. \A p \in Allocated \cup {0} : ListIn(next, prev, HeadOf(p), TailOf(p), ChildrenOf(p))
    BY DEF TreeInv, Pointers, Lists
  <2>4. \A p \in Allocated \cup {0} : ListIn(next', prev', HeadOf(p)', TailOf(p)', ChildrenOf(p)')
    BY <1>1, <1>5, <2>1, <2>3
  <2>5. ListIn(next', prev', HeadOf(n)', TailOf(n)', ChildrenOf(n)')
    BY <1>1, <1>6, <2>1, <2>2
  <2> QED BY <1>3, <2>4, <2>5 DEF Lists
<1>9. Counted'
  <2>1. \A p \in Allocated : no_child'[p] = Cardinality(ChildrenOf(p)')
    BY <1>1, <1>5 DEF TreeInv, Pointers, Counted
  <2>2. no_child'[n] = Cardinality(ChildrenOf(n)')
    BY <1>1, <1>6, <1>7, FS_EmptySet
  <2> QED BY <1>3, <2>1, <2>2 DEF Counted
<1>10. Acyclic'
  BY <1>1, <1>4 DEF TreeInv, Pointers, Acyclic
<1>11. Unused' /\ Placed'
  <2>1. \A m \in Nodes : m > Count' => m > Count
    BY <1>2, NodesNat
  <2>2. Unused'
    BY <1>1, <2>1 DEF TreeInv, Pointers, Unused
  <2>3. \A m \in Allocated : parent[m] \in Allocated \cup {0}
    BY DEF TreeInv, Pointers, Placed
  <2>4. \A m \in Allocated' : parent'[m] \in Allocated' \cup {0}
    BY <1>1, <1>3, <1>7, <2>3
  <2> QED BY <1>1, <1>7, <2>2, <2>4 DEF Placed
<1>12. TypeOK'
  <2>1. d_id' \in Seq(Nat) /\ parent_d_id' \in Seq(Nat)
    BY <1>1 DEF TreeInv, TypeOK, VariableTypes
  <2>2. n \in Ptr /\ n <= MaxNodes /\ topnode' \in Ptr /\ topnode' \in Allocated' \cup {0}
    <3>1. n \in Ptr /\ n <= MaxNodes
      BY <1>2, NodesNat
    <3>2. topnode \in Ptr /\ topnode \in Allocated \cup {0}
      BY DEF TreeInv, TypeOK, VariableTypes
    <3> QED BY <1>3, <3>1, <3>2
  <2>3. VariableTypes'
    BY <1>1, <1>2, <2>1, <2>2 DEF TreeInv, TypeOK, VariableTypes
  <2> QED BY <1>1, <1>2, <1>3, <2>2, <2>3 DEF TreeInv, TypeOK
<1>13. Walks'
  <2>1. d_head \in ChildrenOf(0) \cup {0}
    BY DEF TreeInv, Pointers, Lists, ListIn, HeadOf
  <2> QED BY <1>1, <1>2, <1>5, <2>1 DEF Walks
<1> QED BY <1>8, <1>9, <1>10, <1>11, <1>12, <1>13 DEF TreeInv, Pointers

\* add_descriptor_to_list of the new node, to the top level or under a parent.
HookAt(p) ==
  /\ next' = [Put(next, TailOf(p), node) EXCEPT ![node] = 0]
  /\ prev' = [prev EXCEPT ![node] = TailOf(p)]
  /\ parent' = [parent EXCEPT ![node] = p]
  /\ IF p = 0 THEN /\ d_head' = OrElse(d_head, node) /\ d_tail' = node
                   /\ UNCHANGED <<child, child_tail, no_child>>
              ELSE /\ child' = [child EXCEPT ![p] = OrElse(@, node)]
                   /\ child_tail' = [child_tail EXCEPT ![p] = node]
                   /\ no_child' = [no_child EXCEPT ![p] = @ + 1]
                   /\ UNCHANGED <<d_head, d_tail>>
  /\ node' = 0 /\ pc' = "idle" /\ UNCHANGED <<ids, walk, topnode>>

\* Appending the node that is recorded to a list, or to the top level, keeps it.
LEMMA HookInv ==
  ASSUME TreeInv, node # 0, NEW p \in Hooked \cup {0}, HookAt(p)
  PROVE  TreeInv'
<1> PICK n, t, S : n = node /\ t = TailOf(p) /\ S = ChildrenOf(p)
  OBVIOUS
<1>1. /\ Count' = Count /\ Allocated' = Allocated /\ Hooked' = Hooked \cup {n}
      /\ n \in Allocated /\ n \notin Hooked /\ n \in Nodes
  <2>1. d_id' = d_id /\ n \in Allocated /\ n \in Nodes /\ 0 \notin Allocated
    BY AllocatedNodes DEF HookAt, ids, TreeInv, TypeOK
  <2>2. node' = 0
    BY DEF HookAt
  <2> QED BY <2>1, <2>2 DEF Count, Allocated, Hooked
<1>2. /\ Allocated \subseteq Nodes /\ 0 \notin Allocated /\ 0 \notin Nodes /\ Hooked \subseteq Allocated
      /\ \A q : ChildrenOf(q) \subseteq Hooked /\ IsFiniteSet(ChildrenOf(q))
  BY AllocatedNodes, NodesNat DEF TreeInv
<1>3. /\ next \in [Nodes -> Ptr] /\ prev \in [Nodes -> Ptr] /\ parent \in [Nodes -> Ptr]
      /\ child \in [Nodes -> Ptr] /\ child_tail \in [Nodes -> Ptr] /\ no_child \in [Nodes -> Nat]
      /\ d_head \in Ptr /\ d_tail \in Ptr
  BY DEF TreeInv, TypeOK, VariableTypes
<1>4. \A q \in Allocated \cup {0} : ListIn(next, prev, HeadOf(q), TailOf(q), ChildrenOf(q))
  BY DEF TreeInv, Pointers, Lists
<1>5. p \in Allocated \cup {0} /\ p # n /\ (p # 0 => p \in Nodes)
  BY <1>1, <1>2
<1>6. t \in S \cup {0} /\ t # n /\ t \in Ptr /\ HeadOf(p) \in Ptr
  BY <1>1, <1>2, <1>3, <1>4, <1>5 DEF ListIn, HeadOf, TailOf
<1>7. /\ next'[n] = 0 /\ next' \in [Nodes -> Ptr]
      /\ \A m \in Nodes \ {n} : next'[m] = IF m = t THEN n ELSE next[m]
  <2>1. n \in Ptr /\ 0 \in Ptr
    BY <1>1, NodesNat
  <2>2. CASE t = 0
    BY <1>1, <1>2, <1>3, <2>1, <2>2 DEF HookAt, Put
  <2>3. CASE t # 0
    <3>1. t \in Nodes
      BY <1>2, <1>6, <2>3
    <3> QED BY <1>1, <1>3, <2>1, <2>3, <3>1 DEF HookAt, Put
  <2> QED BY <2>2, <2>3
<1>8. prev'[n] = t /\ prev' \in [Nodes -> Ptr] /\ \A m \in Nodes \ {n} : prev'[m] = prev[m]
  BY <1>1, <1>3, <1>6 DEF HookAt
<1>9. parent'[n] = p /\ parent' \in [Nodes -> Ptr] /\ \A m \in Nodes \ {n} : parent'[m] = parent[m]
  BY <1>1, <1>3, <1>5, NodesNat DEF HookAt
<1>10. ChildrenOf(p)' = S \cup {n} /\ \A q : q # p => ChildrenOf(q)' = ChildrenOf(q)
  BY <1>1, <1>2, <1>9 DEF ChildrenOf
<1>11. /\ HeadOf(p)' = OrElse(HeadOf(p), n) /\ TailOf(p)' = n
       /\ \A q \in Allocated \cup {0} : q # p => HeadOf(q)' = HeadOf(q) /\ TailOf(q)' = TailOf(q)
  <2>1. CASE p = 0
    BY <1>2, <2>1 DEF HookAt, HeadOf, TailOf
  <2>2. CASE p # 0
    BY <1>2, <1>3, <1>5, <2>2 DEF HookAt, HeadOf, TailOf
  <2> QED BY <2>1, <2>2
<1>12. Lists'
  <2>1. ListIn(next', prev', OrElse(HeadOf(p), n), n, S \cup {n})
    <3>1. S \in SUBSET Nodes /\ n \notin S
      BY <1>1, <1>2
    <3>2. \A m \in S : next'[m] = (IF m = t THEN n ELSE next[m]) /\ prev'[m] = prev[m]
      BY <1>7, <1>8, <3>1
    <3>3. ListIn(next, prev, HeadOf(p), t, S)
      BY <1>4, <1>5
    <3>4. n \in Nodes /\ t \in Ptr /\ HeadOf(p) \in Ptr /\ next'[n] = 0 /\ prev'[n] = t
      BY <1>1, <1>6, <1>7, <1>8
    <3> QED BY <3>1, <3>2, <3>3, <3>4, ListAppend
  <2>2. ASSUME NEW q \in Allocated \cup {0}, q # p
        PROVE  ListIn(next', prev', HeadOf(q), TailOf(q), ChildrenOf(q))
    <3>1. \A m \in ChildrenOf(q) : m \in Nodes /\ m # n /\ m # t
      BY <1>1, <1>2, <1>6, <2>2 DEF ChildrenOf
    <3>2. \A m \in ChildrenOf(q) : next'[m] = next[m] /\ prev'[m] = prev[m]
      BY <1>7, <1>8, <3>1
    <3>3. ListIn(next, prev, HeadOf(q), TailOf(q), ChildrenOf(q))
      BY <1>4
    <3> QED BY <3>2, <3>3, ListFrame
  <2> QED BY <1>1, <1>10, <1>11, <2>1, <2>2 DEF Lists
<1>13. Counted'
  <2>1. ASSUME NEW q \in Allocated PROVE no_child'[q] = Cardinality(ChildrenOf(q)')
    <3>1. no_child[q] = Cardinality(ChildrenOf(q)) /\ q \in Nodes /\ q # 0
      BY <1>2 DEF TreeInv, Pointers, Counted
    <3>2. CASE q # p
      BY <1>3, <1>10, <3>1, <3>2 DEF HookAt
    <3>3. CASE q = p
      <4>1. Cardinality(S \cup {n}) = Cardinality(S) + 1
        BY <1>1, <1>2, FS_AddElement
      <4>2. no_child'[q] = no_child[q] + 1
        BY <1>3, <3>1, <3>3 DEF HookAt
      <4> QED BY <1>10, <3>1, <3>3, <4>1, <4>2
    <3> QED BY <3>2, <3>3
  <2> QED BY <1>1, <2>1 DEF Counted
<1>14. Acyclic'
  <2>1. Ends(next, Hooked) /\ Hooked \in SUBSET Nodes
    BY <1>2 DEF TreeInv, Pointers, Acyclic
  <2>2. \A m \in Hooked : next'[m] = IF m = t THEN n ELSE next[m]
    BY <1>1, <1>7, <2>1
  <2>3. Ends(next', Hooked \cup {n})
    <3>1. n \in Nodes /\ n \notin Hooked /\ next'[n] = 0
      BY <1>1, <1>7
    <3> QED BY <1>6, <2>1, <2>2, <3>1, EndsAppend
  <2> QED BY <1>1, <2>3 DEF Acyclic
<1>15. Unused' /\ Placed'
  <2>1. \A m \in Nodes : m > Count => m # n /\ m # p /\ m # 0
    <3>1. \A m \in Nodes : m \in Allocated <=> m <= Count
      BY AllocatedNodes DEF TreeInv
    <3>2. Count \in Nat
      BY AllocatedNodes DEF TreeInv
    <3> QED BY <1>1, <1>2, <1>5, <3>1, <3>2, NodesNat
  <2>2. Unused'
    BY <1>1, <1>3, <1>9, <2>1 DEF HookAt, TreeInv, Pointers, Unused
  <2>3. Placed'
    BY <1>1, <1>2, <1>5, <1>9 DEF HookAt, TreeInv, Pointers, Placed
  <2> QED BY <2>2, <2>3
<1>16. TypeOK'
  <2>1. n \in Ptr /\ 0 \in Ptr /\ OrElse(d_head, n) \in Allocated \cup {0} /\ OrElse(d_head, n) \in Ptr
    BY <1>1, <1>3, NodesNat DEF TreeInv, TypeOK, OrElse
  <2>2. d_head' \in Ptr /\ d_tail' \in Ptr /\ {d_head', d_tail'} \subseteq Allocated \cup {0}
    BY <1>1, <1>3, <2>1 DEF HookAt, TreeInv, TypeOK
  <2>3. child' \in [Nodes -> Ptr] /\ child_tail' \in [Nodes -> Ptr] /\ no_child' \in [Nodes -> Nat]
    <3>1. CASE p = 0
      BY <1>3, <3>1 DEF HookAt
    <3>2. CASE p # 0
      <4>1. OrElse(child[p], n) \in Ptr
        BY <1>3, <1>5, <2>1, <3>2 DEF OrElse
      <4> QED BY <1>3, <1>5, <2>1, <3>2, <4>1 DEF HookAt
    <3> QED BY <3>1, <3>2
  <2>4. VariableTypes'
    BY <1>1, <1>7, <1>8, <1>9, <2>1, <2>2, <2>3 DEF HookAt, TreeInv, TypeOK, VariableTypes, ids, walk
  <2> QED BY <1>1, <2>2, <2>4 DEF HookAt, TreeInv, TypeOK, ids, walk
<1>17. Walks'
  BY <1>1 DEF HookAt, TreeInv, Walks
<1> QED BY <1>12, <1>13, <1>14, <1>15, <1>16, <1>17 DEF TreeInv, Pointers

\* An orphan goes from the top level to the end of the list of the new node.
LEMMA AdoptInv == ASSUME TreeInv, AdoptOrphan PROVE TreeInv'
<1>0. PICK c, n, nn, pp, t, S, T :
      /\ c = cur /\ n = node /\ nn = next[cur] /\ pp = prev[cur] /\ t = child_tail[node]
      /\ S = ChildrenOf(0) /\ T = ChildrenOf(node)
  OBVIOUS
<1>1. /\ pc = "adopt" /\ c # 0
      /\ no_child' = [no_child EXCEPT ![n] = @ + 1]
      /\ parent' = [parent EXCEPT ![c] = n]
      /\ child' = [child EXCEPT ![n] = OrElse(@, c)]
      /\ child_tail' = [child_tail EXCEPT ![n] = c]
      /\ next' = Put([Put(next, t, c) EXCEPT ![c] = 0], pp, nn)
      /\ prev' = Put([prev EXCEPT ![c] = t], nn, pp)
      /\ d_head' = (IF pp = 0 THEN nn ELSE d_head) /\ d_tail' = (IF nn = 0 THEN pp ELSE d_tail)
      /\ cur' = nn
      /\ UNCHANGED <<pc, ids, node, caller, goal, seen, topnode>>
  BY <1>0 DEF AdoptOrphan, AdoptStep, TailWithout, AddToParent
<1>2. Count' = Count /\ Allocated' = Allocated /\ Hooked' = Hooked
  BY <1>0, <1>1 DEF ids, Count, Allocated, Hooked
<1>3. /\ Allocated \subseteq Nodes /\ 0 \notin Allocated /\ 0 \notin Nodes /\ Hooked \subseteq Allocated
      /\ \A q : ChildrenOf(q) \subseteq Hooked /\ IsFiniteSet(ChildrenOf(q))
  BY AllocatedNodes, NodesNat DEF TreeInv
<1>4. /\ next \in [Nodes -> Ptr] /\ prev \in [Nodes -> Ptr] /\ parent \in [Nodes -> Ptr]
      /\ child \in [Nodes -> Ptr] /\ child_tail \in [Nodes -> Ptr] /\ no_child \in [Nodes -> Nat]
      /\ d_head \in Ptr /\ d_tail \in Ptr
  BY DEF TreeInv, TypeOK, VariableTypes
<1>5. c \in S /\ c \in Hooked /\ c \in Nodes /\ parent[c] = 0
  BY <1>0, <1>1, <1>3 DEF TreeInv, Walks, ChildrenOf
<1>6. n # 0 /\ n \in Allocated /\ n \in Nodes /\ n \notin Hooked /\ n # c
  <2>1. n # 0 /\ n \in Allocated
    BY <1>0, <1>1 DEF TreeInv, TypeOK
  <2> QED BY <1>0, <1>3, <1>5, <2>1 DEF Hooked
<1>7. \A q \in Allocated \cup {0} : ListIn(next, prev, HeadOf(q), TailOf(q), ChildrenOf(q))
  BY DEF TreeInv, Pointers, Lists
<1>8. /\ ListIn(next, prev, d_head, d_tail, S) /\ ListIn(next, prev, child[n], t, T)
      /\ S \in SUBSET Nodes /\ T \in SUBSET Nodes /\ Hooked \in SUBSET Nodes /\ S \in SUBSET Hooked
  BY <1>0, <1>3, <1>6, <1>7 DEF HeadOf, TailOf
<1>9. Ends(next, Hooked) /\ Ends(next, S)
  BY <1>8, EndsPart DEF TreeInv, Pointers, Acyclic
<1>10. /\ nn \in S \cup {0} /\ pp \in S \cup {0} /\ nn # c /\ pp # c
       /\ pp # 0 => next[pp] = c
  <2>1. {c} \in SUBSET S /\ {c} # {}
    BY <1>0, <1>5
  <2>2. nn # c
    BY <1>0, <1>9, <2>1 DEF Ends
  <2> QED BY <1>0, <1>3, <1>5, <1>8, <2>2 DEF ListIn
<1>11. t \in T \cup {0} /\ c \notin T /\ \A m \in T : m \notin S
  BY <1>0, <1>3, <1>5, <1>6, <1>8 DEF ListIn, ChildrenOf
<1>12. /\ nn \in Ptr /\ pp \in Ptr /\ t \in Ptr /\ c \in Ptr /\ 0 \in Ptr /\ child[n] \in Ptr
       /\ t # c /\ (pp # 0 => pp # t)
  BY <1>3, <1>4, <1>5, <1>6, <1>8, <1>10, <1>11, NodesNat
<1>13. /\ next' \in [Nodes -> Ptr] /\ next'[c] = 0
       /\ \A m \in Nodes \ {c} : next'[m] = IF m = pp THEN nn ELSE IF m = t THEN c ELSE next[m]
  <2> DEFINE f == Put(next, t, c)
             g == [f EXCEPT ![c] = 0]
  <2>1. f \in [Nodes -> Ptr] /\ \A m \in Nodes : f[m] = IF m = t THEN c ELSE next[m]
    BY <1>3, <1>4, <1>12 DEF Put
  <2>2. /\ g \in [Nodes -> Ptr] /\ g[c] = 0
        /\ \A m \in Nodes \ {c} : g[m] = IF m = t THEN c ELSE next[m]
    <3> HIDE DEF f
    <3> QED BY <1>5, <1>12, <2>1
  <2>3. next' = Put(g, pp, nn)
    BY <1>1
  <2> HIDE DEF g
  <2> QED BY <1>3, <1>5, <1>10, <1>12, <2>2, <2>3 DEF Put
<1>14. /\ prev' \in [Nodes -> Ptr] /\ prev'[c] = t
       /\ \A m \in Nodes \ {c} : prev'[m] = IF m = nn THEN pp ELSE prev[m]
  <2> DEFINE g == [prev EXCEPT ![c] = t]
  <2>1. g \in [Nodes -> Ptr] /\ g[c] = t /\ \A m \in Nodes \ {c} : g[m] = prev[m]
    BY <1>4, <1>5, <1>12
  <2>2. prev' = Put(g, nn, pp)
    BY <1>1
  <2> HIDE DEF g
  <2> QED BY <1>3, <1>5, <1>10, <1>12, <2>1, <2>2 DEF Put
<1>15. /\ parent' \in [Nodes -> Ptr] /\ parent'[c] = n
       /\ \A m \in Nodes \ {c} : parent'[m] = parent[m]
  BY <1>1, <1>4, <1>5, <1>6, NodesNat
<1>16. /\ ChildrenOf(0)' = S \ {c} /\ ChildrenOf(n)' = T \cup {c}
       /\ \A q : q # 0 /\ q # n => ChildrenOf(q)' = ChildrenOf(q)
  BY <1>0, <1>2, <1>3, <1>5, <1>6, <1>15 DEF ChildrenOf
<1>17. /\ HeadOf(0)' = d_head' /\ TailOf(0)' = d_tail'
       /\ HeadOf(n)' = OrElse(child[n], c) /\ TailOf(n)' = c
       /\ \A q \in Allocated : q # n => HeadOf(q)' = HeadOf(q) /\ TailOf(q)' = TailOf(q)
  BY <1>0, <1>1, <1>3, <1>4, <1>6 DEF HeadOf, TailOf
<1>18. Lists'
  <2>1. ListIn(next', prev', d_head', d_tail', S \ {c})
    <3>1. /\ \A m \in S \ {c} : next'[m] = IF m = prev[c] THEN next[c] ELSE next[m]
          /\ \A m \in S \ {c} : prev'[m] = IF m = next[c] THEN prev[c] ELSE prev[m]
      BY <1>0, <1>3, <1>8, <1>11, <1>13, <1>14
    <3>2. Unlinks(next, prev, d_head, d_tail, S, c, next', prev', d_head', d_tail')
      <4>1. /\ d_head' = IF prev[c] = 0 THEN next[c] ELSE d_head
            /\ d_tail' = IF next[c] = 0 THEN prev[c] ELSE d_tail
        BY <1>0, <1>1
      <4> QED BY <3>1, <4>1 DEF Unlinks
    <3>3. d_head \in Ptr /\ d_tail \in Ptr /\ S \in SUBSET Nodes /\ c \in S
      BY <1>4, <1>5, <1>8
    <3>4. ListIn(next, prev, d_head, d_tail, S) /\ Ends(next, S)
      BY <1>8, <1>9
    <3> QED BY <3>2, <3>3, <3>4, ListUnlink
  <2>2. ListIn(next', prev', OrElse(child[n], c), c, T \cup {c})
    <3>1. \A m \in T : next'[m] = (IF m = t THEN c ELSE next[m]) /\ prev'[m] = prev[m]
      BY <1>3, <1>8, <1>10, <1>11, <1>13, <1>14
    <3>2. next'[c] = 0 /\ prev'[c] = t
      BY <1>13, <1>14
    <3>3. ListIn(next, prev, child[n], t, T) /\ c \in Nodes /\ c \notin T
      BY <1>5, <1>8, <1>11
    <3>4. child[n] \in Ptr /\ t \in Ptr /\ T \in SUBSET Nodes
      BY <1>8, <1>12
    <3> QED BY <3>1, <3>2, <3>3, <3>4, ListAppend
  <2>3. ASSUME NEW q \in Allocated, q # n
        PROVE  ListIn(next', prev', HeadOf(q), TailOf(q), ChildrenOf(q))
    <3>1. \A m \in ChildrenOf(q) : m \in Nodes /\ m \notin S /\ m \notin T /\ m # 0
      BY <1>0, <1>3, <2>3 DEF ChildrenOf
    <3>2. \A m \in ChildrenOf(q) : next'[m] = next[m] /\ prev'[m] = prev[m]
      BY <1>5, <1>10, <1>11, <1>13, <1>14, <3>1
    <3>3. ListIn(next, prev, HeadOf(q), TailOf(q), ChildrenOf(q))
      BY <1>7
    <3> QED BY <3>2, <3>3, ListFrame
  <2>4. \A q \in Allocated \cup {0} : ListIn(next', prev', HeadOf(q)', TailOf(q)', ChildrenOf(q)')
    <3> TAKE q \in Allocated \cup {0}
    <3>1. CASE q = 0
      BY <1>16, <1>17, <2>1, <3>1
    <3>2. CASE q = n
      BY <1>16, <1>17, <2>2, <3>2
    <3>3. CASE q # 0 /\ q # n
      BY <1>16, <1>17, <2>3, <3>3
    <3> QED BY <3>1, <3>2, <3>3
  <2> QED BY <1>2, <2>4 DEF Lists
<1>19. Counted'
  <2>1. ASSUME NEW q \in Allocated PROVE no_child'[q] = Cardinality(ChildrenOf(q)')
    <3>1. no_child[q] = Cardinality(ChildrenOf(q)) /\ q \in Nodes /\ q # 0
      BY <1>3 DEF TreeInv, Pointers, Counted
    <3>2. CASE q # n
      BY <1>1, <1>4, <1>16, <3>1, <3>2
    <3>3. CASE q = n
      <4>1. Cardinality(T \cup {c}) = Cardinality(T) + 1
        BY <1>0, <1>3, <1>11, FS_AddElement
      <4>2. no_child'[q] = no_child[q] + 1
        BY <1>1, <1>4, <3>1, <3>3
      <4> QED BY <1>0, <1>16, <3>1, <3>3, <4>1, <4>2
    <3> QED BY <3>2, <3>3
  <2> QED BY <1>2, <2>1 DEF Counted
<1>20. Acyclic'
  <2>1. \A m \in Hooked \ {c} : next'[m] = IF m = pp THEN next[c] ELSE IF m = t THEN c ELSE next[m]
    BY <1>0, <1>8, <1>13
  <2>2. next'[c] = 0 /\ (pp \in Hooked => next[pp] = c)
    BY <1>3, <1>10, <1>13
  <2>3. c \in Hooked /\ Hooked \in SUBSET Nodes /\ Ends(next, Hooked)
    BY <1>5, <1>8, <1>9
  <2>4. Ends(next', Hooked)
    BY <2>1, <2>2, <2>3, <1>12, EndsMove
  <2> QED BY <1>2, <2>4 DEF Acyclic
<1>21. Unused' /\ Placed'
  <2>1. \A m \in Nodes : m > Count => m # n /\ m # c
    <3>1. \A m \in Nodes : m \in Allocated <=> m <= Count
      BY AllocatedNodes DEF TreeInv
    <3>2. Count \in Nat
      BY AllocatedNodes DEF TreeInv
    <3> QED BY <1>0, <1>3, <1>5, <1>6, <3>1, <3>2, NodesNat
  <2>2. Unused'
    BY <1>0, <1>1, <1>2, <1>4, <1>15, <2>1 DEF TreeInv, Pointers, Unused
  <2>3. Placed'
    BY <1>0, <1>1, <1>2, <1>3, <1>6, <1>15 DEF TreeInv, Pointers, Placed
  <2> QED BY <1>0, <2>2, <2>3
<1>22. TypeOK'
  <2>1. d_head' \in Ptr /\ d_tail' \in Ptr /\ {d_head', d_tail', cur'} \subseteq Allocated \cup {0}
    BY <1>0, <1>1, <1>3, <1>4, <1>8, <1>10, <1>12 DEF TreeInv, TypeOK
  <2>2. child' \in [Nodes -> Ptr] /\ child_tail' \in [Nodes -> Ptr] /\ no_child' \in [Nodes -> Nat]
    <3>1. OrElse(child[n], c) \in Ptr
      BY <1>0, <1>12 DEF OrElse
    <3> QED BY <1>0, <1>1, <1>4, <1>6, <1>12, <3>1
  <2>3. VariableTypes'
    BY <1>0, <1>1, <1>2, <1>12, <1>13, <1>14, <1>15, <2>1, <2>2 DEF TreeInv, TypeOK, VariableTypes, ids
  <2> QED BY <1>0, <1>1, <1>2, <2>1, <2>3 DEF TreeInv, TypeOK, ids
<1>23. Walks'
  BY <1>0, <1>1, <1>2, <1>10, <1>16 DEF TreeInv, Walks
<1> QED BY <1>18, <1>19, <1>20, <1>21, <1>22, <1>23 DEF TreeInv, Pointers

-----------------------------------------------------------------------------
\* The empty tree satisfies it.
LEMMA InitInv == Init => TreeInv
<1> SUFFICES ASSUME Init PROVE TreeInv
  OBVIOUS
<1>1. Count = 0 /\ Allocated = {} /\ Hooked = {} /\ \A p : ChildrenOf(p) = {}
  <2>1. Len(d_id) = 0 /\ 1 .. 0 = {}
    BY DEF Init
  <2> QED BY <2>1 DEF Count, Allocated, Hooked, ChildrenOf
<1>2. VariableTypes
  BY <1>1, NodesNat DEF Init, VariableTypes, Count, NoId
<1>3. TypeOK
  BY <1>1, <1>2 DEF Init, TypeOK
<1>4. Lists
  BY <1>1 DEF Init, Lists, ListIn, HeadOf, TailOf
<1>5. Counted /\ Acyclic
  BY <1>1 DEF Counted, Acyclic, Ends
<1>6. Unused /\ Placed
  BY <1>1 DEF Init, Unused, Placed
<1>7. Walks
  BY <1>1, NodesAssumption DEF Init, Walks
<1> QED BY <1>3, <1>4, <1>5, <1>6, <1>7 DEF TreeInv, Pointers

\* Where a list leads to a hooked node, or nowhere.
LEMMA Targets ==
  ASSUME TreeInv
  PROVE  /\ d_head \in ChildrenOf(0) \cup {0}
         /\ \A p \in Allocated : child[p] \in ChildrenOf(p) \cup {0}
         /\ \A n \in Hooked : next[n] = 0 \/ (next[n] \in Hooked /\ parent[next[n]] = parent[n])
<1>1. \A p \in Allocated \cup {0} : ListIn(next, prev, HeadOf(p), TailOf(p), ChildrenOf(p))
  BY DEF TreeInv, Pointers, Lists
<1>2. 0 \notin Allocated /\ Hooked \subseteq Allocated
  BY AllocatedNodes DEF TreeInv
<1>3. \A p \in Allocated \cup {0} : HeadOf(p) \in ChildrenOf(p) \cup {0}
  BY <1>1 DEF ListIn
<1>4. \A n \in Hooked : next[n] = 0 \/ next[n] \in ChildrenOf(parent[n])
  <2> TAKE n \in Hooked
  <2>1. parent[n] \in Allocated \cup {0} /\ n \in ChildrenOf(parent[n])
    BY <1>2 DEF TreeInv, Pointers, Placed, ChildrenOf
  <2>2. ListIn(next, prev, HeadOf(parent[n]), TailOf(parent[n]), ChildrenOf(parent[n]))
    BY <1>1, <2>1
  <2> QED BY <2>1, <2>2 DEF ListIn
<1> QED BY <1>2, <1>3, <1>4 DEF HeadOf, ChildrenOf

\* pst_getDptr and its callers before and after: the pointers stay.
LEMMA StartSearchInv ==
  ASSUME TreeInv, NEW who \in {"record", "top", "walk"}, NEW i \in Nat \cup {NoId},
         StartSearch(who, i), UNCHANGED <<ids, links, node, topnode>>,
         (node # 0) = (who = "record"),
         who = "top" => topnode = 0 /\ i \in Nat
  PROVE  TreeInv'
<1>1. Pointers' /\ Count' = Count /\ Hooked' = Hooked /\ parent' = parent
  BY Frame DEF TreeInv
<1>2. d_head \in ChildrenOf(0) \cup {0} /\ ChildrenOf(0) \subseteq Hooked
  BY Targets DEF ChildrenOf
<1>3. TypeOK'
  BY DEF TreeInv, TypeOK, VariableTypes, StartSearch, ids, links, kidLists, topList, Count, Allocated
<1>4. \E A \in SUBSET Hooked : d_head \in A \cup {0} /\ Rooted(A)
  <2>1. Rooted(ChildrenOf(0))
    BY DEF Rooted, ChildrenOf
  <2> QED BY <1>2, <2>1
<1>5. Walks'
  <2>1. /\ pc' = "search" /\ cur' = d_head /\ caller' = who /\ goal' = i /\ topnode' = topnode
    BY DEF StartSearch
  <2>2. \A A : Rooted(A)' <=> Rooted(A)
    BY <1>1 DEF Rooted
  <2> QED BY <1>1, <1>4, <2>1, <2>2 DEF TreeInv, Walks
<1> QED BY <1>1, <1>3, <1>5 DEF TreeInv

\* A step of a walk to a hooked node with a rooted neighbour.
LEMMA WalkInv ==
  ASSUME TreeInv, pc \in {"search", "climb"}, Down \/ Leaf \/ Up \/ Across
  PROVE  TreeInv'
<1>1. Pointers' /\ Count' = Count /\ Hooked' = Hooked /\ parent' = parent
  <2>1. UNCHANGED <<ids, links, node>>
    BY DEF Down, Leaf, Up, Across
  <2> QED BY <2>1, Frame DEF TreeInv
<1>2. PICK A \in SUBSET Hooked : cur \in A \cup {0} /\ Rooted(A)
  BY DEF TreeInv, Walks
<1>3. cur # 0
  BY DEF Down, Leaf, Up, Across, TreeInv, TypeOK
<1>4. cur \in A /\ cur \in Hooked /\ cur \in Allocated /\ cur \in Nodes /\ Hooked \subseteq Allocated
      /\ Allocated \subseteq Nodes
  BY <1>2, <1>3, AllocatedNodes DEF TreeInv
<1>5. \E B \in SUBSET Hooked : cur' \in B \cup {0} /\ Rooted(B)
  <2>1. CASE Down
    <3>1. cur' = child[cur] /\ child[cur] \in ChildrenOf(cur)
      BY <1>4, <2>1, Targets DEF Down
    <3>2. child[cur] \in Hooked /\ parent[child[cur]] = cur
      BY <3>1 DEF ChildrenOf
    <3>3. Rooted(A \cup {child[cur]})
      BY <1>2, <1>4, <3>2 DEF Rooted
    <3>4. A \cup {child[cur]} \in SUBSET Hooked
      BY <3>2
    <3> QED BY <3>1, <3>3, <3>4
  <2>2. CASE Leaf
    BY <1>2, <2>2 DEF Leaf
  <2>3. CASE Up
    BY <1>2, <1>4, <2>3 DEF Up, Rooted
  <2>4. CASE Across
    <3>1. cur' = next[cur]
      BY <2>4 DEF Across
    <3>2. CASE next[cur] = 0
      BY <1>2, <3>1, <3>2
    <3>3. CASE next[cur] # 0
      <4>1. next[cur] \in Hooked /\ parent[next[cur]] = parent[cur]
        BY <1>4, <3>3, Targets
      <4>2. Rooted(A \cup {next[cur]})
        BY <1>2, <1>4, <4>1 DEF Rooted
      <4>3. A \cup {next[cur]} \in SUBSET Hooked
        BY <4>1
      <4> QED BY <3>1, <4>2, <4>3
    <3> QED BY <3>2, <3>3
  <2> QED BY <2>1, <2>2, <2>3, <2>4
<1>6. TypeOK'
  <2>1. cur' \in Allocated \cup {0} /\ cur' \in Ptr /\ (pc' = "climb" => cur' # 0)
    BY <1>3, <1>4, <1>5, NodesNat DEF Down, Leaf, Up, Across
  <2>2. seen' \subseteq Nodes
    BY <1>4 DEF Down, Leaf, Up, Across, TreeInv, TypeOK, VariableTypes
  <2>3. pc' \in {"search", "climb"} /\ UNCHANGED <<ids, links, node, caller, goal, topnode>>
    BY DEF Down, Leaf, Up, Across
  <2>4. VariableTypes'
    BY <2>1, <2>2, <2>3 DEF TreeInv, TypeOK, VariableTypes, ids, links, kidLists, topList, Count
  <2> QED BY <2>1, <2>3, <2>4 DEF TreeInv, TypeOK, ids, links, topList, Count, Allocated
<1>7. Walks'
  <2>1. /\ pc' \in {"search", "climb"} /\ caller' = caller /\ goal' = goal /\ topnode' = topnode
    BY DEF Down, Leaf, Up, Across
  <2>2. \A B : Rooted(B)' <=> Rooted(B)
    BY <1>1 DEF Rooted
  <2> QED BY <1>1, <1>5, <2>1, <2>2 DEF TreeInv, Walks
<1> QED BY <1>1, <1>6, <1>7 DEF TreeInv

\* The end of a search that hangs nothing, and the adoption loop passing a node.
LEMMA EndInv == ASSUME TreeInv, PassOver \/ TopFound \/ EndWalk PROVE TreeInv'
<1>1. Pointers' /\ Count' = Count /\ Hooked' = Hooked /\ parent' = parent
  <2>1. UNCHANGED <<ids, links, node>>
    BY DEF PassOver, TopFound, EndWalk
  <2> QED BY <2>1, Frame DEF TreeInv
<1>2. CASE PassOver
  <2>1. cur \in ChildrenOf(0) /\ cur \in Hooked /\ parent[cur] = 0
    BY <1>2 DEF PassOver, TreeInv, Walks, ChildrenOf
  <2>2. next[cur] \in ChildrenOf(0) \cup {0}
    BY <2>1, Targets DEF ChildrenOf
  <2>3. cur' \in ChildrenOf(0)' \cup {0}
    BY <1>1, <1>2, <2>2 DEF PassOver, ChildrenOf
  <2>4. cur' \in Ptr /\ cur' \in Allocated \cup {0}
    BY <1>2, <2>2, AllocatedNodes, NodesNat DEF PassOver, TreeInv
  <2>5. TypeOK'
    BY <1>2, <2>4 DEF PassOver, TreeInv, TypeOK, VariableTypes, ids, links, kidLists, topList, Count,
      Allocated
  <2>6. Walks'
    BY <1>1, <1>2, <2>3 DEF PassOver, TreeInv, Walks
  <2> QED BY <1>1, <2>5, <2>6 DEF TreeInv
<1>3. CASE TopFound \/ EndWalk
  <2>1. pc' \in {"idle", "done"} /\ topnode' \in {topnode, cur} /\ UNCHANGED <<ids, links, node, walk>>
    BY <1>3 DEF TopFound, EndWalk
  <2>2. pc = "search" /\ caller # "record" /\ (topnode' = topnode \/ cur # 0)
    BY <1>3 DEF TopFound, EndWalk, Found
  <2>3. TypeOK'
    BY <2>1, <2>2 DEF TreeInv, TypeOK, VariableTypes, ids, links, kidLists, topList, walk, Count, Allocated
  <2>4. Walks'
    BY <1>1, <2>1, <2>2 DEF TreeInv, Walks
  <2> QED BY <1>1, <2>3, <2>4 DEF TreeInv
<1> QED BY <1>2, <1>3

\* The three places that hang the new node.
LEMMA HookPlaces ==
  ASSUME TreeInv, HookTop \/ HookOrphan \/ HookUnder
  PROVE  /\ node # 0
         /\ \E p \in Hooked \cup {0} :
              /\ HookAt(p)
              /\ \/ p = 0 /\ pc = "adopt" /\ cur = 0 /\ parent_d_id[node] \in {0, d_id[node]}
                 \/ p = 0 /\ pc = "search" /\ caller = "record" /\ cur = 0
                 \/ p # 0 /\ p = cur /\ pc = "search" /\ caller = "record" /\ d_id[p] = goal
<1>1. node # 0 /\ node \in Nodes /\ parent[node] = 0 /\ parent \in [Nodes -> Ptr]
  <2>1. node # 0
    BY DEF HookTop, HookOrphan, HookUnder, TreeInv, TypeOK
  <2>2. node \in Allocated /\ Allocated \subseteq Nodes
    BY <2>1, AllocatedNodes DEF TreeInv, TypeOK
  <2> QED BY <2>1, <2>2 DEF TreeInv, TypeOK, VariableTypes, Pointers, Placed
<1>2. CASE HookTop \/ HookOrphan
  <2>1. /\ AddToTop(node) /\ node' = 0 /\ pc' = "idle" /\ UNCHANGED <<ids, kidLists, walk, topnode>>
    BY <1>2 DEF HookTop, HookOrphan
  <2>2. [parent EXCEPT ![node] = 0] = parent
    BY <1>1
  <2>3. HookAt(0)
    BY <2>1, <2>2 DEF HookAt, AddToTop, TailOf, kidLists
  <2> QED BY <1>1, <1>2, <2>3 DEF HookTop, HookOrphan
<1>3. CASE HookUnder
  <2>1. cur # 0 /\ cur \in Hooked
    BY <1>3 DEF HookUnder, Found, TreeInv, Walks
  <2>2. HookAt(cur)
    BY <1>3, <2>1 DEF HookUnder, AddToParent, HookAt, TailOf, topList
  <2> QED BY <1>1, <1>3, <2>1, <2>2 DEF HookUnder, Found
<1> QED BY <1>2, <1>3

\* Every step of every loop keeps it.
LEMMA StepInv == TreeInv /\ [Next]_vars => TreeInv'
<1> SUFFICES ASSUME TreeInv, [Next]_vars PROVE TreeInv'
  OBVIOUS
<1>1. ASSUME NEW i \in Ids, NEW w \in Wants, Load(i, w) PROVE TreeInv'
  <2>1. node = 0 /\ Count \in Nat
    BY <1>1, AllocatedNodes DEF Load, TreeInv, TypeOK
  <2>2. /\ StartRecord(i, w) /\ Count < MaxNodes - 1 /\ i \in Nat /\ w \in Nat
        /\ UNCHANGED <<caller, goal, seen, topnode>>
    BY <1>1, IdsAssumption DEF Load
  <2>3. Count < MaxNodes /\ Count + 1 < MaxNodes
    BY <2>1, <2>2, NodesNat
  <2> QED BY <2>1, <2>2, <2>3, StartRecordInv
<1>2. ASSUME NEW t \in TopIds, LookForTop(t) PROVE TreeInv'
  BY <1>2, IdsAssumption, StartSearchInv DEF LookForTop, TreeInv, TypeOK
<1>3. CASE StartWalk
  BY <1>3, StartSearchInv DEF StartWalk, TreeInv, TypeOK
<1>4. CASE LookForParent
  <2>1. node \in Allocated /\ Len(parent_d_id) = Count /\ parent_d_id \in Seq(Nat)
    BY <1>4, AllocatedNodes DEF LookForParent, TreeInv, TypeOK, VariableTypes
  <2>2. parent_d_id[node] \in Nat
    BY <2>1 DEF Allocated
  <2> QED BY <1>4, <2>2, StartSearchInv DEF LookForParent, TreeInv, TypeOK
<1>5. CASE AdoptOrphan
  BY <1>5, AdoptInv
<1>6. CASE PassOver \/ TopFound \/ EndWalk
  BY <1>6, EndInv
<1>7. CASE HookTop \/ HookOrphan \/ HookUnder
  BY <1>7, HookPlaces, HookInv
<1>8. CASE Down \/ Leaf \/ Up \/ Across
  <2>1. pc \in {"search", "climb"}
    BY <1>8 DEF Down, Leaf, Up, Across
  <2> QED BY <1>8, <2>1, WalkInv
<1>9. CASE InventTop
  <2>1. /\ StartRecord(goal, 0) /\ topnode' = Count + 1 /\ UNCHANGED <<caller, goal, seen>>
        /\ pc = "search" /\ caller = "top"
    BY <1>9 DEF InventTop
  <2>2. node = 0 /\ goal \in Nat /\ Count < MaxNodes /\ Count \in Nat
    BY <2>1, AllocatedNodes DEF TreeInv, TypeOK, Walks
  <2>3. topnode' # 0
    BY <2>1, <2>2
  <2> QED BY <2>1, <2>2, <2>3, StartRecordInv
<1>10. CASE UNCHANGED vars
  <2>1. Pointers' /\ Count' = Count /\ Hooked' = Hooked /\ parent' = parent
    BY <1>10, Frame DEF vars, TreeInv
  <2>2. TypeOK'
    BY <1>10 DEF vars, ids, links, kidLists, topList, walk, TreeInv, TypeOK, VariableTypes, Count, Allocated
  <2>3. Walks'
    BY <1>10, <2>1 DEF vars, walk, TreeInv, Walks, ChildrenOf, Rooted
  <2> QED BY <2>1, <2>2, <2>3 DEF TreeInv
<1> QED BY <1>1, <1>2, <1>3, <1>4, <1>5, <1>6, <1>7, <1>8, <1>9, <1>10 DEF Next, Step

\* record_descriptor and pst_getTopOfFolders keep every list of the tree sound,
\* whatever records they are given: the pointers of a list lead along exactly
\* the nodes that name its owner, in both directions, tails and counts are right.
THEOREM TreeLinked == Spec => []LinksConsistent
<1>1. Init => TreeInv
  BY InitInv
<1>2. TreeInv /\ [Next]_vars => TreeInv'
  BY StepInv
<1>3. TreeInv => LinksConsistent
  BY InvLinks
<1> QED BY <1>1, <1>2, <1>3, PTL DEF Spec
-----------------------------------------------------------------------------
\* The parents lead nowhere in a circle.
Grounded == Ends(parent, Allocated)

\* The walk is at the end of one way down from the top level.
WayDown(P) ==
  /\ cur \in P \cup {0} /\ (cur = 0 => P = {})
  /\ \A n \in P : parent[n] \in P \cup {0} /\ parent[n] # cur
  /\ \A m, n \in P : parent[m] = parent[n] => m = n

\* Whoever was compared came after its parent and the one before it, and before
\* its children; the ones behind it come once the walk has left it.
Here == IF pc = "search" THEN {cur} ELSE {}
Visited(P) ==
  /\ seen \subseteq Hooked /\ cur \notin seen \cap Here /\ P \ Here \subseteq seen
  /\ \A n \in seen : parent[n] \in seen \cup {0} /\ prev[n] \in seen \cup {0}
  /\ cur # 0 => prev[cur] \in seen \cup {0}
  /\ d_head \in seen \cup Here \cup {0}
  /\ \A n \in seen : child[n] \in seen \cup Here \cup {0} /\ d_id[n] # goal
  /\ \A n \in seen \ P : next[n] \in seen \cup Here \cup {0}
  /\ \A n \in P : next[n] \notin seen

WalkOnce ==
  /\ pc \in {"search", "climb"} => \E P \in SUBSET Hooked : WayDown(P) /\ Visited(P)
  /\ pc = "done" => seen = Allocated

\* The orphans that the adoption loop has passed.
Passed(D) ==
  /\ \A n \in D : parent_d_id[n] # d_id[node] /\ next[n] \in D \cup {cur, 0}
  /\ d_head \in D \cup {cur, 0}

\* A parent has the id that was asked for; an orphan has no parent among the
\* hooked nodes but below itself.
Matched == \A n \in Allocated : parent[n] # 0 => d_id[parent[n]] = parent_d_id[n]
Waits(n, S) == parent_d_id[n] \notin {0, d_id[n]} =>
                 \A m \in S : d_id[m] = parent_d_id[n] => IsBelow(m, n)
Orphans == \A n \in ChildrenOf(0) : Waits(n, Hooked)

Searching == pc \in {"search", "climb"} /\ caller = "record"
Settled ==
  /\ Matched /\ Orphans
  /\ pc = "adopt" => \E D \in SUBSET ChildrenOf(0) : Passed(D)
  /\ Searching => /\ goal = parent_d_id[node] /\ goal \notin {0, d_id[node]}
                  /\ \A n \in ChildrenOf(0) : parent_d_id[n] # d_id[node]

OrderInv == TreeInv /\ Grounded /\ WalkOnce /\ Settled

-----------------------------------------------------------------------------
\* The neighbours of a node that hangs in a list.
LEMMA Neighbours ==
  ASSUME TreeInv, NEW n \in Hooked
  PROVE  /\ n # 0 /\ n \in Allocated /\ n \in Nodes /\ parent[n] \in Allocated \cup {0}
         /\ next[n] # 0 => next[n] \in Hooked /\ parent[next[n]] = parent[n] /\ prev[next[n]] = n
         /\ prev[n] # 0 => prev[n] \in Hooked /\ parent[prev[n]] = parent[n] /\ next[prev[n]] = n
         /\ prev[n] = 0 => n = HeadOf(parent[n])
         /\ child[n] # 0 => child[n] \in Hooked /\ parent[child[n]] = n /\ prev[child[n]] = 0
<1>1. n # 0 /\ n \in Allocated /\ n \in Nodes /\ parent[n] \in Allocated \cup {0}
  BY AllocatedNodes, NodesNat DEF TreeInv, Pointers, Placed
<1>2. /\ ListIn(next, prev, HeadOf(n), TailOf(n), ChildrenOf(n))
      /\ ListIn(next, prev, HeadOf(parent[n]), TailOf(parent[n]), ChildrenOf(parent[n]))
  BY <1>1 DEF TreeInv, Pointers, Lists
<1>3. n \in ChildrenOf(parent[n]) /\ HeadOf(n) = child[n]
  BY <1>1 DEF ChildrenOf, HeadOf
<1>4. child[n] # 0 => child[n] \in ChildrenOf(n) /\ prev[child[n]] = 0
  BY <1>2, <1>3 DEF ListIn
<1>5. /\ next[n] # 0 => next[n] \in ChildrenOf(parent[n]) /\ prev[next[n]] = n
      /\ prev[n] # 0 => prev[n] \in ChildrenOf(parent[n]) /\ next[prev[n]] = n
      /\ prev[n] = 0 => n = HeadOf(parent[n])
  BY <1>2, <1>3 DEF ListIn
<1> QED BY <1>1, <1>4, <1>5 DEF ChildrenOf

\* The first node of the top level.
LEMMA FirstNode ==
  ASSUME TreeInv
  PROVE  d_head # 0 => d_head \in Hooked /\ parent[d_head] = 0 /\ prev[d_head] = 0
<1>1. ListIn(next, prev, HeadOf(0), TailOf(0), ChildrenOf(0))
  BY DEF TreeInv, Pointers, Lists
<1> QED BY <1>1 DEF ListIn, HeadOf, ChildrenOf

\* Sets of nodes are finite and without 0.
LEMMA HookedSets ==
  ASSUME TreeInv
  PROVE  /\ Hooked \subseteq Allocated /\ Allocated \subseteq Nodes /\ 0 \notin Allocated
         /\ IsFiniteSet(Allocated) /\ \A T \in SUBSET Allocated : IsFiniteSet(T)
<1>1. Hooked \subseteq Allocated /\ Allocated \subseteq Nodes /\ 0 \notin Allocated /\ IsFiniteSet(Allocated)
  BY AllocatedNodes DEF TreeInv
<1> QED BY <1>1, FS_Subset

\* A circle of prev would be one of next.
LEMMA NoPrevCircle == ASSUME TreeInv PROVE Ends(prev, Hooked)
<1> SUFFICES ASSUME NEW T \in SUBSET Hooked, T # {}, \A n \in T : prev[n] \in T PROVE FALSE
  BY DEF Ends
<1> DEFINE f == [n \in T |-> prev[n]]
<1>1. IsFiniteSet(T)
  BY HookedSets
<1>2. \A n \in T : n # 0 /\ prev[n] # 0 /\ next[prev[n]] = n
  BY Neighbours
<1>3. f \in Injection(T, T)
  <2>1. f \in [T -> T]
    OBVIOUS
  <2>2. \A m, n \in T : f[m] = f[n] => m = n
    BY <1>2
  <2> QED BY <2>1, <2>2 DEF Injection, IsInjective
<1>4. f \in Surjection(T, T)
  BY <1>1, <1>3, FS_Injection, FS_CardinalityType
<1>5. PICK n \in T : next[n] \notin T
  BY DEF TreeInv, Pointers, Acyclic, Ends
<1>6. PICK m \in T : f[m] = n
  BY <1>4 DEF Surjection
<1> QED BY <1>2, <1>5, <1>6

\* No node is its own neighbour.
LEMMA NotItself ==
  ASSUME TreeInv, Grounded, NEW n \in Hooked
  PROVE  next[n] # n /\ prev[n] # n /\ parent[n] # n
<1>1. {n} \in SUBSET Hooked /\ {n} # {} /\ {n} \in SUBSET Allocated
  BY HookedSets
<1>2. next[n] # n
  BY <1>1 DEF TreeInv, Pointers, Acyclic, Ends
<1>3. prev[n] # n
  BY <1>1, NoPrevCircle DEF Ends
<1>4. parent[n] # n
  BY <1>1 DEF Grounded, Ends
<1> QED BY <1>2, <1>3, <1>4

\* One step of a walk: pst_getDptr and pst_getNextDptr meet every node once.
LEMMA VisitStep ==
  ASSUME TreeInv, Grounded, NEW P \in SUBSET Hooked, WayDown(P), Visited(P),
         pc \in {"search", "climb"}, Down \/ Leaf \/ Up \/ Across
  PROVE  \E Q \in SUBSET Hooked : WayDown(Q)' /\ Visited(Q)'
<1>0. /\ UNCHANGED <<ids, links, node, goal>> /\ next' = next /\ prev' = prev /\ parent' = parent /\ child' = child
      /\ d_head' = d_head /\ d_id' = d_id /\ Hooked' = Hooked /\ cur \in P /\ cur # 0 /\ 0 \notin Hooked
  <2>1. UNCHANGED <<ids, links, node, goal>>
    BY DEF Down, Leaf, Up, Across
  <2>2. Hooked' = Hooked
    BY <2>1, Frame DEF TreeInv
  <2>3. cur # 0
    BY DEF Down, Leaf, Up, Across, TreeInv, TypeOK
  <2> QED BY <2>1, <2>2, <2>3, HookedSets DEF ids, links, kidLists, topList, WayDown
<1>1. cur \in Hooked /\ parent[cur] # cur /\ next[cur] # cur /\ prev[cur] # cur
  BY <1>0, NotItself
<1>2. CASE Down
  <2> PICK c, Q : c = child[cur] /\ Q = P \cup {c}
    OBVIOUS
  <2>1. /\ pc = "search" /\ c # 0 /\ seen' = seen \cup {cur} /\ cur' = c /\ pc' = "search" /\ d_id[cur] # goal
    BY <1>2 DEF Down
  <2>2. c \in Hooked /\ parent[c] = cur /\ prev[c] = 0
    BY <1>1, <2>1, Neighbours
  <2>3. cur \notin seen /\ Here = {cur} /\ Here' = {c} /\ c # cur
    BY <1>1, <2>1, <2>2 DEF Here, Visited
  <2>4. c \notin seen'
    BY <1>0, <2>1, <2>2, <2>3 DEF Visited
  <2>5. c \notin P
    BY <2>2, <2>3 DEF WayDown
  <2>6. WayDown(Q)'
    <3>1. \A n \in P : parent[n] # c
      BY <2>1, <2>5 DEF WayDown
    <3>2. \A n \in Q : parent[n] \in Q \cup {0} /\ parent[n] # c
      BY <1>0, <2>2, <2>3, <3>1 DEF WayDown
    <3>3. \A n \in P : parent[n] # parent[c]
      BY <2>2 DEF WayDown
    <3>4. \A m, n \in Q : parent[m] = parent[n] => m = n
      BY <3>3 DEF WayDown
    <3> QED BY <1>0, <2>1, <3>2, <3>4 DEF WayDown
  <2>7. Visited(Q)'
    <3>1. seen' \subseteq Hooked /\ Q \ {c} \subseteq seen'
      BY <1>0, <1>1, <2>1, <2>3 DEF Visited
    <3>2. \A n \in seen' : parent[n] \in seen' \cup {0} /\ prev[n] \in seen' \cup {0}
      <4>1. parent[cur] \in seen \cup {0} /\ prev[cur] \in seen \cup {0}
        BY <1>0, <1>1, <2>3 DEF Visited, WayDown
      <4> QED BY <2>1, <4>1 DEF Visited
    <3>3. \A n \in seen' : child[n] \in seen' \cup {c, 0} /\ d_id[n] # goal
      BY <2>1, <2>3 DEF Visited
    <3>4. \A n \in seen' \ Q : next[n] \in seen' \cup {c, 0}
      BY <1>0, <2>1, <2>3 DEF Visited
    <3>5. \A n \in P : next[n] \notin seen'
      <4>1. \A n \in P : next[n] \notin seen
        BY DEF Visited
      <4>2. ASSUME NEW n \in P, next[n] = cur PROVE FALSE
        <5>1. parent[n] = parent[cur]
          BY <1>0, <4>2, Neighbours
        <5> QED BY <1>0, <1>1, <4>2, <5>1 DEF WayDown
      <4> QED BY <2>1, <4>1, <4>2
    <3>6. next[c] \notin seen'
      <4>1. next[c] \in seen => FALSE
        BY <1>0, <2>1, <2>2, <2>4, Neighbours DEF Visited
      <4>2. next[c] = cur => FALSE
        BY <1>0, <1>1, <2>2, Neighbours
      <4> QED BY <2>1, <4>1, <4>2
    <3>7. d_head \in seen' \cup {0}
      BY <2>1, <2>3 DEF Visited
    <3> QED BY <1>0, <2>1, <2>2, <2>3, <2>4, <3>1, <3>2, <3>3, <3>4, <3>5, <3>6, <3>7 DEF Visited
  <2>8. Q \in SUBSET Hooked
    BY <2>2
  <2> QED BY <2>6, <2>7, <2>8
<1>3. CASE Leaf
  <2>1. pc = "search" /\ child[cur] = 0 /\ seen' = seen \cup {cur} /\ cur' = cur /\ pc' = "climb" /\ d_id[cur] # goal
    BY <1>3 DEF Leaf
  <2>2. cur \notin seen /\ Here = {cur} /\ Here' = {}
    BY <2>1 DEF Here, Visited
  <2>3. WayDown(P)'
    BY <1>0, <2>1 DEF WayDown
  <2>4. Visited(P)'
    <3>1. \A n \in seen' : parent[n] \in seen' \cup {0} /\ prev[n] \in seen' \cup {0}
      <4>1. parent[cur] \in seen \cup {0} /\ prev[cur] \in seen \cup {0}
        BY <1>0, <1>1, <2>2 DEF Visited, WayDown
      <4> QED BY <2>1, <4>1 DEF Visited
    <3>2. \A n \in P : next[n] \notin seen'
      <4>1. ASSUME NEW n \in P, next[n] = cur PROVE FALSE
        <5>1. parent[n] = parent[cur]
          BY <1>0, <4>1, Neighbours
        <5> QED BY <1>0, <1>1, <4>1, <5>1 DEF WayDown
      <4> QED BY <2>1, <4>1 DEF Visited
    <3>3. seen' \subseteq Hooked /\ P \subseteq seen' /\ d_head \in seen' \cup {0}
      BY <1>0, <1>1, <2>1, <2>2 DEF Visited
    <3>4. \A n \in seen' : child[n] \in seen' \cup {0} /\ d_id[n] # goal
      BY <2>1, <2>2 DEF Visited
    <3>5. \A n \in seen' \ P : next[n] \in seen' \cup {0}
      BY <1>0, <2>1, <2>2 DEF Visited
    <3>6. prev[cur] \in seen' \cup {0}
      BY <1>0, <2>1 DEF Visited
    <3> QED BY <1>0, <2>1, <2>2, <3>1, <3>2, <3>3, <3>4, <3>5, <3>6 DEF Visited
  <2> QED BY <2>3, <2>4
<1>4. CASE Up
  <2> PICK p, Q : p = parent[cur] /\ Q = P \ {cur}
    OBVIOUS
  <2>1. pc = "climb" /\ next[cur] = 0 /\ p # 0 /\ cur' = p /\ pc' = "climb" /\ seen' = seen
    BY <1>4 DEF Up
  <2>2. p \in Q /\ Here = {} /\ Here' = {}
    BY <1>0, <1>1, <2>1 DEF WayDown, Here
  <2>3. WayDown(Q)'
    BY <1>0, <1>1, <2>1, <2>2 DEF WayDown
  <2>4. Visited(Q)'
    <3>1. \A n \in seen \ Q : next[n] \in seen \cup {0}
      BY <1>0, <2>1, <2>2 DEF Visited
    <3>2. prev[p] \in seen \cup {0}
      BY <2>2 DEF Visited
    <3> QED BY <1>0, <2>1, <2>2, <3>1, <3>2 DEF Visited
  <2> QED BY <2>3, <2>4
<1>5. CASE Across
  <2> PICK n, R, Q : n = next[cur] /\ R = P \ {cur} /\ Q = R \cup {n}
    OBVIOUS
  <2>1. pc = "climb" /\ (n # 0 \/ parent[cur] = 0) /\ cur' = n /\ pc' = "search" /\ seen' = seen
    BY <1>5 DEF Across
  <2>2. cur \in seen /\ P \subseteq seen /\ Here = {} /\ Here' = {n} /\ n \notin seen
    BY <1>0, <2>1 DEF Here, Visited
  <2>3. CASE n = 0
    <3>1. R = {}
      <4>1. SUFFICES ASSUME R # {} PROVE FALSE
        OBVIOUS
      <4>2. PICK m \in R : parent[m] \notin R
        BY <4>1, HookedSets DEF Grounded, Ends
      <4>3. parent[m] = 0
        BY <4>2 DEF WayDown
      <4> QED BY <1>0, <2>1, <2>3, <4>2, <4>3 DEF WayDown
    <3>2. P = {cur}
      BY <1>0, <3>1
    <3>3. WayDown({})'
      BY <2>1, <2>3 DEF WayDown
    <3>4. Visited({})'
      BY <1>0, <2>1, <2>2, <2>3, <3>2 DEF Visited
    <3> QED BY <3>3, <3>4
  <2>4. CASE n # 0
    <3>1. n \in Hooked /\ parent[n] = parent[cur] /\ prev[n] = cur
      BY <1>1, <2>4, Neighbours
    <3>2. n \notin P /\ n # cur /\ \A m \in P : parent[m] # n
      BY <2>2, <2>4 DEF WayDown
    <3>3. WayDown(Q)'
      <4>1. \A m \in R \cup {n} : parent[m] \in R \cup {n, 0} /\ parent[m] # n
        BY <1>0, <1>1, <3>1, <3>2 DEF WayDown
      <4>2. \A m \in R : parent[m] # parent[n]
        BY <1>0, <3>1 DEF WayDown
      <4>3. \A m, q \in R \cup {n} : parent[m] = parent[q] => m = q
        BY <4>2 DEF WayDown
      <4> QED BY <1>0, <2>1, <2>4, <4>1, <4>3 DEF WayDown
    <3>4. Visited(Q)'
      <4>1. next[n] \notin seen
        BY <1>0, <2>2, <3>1, Neighbours DEF Visited
      <4>2. \A m \in seen \ (R \cup {n}) : next[m] \in seen \cup {n, 0}
        BY <2>2 DEF Visited
      <4>3. seen \subseteq Hooked /\ R \subseteq seen /\ d_head \in seen \cup {0}
        BY <2>2 DEF Visited
      <4>4. \A m \in seen : /\ parent[m] \in seen \cup {0} /\ prev[m] \in seen \cup {0}
                            /\ child[m] \in seen \cup {0} /\ d_id[m] # goal
        BY <2>2 DEF Visited
      <4>5. \A m \in R : next[m] \notin seen
        BY DEF Visited
      <4> QED BY <1>0, <2>1, <2>2, <2>4, <3>1, <4>1, <4>2, <4>3, <4>4, <4>5 DEF Visited
    <3>5. Q \in SUBSET Hooked
      BY <3>1
    <3> QED BY <3>3, <3>4, <3>5
  <2> QED BY <2>3, <2>4
<1> QED BY <1>2, <1>3, <1>4, <1>5
-----------------------------------------------------------------------------
\* A walk begins at the first node of the top level.
LEMMA StartVisit ==
  ASSUME TreeInv, NEW who, NEW i, StartSearch(who, i), UNCHANGED <<ids, links, node>>
  PROVE  WalkOnce'
<1> PICK P : P = {d_head} \ {0}
  OBVIOUS
<1>1. /\ next' = next /\ prev' = prev /\ parent' = parent /\ child' = child /\ d_head' = d_head
      /\ Hooked' = Hooked /\ pc' = "search" /\ cur' = d_head /\ seen' = {} /\ Here' = {d_head}
  BY Frame DEF TreeInv, StartSearch, links, kidLists, topList, Here
<1>2. P \in SUBSET Hooked /\ \A n \in P : n # 0 /\ n = d_head /\ parent[n] = 0 /\ prev[n] = 0
  BY FirstNode
<1>3. WayDown(P)'
  BY <1>1, <1>2 DEF WayDown
<1>4. Visited(P)'
  BY <1>1, <1>2, FirstNode DEF Visited
<1> QED BY <1>1, <1>2, <1>3, <1>4 DEF WalkOnce

\* When a walk is over, it has seen every node that hangs on the top level.
LEMMA AllSeen ==
  ASSUME TreeInv, Grounded, WalkOnce, pc = "search", cur = 0,
         NEW A \in SUBSET Hooked, Rooted(A)
  PROVE  A \subseteq seen /\ seen \subseteq Hooked /\ \A n \in seen : d_id[n] # goal
<1>1. PICK P : WayDown(P) /\ Visited(P)
  BY DEF WalkOnce
<1>2. /\ P = {} /\ seen \subseteq Hooked /\ d_head \in seen \cup {0}
      /\ \A n \in seen : child[n] \in seen \cup {0} /\ next[n] \in seen \cup {0} /\ d_id[n] # goal
  BY <1>1 DEF WayDown, Visited, Here
<1>3. SUFFICES ASSUME A \ seen # {} PROVE FALSE
  BY <1>2
<1>4. PICK m \in A \ seen : parent[m] \notin A \ seen
  BY <1>3, HookedSets DEF Grounded, Ends
<1>5. PICK q, C : q = parent[m] /\ C = {n \in Hooked \ seen : parent[n] = q}
  OBVIOUS
<1>6. q \in seen \cup {0} /\ C # {}
  BY <1>4, <1>5 DEF Rooted
<1>7. PICK n \in C : prev[n] \notin C
  BY <1>5, <1>6, NoPrevCircle DEF Ends
<1>8. n \in Hooked /\ n # 0 /\ n \notin seen /\ parent[n] = q
  BY <1>5, <1>7, HookedSets
<1>9. prev[n] = 0
  <2> SUFFICES ASSUME prev[n] # 0 PROVE FALSE
    OBVIOUS
  <2>1. prev[n] \in Hooked /\ parent[prev[n]] = q /\ next[prev[n]] = n
    BY <1>8, Neighbours
  <2> QED BY <1>2, <1>5, <1>7, <1>8, <2>1
<1>10. n = HeadOf(q)
  BY <1>8, <1>9, Neighbours
<1> QED BY <1>2, <1>6, <1>8, <1>10 DEF HeadOf

\* What AddToTop and AddToParent do to the tree.
LEMMA HookFacts ==
  ASSUME TreeInv, node # 0, NEW p \in Hooked \cup {0}, HookAt(p)
  PROVE  /\ Allocated' = Allocated /\ Hooked' = Hooked \cup {node} /\ d_id' = d_id /\ parent_d_id' = parent_d_id
         /\ node \in Allocated /\ node \notin Hooked /\ parent[node] = 0 /\ parent'[node] = p
         /\ \A m \in Nodes \ {node} : parent'[m] = parent[m]
         /\ ChildrenOf(0)' = IF p = 0 THEN ChildrenOf(0) \cup {node} ELSE ChildrenOf(0)
<1> PICK n : n = node
  OBVIOUS
<1>1. /\ d_id' = d_id /\ parent_d_id' = parent_d_id /\ node' = 0 /\ n \in Allocated /\ n \in Nodes
      /\ 0 \notin Allocated /\ parent[n] = 0 /\ parent' = [parent EXCEPT ![n] = p]
  BY AllocatedNodes DEF HookAt, ids, TreeInv, TypeOK, Pointers, Placed
<1>2. Allocated' = Allocated /\ Hooked' = Hooked \cup {n} /\ n \notin Hooked /\ Hooked \subseteq Nodes
  BY <1>1, HookedSets DEF Count, Allocated, Hooked
<1>3. parent'[n] = p /\ \A m \in Nodes \ {n} : parent'[m] = parent[m]
  BY <1>1 DEF TreeInv, TypeOK, VariableTypes
<1>4. ChildrenOf(0)' = IF p = 0 THEN ChildrenOf(0) \cup {n} ELSE ChildrenOf(0)
  BY <1>2, <1>3 DEF ChildrenOf
<1> QED BY <1>1, <1>2, <1>3, <1>4

\* What an adoption does to the tree.
LEMMA AdoptFacts ==
  ASSUME TreeInv, AdoptOrphan
  PROVE  /\ Allocated' = Allocated /\ Hooked' = Hooked /\ d_id' = d_id /\ parent_d_id' = parent_d_id
         /\ node' = node /\ pc' = "adopt" /\ node \in Allocated /\ parent[node] = 0 /\ node # cur
         /\ cur \in ChildrenOf(0) /\ cur \in Hooked /\ cur # 0
         /\ parent[cur] = 0 /\ parent'[cur] = node /\ parent_d_id[cur] = d_id[node]
         /\ \A m \in Nodes \ {cur} : parent'[m] = parent[m]
         /\ ChildrenOf(0)' = ChildrenOf(0) \ {cur}
<1> PICK c, n : c = cur /\ n = node
  OBVIOUS
<1>1. /\ d_id' = d_id /\ parent_d_id' = parent_d_id /\ node' = n /\ pc' = "adopt" /\ pc = "adopt" /\ c # 0
      /\ parent' = [parent EXCEPT ![c] = n] /\ parent_d_id[c] = d_id[n]
  BY DEF AdoptOrphan, AdoptStep, AddToParent, ids
<1>2. Allocated' = Allocated /\ Hooked' = Hooked /\ Hooked \subseteq Nodes
  BY <1>1, HookedSets DEF Count, Allocated, Hooked
<1>3. c \in ChildrenOf(0) /\ c \in Hooked /\ parent[c] = 0
  BY <1>1 DEF TreeInv, Walks, ChildrenOf
<1>4. n # 0 /\ n \in Allocated /\ parent[n] = 0 /\ n # c
  BY <1>1, <1>3 DEF TreeInv, TypeOK, Pointers, Placed, Hooked
<1>5. parent'[c] = n /\ \A m \in Nodes \ {c} : parent'[m] = parent[m]
  BY <1>1, <1>2, <1>3 DEF TreeInv, TypeOK, VariableTypes
<1>6. ChildrenOf(0)' = ChildrenOf(0) \ {c}
  BY <1>2, <1>3, <1>4, <1>5 DEF ChildrenOf
<1> QED BY <1>1, <1>2, <1>3, <1>4, <1>5, <1>6

\* What a new record does to the tree.
LEMMA StartFacts ==
  ASSUME TreeInv, NEW i, NEW w, node = 0, Count < MaxNodes, StartRecord(i, w)
  PROVE  /\ Count + 1 \in Nodes /\ Count + 1 \notin Allocated /\ Allocated' = Allocated \cup {Count + 1}
         /\ Hooked' = Allocated /\ Hooked = Allocated /\ parent' = parent /\ parent[Count + 1] = 0
         /\ ChildrenOf(0)' = ChildrenOf(0) /\ pc' = "adopt" /\ cur' = d_head /\ d_head' = d_head
         /\ \A m \in Allocated : d_id'[m] = d_id[m] /\ parent_d_id'[m] = parent_d_id[m]
<1> PICK n : n = Count + 1
  OBVIOUS
<1>1. /\ d_id' = Append(d_id, i) /\ parent_d_id' = Append(parent_d_id, w)
      /\ node' = n /\ cur' = d_head /\ pc' = "adopt" /\ parent' = parent /\ d_head' = d_head
  BY DEF StartRecord, links, kidLists, topList
<1>2. Count' = n /\ Count \in Nat /\ n \in Nodes /\ Len(parent_d_id) = Count
  BY <1>1, NodesAssumption DEF TreeInv, TypeOK, VariableTypes, Count, Nodes
<1>3. Allocated' = Allocated \cup {n} /\ n \notin Allocated
  BY <1>2 DEF Allocated
<1>4. Hooked' = Allocated /\ Hooked = Allocated
  BY <1>1, <1>3, HookedSets DEF Hooked
<1>5. parent[n] = 0
  BY <1>2 DEF TreeInv, Pointers, Unused
<1>6. ChildrenOf(0)' = ChildrenOf(0)
  BY <1>1, <1>4 DEF ChildrenOf
<1>7. \A m \in Allocated : d_id'[m] = d_id[m] /\ parent_d_id'[m] = parent_d_id[m]
  BY <1>1, <1>2 DEF Allocated, TreeInv, TypeOK, VariableTypes, Count
<1> QED BY <1>1, <1>2, <1>3, <1>4, <1>5, <1>6, <1>7

-----------------------------------------------------------------------------
\* No circle of parents is made: a new node has none, a parent is not below the
\* node that is hung under it, and who adopts has no parent itself.
LEMMA GroundedStep ==
  ASSUME TreeInv, Grounded,
         \/ UNCHANGED <<ids, links, node>>
         \/ node = 0 /\ Count < MaxNodes /\ \E i, w : StartRecord(i, w)
         \/ node # 0 /\ \E p \in Hooked \cup {0} : HookAt(p) /\ pc \in {"search", "climb", "adopt"}
              /\ (p # 0 => p = cur /\ pc = "search")
         \/ AdoptOrphan
  PROVE  Grounded'
<1>0. Ends(parent, Allocated) /\ 0 \notin Allocated /\ Allocated \subseteq Nodes
  BY HookedSets DEF Grounded
<1>1. CASE UNCHANGED <<ids, links, node>>
  BY <1>1, Frame DEF TreeInv, Grounded, Allocated
<1>2. ASSUME NEW i, NEW w, node = 0, Count < MaxNodes, StartRecord(i, w) PROVE Grounded'
  <2> PICK n : n = Count + 1
    OBVIOUS
  <2>1. n \in Nodes /\ n \notin Allocated /\ Allocated' = Allocated \cup {n} /\ parent' = parent /\ parent[n] = 0
    BY <1>2, StartFacts
  <2>2. SUFFICES ASSUME NEW A \in SUBSET (Allocated \cup {n}), A # {}, \A m \in A : parent[m] \in A PROVE FALSE
    BY <2>1 DEF Grounded, Ends
  <2>3. n \notin A
    BY <1>0, <2>1, <2>2, NodesNat
  <2> QED BY <1>0, <2>2, <2>3 DEF Ends
<1>3. ASSUME NEW p \in Hooked \cup {0}, node # 0, HookAt(p), p # 0 => p = cur /\ pc = "search" PROVE Grounded'
  <2>1. /\ Allocated' = Allocated /\ node \in Allocated /\ node \notin Hooked
        /\ parent'[node] = p /\ \A m \in Allocated \ {node} : parent'[m] = parent[m]
    BY <1>0, <1>3, HookFacts
  <2>2. PICK q, f : q = node /\ f = parent'
    OBVIOUS
  <2>3. SUFFICES ASSUME NEW B \in SUBSET Allocated, B # {}, \A m \in B : f[m] \in B PROVE FALSE
    BY <2>1, <2>2 DEF Grounded, Ends
  <2>4. q \in B
    BY <1>0, <2>1, <2>2, <2>3 DEF Ends
  <2>5. p \in B /\ p # 0
    BY <1>0, <2>1, <2>2, <2>3, <2>4
  <2>6. PICK R \in SUBSET Hooked : p \in R /\ Rooted(R)
    BY <1>3, <2>5 DEF TreeInv, Walks
  <2>7. \A m \in B \cap R : parent[m] \in B \cap R
    BY <1>0, <2>1, <2>2, <2>3, <2>6 DEF Rooted
  <2>8. B \cap R \in SUBSET Allocated /\ B \cap R # {}
    BY <2>5, <2>6
  <2> QED BY <1>0, <2>7, <2>8 DEF Ends
<1>4. CASE AdoptOrphan
  <2>1. /\ Allocated' = Allocated /\ node \in Allocated /\ cur \in Allocated /\ node # cur /\ parent[node] = 0
        /\ parent'[cur] = node /\ \A m \in Allocated \ {cur} : parent'[m] = parent[m]
    BY <1>0, <1>4, AdoptFacts, HookedSets
  <2>2. PICK c, n, f : c = cur /\ n = node /\ f = parent'
    OBVIOUS
  <2>3. SUFFICES ASSUME NEW B \in SUBSET Allocated, B # {}, \A m \in B : f[m] \in B PROVE FALSE
    BY <2>1, <2>2 DEF Grounded, Ends
  <2>4. n \notin B
    BY <1>0, <2>1, <2>2, <2>3
  <2>5. c \notin B
    BY <2>1, <2>2, <2>3, <2>4
  <2> QED BY <1>0, <2>1, <2>2, <2>3, <2>5 DEF Ends
<1> QED BY <1>1, <1>2, <1>3, <1>4
-----------------------------------------------------------------------------
\* Once a node is below another it stays so: a parent that is set is not changed.
LEMMA BelowStays ==
  ASSUME TreeInv, NEW m \in Allocated, NEW n \in Allocated, IsBelow(m, n),
         \A q \in Allocated : parent[q] # 0 => parent'[q] = parent[q]
  PROVE  IsBelow(m, n)'
<1> SUFFICES ASSUME NEW A, m \in A, \A q \in A : parent'[q] \in A \cup {0} PROVE n \in A
  BY DEF IsBelow, Rooted
<1> PICK B : B = A \cap Allocated
  OBVIOUS
<1>1. \A q \in B : parent[q] \in B \cup {0}
  BY DEF TreeInv, Pointers, Placed
<1>2. B \in SUBSET Allocated /\ m \in B
  OBVIOUS
<1> QED BY <1>1, <1>2 DEF IsBelow, Rooted

\* At the end of the adoption loop it has passed the whole top level.
LEMMA AllPassed ==
  ASSUME TreeInv, Settled, pc = "adopt", cur = 0
  PROVE  \A n \in ChildrenOf(0) : parent_d_id[n] # d_id[node]
<1>1. PICK D \in SUBSET ChildrenOf(0) : Passed(D)
  BY DEF Settled
<1>2. \A n \in D : parent_d_id[n] # d_id[node] /\ next[n] \in D \cup {0}
  BY <1>1 DEF Passed
<1>3. d_head \in D \cup {0}
  BY <1>1 DEF Passed
<1>4. SUFFICES ASSUME ChildrenOf(0) \ D # {} PROVE FALSE
  BY <1>2
<1>5. PICK n \in ChildrenOf(0) \ D : prev[n] \notin ChildrenOf(0) \ D
  <2>1. ChildrenOf(0) \ D \in SUBSET Hooked
    BY DEF ChildrenOf
  <2> QED BY <1>4, <2>1, NoPrevCircle DEF Ends
<1>6. n \in Hooked /\ parent[n] = 0 /\ n # 0
  BY <1>5, HookedSets DEF ChildrenOf
<1>7. CASE prev[n] # 0
  <2>1. prev[n] \in ChildrenOf(0) /\ next[prev[n]] = n
    BY <1>6, <1>7, Neighbours DEF ChildrenOf
  <2> QED BY <1>2, <1>5, <1>6, <2>1
<1>8. CASE prev[n] = 0
  <2>1. n = d_head
    BY <1>6, <1>8, Neighbours DEF HeadOf
  <2> QED BY <1>3, <1>5, <1>6, <2>1
<1> QED BY <1>7, <1>8

\* A new record.
LEMMA StartSettled ==
  ASSUME TreeInv, Settled, NEW i, NEW w, node = 0, Count < MaxNodes, StartRecord(i, w)
  PROVE  Settled'
<1> PICK n : n = Count + 1
  OBVIOUS
<1>1. /\ n \in Nodes /\ Allocated' = Allocated \cup {n} /\ n \notin Allocated
      /\ Hooked' = Allocated /\ Hooked = Allocated /\ parent' = parent /\ parent[n] = 0
      /\ ChildrenOf(0)' = ChildrenOf(0) /\ pc' = "adopt" /\ cur' = d_head /\ d_head' = d_head
      /\ \A m \in Allocated : d_id'[m] = d_id[m] /\ parent_d_id'[m] = parent_d_id[m]
  BY StartFacts
<1>2. \A m \in Allocated : parent[m] \in Allocated \cup {0}
  BY DEF TreeInv, Pointers, Placed
<1>3. Matched'
  BY <1>1, <1>2 DEF Settled, Matched
<1>4. Orphans'
  <2> PICK S : S = Allocated
    OBVIOUS
  <2>1. ASSUME NEW m \in ChildrenOf(0) PROVE Waits(m, S)'
    <3>1. m \in Allocated /\ Waits(m, S)
      BY <1>1 DEF Settled, Orphans, ChildrenOf
    <3>2. \A q \in Allocated : IsBelow(q, m) => IsBelow(q, m)'
      BY <1>1, <3>1, BelowStays
    <3> QED BY <1>1, <3>1, <3>2 DEF Waits
  <2>2. \A m \in ChildrenOf(0) : Waits(m, Hooked)'
    BY <1>1, <2>1 DEF Waits
  <2> QED BY <1>1, <2>2 DEF Orphans
<1>5. Passed({})'
  BY <1>1 DEF Passed
<1>6. ~Searching'
  BY <1>1 DEF Searching
<1> QED BY <1>1, <1>3, <1>4, <1>5, <1>6 DEF Settled

\* The adoption loop goes on.
LEMMA AdoptSettled == ASSUME TreeInv, Grounded, Settled, AdoptOrphan \/ PassOver PROVE Settled'
<1>1. pc = "adopt" /\ pc' = "adopt" /\ node' = node /\ cur' = next[cur] /\ ~Searching'
      /\ d_id' = d_id /\ parent_d_id' = parent_d_id
  BY DEF AdoptOrphan, AdoptStep, PassOver, Searching, ids
<1>2. PICK D \in SUBSET ChildrenOf(0) : Passed(D)
  BY <1>1 DEF Settled
<1>3. CASE PassOver
  <2> PICK E : E = D \cup {cur}
    OBVIOUS
  <2>1. /\ UNCHANGED <<ids, links, node>> /\ next' = next /\ d_head' = d_head /\ cur # 0
        /\ parent_d_id[cur] # d_id[node]
    BY <1>3 DEF PassOver, links, topList
  <2>2. Hooked' = Hooked /\ parent' = parent /\ Allocated' = Allocated /\ cur \in ChildrenOf(0)
    BY <1>1, <2>1, Frame DEF TreeInv, Allocated, Walks
  <2>3. ChildrenOf(0)' = ChildrenOf(0) /\ \A m, n : IsBelow(m, n)' <=> IsBelow(m, n)
    BY <2>2 DEF ChildrenOf, IsBelow, Rooted
  <2>4. E \in SUBSET ChildrenOf(0)'
    BY <2>2, <2>3
  <2>5. Passed(E)'
    BY <1>1, <1>2, <2>1 DEF Passed
  <2>6. Matched' /\ Orphans'
    BY <1>1, <2>2, <2>3 DEF Settled, Matched, Orphans, Waits
  <2> QED BY <1>1, <2>4, <2>5, <2>6 DEF Settled
<1>4. CASE AdoptOrphan
  <2>0. PICK c, n, nn, pp : c = cur /\ n = node /\ nn = next[cur] /\ pp = prev[cur]
    OBVIOUS
  <2>1. /\ Allocated' = Allocated /\ Hooked' = Hooked /\ n \in Allocated /\ parent[n] = 0 /\ n # c
        /\ c \in ChildrenOf(0) /\ c \in Hooked /\ c # 0 /\ parent_d_id[c] = d_id[n]
        /\ parent[c] = 0 /\ parent'[c] = n /\ \A m \in Nodes \ {c} : parent'[m] = parent[m]
        /\ ChildrenOf(0)' = ChildrenOf(0) \ {c}
    BY <1>4, <2>0, AdoptFacts
  <2>2. Matched'
    BY <1>1, <2>1, HookedSets DEF Settled, Matched
  <2>3. Orphans'
    <3>1. ASSUME NEW m \in ChildrenOf(0) PROVE Waits(m, Hooked)'
      <4>1. m \in Allocated /\ Waits(m, Hooked)
        BY HookedSets DEF Settled, Orphans, ChildrenOf
      <4>2. \A q \in Allocated : IsBelow(q, m) => IsBelow(q, m)'
        BY <2>1, <4>1, HookedSets, BelowStays
      <4> QED BY <1>1, <2>1, <4>1, <4>2, HookedSets DEF Waits
    <3> QED BY <2>1, <3>1 DEF Orphans
  <2>4. c \notin D /\ D \in SUBSET ChildrenOf(0)'
    BY <1>2, <2>0, <2>1 DEF Passed
  <2>5. Passed(D)'
    <3>1. d_head' = IF pp = 0 THEN nn ELSE d_head
      BY <1>4, <2>0 DEF AdoptOrphan, AdoptStep
    <3>2. d_head' \in D \cup {nn, 0}
      BY <1>2, <2>0, <2>1, <3>1, FirstNode DEF Passed
    <3>3. ASSUME NEW m \in D PROVE next'[m] \in D \cup {nn, 0}
      <4>1. m \in Hooked /\ m \in Nodes /\ parent[m] = 0 /\ m # c
        BY <2>4, HookedSets DEF ChildrenOf
      <4>2. next'[m] = IF m = pp THEN nn ELSE next[m]
        <5>1. child_tail[n] # m /\ nn # n /\ pp # n
          <6>1. child_tail[n] # 0 => parent[child_tail[n]] = n
            <7>1. ListIn(next, prev, HeadOf(n), TailOf(n), ChildrenOf(n))
              BY <2>1 DEF TreeInv, Pointers, Lists
            <7> QED BY <2>1, <7>1, HookedSets DEF ListIn, TailOf, ChildrenOf
          <6>2. n # 0 /\ m # 0
            BY <2>1, <4>1, HookedSets
          <6> QED BY <2>0, <2>1, <4>1, <6>1, <6>2, Neighbours DEF Hooked
        <5>2. PICK t, f, g : t = child_tail[n] /\ f = Put(next, t, c) /\ g = [f EXCEPT ![c] = 0]
          OBVIOUS
        <5>3. next' = Put(g, pp, nn)
          BY <1>4, <2>0, <5>2 DEF AdoptOrphan, AdoptStep
        <5>4. next \in [Nodes -> Ptr] /\ c \in Nodes /\ t \in Ptr /\ pp \in Ptr /\ Ptr = Nodes \cup {0}
          BY <2>0, <2>1, <5>2, HookedSets, NodesNat DEF TreeInv, TypeOK, VariableTypes
        <5>5. f \in [Nodes -> Ptr] /\ f[m] = next[m]
          BY <4>1, <5>1, <5>2, <5>4 DEF Put
        <5>6. g \in [Nodes -> Ptr] /\ g[m] = next[m]
          <6>1. 0 \in Ptr
            BY NodesNat
          <6> QED BY <4>1, <5>2, <5>4, <5>5, <6>1
        <5> QED BY <4>1, <5>3, <5>4, <5>6, NodesNat DEF Put
      <4>3. next[m] = c => m = pp
        BY <2>0, <2>1, <4>1, Neighbours
      <4> QED BY <1>2, <2>0, <4>2, <4>3 DEF Passed
    <3>4. \A m \in D : parent_d_id[m] # d_id[node]
      BY <1>2 DEF Passed
    <3> QED BY <1>1, <2>0, <3>2, <3>3, <3>4 DEF Passed
  <2> QED BY <1>1, <2>2, <2>3, <2>4, <2>5 DEF Settled
<1> QED BY <1>3, <1>4

\* Searches and walks change nothing; a record searches when it has adopted.
LEMMA SearchSettled ==
  ASSUME TreeInv, Settled, UNCHANGED <<ids, links, node>>, (pc' = "adopt" => pc' = pc /\ cur' = cur),
         \/ ~Searching'
         \/ Searching /\ goal' = goal
         \/ pc = "adopt" /\ cur = 0 /\ goal' = parent_d_id[node] /\ goal' \notin {0, d_id[node]}
  PROVE  Settled'
<1>1. /\ Hooked' = Hooked /\ parent' = parent /\ d_id' = d_id /\ parent_d_id' = parent_d_id /\ node' = node
      /\ next' = next /\ d_head' = d_head /\ Allocated' = Allocated
  BY Frame DEF TreeInv, ids, links, topList, Allocated
<1>2. ChildrenOf(0)' = ChildrenOf(0) /\ \A m, n : IsBelow(m, n)' <=> IsBelow(m, n)
  BY <1>1 DEF ChildrenOf, IsBelow, Rooted
<1>3. Matched' /\ Orphans'
  BY <1>1, <1>2 DEF Settled, Matched, Orphans, Waits
<1>4. pc' = "adopt" => \E D \in SUBSET ChildrenOf(0)' : Passed(D)'
  <2> SUFFICES ASSUME pc' = "adopt" PROVE \E D \in SUBSET ChildrenOf(0)' : Passed(D)'
    OBVIOUS
  <2>1. PICK D \in SUBSET ChildrenOf(0) : Passed(D)
    BY DEF Settled
  <2>2. Passed(D)'
    BY <1>1, <2>1 DEF Passed
  <2> QED BY <1>2, <2>1, <2>2
<1>5. Searching' => /\ goal' = parent_d_id[node] /\ goal' \notin {0, d_id[node]}
                    /\ \A n \in ChildrenOf(0) : parent_d_id[n] # d_id[node]
  BY AllPassed DEF Settled
<1> QED BY <1>1, <1>2, <1>3, <1>4, <1>5 DEF Settled

\* The three places that hang the new node.
LEMMA HookSettled ==
  ASSUME TreeInv, Grounded, WalkOnce, Settled, node # 0, NEW p \in Hooked \cup {0}, HookAt(p),
         \/ p = 0 /\ pc = "adopt" /\ cur = 0 /\ parent_d_id[node] \in {0, d_id[node]}
         \/ p = 0 /\ pc = "search" /\ caller = "record" /\ cur = 0
         \/ p # 0 /\ pc = "search" /\ caller = "record" /\ d_id[p] = goal
  PROVE  Settled'
<1> PICK n : n = node
  OBVIOUS
<1>1. /\ Allocated' = Allocated /\ Hooked' = Hooked \cup {n} /\ d_id' = d_id /\ parent_d_id' = parent_d_id
      /\ n \in Allocated /\ n \notin Hooked /\ parent[n] = 0 /\ parent'[n] = p
      /\ \A m \in Nodes \ {n} : parent'[m] = parent[m]
      /\ ChildrenOf(0)' = IF p = 0 THEN ChildrenOf(0) \cup {n} ELSE ChildrenOf(0)
  BY HookFacts
<1>2. pc' = "idle" /\ ~Searching'
  BY DEF HookAt, Searching
<1>3. \A m \in ChildrenOf(0) : parent_d_id[m] # d_id[n]
  BY AllPassed DEF Settled, Searching
<1>4. pc = "search" => goal = parent_d_id[n] /\ goal \notin {0, d_id[n]}
  BY DEF Settled, Searching
<1>5. Matched'
  BY <1>1, <1>4, HookedSets DEF Settled, Matched
<1>6. Orphans'
  <2>1. ASSUME NEW m \in ChildrenOf(0) PROVE Waits(m, Hooked)'
    <3>1. m \in Allocated /\ m # n /\ Waits(m, Hooked)
      BY <1>1, HookedSets DEF Settled, Orphans, ChildrenOf
    <3>2. \A q \in Allocated : IsBelow(q, m) => IsBelow(q, m)'
      BY <1>1, <3>1, HookedSets, BelowStays
    <3> QED BY <1>1, <1>3, <3>1, <3>2, HookedSets DEF Waits
  <2>2. ASSUME p = 0 PROVE Waits(n, Hooked)'
    <3>1. CASE pc = "adopt"
      BY <1>1, <2>2, <3>1 DEF Waits
    <3>2. ASSUME pc = "search", NEW m \in Hooked \cup {n}, d_id[m] = parent_d_id[n] PROVE IsBelow(m, n)'
      <4>1. m \in Hooked /\ d_id[m] = goal
        BY <1>1, <1>4, <3>2
      <4>2. SUFFICES ASSUME NEW A \in SUBSET Allocated, m \in A, \A q \in A : parent'[q] \in A \cup {0},
                            n \notin A
                     PROVE  FALSE
        BY <1>1 DEF IsBelow, Rooted
      <4>3. A \in SUBSET Hooked /\ Rooted(A)
        BY <1>1, <4>2, HookedSets DEF Rooted, Hooked
      <4> QED BY <2>2, <3>2, <4>1, <4>2, <4>3, AllSeen
    <3> QED BY <1>1, <2>2, <3>1, <3>2 DEF Waits
  <2> QED BY <1>1, <2>1, <2>2 DEF Orphans
<1> QED BY <1>2, <1>5, <1>6 DEF Settled

-----------------------------------------------------------------------------
\* The empty tree.
LEMMA InitOrder == Init => OrderInv
<1> SUFFICES ASSUME Init PROVE OrderInv
  OBVIOUS
<1>1. TreeInv
  BY InitInv
<1>2. Count = 0 /\ Allocated = {} /\ Hooked = {} /\ \A p : ChildrenOf(p) = {}
  <2>1. Len(d_id) = 0 /\ 1 .. 0 = {}
    BY DEF Init
  <2> QED BY <2>1 DEF Count, Allocated, Hooked, ChildrenOf
<1>3. Settled
  BY <1>2 DEF Init, Settled, Matched, Orphans, Searching
<1> QED BY <1>1, <1>2, <1>3 DEF Init, OrderInv, Grounded, Ends, WalkOnce

\* Every step of every loop keeps the order of a walk and of the records.
LEMMA StepOrder == OrderInv /\ [Next]_vars => OrderInv'
<1> SUFFICES ASSUME OrderInv, [Next]_vars PROVE Grounded' /\ WalkOnce' /\ Settled'
  BY StepInv DEF OrderInv
<1> USE DEF OrderInv
<1>1. ASSUME NEW i, NEW w, StartRecord(i, w), node = 0, Count < MaxNodes
      PROVE  Grounded' /\ WalkOnce' /\ Settled'
  <2>1. pc' = "adopt"
    BY <1>1 DEF StartRecord
  <2>2. WalkOnce'
    BY <2>1 DEF WalkOnce
  <2> QED BY <1>1, <2>2, GroundedStep, StartSettled
<1>2. ASSUME NEW i \in Ids, NEW w \in Wants, Load(i, w) PROVE Grounded' /\ WalkOnce' /\ Settled'
  <2>1. node = 0 /\ Count \in Nat /\ StartRecord(i, w) /\ Count < MaxNodes - 1
    BY <1>2, AllocatedNodes DEF Load, TreeInv, TypeOK
  <2>2. Count < MaxNodes
    BY <2>1, NodesNat
  <2> QED BY <1>1, <2>1, <2>2
<1>3. CASE InventTop
  <2>1. StartRecord(goal, 0) /\ node = 0 /\ Count < MaxNodes
    BY <1>3 DEF InventTop, TreeInv, TypeOK, Walks
  <2> QED BY <1>1, <2>1
<1>4. ASSUME NEW who, NEW i, StartSearch(who, i), UNCHANGED <<ids, links, node>>,
             \/ who # "record"
             \/ pc = "adopt" /\ cur = 0 /\ i = parent_d_id[node] /\ i \notin {0, d_id[node]}
      PROVE  Grounded' /\ WalkOnce' /\ Settled'
  <2>1. pc' = "search" /\ caller' = who /\ goal' = i
    BY <1>4 DEF StartSearch
  <2>2. Settled'
    <3>1. CASE who # "record"
      <4>1. ~Searching'
        BY <2>1, <3>1 DEF Searching
      <4> QED BY <1>4, <2>1, <4>1, SearchSettled
    <3>2. CASE who = "record"
      BY <1>4, <2>1, <3>2, SearchSettled
    <3> QED BY <3>1, <3>2
  <2> QED BY <1>4, <2>2, GroundedStep, StartVisit
<1>5. ASSUME NEW t \in TopIds, LookForTop(t) PROVE Grounded' /\ WalkOnce' /\ Settled'
  BY <1>4, <1>5 DEF LookForTop
<1>6. CASE StartWalk
  BY <1>4, <1>6 DEF StartWalk
<1>7. CASE LookForParent
  BY <1>4, <1>7 DEF LookForParent
<1>8. CASE AdoptOrphan \/ PassOver
  <2>1. pc' = "adopt" /\ (PassOver => UNCHANGED <<ids, links, node>>)
    BY <1>8 DEF AdoptOrphan, AdoptStep, PassOver
  <2>2. WalkOnce'
    BY <2>1 DEF WalkOnce
  <2> QED BY <1>8, <2>1, <2>2, GroundedStep, AdoptSettled
<1>9. CASE Down \/ Leaf \/ Up \/ Across
  <2>1. /\ UNCHANGED <<ids, links, node>> /\ goal' = goal /\ caller' = caller
        /\ pc \in {"search", "climb"} /\ pc' \in {"search", "climb"}
    BY <1>9 DEF Down, Leaf, Up, Across
  <2>2. PICK P \in SUBSET Hooked : WayDown(P) /\ Visited(P)
    BY <2>1 DEF WalkOnce
  <2>3. PICK Q \in SUBSET Hooked : WayDown(Q)' /\ Visited(Q)'
    BY <1>9, <2>1, <2>2, VisitStep
  <2>4. Hooked' = Hooked
    BY <2>1, Frame DEF TreeInv
  <2>5. WalkOnce'
    BY <2>1, <2>3, <2>4 DEF WalkOnce
  <2>6. Settled'
    <3>1. Searching' => Searching
      BY <2>1 DEF Searching
    <3> QED BY <2>1, <3>1, SearchSettled
  <2> QED BY <2>1, <2>5, <2>6, GroundedStep
<1>10. CASE HookTop \/ HookOrphan \/ HookUnder
  <2>1. node # 0
    BY <1>10, HookPlaces
  <2>2. PICK p \in Hooked \cup {0} :
          /\ HookAt(p)
          /\ \/ p = 0 /\ pc = "adopt" /\ cur = 0 /\ parent_d_id[node] \in {0, d_id[node]}
             \/ p = 0 /\ pc = "search" /\ caller = "record" /\ cur = 0
             \/ p # 0 /\ p = cur /\ pc = "search" /\ caller = "record" /\ d_id[p] = goal
    BY <1>10, HookPlaces
  <2>3. WalkOnce'
    BY <2>2 DEF HookAt, WalkOnce
  <2>4. Grounded'
    BY <2>1, <2>2, GroundedStep
  <2>5. Settled'
    BY <2>1, <2>2, HookSettled
  <2> QED BY <2>3, <2>4, <2>5
<1>11. CASE TopFound \/ EndWalk
  <2>1. UNCHANGED <<ids, links, node>> /\ pc' \in {"idle", "done"} /\ seen' = seen
    BY <1>11 DEF TopFound, EndWalk, walk
  <2>2. Settled'
    <3>1. ~Searching' /\ pc' # "adopt"
      BY <2>1 DEF Searching
    <3> QED BY <2>1, <3>1, SearchSettled
  <2>3. WalkOnce'
    <3>1. CASE TopFound
      BY <3>1 DEF TopFound, WalkOnce
    <3>2. CASE EndWalk
      <4>1. pc = "search" /\ cur = 0 /\ node = 0 /\ pc' = "done"
        BY <3>2 DEF EndWalk, TreeInv, TypeOK
      <4>2. Hooked = Allocated /\ Allocated' = Allocated
        BY <2>1, <4>1, HookedSets DEF Hooked, Allocated, Count, ids
      <4>3. Rooted(Allocated)
        BY DEF Rooted, TreeInv, Pointers, Placed
      <4>4. seen = Allocated
        BY <4>1, <4>2, <4>3, AllSeen
      <4> QED BY <2>1, <4>1, <4>2, <4>4 DEF WalkOnce
    <3> QED BY <1>11, <3>1, <3>2
  <2> QED BY <2>1, <2>2, <2>3, GroundedStep
<1>12. CASE UNCHANGED vars
  <2>1. /\ UNCHANGED <<ids, links, node>> /\ pc' = pc /\ cur' = cur /\ goal' = goal /\ caller' = caller
        /\ seen' = seen
    BY <1>12 DEF vars, walk
  <2>2. /\ next' = next /\ prev' = prev /\ parent' = parent /\ child' = child /\ d_head' = d_head
        /\ d_id' = d_id /\ Hooked' = Hooked /\ Allocated' = Allocated
    BY <2>1, Frame DEF TreeInv, ids, links, kidLists, topList, Allocated
  <2>3. Settled'
    BY <2>1, SearchSettled DEF Searching
  <2>4. WalkOnce'
    BY <2>1, <2>2 DEF WalkOnce, WayDown, Visited, Here
  <2> QED BY <2>1, <2>3, <2>4, GroundedStep
<1> QED BY <1>2, <1>3, <1>5, <1>6, <1>7, <1>8, <1>9, <1>10, <1>11, <1>12 DEF Next, Step

\* So it holds at every step.
LEMMA OrderHolds == Spec => []OrderInv
<1>1. Init => OrderInv
  BY InitOrder
<1>2. OrderInv /\ [Next]_vars => OrderInv'
  BY StepOrder
<1> QED BY <1>1, <1>2, PTL DEF Spec

\* record_descriptor hangs a node under the parent that its record names, and an
\* orphan waits at the top level only while no node but its own descendants has
\* the id it asks for, whatever the order of the records.
THEOREM ParentsFound == Spec => []NoLostParent
<1>1. OrderInv => NoLostParent
  <2> SUFFICES ASSUME OrderInv, pc \in {"idle", "done"}, NEW n \in Allocated
               PROVE  IF parent[n] # 0 THEN d_id[parent[n]] = parent_d_id[n]
                      ELSE parent_d_id[n] \notin {0, d_id[n]} =>
                             \A m \in Allocated : d_id[m] = parent_d_id[n] => IsBelow(m, n)
    BY DEF NoLostParent
  <2>1. node = 0
    BY DEF OrderInv, TreeInv, TypeOK
  <2>2. Hooked = Allocated
    BY <2>1, HookedSets DEF OrderInv, Hooked
  <2> QED BY <2>2 DEF OrderInv, Settled, Matched, Orphans, Waits, ChildrenOf
<1>2. Spec => []OrderInv
  BY OrderHolds
<1> QED BY <1>1, <1>2, PTL
-----------------------------------------------------------------------------
\* Natural numbers are reached from 0.
LEMMA SetInduction ==
  ASSUME NEW T, T \subseteq Nat, 0 \in T, \A n \in T : n + 1 \in T
  PROVE  T = Nat
<1> SUFFICES ASSUME Nat \ T # {} PROVE FALSE
  OBVIOUS
<1>1. \E x \in Nat \ T : \A y \in Nat \ T : ~ (<<y, x>> \in OpToRel(<, Nat))
  <2>1. Nat \ T \subseteq Nat
    OBVIOUS
  <2> QED BY <2>1, NatLessThanWellFounded, WFMin
<1>2. PICK x \in Nat \ T : \A y \in Nat \ T : ~ (y < x)
  BY <1>1 DEF OpToRel
<1>3. x - 1 \in Nat /\ x - 1 < x /\ (x - 1) + 1 = x
  OBVIOUS
<1>4. x - 1 \in T
  BY <1>2, <1>3
<1> QED BY <1>3, <1>4

\* One node of pst_free_desc: its children, itself, its siblings.
Visits == Ptr \X (0 .. MaxNodes)
Freed(f, c) ==
  IF c[1] = 0 \/ c[2] = 0 THEN <<>>
  ELSE f[<<child[c[1]], c[2] - 1>>] \o <<c[1]>> \o f[<<next[c[1]], c[2] - 1>>]

LEMMA DeeperFreed ==
  ASSUME VariableTypes, NEW f, NEW g, NEW c \in Visits,
         \A x \in Visits : x[2] < c[2] => f[x] = g[x]
  PROVE  Freed(f, c) = Freed(g, c)
<1>1. CASE c[1] = 0 \/ c[2] = 0
  BY <1>1 DEF Freed
<1>2. CASE c[1] # 0 /\ c[2] # 0
  <2>1. /\ c[1] \in Nodes /\ c[2] \in Nat /\ c[2] <= MaxNodes
    BY <1>2, NodesNat DEF Visits
  <2>2. child[c[1]] \in Ptr /\ next[c[1]] \in Ptr /\ c[2] - 1 \in 0 .. MaxNodes /\ c[2] - 1 < c[2]
    <3>1. child[c[1]] \in Ptr /\ next[c[1]] \in Ptr
      BY <2>1 DEF VariableTypes
    <3> QED BY <1>2, <2>1, <3>1, NodesNat
  <2>3. /\ f[<<child[c[1]], c[2] - 1>>] = g[<<child[c[1]], c[2] - 1>>]
        /\ f[<<next[c[1]], c[2] - 1>>] = g[<<next[c[1]], c[2] - 1>>]
    BY <2>2 DEF Visits
  <2> QED BY <2>3 DEF Freed
<1> QED BY <1>1, <1>2

\* The recursive function is there.
LEMMA FreeEquation == ASSUME VariableTypes PROVE \A c \in Visits : FreeOrder[c] = Freed(FreeOrder, c)
<1> DEFINE T == {n \in Nat : \E f : \A c \in Visits : c[2] <= n => f[c] = Freed(f, c)}
<1>0. MaxNodes \in Nat /\ \A c \in Visits : c[2] \in Nat /\ c[2] <= MaxNodes
  BY NodesNat DEF Visits
<1>1. 0 \in T
  <2> DEFINE f == [c \in Visits |-> <<>>]
  <2>1. \A c \in Visits : c[2] <= 0 => f[c] = Freed(f, c)
    <3> TAKE c \in Visits
    <3>1. c[2] <= 0 => c[2] = 0
      BY <1>0
    <3>2. f[c] = <<>>
      OBVIOUS
    <3> QED BY <3>1, <3>2 DEF Freed
  <2> QED BY <2>1
<1>2. ASSUME NEW n \in T PROVE n + 1 \in T
  <2>1. PICK f : \A c \in Visits : c[2] <= n => f[c] = Freed(f, c)
    OBVIOUS
  <2> DEFINE h == [c \in Visits |-> Freed(f, c)]
  <2>2. \A c \in Visits : h[c] = Freed(f, c)
    OBVIOUS
  <2> HIDE DEF h
  <2>3. \A c \in Visits : c[2] <= n => h[c] = f[c]
    BY <2>1, <2>2
  <2>4. ASSUME NEW c \in Visits, c[2] <= n + 1 PROVE Freed(f, c) = Freed(h, c)
    <3>1. \A x \in Visits : x[2] < c[2] => f[x] = h[x]
      BY <1>0, <2>3, <2>4
    <3> QED BY <3>1, DeeperFreed
  <2>5. \A c \in Visits : c[2] <= n + 1 => h[c] = Freed(h, c)
    BY <2>2, <2>4
  <2>6. n + 1 \in Nat
    OBVIOUS
  <2> QED BY <2>5, <2>6
<1>3. T = Nat
  <2> HIDE DEF T
  <2>1. T \subseteq Nat
    BY DEF T
  <2> QED BY <1>1, <1>2, <2>1, SetInduction
<1>4. PICK f : \A c \in Visits : c[2] <= MaxNodes => f[c] = Freed(f, c)
  <2>1. MaxNodes \in T
    <3> HIDE DEF T
    <3> QED BY <1>0, <1>3
  <2> QED BY <2>1
<1>5. \A c \in Visits : f[c] = Freed(f, c)
  BY <1>0, <1>4
<1> DEFINE g == [c \in Visits |-> Freed(f, c)]
<1>6. \A c \in Visits : g[c] = Freed(f, c)
  OBVIOUS
<1>7. \A c \in Visits : Freed(f, c) = Freed(g, c)
  <2> HIDE DEF g
  <2>1. \A c \in Visits : f[c] = g[c]
    BY <1>5, <1>6
  <2> QED BY <2>1, DeeperFreed
<1>8. g = [c \in Visits |-> Freed(g, c)]
  BY <1>7
<1>9. \E h : h = [c \in Visits |-> Freed(h, c)]
  BY <1>8
<1>10. FreeOrder = [c \in Visits |-> Freed(FreeOrder, c)]
  BY <1>9 DEF FreeOrder, Freed, Visits
<1> QED BY <1>10

-----------------------------------------------------------------------------
\* Ways up the tree.
LEMMA BelowFacts ==
  ASSUME TreeInv, NEW p \in Allocated
  PROVE  /\ IsBelow(p, p)
         /\ \A q \in Allocated : parent[q] # 0 /\ IsBelow(parent[q], p) => IsBelow(q, p)
         /\ \A q \in Allocated : q # p /\ IsBelow(q, p) => parent[q] # 0 /\ IsBelow(parent[q], p)
<1>1. IsBelow(p, p)
  BY DEF IsBelow
<1>2. ASSUME NEW q \in Allocated, parent[q] # 0, IsBelow(parent[q], p) PROVE IsBelow(q, p)
  BY <1>2 DEF IsBelow, Rooted
<1>3. ASSUME NEW q \in Allocated, q # p, IsBelow(q, p) PROVE parent[q] # 0 /\ IsBelow(parent[q], p)
  <2>1. parent[q] # 0
    <3> SUFFICES ASSUME parent[q] = 0 PROVE FALSE
      OBVIOUS
    <3>1. {q} \in SUBSET Allocated /\ q \in {q} /\ Rooted({q})
      BY DEF Rooted
    <3>2. p \in {q}
      BY <1>3, <3>1 DEF IsBelow
    <3> QED BY <1>3, <3>2
  <2>2. ASSUME NEW A \in SUBSET Allocated, parent[q] \in A, Rooted(A) PROVE p \in A
    <3>1. A \cup {q} \in SUBSET Allocated /\ q \in A \cup {q} /\ Rooted(A \cup {q})
      BY <2>2 DEF Rooted
    <3>2. p \in A \cup {q}
      BY <1>3, <3>1 DEF IsBelow
    <3> QED BY <1>3, <3>2
  <2> QED BY <2>1, <2>2 DEF IsBelow
<1> QED BY <1>1, <1>2, <1>3

\* No parent is below its child.
LEMMA NoLoop ==
  ASSUME TreeInv, Grounded, NEW p \in Allocated, parent[p] # 0
  PROVE  ~ IsBelow(parent[p], p)
<1> SUFFICES ASSUME IsBelow(parent[p], p) PROVE FALSE
  OBVIOUS
<1> DEFINE L == {q \in Allocated : IsBelow(q, p) /\ IsBelow(p, q)}
<1>1. p \in L
  BY BelowFacts
<1>2. ASSUME NEW q \in L PROVE parent[q] \in L
  <2>1. q \in Allocated /\ IsBelow(q, p) /\ IsBelow(p, q) /\ parent[q] \in Allocated \cup {0}
    BY DEF TreeInv, Pointers, Placed
  <2>2. parent[q] # 0 /\ IsBelow(parent[q], p)
    BY <2>1, BelowFacts
  <2>3. IsBelow(p, parent[q])
    BY <2>1, <2>2 DEF IsBelow, Rooted
  <2> QED BY <2>1, <2>2, <2>3
<1>3. L \in SUBSET Allocated
  OBVIOUS
<1> HIDE DEF L
<1> QED BY <1>1, <1>2, <1>3 DEF Grounded, Ends

\* Who leads to a node: the one before it or, for a first child, its parent.
Prior(n) == IF prev[n] # 0 THEN prev[n] ELSE parent[n]

LEMMA PriorEnds ==
  ASSUME TreeInv, Grounded, NEW A \in SUBSET Hooked, A # {}
  PROVE  \E n \in A : Prior(n) \notin A
<1> SUFFICES ASSUME \A n \in A : Prior(n) \in A PROVE FALSE
  OBVIOUS
<1>1. A \in SUBSET Allocated /\ 0 \notin A
  BY HookedSets
<1>2. PICK m \in A : parent[m] \notin A
  BY <1>1 DEF Grounded, Ends
<1>3. PICK C : C = {x \in A : parent[x] = parent[m]}
  OBVIOUS
<1>4. PICK x \in C : prev[x] \notin C
  <2>1. C \in SUBSET Hooked /\ C # {}
    BY <1>3
  <2> QED BY <2>1, NoPrevCircle DEF Ends
<1>5. x \in A /\ x \in Hooked /\ parent[x] = parent[m]
  BY <1>3, <1>4
<1>6. CASE prev[x] # 0
  <2>1. prev[x] \in A /\ parent[prev[x]] = parent[m]
    BY <1>5, <1>6, Neighbours DEF Prior
  <2> QED BY <1>3, <1>4, <2>1
<1>7. CASE prev[x] = 0
  BY <1>2, <1>5, <1>7 DEF Prior
<1> QED BY <1>6, <1>7

\* T is what pst_free_desc meets from p on.
Region(p, T) ==
  /\ IF p = 0 THEN T = {} ELSE p \in T /\ Prior(p) \notin T
  /\ T \subseteq Hooked
  /\ \A n \in T : child[n] \in T \cup {0} /\ next[n] \in T \cup {0} /\ (n # p => Prior(n) \in T)

Below(p, T) == {m \in T : IsBelow(m, p)} \ {p}
Behind(p, T) == {m \in T : ~ IsBelow(m, p)}

\* A region falls into its first node, the region of its children and the one of
\* its siblings.
LEMMA RegionParts ==
  ASSUME TreeInv, Grounded, node = 0, NEW p, NEW T, p # 0, Region(p, T)
  PROVE  /\ T = Below(p, T) \cup {p} \cup Behind(p, T)
         /\ p \notin Below(p, T) /\ p \notin Behind(p, T) /\ Below(p, T) \cap Behind(p, T) = {}
         /\ Region(child[p], Below(p, T)) /\ Region(next[p], Behind(p, T))
<1> PICK T1, T2 : T1 = Below(p, T) /\ T2 = Behind(p, T)
  OBVIOUS
<1>1. /\ p \in T /\ T \subseteq Hooked /\ Hooked = Allocated /\ 0 \notin T /\ Prior(p) \notin T
      /\ \A n \in T : child[n] \in T \cup {0} /\ next[n] \in T \cup {0} /\ (n # p => Prior(n) \in T)
  BY HookedSets DEF Region, Hooked
<1>2. /\ IsBelow(p, p)
      /\ \A q \in Allocated : parent[q] # 0 /\ IsBelow(parent[q], p) => IsBelow(q, p)
      /\ \A q \in Allocated : q # p /\ IsBelow(q, p) => parent[q] # 0 /\ IsBelow(parent[q], p)
  BY <1>1, BelowFacts
<1>3. parent[p] # 0 => ~ IsBelow(parent[p], p)
  BY <1>1, NoLoop
<1>4. /\ \A n \in T1 : n \in T /\ n # p /\ IsBelow(n, p)
      /\ \A n \in T2 : n \in T /\ n # p /\ ~ IsBelow(n, p)
      /\ \A n \in T : n = p \/ n \in T1 \/ n \in T2
      /\ \A n \in T : IsBelow(n, p) /\ n # p => n \in T1
      /\ \A n \in T : ~ IsBelow(n, p) => n \in T2
  BY <1>2 DEF Below, Behind
<1>5. T = T1 \cup {p} \cup T2 /\ p \notin T1 /\ p \notin T2 /\ T1 \cap T2 = {}
  BY <1>1, <1>4
<1>6. ASSUME NEW x \in Hooked, NEW y \in Hooked, parent[x] = parent[y], x # p, IsBelow(x, p)
      PROVE  y # p /\ IsBelow(y, p)
  BY <1>1, <1>2, <1>3, <1>6
<1>7. Region(child[p], T1)
  <2>1. child[p] # 0 => child[p] \in T1 /\ Prior(child[p]) \notin T1
    <3> SUFFICES ASSUME child[p] # 0 PROVE child[p] \in T1 /\ Prior(child[p]) \notin T1
      OBVIOUS
    <3>1. child[p] \in Hooked /\ parent[child[p]] = p /\ prev[child[p]] = 0 /\ child[p] \in T /\ parent[p] # p
      BY <1>1, Neighbours, NotItself
    <3> QED BY <1>1, <1>2, <1>4, <3>1 DEF Prior
  <2>2. child[p] = 0 => T1 = {}
    <3> SUFFICES ASSUME child[p] = 0, NEW m \in T1 PROVE FALSE
      OBVIOUS
    <3>1. ListIn(next, prev, HeadOf(p), TailOf(p), ChildrenOf(p)) /\ HeadOf(p) = 0
      BY <1>1 DEF TreeInv, Pointers, Lists, HeadOf
    <3>2. \A n \in Allocated : parent[n] # p
      BY <1>1, <3>1 DEF ListIn, ChildrenOf
    <3>3. Rooted(Allocated \ {p})
      BY <3>2 DEF Rooted, TreeInv, Pointers, Placed
    <3>4. m \in Allocated \ {p} /\ Allocated \ {p} \in SUBSET Allocated /\ IsBelow(m, p)
      BY <1>1, <1>4
    <3> QED BY <3>3, <3>4 DEF IsBelow
  <2>3. ASSUME NEW n \in T1, child[n] # 0 PROVE child[n] \in T1
    <3>1. child[n] \in T /\ child[n] \in Hooked /\ parent[child[n]] = n /\ n # 0 /\ IsBelow(n, p)
      BY <1>1, <1>4, <2>3, Neighbours
    <3> QED BY <1>1, <1>2, <1>3, <1>4, <3>1
  <2>4. ASSUME NEW n \in T1, next[n] # 0 PROVE next[n] \in T1
    <3>1. n \in Hooked /\ next[n] \in T /\ next[n] \in Hooked /\ parent[next[n]] = parent[n]
      BY <1>1, <1>4, <2>4, Neighbours
    <3> QED BY <1>4, <1>6, <3>1
  <2>5. ASSUME NEW n \in T1, n # child[p] PROVE Prior(n) \in T1
    <3>1. n \in Hooked /\ Prior(n) \in T /\ n # p /\ IsBelow(n, p)
      BY <1>1, <1>4
    <3>2. CASE prev[n] # 0
      <4>1. prev[n] \in T /\ prev[n] \in Hooked /\ parent[prev[n]] = parent[n] /\ Prior(n) = prev[n]
        BY <3>1, <3>2, Neighbours DEF Prior
      <4> QED BY <1>4, <1>6, <3>1, <4>1
    <3>3. CASE prev[n] = 0
      <4>1. Prior(n) = parent[n] /\ parent[n] \in T /\ n = HeadOf(parent[n])
        BY <3>1, <3>3, Neighbours DEF Prior
      <4>2. parent[n] # p
        BY <1>1, <2>5, <4>1 DEF HeadOf
      <4>3. IsBelow(parent[n], p)
        BY <1>1, <1>2, <3>1
      <4> QED BY <1>4, <4>1, <4>2, <4>3
    <3> QED BY <3>2, <3>3
  <2>6. T1 \subseteq Hooked
    BY <1>1, <1>4
  <2> QED BY <2>1, <2>2, <2>3, <2>4, <2>5, <2>6 DEF Region
<1>8. Region(next[p], T2)
  <2>1. ASSUME NEW n \in T2, Prior(n) # p PROVE Prior(n) \in T2
    <3>1. n \in Hooked /\ n \in Allocated /\ Prior(n) \in T /\ n # p /\ ~ IsBelow(n, p)
      BY <1>1, <1>4
    <3>2. ~ IsBelow(Prior(n), p)
      <4>1. CASE prev[n] # 0
        <5>1. prev[n] \in Hooked /\ parent[prev[n]] = parent[n] /\ Prior(n) = prev[n]
          BY <3>1, <4>1, Neighbours DEF Prior
        <5> QED BY <1>6, <2>1, <3>1, <5>1
      <4>2. CASE prev[n] = 0
        <5>1. Prior(n) = parent[n] /\ parent[n] # 0
          BY <1>1, <3>1, <4>2 DEF Prior
        <5> QED BY <1>2, <3>1, <5>1
      <4> QED BY <4>1, <4>2
    <3> QED BY <1>4, <3>1, <3>2
  <2>2. ASSUME NEW n \in T2, Prior(n) = p PROVE n = next[p]
    <3>1. n \in Hooked /\ n \in Allocated /\ n # p /\ ~ IsBelow(n, p) /\ p # 0
      BY <1>1, <1>4
    <3>2. parent[n] # p
      BY <1>2, <3>1
    <3>3. prev[n] = p
      BY <2>2, <3>2 DEF Prior
    <3> QED BY <3>1, <3>3, Neighbours
  <2>3. next[p] # 0 => next[p] \in T2 /\ Prior(next[p]) \notin T2
    <3> SUFFICES ASSUME next[p] # 0 PROVE next[p] \in T2 /\ Prior(next[p]) \notin T2
      OBVIOUS
    <3>1. /\ next[p] \in Hooked /\ parent[next[p]] = parent[p] /\ prev[next[p]] = p
          /\ next[p] \in T /\ next[p] # p /\ p # 0
      BY <1>1, Neighbours, NotItself
    <3>2. ~ IsBelow(next[p], p)
      BY <1>1, <1>2, <1>3, <3>1
    <3> QED BY <1>4, <3>1, <3>2 DEF Prior
  <2>4. next[p] = 0 => T2 = {}
    <3> SUFFICES ASSUME next[p] = 0, T2 # {} PROVE FALSE
      OBVIOUS
    <3>1. T2 \in SUBSET Hooked /\ \A n \in T2 : n # 0
      BY <1>1, <1>4
    <3>2. PICK n \in T2 : Prior(n) \notin T2
      BY <3>1, PriorEnds
    <3> QED BY <2>1, <2>2, <3>1, <3>2
  <2>5. ASSUME NEW n \in T2, child[n] # 0 PROVE child[n] \in T2
    <3>1. /\ child[n] \in T /\ child[n] \in Hooked /\ parent[child[n]] = n /\ prev[child[n]] = 0
          /\ n \in T /\ ~ IsBelow(n, p)
      BY <1>1, <1>4, <2>5, Neighbours
    <3>2. child[n] # p
      BY <1>1, <3>1 DEF Prior
    <3> QED BY <1>1, <1>2, <1>4, <3>1, <3>2
  <2>6. ASSUME NEW n \in T2, next[n] # 0 PROVE next[n] \in T2
    <3>1. /\ n \in Hooked /\ next[n] \in T /\ next[n] \in Hooked /\ parent[next[n]] = parent[n]
          /\ prev[next[n]] = n /\ n \in T /\ n # p /\ ~ IsBelow(n, p) /\ n # 0
      BY <1>1, <1>4, <2>6, Neighbours
    <3>2. next[n] # p
      BY <1>1, <3>1 DEF Prior
    <3> QED BY <1>4, <1>6, <3>1, <3>2
  <2>7. T2 \subseteq Hooked
    BY <1>1, <1>4
  <2> QED BY <2>1, <2>2, <2>3, <2>4, <2>5, <2>6, <2>7 DEF Region
<1> QED BY <1>5, <1>7, <1>8

-----------------------------------------------------------------------------
\* Two sequences after one another.
LEMMA Joined ==
  ASSUME NEW S, NEW s \in Seq(S), NEW t \in Seq(S)
  PROVE  s \o t \in Seq(S) /\ Len(s \o t) = Len(s) + Len(t) /\ ToSet(s \o t) = ToSet(s) \cup ToSet(t)
<1>1. s \o t \in Seq(S) /\ Len(s \o t) = Len(s) + Len(t)
  OBVIOUS
<1>2. \A i \in 1 .. Len(s) : (s \o t)[i] = s[i] /\ i \in 1 .. Len(s \o t)
  BY <1>1
<1>3. \A i \in 1 .. Len(t) : (s \o t)[Len(s) + i] = t[i] /\ Len(s) + i \in 1 .. Len(s \o t)
  BY <1>1
<1>4. \A i \in 1 .. Len(s \o t) : i \in 1 .. Len(s) \/ i - Len(s) \in 1 .. Len(t)
  BY <1>1
<1>5. \A i \in 1 .. Len(s \o t) : (s \o t)[i] \in ToSet(s) \cup ToSet(t)
  <2> TAKE i \in 1 .. Len(s \o t)
  <2>1. CASE i \in 1 .. Len(s)
    BY <1>2, <2>1 DEF ToSet
  <2>2. CASE i - Len(s) \in 1 .. Len(t)
    <3>1. (s \o t)[i] = t[i - Len(s)]
      BY <1>1, <1>3, <2>2
    <3> QED BY <2>2, <3>1 DEF ToSet
  <2> QED BY <1>4, <2>1, <2>2
<1>6. ToSet(s) \cup ToSet(t) \subseteq ToSet(s \o t)
  <2>1. ToSet(s) \subseteq ToSet(s \o t)
    BY <1>1, <1>2 DEF ToSet
  <2>2. ASSUME NEW i \in 1 .. Len(t) PROVE t[i] \in ToSet(s \o t)
    <3> PICK j : j = Len(s) + i
      OBVIOUS
    <3>1. j \in 1 .. Len(s \o t) /\ (s \o t)[j] = t[i]
      BY <1>3
    <3> QED BY <1>1, <3>1 DEF ToSet
  <2> QED BY <2>1, <2>2 DEF ToSet
<1>7. ToSet(s \o t) \subseteq ToSet(s) \cup ToSet(t)
  BY <1>1, <1>5 DEF ToSet
<1> QED BY <1>1, <1>6, <1>7

\* A sequence that holds the nodes of T once each.
EachOnce(s, T) == s \in Seq(Nodes) /\ ToSet(s) = T /\ Len(s) = Cardinality(T)

LEMMA JoinedParts ==
  ASSUME TreeInv, NEW T1 \in SUBSET Hooked, NEW T2 \in SUBSET Hooked, NEW p \in Hooked, NEW s1, NEW s2,
         EachOnce(s1, T1), EachOnce(s2, T2), p \notin T1, p \notin T2, T1 \cap T2 = {}
  PROVE  /\ EachOnce(s1 \o <<p>> \o s2, T1 \cup {p} \cup T2)
         /\ Cardinality(T1 \cup {p} \cup T2) = Cardinality(T1) + 1 + Cardinality(T2)
         /\ Cardinality(T1) \in Nat /\ Cardinality(T2) \in Nat
<1>1. p \in Nodes /\ IsFiniteSet(T1) /\ IsFiniteSet(T2)
  BY HookedSets
<1>2. Cardinality(T1) \in Nat /\ Cardinality(T2) \in Nat
  BY <1>1, FS_CardinalityType
<1>3. IsFiniteSet(T1 \cup {p}) /\ Cardinality(T1 \cup {p}) = Cardinality(T1) + 1
  BY <1>1, FS_AddElement
<1>4. Cardinality(T1 \cup {p} \cup T2) = Cardinality(T1) + 1 + Cardinality(T2)
  <2> PICK U : U = T1 \cup {p}
    OBVIOUS
  <2>1. U \cap T2 = {} /\ Cardinality(U \cap T2) = 0
    BY FS_EmptySet
  <2>2. Cardinality(U \cup T2) = Cardinality(U) + Cardinality(T2) - Cardinality(U \cap T2)
    BY <1>1, <1>3, FS_Union
  <2> QED BY <1>2, <1>3, <2>1, <2>2
<1>5. PICK t : t = s1 \o <<p>>
  OBVIOUS
<1>6. <<p>> \in Seq(Nodes) /\ Len(<<p>>) = 1 /\ ToSet(<<p>>) = {p}
  BY <1>1 DEF ToSet
<1>7. t \in Seq(Nodes) /\ Len(t) = Cardinality(T1) + 1 /\ ToSet(t) = T1 \cup {p}
  <2> PICK q : q = <<p>>
    OBVIOUS
  <2>1. s1 \in Seq(Nodes) /\ q \in Seq(Nodes) /\ Len(q) = 1 /\ ToSet(q) = {p} /\ t = s1 \o q
    BY <1>5, <1>6 DEF EachOnce
  <2>2. t \in Seq(Nodes) /\ Len(t) = Len(s1) + Len(q) /\ ToSet(t) = ToSet(s1) \cup ToSet(q)
    BY <2>1, Joined
  <2> QED BY <2>1, <2>2 DEF EachOnce
<1>8. t \o s2 \in Seq(Nodes) /\ Len(t \o s2) = Cardinality(T1) + 1 + Cardinality(T2)
      /\ ToSet(t \o s2) = T1 \cup {p} \cup T2
  BY <1>2, <1>7, Joined DEF EachOnce
<1> QED BY <1>2, <1>4, <1>5, <1>8 DEF EachOnce

\* pst_free_desc meets the nodes of a region once each.
LEMMA RegionFreed ==
  ASSUME TreeInv, Grounded, node = 0
  PROVE  \A p, T : Region(p, T) /\ Cardinality(T) <= MaxNodes => EachOnce(FreeOrder[<<p, MaxNodes>>], T)
<1> DEFINE Good(k) == k <= MaxNodes => \A p, T : Region(p, T) /\ Cardinality(T) <= k =>
                        EachOnce(FreeOrder[<<p, k>>], T)
           K == {k \in Nat : Good(k)}
<1>0. MaxNodes \in Nat /\ VariableTypes /\ \A c \in Visits : FreeOrder[c] = Freed(FreeOrder, c)
  BY NodesNat, FreeEquation DEF TreeInv, TypeOK
<1>1. \A p, T : Region(p, T) => p \in Ptr /\ T \in SUBSET Hooked /\ IsFiniteSet(T) /\ Cardinality(T) \in Nat
  <2> SUFFICES ASSUME NEW p, NEW T, Region(p, T)
               PROVE  p \in Ptr /\ T \in SUBSET Hooked /\ IsFiniteSet(T) /\ Cardinality(T) \in Nat
    OBVIOUS
  <2>1. T \in SUBSET Hooked /\ IsFiniteSet(T) /\ p \in Hooked \cup {0}
    BY HookedSets DEF Region
  <2> QED BY <2>1, HookedSets, NodesNat, FS_CardinalityType
<1>2. ASSUME NEW k \in 0 .. MaxNodes PROVE EachOnce(FreeOrder[<<0, k>>], {})
  <2>1. <<0, k>> \in Visits
    BY NodesNat DEF Visits
  <2>2. FreeOrder[<<0, k>>] = <<>>
    BY <1>0, <2>1 DEF Freed
  <2>3. <<>> \in Seq(Nodes) /\ ToSet(<<>>) = {} /\ Len(<<>>) = 0
    BY DEF ToSet
  <2> QED BY <2>2, <2>3, FS_EmptySet DEF EachOnce
<1>3. 0 \in K
  <2>1. ASSUME NEW p, NEW T, Region(p, T), Cardinality(T) <= 0 PROVE EachOnce(FreeOrder[<<p, 0>>], T)
    <3>1. T = {}
      BY <1>1, <2>1, FS_EmptySet
    <3>2. p = 0
      BY <2>1, <3>1 DEF Region
    <3> QED BY <1>0, <1>2, <3>1, <3>2
  <2> QED BY <2>1
<1>4. ASSUME NEW k \in K PROVE k + 1 \in K
  <2>1. k \in Nat /\ Good(k)
    OBVIOUS
  <2> SUFFICES ASSUME k + 1 <= MaxNodes, NEW p, NEW T, Region(p, T), Cardinality(T) <= k + 1
               PROVE  EachOnce(FreeOrder[<<p, k + 1>>], T)
    BY <2>1
  <2>2. CASE p = 0
    BY <1>0, <1>2, <2>1, <2>2 DEF Region
  <2>3. CASE p # 0
    <3> PICK T1, T2, s1, s2 :
          /\ T1 = Below(p, T) /\ T2 = Behind(p, T)
          /\ s1 = FreeOrder[<<child[p], k>>] /\ s2 = FreeOrder[<<next[p], k>>]
      OBVIOUS
    <3>1. /\ T = T1 \cup {p} \cup T2 /\ p \notin T1 /\ p \notin T2 /\ T1 \cap T2 = {}
          /\ Region(child[p], T1) /\ Region(next[p], T2)
      BY <2>3, RegionParts
    <3>2. T1 \in SUBSET Hooked /\ T2 \in SUBSET Hooked /\ p \in Hooked /\ IsFiniteSet(T1) /\ IsFiniteSet(T2)
      BY <1>1, <2>3, <3>1 DEF Region
    <3>3. Cardinality(T1) <= k /\ Cardinality(T2) <= k
      <4>1. Cardinality(T1) \in Nat /\ Cardinality(T2) \in Nat /\ Cardinality(T) \in Nat
        BY <1>1, <3>1
      <4>2. IsFiniteSet(T \ {p}) /\ Cardinality(T \ {p}) = Cardinality(T) - 1
        BY <1>1, <3>1, FS_RemoveElement
      <4>3. Cardinality(T1) <= Cardinality(T \ {p}) /\ Cardinality(T2) <= Cardinality(T \ {p})
        BY <3>1, <4>2, FS_Subset
      <4> QED BY <2>1, <4>1, <4>2, <4>3
    <3>4. EachOnce(s1, T1) /\ EachOnce(s2, T2)
      BY <2>1, <3>1, <3>3, <1>0
    <3>5. FreeOrder[<<p, k + 1>>] = s1 \o <<p>> \o s2
      <4>1. <<p, k + 1>> \in Visits
        BY <1>0, <1>1, <2>1 DEF Visits
      <4>2. k + 1 # 0 /\ (k + 1) - 1 = k
        BY <2>1
      <4>3. FreeOrder[<<p, k + 1>>] = Freed(FreeOrder, <<p, k + 1>>)
        BY <1>0, <4>1
      <4> QED BY <2>3, <4>2, <4>3 DEF Freed
    <3>6. EachOnce(s1 \o <<p>> \o s2, T1 \cup {p} \cup T2)
      BY <3>1, <3>2, <3>4, JoinedParts
    <3> QED BY <3>1, <3>5, <3>6
  <2> QED BY <2>2, <2>3
<1>5. K = Nat
  <2> HIDE DEF K
  <2>1. K \subseteq Nat
    BY DEF K
  <2> QED BY <1>3, <1>4, <2>1, SetInduction
<1>6. Good(MaxNodes)
  <2>1. MaxNodes \in K
    <3> HIDE DEF K
    <3> QED BY <1>0, <1>5
  <2> QED BY <2>1
<1> QED BY <1>0, <1>6

\* So pst_close frees every node once.
LEMMA FreedOnce ==
  ASSUME TreeInv, Grounded, node = 0
  PROVE  /\ ToSet(FreeOrder[<<d_head, MaxNodes>>]) = Allocated
         /\ Len(FreeOrder[<<d_head, MaxNodes>>]) = Count
<1>1. Hooked = Allocated /\ 0 \notin Allocated
  BY HookedSets DEF Hooked
<1>2. Region(d_head, Allocated)
  <2>1. ASSUME NEW n \in Allocated
        PROVE  /\ child[n] \in Allocated \cup {0} /\ next[n] \in Allocated \cup {0}
               /\ n # d_head => Prior(n) \in Allocated
    <3>1. /\ parent[n] \in Allocated \cup {0} /\ next[n] \in Allocated \cup {0}
          /\ prev[n] \in Allocated \cup {0} /\ child[n] \in Allocated \cup {0}
          /\ prev[n] = 0 => n = HeadOf(parent[n])
      BY <1>1, Neighbours
    <3> QED BY <3>1 DEF Prior, HeadOf
  <2>2. d_head = 0 => Allocated = {}
    <3> SUFFICES ASSUME d_head = 0, Allocated # {} PROVE FALSE
      OBVIOUS
    <3>1. PICK n \in Allocated : Prior(n) \notin Allocated
      BY <1>1, PriorEnds
    <3> QED BY <1>1, <2>1, <3>1
  <2>3. d_head # 0 => d_head \in Allocated /\ Prior(d_head) \notin Allocated
    BY <1>1, FirstNode DEF Prior
  <2> QED BY <1>1, <2>1, <2>2, <2>3 DEF Region
<1>3. Cardinality(Allocated) = Count /\ Count <= MaxNodes
  <2>1. Count \in Nat /\ Count <= MaxNodes
    BY DEF TreeInv, TypeOK, VariableTypes, Count
  <2> QED BY <2>1, FS_Interval DEF Allocated
<1> QED BY <1>2, <1>3, RegionFreed DEF EachOnce

\* A walk with pst_getNextDptr compares every node once, and pst_close frees every
\* node once.
THEOREM NodesOnce == Spec => []EveryNodeOnce
<1>1. OrderInv => EveryNodeOnce
  <2> SUFFICES ASSUME OrderInv PROVE EveryNodeOnce
    OBVIOUS
  <2>1. pc = "done" => seen = Allocated
    BY DEF OrderInv, WalkOnce
  <2>2. pc = "search" => cur \notin seen
    BY DEF OrderInv, WalkOnce, Visited, Here
  <2>3. ASSUME pc \in {"idle", "done"}
        PROVE  /\ ToSet(FreeOrder[<<d_head, MaxNodes>>]) = Allocated
               /\ Len(FreeOrder[<<d_head, MaxNodes>>]) = Count
    <3>1. node = 0
      BY <2>3 DEF OrderInv, TreeInv, TypeOK
    <3> QED BY <3>1, FreedOnce DEF OrderInv
  <2> QED BY <2>1, <2>2, <2>3 DEF EveryNodeOnce
<1>2. Spec => []OrderInv
  BY OrderHolds
<1> QED BY <1>1, <1>2, PTL

-----------------------------------------------------------------------------
\* The sibling lists as sequences.  One node of Chain, and that the recursive
\* function is there.
Chained(f, c) == IF c[1] = 0 \/ c[2] = 0 THEN <<>> ELSE <<c[1]>> \o f[<<next[c[1]], c[2] - 1>>]

LEMMA DeeperChained ==
  ASSUME VariableTypes, NEW f, NEW g, NEW c \in Visits,
         \A x \in Visits : x[2] < c[2] => f[x] = g[x]
  PROVE  Chained(f, c) = Chained(g, c)
<1>1. CASE c[1] = 0 \/ c[2] = 0
  BY <1>1 DEF Chained
<1>2. CASE c[1] # 0 /\ c[2] # 0
  <2>1. c[1] \in Nodes /\ c[2] \in Nat /\ c[2] <= MaxNodes
    BY <1>2, NodesNat DEF Visits
  <2>2. next[c[1]] \in Ptr
    BY <2>1 DEF VariableTypes
  <2>3. c[2] - 1 \in 0 .. MaxNodes /\ c[2] - 1 < c[2]
    BY <1>2, <2>1, NodesNat
  <2>4. f[<<next[c[1]], c[2] - 1>>] = g[<<next[c[1]], c[2] - 1>>]
    BY <2>2, <2>3 DEF Visits
  <2> QED BY <2>4 DEF Chained
<1> QED BY <1>1, <1>2

LEMMA ChainEquation == ASSUME VariableTypes PROVE \A c \in Visits : Chain[c] = Chained(Chain, c)
<1> DEFINE T == {n \in Nat : \E f : \A c \in Visits : c[2] <= n => f[c] = Chained(f, c)}
<1>0. MaxNodes \in Nat /\ \A c \in Visits : c[2] \in Nat /\ c[2] <= MaxNodes
  BY NodesNat DEF Visits
<1>1. 0 \in T
  <2> DEFINE f == [c \in Visits |-> <<>>]
  <2>1. \A c \in Visits : c[2] <= 0 => f[c] = Chained(f, c)
    <3> TAKE c \in Visits
    <3>1. c[2] <= 0 => c[2] = 0
      BY <1>0
    <3>2. f[c] = <<>>
      OBVIOUS
    <3> QED BY <3>1, <3>2 DEF Chained
  <2> QED BY <2>1
<1>2. ASSUME NEW n \in T PROVE n + 1 \in T
  <2>1. PICK f : \A c \in Visits : c[2] <= n => f[c] = Chained(f, c)
    OBVIOUS
  <2> DEFINE h == [c \in Visits |-> Chained(f, c)]
  <2>2. \A c \in Visits : h[c] = Chained(f, c)
    OBVIOUS
  <2> HIDE DEF h
  <2>3. \A c \in Visits : c[2] <= n => h[c] = f[c]
    BY <2>1, <2>2
  <2>4. ASSUME NEW c \in Visits, c[2] <= n + 1 PROVE Chained(f, c) = Chained(h, c)
    <3>1. \A x \in Visits : x[2] < c[2] => f[x] = h[x]
      BY <1>0, <2>3, <2>4
    <3> QED BY <3>1, DeeperChained
  <2>5. \A c \in Visits : c[2] <= n + 1 => h[c] = Chained(h, c)
    BY <2>2, <2>4
  <2>6. n + 1 \in Nat
    OBVIOUS
  <2> QED BY <2>5, <2>6
<1>3. T = Nat
  <2> HIDE DEF T
  <2>1. T \subseteq Nat
    BY DEF T
  <2> QED BY <1>1, <1>2, <2>1, SetInduction
<1>4. PICK f : \A c \in Visits : c[2] <= MaxNodes => f[c] = Chained(f, c)
  <2>1. MaxNodes \in T
    <3> HIDE DEF T
    <3> QED BY <1>0, <1>3
  <2> QED BY <2>1
<1>5. \A c \in Visits : f[c] = Chained(f, c)
  BY <1>0, <1>4
<1> DEFINE g == [c \in Visits |-> Chained(f, c)]
<1>6. \A c \in Visits : g[c] = Chained(f, c)
  OBVIOUS
<1>7. \A c \in Visits : Chained(f, c) = Chained(g, c)
  <2> HIDE DEF g
  <2>1. \A c \in Visits : f[c] = g[c]
    BY <1>5, <1>6
  <2> QED BY <2>1, DeeperChained
<1>8. g = [c \in Visits |-> Chained(g, c)]
  BY <1>7
<1>9. \E h : h = [c \in Visits |-> Chained(h, c)]
  BY <1>8
<1>10. Chain = [c \in Visits |-> Chained(Chain, c)]
  BY <1>9 DEF Chain, Chained, Visits
<1> QED BY <1>10

\* s is the list that starts at h and ends at 0; it holds the nodes S once each.
Runs(nx, h, s) ==
  /\ s \in Seq(Nodes)
  /\ IF s = <<>> THEN h = 0 ELSE h = s[1] /\ nx[s[Len(s)]] = 0
  /\ \A i \in 1 .. Len(s) : i < Len(s) => nx[s[i]] = s[i + 1]
Distinct(s) == \A i, j \in 1 .. Len(s) : s[i] = s[j] => i = j
Spells(nx, h, s, S) == Runs(nx, h, s) /\ Distinct(s) /\ ToSet(s) = S

\* The rest of a list.
LEMMA RunsTail ==
  ASSUME NEW nx, NEW h, NEW s, Runs(nx, h, s), s # <<>>
  PROVE  /\ h \in Nodes /\ Tail(s) \in Seq(Nodes) /\ Len(Tail(s)) = Len(s) - 1 /\ s = <<h>> \o Tail(s)
         /\ Runs(nx, nx[h], Tail(s)) /\ Len(s) \in Nat \ {0}
<1>1. s \in Seq(Nodes) /\ h = s[1] /\ nx[s[Len(s)]] = 0
      /\ \A i \in 1 .. Len(s) : i < Len(s) => nx[s[i]] = s[i + 1]
  BY DEF Runs
<1>2. PICK n, t : n = Len(s) /\ t = Tail(s)
  OBVIOUS
<1>3. n \in Nat \ {0} /\ h \in Nodes /\ t \in Seq(Nodes) /\ Len(t) = n - 1
  BY <1>1, <1>2
<1>4. \A i \in 1 .. Len(t) : t[i] = s[i + 1]
  BY <1>1, <1>2, <1>3
<1>5. s = <<h>> \o t
  BY <1>1, <1>2, <1>3
<1>6. t = <<>> <=> n = 1
  BY <1>3
<1>7. t = <<>> => nx[h] = 0
  BY <1>1, <1>2, <1>6
<1>8. t # <<>> => nx[h] = t[1] /\ nx[t[Len(t)]] = 0
  BY <1>1, <1>2, <1>3, <1>4, <1>6
<1>9. \A i \in 1 .. Len(t) : i < Len(t) => nx[t[i]] = t[i + 1]
  <2> TAKE i \in 1 .. Len(t)
  <2> HAVE i < Len(t)
  <2>1. i + 1 \in 1 .. Len(s) /\ i + 1 < Len(s) /\ i + 1 \in 1 .. Len(t)
    BY <1>2, <1>3
  <2> QED BY <1>1, <1>4, <2>1
<1>10. Runs(nx, nx[h], t)
  BY <1>3, <1>7, <1>8, <1>9 DEF Runs
<1> QED BY <1>2, <1>3, <1>5, <1>10

\* A sequence of different nodes is not longer than there are nodes.
LEMMA DistinctLength == ASSUME NEW s \in Seq(Nodes), Distinct(s) PROVE Len(s) <= MaxNodes
<1>1. MaxNodes \in Nat /\ Len(s) \in Nat /\ Nodes = 1 .. MaxNodes
  BY NodesNat DEF Nodes
<1>2. IsFiniteSet(1 .. Len(s)) /\ Cardinality(1 .. Len(s)) = Len(s)
  <2>1. \A n \in Nat : IsFiniteSet(1 .. n) /\ Cardinality(1 .. n) = n
    BY FS_Interval
  <2> QED BY <1>1, <2>1
<1>3. IsFiniteSet(Nodes) /\ Cardinality(Nodes) = MaxNodes
  BY <1>1, FS_Interval
<1> DEFINE f == [i \in 1 .. Len(s) |-> s[i]]
<1>4. f \in Injection(1 .. Len(s), Nodes)
  <2>1. f \in [1 .. Len(s) -> Nodes]
    OBVIOUS
  <2>2. \A i, j \in 1 .. Len(s) : f[i] = f[j] => i = j
    BY DEF Distinct
  <2> QED BY <2>1, <2>2 DEF Injection, IsInjective
<1>5. Cardinality(1 .. Len(s)) <= Cardinality(Nodes)
  BY <1>2, <1>3, <1>4, FS_Injection
<1> QED BY <1>2, <1>3, <1>5

\* Chain reads the list it starts at.
ChainsRight == \A h, s, S : Spells(next, h, s, S) => Chain[<<h, MaxNodes>>] = s

LEMMA ChainSpelled == VariableTypes => ChainsRight
<1> SUFFICES ASSUME VariableTypes PROVE ChainsRight
  OBVIOUS
<1> DEFINE Good(k) == k <= MaxNodes => \A h, s : Runs(next, h, s) /\ Len(s) <= k => Chain[<<h, k>>] = s
           K == {k \in Nat : Good(k)}
<1>0. MaxNodes \in Nat /\ \A c \in Visits : Chain[c] = Chained(Chain, c)
  BY NodesNat, ChainEquation
<1>1. ASSUME NEW k \in 0 .. MaxNodes, NEW h, NEW s, Runs(next, h, s), s = <<>> PROVE Chain[<<h, k>>] = s
  <2>1. h = 0 /\ <<h, k>> \in Visits
    BY <1>1, NodesNat DEF Visits, Runs
  <2>2. Chain[<<h, k>>] = Chained(Chain, <<h, k>>)
    BY <1>0, <2>1
  <2> QED BY <1>1, <2>1, <2>2 DEF Chained
<1>2. 0 \in K
  <2>1. ASSUME NEW h, NEW s, Runs(next, h, s), Len(s) <= 0 PROVE Chain[<<h, 0>>] = s
    <3>1. s = <<>>
      BY <2>1 DEF Runs
    <3> QED BY <1>0, <1>1, <2>1, <3>1
  <2> QED BY <2>1
<1>3. ASSUME NEW k \in K PROVE k + 1 \in K
  <2>1. k \in Nat /\ Good(k)
    OBVIOUS
  <2> SUFFICES ASSUME k + 1 <= MaxNodes, NEW h, NEW s, Runs(next, h, s), Len(s) <= k + 1
               PROVE  Chain[<<h, k + 1>>] = s
    BY <2>1
  <2>2. CASE s = <<>>
    BY <1>0, <1>1, <2>1, <2>2
  <2>3. CASE s # <<>>
    <3>1. PICK t : t = Tail(s)
      OBVIOUS
    <3>2. h \in Nodes /\ Len(t) = Len(s) - 1 /\ s = <<h>> \o t /\ Runs(next, next[h], t) /\ Len(s) \in Nat
      BY <2>3, <3>1, RunsTail
    <3>3. k <= MaxNodes /\ Len(t) <= k
      BY <1>0, <2>1, <3>2
    <3>4. Chain[<<next[h], k>>] = t
      BY <2>1, <3>2, <3>3
    <3>5. <<h, k + 1>> \in Visits /\ h # 0 /\ k + 1 # 0 /\ (k + 1) - 1 = k
      BY <1>0, <2>1, <3>2, NodesNat DEF Visits
    <3>6. Chain[<<h, k + 1>>] = Chained(Chain, <<h, k + 1>>)
      BY <1>0, <3>5
    <3> QED BY <3>2, <3>4, <3>5, <3>6 DEF Chained
  <2> QED BY <2>2, <2>3
<1>4. K = Nat
  <2> HIDE DEF K
  <2>1. K \subseteq Nat
    BY DEF K
  <2> QED BY <1>2, <1>3, <2>1, SetInduction
<1>5. Good(MaxNodes)
  <2>1. MaxNodes \in K
    <3> HIDE DEF K
    <3> QED BY <1>0, <1>4
  <2> QED BY <2>1
<1> SUFFICES ASSUME NEW h, NEW s, NEW S, Spells(next, h, s, S) PROVE Chain[<<h, MaxNodes>>] = s
  BY DEF ChainsRight
<1>6. Len(s) <= MaxNodes
  BY DistinctLength DEF Spells, Runs
<1> QED BY <1>0, <1>5, <1>6 DEF Spells

\* A list is not changed where its nodes are not touched.
LEMMA SpellsFrame ==
  ASSUME NEW nx, NEW nx2, NEW h, NEW s, NEW S, Spells(nx, h, s, S), \A m \in S : nx2[m] = nx[m]
  PROVE  Spells(nx2, h, s, S)
<1>1. s \in Seq(Nodes) /\ \A i \in 1 .. Len(s) : s[i] \in S
  BY DEF Spells, Runs, ToSet
<1>2. s # <<>> => Len(s) \in 1 .. Len(s)
  BY <1>1
<1>3. s # <<>> => nx2[s[Len(s)]] = nx[s[Len(s)]]
  BY <1>1, <1>2
<1>4. \A i \in 1 .. Len(s) : nx2[s[i]] = nx[s[i]]
  BY <1>1
<1>5. Runs(nx2, h, s)
  BY <1>3, <1>4 DEF Spells, Runs
<1> QED BY <1>5 DEF Spells

\* add_descriptor_to_list appends.
LEMMA SpellsAppend ==
  ASSUME NEW nx, NEW nx2, NEW h, NEW t, NEW s, NEW S, NEW n \in Nodes, Spells(nx, h, s, S),
         n \notin S, nx2[n] = 0, \A m \in S : nx2[m] = IF m = t THEN n ELSE nx[m],
         t = 0 <=> S = {}, t # 0 => t \in S /\ nx[t] = 0
  PROVE  Spells(nx2, OrElse(h, n), Append(s, n), S \cup {n})
<1> PICK k, r : k = Len(s) /\ r = Append(s, n)
  OBVIOUS
<1>1. /\ s \in Seq(Nodes) /\ k \in Nat /\ \A i \in 1 .. k : s[i] \in S /\ s[i] \in Nodes
      /\ \A i \in 1 .. k : i < k => nx[s[i]] = s[i + 1]
      /\ \A i, j \in 1 .. k : s[i] = s[j] => i = j
      /\ \A m \in S : \E i \in 1 .. k : m = s[i]
  BY DEF Spells, Runs, Distinct, ToSet
<1>2. r \in Seq(Nodes) /\ Len(r) = k + 1 /\ r[k + 1] = n /\ \A i \in 1 .. k : r[i] = s[i]
  BY <1>1
<1>3. k = 0 <=> s = <<>>
  BY <1>1
<1>4. 0 \notin Nodes /\ n # 0
  BY NodesNat
<1>5. k # 0 => t = s[k]
  <2> SUFFICES ASSUME k # 0 PROVE t = s[k]
    OBVIOUS
  <2>1. s[1] \in S
    BY <1>1
  <2>2. t \in S /\ nx[t] = 0
    BY <2>1
  <2>3. PICK i \in 1 .. k : t = s[i]
    BY <1>1, <2>2
  <2>4. i < k => s[i + 1] = 0 /\ i + 1 \in 1 .. k
    BY <1>1, <2>2, <2>3
  <2>5. ~(i < k)
    BY <1>1, <1>4, <2>4
  <2>6. i = k
    BY <1>1, <2>5
  <2> QED BY <2>3, <2>6
<1>6. OrElse(h, n) = r[1]
  <2>1. CASE k = 0
    BY <1>2, <1>3, <2>1 DEF Spells, Runs, OrElse
  <2>2. CASE k # 0
    <3>1. 1 \in 1 .. k /\ h = s[1]
      BY <1>1, <1>3, <2>2 DEF Spells, Runs
    <3>2. h # 0 /\ r[1] = s[1]
      BY <1>1, <1>2, <1>4, <3>1
    <3> QED BY <3>1, <3>2 DEF OrElse
  <2> QED BY <2>1, <2>2
<1>7. r # <<>> /\ nx2[r[Len(r)]] = 0
  BY <1>1, <1>2
<1>8. \A i \in 1 .. Len(r) : i < Len(r) => nx2[r[i]] = r[i + 1]
  <2> TAKE i \in 1 .. Len(r)
  <2> HAVE i < Len(r)
  <2>1. i \in 1 .. k /\ r[i] = s[i] /\ s[i] \in S /\ k # 0 /\ k \in 1 .. k
    BY <1>1, <1>2
  <2>2. CASE i = k
    BY <1>2, <1>5, <2>1, <2>2
  <2>3. CASE i # k
    <3>1. i < k /\ i + 1 \in 1 .. k /\ s[i] # s[k]
      BY <1>1, <2>1, <2>3
    <3>2. r[i + 1] = s[i + 1]
      BY <1>2, <3>1
    <3> QED BY <1>1, <1>5, <2>1, <3>1, <3>2
  <2> QED BY <2>2, <2>3
<1>9. Runs(nx2, OrElse(h, n), r)
  BY <1>2, <1>6, <1>7, <1>8 DEF Runs
<1>10. Distinct(r)
  <2> SUFFICES ASSUME NEW i \in 1 .. k + 1, NEW j \in 1 .. k + 1, r[i] = r[j] PROVE i = j
    BY <1>2 DEF Distinct
  <2>1. i \in 1 .. k \/ i = k + 1
    BY <1>1
  <2>2. j \in 1 .. k \/ j = k + 1
    BY <1>1
  <2>3. \A x \in 1 .. k : r[x] # n
    BY <1>1, <1>2
  <2> QED BY <1>1, <1>2, <2>1, <2>2, <2>3
<1>11. ToSet(r) = S \cup {n}
  <2>1. \A i \in 1 .. k + 1 : r[i] \in S \cup {n}
    <3> TAKE i \in 1 .. k + 1
    <3>1. i \in 1 .. k \/ i = k + 1
      BY <1>1
    <3> QED BY <1>1, <1>2, <3>1
  <2>2. \A m \in S : \E i \in 1 .. k + 1 : m = r[i]
    <3> TAKE m \in S
    <3>1. PICK i \in 1 .. k : m = s[i]
      BY <1>1
    <3>2. i \in 1 .. k + 1 /\ m = r[i]
      BY <1>1, <1>2, <3>1
    <3> QED BY <3>2
  <2>3. k + 1 \in 1 .. k + 1
    BY <1>1
  <2> QED BY <1>2, <2>1, <2>2, <2>3 DEF ToSet
<1> QED BY <1>9, <1>10, <1>11 DEF Spells

\* Two sequences after one another, element by element.
LEMMA Concatenated ==
  ASSUME NEW T, NEW a \in Seq(T), NEW b \in Seq(T), NEW r, r = a \o b
  PROVE  /\ r \in Seq(T) /\ Len(r) = Len(a) + Len(b)
         /\ \A i \in 1 .. Len(a) : r[i] = a[i]
         /\ \A i \in 1 .. Len(b) : r[Len(a) + i] = b[i]
OBVIOUS

\* RemoveAt, element by element.
Shifted(s, n, x, r) == \A i \in 1 .. n - 1 : r[i] = IF i < x THEN s[i] ELSE s[i + 1]
LEMMA Removed ==
  ASSUME NEW s \in Seq(Nodes), NEW n \in Nat, n = Len(s), NEW x \in 1 .. n, NEW r, r = RemoveAt(s, x)
  PROVE  r \in Seq(Nodes) /\ Len(r) = n - 1 /\ Shifted(s, n, x, r)
<1>0. PICK a, b : a = SubSeq(s, 1, x - 1) /\ b = SubSeq(s, x + 1, n)
  OBVIOUS
<1>2. a \in Seq(Nodes) /\ Len(a) = x - 1 /\ \A i \in 1 .. x - 1 : a[i] = s[i]
  BY <1>0
<1>3. b \in Seq(Nodes) /\ Len(b) = n - x /\ \A i \in 1 .. n - x : b[i] = s[x + i]
  BY <1>0
<1>4. r = a \o b
  BY <1>0 DEF RemoveAt
<1>5. /\ r \in Seq(Nodes) /\ Len(r) = Len(a) + Len(b)
      /\ \A i \in 1 .. Len(a) : r[i] = a[i]
      /\ \A i \in 1 .. Len(b) : r[Len(a) + i] = b[i]
  <2>1. a \in Seq(Nodes) /\ b \in Seq(Nodes)
    BY <1>2, <1>3
  <2> HIDE <1>0
  <2> QED BY <1>4, <2>1, Concatenated
<1>6. \A i \in 1 .. n - 1 : r[i] = IF i < x THEN s[i] ELSE s[i + 1]
  <2> TAKE i \in 1 .. n - 1
  <2>1. CASE i < x
    <3>1. i \in 1 .. x - 1
      BY <2>1
    <3> QED BY <1>2, <1>5, <2>1, <3>1
  <2>2. CASE ~(i < x)
    <3>0. PICK j : j = i - (x - 1)
      OBVIOUS
    <3>1. j \in 1 .. n - x /\ x + j = i + 1 /\ i = (x - 1) + j
      BY <2>2, <3>0
    <3>2. r[i] = b[j] /\ b[j] = s[x + j]
      BY <1>2, <1>3, <1>5, <3>1
    <3> QED BY <2>2, <3>1, <3>2
  <2> QED BY <2>1, <2>2
<1>7. Len(r) = n - 1
  BY <1>2, <1>3, <1>5
<1> QED BY <1>5, <1>6, <1>7 DEF Shifted

\* The adoption loop takes a node out of the list: its neighbours name each other.
Leaves(nx, h, s, S, x, pp, nx2, h2) ==
  /\ Spells(nx, h, s, S) /\ x \in 1 .. Len(s)
  /\ pp = 0 => s[x] = h
  /\ pp # 0 => pp \in S /\ nx[pp] = s[x]
  /\ \A m \in S \ {s[x]} : nx2[m] = IF m = pp THEN nx[s[x]] ELSE nx[m]
  /\ h2 = IF pp = 0 THEN nx[s[x]] ELSE h

LEMMA SpellsLeave ==
  ASSUME NEW nx, NEW h, NEW s, NEW S, NEW x, NEW pp, NEW nx2, NEW h2, Leaves(nx, h, s, S, x, pp, nx2, h2)
  PROVE  Spells(nx2, h2, RemoveAt(s, x), S \ {s[x]})
<1>0. PICK n, r, c : n = Len(s) /\ r = RemoveAt(s, x) /\ c = s[x]
  OBVIOUS
<1>1. /\ s \in Seq(Nodes) /\ n \in Nat /\ x \in 1 .. n /\ s # <<>> /\ n \in 1 .. n
      /\ \A i \in 1 .. n : s[i] \in S /\ s[i] \in Nodes
      /\ \A i \in 1 .. n : i < n => nx[s[i]] = s[i + 1]
      /\ \A i, j \in 1 .. n : s[i] = s[j] => i = j
      /\ \A m \in S : \E i \in 1 .. n : m = s[i]
      /\ h = s[1] /\ nx[s[n]] = 0
  <2>1. s \in Seq(Nodes) /\ s # <<>> /\ n \in Nat /\ x \in 1 .. n
    BY <1>0 DEF Leaves, Spells, Runs
  <2>2. n \in 1 .. n
    BY <2>1
  <2> QED BY <1>0, <2>1, <2>2 DEF Leaves, Spells, Runs, Distinct, ToSet
<1>2. /\ r \in Seq(Nodes) /\ Len(r) = n - 1
      /\ \A i \in 1 .. n - 1 : r[i] = IF i < x THEN s[i] ELSE s[i + 1]
  <2>1. s \in Seq(Nodes) /\ n \in Nat /\ x \in 1 .. n
    BY <1>1
  <2>2. n = Len(s) /\ r = RemoveAt(s, x)
    BY <1>0
  <2>3. r \in Seq(Nodes) /\ Len(r) = n - 1 /\ Shifted(s, n, x, r)
    BY <2>1, <2>2, Removed
  <2> QED BY <2>3 DEF Shifted
<1>3. /\ pp = 0 => c = h
      /\ pp # 0 => pp \in S /\ nx[pp] = c
      /\ \A m \in S \ {c} : nx2[m] = IF m = pp THEN nx[c] ELSE nx[m]
      /\ h2 = (IF pp = 0 THEN nx[c] ELSE h) /\ c = s[x] /\ n \in Nat /\ x \in 1 .. n
  BY <1>0 DEF Leaves
<1>4. \A i \in 1 .. n - 1 : r[i] = IF i < x THEN s[i] ELSE s[i + 1]
  BY <1>2
<1>5. 0 \notin Nodes
  BY NodesNat
<1>6. pp # 0 => x > 1 /\ x - 1 \in 1 .. n /\ pp = s[x - 1]
  <2> SUFFICES ASSUME pp # 0 PROVE x > 1 /\ x - 1 \in 1 .. n /\ pp = s[x - 1]
    OBVIOUS
  <2>1. PICK j \in 1 .. n : pp = s[j]
    BY <1>1, <1>3
  <2>2. j # n
    BY <1>1, <1>3, <1>5, <2>1
  <2>3. j < n /\ j + 1 \in 1 .. n
    BY <1>1, <2>2
  <2>4. s[j + 1] = s[x]
    BY <1>1, <1>3, <2>1, <2>3
  <2>5. j + 1 = x
    BY <1>1, <2>3, <2>4
  <2> QED BY <1>1, <2>1, <2>5
<1>7. pp = 0 => x = 1
  BY <1>1, <1>3
<1>8. \A i \in 1 .. n : i # x => nx2[s[i]] = IF i = x - 1 THEN nx[c] ELSE nx[s[i]]
  <2> TAKE i \in 1 .. n
  <2> HAVE i # x
  <2>1. s[i] \in S \ {c} /\ s[i] # 0
    BY <1>1, <1>3, <1>5
  <2>2. s[i] = pp <=> i = x - 1
    <3>1. CASE pp = 0
      BY <1>7, <2>1, <3>1
    <3>2. CASE pp # 0
      BY <1>1, <1>6, <3>2
    <3> QED BY <3>1, <3>2
  <2> QED BY <1>3, <2>1, <2>2
<1>9. x < n => nx[c] = s[x + 1] /\ x + 1 \in 1 .. n
  BY <1>1, <1>3
<1>10. x = n => nx[c] = 0
  BY <1>1, <1>3
<1>11. Runs(nx2, h2, r)
  <2>1. r = <<>> => h2 = 0
    <3> SUFFICES ASSUME r = <<>> PROVE h2 = 0
      OBVIOUS
    <3>1. Len(r) = 0
      OBVIOUS
    <3>2. n = 1 /\ x = 1
      <4>1. n - 1 = 0
        BY <1>2, <3>1
      <4>2. n \in Nat /\ x \in 1 .. n
        BY <1>1
      <4> QED BY ONLY <4>1, <4>2
    <3>3. pp = 0
      BY <1>6, <3>2
    <3> QED BY <1>3, <1>10, <3>2, <3>3
  <2>2. r # <<>> => h2 = r[1]
    <3> SUFFICES ASSUME r # <<>> PROVE h2 = r[1]
      OBVIOUS
    <3>1. n > 1 /\ 1 \in 1 .. n - 1
      BY <1>1, <1>2
    <3>2. CASE x = 1
      <4>1. pp = 0 /\ r[1] = s[2] /\ nx[c] = s[2]
        BY <1>4, <1>6, <1>9, <3>1, <3>2
      <4> QED BY <1>3, <4>1
    <3>3. CASE x # 1
      <4>1. pp # 0 /\ r[1] = s[1]
        BY <1>1, <1>4, <1>7, <3>1, <3>3
      <4> QED BY <1>1, <1>3, <4>1
    <3> QED BY <1>3, <3>2, <3>3
  <2>3. r # <<>> => nx2[r[Len(r)]] = 0
    <3> SUFFICES ASSUME r # <<>> PROVE nx2[r[n - 1]] = 0
      BY <1>2
    <3>1. n > 1 /\ n - 1 \in 1 .. n - 1 /\ n - 1 \in 1 .. n
      BY <1>1, <1>2
    <3>2. CASE x = n
      <4>1. r[n - 1] = s[n - 1] /\ n - 1 # x /\ n - 1 = x - 1
        BY <1>3, <1>4, <3>1, <3>2
      <4> QED BY <1>3, <1>8, <1>10, <3>1, <3>2, <4>1
    <3>3. CASE x # n
      <4>1. r[n - 1] = s[n] /\ n # x - 1 /\ n # x
        BY <1>1, <1>4, <3>1, <3>3
      <4>2. nx2[s[n]] = nx[s[n]]
        BY <1>1, <1>8, <4>1
      <4> QED BY <1>1, <4>1, <4>2
    <3> QED BY <3>2, <3>3
  <2>4. \A i \in 1 .. Len(r) : i < Len(r) => nx2[r[i]] = r[i + 1]
    <3> TAKE i \in 1 .. Len(r)
    <3> HAVE i < Len(r)
    <3>1. i \in 1 .. n - 1 /\ i + 1 \in 1 .. n - 1 /\ i \in 1 .. n /\ i + 1 \in 1 .. n /\ i + 1 < n
          /\ (i + 1) + 1 = i + 2
      BY <1>1, <1>2
    <3>2. CASE i + 1 < x
      <4>1. r[i] = s[i] /\ r[i + 1] = s[i + 1] /\ i # x - 1 /\ i # x /\ i < n
        BY <1>1, <1>4, <3>1, <3>2
      <4>2. nx2[s[i]] = nx[s[i]]
        BY <1>8, <3>1, <4>1
      <4> QED BY <1>1, <3>1, <4>1, <4>2
    <3>3. CASE i + 1 = x
      <4>1. r[i] = s[i] /\ r[i + 1] = s[x + 1] /\ i = x - 1 /\ i # x /\ x < n
        BY <1>4, <3>1, <3>3
      <4>2. nx2[s[i]] = nx[c]
        BY <1>8, <3>1, <4>1
      <4> QED BY <1>9, <4>1, <4>2
    <3>4. CASE i + 1 > x
      <4>1. r[i] = s[i + 1] /\ r[i + 1] = s[i + 2] /\ i + 1 # x - 1 /\ i + 1 # x
        BY <1>1, <1>4, <3>1, <3>4
      <4>2. nx2[s[i + 1]] = nx[s[i + 1]]
        BY <1>8, <3>1, <4>1
      <4>3. nx[s[i + 1]] = s[i + 2]
        BY <1>1, <3>1
      <4> QED BY <4>1, <4>2, <4>3
    <3> QED BY <1>1, <3>1, <3>2, <3>3, <3>4
  <2> QED BY <1>2, <2>1, <2>2, <2>3, <2>4 DEF Runs
<1>12. \A i \in 1 .. n - 1 : \E y \in 1 .. n : /\ y # x /\ y = (IF i < x THEN i ELSE i + 1) /\ r[i] = s[y]
  <2> TAKE i \in 1 .. n - 1
  <2>1. (IF i < x THEN i ELSE i + 1) \in 1 .. n
    BY <1>3
  <2> QED BY <1>3, <1>4, <2>1
<1>13. Distinct(r)
  <2> SUFFICES ASSUME NEW i \in 1 .. n - 1, NEW j \in 1 .. n - 1, r[i] = r[j] PROVE i = j
    BY <1>2 DEF Distinct
  <2>1. PICK y \in 1 .. n : y # x /\ y = (IF i < x THEN i ELSE i + 1) /\ r[i] = s[y]
    BY <1>12
  <2>2. PICK z \in 1 .. n : z # x /\ z = (IF j < x THEN j ELSE j + 1) /\ r[j] = s[z]
    BY <1>12
  <2>3. s[y] = s[z]
    BY <2>1, <2>2
  <2>4. y = z
    BY <1>1, <2>3
  <2> QED BY <1>3, <2>1, <2>2, <2>4
<1>14. ToSet(r) = S \ {c}
  <2>1. \A i \in 1 .. n - 1 : r[i] \in S \ {c}
    BY <1>1, <1>3, <1>12
  <2>2. \A m \in S \ {c} : \E i \in 1 .. n - 1 : m = r[i]
    <3> TAKE m \in S \ {c}
    <3>1. PICK y \in 1 .. n : m = s[y]
      BY <1>1
    <3>2. y # x
      BY <1>3, <3>1
    <3>3. CASE y < x
      <4>1. y \in 1 .. n - 1 /\ r[y] = s[y]
        BY <1>1, <1>4, <3>3
      <4> QED BY <3>1, <4>1
    <3>4. CASE y > x
      <4>1. y - 1 \in 1 .. n - 1 /\ ~(y - 1 < x) /\ (y - 1) + 1 = y
        BY <1>1, <3>4
      <4>2. r[y - 1] = s[y]
        BY <1>4, <4>1
      <4> QED BY <3>1, <4>1, <4>2
    <3> QED BY <1>1, <3>2, <3>3, <3>4
  <2> QED BY <1>2, <2>1, <2>2 DEF ToSet
<1> QED BY <1>0, <1>11, <1>13, <1>14 DEF Spells

\* The lists of the forest: of the top level and of every node.
ListAt(p) == IF p = 0 THEN TopChain ELSE Kids(p)
Listing == \A p \in Ptr : Spells(next, HeadOf(p), ListAt(p), ChildrenOf(p))

\* Lists that a step leaves are the lists of the forest after it.
LEMMA Relisted ==
  ASSUME VariableTypes', NEW L, \A p \in Ptr : Spells(next', HeadOf(p)', L[p], ChildrenOf(p)')
  PROVE  Listing' /\ \A p \in Ptr : ListAt(p)' = L[p]
<1>1. ChainsRight'
  BY ChainSpelled, PTL
<1>2. \A p : ListAt(p)' = Chain'[<<HeadOf(p)', MaxNodes>>]
  BY DEF ListAt, TopChain, Kids, HeadOf
<1>3. \A p \in Ptr : ListAt(p)' = L[p]
  BY <1>1, <1>2 DEF ChainsRight
<1> QED BY <1>3 DEF Listing

\* The walks touch no list.
LEMMA FrameLists ==
  ASSUME TreeInv, TreeInv', Listing, UNCHANGED <<ids, links, node>>
  PROVE  Listing' /\ \A p \in Ptr : ListAt(p)' = ListAt(p)
<1> DEFINE L == [p \in Ptr |-> ListAt(p)]
<1>1. Hooked' = Hooked /\ parent' = parent
  BY Frame DEF TreeInv
<1>2. next' = next /\ child' = child /\ d_head' = d_head
  BY DEF links, kidLists, topList
<1>3. \A p : HeadOf(p)' = HeadOf(p) /\ ChildrenOf(p)' = ChildrenOf(p)
  BY <1>1, <1>2 DEF HeadOf, ChildrenOf
<1>4. \A p \in Ptr : L[p] = ListAt(p)
  OBVIOUS
<1> HIDE DEF L
<1>5. \A p \in Ptr : Spells(next', HeadOf(p)', L[p], ChildrenOf(p)')
  BY <1>2, <1>3, <1>4 DEF Listing
<1>6. VariableTypes'
  BY DEF TreeInv, TypeOK
<1> QED BY <1>4, <1>5, <1>6, Relisted

\* A new node brings an empty list.
LEMMA StartLists ==
  ASSUME TreeInv, TreeInv', Listing, NEW i, NEW w, node = 0, Count < MaxNodes, StartRecord(i, w)
  PROVE  Listing' /\ \A p \in Ptr : ListAt(p)' = ListAt(p)
<1> DEFINE L == [p \in Ptr |-> ListAt(p)]
<1>1. Hooked' = Hooked /\ parent' = parent
  BY StartFacts
<1>2. next' = next /\ child' = child /\ d_head' = d_head
  BY DEF StartRecord, links, kidLists, topList
<1>3. \A p : HeadOf(p)' = HeadOf(p) /\ ChildrenOf(p)' = ChildrenOf(p)
  BY <1>1, <1>2 DEF HeadOf, ChildrenOf
<1>4. \A p \in Ptr : L[p] = ListAt(p)
  OBVIOUS
<1> HIDE DEF L
<1>5. \A p \in Ptr : Spells(next', HeadOf(p)', L[p], ChildrenOf(p)')
  BY <1>2, <1>3, <1>4 DEF Listing
<1>6. VariableTypes'
  BY DEF TreeInv, TypeOK
<1> QED BY <1>4, <1>5, <1>6, Relisted

\* The recorded node is put at the end of a list.
LEMMA HookLists ==
  ASSUME TreeInv, TreeInv', Listing, node # 0, NEW p \in Hooked \cup {0}, HookAt(p)
  PROVE  /\ Listing'
         /\ ListAt(p)' = Append(ListAt(p), node)
         /\ \A q \in Ptr \ {p} : ListAt(q)' = ListAt(q)
<1> PICK n, t, S : n = node /\ t = TailOf(p) /\ S = ChildrenOf(p)
  OBVIOUS
<1> DEFINE L == [q \in Ptr |-> IF q = p THEN Append(ListAt(p), n) ELSE ListAt(q)]
<1>1. /\ Hooked' = Hooked \cup {n} /\ n \in Allocated /\ n \notin Hooked /\ parent[n] = 0 /\ parent'[n] = p
      /\ \A m \in Nodes \ {n} : parent'[m] = parent[m]
  BY HookFacts
<1>2. /\ Allocated \subseteq Nodes /\ 0 \notin Allocated /\ 0 \notin Nodes /\ Hooked \subseteq Allocated
      /\ \A q : ChildrenOf(q) \subseteq Hooked
  BY AllocatedNodes, NodesNat DEF TreeInv
<1>3. n \in Nodes /\ p \in Allocated \cup {0} /\ p \in Ptr /\ (p # 0 => p \in Nodes) /\ p # n
  BY <1>1, <1>2, NodesNat
<1>4. ListIn(next, prev, HeadOf(p), t, S)
  BY <1>3 DEF TreeInv, Pointers, Lists
<1>5. t \in S \cup {0} /\ t # n /\ (t = 0 <=> S = {}) /\ (t # 0 => t \in S /\ next[t] = 0)
  BY <1>1, <1>2, <1>4 DEF ListIn
<1>6. next \in [Nodes -> Ptr] /\ n \in Ptr /\ 0 \in Ptr /\ t \in Ptr
  <2>1. t \in Ptr
    BY <1>2, <1>5, NodesNat
  <2> QED BY <1>3, <2>1, NodesNat DEF TreeInv, TypeOK, VariableTypes
<1>7. next'[n] = 0 /\ \A m \in Nodes \ {n} : next'[m] = IF m = t THEN n ELSE next[m]
  <2>1. next' = [Put(next, t, n) EXCEPT ![n] = 0]
    BY DEF HookAt
  <2>2. CASE t = 0
    BY <1>2, <1>3, <1>6, <2>1, <2>2 DEF Put
  <2>3. CASE t # 0
    <3>1. t \in Nodes
      BY <1>2, <1>5, <2>3
    <3> QED BY <1>3, <1>6, <2>1, <2>3, <3>1 DEF Put
  <2> QED BY <2>2, <2>3
<1>8. ChildrenOf(p)' = S \cup {n} /\ \A q : q # p => ChildrenOf(q)' = ChildrenOf(q)
  BY <1>1, <1>2 DEF ChildrenOf
<1>9. HeadOf(p)' = OrElse(HeadOf(p), n) /\ \A q \in Ptr : q # p => HeadOf(q)' = HeadOf(q)
  <2>1. child \in [Nodes -> Ptr]
    BY DEF TreeInv, TypeOK, VariableTypes
  <2>2. CASE p = 0
    BY <2>2 DEF HookAt, HeadOf
  <2>3. CASE p # 0
    <3>1. d_head' = d_head /\ child' = [child EXCEPT ![p] = OrElse(@, n)]
      BY <2>3 DEF HookAt
    <3>2. child'[p] = OrElse(child[p], n) /\ \A q \in Nodes : q # p => child'[q] = child[q]
      BY <1>3, <2>1, <2>3, <3>1
    <3>3. \A q \in Ptr : q = 0 \/ q \in Nodes
      BY NodesNat
    <3> QED BY <2>3, <3>1, <3>2, <3>3 DEF HeadOf
  <2> QED BY <2>2, <2>3
<1>10. L[p] = Append(ListAt(p), n) /\ \A q \in Ptr : q # p => L[q] = ListAt(q)
  BY <1>3
<1> HIDE DEF L
<1>11. Spells(next', HeadOf(p)', L[p], ChildrenOf(p)')
  <2>1. Spells(next, HeadOf(p), ListAt(p), S)
    BY <1>3 DEF Listing
  <2>2. \A m \in S : next'[m] = IF m = t THEN n ELSE next[m]
    BY <1>1, <1>2, <1>7
  <2>3. n \notin S /\ next'[n] = 0
    BY <1>1, <1>2, <1>7
  <2>4. Spells(next', OrElse(HeadOf(p), n), Append(ListAt(p), n), S \cup {n})
    BY <1>3, <1>5, <2>1, <2>2, <2>3, SpellsAppend
  <2> QED BY <1>8, <1>9, <1>10, <2>4
<1>12. \A q \in Ptr : q # p => Spells(next', HeadOf(q)', L[q], ChildrenOf(q)')
  <2> TAKE q \in Ptr
  <2> HAVE q # p
  <2>1. \A m \in ChildrenOf(q) : m \in Nodes /\ m # n /\ m # t
    BY <1>1, <1>2, <1>5 DEF ChildrenOf
  <2>2. \A m \in ChildrenOf(q) : next'[m] = next[m]
    BY <1>7, <2>1
  <2>3. Spells(next, HeadOf(q), ListAt(q), ChildrenOf(q))
    BY DEF Listing
  <2>4. Spells(next', HeadOf(q), ListAt(q), ChildrenOf(q))
    BY <2>2, <2>3, SpellsFrame
  <2> QED BY <1>8, <1>9, <1>10, <2>4
<1>13. Listing' /\ \A q \in Ptr : ListAt(q)' = L[q]
  <2>1. VariableTypes'
    BY DEF TreeInv, TypeOK
  <2> QED BY <1>11, <1>12, <2>1, Relisted
<1> QED BY <1>3, <1>10, <1>13

\* An orphan leaves the top level and is put at the end of the list of its parent.
LEMMA AdoptLists ==
  ASSUME TreeInv, TreeInv', Listing, AdoptOrphan,
         NEW x \in 1 .. Len(ListAt(0)), ListAt(0)[x] = cur
  PROVE  /\ Listing'
         /\ ListAt(0)' = RemoveAt(ListAt(0), x)
         /\ \A q \in Ptr : q = node => ListAt(q)' = Append(ListAt(q), cur)
         /\ \A q \in Ptr : q # 0 /\ q # node => ListAt(q)' = ListAt(q)
<1>0. PICK c, n, nn, pp, t, S, T, r :
      /\ c = cur /\ n = node /\ nn = next[cur] /\ pp = prev[cur] /\ t = child_tail[node]
      /\ S = ChildrenOf(0) /\ T = ChildrenOf(node) /\ r = RemoveAt(ListAt(0), x)
  OBVIOUS
<1> DEFINE L == [q \in Ptr |-> IF q = 0 THEN r ELSE IF q = n THEN Append(ListAt(n), c) ELSE ListAt(q)]
<1>1. /\ Hooked' = Hooked /\ n \in Allocated /\ parent[n] = 0 /\ n # c
      /\ c \in S /\ c \in Hooked /\ c # 0 /\ parent[c] = 0 /\ parent'[c] = n
      /\ \A m \in Nodes \ {c} : parent'[m] = parent[m]
  BY <1>0, AdoptFacts
<1>2. /\ Allocated \subseteq Nodes /\ 0 \notin Allocated /\ 0 \notin Nodes /\ Hooked \subseteq Allocated
      /\ \A q : ChildrenOf(q) \subseteq Hooked
  BY AllocatedNodes, NodesNat DEF TreeInv
<1>3. /\ n \in Nodes /\ n \in Ptr /\ n # 0 /\ c \in Nodes /\ c \in Ptr /\ 0 \in Ptr
      /\ \A q \in Ptr : q = 0 \/ q \in Nodes
  BY <1>1, <1>2, NodesNat
<1>4. ListIn(next, prev, HeadOf(0), TailOf(0), S) /\ ListIn(next, prev, HeadOf(n), t, T)
  <2>1. \A q \in Allocated \cup {0} : ListIn(next, prev, HeadOf(q), TailOf(q), ChildrenOf(q))
    BY DEF TreeInv, Pointers, Lists
  <2>2. TailOf(n) = t
    BY <1>0, <1>3 DEF TailOf
  <2> QED BY <1>0, <1>1, <2>1, <2>2
<1>5. /\ nn \in S \cup {0} /\ pp \in S \cup {0} /\ nn # c /\ pp # c
      /\ pp = 0 => c = HeadOf(0)
      /\ pp # 0 => pp \in S /\ next[pp] = c
  <2>1. Ends(next, Hooked) /\ {c} \in SUBSET Hooked /\ {c} # {}
    BY <1>1 DEF TreeInv, Pointers, Acyclic
  <2>2. nn # c
    BY <1>0, <2>1 DEF Ends
  <2>3. /\ nn # 0 => nn \in S /\ prev[nn] = c
        /\ pp # 0 => pp \in S /\ next[pp] = c
        /\ pp = 0 => c = HeadOf(0)
    BY <1>0, <1>1, <1>4 DEF ListIn
  <2>4. pp # c
    BY <1>0, <1>1, <2>2, <2>3
  <2> QED BY <2>2, <2>3, <2>4
<1>6. /\ c \notin T /\ \A m \in T : m \notin S
      /\ t = 0 <=> T = {}
      /\ t # 0 => t \in T /\ next[t] = 0
      /\ t # c /\ (pp # 0 => pp # t)
  <2>1. c \notin T /\ \A m \in T : m \notin S
    BY <1>0, <1>1, <1>3 DEF ChildrenOf
  <2>2. (t = 0 <=> T = {}) /\ (t # 0 => t \in T /\ next[t] = 0)
    BY <1>4 DEF ListIn
  <2> QED BY <1>1, <1>5, <2>1, <2>2
<1>7. next \in [Nodes -> Ptr] /\ nn \in Ptr /\ pp \in Ptr /\ t \in Ptr
  BY <1>0, <1>2, <1>5, <1>6, NodesNat DEF TreeInv, TypeOK, VariableTypes
<1>8. /\ next'[c] = 0
      /\ \A m \in Nodes \ {c} : next'[m] = IF m = pp THEN nn ELSE IF m = t THEN c ELSE next[m]
  <2> DEFINE f == Put(next, t, c)
             g == [f EXCEPT ![c] = 0]
  <2>1. f \in [Nodes -> Ptr] /\ \A m \in Nodes : f[m] = IF m = t THEN c ELSE next[m]
    BY <1>2, <1>3, <1>7 DEF Put
  <2>2. /\ g \in [Nodes -> Ptr] /\ g[c] = 0
        /\ \A m \in Nodes \ {c} : g[m] = IF m = t THEN c ELSE next[m]
    <3> HIDE DEF f
    <3> QED BY <1>3, <2>1
  <2>3. next' = Put(g, pp, nn)
    BY <1>0 DEF AdoptOrphan, AdoptStep
  <2> HIDE DEF g
  <2> QED BY <1>2, <1>3, <1>5, <1>7, <2>2, <2>3 DEF Put
<1>9. /\ ChildrenOf(0)' = S \ {c} /\ ChildrenOf(n)' = T \cup {c}
      /\ \A q : q # 0 /\ q # n => ChildrenOf(q)' = ChildrenOf(q)
  BY <1>0, <1>1, <1>2, <1>3 DEF ChildrenOf
<1>10. /\ HeadOf(0)' = (IF pp = 0 THEN nn ELSE HeadOf(0))
       /\ HeadOf(n)' = OrElse(HeadOf(n), c)
       /\ \A q \in Ptr : q # 0 /\ q # n => HeadOf(q)' = HeadOf(q)
  <2>1. d_head' = (IF pp = 0 THEN nn ELSE d_head) /\ child' = [child EXCEPT ![n] = OrElse(@, c)]
    BY <1>0 DEF AdoptOrphan, AdoptStep, AddToParent
  <2>2. child'[n] = OrElse(child[n], c) /\ \A q \in Nodes : q # n => child'[q] = child[q]
    BY <1>3, <2>1 DEF TreeInv, TypeOK, VariableTypes
  <2> QED BY <1>3, <2>1, <2>2 DEF HeadOf
<1>11. L[0] = r /\ L[n] = Append(ListAt(n), c) /\ \A q \in Ptr : q # 0 /\ q # n => L[q] = ListAt(q)
  BY <1>3
<1> HIDE DEF L
<1>12. Spells(next', HeadOf(0)', L[0], ChildrenOf(0)')
  <2>1. PICK s, k : s = ListAt(0) /\ k = Len(s)
    OBVIOUS
  <2>2. Spells(next, HeadOf(0), s, S)
    BY <1>0, <1>3, <2>1 DEF Listing
  <2>3. k \in Nat /\ x \in 1 .. k /\ c = s[x] /\ r = RemoveAt(s, x)
    BY <1>0, <2>1, <2>2 DEF Spells, Runs
  <2>4. \A m \in S \ {c} : next'[m] = IF m = pp THEN nn ELSE next[m]
    BY <1>0, <1>2, <1>6, <1>8
  <2>5. Leaves(next, HeadOf(0), s, S, x, pp, next', HeadOf(0)')
    <3>1. /\ pp = 0 => s[x] = HeadOf(0)
          /\ pp # 0 => pp \in S /\ next[pp] = s[x]
      BY <1>5, <2>3
    <3>2. \A m \in S \ {s[x]} : next'[m] = IF m = pp THEN next[s[x]] ELSE next[m]
      BY <1>0, <2>3, <2>4
    <3>3. HeadOf(0)' = IF pp = 0 THEN next[s[x]] ELSE HeadOf(0)
      BY <1>0, <1>10, <2>3
    <3> QED BY <2>1, <2>2, <2>3, <3>1, <3>2, <3>3 DEF Leaves
  <2>6. Spells(next', HeadOf(0)', RemoveAt(s, x), S \ {s[x]})
    BY <2>5, SpellsLeave
  <2> QED BY <1>9, <1>11, <2>3, <2>6
<1>13. Spells(next', HeadOf(n)', L[n], ChildrenOf(n)')
  <2>1. Spells(next, HeadOf(n), ListAt(n), T)
    BY <1>0, <1>3 DEF Listing
  <2>2. \A m \in T : next'[m] = IF m = t THEN c ELSE next[m]
    BY <1>0, <1>2, <1>5, <1>6, <1>8
  <2>3. Spells(next', OrElse(HeadOf(n), c), Append(ListAt(n), c), T \cup {c})
    BY <1>3, <1>6, <1>8, <2>1, <2>2, SpellsAppend
  <2> QED BY <1>9, <1>10, <1>11, <2>3
<1>14. \A q \in Ptr : q # 0 /\ q # n => Spells(next', HeadOf(q)', L[q], ChildrenOf(q)')
  <2> TAKE q \in Ptr
  <2> HAVE q # 0 /\ q # n
  <2>1. \A m \in ChildrenOf(q) : m \in Nodes /\ m \notin S /\ m \notin T
    BY <1>0, <1>2 DEF ChildrenOf
  <2>2. \A m \in ChildrenOf(q) : next'[m] = next[m]
    BY <1>1, <1>2, <1>5, <1>6, <1>8, <2>1
  <2>3. Spells(next, HeadOf(q), ListAt(q), ChildrenOf(q))
    BY DEF Listing
  <2>4. Spells(next', HeadOf(q), ListAt(q), ChildrenOf(q))
    BY <2>2, <2>3, SpellsFrame
  <2> QED BY <1>9, <1>10, <1>11, <2>4
<1>15. Listing' /\ \A q \in Ptr : ListAt(q)' = L[q]
  <2>1. VariableTypes'
    BY DEF TreeInv, TypeOK
  <2>2. \A q \in Ptr : Spells(next', HeadOf(q)', L[q], ChildrenOf(q)')
    BY <1>12, <1>13, <1>14
  <2> QED BY <2>1, <2>2, Relisted
<1>16. ListAt(0)' = r /\ ListAt(n)' = Append(ListAt(n), c)
  BY <1>3, <1>11, <1>15
<1>17. \A q \in Ptr : q # 0 /\ q # n => ListAt(q)' = ListAt(q)
  BY <1>11, <1>15
<1> QED BY <1>0, <1>15, <1>16, <1>17

-----------------------------------------------------------------------------
\* The search for the top of folders looks for an id the message store may name.
Asked == pc \in {"search", "climb"} /\ caller = "top" => goal \in TopIds
ForestInv == OrderInv /\ Listing /\ Asked

\* The empty tree.
LEMMA InitForest == Init => ForestInv /\ Forest!Init
<1> SUFFICES ASSUME Init PROVE ForestInv /\ Forest!Init
  OBVIOUS
<1>1. OrderInv
  BY InitOrder
<1>2. Count = 0 /\ Hooked = {} /\ \A p : ChildrenOf(p) = {}
  <2>1. Len(d_id) = 0 /\ 1 .. 0 = {}
    BY DEF Init
  <2> QED BY <2>1 DEF Count, Allocated, Hooked, ChildrenOf
<1>3. ChainsRight
  BY <1>1, ChainSpelled DEF OrderInv, TreeInv, TypeOK
<1>4. \A p \in Ptr : HeadOf(p) = 0
  BY NodesNat DEF Init, HeadOf
<1>5. Spells(next, 0, <<>>, {})
  <2>1. <<>> \in Seq(Nodes) /\ Len(<<>>) = 0 /\ 1 .. 0 = {}
    OBVIOUS
  <2> QED BY <2>1 DEF Spells, Runs, Distinct, ToSet
<1>6. \A p \in Ptr : ListAt(p) = <<>>
  <2>1. Chain[<<0, MaxNodes>>] = <<>>
    BY <1>3, <1>5 DEF ChainsRight
  <2>2. \A p : ListAt(p) = Chain[<<HeadOf(p), MaxNodes>>]
    BY DEF ListAt, TopChain, Kids, HeadOf
  <2> QED BY <1>4, <2>1, <2>2
<1>7. Listing
  BY <1>2, <1>4, <1>5, <1>6 DEF Listing
<1>8. TopChain = <<>> /\ [n \in Nodes |-> Kids(n)] = [n \in Nodes |-> <<>>]
  BY <1>6, NodesNat DEF ListAt
<1>9. Forest!Init
  BY <1>8 DEF Init, Forest!Init, Forest!Nodes, Nodes
<1>10. Asked
  BY DEF Init, Asked
<1> QED BY <1>1, <1>7, <1>9, <1>10 DEF ForestInv

\* The members of the lists of the forest are the children of the tree.
LEMMA Members ==
  ASSUME ForestInv, NEW p \in Ptr
  PROVE  /\ ListAt(p) \in Seq(Nodes) /\ Distinct(ListAt(p))
         /\ \A n : n \in ChildrenOf(p) <=> \E i \in 1 .. Len(ListAt(p)) : ListAt(p)[i] = n
<1>1. Spells(next, HeadOf(p), ListAt(p), ChildrenOf(p))
  BY DEF ForestInv, Listing
<1> QED BY <1>1 DEF Spells, Runs, ToSet

\* Below in the forest is below in the tree.
LEMMA BelowMeans == ForestInv => \A m, n : Forest!Below(m, n) <=> IsBelow(m, n)
<1> SUFFICES ASSUME ForestInv PROVE \A m, n : Forest!Below(m, n) <=> IsBelow(m, n)
  OBVIOUS
<1>0. TreeInv
  BY DEF ForestInv, OrderInv
<1>1. Forest!Count = Count /\ 1 .. Forest!Count = Allocated
  BY DEF Forest!Count, Count, Allocated
<1>2. /\ Hooked \subseteq Allocated /\ Allocated \subseteq Nodes /\ 0 \notin Allocated /\ Nodes \subseteq Ptr
      /\ Hooked = Allocated \ {node} /\ (node # 0 => parent[node] = 0)
      /\ \A n \in Allocated : parent[n] \in Allocated \cup {0}
  BY <1>0, HookedSets, NodesNat DEF Hooked, TreeInv, Pointers, Placed
<1>3. \A p \in Allocated : Forest!ToSet([n \in Nodes |-> Kids(n)][p]) = ChildrenOf(p)
  <2> TAKE p \in Allocated
  <2>1. [n \in Nodes |-> Kids(n)][p] = ListAt(p) /\ p \in Ptr
    BY <1>2 DEF ListAt
  <2>2. \A n : n \in ChildrenOf(p) <=> \E i \in DOMAIN ListAt(p) : ListAt(p)[i] = n
    BY <2>1, Members
  <2> QED BY <2>1, <2>2 DEF Forest!ToSet
<1>4. \A A \in SUBSET Allocated : Forest!Closed(A) <=> Rooted(A)
  <2> TAKE A \in SUBSET Allocated
  <2>1. Forest!Closed(A) <=> \A p \in Allocated : A \cap ChildrenOf(p) # {} => p \in A
    BY <1>1, <1>3 DEF Forest!Closed
  <2>2. ASSUME \A p \in Allocated : A \cap ChildrenOf(p) # {} => p \in A PROVE Rooted(A)
    <3> SUFFICES ASSUME NEW n \in A, parent[n] # 0 PROVE parent[n] \in A
      BY DEF Rooted
    <3>1. n \in Hooked /\ parent[n] \in Allocated
      BY <1>2
    <3>2. n \in ChildrenOf(parent[n])
      BY <3>1 DEF ChildrenOf
    <3> QED BY <2>2, <3>1, <3>2
  <2>3. ASSUME Rooted(A) PROVE \A p \in Allocated : A \cap ChildrenOf(p) # {} => p \in A
    BY <1>2, <2>3 DEF Rooted, ChildrenOf
  <2> QED BY <2>1, <2>2, <2>3
<1> QED BY <1>1, <1>4 DEF Forest!Below, IsBelow

\* What of the tree the forest sees: everything but the node that is recorded
\* and those below it.
LEMMA WithIdMeans ==
  ForestInv => \A i, n : n \in Forest!WithId(i) <=> n \in Allocated /\ d_id[n] = i /\ ~ IsBelow(n, node)
<1> SUFFICES ASSUME ForestInv
             PROVE  \A i, n : n \in Forest!WithId(i) <=> n \in Allocated /\ d_id[n] = i /\ ~ IsBelow(n, node)
  OBVIOUS
<1>1. 1 .. Forest!Count = Allocated
  BY DEF Forest!Count, Count, Allocated
<1>2. \A m, n : Forest!Below(m, n) <=> IsBelow(m, n)
  BY BelowMeans
<1> QED BY <1>1, <1>2 DEF Forest!WithId

\* A node is not below the recorded node if it hangs on the top level.
LEMMA Hanging ==
  ASSUME TreeInv, NEW n \in Allocated
  PROVE  ~ IsBelow(n, node) <=> \E A \in SUBSET Hooked : n \in A /\ Rooted(A)
<1>1. Hooked = Allocated \ {node}
  BY DEF Hooked
<1> QED BY <1>1 DEF IsBelow

\* When pst_getDptr ends without a result, the forest has no node with the id.
LEMMA NoneFound == ASSUME ForestInv, pc = "search", cur = 0 PROVE Forest!WithId(goal) = {}
<1>1. TreeInv /\ Grounded /\ WalkOnce
  BY DEF ForestInv, OrderInv
<1>2. ASSUME NEW n, n \in Forest!WithId(goal) PROVE FALSE
  <2>1. n \in Allocated /\ d_id[n] = goal /\ ~ IsBelow(n, node)
    BY <1>2, WithIdMeans
  <2>2. PICK A \in SUBSET Hooked : n \in A /\ Rooted(A)
    BY <1>1, <2>1, Hanging
  <2>3. n \in seen /\ \A m \in seen : d_id[m] # goal
    BY <1>1, <2>2, AllSeen
  <2> QED BY <2>1, <2>3
<1> QED BY <1>2

\* The way down to the place of a walk has one node in each list it crosses, and
\* the walk is below all of them.
LEMMA OnTheWay ==
  ASSUME TreeInv, Grounded, NEW P \in SUBSET Hooked, WayDown(P), cur # 0
  PROVE  /\ \A q \in (P \ {cur}) \cup {0} : \E c \in P : parent[c] = q
         /\ \A c \in P : IsBelow(cur, c)
<1> DEFINE Q == (P \ {cur}) \cup {0}
           f == [n \in P |-> parent[n]]
<1>1. P \in SUBSET Allocated /\ 0 \notin P /\ IsFiniteSet(P) /\ cur \in P /\ cur \in Allocated
  BY HookedSets DEF WayDown
<1>2. /\ \A n \in P : parent[n] \in Q
      /\ \A m, n \in P : parent[m] = parent[n] => m = n
  BY DEF WayDown
<1>3. IsFiniteSet(Q) /\ Cardinality(Q) = Cardinality(P)
  <2>1. IsFiniteSet(P \ {cur}) /\ Cardinality(P \ {cur}) = Cardinality(P) - 1
    BY <1>1, FS_RemoveElement
  <2>2. 0 \notin P \ {cur} /\ Cardinality(P) \in Nat
    BY <1>1, FS_CardinalityType
  <2>3. IsFiniteSet(Q) /\ Cardinality(Q) = Cardinality(P \ {cur}) + 1
    BY <2>1, <2>2, FS_AddElement
  <2> QED BY <2>1, <2>2, <2>3
<1>4. f \in Injection(P, Q)
  <2>1. f \in [P -> Q]
    BY <1>2
  <2>2. \A m, n \in P : f[m] = f[n] => m = n
    BY <1>2
  <2> QED BY <2>1, <2>2 DEF Injection, IsInjective
<1>5. f \in Surjection(P, Q)
  <2> HIDE DEF f, Q
  <2> QED BY <1>1, <1>3, <1>4, FS_Injection
<1>6. \A q \in Q : \E c \in P : parent[c] = q
  BY <1>5 DEF Surjection
<1>7. ASSUME NEW c \in P, ~ IsBelow(cur, c) PROVE FALSE
  <2> DEFINE Z == {n \in P : ~ IsBelow(cur, n)}
             g == [z \in Z |-> CHOOSE n \in P : parent[n] = z]
  <2>1. \A n \in P : parent[n] \in P /\ IsBelow(cur, n) => IsBelow(cur, parent[n])
    BY <1>1 DEF IsBelow, Rooted
  <2>2. \A z \in Z : z \in P /\ z # cur /\ z # 0
    BY <1>1 DEF IsBelow
  <2>3. \A z \in Z : g[z] \in P /\ parent[g[z]] = z
    <3> TAKE z \in Z
    <3>1. \E n \in P : parent[n] = z
      BY <1>6, <2>2
    <3> QED BY <3>1
  <2>4. \A z \in Z : g[z] \in Z
    BY <2>1, <2>2, <2>3
  <2>5. g \in Injection(Z, Z)
    <3>1. g \in [Z -> Z]
      BY <2>4
    <3>2. \A y, z \in Z : g[y] = g[z] => y = z
      <4> HIDE DEF g
      <4> QED BY <2>3
    <3> QED BY <3>1, <3>2 DEF Injection, IsInjective
  <2>6. IsFiniteSet(Z) /\ Z \in SUBSET Allocated /\ c \in Z
    <3>1. Z \in SUBSET Allocated /\ c \in Z
      BY <1>1, <1>7
    <3> QED BY <3>1, HookedSets
  <2>7. g \in Surjection(Z, Z)
    <3> HIDE DEF g, Z
    <3> QED BY <2>5, <2>6, FS_Injection, FS_CardinalityType
  <2>8. \A n \in Z : parent[n] \in Z
    <3> TAKE n \in Z
    <3>1. PICK z \in Z : g[z] = n
      BY <2>7 DEF Surjection
    <3> QED BY <2>3, <3>1
  <2> QED
    <3> HIDE DEF g, Z
    <3> QED BY <2>6, <2>8 DEF Grounded, Ends
<1> QED BY <1>6, <1>7

\* A list leads from each node to the one after it, and back.
LEMMA Successors ==
  ASSUME ForestInv, NEW q \in Ptr, NEW i \in 1 .. Len(ListAt(q)), i < Len(ListAt(q))
  PROVE  /\ i + 1 \in 1 .. Len(ListAt(q)) /\ ListAt(q)[i] \in Hooked
         /\ next[ListAt(q)[i]] = ListAt(q)[i + 1] /\ prev[ListAt(q)[i + 1]] = ListAt(q)[i]
         /\ ListAt(q)[i + 1] # 0
<1> PICK s : s = ListAt(q)
  OBVIOUS
<1>1. TreeInv
  BY DEF ForestInv, OrderInv
<1>2. s \in Seq(Nodes) /\ i \in 1 .. Len(s) /\ i < Len(s) /\ next[s[i]] = s[i + 1]
  BY DEF ForestInv, Listing, Spells, Runs
<1>3. i + 1 \in 1 .. Len(s) /\ s[i + 1] \in Nodes
  BY <1>2
<1>4. s[i] \in Hooked
  BY <1>2, Members DEF ChildrenOf
<1>5. s[i + 1] # 0
  BY <1>3, NodesNat
<1> QED BY <1>1, <1>2, <1>3, <1>4, <1>5, Neighbours

\* In a list, the way down comes before a node that was not compared.
LEMMA Earlier ==
  ASSUME ForestInv, NEW P \in SUBSET Hooked, WayDown(P), Visited(P), pc = "search", cur # 0,
         NEW q \in Ptr, NEW c \in P, NEW a, parent[c] = q, a \in ChildrenOf(q), a \notin P \cup seen
  PROVE  \E x, y \in 1 .. Len(ListAt(q)) : x < y /\ ListAt(q)[x] = c /\ ListAt(q)[y] = a
<1> PICK s : s = ListAt(q)
  OBVIOUS
<1>1. TreeInv /\ Grounded
  BY DEF ForestInv, OrderInv
<1>2. s \in Seq(Nodes) /\ \A n : n \in ChildrenOf(q) <=> \E i \in 1 .. Len(s) : s[i] = n
  BY Members
<1>3. c \in ChildrenOf(q)
  BY DEF ChildrenOf
<1>4. PICK x \in 1 .. Len(s) : s[x] = c
  BY <1>2, <1>3
<1>5. PICK y \in 1 .. Len(s) : s[y] = a
  BY <1>2
<1>6. /\ \A n \in seen : prev[n] \in seen \cup {0}
      /\ prev[c] \in seen \cup {0}
  BY DEF Visited, Here
<1>7. ASSUME NEW i0 \in 1 .. Len(s), i0 < x, s[i0] \notin seen PROVE FALSE
  <2> DEFINE B == {n \in Hooked : n \notin seen /\ \E i \in 1 .. Len(s) : i < x /\ s[i] = n}
  <2>1. B \in SUBSET Hooked /\ B # {}
    <3>1. s[i0] \in Hooked
      BY <1>2 DEF ChildrenOf
    <3> QED BY <1>7, <3>1
  <2>2. PICK b \in B : next[b] \notin B
    <3> HIDE DEF B
    <3> QED BY <1>1, <2>1 DEF TreeInv, Pointers, Acyclic, Ends
  <2>3. PICK i \in 1 .. Len(s) : i < x /\ s[i] = b
    OBVIOUS
  <2>4. i < Len(s) /\ (i + 1 = x \/ i + 1 < x)
    BY <1>2, <2>3
  <2>5. i + 1 \in 1 .. Len(s) /\ next[b] = s[i + 1] /\ prev[s[i + 1]] = b /\ s[i + 1] # 0 /\ s[i + 1] \in Hooked
    <3>1. i + 1 \in 1 .. Len(s) /\ next[b] = s[i + 1] /\ prev[s[i + 1]] = b /\ s[i + 1] # 0
      BY <2>3, <2>4, Successors
    <3>2. s[i + 1] \in Hooked
      BY <1>2, <3>1 DEF ChildrenOf
    <3> QED BY <3>1, <3>2
  <2>6. b \notin seen /\ b # 0
    BY <1>1, HookedSets
  <2>7. i + 1 # x
    BY <1>4, <1>6, <2>5, <2>6
  <2>8. s[i + 1] \in seen
    BY <2>2, <2>4, <2>5, <2>7
  <2> QED BY <1>6, <2>5, <2>6, <2>8
<1>8. ~(y < x)
  BY <1>5, <1>7
<1>9. x # y
  BY <1>4, <1>5
<1>10. x < y
  BY <1>2, <1>8, <1>9
<1> QED BY <1>4, <1>5, <1>10

\* Whoever was not compared hangs, maybe through others that were not, on the
\* top level or on a node of the way down.
LEMMA FirstUnseen ==
  ASSUME TreeInv, Grounded, NEW P \in SUBSET Hooked, WayDown(P), Visited(P), pc = "search", cur # 0,
         NEW m \in Allocated, m \notin seen, ~ IsBelow(m, node)
  PROVE  \E a \in Hooked : /\ IsBelow(m, a) /\ a \notin seen /\ parent[a] \in (P \ {cur}) \cup {0}
<1> DEFINE U == {a \in Allocated : a \notin seen /\ IsBelow(m, a)}
<1>1. U \in SUBSET Allocated /\ m \in U
  BY BelowFacts
<1>2. PICK a \in U : parent[a] \notin U
  <2> HIDE DEF U
  <2> QED BY <1>1 DEF Grounded, Ends
<1>3. a \in Allocated /\ a \notin seen /\ IsBelow(m, a) /\ a \in Hooked
  BY DEF Hooked
<1>4. PICK q : q = parent[a]
  OBVIOUS
<1>5. q # 0 => IsBelow(m, q) /\ q \in Allocated
  <2> SUFFICES ASSUME q # 0 PROVE IsBelow(m, q) /\ q \in Allocated
    OBVIOUS
  <2>1. q \in Allocated
    BY <1>3, <1>4 DEF TreeInv, Pointers, Placed
  <2>2. \A A \in SUBSET Allocated : a \in A /\ Rooted(A) => q \in A
    BY <1>4 DEF Rooted
  <2> QED BY <1>3, <2>1, <2>2 DEF IsBelow
<1>6. q # 0 => q \in seen
  BY <1>2, <1>4, <1>5
<1>7. cur \notin seen /\ cur \in P /\ cur \in Hooked
  BY DEF Visited, Here, WayDown
<1>8. q \in P \cup {0}
  <2> SUFFICES ASSUME q \notin P \cup {0} PROVE FALSE
    OBVIOUS
  <2> DEFINE C == {n \in Hooked : n \notin seen /\ parent[n] = q}
  <2>1. C \in SUBSET Hooked /\ a \in C
    BY <1>3, <1>4
  <2>2. PICK n \in C : prev[n] \notin C
    <3> HIDE DEF C
    <3> QED BY <2>1, NoPrevCircle DEF Ends
  <2>3. n \in Hooked /\ n \notin seen /\ parent[n] = q /\ n # 0
    BY HookedSets
  <2>4. n # cur
    BY <1>7, <2>3 DEF WayDown
  <2>5. CASE prev[n] = 0
    <3>1. n = child[q]
      BY <2>3, <2>5, Neighbours DEF HeadOf
    <3> QED BY <1>6, <2>3, <2>4, <3>1 DEF Visited, Here
  <2>6. CASE prev[n] # 0
    <3>1. prev[n] \in Hooked /\ parent[prev[n]] = q /\ next[prev[n]] = n
      BY <2>3, <2>6, Neighbours
    <3>2. prev[n] \in seen /\ prev[n] \notin P
      BY <2>2, <3>1 DEF WayDown
    <3> QED BY <2>3, <2>4, <3>1, <3>2 DEF Visited, Here
  <2> QED BY <2>5, <2>6
<1> QED BY <1>3, <1>4, <1>6, <1>7, <1>8

\* pst_getDptr finds the first node, in preorder, with the id.
LEMMA FirstFound == ASSUME ForestInv, pc = "search", Found PROVE Forest!FirstWithId(goal, cur) /\ cur \in Nodes
<1>1. TreeInv /\ Grounded /\ WalkOnce /\ cur # 0 /\ d_id[cur] = goal
  BY DEF ForestInv, OrderInv, Found
<1>2. PICK P \in SUBSET Hooked : WayDown(P) /\ Visited(P)
  BY <1>1 DEF WalkOnce
<1>3. cur \in P /\ cur \in Hooked /\ cur \in Allocated /\ cur \in Nodes
  BY <1>1, <1>2, HookedSets DEF WayDown
<1>4. cur \in Forest!WithId(goal)
  <2>1. PICK A \in SUBSET Hooked : cur \in A \cup {0} /\ Rooted(A)
    BY <1>1 DEF TreeInv, Walks
  <2>2. ~ IsBelow(cur, node)
    BY <1>1, <1>3, <2>1, Hanging
  <2> QED BY <1>1, <1>3, <2>2, WithIdMeans
<1>5. ASSUME NEW m \in Forest!WithId(goal) PROVE Forest!Before(cur, m)
  <2>1. m \in Allocated /\ d_id[m] = goal /\ ~ IsBelow(m, node)
    BY WithIdMeans
  <2>2. CASE IsBelow(m, cur)
    BY <2>2, BelowMeans DEF Forest!Before
  <2>3. CASE ~ IsBelow(m, cur)
    <3>1. m \notin seen
      BY <1>2, <2>1 DEF Visited
    <3>2. PICK a \in Hooked : IsBelow(m, a) /\ a \notin seen /\ parent[a] \in (P \ {cur}) \cup {0}
      BY <1>1, <1>2, <2>1, <3>1, FirstUnseen
    <3>3. PICK q : q = parent[a]
      OBVIOUS
    <3>4. PICK c \in P : parent[c] = q
      BY <1>1, <1>2, <3>2, <3>3, OnTheWay
    <3>5. IsBelow(cur, c)
      BY <1>1, <1>2, OnTheWay
    <3>6. a \in ChildrenOf(q) /\ q \in Ptr /\ (q # 0 => q \in Allocated)
      <4>1. q \in Hooked \cup {0}
        BY <3>2, <3>3
      <4> QED BY <1>1, <3>3, <4>1, HookedSets, NodesNat DEF ChildrenOf
    <3>7. a \notin P
      <4>1. a # cur
        BY <2>3, <3>2
      <4> QED BY <1>2, <3>2, <4>1 DEF Visited, Here
    <3>8. PICK x, y \in 1 .. Len(ListAt(q)) : x < y /\ ListAt(q)[x] = c /\ ListAt(q)[y] = a
      BY <1>1, <1>2, <3>2, <3>4, <3>6, <3>7, Earlier
    <3>9. \E s \in {TopChain} \cup {[n \in Nodes |-> Kids(n)][p] : p \in 1 .. Forest!Count} :
            \E i, j \in DOMAIN s : i < j /\ Forest!Below(cur, s[i]) /\ Forest!Below(m, s[j])
      <4>1. ListAt(q) \in {TopChain} \cup {[n \in Nodes |-> Kids(n)][p] : p \in 1 .. Forest!Count}
        <5>1. 1 .. Forest!Count = Allocated
          BY DEF Forest!Count, Count, Allocated
        <5>2. CASE q = 0
          BY <5>2 DEF ListAt
        <5>3. CASE q # 0
          <6>1. q \in Allocated /\ q \in Nodes
            BY <1>1, <3>6, <5>3, HookedSets
          <6> QED BY <5>1, <5>3, <6>1 DEF ListAt
        <5> QED BY <5>2, <5>3
      <4>2. DOMAIN ListAt(q) = 1 .. Len(ListAt(q))
        BY <3>6, Members
      <4>3. Forest!Below(cur, ListAt(q)[x]) /\ Forest!Below(m, ListAt(q)[y])
        BY <3>2, <3>5, <3>8, BelowMeans
      <4> QED BY <3>8, <4>1, <4>2, <4>3
    <3> QED BY <3>9 DEF Forest!Before
  <2> QED BY <2>2, <2>3
<1> QED BY <1>3, <1>4, <1>5 DEF Forest!FirstWithId

\* The adoption loop comes to the first orphan that waits.
LEMMA FirstWaiting ==
  ASSUME ForestInv, pc = "adopt", NEW x \in 1 .. Len(ListAt(0)), ListAt(0)[x] = cur,
         NEW z \in 1 .. Len(ListAt(0)), z < x
  PROVE  parent_d_id[ListAt(0)[z]] # d_id[node]
<1>0. PICK s : s = ListAt(0)
  OBVIOUS
<1>1. TreeInv /\ 0 \in Ptr
  BY NodesNat DEF ForestInv, OrderInv
<1>2. PICK D \in SUBSET ChildrenOf(0) : Passed(D)
  BY DEF ForestInv, OrderInv, Settled
<1>3. /\ s \in Seq(Nodes) /\ Distinct(s) /\ x \in 1 .. Len(s) /\ s[x] = cur /\ cur # 0
      /\ \A n : n \in ChildrenOf(0) <=> \E i \in 1 .. Len(s) : s[i] = n
  <2>1. s \in Seq(Nodes) /\ s[x] \in Nodes /\ s[x] # 0
    BY <1>0, <1>1, Members, NodesNat
  <2> QED BY <1>0, <1>1, <2>1, Members
<1>4. d_head = s[1]
  <2>1. Spells(next, HeadOf(0), s, ChildrenOf(0))
    BY <1>0, <1>1 DEF ForestInv, Listing
  <2>2. s # <<>>
    BY <1>3
  <2> QED BY <2>1, <2>2 DEF Spells, Runs, HeadOf
<1>5. \A n \in D : parent_d_id[n] # d_id[node] /\ next[n] \in D \cup {cur, 0}
  BY <1>2 DEF Passed
<1>6. s[1] \in D \cup {cur, 0}
  BY <1>2, <1>4 DEF Passed
<1> DEFINE B == {n \in Hooked : n \notin D /\ \E i \in 1 .. Len(s) : i < x /\ s[i] = n}
<1>7. SUFFICES ASSUME B # {} PROVE FALSE
  <2>1. s[z] \in Hooked /\ z \in 1 .. Len(s)
    BY <1>0, <1>3 DEF ChildrenOf
  <2>2. s[z] \in D
    BY <1>7, <2>1
  <2> QED BY <1>0, <1>5, <2>2
<1>8. PICK n \in B : prev[n] \notin B
  <2>1. B \in SUBSET Hooked
    OBVIOUS
  <2> HIDE DEF B
  <2> QED BY <1>1, <1>7, <2>1, NoPrevCircle DEF Ends
<1>9. PICK i \in 1 .. Len(s) : i < x /\ s[i] = n
  OBVIOUS
<1>10. n \in Hooked /\ n \notin D /\ n # 0 /\ n # cur
  <2>1. n \in Hooked /\ n \notin D /\ n # 0
    BY <1>1, HookedSets
  <2>2. i # x
    BY <1>3, <1>9
  <2> QED BY <1>3, <1>9, <2>1, <2>2 DEF Distinct
<1>11. i # 1
  BY <1>6, <1>9, <1>10
<1>12. i - 1 \in 1 .. Len(s) /\ i - 1 < Len(s) /\ (i - 1) + 1 = i /\ i - 1 < x
  BY <1>3, <1>9, <1>11
<1>13. s[i - 1] \in Hooked /\ next[s[i - 1]] = n /\ prev[n] = s[i - 1]
  <2> PICK j : j = i - 1
    OBVIOUS
  <2>1. j \in 1 .. Len(s) /\ j < Len(s) /\ j + 1 = i
    BY <1>12
  <2>2. s[j] \in Hooked /\ next[s[j]] = s[j + 1] /\ prev[s[j + 1]] = s[j]
    BY <1>0, <1>1, <2>1, Successors
  <2> QED BY <1>9, <2>1, <2>2
<1>14. s[i - 1] \in D
  BY <1>8, <1>12, <1>13
<1> QED BY <1>5, <1>10, <1>13, <1>14

\* The mapped variables after a step.
LEMMA Mapped ==
  /\ \A n \in Nodes : ListAt(n) = Kids(n) /\ ListAt(n)' = Kids(n)'
  /\ ListAt(0) = TopChain /\ ListAt(0)' = TopChain'
  /\ Nodes \subseteq Ptr /\ 0 \in Ptr /\ Forest!Nodes = Nodes /\ Forest!Count = Count
BY NodesNat DEF ListAt, Forest!Nodes, Nodes, Forest!Count, Count

\* An adoption is an Adopt of the forest.
LEMMA AdoptRefines == ASSUME ForestInv, TreeInv', AdoptOrphan PROVE Listing' /\ Forest!Adopt
<1>1. TreeInv /\ Listing
  BY DEF ForestInv, OrderInv
<1>2. /\ d_id' = d_id /\ parent_d_id' = parent_d_id /\ node' = node /\ topnode' = topnode /\ pc = "adopt"
      /\ node \in Allocated /\ node # 0 /\ node \in Nodes /\ cur \in ChildrenOf(0)
      /\ parent_d_id[cur] = d_id[node]
  <2>1. topnode' = topnode /\ pc = "adopt"
    BY DEF AdoptOrphan, AdoptStep
  <2>2. node \in Allocated /\ Allocated \subseteq Nodes /\ 0 \notin Allocated
    BY <1>1, AdoptFacts, HookedSets
  <2> QED BY <1>1, <2>1, <2>2, AdoptFacts
<1>3. PICK x \in 1 .. Len(ListAt(0)) : ListAt(0)[x] = cur
  BY <1>2, NodesNat, Members
<1>4. /\ Listing'
      /\ ListAt(0)' = RemoveAt(ListAt(0), x)
      /\ \A q \in Ptr : q = node => ListAt(q)' = Append(ListAt(q), cur)
      /\ \A q \in Ptr : q # 0 /\ q # node => ListAt(q)' = ListAt(q)
  BY <1>1, <1>3, AdoptLists
<1>5. TopChain' = RemoveAt(TopChain, x)
  BY <1>4, Mapped
<1>6. [n \in Nodes |-> Kids(n)]' = [[n \in Nodes |-> Kids(n)] EXCEPT ![node] = Append(@, TopChain[x])]
  <2>1. \A n \in Nodes : Kids(n)' = IF n = node THEN Append(Kids(n), cur) ELSE Kids(n)
    BY <1>4, Mapped, NodesNat
  <2>2. TopChain[x] = cur
    BY <1>3, Mapped
  <2> QED BY <2>1, <2>2
<1>7. Forest!Waiting # {} /\ x = CHOOSE y \in Forest!Waiting : \A z \in Forest!Waiting : y <= z
  <2>1. \A y : y \in Forest!Waiting <=> y \in 1 .. Len(ListAt(0)) /\ parent_d_id[ListAt(0)[y]] = d_id[node]
    BY Mapped DEF Forest!Waiting
  <2>2. x \in Forest!Waiting
    BY <1>2, <1>3, <2>1
  <2>3. \A z \in Forest!Waiting : x <= z
    <3> TAKE z \in Forest!Waiting
    <3>1. z \in 1 .. Len(ListAt(0)) /\ parent_d_id[ListAt(0)[z]] = d_id[node]
      BY <2>1
    <3>2. ~(z < x)
      BY <1>2, <1>3, <3>1, FirstWaiting
    <3> QED BY <3>1, <3>2
  <2>4. \A y \in Forest!Waiting : y \in Int
    BY <2>1
  <2>5. \A y \in Forest!Waiting : (\A z \in Forest!Waiting : y <= z) => y = x
    <3> TAKE y \in Forest!Waiting
    <3> HAVE \A z \in Forest!Waiting : y <= z
    <3>1. y <= x /\ x <= y /\ x \in Int /\ y \in Int
      BY <2>2, <2>3, <2>4
    <3> QED BY <3>1
  <2> QED BY <2>2, <2>3, <2>5
<1>8. RemoveAt(TopChain, x) = Forest!RemoveAt(TopChain, x)
  BY DEF RemoveAt, Forest!RemoveAt
<1> QED BY <1>2, <1>4, <1>5, <1>6, <1>7, <1>8 DEF Forest!Adopt

\* The loop has taken in all who waited.
LEMMA NobodyWaits ==
  ASSUME ForestInv, (pc = "adopt" /\ cur = 0) \/ Searching
  PROVE  Forest!Waiting = {}
<1>1. \A n \in ChildrenOf(0) : parent_d_id[n] # d_id[node]
  BY AllPassed DEF ForestInv, OrderInv, Settled
<1>2. \A y \in Forest!Waiting : y \in 1 .. Len(ListAt(0)) /\ parent_d_id[ListAt(0)[y]] = d_id[node]
  BY Mapped DEF Forest!Waiting
<1>3. \A y \in 1 .. Len(ListAt(0)) : ListAt(0)[y] \in ChildrenOf(0)
  BY Members, NodesNat
<1> QED BY <1>1, <1>2, <1>3

\* The three places that hang the new node are the Place of the forest.
LEMMA PlaceRefines ==
  ASSUME ForestInv, TreeInv', HookTop \/ HookOrphan \/ HookUnder
  PROVE  Listing' /\ Forest!Place
<1>1. TreeInv /\ Listing /\ Settled
  BY DEF ForestInv, OrderInv
<1>2. node # 0
  BY <1>1, HookPlaces
<1>3. PICK p \in Hooked \cup {0} :
        /\ HookAt(p)
        /\ \/ p = 0 /\ pc = "adopt" /\ cur = 0 /\ parent_d_id[node] \in {0, d_id[node]}
           \/ p = 0 /\ pc = "search" /\ caller = "record" /\ cur = 0
           \/ p # 0 /\ p = cur /\ pc = "search" /\ caller = "record" /\ d_id[p] = goal
  BY <1>1, HookPlaces
<1>4. d_id' = d_id /\ parent_d_id' = parent_d_id /\ node' = 0 /\ topnode' = topnode
  BY <1>3 DEF HookAt, ids
<1>5. Forest!Waiting = {}
  BY <1>3, NobodyWaits DEF Searching
<1>6. pc = "search" => goal = parent_d_id[node] /\ goal \notin {0, d_id[node]}
  BY <1>1, <1>3 DEF Settled, Searching
<1>7. Listing' /\ ListAt(p)' = Append(ListAt(p), node) /\ \A q \in Ptr \ {p} : ListAt(q)' = ListAt(q)
  BY <1>1, <1>2, <1>3, HookLists
<1>8. CASE p = 0
  <2>1. TopChain' = Append(TopChain, node) /\ \A n \in Nodes : Kids(n)' = Kids(n)
    BY <1>7, <1>8, Mapped, NodesNat
  <2>2. [n \in Nodes |-> Kids(n)]' = [n \in Nodes |-> Kids(n)]
    BY <2>1
  <2>3. parent_d_id[node] \in {0, d_id[node]} \/ Forest!WithId(parent_d_id[node]) = {}
    BY <1>3, <1>6, <1>8, NoneFound
  <2> QED BY <1>2, <1>4, <1>5, <1>7, <2>1, <2>2, <2>3 DEF Forest!Place
<1>9. CASE p # 0
  <2>1. p \in Nodes /\ p \in Ptr /\ p = cur /\ pc = "search" /\ Found
    BY <1>1, <1>3, <1>9, HookedSets, NodesNat DEF Found
  <2>2. TopChain' = TopChain /\ \A n \in Nodes : Kids(n)' = IF n = p THEN Append(Kids(n), node) ELSE Kids(n)
    BY <1>7, <1>9, <2>1, Mapped
  <2>3. [n \in Nodes |-> Kids(n)]' = [[n \in Nodes |-> Kids(n)] EXCEPT ![p] = Append(@, node)]
    BY <2>1, <2>2
  <2>4. Forest!FirstWithId(parent_d_id[node], p)
    BY <1>6, <2>1, FirstFound
  <2>5. ~(parent_d_id[node] \in {0, d_id[node]} \/ Forest!WithId(parent_d_id[node]) = {})
    BY <1>6, <2>1, <2>4 DEF Forest!FirstWithId
  <2> QED BY <1>2, <1>4, <1>5, <1>7, <2>1, <2>2, <2>3, <2>4, <2>5, Mapped DEF Forest!Place
<1> QED BY <1>8, <1>9

\* A step that leaves the ids, the links and the node that is recorded changes
\* at most the top of the forest.
LEMMA WalkStutters ==
  ASSUME ForestInv, TreeInv', UNCHANGED <<ids, links, node>>
  PROVE  /\ Listing' /\ TopChain' = TopChain
         /\ [n \in Nodes |-> Kids(n)]' = [n \in Nodes |-> Kids(n)]
         /\ d_id' = d_id /\ parent_d_id' = parent_d_id /\ node' = node
<1>1. Listing' /\ \A p \in Ptr : ListAt(p)' = ListAt(p)
  BY FrameLists DEF ForestInv, OrderInv
<1>2. TopChain' = TopChain /\ \A n \in Nodes : Kids(n)' = Kids(n)
  BY <1>1, Mapped
<1> QED BY <1>1, <1>2 DEF ids

\* A new record has no children, and hangs nowhere yet.
LEMMA StartStutters ==
  ASSUME ForestInv, TreeInv', NEW i, NEW w, node = 0, Count < MaxNodes, StartRecord(i, w)
  PROVE  /\ Listing' /\ TopChain' = TopChain
         /\ [n \in Nodes |-> Kids(n)]' = [n \in Nodes |-> Kids(n)]
         /\ d_id' = Append(d_id, i) /\ parent_d_id' = Append(parent_d_id, w) /\ node' = Count + 1
<1>1. Listing' /\ \A p \in Ptr : ListAt(p)' = ListAt(p)
  BY StartLists DEF ForestInv, OrderInv
<1>2. TopChain' = TopChain /\ \A n \in Nodes : Kids(n)' = Kids(n)
  BY <1>1, Mapped
<1> QED BY <1>1, <1>2 DEF StartRecord

\* A step of the pointers is a step of the forest, or of nothing it shows.
LEMMA StepForest == ForestInv /\ [Next]_vars => ForestInv' /\ [Forest!Next]_(Forest!vars)
<1> SUFFICES ASSUME ForestInv, [Next]_vars PROVE ForestInv' /\ [Forest!Next]_(Forest!vars)
  OBVIOUS
<1>1. OrderInv /\ TreeInv /\ OrderInv' /\ TreeInv'
  BY StepOrder DEF ForestInv, OrderInv
<1>2. TypeOK /\ Forest!Count = Count
  BY <1>1, Mapped DEF TreeInv
<1>3. Asked /\ Listing
  BY DEF ForestInv
<1> SUFFICES Listing' /\ Asked' /\ [Forest!Next]_(Forest!vars)
  BY <1>1 DEF ForestInv
<1>4. ASSUME NEW i \in Ids, NEW w \in Wants, Load(i, w) PROVE Listing' /\ Asked' /\ Forest!Next
  <2>1. /\ node = 0 /\ topnode = 0 /\ Count < MaxNodes - 1 /\ StartRecord(i, w) /\ topnode' = topnode
        /\ pc' = "adopt"
    BY <1>2, <1>4 DEF Load, StartRecord, TypeOK
  <2>2. Count < MaxNodes
    <3>1. Count \in Nat
      BY <1>2, AllocatedNodes DEF TypeOK
    <3> QED BY <2>1, <3>1, NodesNat
  <2>3. Forest!Load(i, w)
    BY <1>1, <1>2, <2>1, <2>2, StartStutters DEF Forest!Load
  <2>4. Listing' /\ Asked'
    BY <1>1, <2>1, <2>2, StartStutters DEF Asked
  <2> QED BY <2>3, <2>4 DEF Forest!Next
<1>5. CASE InventTop
  <2>1. /\ node = 0 /\ StartRecord(goal, 0) /\ topnode' = Count + 1 /\ pc' = "adopt"
        /\ pc = "search" /\ caller = "top" /\ cur = 0
    BY <1>2, <1>5 DEF InventTop, StartRecord, TypeOK
  <2>2. topnode = 0 /\ Count < MaxNodes /\ goal \in TopIds
    BY <1>1, <1>3, <2>1 DEF TreeInv, Walks, Asked
  <2>3. Forest!InventTop(goal)
    BY <1>1, <1>2, <2>1, <2>2, StartStutters, NoneFound DEF Forest!InventTop
  <2>4. Listing' /\ Asked'
    BY <1>1, <2>1, <2>2, StartStutters DEF Asked
  <2> QED BY <2>2, <2>3, <2>4 DEF Forest!Next
<1>6. CASE TopFound
  <2>1. /\ node = 0 /\ topnode' = cur /\ pc' = "idle" /\ UNCHANGED <<ids, links, node>>
        /\ pc = "search" /\ caller = "top" /\ Found
    BY <1>2, <1>6 DEF TopFound, TypeOK
  <2>2. topnode = 0 /\ goal \in TopIds
    BY <1>1, <1>3, <2>1 DEF TreeInv, Walks, Asked
  <2>3. Forest!FindTop(goal)
    <3>1. Forest!FirstWithId(goal, cur) /\ cur \in Forest!Nodes
      BY <2>1, FirstFound, Mapped
    <3> QED BY <1>1, <2>1, <2>2, <3>1, WalkStutters DEF Forest!FindTop
  <2>4. Listing' /\ Asked'
    BY <1>1, <2>1, WalkStutters DEF Asked
  <2> QED BY <2>2, <2>3, <2>4 DEF Forest!Next
<1>7. CASE AdoptOrphan
  <2>1. Asked'
    BY <1>7 DEF AdoptOrphan, AdoptStep, Asked
  <2> QED BY <1>1, <1>7, <2>1, AdoptRefines DEF Forest!Next
<1>8. CASE HookTop \/ HookOrphan \/ HookUnder
  <2>1. Asked'
    BY <1>8 DEF HookTop, HookOrphan, HookUnder, Asked
  <2> QED BY <1>1, <1>8, <2>1, PlaceRefines DEF Forest!Next
<1>9. ASSUME UNCHANGED <<ids, links, node, topnode>> PROVE Listing' /\ UNCHANGED Forest!vars
  BY <1>1, <1>9, WalkStutters DEF Forest!vars
<1>10. ASSUME NEW t \in TopIds, LookForTop(t) PROVE Listing' /\ Asked' /\ UNCHANGED Forest!vars
  <2>1. Asked'
    BY <1>10 DEF LookForTop, StartSearch, Asked
  <2>2. UNCHANGED <<ids, links, node, topnode>>
    BY <1>10 DEF LookForTop
  <2> QED BY <1>9, <2>1, <2>2
<1>11. CASE StartWalk \/ LookForParent
  <2>1. Asked'
    BY <1>11 DEF StartWalk, LookForParent, StartSearch, Asked
  <2>2. UNCHANGED <<ids, links, node, topnode>>
    BY <1>11 DEF StartWalk, LookForParent
  <2> QED BY <1>9, <2>1, <2>2
<1>12. CASE PassOver \/ EndWalk
  <2>1. Asked'
    BY <1>12 DEF PassOver, EndWalk, Asked
  <2>2. UNCHANGED <<ids, links, node, topnode>>
    BY <1>12 DEF PassOver, EndWalk
  <2> QED BY <1>9, <2>1, <2>2
<1>13. CASE Down \/ Leaf \/ Up \/ Across
  <2>1. UNCHANGED <<ids, links, node, topnode>> /\ goal' = goal /\ caller' = caller /\ pc \in {"search", "climb"}
    BY <1>13 DEF Down, Leaf, Up, Across
  <2>2. Asked'
    BY <1>3, <2>1 DEF Asked
  <2> QED BY <1>9, <2>1, <2>2
<1>14. CASE UNCHANGED vars
  <2>1. UNCHANGED <<ids, links, node, topnode>> /\ goal' = goal /\ caller' = caller /\ pc' = pc
    BY <1>14 DEF vars, walk
  <2>2. Asked'
    BY <1>3, <2>1 DEF Asked
  <2> QED BY <1>9, <2>1, <2>2
<1> QED BY <1>4, <1>5, <1>6, <1>7, <1>8, <1>10, <1>11, <1>12, <1>13, <1>14 DEF Next, Step

\* The doubly linked lists, the adoption loop and pst_getDptr of libpst.c build
\* the ordered forest of DescForest: every record takes in the orphans that wait
\* for it in the order they came, and is put last under the first node, in
\* preorder, that carries its parent's id.
THEOREM TreeIsForest == Spec => ImplementsForest
<1>1. Init => ForestInv /\ Forest!Init
  BY InitForest
<1>2. ForestInv /\ [Next]_vars => ForestInv' /\ [Forest!Next]_(Forest!vars)
  BY StepForest
<1> QED BY <1>1, <1>2, PTL DEF Spec, ImplementsForest, Forest!Spec
=============================================================================
