---------------------------- MODULE ValueProofs ----------------------------
(***************************************************************************)
(* Safety of what a value goes through.  pst_parse_block, for every number *)
(* of sub-blocks, elements and objects: every buffer has exactly one       *)
(* owner, what the caller gets is as long as it says, and the rows of a    *)
(* table are where they belong.  Then extended attributes, the string      *)
(* buffers, compressed RTF and the iconv descriptors, each of which has    *)
(* state of its own.                                                       *)
(***************************************************************************)
EXTENDS PropertyBlock, XAttrib, Lzfu, StringBuffers, IconvTargets,
        FiniteSetTheorems, FunctionTheorems, SequenceTheorems, WellFoundedInduction, TLAPS

-----------------------------------------------------------------------------
(* The inductive invariant.                                                *)

Slot == [slot : {"null", "empty", "unknown", "known"}, data : Nat, size : Nat, type : ElementTypes]
ObjectType == [elements : Seq(Slot), count : Int, objects : Nat]
Pointer == [buf : Nat, need : BOOLEAN]
Buffer == Nat \ {0}

ShapeType == [kind : {"none", "bc", "7c"}, elements : Nat, objects : Nat, records : Nat, recSize : Nat]

Types ==
  /\ pc \in {"read", "header", "bc", "7c", "7c5", "object", "element", "returned", "done"}
  /\ heap \in SUBSET Buffer /\ IsFiniteSet(heap)
  /\ subs \in Seq(Nat)
  /\ ptr \in [1 .. 7 -> Pointer]
  /\ shape \in ShapeType
  /\ list \in Seq(ObjectType)
  /\ n \in Nat /\ x \in Nat

(* A heap h with the sub-blocks s, the pointers p and the list l.          *)
Cell(l, o, i) == l[o].elements[i].data

\* Whatever is allocated is owned.
Covered(h, s, p, l) ==
  \A b \in h : \/ \E i \in DOMAIN s : s[i] = b
               \/ \E j \in DOMAIN p : p[j].need /\ p[j].buf = b
               \/ \E o \in DOMAIN l : \E i \in DOMAIN l[o].elements : Cell(l, o, i) = b

\* Whatever is owned is allocated; a pointer that owns nothing points into a
\* sub-block or is NULL.
Allocated(h, s, p, l) ==
  /\ \A i \in DOMAIN s : s[i] \in h \cup {0}
  /\ \A j \in DOMAIN p : IF p[j].need THEN p[j].buf \in h
                         ELSE p[j].buf = 0 \/ \E i \in DOMAIN s : s[i] = p[j].buf
  /\ \A o \in DOMAIN l : \A i \in DOMAIN l[o].elements : Cell(l, o, i) \in h \cup {0}

\* No two owners have the same buffer: sub-blocks and elements,
DataApart(s, l) ==
  /\ \A i, j \in DOMAIN s : s[i] = s[j] /\ s[i] # 0 => i = j
  /\ \A o, q \in DOMAIN l : \A i \in DOMAIN l[o].elements, j \in DOMAIN l[q].elements :
       Cell(l, o, i) = Cell(l, q, j) /\ Cell(l, o, i) # 0 => o = q /\ i = j
  /\ \A i \in DOMAIN s, o \in DOMAIN l : \A k \in DOMAIN l[o].elements : s[i] # 0 => s[i] # Cell(l, o, k)

\* and pointers.
PointersApart(s, p, l) ==
  /\ \A i, j \in DOMAIN p : p[i].need /\ p[j].need /\ p[i].buf = p[j].buf => i = j
  /\ \A j \in DOMAIN p, i \in DOMAIN s : p[j].need => p[j].buf # s[i]
  /\ \A j \in DOMAIN p, o \in DOMAIN l : \A k \in DOMAIN l[o].elements : p[j].need => p[j].buf # Cell(l, o, k)

Distinct(s, p, l) == DataApart(s, l) /\ PointersApart(s, p, l)

Owned1(h, s, p, l) == Covered(h, s, p, l) /\ Allocated(h, s, p, l) /\ Distinct(s, p, l)

\* The elements an object counts.
GoodSlot(e) ==
  /\ e.slot \in {"unknown", "known"}
  /\ e.size # 0 => e.data # 0
  /\ e.slot = "known" => e.type # "none"

Complete(o, count) ==
  /\ o.objects = count /\ o.count <= Len(o.elements)
  /\ \A i \in 1 .. o.count : GoodSlot(o.elements[i])

\* The object under way has its first x - 1 slots filled, and the others have
\* no data.
Filling ==
  /\ list # <<>> /\ list[1].objects = shape.objects /\ Len(list[1].elements) = shape.elements
  /\ n <= shape.elements /\ x \in 1 .. n + 1
  /\ \A i \in 1 .. x - 1 : GoodSlot(list[1].elements[i])
  /\ \A i \in x .. shape.elements : list[1].elements[i].data = 0

Phase ==
  /\ pc = "read" => heap = {} /\ subs = <<>> /\ ptr = [j \in 1 .. 7 |-> NoPtr]
  /\ pc \in {"read", "header", "bc", "7c", "7c5"} => list = <<>>
  /\ pc \in {"7c", "7c5"} => shape.kind = "7c"
  /\ pc \in {"object", "element"} => Len(list) <= shape.objects /\ shape.kind \in {"bc", "7c"}
  /\ pc \in {"object", "returned"} => \A o \in DOMAIN list : Complete(list[o], shape.objects)
  /\ pc = "element" => Filling /\ \A o \in 2 .. Len(list) : Complete(list[o], shape.objects)
  /\ pc = "returned" => Len(list) = shape.objects
  /\ pc \in {"returned", "done"} => subs = <<>> /\ \A j \in 1 .. 7 : ~ptr[j].need
  /\ pc \in {"object", "element"} /\ shape.kind = "bc" => ptr[2].buf # 0
  /\ pc \in {"7c", "7c5", "object", "element"} /\ shape.kind = "7c" => ptr[3].buf # 0
  /\ pc = "done" => heap = {}

Inv == Types /\ Owned1(heap, subs, ptr, list) /\ Phase

-----------------------------------------------------------------------------
(* Buffers.                                                                *)

\* malloc gives a buffer that is not in use.
LEMMA NewIsFresh ==
  ASSUME NEW h \in SUBSET Buffer, IsFiniteSet(h)
  PROVE  New(h) \in Buffer /\ New(h) \notin h
<1> DEFINE m == Cardinality(h) + 1
<1>1. m \in Nat
  BY FS_CardinalityType
<1>2. IsFiniteSet(1 .. m) /\ Cardinality(1 .. m) = m
  BY <1>1, FS_Interval
<1>3. ~(1 .. m \subseteq h)
  <2>1. SUFFICES ASSUME 1 .. m \subseteq h PROVE FALSE
    OBVIOUS
  <2>2. Cardinality(1 .. m) <= Cardinality(h)
    BY <2>1, FS_Subset
  <2>3. QED
    BY <1>2, <2>2, FS_CardinalityType
<1>4. \E b \in 1 .. m : b \notin h
  BY <1>3
<1>5. QED
  BY <1>4 DEF New, Buffer

\* A function on 1 .. m is a sequence.
LEMMA ConstantSeq ==
  ASSUME NEW m \in Nat, NEW S, NEW e \in S
  PROVE  /\ [i \in 1 .. m |-> e] \in Seq(S)
         /\ Len([i \in 1 .. m |-> e]) = m
OBVIOUS

-----------------------------------------------------------------------------
(* What the steps are made of.                                             *)

\* A pointer gives back what it owned.
LEMMA ReleasePointer ==
  ASSUME NEW h \in SUBSET Buffer, NEW s \in Seq(Nat), NEW p \in [1 .. 7 -> Pointer],
         NEW l \in Seq(ObjectType), Owned1(h, s, p, l), NEW i \in 1 .. 7
  PROVE  LET rest == IF p[i].need THEN h \ {p[i].buf} ELSE h
         IN Owned1(rest, s, [p EXCEPT ![i] = NoPtr], l)
<1> DEFINE rest == IF p[i].need THEN h \ {p[i].buf} ELSE h
           q == [p EXCEPT ![i] = NoPtr]
<1>1. /\ q \in [1 .. 7 -> Pointer] /\ q[i] = NoPtr /\ ~q[i].need /\ q[i].buf = 0
      /\ \A j \in 1 .. 7 : j # i => q[j] = p[j]
      /\ DOMAIN p = 1 .. 7 /\ DOMAIN q = 1 .. 7
  BY DEF NoPtr, Pointer
<1>2. Distinct(s, q, l)
  BY <1>1 DEF Owned1, Distinct, PointersApart
<1>3. Covered(rest, s, q, l)
  BY <1>1 DEF Owned1, Covered
<1>4. Allocated(rest, s, q, l)
  <2>1. \A k \in DOMAIN s : s[k] \in rest \cup {0}
    BY <1>1 DEF Owned1, Allocated, Distinct, PointersApart
  <2>2. \A j \in 1 .. 7 : IF q[j].need THEN q[j].buf \in rest
                          ELSE q[j].buf = 0 \/ \E k \in DOMAIN s : s[k] = q[j].buf
    BY <1>1 DEF Owned1, Allocated, Distinct, PointersApart
  <2>3. \A o \in DOMAIN l : \A k \in DOMAIN l[o].elements : Cell(l, o, k) \in rest \cup {0}
    BY <1>1 DEF Owned1, Allocated, Distinct, PointersApart
  <2>4. QED
    BY <1>1, <2>1, <2>2, <2>3 DEF Allocated
<1>5. QED
  BY <1>2, <1>3, <1>4 DEF Owned1

\* A pointer that is NULL is set: into a sub-block, or to a new buffer.
LEMMA SetPointer ==
  ASSUME NEW h \in SUBSET Buffer, NEW s \in Seq(Nat), NEW p \in [1 .. 7 -> Pointer],
         NEW l \in Seq(ObjectType), Owned1(h, s, p, l), NEW i \in 1 .. 7, p[i] = NoPtr,
         NEW to \in Pointer, NEW g,
         \/ to.need /\ to.buf \notin h /\ to.buf # 0 /\ g = h \cup {to.buf}
         \/ ~to.need /\ g = h /\ (to.buf = 0 \/ \E k \in DOMAIN s : s[k] = to.buf)
  PROVE  Owned1(g, s, [p EXCEPT ![i] = to], l)
<1> DEFINE q == [p EXCEPT ![i] = to]
<1>1. /\ q \in [1 .. 7 -> Pointer] /\ q[i] = to /\ ~p[i].need
      /\ \A j \in 1 .. 7 : j # i => q[j] = p[j]
      /\ DOMAIN p = 1 .. 7 /\ DOMAIN q = 1 .. 7
  <2>1. ~p[i].need
    BY DEF NoPtr
  <2>2. q \in [1 .. 7 -> Pointer] /\ q[i] = to /\ \A j \in 1 .. 7 : j # i => q[j] = p[j]
    OBVIOUS
  <2> QED BY <2>1, <2>2
<1> HIDE DEF q
<1>2. PointersApart(s, q, l)
  <2>1. \A j, k \in 1 .. 7 : q[j].need /\ q[k].need /\ q[j].buf = q[k].buf => j = k
    <3>1. \A j, k \in 1 .. 7 : p[j].need /\ p[k].need /\ p[j].buf = p[k].buf => j = k
      BY <1>1 DEF Owned1, Distinct, PointersApart
    <3>2. \A j \in 1 .. 7 : p[j].need => p[j].buf \in h
      BY <1>1 DEF Owned1, Allocated
    <3>3. \A j \in 1 .. 7 : to.need /\ p[j].need => p[j].buf # to.buf
      BY <3>2
    <3> QED BY <1>1, <3>1, <3>3
  <2>2. \A j \in 1 .. 7, k \in DOMAIN s : q[j].need => q[j].buf # s[k]
    <3> SUFFICES ASSUME NEW j \in 1 .. 7, NEW k \in DOMAIN s, q[j].need PROVE q[j].buf # s[k]
      OBVIOUS
    <3>1. CASE j # i
      BY <3>1, <1>1 DEF Owned1, Distinct, PointersApart
    <3>2. CASE j = i
      <4>1. to.buf \notin h /\ to.buf # 0 /\ q[j].buf = to.buf
        BY <3>2, <1>1
      <4>2. s[k] \in h \cup {0}
        BY DEF Owned1, Allocated
      <4>3. QED
        BY <4>1, <4>2
    <3>3. QED
      BY <3>1, <3>2
  <2>3. \A j \in 1 .. 7, o \in DOMAIN l : \A k \in DOMAIN l[o].elements : q[j].need => q[j].buf # Cell(l, o, k)
    <3> SUFFICES ASSUME NEW j \in 1 .. 7, NEW o \in DOMAIN l, NEW k \in DOMAIN l[o].elements, q[j].need
                 PROVE  q[j].buf # Cell(l, o, k)
      OBVIOUS
    <3>1. CASE j # i
      BY <3>1, <1>1 DEF Owned1, Distinct, PointersApart
    <3>2. CASE j = i
      <4>1. to.buf \notin h /\ to.buf # 0 /\ q[j].buf = to.buf
        BY <3>2, <1>1
      <4>2. Cell(l, o, k) \in h \cup {0}
        BY DEF Owned1, Allocated
      <4>3. QED
        BY <4>1, <4>2
    <3>3. QED
      BY <3>1, <3>2
  <2>4. QED
    BY <1>1, <2>1, <2>2, <2>3 DEF PointersApart
<1>3. Covered(g, s, q, l)
  BY <1>1 DEF Owned1, Covered
<1>4. Allocated(g, s, q, l)
  BY <1>1 DEF Owned1, Allocated
<1>5. QED
  BY <1>2, <1>3, <1>4 DEF Owned1, Distinct, q

\* pst_getBlockOffsetPointer as a whole.
LEMMA GetPointerOwned ==
  ASSUME NEW h \in SUBSET Buffer, IsFiniteSet(h), subs \in Seq(Nat), NEW p \in [1 .. 7 -> Pointer],
         list \in Seq(ObjectType), Owned1(h, subs, p, list), NEW i \in 1 .. 7, p[i] = ptr[i],
         NEW got \in GetPointer(h, i)
  PROVE  /\ got.heap \in SUBSET Buffer /\ IsFiniteSet(got.heap)
         /\ got.to \in Pointer /\ (got.to = NoPtr \/ got.to.buf # 0)
         /\ Owned1(got.heap, subs, [p EXCEPT ![i] = got.to], list)
<1> DEFINE rest == IF p[i].need THEN h \ {p[i].buf} ELSE h
           q == [p EXCEPT ![i] = NoPtr]
<1>1. rest \in SUBSET Buffer /\ IsFiniteSet(rest)
  BY FS_RemoveElement
<1>2. Owned1(rest, subs, q, list)
  BY ReleasePointer
<1>3. q \in [1 .. 7 -> Pointer] /\ q[i] = NoPtr /\ [p EXCEPT ![i] = got.to] = [q EXCEPT ![i] = got.to]
  BY DEF NoPtr, Pointer
<1>4. got \in Pointers(rest)
  BY DEF GetPointer
<1> HIDE DEF rest, q
<1>5. CASE got = [heap |-> rest, to |-> NoPtr]
  <2>1. got.heap = rest /\ got.to = NoPtr /\ got.to \in Pointer /\ ~got.to.need /\ got.to.buf = 0
    BY <1>5 DEF NoPtr, Pointer
  <2>2. Owned1(got.heap, subs, [q EXCEPT ![i] = got.to], list)
    BY <1>1, <1>2, <1>3, <2>1, SetPointer
  <2>3. QED
    BY <1>1, <1>3, <2>1, <2>2
<1>6. CASE \E b \in Buffers(subs) : got = [heap |-> rest, to |-> [buf |-> b, need |-> FALSE]]
  <2>1. PICK b \in Buffers(subs) : got = [heap |-> rest, to |-> [buf |-> b, need |-> FALSE]]
    BY <1>6
  <2>2. b # 0 /\ b \in Nat /\ \E k \in DOMAIN subs : subs[k] = b
    BY DEF Buffers, ToSet
  <2>3. got.heap = rest /\ got.to = [buf |-> b, need |-> FALSE]
    BY <2>1
  <2>4. got.to \in Pointer /\ ~got.to.need /\ got.to.buf = b
    BY <2>2, <2>3 DEF Pointer
  <2>5. Owned1(got.heap, subs, [q EXCEPT ![i] = got.to], list)
    BY <1>1, <1>2, <1>3, <2>2, <2>3, <2>4, SetPointer
  <2>6. QED
    BY <1>1, <1>3, <2>2, <2>3, <2>4, <2>5
<1>7. CASE got = [heap |-> rest \cup {New(rest)}, to |-> [buf |-> New(rest), need |-> TRUE]]
  <2>1. New(rest) \in Buffer /\ New(rest) \notin rest
    BY <1>1, NewIsFresh
  <2>2. got.heap = rest \cup {New(rest)} /\ got.to = [buf |-> New(rest), need |-> TRUE]
    BY <1>7
  <2>3. got.to \in Pointer /\ got.to.need /\ got.to.buf = New(rest)
    BY <2>1, <2>2 DEF Pointer, Buffer
  <2>4. IsFiniteSet(got.heap)
    <3>1. IsFiniteSet(rest \cup {New(rest)})
      BY <1>1, FS_AddElement
    <3>2. QED
      BY <2>2, <3>1
  <2>5. got.heap \in SUBSET Buffer
    BY <1>1, <2>1, <2>2
  <2>6. New(rest) # 0
    BY <2>1 DEF Buffer
  <2>7. Owned1(got.heap, subs, [q EXCEPT ![i] = got.to], list)
    <3>1. got.to.buf \notin rest /\ got.to.buf # 0 /\ got.heap = rest \cup {got.to.buf}
      BY <2>1, <2>2, <2>3, <2>6
    <3>2. QED
      BY <1>1, <1>2, <1>3, <2>3, <3>1, SetPointer
  <2>8. QED
    BY <1>3, <2>3, <2>4, <2>5, <2>6, <2>7
<1>8. QED
  BY <1>4, <1>5, <1>6, <1>7 DEF Pointers

\* A slot without data is filled: with nothing, or with a new buffer.
LEMMA CellFilled ==
  ASSUME NEW h \in SUBSET Buffer, NEW s \in Seq(Nat), NEW p \in [1 .. 7 -> Pointer],
         NEW l, NEW m, Owned1(h, s, p, l), NEW k \in DOMAIN l[1].elements,
         1 \in DOMAIN l, Cell(l, 1, k) = 0, DOMAIN m = DOMAIN l,
         \A o \in DOMAIN l : DOMAIN m[o].elements = DOMAIN l[o].elements,
         \A o \in DOMAIN l : \A i \in DOMAIN l[o].elements : o # 1 \/ i # k => Cell(m, o, i) = Cell(l, o, i),
         NEW g,
         \/ Cell(m, 1, k) = 0 /\ g = h
         \/ Cell(m, 1, k) \notin h /\ Cell(m, 1, k) # 0 /\ g = h \cup {Cell(m, 1, k)}
  PROVE  Owned1(g, s, p, m)
<1> DEFINE d == Cell(m, 1, k)
<1>1. /\ \A i \in DOMAIN s : s[i] \in h \cup {0}
      /\ \A j \in DOMAIN p : p[j].need => p[j].buf \in h
      /\ \A o \in DOMAIN l : \A i \in DOMAIN l[o].elements : Cell(l, o, i) \in h \cup {0}
  BY DEF Owned1, Allocated
<1>2. /\ DOMAIN m = DOMAIN l
      /\ \A o \in DOMAIN l : DOMAIN m[o].elements = DOMAIN l[o].elements
      /\ \A o \in DOMAIN l : \A i \in DOMAIN l[o].elements :
           \/ o = 1 /\ i = k /\ Cell(m, o, i) = d
           \/ (o # 1 \/ i # k) /\ Cell(m, o, i) = Cell(l, o, i)
  OBVIOUS
<1>3. h \in SUBSET Buffer /\ 0 \notin h /\ (d = 0 \/ d \notin h)
  BY DEF Buffer
<1> HIDE DEF Cell
<1>4. Covered(g, s, p, m)
  <2> SUFFICES ASSUME NEW b \in g
               PROVE  \/ \E i \in DOMAIN s : s[i] = b
                      \/ \E j \in DOMAIN p : p[j].need /\ p[j].buf = b
                      \/ \E o \in DOMAIN m : \E i \in DOMAIN m[o].elements : Cell(m, o, i) = b
    BY DEF Covered
  <2>1. CASE b \in h
    BY <1>2, <1>3, <2>1, SMTT(30) DEF Owned1, Covered
  <2>2. CASE b \notin h
    <3>1. b = Cell(m, 1, k)
      BY <2>2
    <3>2. 1 \in DOMAIN m /\ k \in DOMAIN m[1].elements
      OBVIOUS
    <3>3. QED
      BY <3>1, <3>2
  <2>3. QED
    BY <2>1, <2>2
<1>5. Allocated(g, s, p, m)
  <2>1. h \subseteq g /\ d \in g \cup {0}
    OBVIOUS
  <2>2. \A o \in DOMAIN m : \A i \in DOMAIN m[o].elements : Cell(m, o, i) \in g \cup {0}
    <3> SUFFICES ASSUME NEW o \in DOMAIN m, NEW i \in DOMAIN m[o].elements
                 PROVE  Cell(m, o, i) \in g \cup {0}
      OBVIOUS
    <3>0. o \in DOMAIN l /\ i \in DOMAIN l[o].elements
      BY <1>2
    <3>1. Cell(l, o, i) \in h \cup {0}
      BY <1>1, <3>0
    <3>2. Cell(m, o, i) = d \/ Cell(m, o, i) = Cell(l, o, i)
      BY <1>2, <3>0
    <3> QED BY <2>1, <3>1, <3>2
  <2>3. \A j \in DOMAIN p : IF p[j].need THEN p[j].buf \in g
                            ELSE p[j].buf = 0 \/ \E i \in DOMAIN s : s[i] = p[j].buf
    BY <2>1 DEF Owned1, Allocated
  <2>4. \A i \in DOMAIN s : s[i] \in g \cup {0}
    BY <1>1, <2>1
  <2>5. QED
    BY <2>2, <2>3, <2>4 DEF Allocated
<1>6. DataApart(s, m)
  <2>1. \A o, q \in DOMAIN m : \A i \in DOMAIN m[o].elements, j \in DOMAIN m[q].elements :
          Cell(m, o, i) = Cell(m, q, j) /\ Cell(m, o, i) # 0 => o = q /\ i = j
    BY <1>1, <1>2, <1>3 DEF Owned1, Distinct, DataApart
  <2>2. \A i \in DOMAIN s, o \in DOMAIN m : \A j \in DOMAIN m[o].elements : s[i] # 0 => s[i] # Cell(m, o, j)
    <3> SUFFICES ASSUME NEW i \in DOMAIN s, NEW o \in DOMAIN m, NEW j \in DOMAIN m[o].elements, s[i] # 0
                 PROVE  s[i] # Cell(m, o, j)
      OBVIOUS
    <3>0. o \in DOMAIN l /\ j \in DOMAIN l[o].elements
      BY <1>2
    <3>1. s[i] \in h /\ s[i] # Cell(l, o, j)
      BY <1>1, <3>0 DEF Owned1, Distinct, DataApart
    <3>2. Cell(m, o, j) = d \/ Cell(m, o, j) = Cell(l, o, j)
      BY <1>2, <3>0
    <3>3. s[i] # d
      BY <1>3, <3>1
    <3> QED BY <3>1, <3>2, <3>3
  <2>3. QED
    BY <2>1, <2>2 DEF Owned1, Distinct, DataApart
<1>7. PointersApart(s, p, m)
  <2>1. \A j \in DOMAIN p, o \in DOMAIN m : \A i \in DOMAIN m[o].elements : p[j].need => p[j].buf # Cell(m, o, i)
    BY <1>1, <1>2, <1>3 DEF Owned1, Distinct, PointersApart
  <2>2. QED
    BY <2>1 DEF Owned1, Distinct, PointersApart
<1>8. QED
  BY <1>4, <1>5, <1>6, <1>7 DEF Owned1, Distinct

\* Lists with the same data in the same slots are owned alike.
LEMMA SameCells ==
  ASSUME NEW h, NEW s, NEW p, NEW l, NEW m, Owned1(h, s, p, l), DOMAIN m = DOMAIN l,
         \A o \in DOMAIN l : m[o].elements = l[o].elements
  PROVE  Owned1(h, s, p, m)
<1>1. Covered(h, s, p, m)
  BY DEF Owned1, Covered, Cell
<1>2. Allocated(h, s, p, m)
  BY DEF Owned1, Allocated, Cell
<1>3. Distinct(s, p, m)
  BY DEF Owned1, Distinct, DataApart, PointersApart, Cell
<1>4. QED
  BY <1>1, <1>2, <1>3 DEF Owned1

\* A new object has no data yet.
LEMMA ObjectAdded ==
  ASSUME NEW h \in SUBSET Buffer, NEW s, NEW p, NEW l \in Seq(ObjectType), Owned1(h, s, p, l), NEW e \in ObjectType,
         \A i \in DOMAIN e.elements : e.elements[i].data = 0
  PROVE  Owned1(h, s, p, <<e>> \o l)
<1> DEFINE m == <<e>> \o l
<1>1. /\ m \in Seq(ObjectType) /\ DOMAIN m = 1 .. Len(l) + 1 /\ DOMAIN l = 1 .. Len(l)
      /\ m[1] = e /\ \A o \in DOMAIN l : o + 1 \in DOMAIN m /\ m[o + 1] = l[o]
      /\ \A o \in DOMAIN m : o = 1 \/ (o - 1 \in DOMAIN l /\ m[o] = l[o - 1])
  OBVIOUS
<1>2. /\ \A i \in DOMAIN m[1].elements : Cell(m, 1, i) = 0
      /\ \A o \in DOMAIN l : m[o + 1].elements = l[o].elements /\ \A i \in DOMAIN l[o].elements : Cell(m, o + 1, i) = Cell(l, o, i)
      /\ \A o \in DOMAIN m : o # 1 => /\ m[o].elements = l[o - 1].elements
                                      /\ \A i \in DOMAIN m[o].elements : Cell(m, o, i) = Cell(l, o - 1, i)
  BY <1>1 DEF Cell
<1> HIDE DEF m
<1>3. Covered(h, s, p, m)
  BY <1>1, <1>2 DEF Owned1, Covered
<1>4. Allocated(h, s, p, m)
  BY <1>1, <1>2 DEF Owned1, Allocated
<1>5. DataApart(s, m)
  <2>1. \A o, q \in DOMAIN m : \A i \in DOMAIN m[o].elements, j \in DOMAIN m[q].elements :
          Cell(m, o, i) = Cell(m, q, j) /\ Cell(m, o, i) # 0 => o = q /\ i = j
    <3> SUFFICES ASSUME NEW o \in DOMAIN m, NEW q \in DOMAIN m, NEW i \in DOMAIN m[o].elements,
                        NEW j \in DOMAIN m[q].elements, Cell(m, o, i) = Cell(m, q, j), Cell(m, o, i) # 0
                 PROVE  o = q /\ i = j
      OBVIOUS
    <3>1. o # 1 /\ q # 1
      BY <1>2
    <3>2. o - 1 \in DOMAIN l /\ q - 1 \in DOMAIN l
      BY <1>1, <3>1
    <3>3. o - 1 = q - 1 /\ i = j
      BY <1>2, <3>1, <3>2 DEF Owned1, Distinct, DataApart
    <3>4. QED
      BY <1>1, <3>3
  <2>2. \A i \in DOMAIN s, o \in DOMAIN m : \A j \in DOMAIN m[o].elements : s[i] # 0 => s[i] # Cell(m, o, j)
    BY <1>1, <1>2 DEF Owned1, Distinct, DataApart
  <2>3. QED
    BY <2>1, <2>2 DEF Owned1, Distinct, DataApart
<1>6. PointersApart(s, p, m)
  <2>1. \A j \in DOMAIN p, o \in DOMAIN m : \A i \in DOMAIN m[o].elements : p[j].need => p[j].buf # Cell(m, o, i)
    <3> SUFFICES ASSUME NEW j \in DOMAIN p, NEW o \in DOMAIN m, NEW i \in DOMAIN m[o].elements, p[j].need
                 PROVE  p[j].buf # Cell(m, o, i)
      OBVIOUS
    <3>1. CASE o = 1
      <4>1. p[j].buf # 0
        BY DEF Owned1, Allocated, Buffer
      <4>2. QED
        BY <1>2, <3>1, <4>1
    <3>2. CASE o # 1
      BY <1>1, <1>2, <3>2 DEF Owned1, Distinct, PointersApart
    <3>3. QED
      BY <3>1, <3>2
  <2>2. QED
    BY <2>1 DEF Owned1, Distinct, PointersApart
<1>7. QED
  BY <1>3, <1>4, <1>5, <1>6 DEF Owned1, Distinct, m

-----------------------------------------------------------------------------
\* The initial state.
LEMMA InitInv == Init => Inv
<1> SUFFICES ASSUME Init PROVE Inv
  OBVIOUS
<1>1. Types
  BY FS_EmptySet DEF Init, Types, NoPtr, NoShape, Pointer, ShapeType
<1>2. Owned1(heap, subs, ptr, list)
  BY DEF Init, Owned1, Covered, Allocated, Distinct, DataApart, PointersApart, NoPtr
<1>3. Phase
  BY DEF Init, Phase, NoPtr, NoShape
<1>4. QED
  BY <1>1, <1>2, <1>3 DEF Inv

-----------------------------------------------------------------------------
(* Reading the block.                                                      *)

\* The first buffers: the sub-blocks that could be read.
LEMMA ReadInv ==
  ASSUME Inv, pc = "read", ReadFails \/ ReadSingle \/ ReadSubBlocks
  PROVE  Inv'
<1>1. /\ heap = {} /\ subs = <<>> /\ list = <<>> /\ ptr = [j \in 1 .. 7 |-> NoPtr]
      /\ UNCHANGED <<ptr, shape, list, n, x>>
  BY DEF Inv, Phase, ReadFails, ReadSingle, ReadSubBlocks
<1>2. CASE /\ heap' = {} /\ subs' = <<>> /\ pc' = "done"
  <2>1. Types'
    BY <1>1, <1>2, FS_EmptySet DEF Inv, Types
  <2>2. Owned1(heap', subs', ptr', list')
    BY <1>1, <1>2 DEF Owned1, Covered, Allocated, Distinct, DataApart, PointersApart, NoPtr
  <2>3. Phase'
    BY <1>1, <1>2 DEF Phase, NoPtr
  <2>4. QED
    BY <2>1, <2>2, <2>3 DEF Inv
<1>3. ASSUME NEW count \in Nat, NEW readable \in SUBSET (1 .. count), heap' = readable, pc' = "header",
             subs' = [i \in 1 .. count |-> IF i \in readable THEN i ELSE 0]
      PROVE  Inv'
  <2>1. heap' \in SUBSET Buffer /\ subs' \in Seq(Nat) /\ DOMAIN subs' = 1 .. count
    <3>1. heap' \in SUBSET Buffer
      BY <1>3 DEF Buffer
    <3>2. \A i \in 1 .. count : (IF i \in readable THEN i ELSE 0) \in Nat
      OBVIOUS
    <3>3. QED
      BY <1>3, <3>1, <3>2
  <2>2. IsFiniteSet(heap')
    <3>1. IsFiniteSet(1 .. count)
      BY FS_Interval
    <3>2. IsFiniteSet(readable)
      BY <3>1, FS_Subset
    <3>3. QED
      BY <1>3, <3>2
  <2>3. Types'
    BY <1>1, <1>3, <2>1, <2>2 DEF Inv, Types
  <2>4. Owned1(heap', subs', ptr', list')
    BY <1>1, <1>3, <2>1 DEF Owned1, Covered, Allocated, Distinct, DataApart, PointersApart, NoPtr
  <2>5. Phase'
    BY <1>1, <1>3 DEF Phase, NoPtr
  <2>6. QED
    BY <2>3, <2>4, <2>5 DEF Inv
<1>4. CASE ReadFails
  BY <1>1, <1>2, <1>4 DEF ReadFails
<1>5. CASE ReadSingle
  <2>1. heap' = {1} /\ subs' = [i \in 1 .. 1 |-> IF i \in {1} THEN i ELSE 0] /\ pc' = "header"
    BY <1>5 DEF ReadSingle
  <2>2. QED
    BY <1>3, <2>1
<1>6. CASE ReadSubBlocks
  <2>1. PICK count \in 0 .. MaxSubs : \E readable \in SUBSET (1 .. count) :
          LET bufs == [i \in 1 .. count |-> IF i \in readable THEN i ELSE 0]
          IN IF 1 \in readable
             THEN heap' = readable /\ subs' = bufs /\ pc' = "header"
             ELSE heap' = {} /\ subs' = <<>> /\ pc' = "done"
    BY <1>6 DEF ReadSubBlocks
  <2>2. count \in Nat
    BY BoundsAssumption
  <2>3. PICK readable \in SUBSET (1 .. count) :
          IF 1 \in readable
          THEN heap' = readable /\ subs' = [i \in 1 .. count |-> IF i \in readable THEN i ELSE 0] /\ pc' = "header"
          ELSE heap' = {} /\ subs' = <<>> /\ pc' = "done"
    BY <2>1
  <2>4. QED
    BY <1>2, <1>3, <2>2, <2>3
<1>7. QED
  BY <1>4, <1>5, <1>6

\* Refused, a block leaves nothing behind.
LEMMA RefusedInv ==
  ASSUME Inv, list = <<>>, Unparsed, shape' \in ShapeType,
         NEW h \in SUBSET Buffer, NEW p \in [1 .. 7 -> Pointer], Owned1(h, subs, p, list), Refuse(h, p)
  PROVE  Inv'
<1>1. heap' = {}
  <2> SUFFICES ASSUME NEW b \in h PROVE b \in Buffers(subs) \cup Owned(p)
    BY DEF Refuse, FreeAll
  <2>1. b # 0
    BY DEF Buffer
  <2>2. CASE \E i \in DOMAIN subs : subs[i] = b
    BY <2>1, <2>2 DEF Buffers, ToSet
  <2>3. CASE \E j \in DOMAIN p : p[j].need /\ p[j].buf = b
    BY <2>3 DEF Owned
  <2>4. QED
    BY <2>2, <2>3 DEF Owned1, Covered
<1>2. /\ subs' = <<>> /\ ptr' = [i \in 1 .. 7 |-> NoPtr] /\ pc' = "done" /\ list' = <<>>
      /\ n' = n /\ x' = x
  BY DEF Refuse, Unparsed
<1>3. Types'
  BY <1>1, <1>2, FS_EmptySet DEF Inv, Types, Pointer, NoPtr
<1>4. Owned1(heap', subs', ptr', list')
  BY <1>1, <1>2 DEF Owned1, Covered, Allocated, Distinct, DataApart, PointersApart, NoPtr
<1>5. Phase'
  BY <1>1, <1>2 DEF Phase, NoPtr
<1>6. QED
  BY <1>3, <1>4, <1>5 DEF Inv

\* A pointer is set, or the block is refused.
LEMMA FetchInv ==
  ASSUME Inv, list = <<>>, Unparsed, shape' \in ShapeType, NEW i \in 1 .. 7,
         NEW next \in {"bc", "7c", "7c5", "object"}, Fetch(i, next)
  PROVE  \/ Inv'
         \/ /\ Types' /\ Owned1(heap', subs', ptr', list')
            /\ pc' = next /\ list' = <<>> /\ ptr'[i].buf # 0
            /\ \A j \in 1 .. 7 : j # i => ptr'[j] = ptr[j]
<1>1. PICK got \in GetPointer(heap, i), ok \in BOOLEAN :
        LET p == [ptr EXCEPT ![i] = got.to]
        IN IF got.to = NoPtr \/ ~ok THEN Refuse(got.heap, p)
           ELSE heap' = got.heap /\ ptr' = p /\ pc' = next /\ UNCHANGED subs
  BY DEF Fetch
<1> DEFINE p == [ptr EXCEPT ![i] = got.to]
<1>2. /\ got.heap \in SUBSET Buffer /\ IsFiniteSet(got.heap)
      /\ got.to \in Pointer /\ (got.to = NoPtr \/ got.to.buf # 0)
      /\ Owned1(got.heap, subs, p, list)
  BY GetPointerOwned DEF Inv, Types
<1>3. p \in [1 .. 7 -> Pointer] /\ p[i] = got.to /\ \A j \in 1 .. 7 : j # i => p[j] = ptr[j]
  BY <1>2 DEF Inv, Types
<1> HIDE DEF p
<1>4. CASE Refuse(got.heap, p)
  BY <1>2, <1>3, <1>4, RefusedInv
<1>5. CASE got.to # NoPtr /\ heap' = got.heap /\ ptr' = p /\ pc' = next /\ UNCHANGED subs
  <2>1. Types'
    BY <1>2, <1>3, <1>5 DEF Inv, Types, Unparsed
  <2>2. Owned1(heap', subs', ptr', list')
    BY <1>2, <1>5 DEF Unparsed
  <2>3. QED
    BY <1>2, <1>3, <1>5, <2>1, <2>2 DEF Unparsed
<1>6. QED
  BY <1>1, <1>4, <1>5 DEF p

\* The actions that set one pointer.
LEMMA HeaderInv ==
  ASSUME Inv, UnknownType \/ BcHeader \/ BcList \/ SevenHeader \/ SevenFive
  PROVE  Inv'
<1>1. pc \in {"header", "bc", "7c"} /\ list = <<>> /\ Unparsed
  BY DEF Inv, Phase, UnknownType, BcHeader, BcList, SevenHeader, SevenFive
<1>2. CASE UnknownType
  <2>1. Refuse(heap, ptr) /\ shape' = shape
    BY <1>2 DEF UnknownType
  <2>2. QED
    BY <1>1, <2>1, RefusedInv DEF Inv, Types
<1>3. CASE BcHeader
  <2>1. Fetch(1, "bc") /\ shape' = shape /\ shape' \in ShapeType
    BY <1>3 DEF BcHeader, Inv, Types
  <2>2. \/ Inv'
        \/ Types' /\ Owned1(heap', subs', ptr', list') /\ pc' = "bc" /\ list' = <<>>
    BY <1>1, <2>1, FetchInv
  <2>3. QED
    BY <2>2 DEF Inv, Phase
<1>4. CASE BcList
  <2>1. Fetch(2, "object")
    BY <1>4 DEF BcList
  <2>2. PICK count \in 0 .. MaxElements :
          shape' = [kind |-> "bc", elements |-> count, objects |-> 1, records |-> count, recSize |-> 1]
    BY <1>4 DEF BcList
  <2>3. shape' \in ShapeType /\ shape'.kind = "bc" /\ shape'.objects = 1
    BY <2>2, BoundsAssumption DEF ShapeType
  <2>4. \/ Inv'
        \/ Types' /\ Owned1(heap', subs', ptr', list') /\ pc' = "object" /\ list' = <<>> /\ ptr'[2].buf # 0
    BY <1>1, <2>1, <2>3, FetchInv
  <2>5. QED
    BY <2>3, <2>4 DEF Inv, Phase
<1>5. CASE SevenHeader
  <2>1. Fetch(3, "7c")
    BY <1>5 DEF SevenHeader
  <2>2. \E count \in 0 .. MaxElements, size \in RowSizes : \E records \in 0 .. count :
          shape' = [kind |-> "7c", elements |-> count, objects |-> 0, records |-> records, recSize |-> size]
    BY <1>5 DEF SevenHeader
  <2>3. RowSizes \subseteq Nat /\ MaxElements \in Nat
    BY BoundsAssumption
  <2>4. shape' \in ShapeType /\ shape'.kind = "7c"
    BY <2>2, <2>3 DEF ShapeType
  <2>5. \/ Inv'
        \/ Types' /\ Owned1(heap', subs', ptr', list') /\ pc' = "7c" /\ list' = <<>> /\ ptr'[3].buf # 0
    BY <1>1, <2>1, <2>4, FetchInv
  <2>6. QED
    BY <2>4, <2>5 DEF Inv, Phase
<1>6. CASE SevenFive
  <2>1. /\ pc = "7c" /\ shape' = shape /\ shape.kind = "7c" /\ ptr[3].buf # 0
        /\ shape \in ShapeType
    BY <1>6 DEF SevenFive, Inv, Phase, Types
  <2>2. PICK next \in {"object", "7c5"} : Fetch(4, next)
    BY <1>6 DEF SevenFive
  <2>3. \/ Inv'
        \/ /\ Types' /\ Owned1(heap', subs', ptr', list') /\ pc' = next /\ list' = <<>>
           /\ \A j \in 1 .. 7 : j # 4 => ptr'[j] = ptr[j]
    BY <1>1, <2>1, <2>2, FetchInv
  <2>4. ASSUME Types' /\ Owned1(heap', subs', ptr', list') /\ pc' = next /\ list' = <<>>,
               \A j \in 1 .. 7 : j # 4 => ptr'[j] = ptr[j]
        PROVE  Inv'
    <3>1. ptr'[3] = ptr[3] /\ shape'.objects \in Nat
      BY <2>1, <2>4 DEF ShapeType
    <3>2. Phase'
      BY <2>1, <2>4, <3>1 DEF Phase
    <3>3. QED
      BY <2>4, <3>2 DEF Inv
  <2>5. QED
    BY <2>3, <2>4
<1>7. QED
  BY <1>2, <1>3, <1>4, <1>5, <1>6

\* The rows of a table: two pointers in one step.
LEMMA SevenRowsInv ==
  ASSUME Inv, SevenRows
  PROVE  Inv'
<1>1. /\ list = <<>> /\ Unparsed /\ shape.kind = "7c" /\ ptr[3].buf # 0 /\ shape \in ShapeType
      /\ heap \in SUBSET Buffer /\ IsFiniteSet(heap) /\ subs \in Seq(Nat)
      /\ ptr \in [1 .. 7 -> Pointer] /\ list \in Seq(ObjectType)
      /\ Owned1(heap, subs, ptr, list)
  BY DEF Inv, Phase, Types, SevenRows
<1>2. shape' \in ShapeType /\ shape'.kind = "7c" /\ shape'.objects \in Nat
  <2>1. PICK count \in 0 .. MaxObjects : shape' = [shape EXCEPT !.objects = count]
    BY DEF SevenRows
  <2>2. count \in Nat
    BY <2>1, BoundsAssumption
  <2>3. shape \in ShapeType /\ shape.kind = "7c"
    BY <1>1
  <2>4. QED
    BY ONLY <2>1, <2>2, <2>3 DEF ShapeType
<1>3. PICK five \in GetPointer(heap, 5) :
        LET p == [ptr EXCEPT ![5] = five.to]
        IN IF five.to = NoPtr THEN Refuse(five.heap, p)
           ELSE \E six \in GetPointer(five.heap, 6) :
                  IF six.to = NoPtr THEN Refuse(six.heap, [p EXCEPT ![6] = six.to])
                  ELSE /\ heap' = six.heap /\ ptr' = [p EXCEPT ![6] = six.to]
                       /\ pc' = "object" /\ UNCHANGED subs
  BY DEF SevenRows
<1> DEFINE p == [ptr EXCEPT ![5] = five.to]
<1>4. /\ five.heap \in SUBSET Buffer /\ IsFiniteSet(five.heap) /\ five.to \in Pointer
      /\ Owned1(five.heap, subs, p, list)
  <2>1. \A i \in 1 .. 7 : \A got \in GetPointer(heap, i) :
          /\ got.heap \in SUBSET Buffer /\ IsFiniteSet(got.heap) /\ got.to \in Pointer
          /\ Owned1(got.heap, subs, [ptr EXCEPT ![i] = got.to], list)
    BY <1>1, GetPointerOwned
  <2>2. QED
    BY <2>1
<1>5. p \in [1 .. 7 -> Pointer] /\ p[3] = ptr[3] /\ p[6] = ptr[6]
  BY <1>1, <1>4
<1>6. \/ Refuse(five.heap, p)
      \/ \E six \in GetPointer(five.heap, 6) :
           IF six.to = NoPtr THEN Refuse(six.heap, [p EXCEPT ![6] = six.to])
           ELSE /\ heap' = six.heap /\ ptr' = [p EXCEPT ![6] = six.to]
                /\ pc' = "object" /\ UNCHANGED subs
  BY <1>3
<1> HIDE DEF p
<1>7. CASE Refuse(five.heap, p)
  BY <1>1, <1>2, <1>4, <1>5, <1>7, RefusedInv
<1>8. ASSUME NEW six \in GetPointer(five.heap, 6),
             IF six.to = NoPtr THEN Refuse(six.heap, [p EXCEPT ![6] = six.to])
             ELSE /\ heap' = six.heap /\ ptr' = [p EXCEPT ![6] = six.to]
                  /\ pc' = "object" /\ UNCHANGED subs
      PROVE  Inv'
  <2> DEFINE q == [p EXCEPT ![6] = six.to]
  <2>1. /\ six.heap \in SUBSET Buffer /\ IsFiniteSet(six.heap) /\ six.to \in Pointer
        /\ Owned1(six.heap, subs, q, list)
    <3>1. \A i \in 1 .. 7 : p[i] = ptr[i] => \A got \in GetPointer(five.heap, i) :
            /\ got.heap \in SUBSET Buffer /\ IsFiniteSet(got.heap) /\ got.to \in Pointer
            /\ Owned1(got.heap, subs, [p EXCEPT ![i] = got.to], list)
      BY <1>1, <1>4, <1>5, GetPointerOwned
    <3>2. 6 \in 1 .. 7 /\ p[6] = ptr[6]
      BY <1>5
    <3>3. \A got \in GetPointer(five.heap, 6) :
            /\ got.heap \in SUBSET Buffer /\ IsFiniteSet(got.heap) /\ got.to \in Pointer
            /\ Owned1(got.heap, subs, [p EXCEPT ![6] = got.to], list)
      BY <3>1, <3>2
    <3>4. QED
      BY <3>3
  <2>2. q \in [1 .. 7 -> Pointer] /\ q[3] = ptr[3]
    BY <1>5, <2>1
  <2>3. CASE six.to = NoPtr
    <3>1. Refuse(six.heap, q)
      BY <1>8, <2>3
    <3>2. QED
      BY <1>1, <1>2, <2>1, <2>2, <3>1, RefusedInv
  <2>4. CASE six.to # NoPtr
    <3>1. heap' = six.heap /\ ptr' = q /\ pc' = "object" /\ subs' = subs
      BY <1>8, <2>4
    <3> HIDE DEF q
    <3>2. list' = <<>> /\ n' = n /\ x' = x
      BY <1>1 DEF Unparsed
    <3>3. Types'
      BY <1>1, <1>2, <2>1, <2>2, <3>1, <3>2 DEF Inv, Types
    <3>4. Owned1(heap', subs', ptr', list')
      BY <1>1, <2>1, <3>1, <3>2
    <3>5. Phase'
      BY <1>1, <1>2, <2>2, <3>1, <3>2 DEF Phase
    <3>6. QED
      BY <3>3, <3>4, <3>5 DEF Inv
  <2>5. QED
    BY <2>3, <2>4
<1>9. QED
  BY <1>6, <1>7, <1>8

-----------------------------------------------------------------------------
(* The objects and their elements.                                         *)

\* A new object becomes the first of the list.
LEMMA NewObjectInv ==
  ASSUME Inv, NewObject
  PROVE  Inv'
<1> DEFINE slots == [i \in 1 .. shape.elements |-> NoElement]
           e == [elements |-> slots, count |-> shape.elements, objects |-> shape.objects]
<1>1. /\ pc = "object" /\ Len(list) < shape.objects /\ pc' = "element" /\ list' = <<e>> \o list
      /\ n' = 0 /\ x' = 1 /\ UNCHANGED <<heap, subs, ptr, shape, row>>
  BY DEF NewObject
<1>2. /\ list \in Seq(ObjectType) /\ shape \in ShapeType /\ shape.elements \in Nat /\ shape.objects \in Nat
      /\ \A o \in DOMAIN list : Complete(list[o], shape.objects)
      /\ heap \in SUBSET Buffer /\ Owned1(heap, subs, ptr, list)
  BY <1>1 DEF Inv, Types, Phase, ShapeType
<1>3. /\ slots \in Seq(Slot) /\ Len(slots) = shape.elements /\ DOMAIN slots = 1 .. shape.elements
      /\ \A i \in 1 .. shape.elements : slots[i].data = 0
  <2>1. NoElement \in Slot /\ NoElement.data = 0
    BY DEF NoElement, Slot, ElementTypes
  <2>2. QED
    BY <1>2, <2>1, ConstantSeq
<1>4. /\ e \in ObjectType /\ e.elements = slots /\ e.objects = shape.objects
  BY <1>2, <1>3 DEF ObjectType
<1> HIDE DEF slots, e
<1>5. /\ list' \in Seq(ObjectType) /\ list' # <<>> /\ list'[1] = e /\ Len(list') = Len(list) + 1
      /\ \A o \in 2 .. Len(list') : o - 1 \in DOMAIN list /\ list'[o] = list[o - 1]
  BY <1>1, <1>2, <1>4
<1>6. Types'
  BY <1>1, <1>5 DEF Inv, Types
<1>7. Owned1(heap', subs', ptr', list')
  BY <1>1, <1>2, <1>3, <1>4, ObjectAdded
<1>8. Filling'
  BY <1>1, <1>2, <1>3, <1>4, <1>5, SMTT(30) DEF Filling
<1>9. \A o \in 2 .. Len(list') : Complete(list'[o], shape'.objects)
  BY <1>1, <1>2, <1>5 DEF Complete
<1>10. Phase'
  BY <1>1, <1>2, <1>5, <1>8, <1>9 DEF Inv, Phase
<1>11. QED
  BY <1>6, <1>7, <1>10 DEF Inv

\* What the object under way looks like while there is a record for it.
LEMMA SlotFree ==
  ASSUME Inv, HasRecord
  PROVE  /\ pc = "element" /\ list \in Seq(ObjectType) /\ list # <<>> /\ DOMAIN list = 1 .. Len(list)
         /\ 1 \in DOMAIN list /\ list[1] \in ObjectType /\ list[1].elements \in Seq(Slot)
         /\ DOMAIN list[1].elements = 1 .. shape.elements /\ shape.elements \in Nat
         /\ x \in DOMAIN list[1].elements /\ Cell(list, 1, x) = 0
         /\ Filling /\ n \in Nat /\ n < shape.elements /\ x \in Nat
         /\ \A o \in 2 .. Len(list) : Complete(list[o], shape.objects)
         /\ heap \in SUBSET Buffer /\ IsFiniteSet(heap) /\ subs \in Seq(Nat) /\ ptr \in [1 .. 7 -> Pointer]
         /\ Owned1(heap, subs, ptr, list)
<1>1. pc = "element" /\ n < shape.elements
  BY DEF HasRecord
<1>2. /\ list \in Seq(ObjectType) /\ n \in Nat /\ x \in Nat /\ shape.elements \in Nat /\ Filling
      /\ \A o \in 2 .. Len(list) : Complete(list[o], shape.objects)
      /\ heap \in SUBSET Buffer /\ IsFiniteSet(heap) /\ subs \in Seq(Nat) /\ ptr \in [1 .. 7 -> Pointer]
      /\ Owned1(heap, subs, ptr, list)
  BY <1>1 DEF Inv, Types, Phase, ShapeType
<1>3. list # <<>> /\ 1 \in DOMAIN list /\ list[1] \in ObjectType /\ DOMAIN list = 1 .. Len(list)
  BY <1>2 DEF Filling
<1>4. list[1].elements \in Seq(Slot) /\ DOMAIN list[1].elements = 1 .. shape.elements
  BY <1>2, <1>3 DEF ObjectType, Filling
<1>5. x \in 1 .. shape.elements /\ Cell(list, 1, x) = 0
  BY <1>1, <1>2 DEF Filling, Cell
<1>6. QED
  BY <1>1, <1>2, <1>3, <1>4, <1>5

\* A slot is written, and the loop moves on with or without it.
LEMMA WrittenInv ==
  ASSUME Inv, HasRecord, NEW h \in SUBSET Buffer, IsFiniteSet(h),
         NEW p \in [1 .. 7 -> Pointer], p[2] = ptr[2], p[3] = ptr[3], Owned1(h, subs, p, list),
         NEW element \in Slot, NEW object \in ObjectType, NEW next \in {x, x + 1},
         next = x => element.data = 0, next = x + 1 => GoodSlot(element),
         \/ element.data = 0 /\ heap' = h
         \/ element.data \notin h /\ element.data # 0 /\ heap' = h \cup {element.data},
         object.elements = [list[1].elements EXCEPT ![x] = element], object.objects = list[1].objects,
         list' = [list EXCEPT ![1] = object],
         ptr' = p, x' = next, n' = n + 1, UNCHANGED <<pc, subs, shape, row>>
  PROVE  Inv'
<1>1. /\ pc = "element" /\ list \in Seq(ObjectType) /\ list # <<>> /\ DOMAIN list = 1 .. Len(list)
      /\ 1 \in DOMAIN list /\ list[1] \in ObjectType /\ list[1].elements \in Seq(Slot)
      /\ DOMAIN list[1].elements = 1 .. shape.elements /\ shape.elements \in Nat
      /\ x \in DOMAIN list[1].elements /\ Cell(list, 1, x) = 0
      /\ Filling /\ n \in Nat /\ n < shape.elements /\ x \in Nat
      /\ \A o \in 2 .. Len(list) : Complete(list[o], shape.objects)
      /\ subs \in Seq(Nat)
  BY SlotFree
<1> DEFINE elements == object.elements
<1>2. /\ elements \in Seq(Slot) /\ DOMAIN elements = 1 .. shape.elements /\ Len(elements) = shape.elements
      /\ elements[x] = element /\ \A i \in 1 .. shape.elements : i # x => elements[i] = list[1].elements[i]
  BY <1>1
<1> HIDE DEF elements
<1>5. object.elements = elements
  BY DEF elements
<1>6. /\ list' \in Seq(ObjectType) /\ list' # <<>> /\ DOMAIN list' = DOMAIN list /\ Len(list') = Len(list)
      /\ list'[1] = object /\ \A o \in DOMAIN list : o # 1 => list'[o] = list[o]
  BY <1>1
<1>7. IsFiniteSet(heap') /\ heap' \in SUBSET Buffer
  <2>1. IsFiniteSet(h \cup {element.data})
    BY FS_AddElement
  <2>2. element.data \in Nat
    BY DEF Slot
  <2>3. QED
    BY <2>1, <2>2 DEF Buffer
<1>8. Types'
  BY <1>1, <1>6, <1>7, SMTT(30) DEF Inv, Types
<1>9. Owned1(heap', subs', ptr', list')
  <2>1. \A o \in DOMAIN list : DOMAIN list'[o].elements = DOMAIN list[o].elements
    BY <1>1, <1>2, <1>5, <1>6
  <2>2. \A o \in DOMAIN list : \A i \in DOMAIN list[o].elements :
          o # 1 \/ i # x => Cell(list', o, i) = Cell(list, o, i)
    BY <1>1, <1>2, <1>5, <1>6, SMTT(30) DEF Cell
  <2>3. Cell(list', 1, x) = element.data
    BY <1>1, <1>2, <1>5, <1>6 DEF Cell
  <2>4. \/ Cell(list', 1, x) = 0 /\ heap' = h
        \/ Cell(list', 1, x) \notin h /\ Cell(list', 1, x) # 0 /\ heap' = h \cup {Cell(list', 1, x)}
    BY <2>3
  <2>5. Owned1(heap', subs, p, list')
    <3>1. ASSUME NEW m, NEW g, DOMAIN m = DOMAIN list,
                 \A o \in DOMAIN list : DOMAIN m[o].elements = DOMAIN list[o].elements,
                 \A o \in DOMAIN list : \A i \in DOMAIN list[o].elements :
                   o # 1 \/ i # x => Cell(m, o, i) = Cell(list, o, i),
                 \/ Cell(m, 1, x) = 0 /\ g = h
                 \/ Cell(m, 1, x) \notin h /\ Cell(m, 1, x) # 0 /\ g = h \cup {Cell(m, 1, x)}
          PROVE  Owned1(g, subs, p, m)
      <4>1. /\ x \in DOMAIN list[1].elements /\ 1 \in DOMAIN list /\ Cell(list, 1, x) = 0
            /\ subs \in Seq(Nat) /\ Owned1(h, subs, p, list)
        BY <1>1
      <4>2. QED
        BY ONLY <4>1, <3>1, CellFilled, h \in SUBSET Buffer, p \in [1 .. 7 -> Pointer]
    <3>2. QED
      BY ONLY <1>6, <2>1, <2>2, <2>4, <3>1
  <2>6. QED
    BY <2>5
<1>10. Filling'
  <2>1. list'[1].objects = shape'.objects /\ Len(list'[1].elements) = shape'.elements
    BY <1>1, <1>2, <1>5, <1>6 DEF Filling
  <2>2. n' <= shape'.elements /\ x' \in 1 .. n' + 1
    BY <1>1, SMTT(30) DEF Filling
  <2>3. \A i \in 1 .. x' - 1 : GoodSlot(list'[1].elements[i])
    <3> SUFFICES ASSUME NEW i \in 1 .. x' - 1 PROVE GoodSlot(elements[i])
      BY <1>5, <1>6
    <3>1. i \in 1 .. shape.elements
      <4>1. x \in 1 .. shape.elements /\ x \in Nat /\ shape.elements \in Nat
        BY <1>1
      <4>2. x' = x \/ x' = x + 1
        OBVIOUS
      <4>3. i \in 1 .. x' - 1
        OBVIOUS
      <4>4. i \in 1 .. x - 1 \/ i \in 1 .. x
        BY ONLY <4>1, <4>2, <4>3
      <4>5. QED
        BY ONLY <4>1, <4>4
    <3>2. CASE i = x
      BY <1>1, <1>2, <3>2
    <3>3. CASE i # x
      <4>1. i \in 1 .. x - 1
        BY <1>1, <3>3
      <4>2. GoodSlot(list[1].elements[i])
        BY <1>1, <4>1 DEF Filling
      <4>3. QED
        BY <1>2, <3>1, <3>3, <4>2
    <3>4. QED
      BY <3>2, <3>3
  <2>4. \A i \in x' .. shape'.elements : list'[1].elements[i].data = 0
    <3> SUFFICES ASSUME NEW i \in x' .. shape.elements PROVE elements[i].data = 0
      BY <1>5, <1>6
    <3>1. i \in 1 .. shape.elements /\ i \in x .. shape.elements
      BY <1>1
    <3>2. CASE i = x
      BY <1>1, <1>2, <3>2
    <3>3. CASE i # x
      <4>1. list[1].elements[i].data = 0
        BY <1>1, <3>1 DEF Filling
      <4>2. QED
        BY <1>2, <3>1, <3>3, <4>1
    <3>4. QED
      BY <3>2, <3>3
  <2>5. QED
    BY <1>6, <2>1, <2>2, <2>3, <2>4 DEF Filling, GoodSlot
<1>11. \A o \in 2 .. Len(list') : Complete(list'[o], shape'.objects)
  BY <1>1, <1>6, SMTT(30) DEF Complete
<1>12. Phase'
  BY <1>1, <1>6, <1>10, <1>11 DEF Inv, Phase
<1>13. QED
  BY <1>8, <1>9, <1>12 DEF Inv

\* An element and its data, added to the heap h.
Added(h, g, e) ==
  /\ e \in Slot /\ GoodSlot(e)
  /\ \/ e.data = 0 /\ g = h
     \/ e.data \notin h /\ e.data # 0 /\ g = h \cup {e.data}

\* An element of a known type is sound with a buffer, or without any size.
LEMMA ElementSound ==
  ASSUME NEW d \in Nat, NEW size \in Nat, NEW type \in ElementTypes, d # 0 \/ size = 0
  PROVE  LET e == Element(d, size, type) IN e \in Slot /\ GoodSlot(e) /\ e.data = d
BY DEF Element, Slot, GoodSlot, ElementTypes

\* Data in a new buffer, and whatever is done with it then, adds one element.
LEMMA AfterAdds ==
  ASSUME NEW h \in SUBSET Buffer, IsFiniteSet(h), NEW ref, NEW size \in Nat,
         NEW r \in After(ref, h \cup {New(h)}, New(h), size, "known")
  PROVE  Added(h, r.heap, r.element)
<1> DEFINE d == New(h)
<1>1. d \in Buffer /\ d \notin h
  BY NewIsFresh
<1>2. (h \cup {d}) \ {d} = h /\ d # 0 /\ d \in Nat
  BY <1>1 DEF Buffer
<1>3. r \in After(ref, h \cup {d}, d, size, "known")
  OBVIOUS
<1>4. d = New(h)
  OBVIOUS
<1> HIDE DEF d
<1>5. ASSUME NEW k \in Nat, r = [heap |-> h \cup {d}, element |-> Element(d, k, "known")]
      PROVE  Added(h, r.heap, r.element)
  <2>1. "known" \in ElementTypes
    BY DEF ElementTypes
  <2>2. r.element \in Slot /\ GoodSlot(r.element) /\ r.element.data = d
    BY <1>2, <1>5, <2>1, ElementSound
  <2>3. QED
    BY <1>1, <1>2, <1>5, <2>2 DEF Added
<1>6. ASSUME NEW type \in ElementTypes, r = [heap |-> h, element |-> Element(0, 0, type)]
      PROVE  Added(h, r.heap, r.element)
  <2>1. r.element \in Slot /\ GoodSlot(r.element) /\ r.element.data = 0
    BY <1>6, ElementSound
  <2>2. QED
    BY <1>6, <2>1 DEF Added
<1>7. CASE ref = "object"
  <2>1. r \in AfterObject(h \cup {d}, d)
    BY <1>3, <1>7 DEF After
  <2>2. \/ r = [heap |-> h \cup {d}, element |-> Element(d, 1, "known")]
        \/ \E type \in ElementTypes : r = [heap |-> h, element |-> Element(0, 0, type)]
    BY <1>2, <2>1 DEF AfterObject, ObjectRead
  <2>3. QED
    BY <1>5, <1>6, <2>2
<1>8. CASE ref = "string"
  <2>1. r \in AfterString(h \cup {d}, d, size, "known")
    BY <1>3, <1>8 DEF After
  <2>2. \/ r = [heap |-> h \cup {d}, element |-> Element(d, size, "known")]
        \/ r = [heap |-> h \cup {d}, element |-> Element(d, 1, "known")]
    BY <1>2, <1>4, <2>1 DEF AfterString
  <2>3. QED
    BY <1>5, <2>2
<1>9. CASE ref # "object" /\ ref # "string"
  <2>1. r = [heap |-> h \cup {d}, element |-> Element(d, size, "known")]
    BY <1>3, <1>9 DEF After
  <2>2. QED
    BY <1>5, <2>1
<1>10. QED
  BY <1>7, <1>8, <1>9

\* So does an id2 that is left to be read later, converted or not.
LEMMA LaterAdds ==
  ASSUME NEW h \in SUBSET Buffer, IsFiniteSet(h), NEW ref \in References \ {"object"},
         NEW type \in ElementTypes, NEW r \in After(ref, h, 0, 0, type)
  PROVE  Added(h, r.heap, r.element)
<1>1. New(h) \in Buffer /\ New(h) \notin h /\ New(h) # 0 /\ New(h) \in Nat
  BY NewIsFresh DEF Buffer
<1>2. h \ {0} = h
  BY DEF Buffer
<1>3. \/ r = [heap |-> h, element |-> Element(0, 0, type)]
      \/ r = [heap |-> h \cup {New(h)}, element |-> Element(New(h), 1, type)]
  <2>1. CASE ref = "string"
    BY <1>2, <2>1 DEF After, AfterString
  <2>2. CASE ref = "binary"
    BY <2>2 DEF After
  <2>3. QED
    BY <2>1, <2>2 DEF References
<1>4. CASE r = [heap |-> h, element |-> Element(0, 0, type)]
  <2>1. r.element \in Slot /\ GoodSlot(r.element) /\ r.element.data = 0
    BY <1>4, ElementSound
  <2>2. QED
    BY <1>4, <2>1 DEF Added
<1>5. CASE r = [heap |-> h \cup {New(h)}, element |-> Element(New(h), 1, type)]
  <2>1. r.element \in Slot /\ GoodSlot(r.element) /\ r.element.data = New(h)
    BY <1>1, <1>5, ElementSound
  <2>2. QED
    BY <1>1, <1>5, <2>1 DEF Added
<1>6. QED
  BY <1>3, <1>4, <1>5

\* An element goes to the slot.
LEMMA FilledInv ==
  ASSUME Inv, HasRecord, NEW h \in SUBSET Buffer, IsFiniteSet(h),
         NEW p \in [1 .. 7 -> Pointer], p[2] = ptr[2], p[3] = ptr[3], Owned1(h, subs, p, list),
         NEW g, NEW e, Added(h, g, e), Fill(g, p, e)
  PROVE  Inv'
<1>1. list \in Seq(ObjectType) /\ list # <<>> /\ list[1] \in ObjectType /\ x \in DOMAIN list[1].elements /\ x \in Nat
  BY SlotFree
<1>2. /\ e \in Slot /\ GoodSlot(e)
      /\ \/ e.data = 0 /\ heap' = h
         \/ e.data \notin h /\ e.data # 0 /\ heap' = h \cup {e.data}
  BY DEF Added, Fill
<1>3. /\ list' = [list EXCEPT ![1].elements[x] = e] /\ ptr' = p /\ x' = x + 1 /\ n' = n + 1
      /\ UNCHANGED <<pc, subs, shape, row>>
  BY DEF Fill
<1> DEFINE o == [list[1] EXCEPT !.elements[x] = e]
<1>4. o \in ObjectType /\ o.elements = [list[1].elements EXCEPT ![x] = e] /\ o.objects = list[1].objects
  <2>1. [list[1].elements EXCEPT ![x] = e] \in Seq(Slot)
    BY <1>1, <1>2, SMTT(30) DEF ObjectType
  <2>2. QED
    BY <1>1, <2>1 DEF ObjectType
<1>5. list' = [list EXCEPT ![1] = o]
  BY <1>1, <1>3
<1> HIDE DEF o
<1>6. x + 1 \in {x, x + 1} /\ (x + 1 = x => e.data = 0) /\ (x + 1 = x + 1 => GoodSlot(e))
  BY <1>1, <1>2
<1>7. QED
  BY <1>2, <1>3, <1>4, <1>5, <1>6, WrittenInv

\* A slot is left for the next element.
LEMMA SkippedInv ==
  ASSUME Inv, HasRecord, NEW h \in SUBSET Buffer, IsFiniteSet(h),
         NEW p \in [1 .. 7 -> Pointer], p[2] = ptr[2], p[3] = ptr[3], Owned1(h, subs, p, list),
         SkipElement(p, h)
  PROVE  Inv'
<1> DEFINE e == SkippedElement
<1>1. list \in Seq(ObjectType) /\ list # <<>> /\ list[1] \in ObjectType /\ x \in DOMAIN list[1].elements /\ x \in Nat
  BY SlotFree
<1>2. e \in Slot /\ e.data = 0
  BY DEF SkippedElement, NoElement, Slot, ElementTypes
<1>3. /\ list' = [list EXCEPT ![1].elements[x] = e, ![1].count = @ - 1] /\ ptr' = p /\ heap' = h
      /\ x' = x /\ n' = n + 1 /\ UNCHANGED <<pc, subs, shape, row>>
  BY DEF SkipElement
<1> HIDE DEF e
<1> DEFINE m == [list[1] EXCEPT !.elements[x] = e]
           o == [m EXCEPT !.count = @ - 1]
<1>4. m \in ObjectType /\ m.elements = [list[1].elements EXCEPT ![x] = e] /\ m.objects = list[1].objects
  <2>1. [list[1].elements EXCEPT ![x] = e] \in Seq(Slot)
    <3>1. list[1].elements \in Seq(Slot)
      BY <1>1 DEF ObjectType
    <3>2. x \in 1 .. Len(list[1].elements)
      BY <1>1, <3>1
    <3> QED BY <1>2, <3>1, <3>2, ExceptSeq
  <2>2. QED
    BY <1>1, <2>1 DEF ObjectType
<1>5. list' = [list EXCEPT ![1] = [list[1] EXCEPT !.elements[x] = e, !.count = @ - 1]]
  BY <1>1, <1>3
<1>6. [list[1] EXCEPT !.elements[x] = e, !.count = @ - 1] = o
  BY <1>1
<1> HIDE DEF m
<1>7. o \in ObjectType /\ o.elements = [list[1].elements EXCEPT ![x] = e] /\ o.objects = list[1].objects
  BY <1>4 DEF ObjectType
<1>8. list' = [list EXCEPT ![1] = o]
  BY <1>5, <1>6
<1> HIDE DEF o
<1>9. PICK next \in {x, x + 1} : next = x
  OBVIOUS
<1>10. (next = x => e.data = 0) /\ (next = x + 1 => GoodSlot(e)) /\ x' = next
  BY <1>1, <1>2, <1>3, <1>9
<1>11. \/ e.data = 0 /\ heap' = h
       \/ e.data \notin h /\ e.data # 0 /\ heap' = h \cup {e.data}
  BY <1>2, <1>3
<1>12. QED
  <2>1. ASSUME NEW d \in Slot, NEW object \in ObjectType,
               next = x => d.data = 0, next = x + 1 => GoodSlot(d),
               \/ d.data = 0 /\ heap' = h
               \/ d.data \notin h /\ d.data # 0 /\ heap' = h \cup {d.data},
               object.elements = [list[1].elements EXCEPT ![x] = d], object.objects = list[1].objects,
               list' = [list EXCEPT ![1] = object]
        PROVE  Inv'
    <3>1. ptr' = p /\ x' = next /\ n' = n + 1 /\ UNCHANGED <<pc, subs, shape, row>>
      BY <1>3, <1>10
    <3>2. QED
      BY ONLY <2>1, <3>1, WrittenInv, Inv, HasRecord, h \in SUBSET Buffer, IsFiniteSet(h),
              p \in [1 .. 7 -> Pointer], p[2] = ptr[2], p[3] = ptr[3], Owned1(h, subs, p, list)
  <2>2. QED
    BY ONLY <1>2, <1>7, <1>8, <1>10, <1>11, <2>1

\* The value pointer is set: the others are as they were.
LEMMA ValuePointer ==
  ASSUME Inv, HasRecord, NEW got \in GetPointer(heap, ValueSlot)
  PROVE  LET p == [ptr EXCEPT ![ValueSlot] = got.to]
         IN /\ got.heap \in SUBSET Buffer /\ IsFiniteSet(got.heap)
            /\ p \in [1 .. 7 -> Pointer] /\ p[2] = ptr[2] /\ p[3] = ptr[3]
            /\ Owned1(got.heap, subs, p, list)
<1>1. /\ heap \in SUBSET Buffer /\ IsFiniteSet(heap) /\ subs \in Seq(Nat) /\ ptr \in [1 .. 7 -> Pointer]
      /\ list \in Seq(ObjectType) /\ Owned1(heap, subs, ptr, list)
  BY SlotFree
<1>2. \A i \in 1 .. 7 : \A g \in GetPointer(heap, i) :
        /\ g.heap \in SUBSET Buffer /\ IsFiniteSet(g.heap) /\ g.to \in Pointer
        /\ Owned1(g.heap, subs, [ptr EXCEPT ![i] = g.to], list)
  BY <1>1, GetPointerOwned
<1>3. ValueSlot \in 1 .. 7 /\ ValueSlot # 2 /\ ValueSlot # 3
  BY DEF ValueSlot
<1>4. /\ got.heap \in SUBSET Buffer /\ IsFiniteSet(got.heap) /\ got.to \in Pointer
      /\ Owned1(got.heap, subs, [ptr EXCEPT ![ValueSlot] = got.to], list)
  BY <1>2, <1>3
<1>5. QED
  BY <1>1, <1>3, <1>4

\* Every way a record becomes an element, or none.
LEMMA ElementInv ==
  ASSUME Inv,
         InlineElement \/ UnknownElement \/ LargeElement \/ MissingElement \/ LaterElement \/ CopiedElement
  PROVE  Inv'
<1>1. HasRecord
  BY DEF InlineElement, UnknownElement, LargeElement, MissingElement, LaterElement, CopiedElement
<1>2. /\ heap \in SUBSET Buffer /\ IsFiniteSet(heap) /\ ptr \in [1 .. 7 -> Pointer]
      /\ Owned1(heap, subs, ptr, list)
  BY <1>1, SlotFree
<1>3. CASE InlineElement
  <2>1. Fill(heap \cup {New(heap)}, ptr, Element(New(heap), 1, "known"))
    BY <1>3 DEF InlineElement
  <2>2. New(heap) \in Buffer /\ New(heap) \notin heap
    BY <1>2, NewIsFresh
  <2>3. Added(heap, heap \cup {New(heap)}, Element(New(heap), 1, "known"))
    BY <2>2, ElementSound DEF Added, Buffer, ElementTypes
  <2>4. QED
    BY <1>1, <1>2, <2>1, <2>3, FilledInv
<1>4. CASE UnknownElement
  <2> DEFINE e == [NoElement EXCEPT !.slot = "unknown"]
  <2>1. Fill(heap, ptr, e)
    BY <1>4 DEF UnknownElement
  <2>2. Added(heap, heap, e)
    BY DEF Added, NoElement, Slot, GoodSlot, ElementTypes
  <2>3. QED
    BY <1>1, <1>2, <2>1, <2>2, FilledInv
<1>5. CASE LargeElement
  <2>1. PICK ref \in References : \E r \in After(ref, heap \cup {New(heap)}, New(heap), 1, "known") :
          Fill(r.heap, ptr, r.element)
    BY <1>5 DEF LargeElement
  <2>2. PICK r \in After(ref, heap \cup {New(heap)}, New(heap), 1, "known") : Fill(r.heap, ptr, r.element)
    BY <2>1
  <2>3. Added(heap, r.heap, r.element)
    BY <1>2, AfterAdds
  <2>4. QED
    BY <1>1, <1>2, <2>2, <2>3, FilledInv
<1>6. CASE MissingElement
  <2>1. PICK got \in GetPointer(heap, ValueSlot) : SkipElement([ptr EXCEPT ![ValueSlot] = got.to], got.heap)
    BY <1>6 DEF MissingElement
  <2> DEFINE p == [ptr EXCEPT ![ValueSlot] = got.to]
  <2>2. /\ got.heap \in SUBSET Buffer /\ IsFiniteSet(got.heap)
        /\ p \in [1 .. 7 -> Pointer] /\ p[2] = ptr[2] /\ p[3] = ptr[3]
        /\ Owned1(got.heap, subs, p, list)
    BY <1>1, ValuePointer
  <2> HIDE DEF p
  <2>3. SkipElement(p, got.heap)
    BY <2>1 DEF p
  <2>4. QED
    BY <1>1, <2>2, <2>3, SkippedInv
<1>7. CASE LaterElement
  <2>1. PICK got \in GetPointer(heap, ValueSlot), ref \in References \ {"object"} :
          \E type \in ElementTypes \ {"none"} : \E r \in After(ref, got.heap, 0, 0, type) :
            Fill(r.heap, [ptr EXCEPT ![ValueSlot] = got.to], r.element)
    BY <1>7 DEF LaterElement
  <2> DEFINE p == [ptr EXCEPT ![ValueSlot] = got.to]
  <2>2. /\ got.heap \in SUBSET Buffer /\ IsFiniteSet(got.heap)
        /\ p \in [1 .. 7 -> Pointer] /\ p[2] = ptr[2] /\ p[3] = ptr[3]
        /\ Owned1(got.heap, subs, p, list)
    BY <1>1, ValuePointer
  <2> HIDE DEF p
  <2>3. PICK type \in ElementTypes \ {"none"} : \E r \in After(ref, got.heap, 0, 0, type) : Fill(r.heap, p, r.element)
    BY <2>1 DEF p
  <2>4. PICK r \in After(ref, got.heap, 0, 0, type) : Fill(r.heap, p, r.element)
    BY <2>3
  <2>5. Added(got.heap, r.heap, r.element)
    BY <2>2, LaterAdds
  <2>6. QED
    BY <1>1, <2>2, <2>4, <2>5, FilledInv
<1>8. CASE CopiedElement
  <2>1. PICK got \in GetPointer(heap, ValueSlot), ref \in References :
          \E size \in {0, 1} : \E r \in After(ref, got.heap \cup {New(got.heap)}, New(got.heap), size, "known") :
            Fill(r.heap, [ptr EXCEPT ![ValueSlot] = got.to], r.element)
    BY <1>8 DEF CopiedElement
  <2> DEFINE p == [ptr EXCEPT ![ValueSlot] = got.to]
  <2>2. /\ got.heap \in SUBSET Buffer /\ IsFiniteSet(got.heap)
        /\ p \in [1 .. 7 -> Pointer] /\ p[2] = ptr[2] /\ p[3] = ptr[3]
        /\ Owned1(got.heap, subs, p, list)
    BY <1>1, ValuePointer
  <2> HIDE DEF p
  <2>3. PICK size \in {0, 1} :
          \E r \in After(ref, got.heap \cup {New(got.heap)}, New(got.heap), size, "known") : Fill(r.heap, p, r.element)
    BY <2>1 DEF p
  <2>4. PICK r \in After(ref, got.heap \cup {New(got.heap)}, New(got.heap), size, "known") : Fill(r.heap, p, r.element)
    BY <2>3
  <2>5. Added(got.heap, r.heap, r.element)
    BY <2>2, AfterAdds
  <2>6. QED
    BY <1>1, <2>2, <2>4, <2>5, FilledInv
<1>9. QED
  BY <1>3, <1>4, <1>5, <1>6, <1>7, <1>8

\* An object is complete when its count is the number of filled slots.
LEMMA EndObjectInv ==
  ASSUME Inv, EndObject
  PROVE  Inv'
<1>1. /\ pc = "element" /\ pc' = "object" /\ list' = [list EXCEPT ![1].count = x - 1]
      /\ UNCHANGED <<heap, subs, ptr, shape, n, x>>
  BY DEF EndObject
<1>2. /\ list \in Seq(ObjectType) /\ list # <<>> /\ Filling /\ x \in Nat /\ n \in Nat /\ shape.elements \in Nat
      /\ \A o \in 2 .. Len(list) : Complete(list[o], shape.objects)
      /\ list[1] \in ObjectType /\ 1 \in DOMAIN list
  <2>1. list \in Seq(ObjectType) /\ Filling /\ x \in Nat /\ n \in Nat /\ shape.elements \in Nat
        /\ \A o \in 2 .. Len(list) : Complete(list[o], shape.objects)
    BY <1>1 DEF Inv, Types, Phase, ShapeType
  <2>2. list # <<>>
    BY <2>1 DEF Filling
  <2>3. QED
    BY <2>1, <2>2
<1> DEFINE o1 == [list[1] EXCEPT !.count = x - 1]
<1>3. o1 \in ObjectType /\ o1.elements = list[1].elements /\ o1.objects = list[1].objects /\ o1.count = x - 1
  <2>1. x - 1 \in Int
    BY <1>2
  <2>2. \A c \in Int : LET o == [list[1] EXCEPT !.count = c]
                       IN o \in ObjectType /\ o.elements = list[1].elements /\ o.objects = list[1].objects /\ o.count = c
    BY <1>2 DEF ObjectType
  <2>3. QED
    BY <2>1, <2>2
<1>4. list' = [list EXCEPT ![1] = o1]
  BY <1>1, <1>2
<1> HIDE DEF o1
<1>5. /\ list' \in Seq(ObjectType) /\ DOMAIN list' = DOMAIN list /\ Len(list') = Len(list)
      /\ list'[1] = o1 /\ \A o \in DOMAIN list : o # 1 => list'[o] = list[o]
  BY <1>2, <1>3, <1>4
<1>6. Types'
  BY <1>1, <1>5 DEF Inv, Types
<1>7. Owned1(heap', subs', ptr', list')
  <2>1. \A o \in DOMAIN list : list'[o].elements = list[o].elements
    BY <1>3, <1>5
  <2>2. Owned1(heap, subs, ptr, list)
    BY DEF Inv
  <2>3. Owned1(heap, subs, ptr, list')
    BY <1>5, <2>1, <2>2, SameCells
  <2>4. QED
    BY <1>1, <2>3
<1>8. Complete(o1, shape.objects)
  BY <1>2, <1>3 DEF Complete, Filling
<1>9. \A o \in DOMAIN list' : Complete(list'[o], shape'.objects)
  BY <1>1, <1>2, <1>5, <1>8
<1>10. Phase'
  BY <1>1, <1>5, <1>9 DEF Inv, Phase
<1>11. QED
  BY <1>6, <1>7, <1>10 DEF Inv

\* freeall leaves the data of the elements, and nothing else.
LEMMA ReturnInv ==
  ASSUME Inv, Return
  PROVE  Inv'
<1>1. /\ pc = "object" /\ Len(list) = shape.objects /\ heap' = FreeAll(heap, ptr) /\ subs' = <<>>
      /\ ptr' = [i \in 1 .. 7 |-> NoPtr] /\ pc' = "returned" /\ UNCHANGED <<shape, list, n, x>>
  BY DEF Return
<1>2. /\ heap \in SUBSET Buffer /\ IsFiniteSet(heap) /\ subs \in Seq(Nat) /\ ptr \in [1 .. 7 -> Pointer]
      /\ list \in Seq(ObjectType) /\ Owned1(heap, subs, ptr, list)
  BY DEF Inv, Types
<1>3. \A b \in heap : b \in heap' <=> /\ \A i \in DOMAIN subs : subs[i] # b
                                      /\ \A j \in DOMAIN ptr : ~(ptr[j].need /\ ptr[j].buf = b)
  <2>1. \A b \in heap : b # 0
    BY <1>2 DEF Buffer
  <2>2. QED
    BY <1>1, <2>1 DEF FreeAll, Buffers, Owned, ToSet
<1>4. heap' \subseteq heap /\ IsFiniteSet(heap')
  BY <1>1, <1>2, FS_Subset DEF FreeAll
<1>5. Types'
  BY <1>1, <1>4 DEF Inv, Types, Pointer, NoPtr
<1>6. Covered(heap', subs', ptr', list')
  BY <1>1, <1>2, <1>3, <1>4 DEF Owned1, Covered
<1>7. Allocated(heap', subs', ptr', list')
  <2>1. \A o \in DOMAIN list : \A i \in DOMAIN list[o].elements : Cell(list, o, i) \in heap' \cup {0}
    <3> SUFFICES ASSUME NEW o \in DOMAIN list, NEW i \in DOMAIN list[o].elements, Cell(list, o, i) # 0
                 PROVE  Cell(list, o, i) \in heap'
      OBVIOUS
    <3>1. Cell(list, o, i) \in heap
      BY <1>2 DEF Owned1, Allocated
    <3>2. \A k \in DOMAIN subs : subs[k] # Cell(list, o, i)
      BY <1>2 DEF Owned1, Distinct, DataApart
    <3>3. \A j \in DOMAIN ptr : ~(ptr[j].need /\ ptr[j].buf = Cell(list, o, i))
      BY <1>2 DEF Owned1, Distinct, PointersApart
    <3>4. QED
      BY <1>3, <3>1, <3>2, <3>3
  <2>2. QED
    BY <1>1, <2>1 DEF Allocated, NoPtr
<1>8. Distinct(subs', ptr', list')
  BY <1>1, <1>2 DEF Owned1, Distinct, DataApart, PointersApart, NoPtr
<1>9. Phase'
  BY <1>1 DEF Inv, Phase, NoPtr
<1>10. QED
  BY <1>5, <1>6, <1>7, <1>8, <1>9 DEF Inv, Owned1

\* pst_free_list gives back the rest.
LEMMA FreeListInv ==
  ASSUME Inv, FreeList
  PROVE  Inv'
<1>1. /\ pc = "returned" /\ heap' = heap \ UNION {Data(object) : object \in ToSet(list)}
      /\ list' = <<>> /\ pc' = "done" /\ UNCHANGED <<subs, ptr, shape, n, x>>
  BY DEF FreeList
<1>2. /\ subs = <<>> /\ \A j \in 1 .. 7 : ~ptr[j].need
      /\ ptr \in [1 .. 7 -> Pointer] /\ heap \in SUBSET Buffer
      /\ Owned1(heap, subs, ptr, list)
  BY <1>1 DEF Inv, Types, Phase
<1>3. heap' = {}
  <2> SUFFICES ASSUME NEW b \in heap
               PROVE  \E object \in ToSet(list) : b \in Data(object)
    BY <1>1
  <2>1. b # 0
    BY <1>2 DEF Buffer
  <2>2. PICK o \in DOMAIN list : \E i \in DOMAIN list[o].elements : Cell(list, o, i) = b
    BY <1>2 DEF Owned1, Covered
  <2>3. list[o] \in ToSet(list) /\ b \in Data(list[o])
    BY <2>1, <2>2 DEF ToSet, Data, Cell
  <2>4. QED
    BY <2>3
<1>4. Types'
  <2>1. IsFiniteSet(heap') /\ heap' \in SUBSET Buffer
    BY <1>3, FS_EmptySet
  <2>2. list' \in Seq(ObjectType)
    BY <1>1
  <2>3. QED
    BY <1>1, <2>1, <2>2 DEF Inv, Types
<1>5. Owned1(heap', subs', ptr', list')
  <2>1. \A j \in 1 .. 7 : ptr[j].buf = 0
    BY <1>2 DEF Owned1, Allocated
  <2>2. Covered(heap', subs', ptr', list')
    BY <1>3 DEF Covered
  <2>3. Allocated(heap', subs', ptr', list')
    BY <1>1, <1>2, <2>1 DEF Allocated
  <2>4. Distinct(subs', ptr', list')
    BY <1>1, <1>2 DEF Distinct, DataApart, PointersApart
  <2>5. QED
    BY <2>2, <2>3, <2>4 DEF Owned1
<1>6. Phase'
  BY <1>1, <1>2, <1>3 DEF Phase
<1>7. QED
  BY <1>4, <1>5, <1>6 DEF Inv

\* Every step preserves the invariant.
LEMMA StepInv ==
  ASSUME Inv, [Next]_vars
  PROVE  Inv'
<1>1. CASE ReadFails \/ ReadSingle \/ ReadSubBlocks
  BY <1>1, ReadInv DEF ReadFails, ReadSingle, ReadSubBlocks
<1>2. CASE UnknownType \/ BcHeader \/ BcList \/ SevenHeader \/ SevenFive
  BY <1>2, HeaderInv
<1>3. CASE SevenRows
  BY <1>3, SevenRowsInv
<1>4. CASE NewObject
  BY <1>4, NewObjectInv
<1>5. CASE InlineElement \/ UnknownElement \/ LargeElement \/ MissingElement \/ LaterElement \/ CopiedElement
  BY <1>5, ElementInv
<1>6. CASE EndObject
  BY <1>6, EndObjectInv
<1>7. CASE Return
  BY <1>7, ReturnInv
<1>8. CASE FreeList
  BY <1>8, FreeListInv
<1>9. CASE Done \/ UNCHANGED vars
  <2>1. UNCHANGED vars
    BY <1>9 DEF Done
  <2>2. QED
    BY <2>1 DEF vars, Inv, Types, Phase, Filling
<1>10. QED
  BY <1>1, <1>2, <1>3, <1>4, <1>5, <1>6, <1>7, <1>8, <1>9 DEF Next

-----------------------------------------------------------------------------
(* What the invariant gives.                                               *)

\* Covered and distinct, a buffer has one owner.
LEMMA OneOwner ==
  ASSUME Inv, NEW b \in heap
  PROVE  Cardinality(Owners(b)) = 1
<1>1. b # 0 /\ Owned1(heap, subs, ptr, list)
  BY DEF Inv, Types, Buffer
<1>2. \A t \in Owners(b) : \/ \E i \in DOMAIN subs : subs[i] = b /\ t = <<"sub", i, 0>>
                           \/ \E j \in DOMAIN ptr : ptr[j].need /\ ptr[j].buf = b /\ t = <<"ptr", j, 0>>
                           \/ \E o \in DOMAIN list : \E i \in DOMAIN list[o].elements :
                                Cell(list, o, i) = b /\ t = <<"list", o, i>>
  BY DEF Owners, Cell
<1>3. /\ \A i \in DOMAIN subs : subs[i] = b => <<"sub", i, 0>> \in Owners(b)
      /\ \A j \in DOMAIN ptr : ptr[j].need /\ ptr[j].buf = b => <<"ptr", j, 0>> \in Owners(b)
      /\ \A o \in DOMAIN list : \A i \in DOMAIN list[o].elements : Cell(list, o, i) = b => <<"list", o, i>> \in Owners(b)
  BY DEF Owners, Cell
<1>4. \E t : t \in Owners(b)
  BY <1>1, <1>3 DEF Owned1, Covered
<1>5. ASSUME NEW i \in DOMAIN subs, subs[i] = b
      PROVE  \A t \in Owners(b) : t = <<"sub", i, 0>>
  BY <1>1, <1>2, <1>5 DEF Owned1, Distinct, DataApart, PointersApart
<1>6. ASSUME NEW j \in DOMAIN ptr, ptr[j].need, ptr[j].buf = b
      PROVE  \A t \in Owners(b) : t = <<"ptr", j, 0>>
  BY <1>1, <1>2, <1>6 DEF Owned1, Distinct, PointersApart
<1>7. ASSUME NEW o \in DOMAIN list, NEW i \in DOMAIN list[o].elements, Cell(list, o, i) = b
      PROVE  \A t \in Owners(b) : t = <<"list", o, i>>
  BY <1>1, <1>2, <1>7 DEF Owned1, Distinct, DataApart, PointersApart
<1>8. \A s, t \in Owners(b) : s = t
  BY <1>2, <1>5, <1>6, <1>7
<1>9. PICK t : Owners(b) = {t}
  BY <1>4, <1>8
<1>10. QED
  BY <1>9, FS_Singleton

\* The parts of BuffersOwned follow.
LEMMA InvImpliesBuffersOwned ==
  ASSUME Inv
  PROVE  BuffersOwned
<1>1. Types /\ Owned1(heap, subs, ptr, list) /\ Phase
  BY DEF Inv
<1>2. \A b \in heap : Cardinality(Owners(b)) = 1
  BY OneOwner
<1>3. \A i \in DOMAIN ptr : ptr[i].buf \in heap \cup {0}
  BY <1>1 DEF Owned1, Allocated
<1>4. Buffers(subs) \subseteq heap
  BY <1>1 DEF Owned1, Allocated, Buffers, ToSet
<1>5. \A object \in ToSet(list) : Data(object) \subseteq heap
  <2> SUFFICES ASSUME NEW o \in DOMAIN list PROVE Data(list[o]) \subseteq heap
    BY DEF ToSet
  <2>1. \A i \in DOMAIN list[o].elements : list[o].elements[i].data \in heap \cup {0}
    BY <1>1 DEF Owned1, Allocated, Cell
  <2>2. QED
    BY <2>1 DEF Data
<1>6. pc = "element" => (IF shape.kind = "bc" THEN ptr[2].buf ELSE ptr[3].buf) \in heap
  <2>1. ptr \in [1 .. 7 -> Pointer]
    BY <1>1 DEF Types
  <2>2. QED
    BY <1>1, <1>3, <2>1 DEF Phase
<1>7. pc = "done" => heap = {}
  BY <1>1 DEF Phase
<1>8. QED
  BY <1>2, <1>3, <1>4, <1>5, <1>6, <1>7 DEF BuffersOwned

\* A returned list is complete.
LEMMA InvImpliesElementsSound ==
  ASSUME Inv
  PROVE  ElementsSound
<1> SUFFICES ASSUME pc = "returned", NEW o \in DOMAIN list
             PROVE  /\ list[o].objects = Len(list)
                    /\ list[o].count <= Len(list[o].elements)
                    /\ \A i \in 1 .. list[o].count : GoodSlot(list[o].elements[i])
  BY DEF ElementsSound, GoodSlot, ToSet
<1>1. Complete(list[o], shape.objects) /\ Len(list) = shape.objects
  BY DEF Inv, Phase
<1>2. QED
  BY <1>1 DEF Complete

(* Whatever the file says and whatever fails, every buffer has exactly one *)
(* owner, the list of elements and the rows are allocated while they are   *)
(* read, and nothing is left in the end.                                   *)
THEOREM BlockBuffersOwned == Spec => []BuffersOwned
<1>1. Spec => []Inv
  BY InitInv, StepInv, PTL DEF Spec
<1>2. Inv => BuffersOwned
  BY InvImpliesBuffersOwned
<1>3. QED
  BY <1>1, <1>2, PTL

(* The objects a caller gets count what there is: the objects of the list, *)
(* and in each of them elements that were filled from a record, have the   *)
(* data their size speaks of and, unless their reference type is unknown,  *)
(* a type; also after an object that could not be read or a string that    *)
(* could not be converted.                                                 *)
THEOREM BlockElementsSound == Spec => []ElementsSound
<1>1. Spec => []Inv
  BY InitInv, StepInv, PTL DEF Spec
<1>2. Inv => ElementsSound
  BY InvImpliesElementsSound
<1>3. QED
  BY <1>1, <1>2, PTL

-----------------------------------------------------------------------------
(* Rows of a table.                                                        *)

\* Quotient and remainder.
LEMMA DivideBy ==
  ASSUME NEW d \in Nat, NEW q \in Nat, q > 0
  PROVE  d = q * (d \div q) + (d % q) /\ d % q < q /\ d % q \in Nat /\ d \div q \in Nat
OBVIOUS

\* There is only one quotient and one remainder.
LEMMA DivisionUnique ==
  ASSUME NEW q \in Nat, q > 0, NEW a \in Nat, NEW b \in Nat, NEW c \in Nat, NEW e \in Nat,
    q * a + b = q * c + e, b < q, e < q
  PROVE  a = c /\ b = e
<1>1. CASE a < c
  <2>1. PICK k \in Nat : c = a + 1 + k
    <3>1. c - a - 1 \in Nat /\ c = a + 1 + (c - a - 1)
      BY <1>1
    <3> QED BY <3>1
  <2>2. q * c = q * a + q + q * k
    BY <2>1
  <2>3. q * k \in Nat /\ q * a \in Nat /\ q * c \in Nat
    OBVIOUS
  <2> QED BY <2>2, <2>3
<1>2. CASE c < a
  <2>1. PICK k \in Nat : a = c + 1 + k
    <3>1. a - c - 1 \in Nat /\ a = c + 1 + (a - c - 1)
      BY <1>2
    <3> QED BY <3>1
  <2>2. q * a = q * c + q + q * k
    BY <2>1
  <2>3. q * k \in Nat /\ q * a \in Nat /\ q * c \in Nat
    OBVIOUS
  <2> QED BY <2>2, <2>3
<1>3. CASE a = c
  <2>1. q * a \in Nat /\ q * c = q * a
    BY <1>3
  <2> QED BY <1>3, <2>1
<1> QED BY <1>1, <1>2, <1>3

\* Counting on: within a row of q, or to the next.
LEMMA DivideNext ==
  ASSUME NEW d \in Nat, NEW q \in Nat, q > 0
  PROVE  /\ (d % q) + 1 < q => (d + 1) \div q = d \div q /\ (d + 1) % q = (d % q) + 1
         /\ (d % q) + 1 = q => (d + 1) \div q = (d \div q) + 1 /\ (d + 1) % q = 0
<1> DEFINE a == d \div q
           b == d % q
           c == (d + 1) \div q
           e == (d + 1) % q
<1>1. d = q * a + b /\ b < q /\ b \in Nat /\ a \in Nat
  BY DivideBy
<1>2. d + 1 = q * c + e /\ e < q /\ e \in Nat /\ c \in Nat
  BY DivideBy
<1> HIDE DEF a, b, c, e
<1>3. q * a \in Nat /\ q * c \in Nat
  BY <1>1, <1>2
<1>4. b + 1 < q => q * c + e = q * a + (b + 1)
  BY <1>1, <1>2, <1>3
<1>5. b + 1 < q => c = a /\ e = b + 1
  <2> SUFFICES ASSUME b + 1 < q PROVE c = a /\ e = b + 1
    OBVIOUS
  <2>1. PICK f \in Nat : f = b + 1
    BY <1>1
  <2> QED BY <1>1, <1>2, <1>4, <2>1, DivisionUnique
<1>6. b + 1 = q => q * c + e = q * (a + 1) + 0
  <2>1. q * (a + 1) = q * a + q
    BY <1>1
  <2> QED BY <1>1, <1>2, <1>3, <2>1
<1>7. b + 1 = q => c = a + 1 /\ e = 0
  <2> SUFFICES ASSUME b + 1 = q PROVE c = a + 1 /\ e = 0
    OBVIOUS
  <2>1. PICK f \in Nat : f = a + 1
    BY <1>1
  <2> QED BY <1>1, <1>2, <1>6, <2>1, DivisionUnique
<1> QED BY <1>5, <1>7 DEF a, b, c, e

\* The row under way is the one of the object that is made or was made last;
\* a table has no rows before their number is read.
RowType == [at : Nat, start : Nat, end : Nat]

\* Row number d of rows of a size, in pages: it starts at "ind", its page at
\* "start".
Lies(page, size, d, ind, start) ==
  /\ start = (d \div (page \div size)) * page
  /\ ind = start + (d % (page \div size)) * size

Placed(r, d, size) == Lies(PageSize, size, d, r.at, r.start)

RowInv ==
  /\ row \in RowType
  /\ pc \in {"7c", "7c5"} => shape.objects = 0
  /\ shape.kind = "7c" => shape.recSize \in RowSizes
  /\ shape.kind = "7c" /\ pc \in {"object", "element"} /\ shape.objects > 0 =>
       Placed(row, IF pc = "element" THEN Len(list) - 1 ELSE Len(list), shape.recSize)

\* The factor of a product can be compared.
LEMMA ProductGrows ==
  ASSUME NEW a \in Nat, NEW b \in Nat, NEW s \in Nat, a <= b
  PROVE  a * s <= b * s
<1>1. PICK k \in Nat : b = a + k
  <2>1. b - a \in Nat /\ b = a + (b - a)
    OBVIOUS
  <2> QED BY <2>1
<1>2. b * s = a * s + k * s /\ k * s \in Nat /\ a * s \in Nat
  BY <1>1
<1> QED BY <1>2

\* From one row to the next: the end of the page is crossed after the last
\* row that fits.
LEMMA NextPlace ==
  ASSUME NEW P \in Nat, NEW s \in 1 .. P, NEW d \in Nat, NEW ind \in Nat, NEW start \in Nat,
         Lies(P, s, d, ind, start)
  PROVE  IF ind + s + s > start + P
         THEN Lies(P, s, d + 1, start + P, start + P)
         ELSE Lies(P, s, d + 1, ind + s, start)
<1> DEFINE q == P \div s
           k == d \div q
           r == d % q
<1>1. P = s * q + (P % s) /\ P % s < s /\ P % s \in Nat /\ q \in Nat
  BY DivideBy
<1>2. q > 0
  <2>1. CASE q = 0
    <3>1. s * q = 0
      BY <2>1
    <3> QED BY <1>1, <3>1
  <2> QED BY <1>1, <2>1
<1> HIDE DEF q
<1>3. r < q /\ r \in Nat /\ k \in Nat
  BY <1>1, <1>2, DivideBy
<1>4. /\ r + 1 < q => (d + 1) \div q = k /\ (d + 1) % q = r + 1
      /\ r + 1 = q => (d + 1) \div q = k + 1 /\ (d + 1) % q = 0
  BY <1>1, <1>2, DivideNext
<1>5. start = k * P /\ ind = start + r * s
  BY DEF q, Lies
<1> HIDE DEF k, r
<1>6. q * s <= P /\ P < (q + 1) * s
  <2>1. (q + 1) * s = s * q + s /\ s * q = q * s /\ s * q \in Nat
    BY <1>1
  <2> QED BY <1>1, <2>1
<1>7. r * s \in Nat /\ k * P \in Nat /\ (r + 1) * s = r * s + s /\ (r + 2) * s = r * s + s + s /\ (k + 1) * P = k * P + P
  BY <1>3
<1>8. CASE r + 1 < q
  <2>1. (r + 2) * s <= q * s
    <3>1. r + 2 \in Nat /\ r + 2 <= q
      BY <1>1, <1>3, <1>8
    <3> QED BY <1>1, <3>1, ProductGrows
  <2>2. q * s \in Nat /\ (r + 2) * s \in Nat
    BY <1>1, <1>3
  <2>3. ~(ind + s + s > start + P)
    BY <1>5, <1>6, <1>7, <2>1, <2>2
  <2>4. start = ((d + 1) \div q) * P /\ ind + s = start + ((d + 1) % q) * s
    <3>1. start = k * P /\ ind + s = start + (r + 1) * s
      BY <1>5, <1>7
    <3> QED BY <1>4, <1>8, <3>1
  <2> QED BY <2>3, <2>4 DEF q, Lies
<1>9. CASE r + 1 = q
  <2>1. (q + 1) * s = r * s + s + s
    BY <1>3, <1>7, <1>9
  <2>2. ind + s + s > start + P
    BY <1>5, <1>6, <1>7, <2>1
  <2>3. start + P = ((d + 1) \div q) * P /\ ((d + 1) % q) * s = 0
    <3>1. start + P = (k + 1) * P /\ 0 * s = 0
      BY <1>5, <1>7
    <3> QED BY <1>4, <1>9, <3>1
  <2> QED BY <2>2, <2>3 DEF q, Lies
<1> QED BY <1>1, <1>3, <1>8, <1>9

\* Before the first row.
LEMMA FirstPlace ==
  ASSUME NEW size \in RowSizes, NEW r, r.at = 0, r.start = 0
  PROVE  Placed(r, 0, size)
<1>1. PageSize \in Nat /\ size \in 1 .. PageSize
  BY BoundsAssumption
<1> DEFINE q == PageSize \div size
<1>2. q \in Nat /\ q > 0
  <2>1. PageSize = size * q + (PageSize % size) /\ PageSize % size < size /\ PageSize % size \in Nat /\ q \in Nat
    BY <1>1, DivideBy
  <2>2. CASE q = 0
    <3>1. size * q = 0
      BY <1>1, <2>2
    <3> QED BY <1>1, <2>1, <3>1
  <2> QED BY <2>1, <2>2
<1> HIDE DEF q
<1>3. 0 \div q = 0 /\ 0 % q = 0
  BY <1>2
<1>4. (0 \div q) * PageSize = 0 /\ (0 % q) * size = 0
  BY <1>1, <1>3
<1> QED BY <1>4 DEF Placed, Lies, q

\* NextRow goes from one row to the next.
LEMMA NextRowPlaced ==
  ASSUME row \in RowType, shape.recSize \in RowSizes, NEW d \in Nat, Placed(row, d, shape.recSize)
  PROVE  NextRow \in RowType /\ Placed(NextRow, d + 1, shape.recSize)
<1> DEFINE s == shape.recSize
<1>1. PageSize \in Nat /\ s \in 1 .. PageSize /\ s \in Nat
  <2>1. \A z \in RowSizes : z \in 1 .. PageSize /\ z \in Nat
    BY BoundsAssumption
  <2> QED BY <2>1, BoundsAssumption
<1>2. PICK ind \in Nat, start \in Nat, end \in Nat : row = [at |-> ind, start |-> start, end |-> end]
  BY DEF RowType
<1>3. row.at = ind /\ row.start = start
  BY <1>2
<1>4. Lies(PageSize, s, d, ind, start)
  BY <1>3 DEF Placed
<1> HIDE DEF s
<1>5. IF ind + s + s > start + PageSize
      THEN Lies(PageSize, s, d + 1, start + PageSize, start + PageSize)
      ELSE Lies(PageSize, s, d + 1, ind + s, start)
  BY <1>1, <1>2, <1>4, NextPlace
<1>6. /\ \A a \in Nat : LET new == [row EXCEPT !.at = a] IN new \in RowType /\ new.at = a /\ new.start = start
      /\ \A a, b \in Nat : LET new == [row EXCEPT !.start = b, !.at = a] IN new \in RowType /\ new.at = a /\ new.start = b
  BY <1>3 DEF RowType
<1>7. start + PageSize \in Nat /\ ind + s \in Nat
  BY <1>1
<1>8. CASE ind + s + s > start + PageSize
  <2>1. NextRow = [row EXCEPT !.start = start + PageSize, !.at = start + PageSize]
    BY <1>3, <1>8 DEF NextRow, s
  <2>2. NextRow \in RowType /\ NextRow.at = start + PageSize /\ NextRow.start = start + PageSize
    BY <1>6, <1>7, <2>1
  <2> QED BY <1>5, <1>8, <2>2 DEF Placed, s
<1>9. CASE ~(ind + s + s > start + PageSize)
  <2>1. NextRow = [row EXCEPT !.at = ind + s]
    BY <1>3, <1>9 DEF NextRow, s
  <2>2. NextRow \in RowType /\ NextRow.at = ind + s /\ NextRow.start = start
    BY <1>6, <1>7, <2>1
  <2> QED BY <1>5, <1>9, <2>2 DEF Placed, s
<1> QED BY <1>8, <1>9

\* Steps that leave the shape, the row and the number of objects alone.
LEMMA RowKept ==
  ASSUME RowInv, UNCHANGED <<shape, row>>, Len(list') = Len(list),
         \/ pc' = pc \/ pc' \notin {"7c", "7c5", "object", "element"}
  PROVE  RowInv'
BY DEF RowInv

\* Every step keeps the rows in their places.
LEMMA RowStep ==
  ASSUME Inv, Inv', RowInv, [Next]_vars
  PROVE  RowInv'
<1> USE DEF RowInv
<1>1. CASE ReadFails \/ ReadSingle \/ ReadSubBlocks \/ UnknownType
  BY <1>1, RowKept DEF ReadFails, ReadSingle, ReadSubBlocks, UnknownType, Unparsed, Refuse
<1>2. CASE BcHeader
  <2>1. pc' \in {"bc", "done"} /\ UNCHANGED <<shape, row>>
    BY <1>2 DEF BcHeader, Fetch, Refuse
  <2> QED BY <2>1
<1>3. CASE BcList
  <2>1. shape'.kind = "bc" /\ row' = row /\ pc' \in {"object", "done"}
    BY <1>3 DEF BcList, Fetch, Refuse
  <2> QED BY <2>1
<1>4. CASE SevenHeader
  <2>1. row' = row /\ pc' \in {"7c", "done"}
    BY <1>4 DEF SevenHeader, Fetch, Refuse
  <2>2. PICK count \in 0 .. MaxElements, size \in RowSizes : \E records \in 0 .. count :
          shape' = [kind |-> "7c", elements |-> count, objects |-> 0, records |-> records, recSize |-> size]
    BY <1>4 DEF SevenHeader
  <2>3. shape'.objects = 0 /\ shape'.recSize \in RowSizes
    BY <2>2
  <2> QED BY <2>1, <2>3
<1>5. CASE SevenFive
  <2>1. pc = "7c" /\ pc' \in {"object", "7c5", "done"} /\ UNCHANGED <<shape, row>>
    BY <1>5 DEF SevenFive, Fetch, Refuse
  <2> QED BY <2>1
<1>6. CASE SevenRows
  <2>1. pc = "7c5" /\ pc' \in {"object", "done"} /\ list' = list
    BY <1>6 DEF SevenRows, Refuse, Unparsed
  <2>2. list = <<>> /\ shape.kind = "7c" /\ shape \in ShapeType
    BY <2>1 DEF Inv, Phase, Types
  <2>3. PICK count \in 0 .. MaxObjects : shape' = [shape EXCEPT !.objects = count]
    BY <1>6 DEF SevenRows
  <2>4. shape'.kind = "7c" /\ shape'.recSize = shape.recSize
    BY <2>2, <2>3 DEF ShapeType
  <2>5. PICK end \in RowEnds : row' = [NoRow EXCEPT !.end = end]
    BY <1>6 DEF SevenRows
  <2>6. end \in Nat
    BY BoundsAssumption
  <2>7. row' \in RowType /\ row'.at = 0 /\ row'.start = 0
    BY <2>5, <2>6 DEF NoRow, RowType
  <2>8. Placed(row', 0, shape'.recSize)
    BY <2>2, <2>4, <2>7, FirstPlace
  <2>9. Len(list') = 0 /\ pc' # "element" /\ pc' \notin {"7c", "7c5"}
    BY <2>1, <2>2
  <2> QED BY <2>2, <2>4, <2>7, <2>8, <2>9
<1>7. CASE NewObject
  <2>1. /\ pc = "object" /\ pc' = "element" /\ UNCHANGED <<shape, row>>
        /\ list' = <<[elements |-> [i \in 1 .. shape.elements |-> NoElement], count |-> shape.elements,
                      objects |-> shape.objects]>> \o list
    BY <1>7 DEF NewObject
  <2>2. \A o : Len(<<o>> \o list) = Len(list) + 1 /\ Len(list) \in Nat
    BY DEF Inv, Types
  <2>3. Len(list') - 1 = Len(list)
    BY <2>1, <2>2
  <2> QED BY <2>1, <2>3
<1>8. CASE InlineElement \/ UnknownElement \/ LargeElement \/ MissingElement \/ LaterElement \/ CopiedElement
  <2>1. UNCHANGED <<pc, shape, row>> /\ Len(list') = Len(list)
    <3>1. list \in Seq(ObjectType)
      BY DEF Inv, Types
    <3>2. \A e, k : Len([list EXCEPT ![1].elements[k] = e]) = Len(list)
      BY <3>1
    <3>3. \A e, k : Len([list EXCEPT ![1].elements[k] = e, ![1].count = @ - 1]) = Len(list)
      BY <3>1
    <3>4. (\E h, p, e : Fill(h, p, e)) \/ (\E h, p : SkipElement(p, h))
      BY <1>8 DEF InlineElement, UnknownElement, LargeElement, MissingElement, LaterElement, CopiedElement
    <3>5. CASE \E h, p, e : Fill(h, p, e)
      BY <3>2, <3>5 DEF Fill
    <3>6. CASE \E h, p : SkipElement(p, h)
      BY <3>3, <3>6 DEF SkipElement
    <3> QED BY <3>4, <3>5, <3>6
  <2> QED BY <2>1, RowKept
<1>9. CASE EndObject
  <2>1. /\ pc = "element" /\ pc' = "object" /\ UNCHANGED shape
        /\ list' = [list EXCEPT ![1].count = x - 1]
        /\ row' = IF shape.kind = "7c" THEN NextRow ELSE row
    BY <1>9 DEF EndObject
  <2>2. list \in Seq(ObjectType) /\ list # <<>> /\ Len(list) <= shape.objects /\ shape \in ShapeType
    BY <2>1 DEF Inv, Types, Phase, Filling
  <2>3. Len(list') = Len(list) /\ Len(list) - 1 \in Nat /\ shape.objects > 0
    BY <2>1, <2>2 DEF ShapeType
  <2>4. CASE shape.kind = "7c"
    <3>1. PICK d \in Nat : d = Len(list) - 1 /\ d + 1 = Len(list)
      BY <2>2, <2>3
    <3>2. Placed(row, d, shape.recSize) /\ shape.recSize \in RowSizes
      BY <2>1, <2>3, <2>4, <3>1
    <3>3. NextRow \in RowType /\ Placed(NextRow, d + 1, shape.recSize)
      BY <3>2, NextRowPlaced
    <3> QED BY <2>1, <2>3, <2>4, <3>1, <3>3
  <2>5. CASE shape.kind # "7c"
    BY <2>1, <2>5
  <2> QED BY <2>4, <2>5
<1>10. CASE Return
  BY <1>10, RowKept DEF Return
<1>11. CASE FreeList
  BY <1>11 DEF FreeList
<1>12. CASE Done \/ UNCHANGED vars
  BY <1>12 DEF Done, vars
<1>13. QED
  BY <1>1, <1>2, <1>3, <1>4, <1>5, <1>6, <1>7, <1>8, <1>9, <1>10, <1>11, <1>12 DEF Next

(* The rows of a table are read where the format has them: as many as fit  *)
(* into a page, and the next one at the start of the next page, for every  *)
(* size of the rows and of the pages and any number of rows.               *)
THEOREM RowsWhereTheyBelong == Spec => []RowsInPages
<1>1. Init => RowInv
  BY DEF Init, RowInv, NoShape, NoRow, RowType
<1>2. Spec => [](Inv /\ RowInv)
  BY <1>1, InitInv, StepInv, RowStep, PTL DEF Spec
<1>3. RowInv => RowsInPages
  BY DEF RowInv, RowsInPages, Placed, Lies
<1>4. QED
  BY <1>2, <1>3, PTL
-----------------------------------------------------------------------------
(* Extended attributes: the list is sorted and keeps what was read.        *)

Entries == [map : Nat, kind : {"attrib", "header"}, target : Targets]

\* t is s with e at place i.
Inserted(s, t, i, e) ==
  /\ Len(t) = Len(s) + 1 /\ i \in 1 .. Len(t) /\ t[i] = e
  /\ \A j \in 1 .. Len(s) : t[IF j < i THEN j ELSE j + 1] = s[j]

LEMMA InsertAtPlace ==
  ASSUME NEW S, NEW s \in Seq(S), NEW e \in S, NEW i \in 1 .. Len(s) + 1
  PROVE  InsertAt(s, i, e) \in Seq(S) /\ Inserted(s, InsertAt(s, i, e), i, e)
<1> DEFINE a == SubSeq(s, 1, i - 1)
           b == SubSeq(s, i, Len(s))
<1>1. /\ a \in Seq(S) /\ Len(a) = i - 1 /\ \A j \in 1 .. i - 1 : a[j] = s[j]
      /\ b \in Seq(S) /\ Len(b) = Len(s) - i + 1 /\ \A j \in 1 .. Len(b) : b[j] = s[i + j - 1]
  OBVIOUS
<1>2. InsertAt(s, i, e) = a \o <<e>> \o b
  BY DEF InsertAt
<1> HIDE DEF a, b
<1> DEFINE c == a \o <<e>>
           t == c \o b
<1>3. c \in Seq(S) /\ Len(c) = i /\ c[i] = e /\ \A j \in 1 .. i - 1 : c[j] = s[j]
  <2>1. c \in Seq(S) /\ Len(c) = Len(a) + 1
    BY <1>1
  <2>2. \A j \in 1 .. Len(a) + 1 : c[j] = IF j <= Len(a) THEN a[j] ELSE <<e>>[j - Len(a)]
    BY <1>1
  <2>3. \A j \in 1 .. i : c[j] = IF j <= i - 1 THEN s[j] ELSE <<e>>[j - (i - 1)]
    BY <1>1, <2>2
  <2> HIDE DEF c
  <2>4. c[i] = e
    BY <2>3
  <2>5. \A j \in 1 .. i - 1 : c[j] = s[j]
    BY <2>3
  <2> QED BY <1>1, <2>1, <2>4, <2>5
<1> HIDE DEF c
<1>4. t \in Seq(S) /\ Len(t) = Len(s) + 1 /\ t[i] = e /\ \A j \in 1 .. i - 1 : t[j] = s[j]
  <2>1. t \in Seq(S) /\ Len(t) = Len(s) + 1
    BY <1>1, <1>3
  <2>2. \A j \in 1 .. i : t[j] = c[j]
    BY <1>1, <1>3
  <2> QED BY <1>3, <2>1, <2>2
<1>5. ASSUME NEW j \in 1 .. Len(s), ~ (j < i) PROVE t[j + 1] = s[j]
  <2>1. j + 1 \in Len(c) + 1 .. Len(c) + Len(b) /\ j + 1 - Len(c) \in 1 .. Len(b)
        /\ i + (j + 1 - Len(c)) - 1 = j
    BY <1>1, <1>3, <1>5
  <2>2. t[j + 1] = b[j + 1 - Len(c)]
    BY <1>1, <1>3, <2>1
  <2> QED BY <1>1, <2>1, <2>2
<1>6. t = InsertAt(s, i, e)
  BY <1>2 DEF c
<1> HIDE DEF t
<1>7. \A j \in 1 .. Len(s) : t[IF j < i THEN j ELSE j + 1] = s[j]
  BY <1>4, <1>5
<1>8. i \in 1 .. Len(t)
  BY <1>4
<1> QED BY <1>4, <1>6, <1>7, <1>8 DEF Inserted

LEMMA AppendInserts ==
  ASSUME NEW S, NEW s \in Seq(S), NEW e \in S
  PROVE  Append(s, e) \in Seq(S) /\ Inserted(s, Append(s, e), Len(s) + 1, e)
BY DEF Inserted

\* How often y is in s.
Times(s, y) == Cardinality({k \in DOMAIN s : s[k] = y})

LEMMA TimesInserted ==
  ASSUME NEW S, NEW s \in Seq(S), NEW t \in Seq(S), NEW i, NEW e, NEW y, Inserted(s, t, i, e)
  PROVE  Times(t, y) = Times(s, y) + (IF y = e THEN 1 ELSE 0)
<1> DEFINE A == {k \in DOMAIN s : s[k] = y}
           B == {k \in DOMAIN t : t[k] = y}
           C == B \ {i}
           f == [k \in A |-> IF k < i THEN k ELSE k + 1]
<1>0. /\ DOMAIN s = 1 .. Len(s) /\ DOMAIN t = 1 .. Len(s) + 1 /\ Len(s) \in Nat
      /\ i \in 1 .. Len(s) + 1 /\ t[i] = e
      /\ \A j \in 1 .. Len(s) : t[IF j < i THEN j ELSE j + 1] = s[j]
  BY DEF Inserted
<1>1. IsFiniteSet(A) /\ IsFiniteSet(B) /\ Cardinality(A) \in Nat
  <2>1. A \subseteq DOMAIN s /\ B \subseteq DOMAIN t
    OBVIOUS
  <2>2. IsFiniteSet(1 .. Len(s)) /\ IsFiniteSet(1 .. Len(s) + 1)
    BY <1>0, FS_Interval
  <2> HIDE DEF A, B
  <2> QED BY <1>0, <2>1, <2>2, FS_Subset, FS_CardinalityType
<1>2. ASSUME NEW k \in A
      PROVE  /\ (IF k < i THEN k ELSE k + 1) \in C
  BY <1>0
<1>3. ASSUME NEW c \in C PROVE \E k \in A : c = (IF k < i THEN k ELSE k + 1)
  <2>1. CASE c < i
    <3>1. c \in 1 .. Len(s) /\ t[c] = s[c] /\ t[c] = y
      BY <1>0, <2>1
    <3> QED BY <1>0, <2>1, <3>1
  <2>2. CASE ~ (c < i)
    <3>1. c - 1 \in 1 .. Len(s) /\ ~ (c - 1 < i) /\ c - 1 + 1 = c
      BY <1>0, <2>2
    <3>2. s[c - 1] = t[c]
      BY <1>0, <3>1
    <3>3. c - 1 \in A
      BY <1>0, <3>1, <3>2
    <3> QED BY <3>1, <3>3
  <2> QED BY <2>1, <2>2
<1>4. A \subseteq Int /\ i \in Int
  BY <1>0
<1>5. f \in Bijection(A, C)
  <2>1. f \in [A -> C]
    BY <1>2
  <2>2. \A k, l \in A : f[k] = f[l] => k = l
    BY <1>4
  <2>3. \A c \in C : \E k \in A : f[k] = c
    BY <1>3
  <2> HIDE DEF f, A, C
  <2>4. f \in Injection(A, C)
    BY <2>1, <2>2 DEF Injection, IsInjective
  <2>5. f \in Surjection(A, C)
    BY <2>1, <2>3 DEF Surjection
  <2> QED BY <2>4, <2>5 DEF Bijection
<1>6. Cardinality(C) = Cardinality(A)
  <2>1. ExistsBijection(A, C)
    BY <1>5 DEF ExistsBijection
  <2> QED BY <1>1, <2>1, FS_Bijection
<1>7. CASE y = e
  <2>1. i \in B
    BY <1>0, <1>7
  <2>2. Times(s, y) = Cardinality(A) /\ Times(t, y) = Cardinality(B)
    BY DEF Times
  <2> HIDE DEF A, B
  <2>3. Cardinality(C) = Cardinality(B) - 1 /\ Cardinality(B) \in Nat
    BY <1>1, <2>1, FS_RemoveElement, FS_CardinalityType
  <2> QED BY <1>1, <1>6, <1>7, <2>2, <2>3
<1>8. CASE y # e
  <2>1. C = B
    BY <1>0, <1>8
  <2>2. Times(s, y) = Cardinality(A) /\ Times(t, y) = Cardinality(B)
    BY DEF Times
  <2> HIDE DEF A, B, C
  <2> QED BY <1>1, <1>6, <1>8, <2>1, <2>2
<1> QED BY <1>7, <1>8

\* The place a walk ends at.
LEMMA PassedFacts ==
  ASSUME NEW s \in Seq(Entries), NEW m \in Nat
  PROVE  /\ Passed(s, m) \in 0 .. Len(s)
         /\ \A j \in 1 .. Passed(s, m) : s[j].map < m
         /\ Passed(s, m) < Len(s) => s[Passed(s, m) + 1].map >= m
<1> DEFINE E == {k \in DOMAIN s : s[k].map >= m}
           p == CHOOSE k \in E : \A j \in E : k <= j
<1>1. \A j \in DOMAIN s : s[j].map \in Nat
  <2> SUFFICES ASSUME NEW j \in DOMAIN s PROVE s[j].map \in Nat
    OBVIOUS
  <2>1. s[j] \in Entries
    OBVIOUS
  <2> QED BY <2>1 DEF Entries
<1>2. CASE E = {}
  <2>1. Passed(s, m) = Len(s)
    BY <1>2 DEF Passed
  <2> QED BY <1>1, <1>2, <2>1
<1>3. CASE E # {}
  <2>1. E \subseteq Nat
    OBVIOUS
  <2>2. \E k \in E : \A j \in E : ~ (<<j, k>> \in OpToRel(<, Nat))
    BY <1>3, <2>1, NatLessThanWellFounded, WFMin
  <2>3. \E k \in E : \A j \in E : k <= j
    <3> HIDE DEF E
    <3>1. PICK k \in E : \A j \in E : ~ (<<j, k>> \in OpToRel(<, Nat))
      BY <2>2
    <3>2. \A j \in E : ~ (j < k)
      BY <2>1, <3>1 DEF OpToRel
    <3>3. ASSUME NEW j \in E PROVE k <= j
      <4>1. j \in Nat /\ k \in Nat
        BY <2>1
      <4> QED BY <3>2, <4>1
    <3> QED BY <3>3
  <2>4. p \in E /\ \A j \in E : p <= j
    BY <2>3
  <2>5. Passed(s, m) = p - 1
    BY <1>3 DEF Passed
  <2> HIDE DEF p
  <2>6. p \in 1 .. Len(s) /\ s[p].map >= m
    BY <2>4
  <2>7. \A j \in 1 .. p - 1 : s[j].map < m
    <3> SUFFICES ASSUME NEW j \in 1 .. p - 1 PROVE s[j].map < m
      OBVIOUS
    <3>1. j \in DOMAIN s /\ ~ (p <= j)
      BY <2>6
    <3> QED BY <1>1, <2>4, <3>1
  <2>8. p - 1 \in 0 .. Len(s) /\ p - 1 + 1 = p
    BY <2>6
  <2> QED BY <2>5, <2>6, <2>7, <2>8
<1> QED BY <1>2, <1>3

-----------------------------------------------------------------------------
\* The list is sorted, holds what was read, and the first entry of a map is the
\* last record for it.
AttributeTypes ==
  /\ header \in BOOLEAN
  /\ head \in Seq(Entries) /\ loaded \in Seq(Entries)
Sorted == \A j, k \in DOMAIN head : j < k => head[j].map <= head[k].map
AllKept == \A e \in Entries : Times(head, e) = Times(loaded, e)
Newest(e) == \E i \in DOMAIN loaded : /\ loaded[i] = e
                                      /\ \A j \in DOMAIN loaded : loaded[j].map = e.map => j <= i
FirstIsNewest ==
  \A k \in DOMAIN head : (\A j \in DOMAIN head : j < k => head[j].map < head[k].map) => Newest(head[k])
MapsCovered == \A i \in DOMAIN loaded : \E k \in DOMAIN head : head[k].map = loaded[i].map

AttributeInv == AttributeTypes /\ Sorted /\ AllKept /\ FirstIsNewest /\ MapsCovered

LEMMA AttributesStart == AttributeInit => AttributeInv
<1> SUFFICES ASSUME AttributeInit PROVE AttributeInv
  OBVIOUS
<1>1. head = <<>> /\ loaded = <<>> /\ header = FALSE
  BY DEF AttributeInit
<1>2. head \in Seq(Entries) /\ DOMAIN head = {} /\ DOMAIN loaded = {}
  BY <1>1
<1> QED BY <1>1, <1>2 DEF AttributeInv, AttributeTypes, Sorted, AllKept, FirstIsNewest, MapsCovered, Times

LEMMA InsertKeeps ==
  ASSUME AttributeInv, NEW e \in Entries, Insert(e), header' = header
  PROVE  AttributeInv'
<1> DEFINE i == Passed(head, e.map) + 1
           N == Len(head)
           M == Len(loaded)
<1>0. /\ head \in Seq(Entries) /\ loaded \in Seq(Entries) /\ header \in BOOLEAN
      /\ N \in Nat /\ M \in Nat /\ DOMAIN head = 1 .. N /\ DOMAIN loaded = 1 .. M /\ e.map \in Nat
  BY DEF AttributeInv, AttributeTypes, Entries
<1>1. /\ i \in 1 .. N + 1
      /\ \A j \in 1 .. i - 1 : head[j].map < e.map
      /\ i <= N => head[i].map >= e.map
  <2> DEFINE p == Passed(head, e.map)
  <2>1. /\ p \in 0 .. N /\ \A j \in 1 .. p : head[j].map < e.map
        /\ p < N => head[p + 1].map >= e.map
    BY <1>0, PassedFacts
  <2>2. i = p + 1
    OBVIOUS
  <2> HIDE DEF p, i
  <2> QED BY <1>0, <2>1, <2>2
<1>2. head' = InsertAt(head, i, e) /\ loaded' = Append(loaded, e)
  BY DEF Insert
<1> HIDE DEF i
<1>3. head' \in Seq(Entries) /\ Inserted(head, head', i, e)
  BY <1>0, <1>1, <1>2, InsertAtPlace
<1>4. loaded' \in Seq(Entries) /\ Inserted(loaded, loaded', M + 1, e)
  BY <1>0, <1>2, AppendInserts
<1>5. \A j \in 1 .. N : head[j].map \in Nat
  <2>1. \A j \in 1 .. N : head[j] \in Entries
    BY <1>0
  <2> QED BY <2>1 DEF Entries
<1> DEFINE up(j) == IF j < i THEN j ELSE j + 1
<1>6. /\ DOMAIN head' = 1 .. N + 1 /\ head'[i] = e
      /\ \A j \in 1 .. N : up(j) \in 1 .. N + 1 /\ up(j) # i /\ head'[up(j)] = head[j]
      /\ \A k \in 1 .. N + 1 : k # i => \E j \in 1 .. N : k = up(j)
  <2>1. DOMAIN head' = 1 .. N + 1 /\ head'[i] = e
    BY <1>0, <1>3 DEF Inserted
  <2>2. \A j \in 1 .. N : up(j) \in 1 .. N + 1 /\ up(j) # i /\ head'[up(j)] = head[j]
    BY <1>0, <1>1, <1>3 DEF Inserted
  <2>3. ASSUME NEW k \in 1 .. N + 1, k # i PROVE \E j \in 1 .. N : k = up(j)
    <3>1. CASE k < i
      BY <1>0, <1>1, <3>1
    <3>2. CASE ~ (k < i)
      <4>1. k - 1 \in 1 .. N /\ k = up(k - 1)
        BY <1>0, <1>1, <2>3, <3>2
      <4> QED BY <4>1
    <3> QED BY <3>1, <3>2
  <2> QED BY <2>1, <2>2, <2>3
<1>7. /\ DOMAIN loaded' = 1 .. M + 1 /\ loaded'[M + 1] = e
      /\ \A j \in 1 .. M : loaded'[j] = loaded[j]
  BY <1>0, <1>2
<1>8. \A j \in 1 .. N : /\ j < i => head[j].map < e.map
                        /\ ~ (j < i) => head[j].map >= e.map
  <2> SUFFICES ASSUME NEW j \in 1 .. N, ~ (j < i) PROVE head[j].map >= e.map
    BY <1>0, <1>1
  <2>1. i <= N /\ i \in 1 .. N
    BY <1>0, <1>1
  <2>2. i = j \/ head[i].map <= head[j].map
    BY <1>0, <1>1, <2>1 DEF AttributeInv, Sorted
  <2> QED BY <1>0, <1>1, <1>5, <2>1, <2>2
<1>9. \A j, k \in 1 .. N : j < k <=> up(j) < up(k)
  BY <1>0, <1>1
<1>10. \A j \in 1 .. N : (up(j) < i <=> j < i) /\ (i < up(j) <=> ~ (j < i))
  BY <1>0, <1>1
<1> HIDE DEF up
<1>11. Sorted'
  <2> SUFFICES ASSUME NEW p \in 1 .. N + 1, NEW q \in 1 .. N + 1, p < q
               PROVE  head'[p].map <= head'[q].map
    BY <1>6 DEF Sorted
  <2>1. CASE p = i
    <3>1. PICK k \in 1 .. N : q = up(k)
      BY <1>0, <1>1, <1>6, <2>1
    <3> QED BY <1>0, <1>5, <1>6, <1>8, <1>10, <2>1, <3>1
  <2>2. CASE q = i
    <3>1. PICK j \in 1 .. N : p = up(j)
      BY <1>0, <1>1, <1>6, <2>2
    <3>2. head[j].map < e.map /\ head[j].map \in Nat
      BY <1>0, <1>5, <1>8, <1>10, <2>2, <3>1
    <3>3. head'[p] = head[j] /\ head'[q] = e
      BY <1>6, <2>2, <3>1
    <3> QED BY <1>0, <3>2, <3>3
  <2>3. CASE p # i /\ q # i
    <3>1. PICK j \in 1 .. N, k \in 1 .. N : p = up(j) /\ q = up(k)
      BY <1>6, <2>3
    <3>2. head[j].map <= head[k].map
      BY <1>0, <1>9, <3>1 DEF AttributeInv, Sorted
    <3> QED BY <1>6, <3>1, <3>2
  <2> QED BY <2>1, <2>2, <2>3
<1>12. AllKept'
  <2> SUFFICES ASSUME NEW y \in Entries PROVE Times(head', y) = Times(loaded', y)
    BY DEF AllKept
  <2>1. Times(head, y) = Times(loaded, y)
    BY DEF AttributeInv, AllKept
  <2>2. Times(head', y) = Times(head, y) + (IF y = e THEN 1 ELSE 0)
    BY <1>0, <1>3, TimesInserted
  <2>3. Times(loaded', y) = Times(loaded, y) + (IF y = e THEN 1 ELSE 0)
    BY <1>0, <1>4, TimesInserted
  <2> QED BY <2>1, <2>2, <2>3
<1>13. FirstIsNewest'
  <2> SUFFICES ASSUME NEW q \in 1 .. N + 1,
                      \A p \in 1 .. N + 1 : p < q => head'[p].map < head'[q].map
               PROVE  Newest(head[q])'
    BY <1>6 DEF FirstIsNewest
  <2>1. CASE q = i
    BY <1>0, <1>6, <1>7, <2>1 DEF Newest
  <2>2. CASE q # i
    <3>1. PICK k \in 1 .. N : q = up(k) /\ head'[q] = head[k]
      BY <1>6, <2>2
    <3>2. ASSUME NEW j \in 1 .. N, j < k PROVE head[j].map < head[k].map
      BY <1>6, <1>9, <3>1, <3>2
    <3>3. Newest(head[k])
      BY <1>0, <3>2 DEF AttributeInv, FirstIsNewest
    <3>4. head[k].map # e.map
      <4>1. CASE q < i
        BY <1>0, <1>5, <1>8, <1>10, <3>1, <4>1
      <4>2. CASE ~ (q < i)
        <5>1. i < q
          BY <1>0, <1>1, <2>2, <4>2
        <5>2. e.map < head[k].map
          BY <1>1, <1>6, <3>1, <5>1
        <5> QED BY <1>0, <1>5, <5>2
      <4> QED BY <4>1, <4>2
    <3>5. PICK a \in 1 .. M : /\ loaded[a] = head[k]
                              /\ \A j \in 1 .. M : loaded[j].map = head[k].map => j <= a
      BY <1>0, <3>3 DEF Newest
    <3>6. a \in 1 .. M + 1 /\ loaded'[a] = head'[q]
      BY <1>0, <1>7, <3>1, <3>5
    <3>7. \A j \in 1 .. M + 1 : loaded'[j].map = head'[q].map => j <= a
      <4> SUFFICES ASSUME NEW j \in 1 .. M + 1, loaded'[j].map = head[k].map PROVE j <= a
        BY <3>1
      <4>1. j # M + 1
        BY <1>7, <3>4
      <4>2. j \in 1 .. M
        <5>1. M \in Nat
          BY <1>0
        <5> HIDE DEF M
        <5> QED BY <4>1, <5>1
      <4> QED BY <1>7, <3>5, <4>2
    <3> QED BY <1>7, <3>6, <3>7 DEF Newest
  <2> QED BY <2>1, <2>2
<1>14. MapsCovered'
  <2> SUFFICES ASSUME NEW a \in 1 .. M + 1 PROVE \E k \in 1 .. N + 1 : head'[k].map = loaded'[a].map
    BY <1>6, <1>7 DEF MapsCovered
  <2>1. CASE a = M + 1
    BY <1>0, <1>1, <1>6, <1>7, <2>1
  <2>2. CASE a \in 1 .. M
    <3>1. PICK k \in 1 .. N : head[k].map = loaded[a].map
      BY <1>0, <2>2 DEF AttributeInv, MapsCovered
    <3> QED BY <1>6, <1>7, <2>2, <3>1
  <2> QED BY <1>0, <2>1, <2>2
<1>15. AttributeTypes'
  BY <1>0, <1>3, <1>4 DEF AttributeTypes
<1> QED BY <1>11, <1>12, <1>13, <1>14, <1>15 DEF AttributeInv

LEMMA AttributesStep == AttributeInv /\ [AttributeNext]_attributeVars => AttributeInv'
<1> SUFFICES ASSUME AttributeInv, [AttributeNext]_attributeVars PROVE AttributeInv'
  OBVIOUS
<1>1. CASE Record
  <2>1. \A m \in Short : m + Half \in Nat
    BY AttributeAssumption DEF Short
  <2>2. PICK e \in Entries : Insert(e)
    BY <1>1, <2>1 DEF Record, Entries
  <2> QED BY <1>1, <2>2, InsertKeeps DEF Record
<1>2. CASE head' = head /\ loaded' = loaded /\ header' \in BOOLEAN
  BY <1>2 DEF AttributeInv, AttributeTypes, Sorted, AllKept, FirstIsNewest, Newest, MapsCovered, Times
<1>3. header \in BOOLEAN
  BY DEF AttributeInv, AttributeTypes
<1> QED BY <1>1, <1>2, <1>3 DEF AttributeNext, Start, Loaded, attributeVars

\* The lookup finds the first entry of a map, if there is one.
LEMMA LookUpFacts ==
  ASSUME AttributeInv, NEW type \in Nat
  PROVE  \/ LookUp(type) = Unmapped /\ \A k \in DOMAIN head : head[k].map # type
         \/ \E k \in DOMAIN head : /\ head[k].map = type /\ Newest(head[k])
                                   /\ LookUp(type) = [kind |-> head[k].kind, target |-> head[k].target]
<1> DEFINE k == Passed(head, type) + 1
<1>0. head \in Seq(Entries) /\ Len(head) \in Nat /\ DOMAIN head = 1 .. Len(head)
  BY DEF AttributeInv, AttributeTypes
<1>1. /\ k \in 1 .. Len(head) + 1
      /\ \A j \in 1 .. k - 1 : head[j].map < type
      /\ k <= Len(head) => head[k].map >= type
  <2> DEFINE p == Passed(head, type)
  <2>1. /\ p \in 0 .. Len(head) /\ \A j \in 1 .. p : head[j].map < type
        /\ p < Len(head) => head[p + 1].map >= type
    BY <1>0, PassedFacts
  <2>2. k = p + 1
    OBVIOUS
  <2> HIDE DEF p, k
  <2> QED BY <1>0, <2>1, <2>2
<1>2. LookUp(type) = IF k <= Len(head) /\ head[k].map = type
                     THEN [kind |-> head[k].kind, target |-> head[k].target] ELSE Unmapped
  BY DEF LookUp
<1> HIDE DEF k
<1>3. \A j \in DOMAIN head : head[j].map \in Nat
  <2>1. \A j \in DOMAIN head : head[j] \in Entries
    BY <1>0
  <2> QED BY <2>1 DEF Entries
<1>4. CASE k <= Len(head) /\ head[k].map = type
  <2>1. k \in DOMAIN head /\ \A j \in DOMAIN head : j < k => head[j].map < head[k].map
    BY <1>0, <1>1, <1>4
  <2>2. Newest(head[k])
    BY <2>1 DEF AttributeInv, FirstIsNewest
  <2> QED BY <1>2, <1>4, <2>1, <2>2
<1>5. CASE ~ (k <= Len(head) /\ head[k].map = type)
  <2>1. ASSUME NEW j \in DOMAIN head PROVE head[j].map # type
    <3>1. CASE j < k
      BY <1>0, <1>1, <1>3, <3>1
    <3>2. CASE ~ (j < k)
      <4>1. k <= Len(head) /\ k \in DOMAIN head /\ head[k].map > type
        BY <1>0, <1>1, <1>3, <1>5, <3>2
      <4>2. k = j \/ head[k].map <= head[j].map
        BY <1>0, <1>1, <3>2, <4>1 DEF AttributeInv, Sorted
      <4> QED BY <1>3, <4>1, <4>2
    <3> QED BY <3>1, <3>2
  <2> QED BY <1>2, <1>5, <2>1
<1> QED BY <1>4, <1>5

LEMMA AttributesRight == AttributeInv => AttributesFound
<1> SUFFICES ASSUME AttributeInv PROVE AttributesFound
  OBVIOUS
<1>0. loaded \in Seq(Entries) /\ DOMAIN loaded = 1 .. Len(loaded) /\ Len(loaded) \in Nat
  BY DEF AttributeInv, AttributeTypes
<1>1. LastDefinitionWins
  <2> SUFFICES ASSUME NEW type \in Short
               PROVE  LET defs == {k \in DOMAIN loaded : loaded[k].map = type}
                      IN LookUp(type) =
                           IF defs = {} THEN Unmapped
                           ELSE LET last == loaded[CHOOSE k \in defs : \A j \in defs : j <= k]
                                IN [kind |-> last.kind, target |-> last.target]
    BY DEF LastDefinitionWins
  <2>0. type \in Nat
    BY AttributeAssumption DEF Short
  <2> DEFINE D == {k \in DOMAIN loaded : loaded[k].map = type}
             c == CHOOSE k \in D : \A j \in D : j <= k
  <2>1. CASE D = {}
    <3>1. \A k \in DOMAIN head : head[k].map = type => ~ Newest(head[k])
      BY <2>1 DEF Newest
    <3>2. LookUp(type) = Unmapped
      BY <2>0, <3>1, LookUpFacts
    <3> QED BY <2>1, <3>2
  <2>2. CASE D # {}
    <3>1. \E k \in DOMAIN head : head[k].map = type
      BY <2>2 DEF AttributeInv, MapsCovered
    <3>2. PICK k \in DOMAIN head : /\ head[k].map = type /\ Newest(head[k])
                                   /\ LookUp(type) = [kind |-> head[k].kind, target |-> head[k].target]
      BY <2>0, <3>1, LookUpFacts
    <3>3. PICK i \in DOMAIN loaded : /\ loaded[i] = head[k]
                                     /\ \A j \in DOMAIN loaded : loaded[j].map = type => j <= i
      BY <3>2 DEF Newest
    <3>4. i \in D /\ \A j \in D : j <= i
      BY <3>2, <3>3
    <3>5. c \in D /\ \A j \in D : j <= c
      BY <3>4
    <3>6. c = i
      <4> HIDE DEF c
      <4> QED BY <1>0, <3>4, <3>5
    <3> QED BY <2>2, <3>2, <3>3, <3>6
  <2> QED BY <2>1, <2>2
<1>2. ListSorted
  <2>1. ToSet(loaded) \subseteq Entries
    BY <1>0 DEF ToSet
  <2> QED BY <2>1 DEF AttributeInv, Sorted, AllKept, Times, ListSorted
<1> QED BY <1>1, <1>2 DEF AttributesFound

\* A type is renamed as its last record says (AttributesFound of XAttrib): for
\* any number of records and targets.
THEOREM LastRecordRenames == AttributeSpec => []AttributesFound
BY AttributesStart, AttributesStep, AttributesRight, PTL DEF AttributeSpec
-----------------------------------------------------------------------------
(* String buffers: what is converted fits.                                 *)

\* Induction over a set of numbers.
LEMMA SetInduction ==
  ASSUME NEW T, T \subseteq Nat, 0 \in T, \A i \in T : i + 1 \in T
  PROVE  T = Nat
<1> SUFFICES ASSUME Nat \ T # {} PROVE FALSE
  OBVIOUS
<1>1. \E k \in Nat \ T : \A j \in Nat \ T : ~ (<<j, k>> \in OpToRel(<, Nat))
  <2>1. Nat \ T \subseteq Nat
    OBVIOUS
  <2> QED BY <2>1, NatLessThanWellFounded, WFMin
<1>2. PICK k \in Nat \ T : \A j \in Nat \ T : ~ (j < k)
  BY <1>1 DEF OpToRel
<1>3. k - 1 \in Nat /\ k - 1 < k /\ (k - 1) + 1 = k
  OBVIOUS
<1>4. k - 1 \in T
  BY <1>2, <1>3
<1> QED BY <1>3, <1>4

-----------------------------------------------------------------------------
Characters == [in : Nat, out : Nat, set : {Plain, "kanji"}]

LEMMA CharsTyped == \A u : u \in Uses => Chars(u) \subseteq Characters /\ u \in {"utf16", "from", "to", "shift"}
BY BufferAssumption DEF Uses, Chars, Char, Characters, Plain

\* The bytes of a text are a number: the partial sums exist, and each is one.
Sums(text, k, f) == f = [i \in 0 .. k |-> IF i = 0 THEN 0 ELSE f[i - 1] + text[i].in]

LEMMA SumsExist ==
  ASSUME NEW text \in Seq(Characters)
  PROVE  \A k \in 0 .. Len(text) : \E f \in [0 .. k -> Nat] : Sums(text, k, f)
<1> DEFINE T == {k \in Nat : k <= Len(text) => \E f \in [0 .. k -> Nat] : Sums(text, k, f)}
<1>1. 0 \in T
  <2> DEFINE f == [i \in 0 .. 0 |-> 0]
  <2>1. f \in [0 .. 0 -> Nat] /\ Sums(text, 0, f)
    BY DEF Sums
  <2> QED BY <2>1
<1>2. ASSUME NEW k \in T PROVE k + 1 \in T
  <2> SUFFICES ASSUME k + 1 <= Len(text) PROVE \E g \in [0 .. k + 1 -> Nat] : Sums(text, k + 1, g)
    OBVIOUS
  <2>1. k \in Nat /\ Len(text) \in Nat /\ k <= Len(text)
    OBVIOUS
  <2>2. PICK f \in [0 .. k -> Nat] : Sums(text, k, f)
    BY <2>1
  <2> DEFINE g == [i \in 0 .. k + 1 |-> IF i = k + 1 THEN f[k] + text[k + 1].in ELSE f[i]]
  <2>3. text[k + 1].in \in Nat
    <3>1. k + 1 \in 1 .. Len(text)
      BY <2>1
    <3>2. text[k + 1] \in Characters
      BY <3>1
    <3> QED BY <3>2 DEF Characters
  <2>4. g \in [0 .. k + 1 -> Nat]
    BY <2>1, <2>2, <2>3
  <2>5. \A i \in 0 .. k : f[i] = IF i = 0 THEN 0 ELSE f[i - 1] + text[i].in
    BY <2>2 DEF Sums
  <2>6. \A i \in 0 .. k + 1 : g[i] = IF i = 0 THEN 0 ELSE g[i - 1] + text[i].in
    <3> SUFFICES ASSUME NEW i \in 0 .. k + 1 PROVE g[i] = IF i = 0 THEN 0 ELSE g[i - 1] + text[i].in
      OBVIOUS
    <3>1. CASE i = k + 1
      BY <3>1, <2>1
    <3>2. CASE i # k + 1
      <4>1. i \in 0 .. k /\ (i # 0 => i - 1 \in 0 .. k /\ i - 1 # k + 1)
        BY <3>2, <2>1
      <4> QED BY <4>1, <2>1, <2>5
    <3> QED BY <3>1, <3>2
  <2>7. Sums(text, k + 1, g)
    BY <2>6 DEF Sums
  <2> QED BY <2>4, <2>7
<1>3. T = Nat
  <2> HIDE DEF T
  <2>1. T \subseteq Nat
    BY DEF T
  <2> QED BY <1>1, <1>2, <2>1, SetInduction
<1> QED BY <1>3

LEMMA InBytesNat == \A text \in Seq(Characters) : InBytes(text) \in Nat
<1> SUFFICES ASSUME NEW text \in Seq(Characters) PROVE InBytes(text) \in Nat
  OBVIOUS
<1> DEFINE N == Len(text)
           F == CHOOSE f : Sums(text, N, f)
           T == {k \in Nat : k <= N => F[k] \in Nat}
<1>1. N \in Nat
  OBVIOUS
<1>2. Sums(text, N, F)
  <2>1. \E f : Sums(text, N, f)
    BY <1>1, SumsExist
  <2> QED BY <2>1
<1>3. InBytes(text) = F[N]
  BY DEF InBytes, Sums
<1> HIDE DEF F, N
<1>4. \A i \in 0 .. N : F[i] = IF i = 0 THEN 0 ELSE F[i - 1] + text[i].in
  BY <1>2 DEF Sums
<1>5. 0 \in T
  BY <1>1, <1>4
<1>6. ASSUME NEW k \in T PROVE k + 1 \in T
  <2> SUFFICES ASSUME k + 1 <= N PROVE F[k + 1] \in Nat
    OBVIOUS
  <2>1. PICK i \in 0 .. N : i = k + 1 /\ i # 0 /\ i - 1 = k
    BY <1>1
  <2>2. F[k] \in Nat /\ text[i].in \in Nat
    <3>1. i \in 1 .. Len(text) /\ F[k] \in Nat
      BY <1>1, <2>1 DEF N
    <3>2. text[i] \in Characters
      BY <3>1
    <3> QED BY <3>1, <3>2 DEF Characters
  <2> QED BY <1>4, <2>1, <2>2
<1>7. T = Nat
  <2> HIDE DEF T
  <2>1. T \subseteq Nat
    BY DEF T
  <2> QED BY <1>5, <1>6, <2>1, SetInduction
<1> QED BY <1>1, <1>3, <1>7

-----------------------------------------------------------------------------
\* pst_vbgrow makes room, for what was asked for if anything was.
LEMMA GrownHolds ==
  ASSUME NEW size \in Nat, NEW len \in Nat, NEW k \in 0 .. size
  PROVE  /\ Grown(size, k, len) \in Nat /\ Grown(size, k, len) >= size
         /\ len \in {1, 2} /\ (size >= len \/ len = 1) => Grown(size, k, len) >= k + len
<1>1. Grown(size, k, len) =
        IF len = 0 THEN size
        ELSE IF size = 0 THEN len
        ELSE IF k + len <= size THEN size
        ELSE size + (IF 2 * (k + len) < 3 * size THEN (3 * size) \div 2 ELSE len)
  BY DEF Grown, Resized, Larger
<1>2. (3 * size) \div 2 \in Nat /\ (3 * size) \div 2 >= size
  OBVIOUS
<1> QED BY <1>1, <1>2

Texts ==
  /\ at \in {"set", "resize", "iconv", "grow", "terminate", "done", "failed"}
  /\ use \in {"utf16", "from", "to", "shift"} /\ left \in Seq(Characters) /\ set \in {Plain, "kanji"}
  /\ source \in [blen : Nat, dlen : Nat]
  /\ blen \in Nat /\ dlen \in Nat

\* Nothing is in the buffer before the loop, nothing is left behind it.
BufferInv ==
  /\ Texts /\ BufferHolds
  /\ at \in {"set", "resize"} => dlen = 0
  /\ at \in {"terminate", "done"} => left = <<>>

LEMMA BufferStart == StringInit => BufferInv
<1> SUFFICES ASSUME StringInit PROVE BufferInv
  OBVIOUS
<1>1. left \in Seq(Characters) /\ use \in {"utf16", "from", "to", "shift"}
  <2>1. left \in Seq(Chars(use))
    BY DEF StringInit, SeqOf
  <2> QED BY <2>1, CharsTyped DEF StringInit
<1> QED BY <1>1, BufferAssumption DEF StringInit, BufferInv, Texts, BufferHolds

LEMMA BufferStep == BufferInv /\ [StringNext]_stringVars => BufferInv'
<1> SUFFICES ASSUME BufferInv, [StringNext]_stringVars PROVE BufferInv'
  OBVIOUS
<1> USE DEF BufferInv, BufferHolds, Texts
<1>0. InBytes(left) \in Nat
  BY InBytesNat
<1>1. CASE SetSource
  <2> DEFINE size == InBytes(left)
             room == Resized(Large, size)
  <2>1. left' \in Seq(Characters)
    <3>1. Terminator \in Seq(Characters)
      <4>1. Char(2, 1, Plain) \in Characters /\ Char(1, 1, Plain) \in Characters
        BY DEF Char, Characters
      <4> QED BY <4>1 DEF Terminator
    <3> QED BY <1>1, <3>1 DEF SetSource
  <2>2. room \in Nat /\ room >= size /\ room >= 1 /\ Resized(Large, 2) \in Nat /\ Resized(Large, 2) >= 2
    BY <1>0, BufferAssumption DEF Resized, Larger
  <2>3. size # 0 => Grown(room, size, 2) \in Nat /\ Grown(room, size, 2) >= size + 2
    <3>1. CASE room >= 2
      <4> HIDE DEF room
      <4>1. room \in Nat /\ size \in 0 .. room /\ 2 \in Nat
        BY <1>0, <2>2
      <4> QED BY <3>1, <4>1, GrownHolds
    <3>2. CASE room = 1 /\ size = 1
      BY <3>2 DEF Grown
    <3> QED BY <1>0, <2>2, <3>1, <3>2
  <2> HIDE DEF size, room
  <2>4. source' \in [blen : Nat, dlen : Nat] /\ source'.dlen <= source'.blen
    <3>1. size \in Nat
      BY <1>0 DEF size
    <3>2. source' = IF use = "utf16"
                    THEN IF size = 0 THEN [blen |-> Resized(Large, 2), dlen |-> 2]
                         ELSE [blen |-> Grown(room, size, 2), dlen |-> size + 2]
                    ELSE source
      BY <1>1 DEF SetSource, size, room
    <3> QED BY <2>2, <2>3, <3>1, <3>2
  <2> QED BY <1>1, <2>1, <2>4 DEF SetSource
<1>2. CASE Resize
  <2>1. blen' \in Nat
    BY <1>0, <1>2 DEF Resize, Resized, Larger
  <2> QED BY <1>2, <2>1 DEF Resize
<1>3. CASE Convert
  <2>0. Head(left) \in Characters
    BY <1>3 DEF Convert
  <2>1. Needed \in Nat
    BY <2>0 DEF Needed, Characters, ShiftBytes
  <2>2. left' \in Seq(Characters) /\ set' \in {Plain, "kanji"}
    <3>1. Tail(left) \in Seq(Characters) /\ Head(left).set \in {Plain, "kanji"}
      BY <1>3, <2>0 DEF Convert, Characters
    <3> QED BY <1>3, <3>1 DEF Convert
  <2> QED BY <1>3, <2>1, <2>2 DEF Convert
<1>4. CASE Invalid
  BY <1>4 DEF Invalid
<1>5. CASE Full
  BY <1>5 DEF Full
<1>6. CASE Whole
  BY <1>6 DEF Whole
<1>7. CASE Grow
  <2> DEFINE len == (IF use = "utf16" THEN 1 ELSE 2) * InBytes(left)
  <2>1. len \in Nat
    BY <1>0
  <2>2. blen' = Grown(blen, dlen, len)
    BY <1>7 DEF Grow
  <2> HIDE DEF len
  <2>3. blen' \in Nat /\ blen' >= blen
    BY <2>1, <2>2, GrownHolds
  <2> QED BY <1>7, <2>3 DEF Grow
<1>8. CASE Terminate
  <2>1. blen' \in Nat /\ blen' >= dlen + 1
    BY <1>8, GrownHolds DEF Terminate
  <2> QED BY <1>8, <2>1 DEF Terminate
<1>9. CASE UNCHANGED stringVars
  BY <1>9 DEF stringVars
<1> QED BY <1>1, <1>2, <1>3, <1>4, <1>5, <1>6, <1>7, <1>8, <1>9 DEF StringNext

\* What is in a buffer fits it (BufferHolds of StringBuffers): for all
\* texts and all sizes the buffers have at first.
THEOREM BuffersNeverShort == StringSpec => []BufferHolds
<1>1. BufferInv => BufferHolds
  BY DEF BufferInv
<1> QED BY <1>1, BufferStart, BufferStep, PTL DEF StringSpec
-----------------------------------------------------------------------------
(* Compressed RTF: the ring of the dictionary and the size of the output.  *)

\* Remainders of near numbers.
LEMMA Remainder ==
  ASSUME NEW R \in Nat \ {0}, NEW a \in Nat
  PROVE  /\ a % R \in 0 .. R - 1 /\ a \div R \in Nat
         /\ a = R * (a \div R) + (a % R)
<1>0. R \in Nat /\ R > 0
  OBVIOUS
<1>1. a = R * (a \div R) + (a % R) /\ a % R < R /\ a % R \in Nat /\ a \div R \in Nat
  BY <1>0, DivideBy, Zenon
<1>2. \A r \in Nat : r < R => r \in 0 .. R - 1
  OBVIOUS
<1> QED BY <1>1, <1>2, Zenon

\* The last R - 1 places of a text of length m are less than R apart.
LEMMA WithinRing ==
  ASSUME NEW m \in Nat, NEW R \in Nat \ {0}, NEW j \in 1 .. m, NEW k \in 1 .. m,
         j > m - (R - 1), k > m - (R - 1)
  PROVE  /\ j - 1 \in Nat /\ k - 1 \in Nat /\ j \in Nat /\ k \in Nat
         /\ (k - 1) - (j - 1) < R /\ (j - 1) - (k - 1) < R
OBVIOUS

LEMMA Apart ==
  ASSUME NEW R \in Nat \ {0}, NEW a \in Nat, NEW b \in Nat, a < b, b - a < R
  PROVE  a % R # b % R
<1> SUFFICES ASSUME a % R = b % R PROVE FALSE
  OBVIOUS
<1> DEFINE p == a \div R
           q == b \div R
<1>1. p \in Int /\ q \in Int /\ b - a = R * q - R * p
  BY Remainder
<1> HIDE DEF p, q
<1>2. b - a = R * (q - p)
  BY <1>1
<1>3. PICK m \in Int : m = q - p
  BY <1>1
<1>4. 0 < R * m /\ R * m < R
  BY <1>2, <1>3
<1>5. CASE m >= 1
  <2>1. R * m >= R
    BY <1>5
  <2> QED BY <1>3, <1>4, <2>1
<1>6. CASE m <= 0
  <2>1. R * m <= 0
    BY <1>6
  <2> QED BY <1>3, <1>4, <2>1
<1> QED BY <1>3, <1>5, <1>6

LEMMA Wrapped ==
  ASSUME NEW R \in Nat \ {0}, NEW a \in Nat, NEW b \in Nat, NEW m \in Int, b = a + R * m
  PROVE  a % R = b % R
<1> DEFINE p == a \div R
           q == b \div R
           r == a % R
           s == b % R
<1>1. /\ p \in Int /\ q \in Int /\ r \in 0 .. R - 1 /\ s \in 0 .. R - 1
      /\ a = R * p + r /\ b = R * q + s
  BY Remainder
<1> HIDE DEF p, q, r, s
<1>2. PICK k \in Int : k = p + m - q
  BY <1>1
<1>3. s - r = R * k
  <2>1. R * p + r + R * m = R * q + s
    BY <1>1
  <2>2. R * k = R * p + R * m - R * q
    BY <1>1, <1>2
  <2> QED BY <1>1, <1>2, <2>1, <2>2
<1>4. k = 0
  <2>1. CASE k >= 1
    <3>1. R * k >= R
      BY <2>1
    <3> QED BY <1>1, <1>2, <1>3, <3>1
  <2>2. CASE k <= -1
    <3>1. R * k <= -R
      BY <2>2
    <3> QED BY <1>1, <1>2, <1>3, <3>1
  <2> QED BY <1>2, <2>1, <2>2
<1>5. s = r
  BY <1>1, <1>3, <1>4
<1> QED BY <1>5 DEF r, s

LEMMA WrappedOnce ==
  ASSUME NEW R \in Nat \ {0}, NEW a \in Nat, NEW b \in Nat, b = a + R
  PROVE  a % R = b % R
<1>1. \A m \in Int : m = 1 => b = a + R * m
  OBVIOUS
<1>2. PICK m \in Int : m = 1
  OBVIOUS
<1>3. b = a + R * m
  BY <1>1, <1>2
<1> QED BY <1>3, Wrapped

LEMMA NextRemainder ==
  ASSUME NEW R \in Nat \ {0}, NEW a \in Nat
  PROVE  ((a % R) + 1) % R = (a + 1) % R
<1>1. PICK p \in Nat, r \in 0 .. R - 1 : a = R * p + r /\ r = a % R
  BY Remainder
<1>2. r + 1 \in Nat /\ a + 1 \in Nat /\ p \in Int /\ a + 1 = (r + 1) + R * p
  BY <1>1
<1>3. (r + 1) % R = (a + 1) % R
  BY <1>2, Wrapped
<1> QED BY <1>1, <1>3

LEMMA SmallRemainder == \A R \in Nat \ {0}, a \in Nat : a < R => a % R = a
<1> SUFFICES ASSUME NEW R \in Nat \ {0}, NEW a \in Nat, a < R PROVE a % R = a
  OBVIOUS
<1>1. PICK p \in Nat, r \in 0 .. R - 1 : a = R * p + r /\ r = a % R
  <2>1. a % R \in 0 .. R - 1 /\ a \div R \in Nat /\ a = R * (a \div R) + (a % R)
    BY Remainder, Zenon
  <2> QED BY <2>1, Zenon
<1>2. CASE p >= 1
  <2>1. R * p >= R
    BY <1>2
  <2> QED BY <1>1, <2>1
<1>3. CASE p = 0
  BY <1>1, <1>3
<1> QED BY <1>1, <1>2, <1>3

\* The factor of a product can be compared.
-----------------------------------------------------------------------------
Symbols == Nat \cup Bytes
Places == 0 .. Ring - 1

\* Place q of the ring is written by byte k of the text.
Recent(h, k, q) == (k - 1) % Ring = q /\ k > Len(h) - (Ring - 1)
Holds(d, h) ==
  \A q \in Places :
    \/ \E k \in 1 .. Len(h) : Recent(h, k, q) /\ d[q] = h[k]
    \/ (\A k \in 1 .. Len(h) : ~ Recent(h, k, q)) /\ d[q] = 0

\* The bytes of the output, and of the input that was used for them.
Produced == Len(history) - Len(InitDict)
OutputHolds ==
  /\ Produced >= 0 /\ Len(out) = Cut(Produced, out_size)
  /\ \A j \in 1 .. Len(out) : out[j] = history[Len(InitDict) + j]
Paid ==
  /\ in_ptr \in Nat /\ in_size \in Nat /\ compsize \in HeaderSize .. MaxCompSize /\ copy.length \in Nat
  /\ in_ptr >= HeaderSize
  /\ Produced + copy.length <= (in_ptr - HeaderSize) * MaxCopy
  /\ state # "copy" => copy.length = 0

RtfTypes ==
  /\ state \in {"group", "token", "copy", "done"} /\ tokens \in Nat
  /\ out_size \in Nat /\ copy \in [offset : Places, length : Nat]
  /\ dict \in [Places -> Symbols] /\ dict_length \in Places
  /\ out \in Seq(Symbols) /\ history \in Seq(Symbols)

Window == dict_length = Len(history) % Ring /\ Holds(dict, history)
RtfInv == RtfTypes /\ Window /\ OutputHolds /\ Paid /\ InputUsed

LEMMA RtfConstants ==
  /\ Ring \in Nat \ {0} /\ Groups \in Nat \ {0} /\ MaxCopy \in Nat /\ MaxCopy >= 2
  /\ HeaderSize \in Nat \ {0} /\ Word \in Nat \ {0} /\ MaxCompSize \in Nat
  /\ InitDict \in Seq(Symbols) /\ InitDict \in Seq(Nat) /\ Len(InitDict) \in Nat /\ Len(InitDict) < Ring
  /\ 0 \in Symbols
BY LzfuAssumption DEF Symbols

LEMMA RtfStart == RtfInit => RtfInv
<1> SUFFICES ASSUME RtfInit PROVE RtfInv
  OBVIOUS
<1> DEFINE L == Len(InitDict)
<1>1. history = InitDict /\ out = <<>> /\ L \in Nat /\ L < Ring /\ Ring \in Nat \ {0}
  BY RtfConstants DEF RtfInit
<1>2. PICK a \in 0 .. Word - 1, b \in 0 .. Word - 1 :
        in_size = Cut((a + 4) % Word, compsize) /\ out_size = Cut(b, MaxOut(compsize))
  BY DEF RtfInit
<1>3. compsize \in HeaderSize .. MaxCompSize /\ compsize \in Nat
  BY RtfConstants DEF RtfInit
<1>4. MaxOut(compsize) \in Nat /\ (a + 4) % Word \in Nat
  <2>1. (a + 4) % Word \in 0 .. Word - 1
    <3>1. a + 4 \in Nat /\ Word \in Nat \ {0}
      BY RtfConstants
    <3> QED BY <3>1, Remainder, Zenon
  <2>2. \A u, v \in Nat : u * v \in Nat
    OBVIOUS
  <2> QED BY <1>3, <2>1, <2>2, RtfConstants DEF MaxOut
<1>5. in_size \in Nat /\ in_size <= compsize /\ out_size \in Nat
  BY <1>2, <1>3, <1>4, RtfConstants DEF Cut
<1>6. Window
  <2>1. \A q \in Places : dict[q] = IF q < L THEN InitDict[q + 1] ELSE 0
    BY DEF RtfInit, Places
  <2>2. \A k \in 1 .. L : (k - 1) % Ring = k - 1 /\ k > L - (Ring - 1)
    BY <1>1, SmallRemainder
  <2>3. ASSUME NEW q \in Places, q < L
        PROVE  \E k \in 1 .. L : Recent(history, k, q) /\ dict[q] = history[k]
    <3>1. q + 1 \in 1 .. L /\ q + 1 - 1 = q
      BY <1>1, <2>3 DEF Places
    <3>2. PICK k \in 1 .. L : k = q + 1 /\ k - 1 = q
      <4>1. q \in Nat
        BY DEF Places
      <4>2. \A k : k = q + 1 => k - 1 = q
        BY <4>1
      <4> QED BY <3>1, <4>2
    <3>3. Recent(history, k, q)
      BY <1>1, <2>2, <3>2 DEF Recent
    <3> QED BY <1>1, <2>1, <2>3, <3>2, <3>3
  <2>4. ASSUME NEW q \in Places, ~ (q < L)
        PROVE  (\A k \in 1 .. L : ~ Recent(history, k, q)) /\ dict[q] = 0
    BY <1>1, <2>1, <2>2, <2>4 DEF Recent, Places
  <2>5. dict_length = Len(history) % Ring
    BY <1>1, SmallRemainder DEF RtfInit
  <2> QED BY <1>1, <2>3, <2>4, <2>5 DEF Window, Holds
<1>7. RtfTypes
  <2>1. dict \in [Places -> Symbols]
    <3>1. \A k \in Places : k < L => InitDict[k + 1] \in Symbols
      BY <1>1, RtfConstants DEF Places
    <3> QED BY <3>1, RtfConstants DEF RtfInit, Places
  <2>2. history \in Seq(Symbols) /\ out \in Seq(Symbols)
    BY <1>1, RtfConstants
  <2>3. dict_length \in Places /\ 0 \in Places
    BY <1>1 DEF RtfInit, Places
  <2> QED BY <1>5, <2>1, <2>2, <2>3 DEF RtfInit, RtfTypes
<1>8. OutputHolds
  BY <1>1, <1>5 DEF OutputHolds, Produced, Cut
<1>9. Paid /\ InputUsed
  BY <1>1, <1>3, <1>5, RtfConstants DEF RtfInit, Paid, InputUsed, Produced
<1> QED BY <1>6, <1>7, <1>8, <1>9 DEF RtfInv

LEMMA RecentAt ==
  \A h, m, k, q : Len(h) = m => (Recent(h, k, q) <=> (k - 1) % Ring = q /\ k > m - (Ring - 1))
BY Zenon DEF Recent

\* A byte is written to the ring, the text and the output.
\* What Append adds.
LEMMA Appended ==
  ASSUME NEW S, NEW s \in Seq(S), NEW e \in S
  PROVE  LET t == Append(s, e)
         IN /\ t \in Seq(S) /\ Len(t) = Len(s) + 1 /\ t[Len(s) + 1] = e
            /\ \A k \in 1 .. Len(s) : t[k] = s[k]
OBVIOUS

LEMMA EmitKeeps ==
  ASSUME RtfTypes, Window, OutputHolds, NEW b \in Symbols, Emit(b), out_size' = out_size
  PROVE  /\ dict' \in [Places -> Symbols] /\ dict_length' \in Places
         /\ out' \in Seq(Symbols) /\ history' \in Seq(Symbols)
         /\ Window' /\ OutputHolds' /\ Produced' = Produced + 1
<1> DEFINE L == Len(history)
           d == L % Ring
           e == (L + 1) % Ring
<1>1. /\ history \in Seq(Symbols) /\ L \in Nat /\ Ring \in Nat \ {0} /\ dict \in [Places -> Symbols]
      /\ dict_length = d /\ out \in Seq(Symbols) /\ out_size \in Nat /\ Len(InitDict) \in Nat
  <2>1. L \in Nat
    BY DEF RtfTypes
  <2> HIDE DEF L
  <2> QED BY <2>1, RtfConstants DEF RtfTypes, Window, L
<1>2. d \in Places /\ e \in Places
  BY <1>1, Remainder DEF Places
<1>3. dict_length' = e
  <2>1. (d + 1) % Ring = e
    BY <1>1, NextRemainder
  <2>2. dict_length' = (dict_length + 1) % Ring
    BY DEF Emit
  <2> QED BY <1>1, <2>1, <2>2
<1>4. /\ history' \in Seq(Symbols) /\ Len(history') = L + 1 /\ history'[L + 1] = b
      /\ \A k \in 1 .. L : history'[k] = history[k]
  <2>1. history' = Append(history, b)
    BY DEF Emit
  <2> QED BY <1>1, <2>1, Appended
<1>5. dict' = [dict EXCEPT ![d] = b, ![e] = 0]
  BY <1>1, <1>3 DEF Emit
<1> HIDE DEF d, e
<1>6. dict' \in [Places -> Symbols] /\ \A q \in Places : dict'[q] = IF q = e THEN 0 ELSE IF q = d THEN b ELSE dict[q]
  BY <1>1, <1>2, <1>5, RtfConstants
<1>7. Holds(dict', history')
  <2> SUFFICES ASSUME NEW q \in Places
               PROVE  \/ \E k \in 1 .. L + 1 : Recent(history', k, q) /\ dict'[q] = history'[k]
                      \/ (\A k \in 1 .. L + 1 : ~ Recent(history', k, q)) /\ dict'[q] = 0
    BY <1>4 DEF Holds
  <2>0. \A k \in 1 .. L + 1 : Recent(history', k, q) <=> (k - 1) % Ring = q /\ k > L + 1 - (Ring - 1)
    <3>1. Len(history') = L + 1
      BY <1>4
    <3>2. ASSUME NEW m, Len(history') = m
          PROVE  \A k : Recent(history', k, q) <=> (k - 1) % Ring = q /\ k > m - (Ring - 1)
      BY <3>2, RecentAt, Zenon
    <3>3. PICK m : m = Len(history') /\ m = L + 1
      BY <3>1
    <3>4. m \in Nat /\ Ring \in Nat
      BY <1>1, <3>3
    <3>5. \A k \in 1 .. m : Recent(history', k, q) <=> (k - 1) % Ring = q /\ k > m - (Ring - 1)
      BY <3>2, <3>3
    <3> SUFFICES ASSUME NEW k \in 1 .. L + 1
                 PROVE  Recent(history', k, q) <=> (k - 1) % Ring = q /\ k > L + 1 - (Ring - 1)
      OBVIOUS
    <3>6. k > m - (Ring - 1) <=> k > L + 1 - (Ring - 1)
      <4>1. m = L + 1 /\ L \in Nat /\ Ring \in Nat /\ k \in Nat
        BY <1>1, <3>3
      <4> HIDE DEF L
      <4> QED BY <4>1
    <3>7. Recent(history', k, q) <=> (k - 1) % Ring = q /\ k > m - (Ring - 1)
      BY <3>3, <3>5
    <3> HIDE DEF L
    <3> QED BY <3>6, <3>7
  <2>1. CASE q = e
    <3>1. ASSUME NEW k \in 1 .. L + 1, k > L + 1 - (Ring - 1) PROVE (k - 1) % Ring # e
      <4>1. k - 1 \in Nat /\ L + 1 \in Nat /\ k - 1 < L + 1 /\ (L + 1) - (k - 1) < Ring
        BY <1>1, <3>1
      <4> QED BY <1>1, <4>1, Apart DEF e
    <3> QED BY <1>6, <2>0, <2>1, <3>1
  <2>2. CASE q = d /\ q # e
    <3>1. Ring > 1
      <4>1. Ring # 1
        BY <1>2, <2>2 DEF Places
      <4> QED BY <1>1, <4>1
    <3>2. L + 1 \in 1 .. L + 1 /\ (L + 1) - 1 = L /\ L + 1 > L + 1 - (Ring - 1)
      BY <1>1, <3>1
    <3>3. Recent(history', L + 1, q)
      BY <2>0, <2>2, <3>2 DEF d
    <3> QED BY <1>4, <1>6, <2>2, <3>2, <3>3
  <2>3. CASE q # d /\ q # e
    <3>1. dict'[q] = dict[q]
      BY <1>6, <2>3
    <3>2. ASSUME NEW k \in 1 .. L + 1
          PROVE  Recent(history', k, q) <=> k \in 1 .. L /\ Recent(history, k, q)
      <4>1. CASE k = L + 1
        <5>1. (k - 1) % Ring = d
          BY <1>1, <4>1 DEF d
        <5> QED BY <1>1, <2>0, <2>3, <4>1, <5>1
      <4>2. CASE k = L + 1 - (Ring - 1)
        <5>1. k - 1 \in Nat /\ L + 1 \in Nat /\ L + 1 = (k - 1) + Ring
          BY <1>1, <4>2
        <5>2. (k - 1) % Ring = e
          <6>1. (k - 1) % Ring = (L + 1) % Ring
            BY <1>1, <5>1, WrappedOnce
          <6> QED BY <6>1 DEF e
        <5> QED BY <2>0, <2>3, <5>2 DEF Recent
      <4>3. CASE k \in 1 .. L /\ k # L + 1 - (Ring - 1)
        <5>1. k > L + 1 - (Ring - 1) <=> k > L - (Ring - 1)
          BY <1>1, <4>3
        <5> QED BY <2>0, <4>3, <5>1 DEF Recent
      <4> QED BY <1>1, <4>1, <4>2, <4>3
    <3>3. \/ \E k \in 1 .. L : Recent(history, k, q) /\ dict[q] = history[k]
          \/ (\A k \in 1 .. L : ~ Recent(history, k, q)) /\ dict[q] = 0
      BY DEF Window, Holds
    <3>4. \A k \in 1 .. L : k \in 1 .. L + 1
      BY <1>1
    <3> QED BY <1>4, <3>1, <3>2, <3>3, <3>4
  <2> QED BY <2>1, <2>2, <2>3
<1>8. Window'
  BY <1>3, <1>4, <1>7 DEF Window, e
<1>9. Produced' = Produced + 1 /\ Produced \in Int
  BY <1>1, <1>4 DEF Produced
<1>10. out' \in Seq(Symbols) /\ OutputHolds'
  <2>0. /\ Produced >= 0 /\ Len(out) = Cut(Produced, out_size) /\ Len(out) \in Nat
        /\ \A j \in 1 .. Len(out) : out[j] = history[Len(InitDict) + j]
    BY <1>1 DEF OutputHolds
  <2>1. CASE Len(out) < out_size
    <3>1. out' = Append(out, b) /\ Len(out) = Produced
      BY <1>9, <2>0, <2>1, <1>1 DEF Emit, Cut
    <3>2. out' \in Seq(Symbols) /\ Len(out') = Produced + 1 /\ Len(out') = Cut(Produced', out_size')
      BY <1>1, <1>9, <2>1, <3>1 DEF Cut
    <3>3. ASSUME NEW j \in 1 .. Len(out') PROVE out'[j] = history'[Len(InitDict) + j]
      <4>1. CASE j = Len(out) + 1
        <5>1. Len(InitDict) + j = L + 1
          BY <1>1, <3>1, <4>1 DEF Produced
        <5> QED BY <1>1, <1>4, <3>1, <4>1, <5>1
      <4>2. CASE j \in 1 .. Len(out)
        <5>1. Len(InitDict) + j \in 1 .. L
          <6>1. Len(InitDict) \in Nat /\ L \in Nat /\ Len(out) = L - Len(InitDict) /\ Len(out) \in Nat
            BY <1>1, <2>0, <3>1 DEF Produced
          <6> HIDE DEF L
          <6> QED BY <4>2, <6>1
        <5>2. history'[Len(InitDict) + j] = history[Len(InitDict) + j]
          BY <1>4, <5>1
        <5>3. out'[j] = out[j]
          BY <1>1, <3>1, <4>2
        <5> QED BY <2>0, <4>2, <5>2, <5>3
      <4> QED BY <2>0, <3>1, <3>2, <4>1, <4>2
    <3> QED BY <1>9, <2>0, <3>2, <3>3 DEF OutputHolds
  <2>2. CASE ~ (Len(out) < out_size)
    <3>1. out' = out /\ Len(out) = out_size /\ out_size <= Produced
      BY <1>1, <1>9, <2>0, <2>2 DEF Emit, Cut
    <3>2. \A j \in 1 .. Len(out) : Len(InitDict) + j \in 1 .. L
      BY <1>1, <2>0, <3>1 DEF Produced
    <3> QED BY <1>1, <1>4, <1>9, <2>0, <3>1, <3>2 DEF OutputHolds, Cut
  <2> QED BY <2>1, <2>2
<1> QED BY <1>2, <1>3, <1>4, <1>6, <1>8, <1>9, <1>10

\* What is paid for is within the bound that comes from the size of the block.
LEMMA OutputBounded == RtfInv => TextDecompressed
<1> SUFFICES ASSUME RtfInv PROVE TextDecompressed
  OBVIOUS
<1>0. /\ history \in Seq(Symbols) /\ Len(history) \in Nat /\ Len(InitDict) \in Nat /\ out_size \in Nat
      /\ out \in Seq(Symbols) /\ Len(out) \in Nat /\ Ring \in Nat \ {0}
  BY RtfConstants DEF RtfInv, RtfTypes
<1>1. DictIsWindow
  <2> DEFINE writes(q) == {k \in DOMAIN history : (k - 1) % Ring = q /\ k > Len(history) - (Ring - 1)}
  <2>1. ASSUME NEW q \in Places
        PROVE  dict[q] = IF writes(q) = {} THEN 0 ELSE history[CHOOSE k \in writes(q) : TRUE]
    <3>1. DOMAIN history = 1 .. Len(history)
      BY <1>0
    <3>2. CASE \E k \in 1 .. Len(history) : Recent(history, k, q) /\ dict[q] = history[k]
      <4>1. PICK k \in 1 .. Len(history) : Recent(history, k, q) /\ dict[q] = history[k]
        BY <3>2
      <4>2. k \in writes(q)
        BY <3>1, <4>1 DEF Recent
      <4>3. ASSUME NEW j \in writes(q) PROVE j = k
        <5>1. (j - 1) % Ring = (k - 1) % Ring
          BY <4>1 DEF Recent
        <5>2. /\ j - 1 \in Nat /\ k - 1 \in Nat /\ j \in Nat /\ k \in Nat
              /\ (k - 1) - (j - 1) < Ring /\ (j - 1) - (k - 1) < Ring
          <6>1. /\ j \in 1 .. Len(history) /\ j > Len(history) - (Ring - 1)
                /\ k \in 1 .. Len(history) /\ k > Len(history) - (Ring - 1)
            BY <3>1, <4>1 DEF Recent
          <6> QED BY <1>0, <6>1, WithinRing
        <5>3. ~ (j - 1 < k - 1) /\ ~ (k - 1 < j - 1)
          BY <1>0, <5>1, <5>2, Apart
        <5> QED BY <5>2, <5>3
      <4> HIDE DEF writes
      <4>4. (CHOOSE j \in writes(q) : TRUE) = k
        BY <4>2, <4>3
      <4> QED BY <4>1, <4>2, <4>4
    <3>3. CASE (\A k \in 1 .. Len(history) : ~ Recent(history, k, q)) /\ dict[q] = 0
      <4>1. writes(q) = {}
        BY <3>1, <3>3 DEF Recent
      <4> QED BY <3>3, <4>1
    <3> QED BY <3>2, <3>3 DEF RtfInv, Window, Holds
  <2> QED BY <2>1 DEF DictIsWindow, Places, RtfInv, Window
<1>2. OutputIsText
  <2> DEFINE text == SubSeq(history, Len(InitDict) + 1, Len(history))
             c == Cut(Len(text), out_size)
  <2>0. /\ Produced >= 0 /\ Len(out) = Cut(Produced, out_size) /\ Produced = Len(history) - Len(InitDict)
        /\ \A j \in 1 .. Len(out) : out[j] = history[Len(InitDict) + j]
    BY DEF RtfInv, OutputHolds, Produced
  <2>1. /\ text \in Seq(Symbols) /\ Len(text) = Produced
        /\ \A j \in 1 .. Produced : text[j] = history[Len(InitDict) + j]
    BY <1>0, <2>0
  <2> HIDE DEF text
  <2>2. c = Len(out) /\ c <= Produced /\ c \in Nat
    BY <1>0, <2>0, <2>1 DEF Cut
  <2>3. /\ SubSeq(text, 1, c) \in Seq(Symbols) /\ Len(SubSeq(text, 1, c)) = c
        /\ \A j \in 1 .. c : SubSeq(text, 1, c)[j] = text[j]
    BY <1>0, <2>0, <2>1, <2>2
  <2>4. out = SubSeq(text, 1, c)
    <3> DEFINE t == SubSeq(text, 1, c)
    <3>1. t \in Seq(Symbols) /\ Len(t) = Len(out) /\ \A j \in 1 .. Len(out) : t[j] = out[j]
      <4>1. c = Len(out) /\ \A j \in 1 .. Len(out) : j \in 1 .. Produced
        <5>1. Produced \in Nat /\ c \in Nat /\ c <= Produced /\ c = Len(out)
          BY <1>0, <2>0, <2>2
        <5> HIDE DEF c
        <5> QED BY <5>1
      <4> HIDE DEF c
      <4> QED BY <2>0, <2>1, <2>3, <4>1
    <3> HIDE DEF t
    <3>2. DOMAIN t = DOMAIN out /\ \A j \in DOMAIN out : t[j] = out[j]
      BY <1>0, <3>1
    <3>3. t = out
      BY <1>0, <3>1, <3>2
    <3> QED BY <3>3 DEF t
  <2>5. Produced <= MaxOut(compsize)
    <3> DEFINE used_up == in_ptr - HeaderSize
    <3>1. /\ used_up \in Nat /\ used_up <= compsize /\ compsize \in Nat /\ MaxCopy \in Nat /\ MaxCopy >= 2
          /\ Produced <= used_up * MaxCopy
      <4>1. /\ in_ptr \in Nat /\ in_size \in Nat /\ compsize \in Nat /\ HeaderSize \in Nat /\ copy.length \in Nat
            /\ compsize >= HeaderSize /\ in_ptr >= HeaderSize /\ MaxCopy \in Nat /\ MaxCopy >= 2
            /\ Produced + copy.length <= used_up * MaxCopy
        BY RtfConstants DEF RtfInv, Paid
      <4>2. in_ptr <= compsize
        BY <4>1 DEF RtfInv, InputUsed
      <4>3. used_up \in Nat /\ used_up <= compsize
        BY <4>1, <4>2
      <4>4. used_up * MaxCopy \in Int
        BY <4>1, <4>3
      <4> HIDE DEF used_up
      <4> QED BY <1>0, <2>0, <4>1, <4>3, <4>4
    <3> HIDE DEF used_up
    <3>2. used_up * MaxCopy <= compsize * MaxCopy
      BY <3>1, ProductGrows
    <3>3. compsize * MaxCopy \in Nat /\ used_up * MaxCopy \in Nat
      BY <3>1
    <3>4. PICK a \in Nat, b \in Nat : a = used_up * MaxCopy /\ b = compsize * MaxCopy
      BY <3>3
    <3>5. MaxOut(compsize) = b + (MaxCopy - 1)
      BY <3>4 DEF MaxOut
    <3>6. Produced \in Int
      BY <1>0, <2>0
    <3> QED BY <3>1, <3>2, <3>4, <3>5, <3>6
  <2> QED BY <2>1, <2>4, <2>5 DEF OutputIsText, text
<1> QED BY <1>1, <1>2 DEF TextDecompressed, RtfInv

LEMMA RtfStep == RtfInv /\ [RtfNext]_rtfVars => RtfInv'
<1> SUFFICES ASSUME RtfInv, [RtfNext]_rtfVars PROVE RtfInv'
  OBVIOUS
<1>0. RtfTypes /\ Window /\ OutputHolds /\ Paid /\ InputUsed
  BY DEF RtfInv
<1>a. /\ in_ptr \in Nat /\ in_size \in Nat /\ compsize \in Nat /\ HeaderSize \in Nat /\ copy.length \in Nat
      /\ in_ptr >= HeaderSize /\ MaxCopy \in Nat /\ MaxCopy >= 2 /\ Groups \in Nat /\ Ring \in Nat \ {0}
      /\ compsize \in HeaderSize .. MaxCompSize /\ tokens \in Nat /\ Produced \in Nat
      /\ Produced + copy.length <= (in_ptr - HeaderSize) * MaxCopy
  BY <1>0, RtfConstants DEF Paid, RtfTypes, OutputHolds, Produced
<1>b. /\ (in_ptr + 1 - HeaderSize) * MaxCopy = (in_ptr - HeaderSize) * MaxCopy + MaxCopy
      /\ (in_ptr + 2 - HeaderSize) * MaxCopy = (in_ptr - HeaderSize) * MaxCopy + MaxCopy + MaxCopy
      /\ (in_ptr - HeaderSize) * MaxCopy \in Nat
  BY <1>a
\* Steps that write no byte.
<1>c. ASSUME UNCHANGED <<dict, dict_length, out, history, sizes>>,
             state' \in {"group", "token", "copy", "done"}, tokens' \in Nat,
             copy' \in [offset : Places, length : Nat], Paid', InputUsed'
      PROVE  RtfInv'
  <2>1. OutputHolds' /\ Window' /\ RtfTypes'
    BY <1>0, <1>c DEF OutputHolds, Window, Holds, Recent, RtfTypes, Produced, sizes
  <2> QED BY <1>c, <2>1 DEF RtfInv
<1>d. UNCHANGED <<history>> => Produced' = Produced
  BY DEF Produced
<1>1. CASE Group
  <2>1. CASE in_ptr < in_size
    <3>1. Paid' /\ InputUsed'
      BY <1>0, <1>1, <1>a, <1>b, <1>d, <2>1 DEF Group, Paid, InputUsed, sizes
    <3> QED BY <1>0, <1>1, <1>a, <1>c, <2>1, <3>1 DEF Group, RtfTypes
  <2>2. CASE ~ (in_ptr < in_size)
    <3>1. Paid' /\ InputUsed'
      BY <1>0, <1>1, <1>a, <1>b, <1>d, <2>2 DEF Group, Paid, InputUsed, sizes
    <3> QED BY <1>0, <1>1, <1>a, <1>c, <2>2, <3>1 DEF Group, RtfTypes
  <2> QED BY <2>1, <2>2
<1>2. CASE Literal
  <2>1. PICK b \in Bytes : Emit(b)
    BY <1>2 DEF Literal
  <2>2. b \in Symbols /\ UNCHANGED <<sizes, copy, state>> /\ in_ptr' = in_ptr + 1 /\ tokens' = tokens - 1
    BY <1>2 DEF Literal, Symbols
  <2>3. /\ dict' \in [Places -> Symbols] /\ dict_length' \in Places
        /\ out' \in Seq(Symbols) /\ history' \in Seq(Symbols)
        /\ Window' /\ OutputHolds' /\ Produced' = Produced + 1
    BY <1>0, <2>1, <2>2, EmitKeeps DEF sizes
  <2>4. RtfTypes'
    BY <1>0, <1>2, <1>a, <2>2, <2>3 DEF RtfTypes, Literal, sizes
  <2>5. Paid' /\ InputUsed'
    BY <1>0, <1>2, <1>a, <1>b, <2>2, <2>3 DEF Literal, Paid, InputUsed, sizes
  <2> QED BY <2>3, <2>4, <2>5 DEF RtfInv
<1>3. CASE Reference
  <2>1. PICK o \in 0 .. Ring - 1, l \in 2 .. MaxCopy : copy' = [offset |-> o, length |-> l]
    BY <1>3 DEF Reference
  <2>2. copy' \in [offset : Places, length : Nat] /\ copy'.length = l /\ l \in Nat /\ l <= MaxCopy
    BY <1>a, <2>1 DEF Places
  <2>3. copy.length = 0
    BY <1>0, <1>3 DEF Reference, Paid
  <2>4. Paid' /\ InputUsed'
    BY <1>0, <1>3, <1>a, <1>b, <1>d, <2>2, <2>3 DEF Reference, Paid, InputUsed, sizes
  <2> QED BY <1>3, <1>a, <1>c, <2>2, <2>4 DEF Reference
<1>4. CASE Nothing
  <2>1. Paid' /\ InputUsed'
    BY <1>0, <1>4, <1>a, <1>d DEF Nothing, Paid, InputUsed, sizes
  <2> QED BY <1>0, <1>4, <1>a, <1>c, <2>1 DEF Nothing, RtfTypes
<1>5. CASE GroupDone
  <2>1. Paid' /\ InputUsed'
    BY <1>0, <1>5, <1>a, <1>d DEF GroupDone, Paid, InputUsed, sizes
  <2> QED BY <1>0, <1>5, <1>a, <1>c, <2>1 DEF GroupDone, RtfTypes
<1>6. CASE CopyByte
  <2>1. CASE copy.length = 0
    <3>1. copy' = [offset |-> 0, length |-> 0] /\ copy' \in [offset : Places, length : Nat] /\ copy'.length = 0
      BY <1>6, <1>a, <2>1 DEF CopyByte, Places
    <3>2. Paid' /\ InputUsed'
      BY <1>0, <1>6, <1>a, <1>d, <2>1, <3>1 DEF CopyByte, Paid, InputUsed, sizes
    <3> QED BY <1>6, <1>a, <1>c, <2>1, <3>1, <3>2 DEF CopyByte
  <2>2. CASE copy.length # 0
    <3>1. copy.offset \in Places /\ dict[copy.offset] \in Symbols /\ Emit(dict[copy.offset])
      BY <1>0, <1>6, <2>2 DEF CopyByte, RtfTypes
    <3>2. UNCHANGED <<sizes, in_ptr, tokens, state>> /\ state = "copy"
          /\ copy' = [offset |-> (copy.offset + 1) % Ring, length |-> copy.length - 1]
      BY <1>6, <2>2 DEF CopyByte
    <3>3. (copy.offset + 1) % Ring \in Places
      BY <1>a, <3>1, Remainder DEF Places
    <3>4. copy' \in [offset : Places, length : Nat] /\ copy'.length = copy.length - 1
      BY <1>a, <2>2, <3>2, <3>3
    <3>5. /\ dict' \in [Places -> Symbols] /\ dict_length' \in Places
          /\ out' \in Seq(Symbols) /\ history' \in Seq(Symbols)
          /\ Window' /\ OutputHolds' /\ Produced' = Produced + 1
      BY <1>0, <3>1, <3>2, EmitKeeps DEF sizes
    <3>6. RtfTypes'
      BY <1>0, <3>2, <3>4, <3>5 DEF RtfTypes, sizes
    <3>7. Paid' /\ InputUsed'
      <4>1. PICK m \in Nat : m = (in_ptr - HeaderSize) * MaxCopy
        BY <1>b
      <4>2. /\ in_ptr' = in_ptr /\ in_size' = in_size /\ compsize' = compsize /\ state' = state
            /\ (in_ptr' - HeaderSize) * MaxCopy = m
        BY <3>2, <4>1 DEF sizes
      <4>3. Produced' + copy'.length <= m /\ copy'.length \in Nat
        BY <1>a, <2>2, <3>4, <3>5, <4>1
      <4> QED BY <1>0, <1>a, <3>2, <4>2, <4>3 DEF Paid, InputUsed
    <3> QED BY <3>5, <3>6, <3>7 DEF RtfInv
  <2> QED BY <2>1, <2>2
<1>7. CASE UNCHANGED rtfVars
  <2>1. Paid' /\ InputUsed'
    BY <1>0, <1>7, <1>d DEF rtfVars, Paid, InputUsed
  <2> QED BY <1>0, <1>7, <1>c, <2>1 DEF rtfVars, RtfTypes, sizes
<1> QED BY <1>1, <1>2, <1>3, <1>4, <1>5, <1>6, <1>7 DEF RtfNext

\* Compressed text comes out as it went in (TextDecompressed of Lzfu): for
\* rings, dictionaries, groups and blocks of any size, whatever the input says.
THEOREM TextAsCompressed == RtfSpec => []TextDecompressed
BY RtfStart, RtfStep, OutputBounded, PTL DEF RtfSpec
-----------------------------------------------------------------------------
(* iconv descriptors.                                                      *)

\* What a descriptor converts, and the states as records.
Sets == Charsets \cup {None, "utf-8", "utf-16"}
Conversions == [from : Sets, to : Sets]
Tables == UNION {[D -> Conversions] : D \in SUBSET Descriptors}
Slots == Descriptors \cup {Failed}
States == [up : BOOLEAN, utf16 : Slots, charset : Charsets \cup {None},
           from_open : BOOLEAN, from : Slots, to_open : BOOLEAN, to : Slots,
           open : Tables, stray : BOOLEAN]

Converts(from, to) == [from |-> from, to |-> to]

\* The descriptors that are open are the three that are kept, and each converts
\* what it is kept for.
Kept(s) ==
  /\ ~ s.stray
  /\ s.from_open = (s.from # Failed) /\ s.to_open = (s.to # Failed) /\ (~ s.up => s.utf16 = Failed)
  /\ DOMAIN s.open = {s.utf16, s.from, s.to} \ {Failed}
  /\ s.from # Failed => s.from # s.to /\ s.from # s.utf16 /\ s.open[s.from] = Converts("utf-8", s.charset)
  /\ s.to # Failed => s.to # s.utf16 /\ s.open[s.to] = Converts(s.charset, "utf-8")
  /\ s.utf16 # Failed => s.open[s.utf16] = Converts("utf-16", "utf-8")

Good == {s \in States : Kept(s)}

DescriptorInv == Now \in Good /\ RightConversion

\* (iconv_t)-1 is no descriptor, and there are at least three of them.
LEMMA ThreeDescriptors ==
  /\ Failed \notin Descriptors
  /\ \A D : (\E a, b : D \subseteq {a, b}) => \E d \in Descriptors : d \notin D
<1>1. {1, 2, 3} \subseteq Descriptors
  BY TargetsAssumption DEF Descriptors
<1>2. \A D : (\E a, b : D \subseteq {a, b}) => 1 \notin D \/ 2 \notin D \/ 3 \notin D
  OBVIOUS
<1> QED BY <1>1, <1>2 DEF Failed, Descriptors

\* The fields of a changed state.
LEMMA Fields ==
  ASSUME NEW s \in States, NEW o \in Tables
  PROVE  LET t == [s EXCEPT !.open = o]
         IN /\ t \in States /\ t.open = o /\ t.up = s.up /\ t.utf16 = s.utf16 /\ t.charset = s.charset
            /\ t.from_open = s.from_open /\ t.from = s.from /\ t.to_open = s.to_open /\ t.to = s.to
            /\ t.stray = s.stray
BY DEF States

LEMMA UpFields ==
  ASSUME NEW s \in States, NEW d \in Slots
  PROVE  LET t == [s EXCEPT !.up = TRUE, !.utf16 = d]
         IN /\ t \in States /\ t.open = s.open /\ t.up /\ t.utf16 = d /\ t.charset = s.charset
            /\ t.from_open = s.from_open /\ t.from = s.from /\ t.to_open = s.to_open /\ t.to = s.to
            /\ t.stray = s.stray
BY DEF States

LEMMA CharsetFields ==
  ASSUME NEW s \in States, NEW c \in Charsets
  PROVE  LET t == [s EXCEPT !.charset = c]
         IN /\ t \in States /\ t.open = s.open /\ t.up = s.up /\ t.utf16 = s.utf16 /\ t.charset = c
            /\ t.from_open = s.from_open /\ t.from = s.from /\ t.to_open = s.to_open /\ t.to = s.to
            /\ t.stray = s.stray
BY DEF States

SetTargets(s, f, a, g, b) == [s EXCEPT !.from = f, !.from_open = a, !.to = g, !.to_open = b]
WithTargets(s, f, g) == SetTargets(s, f, f # Failed, g, g # Failed)
LEMMA TargetFields ==
  ASSUME NEW s \in States, NEW f \in Slots, NEW g \in Slots
  PROVE  LET t == WithTargets(s, f, g)
         IN /\ t \in States
            /\ t.open = s.open /\ t.up = s.up /\ t.utf16 = s.utf16 /\ t.charset = s.charset
            /\ t.from_open = (f # Failed) /\ t.from = f /\ t.to_open = (g # Failed) /\ t.to = g
            /\ t.stray = s.stray
<1>1. ASSUME NEW a \in BOOLEAN, NEW b \in BOOLEAN
      PROVE  LET t == SetTargets(s, f, a, g, b)
             IN /\ t \in States
                /\ t.open = s.open /\ t.up = s.up /\ t.utf16 = s.utf16 /\ t.charset = s.charset
                /\ t.from_open = a /\ t.from = f /\ t.to_open = b /\ t.to = g
                /\ t.stray = s.stray
  <2> DEFINE s1 == [s EXCEPT !.from = f]
             s2 == [s1 EXCEPT !.from_open = a]
             s3 == [s2 EXCEPT !.to = g]
             s4 == [s3 EXCEPT !.to_open = b]
  <2>1. /\ s1 \in States /\ s1.open = s.open /\ s1.up = s.up /\ s1.utf16 = s.utf16
        /\ s1.charset = s.charset /\ s1.from = f /\ s1.stray = s.stray
    BY DEF States
  <2> HIDE DEF s1
  <2>2. /\ s2 \in States /\ s2.open = s1.open /\ s2.up = s1.up /\ s2.utf16 = s1.utf16
        /\ s2.charset = s1.charset /\ s2.from_open = a /\ s2.from = s1.from /\ s2.stray = s1.stray
    BY <2>1 DEF States
  <2> HIDE DEF s2
  <2>3. /\ s3 \in States /\ s3.open = s2.open /\ s3.up = s2.up /\ s3.utf16 = s2.utf16
        /\ s3.charset = s2.charset /\ s3.from_open = s2.from_open /\ s3.from = s2.from
        /\ s3.to = g /\ s3.stray = s2.stray
    BY <2>2 DEF States
  <2> HIDE DEF s3
  <2>4. /\ s4 \in States /\ s4.open = s3.open /\ s4.up = s3.up /\ s4.utf16 = s3.utf16
        /\ s4.charset = s3.charset /\ s4.from_open = s3.from_open /\ s4.from = s3.from
        /\ s4.to_open = b /\ s4.to = s3.to /\ s4.stray = s3.stray
    BY <2>3 DEF States
  <2>5. SetTargets(s, f, a, g, b) = s4
    BY DEF SetTargets, s1, s2, s3
  <2> HIDE DEF s4
  <2> QED BY <2>1, <2>2, <2>3, <2>4, <2>5
<1>2. PICK a \in BOOLEAN, b \in BOOLEAN : a = (f # Failed) /\ b = (g # Failed)
  OBVIOUS
<1>3. WithTargets(s, f, g) = SetTargets(s, f, a, g, b)
  BY <1>2 DEF WithTargets
<1> DEFINE t == SetTargets(s, f, a, g, b)
<1>4. /\ t \in States
      /\ t.open = s.open /\ t.up = s.up /\ t.utf16 = s.utf16 /\ t.charset = s.charset
      /\ t.from_open = a /\ t.from = f /\ t.to_open = b /\ t.to = g
      /\ t.stray = s.stray
  BY <1>1, Zenon
<1>5. t = WithTargets(s, f, g)
  BY <1>3
<1> HIDE DEF t
<1> QED BY <1>2, <1>4, <1>5

WithNone(s) == [s EXCEPT !.up = FALSE, !.utf16 = Failed, !.from_open = FALSE, !.from = Failed,
                         !.to_open = FALSE, !.to = Failed, !.charset = None]
LEMMA ClosedFields ==
  \A s \in States :
    /\ WithNone(s) \in States
    /\ LET t == WithNone(s)
       IN /\ t.open = s.open /\ ~ t.up /\ t.utf16 = Failed /\ t.charset = None
          /\ t.from_open = FALSE /\ t.from = Failed /\ t.to_open = FALSE /\ t.to = Failed
          /\ t.stray = s.stray
BY DEF States, WithNone, Slots

Same(s, t) ==
  /\ t.up = s.up /\ t.utf16 = s.utf16 /\ t.charset = s.charset
  /\ t.from_open = s.from_open /\ t.from = s.from /\ t.to_open = s.to_open /\ t.to = s.to
  /\ t.stray = s.stray

\* iconv_close of a descriptor that is open, or of none.
LEMMA CloseFacts ==
  ASSUME NEW s \in States, NEW d \in DOMAIN s.open \cup {Failed}, Failed \notin DOMAIN s.open
  PROVE  /\ Close(s, d) \in States /\ Same(s, Close(s, d))
         /\ DOMAIN Close(s, d).open = DOMAIN s.open \ {d}
         /\ \A e \in DOMAIN s.open \ {d} : Close(s, d).open[e] = s.open[e]
<1>1. PICK D \in SUBSET Descriptors : s.open \in [D -> Conversions]
  BY DEF States, Tables
<1>3. CASE d \in DOMAIN s.open
  <2> DEFINE t == [e \in DOMAIN s.open \ {d} |-> s.open[e]]
  <2>1. Close(s, d) = [s EXCEPT !.open = t]
    BY <1>3 DEF Close
  <2>2. t \in [D \ {d} -> Conversions] /\ DOMAIN t = DOMAIN s.open \ {d}
    BY <1>1
  <2>3. t \in Tables
    BY <2>2 DEF Tables
  <2>4. \A e \in DOMAIN s.open \ {d} : t[e] = s.open[e]
    OBVIOUS
  <2> HIDE DEF t
  <2> QED BY <2>1, <2>2, <2>3, <2>4, Fields DEF Same
<1>4. CASE d \notin DOMAIN s.open
  <2>1. d = Failed /\ Close(s, d) = [s EXCEPT !.stray = @]
    BY <1>4 DEF Close, States
  <2>2. [s EXCEPT !.stray = @] = s
    BY DEF States
  <2> QED BY <1>4, <2>1, <2>2 DEF Same
<1> QED BY <1>3, <1>4

\* iconv_open gives a descriptor that is not open, or none.
Opened(s, from, to, r) ==
  /\ r[1] \in States /\ Same(s, r[1])
  /\ r[2] \in Slots /\ r[2] \notin DOMAIN s.open
  /\ DOMAIN r[1].open = DOMAIN s.open \cup ({r[2]} \ {Failed})
  /\ \A e \in DOMAIN s.open : r[1].open[e] = s.open[e]
  /\ r[2] # Failed => r[1].open[r[2]] = Converts(from, to)

LEMMA OpenFacts ==
  ASSUME NEW s \in States, NEW from \in Sets, NEW to \in Sets, Failed \notin DOMAIN s.open,
         NEW a, NEW b, DOMAIN s.open \subseteq {a, b},
         NEW r \in OpenNew(s, from, to)
  PROVE  Opened(s, from, to, r)
<1>1. PICK D \in SUBSET Descriptors : s.open \in [D -> Conversions]
  BY DEF States, Tables
<1>2. CASE r = <<s, Failed>>
  BY <1>2 DEF Opened, Same, Slots
<1>3. CASE r # <<s, Failed>>
  <2> DEFINE d == CHOOSE d \in Descriptors : d \notin DOMAIN s.open
             t == [e \in DOMAIN s.open \cup {d} |-> IF e = d THEN [from |-> from, to |-> to] ELSE s.open[e]]
  <2>1. d \in Descriptors /\ d \notin DOMAIN s.open
    <3>1. \E c \in Descriptors : c \notin DOMAIN s.open
      BY ThreeDescriptors
    <3> QED BY <3>1
  <2>2. r = <<[s EXCEPT !.open = t], d>>
    BY <1>3 DEF OpenNew
  <2>3. t \in [D \cup {d} -> Conversions] /\ DOMAIN t = DOMAIN s.open \cup {d} /\ D \cup {d} \in SUBSET Descriptors
    BY <1>1, <2>1 DEF Conversions
  <2>4. t \in Tables
    BY <2>3 DEF Tables
  <2>5. (\A e \in DOMAIN s.open : t[e] = s.open[e]) /\ t[d] = Converts(from, to)
    BY <2>1 DEF Converts
  <2>6. d # Failed
    BY <2>1, ThreeDescriptors
  <2> HIDE DEF d, t
  <2>7. LET u == [s EXCEPT !.open = t]
        IN u \in States /\ Same(s, u) /\ u.open = t
    BY <2>4, Fields DEF Same
  <2>8. r[1] \in States /\ Same(s, r[1]) /\ r[1].open = t /\ r[2] = d
    BY <2>2, <2>7
  <2> QED BY <2>1, <2>3, <2>5, <2>6, <2>8 DEF Opened, Slots
<1> QED BY <1>2, <1>3

\* unicode_close: nothing is open.
Closed(s) ==
  /\ s \in States /\ DOMAIN s.open = {} /\ ~ s.up /\ ~ s.from_open /\ ~ s.to_open /\ ~ s.stray
  /\ s.utf16 = Failed /\ s.from = Failed /\ s.to = Failed /\ s.charset = None

LEMMA UnicodeCloseFacts == \A s \in Good : Closed(UnicodeClose(s))
<1> SUFFICES ASSUME NEW s \in Good PROVE Closed(UnicodeClose(s))
  OBVIOUS
<1>0. s \in States /\ Kept(s)
  BY DEF Good
<1> DEFINE s1 == CloseIf(s, s.up, s.utf16)
           s2 == CloseIf(s1, s.from_open, s.from)
           s3 == CloseIf(s2, s.to_open, s.to)
<1>a. /\ {s.utf16, s.from, s.to} \subseteq DOMAIN s.open \cup {Failed}
      /\ DOMAIN s.open = {s.utf16, s.from, s.to} \ {Failed}
  BY <1>0 DEF Kept
<1>b. s.from # Failed => s.from # s.to /\ s.from # s.utf16
  BY <1>0 DEF Kept
<1>c. s.to # Failed => s.to # s.utf16
  BY <1>0 DEF Kept
<1>d. (s.from_open <=> s.from # Failed) /\ (s.to_open <=> s.to # Failed) /\ (~ s.up => s.utf16 = Failed) /\ ~ s.stray
  BY <1>0 DEF Kept
<1>1. s1 \in States /\ Same(s, s1) /\ DOMAIN s1.open = {s.from, s.to} \ {Failed}
  <2>1. CASE s.up
    BY <2>1, <1>0, <1>a, <1>b, <1>c, CloseFacts DEF CloseIf
  <2>2. CASE ~ s.up
    BY <2>2, <1>0, <1>a, <1>d DEF CloseIf, Same
  <2> QED BY <2>1, <2>2
<1> HIDE DEF s1
<1>2. s2 \in States /\ Same(s1, s2) /\ DOMAIN s2.open = {s.to} \ {Failed}
  <2>1. CASE s.from_open
    BY <2>1, <1>1, <1>b, CloseFacts DEF CloseIf
  <2>2. CASE ~ s.from_open
    BY <2>2, <1>1, <1>d DEF CloseIf, Same
  <2> QED BY <2>1, <2>2
<1> HIDE DEF s2
<1>3. s3 \in States /\ Same(s2, s3) /\ DOMAIN s3.open = {}
  <2>1. CASE s.to_open
    BY <2>1, <1>2, CloseFacts DEF CloseIf
  <2>2. CASE ~ s.to_open
    BY <2>2, <1>2, <1>d DEF CloseIf, Same
  <2> QED BY <2>1, <2>2
<1> HIDE DEF s3
<1>4. /\ s3.utf16 = s.utf16 /\ s3.from = s.from /\ s3.to = s.to /\ s3.stray = s.stray
  BY <1>1, <1>2, <1>3 DEF Same
<1> DEFINE u == IF s.up THEN Failed ELSE s3.utf16
           f == IF s.from_open THEN Failed ELSE s3.from
           g == IF s.to_open THEN Failed ELSE s3.to
<1>5. u = Failed /\ f = Failed /\ g = Failed /\ Failed \in Slots
  BY <1>4, <1>d DEF Slots
<1>6. UnicodeClose(s) = [s3 EXCEPT !.up = FALSE, !.utf16 = u, !.from_open = FALSE, !.from = f,
                            !.to_open = FALSE, !.to = g, !.charset = None]
  BY DEF UnicodeClose, s1, s2, s3
<1> HIDE DEF u, f, g
<1>7. UnicodeClose(s) = WithNone(s3)
  BY <1>6, <1>5 DEF WithNone
<1>8. /\ UnicodeClose(s) \in States /\ UnicodeClose(s).open = s3.open /\ ~ UnicodeClose(s).up
      /\ UnicodeClose(s).utf16 = Failed /\ UnicodeClose(s).charset = None
      /\ UnicodeClose(s).from_open = FALSE /\ UnicodeClose(s).from = Failed
      /\ UnicodeClose(s).to_open = FALSE /\ UnicodeClose(s).to = Failed
      /\ UnicodeClose(s).stray = s3.stray
  BY <1>3, <1>5, <1>7, ClosedFields
<1> QED BY <1>3, <1>4, <1>8, <1>d DEF Closed

\* unicode_init
LEMMA UnicodeInitFacts == \A s \in Good : UnicodeInit(s) \subseteq Good
<1> SUFFICES ASSUME NEW s \in Good, NEW z \in UnicodeInit(s) PROVE z \in Good
  OBVIOUS
<1> DEFINE t == IF s.up THEN UnicodeClose(s) ELSE s
<1>1. t \in States /\ Kept(t) /\ t.utf16 = Failed
  <2>1. CASE s.up
    <3>1. t = UnicodeClose(s)
      BY <2>1
    <3>2. Closed(t)
      BY <3>1, UnicodeCloseFacts
    <3> HIDE DEF t
    <3>3. t \in States /\ t.from_open = FALSE /\ t.to_open = FALSE
      BY <3>2 DEF Closed, States
    <3>4. DOMAIN t.open = {t.utf16, t.from, t.to} \ {Failed}
      BY <3>2 DEF Closed
    <3> QED BY <3>2, <3>3, <3>4 DEF Closed, Kept
  <2>2. CASE ~ s.up
    BY <2>2 DEF Good, Kept
  <2> QED BY <2>1, <2>2
<1>2. PICK r \in OpenNew(t, "utf-16", "utf-8") : z = [r[1] EXCEPT !.up = TRUE, !.utf16 = r[2]]
  BY DEF UnicodeInit
<1> HIDE DEF t
<1>3. DOMAIN t.open = {t.from, t.to} \ {Failed}
  BY <1>1 DEF Kept
<1>4. Opened(t, "utf-16", "utf-8", r)
  BY <1>1, <1>2, <1>3, OpenFacts DEF Sets
<1>5. r[1] \in States /\ r[2] \in Slots
  BY <1>4 DEF Opened
<1>6. /\ z \in States /\ z.open = r[1].open /\ z.up /\ z.utf16 = r[2] /\ z.charset = t.charset
      /\ z.from_open = t.from_open /\ z.from = t.from /\ z.to_open = t.to_open /\ z.to = t.to
      /\ z.stray = t.stray
  <2> DEFINE y == r[1]
             k == r[2]
  <2>1. y \in States /\ k \in Slots /\ z = [y EXCEPT !.up = TRUE, !.utf16 = k] /\ Same(t, y)
    BY <1>2, <1>4, <1>5 DEF Opened
  <2> HIDE DEF y, k
  <2>2. /\ z \in States /\ z.open = y.open /\ z.up /\ z.utf16 = k /\ z.charset = y.charset
        /\ z.from_open = y.from_open /\ z.from = y.from /\ z.to_open = y.to_open /\ z.to = y.to
        /\ z.stray = y.stray
    BY <2>1, UpFields
  <2> QED BY <2>1, <2>2 DEF Same, y, k
<1> QED BY <1>1, <1>3, <1>4, <1>6 DEF Good, Kept, Opened

\* open_targets
Targeted(s, c) == s \in Good /\ s.charset = c

LEMMA OpenTargetsFacts ==
  ASSUME NEW s \in Good, NEW c \in Charsets, NEW z \in OpenTargets(s, c)
  PROVE  z \in Good /\ z.charset = c
<1>1. CASE s.charset = c
  BY <1>1 DEF OpenTargets
<1>2. CASE s.charset # c
  <2> DEFINE s1 == CloseIf(s, s.from_open, s.from)
             s2 == CloseIf(s1, s.to_open, s.to)
             s3 == [s2 EXCEPT !.charset = c]
  <2>a. /\ s \in States
        /\ s.from_open = (s.from # Failed) /\ s.to_open = (s.to # Failed) /\ ~ s.stray
        /\ (~ s.up => s.utf16 = Failed)
        /\ DOMAIN s.open = {s.utf16, s.from, s.to} \ {Failed}
    BY DEF Good, Kept
  <2>b. /\ s.from # Failed => s.from # s.to /\ s.from # s.utf16
        /\ s.to # Failed => s.to # s.utf16
        /\ s.utf16 # Failed => s.open[s.utf16] = Converts("utf-16", "utf-8")
    BY DEF Good, Kept
  <2>1. /\ s1 \in States /\ Same(s, s1) /\ DOMAIN s1.open = {s.utf16, s.to} \ {Failed}
        /\ \A e \in DOMAIN s1.open : s1.open[e] = s.open[e]
    <3>1. CASE s.from_open
      BY <3>1, <2>a, <2>b, CloseFacts DEF CloseIf
    <3>2. CASE ~ s.from_open
      BY <3>2, <2>a DEF CloseIf, Same
    <3> QED BY <3>1, <3>2
  <2> HIDE DEF s1
  <2>2. /\ s2 \in States /\ Same(s1, s2) /\ DOMAIN s2.open = {s.utf16} \ {Failed}
        /\ \A e \in DOMAIN s2.open : s2.open[e] = s.open[e]
    <3>1. CASE s.to_open
      BY <3>1, <2>1, <2>b, CloseFacts DEF CloseIf
    <3>2. CASE ~ s.to_open
      BY <3>2, <2>1, <2>a DEF CloseIf, Same
    <3> QED BY <3>1, <3>2
  <2> HIDE DEF s2
  <2>3. /\ s3 \in States /\ s3.open = s2.open /\ s3.up = s.up /\ s3.utf16 = s.utf16 /\ s3.charset = c
        /\ s3.stray = s.stray
    BY <2>1, <2>2, CharsetFields DEF Same
  <2> HIDE DEF s3
  <2>4. PICK f \in OpenNew(s3, "utf-8", c) :
        \E r \in OpenNew(f[1], c, "utf-8") : z = WithTargets(r[1], f[2], r[2])
    <3>1. OpenTargets(s, c) = UNION {{WithTargets(r[1], f[2], r[2]) : r \in OpenNew(f[1], c, "utf-8")} :
                                       f \in OpenNew(s3, "utf-8", c)}
      BY <1>2 DEF OpenTargets, WithTargets, SetTargets, s1, s2, s3
    <3> QED BY <3>1
  <2>5. PICK r \in OpenNew(f[1], c, "utf-8") : z = WithTargets(r[1], f[2], r[2])
    BY <2>4
  <2>6. c \in Sets /\ "utf-8" \in Sets
    BY DEF Sets
  <2>7. Opened(s3, "utf-8", c, f)
    BY <2>2, <2>3, <2>6, OpenFacts
  <2>8. f[1] \in States /\ Same(s3, f[1]) /\ f[2] \in Slots /\ Failed \notin DOMAIN f[1].open
        /\ DOMAIN f[1].open \subseteq {s.utf16, f[2]}
    BY <2>2, <2>3, <2>7 DEF Opened
  <2>9. Opened(f[1], c, "utf-8", r)
    BY <2>6, <2>8, OpenFacts
  <2> DEFINE y == r[1]
             k == f[2]
             l == r[2]
  <2>10. /\ y \in States /\ k \in Slots /\ l \in Slots
         /\ z = WithTargets(y, k, l)
    BY <2>5, <2>8, <2>9 DEF Opened
  <2>11. /\ y.up = s.up /\ y.utf16 = s.utf16 /\ y.charset = c /\ y.stray = s.stray
    BY <2>3, <2>7, <2>9 DEF Opened, Same
  <2>12. /\ DOMAIN y.open = {s.utf16, k, l} \ {Failed}
         /\ k # Failed => k # l /\ k # s.utf16 /\ y.open[k] = Converts("utf-8", c)
         /\ l # Failed => l # s.utf16 /\ y.open[l] = Converts(c, "utf-8")
         /\ s.utf16 # Failed => y.open[s.utf16] = Converts("utf-16", "utf-8")
    BY <2>2, <2>3, <2>7, <2>9, <2>b DEF Opened
  <2> HIDE DEF y, k, l
  <2>13. /\ z \in States /\ z.open = y.open /\ z.up = y.up /\ z.utf16 = y.utf16 /\ z.charset = y.charset
         /\ z.from_open = (k # Failed) /\ z.from = k /\ z.to_open = (l # Failed) /\ z.to = l
         /\ z.stray = y.stray
    BY <2>10, TargetFields
  <2>14. Kept(z)
    BY <2>a, <2>11, <2>12, <2>13 DEF Kept
  <2> QED BY <2>11, <2>13, <2>14 DEF Good
<1> QED BY <1>1, <1>2

\* A state that is good becomes the next one.
LEMMA BecomesGood == \A s \in Good : Becomes(s) => Now' \in Good
<1> SUFFICES ASSUME NEW s \in Good, Becomes(s) PROVE Now' \in Good
  OBVIOUS
<1>1. Now' = s
  BY DEF Becomes, Now, Good, States
<1> QED BY <1>1

\* iconv with a descriptor that converts what it is used for.
LEMMA IconvGood ==
  ASSUME NEW s \in Good, NEW d, NEW from, NEW to, Iconv(s, d, from, to),
         d # Failed => d \in DOMAIN s.open /\ s.open[d] = Converts(from, to)
  PROVE  DescriptorInv'
<1>1. Now' \in Good
  BY BecomesGood, UnicodeInitFacts DEF Iconv
<1>2. RightConversion'
  BY DEF Iconv, RightConversion, Converts
<1> QED BY <1>1, <1>2 DEF DescriptorInv

LEMMA DescriptorsStart == CharsetInit => DescriptorInv
<1> SUFFICES ASSUME CharsetInit PROVE DescriptorInv
  OBVIOUS
<1>1. <<>> \in Tables /\ DOMAIN <<>> = {}
  <2>1. <<>> = [e \in {} |-> None]
    OBVIOUS
  <2>2. [e \in {} |-> None] \in [{} -> Conversions]
    OBVIOUS
  <2> QED BY <2>1, <2>2 DEF Tables
<1>2. Now \in States
  BY <1>1 DEF CharsetInit, Now, States, Slots
<1>3. Kept(Now)
  BY <1>1 DEF CharsetInit, Now, Kept
<1> QED BY <1>2, <1>3 DEF CharsetInit, NotUsed, RightConversion, DescriptorInv, Good

LEMMA DescriptorsStep == DescriptorInv /\ [CharsetNext]_charsetVars => DescriptorInv'
<1> SUFFICES ASSUME DescriptorInv, [CharsetNext]_charsetVars PROVE DescriptorInv'
  OBVIOUS
<1>0. Now \in Good /\ RightConversion
  BY DEF DescriptorInv
<1>1. CASE PstOpen
  <2>1. Now' \in Good
    BY <1>0, <1>1, UnicodeInitFacts, BecomesGood DEF PstOpen
  <2> QED BY <1>0, <1>1, <2>1 DEF PstOpen, RightConversion, DescriptorInv
<1>2. CASE Utf16to8
  <2>1. i16to8 # Failed => i16to8 \in DOMAIN Now.open /\ Now.open[i16to8] = Converts("utf-16", "utf-8")
    BY <1>0 DEF Now, Good, Kept
  <2> QED BY <1>0, <1>2, <2>1, IconvGood DEF Utf16to8
<1>3. CASE Utf8to8bit
  <2>1. PICK c \in Charsets : \E s \in OpenTargets(Now, c) :
          IF s.from_open THEN Iconv(s, s.from, "utf-8", c) ELSE Becomes(s) /\ UNCHANGED used
    BY <1>3 DEF Utf8to8bit
  <2>2. PICK s \in OpenTargets(Now, c) :
          IF s.from_open THEN Iconv(s, s.from, "utf-8", c) ELSE Becomes(s) /\ UNCHANGED used
    BY <2>1
  <2>3. s \in Good /\ s.charset = c
    BY <1>0, OpenTargetsFacts
  <2>4. CASE s.from_open
    <3>1. s.from # Failed => s.from \in DOMAIN s.open /\ s.open[s.from] = Converts("utf-8", c)
      BY <2>3 DEF Good, Kept
    <3> QED BY <2>2, <2>3, <2>4, <3>1, IconvGood
  <2>5. CASE ~ s.from_open
    BY <1>0, <2>2, <2>3, <2>5, BecomesGood DEF RightConversion, DescriptorInv
  <2> QED BY <2>4, <2>5
<1>4. CASE To8bit2utf8
  <2>1. PICK c \in Charsets : \E s \in OpenTargets(Now, c) :
          IF s.to_open THEN Iconv(s, s.to, c, "utf-8") ELSE Becomes(s) /\ UNCHANGED used
    BY <1>4 DEF To8bit2utf8
  <2>2. PICK s \in OpenTargets(Now, c) :
          IF s.to_open THEN Iconv(s, s.to, c, "utf-8") ELSE Becomes(s) /\ UNCHANGED used
    BY <2>1
  <2>3. s \in Good /\ s.charset = c
    BY <1>0, OpenTargetsFacts
  <2>4. CASE s.to_open
    <3>1. s.to # Failed => s.to \in DOMAIN s.open /\ s.open[s.to] = Converts(c, "utf-8")
      BY <2>3 DEF Good, Kept
    <3> QED BY <2>2, <2>3, <2>4, <3>1, IconvGood
  <2>5. CASE ~ s.to_open
    BY <1>0, <2>2, <2>3, <2>5, BecomesGood DEF RightConversion, DescriptorInv
  <2> QED BY <2>4, <2>5
<1>5. CASE UNCHANGED charsetVars
  BY <1>0, <1>5 DEF charsetVars, Now, RightConversion, DescriptorInv
<1> QED BY <1>1, <1>2, <1>3, <1>4, <1>5 DEF CharsetNext

LEMMA DescriptorsKept == DescriptorInv => DescriptorsRight
<1> SUFFICES ASSUME DescriptorInv PROVE DescriptorsOwned
  BY DEF DescriptorsRight, DescriptorInv
<1>1. Now \in States /\ Kept(Now)
  BY DEF DescriptorInv, Good
<1>2. /\ ~ stray /\ DOMAIN open = {i16to8, i8totarget, target2i8} \ {Failed}
      /\ target_open_from = (i8totarget # Failed) /\ target_open_to = (target2i8 # Failed)
      /\ (~ unicode_up => i16to8 = Failed)
      /\ (i8totarget # Failed => i8totarget # target2i8 /\ i8totarget # i16to8)
      /\ (target2i8 # Failed => target2i8 # i16to8)
  BY <1>1 DEF Now, Kept
<1> DEFINE kept == {d \in {i16to8} : unicode_up} \cup {d \in {i8totarget} : target_open_from}
                \cup {d \in {target2i8} : target_open_to}
<1>3. DOMAIN open = kept \ {Failed}
  BY <1>2
<1> QED BY <1>2, <1>3 DEF DescriptorsOwned

\* Descriptors are closed once, and convert what they are used for
\* (DescriptorsRight of IconvTargets): for all charsets, in any order of files,
\* charsets and failures.
THEOREM DescriptorsNeverMixed == CharsetSpec => []DescriptorsRight
BY DescriptorsStart, DescriptorsStep, DescriptorsKept, PTL DEF CharsetSpec
=============================================================================
