--------------------------- MODULE IndexTreeProofs ---------------------------
(***************************************************************************)
(* The index for every depth, every size of blocks and every file: the     *)
(* recursion is bounded, the table fits its memory, and it is sorted as    *)
(* long as no call has failed; then the binary search finds every block of *)
(* the table, and no pointer of a descriptor goes stale.                   *)
(***************************************************************************)
EXTENDS IndexTree, SequenceTheorems, WellFoundedInduction, TLAPS

\* What the entries below the rest of a block may not reach.
NextBound(f) == IF f.rest # <<>> THEN Head(f.rest) ELSE f.end

Types ==
  /\ phase \in 1 .. 3
  /\ stack \in Seq(Frame) /\ (stack = <<>> <=> phase = 3)
  /\ i_table \in Seq(0 .. MaxId)
  /\ i_capacity \in Nat /\ failed \in BOOLEAN

\* A block that has been read passed the test of the depth.
Bounded ==
  /\ Len(stack) <= MaxDepth + 2
  /\ stack # <<>> /\ Top.level # "enter" => Len(stack) <= MaxDepth + 1
  /\ Len(i_table) <= i_capacity

\* A call works below the next entry of its caller; what a call has passed is
\* below its bound.
Nested ==
  /\ \A k \in 1 .. Len(stack) - 1 :
       stack[k].level = "inner" /\ stack[k + 1].end = NextBound(stack[k])
  /\ \A k \in 1 .. Len(stack) :
       IF stack[k].level = "enter" THEN stack[k].old = stack[k].start ELSE stack[k].old < stack[k].end

\* The table ends with what the innermost call has passed, or with what a call
\* for the entry before did.
Below ==
  \/ \A x \in DOMAIN i_table : i_table[x] <= Top.old
  \/ Top.level = "inner" /\ \A x \in DOMAIN i_table : i_table[x] < NextBound(Top)

IndexInv ==
  /\ Types /\ Bounded
  /\ phase = 1 /\ ~failed => Nested /\ Below
  /\ ~failed => Sorted

-----------------------------------------------------------------------------
\* Which tree is loaded follows from the phase.
LEMMA TwoTrees ==
  /\ Len(Trees) = 2 /\ Trees[1] = "id" /\ Trees[2] = "desc"
  /\ phase \in 1 .. 3 => (Loading <=> phase # 3)
  /\ phase = 1 => Tree = "id"
  /\ phase = 2 => Tree = "desc"
BY DEF Trees, Tree, Loading

\* The frame of the root is a frame.
LEMMA RootType == \A t : Root(t) \in Frame
<1> SUFFICES ASSUME NEW t PROVE Root(t) \in Frame
  OBVIOUS
<1>1. 0 \in Keys /\ DescStart \in Keys /\ Infinity \in Keys
  BY SizesAssumption DEF Keys, Infinity
<1>2. <<>> \in Seq({Overrun} \cup 0 .. MaxId)
  OBVIOUS
<1> QED BY <1>1, <1>2 DEF Root, NewFrame, Frame

\* Front of SequencesExt.
LEMMA FrontProperties ==
  ASSUME NEW S, NEW s \in Seq(S), s # <<>>
  PROVE  /\ Front(s) \in Seq(S) /\ Len(Front(s)) = Len(s) - 1
         /\ \A k \in 1 .. Len(s) - 1 : Front(s)[k] = s[k]
         /\ Front(s) = <<>> <=> Len(s) = 1
<1>1. Len(s) \in Nat \ {0} /\ \A k \in 1 .. Len(s) - 1 : s[k] \in S
  BY EmptySeq, ElementOfSeq
<1>2. /\ SubSeq(s, 1, Len(s) - 1) \in Seq(S)
      /\ Len(SubSeq(s, 1, Len(s) - 1)) = IF 1 <= Len(s) - 1 THEN Len(s) - 1 ELSE 0
      /\ \A k \in 1 .. Len(s) - 1 : SubSeq(s, 1, Len(s) - 1)[k] = s[k]
  <2> DEFINE l == Len(s) - 1
  <2>1. l \in Int /\ \A k \in 1 .. l : s[k] \in S
    BY <1>1
  <2> HIDE DEF l
  <2>2. /\ SubSeq(s, 1, l) \in Seq(S)
        /\ Len(SubSeq(s, 1, l)) = IF 1 <= l THEN l - 1 + 1 ELSE 0
        /\ \A k \in 1 .. l - 1 + 1 : SubSeq(s, 1, l)[k] = s[1 + k - 1]
    BY <2>1, SubSeqProperties
  <2>3. l - 1 + 1 = l /\ \A k \in 1 .. l : 1 + k - 1 = k
    BY <2>1
  <2> QED BY <2>2, <2>3 DEF l
<1> DEFINE front == SubSeq(s, 1, Len(s) - 1)
<1>3. Front(s) = front
  BY DEF Front
<1>4. /\ front \in Seq(S) /\ Len(front) = IF 1 <= Len(s) - 1 THEN Len(s) - 1 ELSE 0
      /\ \A k \in 1 .. Len(s) - 1 : front[k] = s[k]
  BY <1>2
<1> HIDE DEF front
<1>5. Len(front) = Len(s) - 1
  <2>1. CASE 1 <= Len(s) - 1
    BY ONLY <1>4, <2>1
  <2>2. CASE Len(s) = 1
    BY ONLY <1>4, <2>2
  <2>3. Len(s) \in Nat \ {0}
    BY <1>1
  <2>4. 1 <= Len(s) - 1 \/ Len(s) = 1
    BY ONLY <2>3
  <2> QED BY <2>1, <2>2, <2>4
<1>6. front = <<>> <=> Len(s) = 1
  BY <1>1, <1>4, <1>5, EmptySeq
<1> QED BY <1>3, <1>4, <1>5, <1>6

\* The innermost activation, and what is below it.
LEMMA TopType ==
  ASSUME Types, stack # <<>>
  PROVE  /\ Len(stack) \in Nat \ {0} /\ Top \in Frame
         /\ Front(stack) \in Seq(Frame) /\ Len(Front(stack)) = Len(stack) - 1
         /\ \A k \in 1 .. Len(stack) - 1 : Front(stack)[k] = stack[k]
         /\ Front(stack) = <<>> <=> Len(stack) = 1
<1>1. stack \in Seq(Frame) /\ Len(stack) \in Nat \ {0}
  BY DEF Types
<1>2. Top \in Frame
  BY <1>1 DEF Top
<1> QED BY <1>1, <1>2, FrontProperties

\* The innermost activation is replaced.
LEMMA SetTopType ==
  ASSUME Types, stack # <<>>, NEW f \in Frame
  PROVE  /\ SetTop(f) \in Seq(Frame) /\ Len(SetTop(f)) = Len(stack)
         /\ SetTop(f)[Len(stack)] = f
         /\ \A k \in 1 .. Len(stack) - 1 : SetTop(f)[k] = stack[k]
BY TopType DEF SetTop, Types

\* Before the first call the table is empty.
LEMMA InitInv == Init => IndexInv
<1> SUFFICES ASSUME Init PROVE IndexInv
  OBVIOUS
<1>1. stack = <<Root("id")>> /\ Root("id") \in Frame
  BY TwoTrees, RootType DEF Init
<1>2. Types
  <2>1. <<Root("id")>> \in Seq(Frame) /\ <<Root("id")>> # <<>>
    BY <1>1
  <2>2. <<>> \in Seq(0 .. MaxId)
    OBVIOUS
  <2>3. stack \in Seq(Frame) /\ stack # <<>>
    BY <1>1, <2>1
  <2>4. phase = 1 /\ i_table \in Seq(0 .. MaxId) /\ i_capacity = 0
    BY <2>2 DEF Init
  <2>5. failed \in BOOLEAN
    BY DEF Init
  <2> QED BY <2>3, <2>4, <2>5 DEF Types
<1>3. Bounded
  BY <1>1, SizesAssumption DEF Init, Bounded, Top, Root, NewFrame
<1>4. Nested /\ Below /\ Sorted
  BY <1>1 DEF Init, Nested, Below, Sorted, Root, NewFrame
<1> QED BY <1>2, <1>3, <1>4 DEF IndexInv

-----------------------------------------------------------------------------
\* A call returns: after a failure whatever it has done, without one at the end
\* of its block or at an entry 0.
LEMMA LeaveInv ==
  ASSUME IndexInv, Loading, Leave, failed' \in BOOLEAN, failed => failed',
         ~failed' => Top.level # "enter" /\ (Top.rest = <<>> \/ Head(Top.rest) = 0),
         UNCHANGED <<i_table, i_capacity>>
  PROVE  IndexInv'
<1>1. Types /\ Bounded /\ phase \in {1, 2} /\ stack # <<>> /\ i_table \in Seq(0 .. MaxId)
  BY TwoTrees DEF IndexInv, Types
<1>2. /\ Len(stack) \in Nat \ {0} /\ Top \in Frame
      /\ Front(stack) \in Seq(Frame) /\ Len(Front(stack)) = Len(stack) - 1
      /\ \A k \in 1 .. Len(stack) - 1 : Front(stack)[k] = stack[k]
      /\ Front(stack) = <<>> <=> Len(stack) = 1
  BY <1>1, TopType
<1>3. Sorted' \/ failed'
  BY DEF IndexInv, Sorted
<1>4. CASE Front(stack) # <<>>
  <2>1. stack' = Front(stack) /\ phase' = phase
    BY <1>4 DEF Leave
  <2>2. Types'
    BY <1>1, <1>2, <1>4, <2>1 DEF Types
  <2>3. Bounded'
    BY <1>1, <1>2, <1>4, <2>1, SizesAssumption DEF Bounded
  <2>4. ASSUME phase' = 1, ~failed' PROVE Nested' /\ Below'
    <3> DEFINE n == Len(stack) - 1
    <3>1. Nested /\ Below /\ n \in 1 .. Len(stack) - 1
      BY <1>2, <1>4, <2>1, <2>4 DEF IndexInv
    <3>2. Top' = stack[n] /\ stack[n].level = "inner" /\ Top.end = NextBound(stack[n])
      BY <1>2, <2>1, <3>1 DEF Nested, Top
    <3>3. Nested'
      <4>1. \A k \in 1 .. Len(stack') : k \in 1 .. Len(stack) /\ stack'[k] = stack[k]
        BY <1>2, <2>1
      <4>2. \A k \in 1 .. Len(stack') - 1 :
              /\ k \in 1 .. Len(stack) - 1 /\ stack'[k] = stack[k] /\ stack'[k + 1] = stack[k + 1]
              /\ NextBound(stack'[k]) = NextBound(stack[k])
        BY <1>2, <2>1, <4>1, SMTT(30) DEF NextBound
      <4> QED BY <3>1, <4>1, <4>2 DEF Nested
    <3>4. Top.old < Top.end
      BY <1>2, <2>4, <3>1 DEF Nested, Top
    <3>5. ASSUME NEW x \in DOMAIN i_table PROVE i_table[x] < Top.end
      <4>1. i_table[x] \in 0 .. MaxId /\ Top.old \in Int /\ Top.end \in Int
        <5>1. i_table \in Seq(0 .. MaxId) /\ x \in 1 .. Len(i_table)
          BY <1>1, LenProperties
        <5>2. i_table[x] \in 0 .. MaxId
          BY <5>1, ElementOfSeq
        <5>3. Top.old \in Keys /\ Top.end \in Keys
          BY <1>2 DEF Frame
        <5> QED BY <5>2, <5>3 DEF Keys
      <4>2. CASE i_table[x] <= Top.old
        BY <3>4, <4>1, <4>2
      <4>3. CASE i_table[x] < NextBound(Top)
        <5>1. Top.rest = <<>>
          BY <2>4, <4>1, <4>3 DEF NextBound
        <5> QED BY <4>3, <5>1 DEF NextBound
      <4> QED BY <3>1, <4>2, <4>3 DEF Below
    <3>6. Below'
      BY <3>2, <3>5 DEF Below
    <3> QED BY <3>3, <3>6
  <2> QED BY <1>3, <2>2, <2>3, <2>4 DEF IndexInv
<1>5. CASE Front(stack) = <<>>
  <2>1. phase' = phase + 1 /\ stack' = IF phase < 2 THEN <<Root(Trees[phase + 1])>> ELSE <<>>
    BY <1>5, TwoTrees DEF Leave
  <2>2. Types'
    <3>1. Root(Trees[phase + 1]) \in Frame
      BY RootType
    <3> QED BY <1>1, <2>1, <3>1 DEF Types
  <2>3. Bounded'
    <3>1. CASE phase = 1
      <4>1. stack' = <<Root(Trees[phase + 1])>>
        BY <2>1, <3>1
      <4> QED BY <1>1, <4>1, SizesAssumption DEF Bounded, Top, Root, NewFrame
    <3>2. CASE phase = 2
      BY <1>1, <2>1, <3>2, SizesAssumption DEF Bounded
    <3> QED BY <1>1, <3>1, <3>2
  <2>4. phase' # 1
    BY <1>1, <2>1
  <2> QED BY <1>3, <2>2, <2>3, <2>4 DEF IndexInv
<1> QED BY <1>4, <1>5

\* A block is read into the innermost activation.
LEMMA ReadInv == ASSUME IndexInv, Read PROVE IndexInv'
<1>1. Types /\ Bounded /\ phase \in {1, 2} /\ stack # <<>>
  BY TwoTrees DEF IndexInv, Types, Read
<1>2. PICK level \in {"leaf", "inner"}, b \in Blocks :
        stack' = SetTop([Top EXCEPT !.level = level, !.rest = b])
  BY DEF Read
<1> DEFINE f == [Top EXCEPT !.level = level, !.rest = b]
<1>3. Top \in Frame /\ Len(stack) \in Nat \ {0}
  BY <1>1, TopType
<1>4. b \in Seq({Overrun} \cup 0 .. MaxId)
  BY <1>2, SizesAssumption DEF Blocks, BoundedSeq, SeqOf
<1>5. /\ f \in Frame /\ f.level = level /\ f.end = Top.end /\ f.old = Top.old /\ f.rest = b
  BY <1>3, <1>4 DEF Frame
<1> HIDE DEF f
<1>6. /\ stack' \in Seq(Frame) /\ Len(stack') = Len(stack) /\ stack'[Len(stack)] = f
      /\ \A k \in 1 .. Len(stack) - 1 : stack'[k] = stack[k]
  BY <1>1, <1>2, <1>5, SetTopType DEF f
<1>7. Top' = f
  BY <1>6 DEF Top
<1>8. Types'
  BY <1>1, <1>3, <1>6 DEF Types, Read
<1>9. Bounded'
  BY <1>1, <1>3, <1>6, SizesAssumption DEF Bounded, Read, TooDeep
<1>10. ASSUME phase' = 1, ~failed' PROVE Nested' /\ Below'
  <2>1. Nested /\ Below /\ phase' = phase /\ i_table' = i_table
    BY <1>10 DEF IndexInv, Read
  <2>2. Top.level = "enter" /\ Top.start < Top.end
    BY DEF Read
  <2>3. Top.old = Top.start
    BY <1>3, <2>1, <2>2 DEF Nested, Top
  <2>4. \A k \in 1 .. Len(stack) - 1 :
          stack[k].level = "inner" /\ stack'[k + 1].end = NextBound(stack[k])
    <3> SUFFICES ASSUME NEW k \in 1 .. Len(stack) - 1
                 PROVE  stack[k].level = "inner" /\ stack'[k + 1].end = NextBound(stack[k])
      OBVIOUS
    <3>1. stack[k].level = "inner" /\ stack[k + 1].end = NextBound(stack[k])
      BY <2>1 DEF Nested
    <3>2. stack'[k + 1].end = stack[k + 1].end
      <4>1. CASE k + 1 = Len(stack)
        BY <1>5, <1>6, <4>1 DEF Top
      <4>2. CASE k + 1 # Len(stack)
        BY <1>3, <1>6, <4>2
      <4> QED BY <4>1, <4>2
    <3> QED BY <3>1, <3>2
  <2>5. \A k \in 1 .. Len(stack') :
          IF stack'[k].level = "enter" THEN stack'[k].old = stack'[k].start
          ELSE stack'[k].old < stack'[k].end
    <3>1. f.level # "enter" /\ f.old < f.end
      BY <1>5, <2>2, <2>3
    <3> QED BY <1>3, <1>6, <2>1, <3>1 DEF Nested
  <2>6. Nested'
    BY <1>3, <1>6, <2>4, <2>5 DEF Nested
  <2>7. Below'
    BY <1>5, <1>7, <2>1, <2>2 DEF Below
  <2> QED BY <2>6, <2>7
<1>11. ~failed' => Sorted'
  BY DEF IndexInv, Read, Sorted
<1> QED BY <1>8, <1>9, <1>10, <1>11 DEF IndexInv

-----------------------------------------------------------------------------
\* An entry that is in the range of the call.
LEMMA GoodEntry ==
  ASSUME IndexInv, NEW level \in {"leaf", "inner"}, Good(level)
  PROVE  /\ Types /\ Bounded /\ phase \in {1, 2} /\ stack # <<>>
         /\ Top \in Frame /\ Len(stack) \in Nat \ {0} /\ Len(stack) <= MaxDepth + 1
         /\ Entry \in 0 .. MaxId /\ Top.old <= Entry /\ Entry < Top.end /\ Top.level = level
         /\ Passed \in Frame /\ Passed.level = level /\ Passed.old = Entry /\ Passed.end = Top.end
         /\ Passed.rest = Tail(Top.rest) /\ NextBound(Passed) = EndOf(Top)
<1>1. Types /\ Bounded /\ phase \in {1, 2} /\ stack # <<>>
  BY TwoTrees DEF IndexInv, Types, Good, HasEntry
<1>2. Top \in Frame /\ Len(stack) \in Nat \ {0} /\ Top.level = level /\ Top.rest # <<>>
  BY <1>1, TopType DEF Good, HasEntry
<1>3. Len(stack) <= MaxDepth + 1
  BY <1>1, <1>2 DEF Bounded
<1>4. Top.rest \in Seq({Overrun} \cup 0 .. MaxId)
  BY <1>2 DEF Frame
<1>5. Entry \in 0 .. MaxId /\ Top.old <= Entry /\ Entry < Top.end
  BY <1>2, <1>4 DEF Good, Entry, InRange
<1>6. Tail(Top.rest) \in Seq({Overrun} \cup 0 .. MaxId)
  BY <1>2, <1>4
<1>7. Entry \in Keys
  BY <1>5, SizesAssumption DEF Keys, Infinity
<1>8. /\ Passed \in Frame /\ Passed.level = level /\ Passed.old = Entry /\ Passed.end = Top.end
      /\ Passed.rest = Tail(Top.rest)
  BY <1>2, <1>6, <1>7 DEF Passed, Frame
<1>9. NextBound(Passed) = EndOf(Top)
  <2>1. Len(Top.rest) \in Nat \ {0} /\ Len(Tail(Top.rest)) = Len(Top.rest) - 1
    BY <1>2, <1>4, EmptySeq
  <2>2. CASE Len(Top.rest) > 1
    <3> DEFINE r == Top.rest
               t == Tail(r)
    <3>1. /\ t \in Seq({Overrun} \cup 0 .. MaxId) /\ Len(t) = Len(r) - 1
          /\ \A k \in 1 .. Len(t) : t[k] = r[k + 1]
      BY <1>2, <1>4, HeadTailProperties
    <3>2. t # <<>>
      <4>1. Len(r) \in Nat /\ Len(r) > 1
        BY <2>1, <2>2
      <4> HIDE DEF r, t
      <4> QED BY <3>1, <4>1, EmptySeq
    <3>3. t[1] = r[2]
      <4>1. 1 \in 1 .. Len(t)
        BY <2>1, <2>2
      <4> QED BY <3>1, <4>1
    <3>4. Head(t) = t[1]
      BY <1>4, <1>6, <3>2
    <3> QED BY <1>8, <2>2, <3>2, <3>3, <3>4 DEF NextBound, EndOf
  <2>3. CASE ~(Len(Top.rest) > 1)
    <3>1. Tail(Top.rest) = <<>>
      BY <1>6, <2>1, <2>3, EmptySeq
    <3> QED BY <1>8, <2>3, <3>1 DEF NextBound, EndOf
  <2> QED BY <2>2, <2>3
<1> QED BY <1>1, <1>2, <1>3, <1>5, <1>8, <1>9

\* The loop goes on behind a good entry; the table is sorted and ends below it.
LEMMA PassedInv ==
  ASSUME IndexInv, NEW level \in {"leaf", "inner"}, Good(level), stack' = SetTop(Passed),
         UNCHANGED <<phase, failed>>, Sorted' \/ failed,
         i_table' \in Seq(0 .. MaxId), i_capacity' \in Nat, Len(i_table') <= i_capacity',
         phase = 1 /\ ~failed => \A x \in DOMAIN i_table' : i_table'[x] <= Entry
  PROVE  IndexInv'
<1>1. /\ Types /\ Bounded /\ phase \in {1, 2} /\ stack # <<>>
      /\ Top \in Frame /\ Len(stack) \in Nat \ {0} /\ Len(stack) <= MaxDepth + 1
      /\ Entry \in 0 .. MaxId /\ Top.old <= Entry /\ Entry < Top.end /\ Top.level = level
      /\ Passed \in Frame /\ Passed.level = level /\ Passed.old = Entry /\ Passed.end = Top.end
  BY GoodEntry
<1>2. /\ stack' \in Seq(Frame) /\ Len(stack') = Len(stack) /\ stack'[Len(stack)] = Passed
      /\ \A k \in 1 .. Len(stack) - 1 : stack'[k] = stack[k]
  BY <1>1, SetTopType
<1>3. Top' = Passed
  BY <1>2 DEF Top
<1>4. Types'
  <2>1. stack' # <<>>
    BY <1>1, <1>2
  <2> QED BY <1>1, <1>2, <2>1 DEF Types
<1>5. Bounded'
  BY <1>1, <1>2, SizesAssumption DEF Bounded
<1>6. ASSUME phase' = 1, ~failed' PROVE Nested' /\ Below'
  <2>1. Nested
    BY <1>6 DEF IndexInv
  <2>2. \A k \in 1 .. Len(stack) - 1 :
          stack[k].level = "inner" /\ stack'[k + 1].end = NextBound(stack[k])
    <3> SUFFICES ASSUME NEW k \in 1 .. Len(stack) - 1
                 PROVE  stack[k].level = "inner" /\ stack'[k + 1].end = NextBound(stack[k])
      OBVIOUS
    <3>1. stack[k].level = "inner" /\ stack[k + 1].end = NextBound(stack[k])
      BY <2>1 DEF Nested
    <3>2. stack'[k + 1].end = stack[k + 1].end
      <4>1. CASE k + 1 = Len(stack)
        BY <1>1, <1>2, <4>1 DEF Top
      <4>2. CASE k + 1 # Len(stack)
        BY <1>1, <1>2, <4>2
      <4> QED BY <4>1, <4>2
    <3> QED BY <3>1, <3>2
  <2>3. \A k \in 1 .. Len(stack') :
          IF stack'[k].level = "enter" THEN stack'[k].old = stack'[k].start
          ELSE stack'[k].old < stack'[k].end
    BY <1>1, <1>2, <2>1 DEF Nested
  <2>4. Nested'
    BY <1>1, <1>2, <2>2, <2>3 DEF Nested
  <2>5. Below'
    BY <1>1, <1>3, <1>6 DEF Below
  <2> QED BY <2>4, <2>5
<1> QED BY <1>4, <1>5, <1>6 DEF IndexInv

\* A good entry is not below the end of the table.
LEMMA TableBelow ==
  ASSUME IndexInv, NEW level \in {"leaf", "inner"}, Good(level), phase = 1, ~failed,
         NEW x \in DOMAIN i_table
  PROVE  i_table[x] <= Entry
<1>1. Below /\ i_table \in Seq(0 .. MaxId)
  BY DEF IndexInv, Types
<1>2. Top \in Frame /\ Entry \in 0 .. MaxId /\ Top.old <= Entry /\ Top.rest # <<>>
  BY GoodEntry DEF Good, HasEntry
<1>3. i_table[x] \in 0 .. MaxId
  <2>1. x \in 1 .. Len(i_table)
    BY <1>1, LenProperties
  <2> QED BY <1>1, <2>1, ElementOfSeq
<1>4. CASE i_table[x] <= Top.old
  <2>1. Top.old \in Keys
    BY <1>2 DEF Frame
  <2> QED BY <1>2, <1>3, <1>4, <2>1 DEF Keys
<1>5. CASE i_table[x] < NextBound(Top)
  <2>1. NextBound(Top) = Entry
    BY <1>2 DEF NextBound, Entry
  <2> QED BY <1>2, <1>3, <1>5, <2>1
<1> QED BY <1>1, <1>4, <1>5 DEF Below

\* An entry that is added is above the table and within its frame.
LEMMA AddIndexInv == ASSUME IndexInv, AddIndex PROVE IndexInv'
<1> DEFINE n == Len(i_table)
<1>1. Good("leaf") /\ i_table \in Seq(0 .. MaxId) /\ i_capacity \in Nat /\ n <= i_capacity /\ n \in Nat
  BY DEF AddIndex, IndexInv, Types, Bounded
<1>2. Entry \in 0 .. MaxId
  BY <1>1, GoodEntry
<1>3. /\ i_table' = Append(i_table, Entry) /\ i_table' \in Seq(0 .. MaxId) /\ Len(i_table') = n + 1
      /\ i_table'[n + 1] = Entry /\ \A x \in 1 .. n : i_table'[x] = i_table[x]
      /\ DOMAIN i_table = 1 .. n /\ DOMAIN i_table' = 1 .. n + 1
  BY <1>1, <1>2, AppendProperties, LenProperties DEF AddIndex
<1>4. i_capacity' \in Nat /\ n + 1 <= i_capacity'
  <2>1. CASE n = i_capacity
    <3>1. i_capacity' = i_capacity + i_capacity \div 2 + GrowBy
      BY <2>1 DEF AddIndex
    <3>2. i_capacity \div 2 \in Nat
      BY <1>1
    <3> QED BY <1>1, <2>1, <3>1, <3>2, SizesAssumption
  <2>2. CASE n # i_capacity
    BY <1>1, <2>2 DEF AddIndex
  <2> QED BY <2>1, <2>2
<1>5. phase = 1
  <2>1. phase = 2 => Tree # "id"
    BY TwoTrees
  <2>2. phase \in {1, 2}
    BY <1>1, GoodEntry
  <2> QED BY <2>1, <2>2 DEF AddIndex
<1>6. ASSUME ~failed PROVE Sorted' /\ \A x \in DOMAIN i_table' : i_table'[x] <= Entry
  <2>1. \A x \in 1 .. n : i_table[x] <= Entry
    BY <1>1, <1>3, <1>5, <1>6, TableBelow
  <2>2. \A x, y \in 1 .. n : x < y => i_table[x] <= i_table[y]
    BY <1>3, <1>6 DEF IndexInv, Sorted
  <2>3. ASSUME NEW x \in 1 .. n + 1, NEW y \in 1 .. n + 1, x < y PROVE i_table'[x] <= i_table'[y]
    <3>1. x \in 1 .. n
      BY <1>1, <2>3
    <3>2. CASE y = n + 1
      BY <1>3, <2>1, <3>1, <3>2
    <3>3. CASE y \in 1 .. n
      BY <1>3, <2>2, <2>3, <3>1, <3>3
    <3> QED BY <1>1, <3>2, <3>3
  <2>4. Sorted'
    BY <1>3, <2>3 DEF Sorted
  <2>5. \A x \in 1 .. n + 1 : i_table'[x] <= Entry
    <3>1. i_table'[n + 1] <= Entry
      BY <1>2, <1>3
    <3>2. \A x \in 1 .. n + 1 : x = n + 1 \/ x \in 1 .. n
      BY <1>1
    <3> QED BY <1>3, <2>1, <3>1, <3>2
  <2> QED BY <1>3, <2>4, <2>5
<1> QED BY <1>1, <1>3, <1>4, <1>6, PassedInv DEF AddIndex

\* Descriptors do not touch the table.
LEMMA AddDescInv == ASSUME IndexInv, AddDesc PROVE IndexInv'
<1>1. Good("leaf")
  BY DEF AddDesc
<1>2. phase # 1
  BY TwoTrees DEF AddDesc
<1>3. /\ i_table' \in Seq(0 .. MaxId) /\ i_capacity' \in Nat /\ Len(i_table') <= i_capacity'
      /\ Sorted' \/ failed
  BY DEF AddDesc, IndexInv, Types, Bounded, Sorted
<1> QED BY <1>1, <1>2, <1>3, PassedInv DEF AddDesc

\* A child gets bounds inside those of its parent.
LEMMA DescendInv == ASSUME IndexInv, Descend PROVE IndexInv'
<1>1. /\ Types /\ Bounded /\ phase \in {1, 2} /\ stack # <<>>
      /\ Top \in Frame /\ Len(stack) \in Nat \ {0} /\ Len(stack) <= MaxDepth + 1
      /\ Entry \in 0 .. MaxId /\ Top.old <= Entry /\ Entry < Top.end /\ Top.level = "inner"
      /\ Passed \in Frame /\ Passed.level = "inner" /\ Passed.old = Entry /\ Passed.end = Top.end
      /\ NextBound(Passed) = EndOf(Top)
  BY GoodEntry DEF Descend
<1> DEFINE child == NewFrame(Entry, EndOf(Top))
           n == Len(stack)
<1>2. EndOf(Top) \in Keys
  <2>1. Top.rest \in Seq({Overrun} \cup 0 .. MaxId) /\ Top.end \in Keys
    BY <1>1 DEF Frame
  <2>2. Len(Top.rest) > 1 => Top.rest[2] \in {Overrun} \cup 0 .. MaxId
    BY <2>1
  <2>3. 0 .. MaxId \subseteq Keys
    BY SizesAssumption DEF Keys, Infinity
  <2>4. EndOf(Top) # Overrun
    BY DEF Descend
  <2> QED BY <2>1, <2>2, <2>3, <2>4 DEF EndOf
<1>3. child \in Frame /\ child.level = "enter" /\ child.old = Entry /\ child.start = Entry /\ child.end = EndOf(Top)
  <2>1. Entry \in Keys
    BY <1>1, SizesAssumption DEF Keys, Infinity
  <2> QED BY <1>2, <2>1 DEF NewFrame, Frame
<1> HIDE DEF child
<1>4. /\ SetTop(Passed) \in Seq(Frame) /\ Len(SetTop(Passed)) = n /\ SetTop(Passed)[n] = Passed
      /\ \A k \in 1 .. n - 1 : SetTop(Passed)[k] = stack[k]
  BY <1>1, SetTopType
<1>5. stack' = Append(SetTop(Passed), child)
  BY DEF Descend, child
<1>6. /\ stack' \in Seq(Frame) /\ Len(stack') = n + 1 /\ stack'[n + 1] = child /\ stack'[n] = Passed
      /\ \A k \in 1 .. n - 1 : stack'[k] = stack[k]
  BY <1>1, <1>3, <1>4, <1>5, AppendProperties
<1>7. Top' = child
  BY <1>6 DEF Top
<1>8. Types'
  <2>1. stack' # <<>>
    BY <1>1, <1>6
  <2> QED BY <1>1, <1>6, <2>1 DEF Types, Descend
<1>9. Bounded'
  BY <1>1, <1>3, <1>6, <1>7, SizesAssumption DEF Bounded, Descend
<1>10. ASSUME phase' = 1, ~failed' PROVE Nested' /\ Below'
  <2>1. Nested /\ phase = 1 /\ ~failed /\ i_table' = i_table
    BY <1>10 DEF IndexInv, Descend
  <2>2. \A k \in 1 .. n :
          stack'[k].level = "inner" /\ stack'[k + 1].end = NextBound(stack'[k])
    <3> SUFFICES ASSUME NEW k \in 1 .. n
                 PROVE  stack'[k].level = "inner" /\ stack'[k + 1].end = NextBound(stack'[k])
      OBVIOUS
    <3>1. CASE k = n
      BY <1>1, <1>3, <1>6, <3>1
    <3>2. CASE k # n
      <4>1. k \in 1 .. n - 1 /\ stack'[k] = stack[k]
        BY <1>1, <1>6, <3>2
      <4>2. stack[k].level = "inner" /\ stack[k + 1].end = NextBound(stack[k])
        BY <2>1, <4>1 DEF Nested
      <4>3. stack'[k + 1].end = stack[k + 1].end
        <5>1. CASE k + 1 = n
          BY <1>1, <1>6, <5>1 DEF Top
        <5>2. CASE k + 1 # n
          BY <1>1, <1>6, <4>1, <5>2
        <5> QED BY <5>1, <5>2
      <4> QED BY <4>1, <4>2, <4>3
    <3> QED BY <3>1, <3>2
  <2>3. \A k \in 1 .. n + 1 :
          IF stack'[k].level = "enter" THEN stack'[k].old = stack'[k].start
          ELSE stack'[k].old < stack'[k].end
    <3> SUFFICES ASSUME NEW k \in 1 .. n + 1
                 PROVE  IF stack'[k].level = "enter" THEN stack'[k].old = stack'[k].start
                        ELSE stack'[k].old < stack'[k].end
      OBVIOUS
    <3>1. CASE k = n + 1
      BY <1>3, <1>6, <3>1
    <3>2. CASE k = n
      BY <1>1, <1>6, <3>2
    <3>3. CASE k \in 1 .. n - 1
      BY <1>1, <1>6, <2>1, <3>3 DEF Nested
    <3> QED BY <1>1, <3>1, <3>2, <3>3
  <2>4. Nested'
    BY <1>1, <1>6, <2>2, <2>3 DEF Nested
  <2>5. Below'
    BY <1>3, <1>7, <2>1, TableBelow DEF Below, Descend
  <2> QED BY <2>4, <2>5
<1>11. ~failed' => Sorted'
  BY DEF IndexInv, Descend, Sorted
<1> QED BY <1>8, <1>9, <1>10, <1>11 DEF IndexInv

-----------------------------------------------------------------------------
\* Every step keeps the invariant.
LEMMA NextInv == IndexInv /\ [Next]_vars => IndexInv'
<1> SUFFICES ASSUME IndexInv, [Next]_vars PROVE IndexInv'
  OBVIOUS
<1>1. CASE UNCHANGED vars
  BY <1>1 DEF vars, IndexInv, Types, Bounded, Nested, Below, Sorted, Top
<1>2. failed \in BOOLEAN
  BY DEF IndexInv, Types
<1>3. CASE Refuse
  <2>1. Loading /\ Leave /\ failed' = TRUE /\ UNCHANGED <<i_table, i_capacity>>
    BY <1>3 DEF Refuse, Fail
  <2> QED BY <2>1, LeaveInv
<1>4. CASE Read
  BY <1>4, ReadInv
<1>5. CASE EndBlock
  <2>1. /\ Loading /\ Leave /\ failed' = failed /\ UNCHANGED <<i_table, i_capacity>>
        /\ Top.level # "enter" /\ Top.rest = <<>>
    BY <1>5 DEF EndBlock, Return
  <2> QED BY <1>2, <2>1, LeaveInv
<1>6. CASE StopAtZero
  <2>1. /\ Loading /\ Leave /\ failed' = failed /\ UNCHANGED <<i_table, i_capacity>>
        /\ Top.level # "enter" /\ Head(Top.rest) = 0
    BY <1>6 DEF StopAtZero, Return, HasEntry, Entry
  <2> QED BY <1>2, <2>1, LeaveInv
<1>7. CASE BadEntry
  <2>1. Loading /\ Leave /\ failed' = TRUE /\ UNCHANGED <<i_table, i_capacity>>
    BY <1>7 DEF BadEntry, Fail, HasEntry
  <2> QED BY <2>1, LeaveInv
<1>8. CASE AddIndex
  BY <1>8, AddIndexInv
<1>9. CASE AddDesc
  BY <1>9, AddDescInv
<1>10. CASE Descend
  BY <1>10, DescendInv
<1> QED BY <1>1, <1>3, <1>4, <1>5, <1>6, <1>7, <1>8, <1>9, <1>10 DEF Next

(* libpst.c:1060-1199.  For any file, whatever its blocks say, the         *)
(* recursion stays within the depth that is tested, the table within its   *)
(* memory, and a table that was loaded without a failure is sorted.        *)
THEOREM IndexLoadedSound == Spec => []IndexSound
<1>1. IndexInv => IndexSound
  BY DEF IndexInv, Bounded, IndexSound
<1> QED BY <1>1, InitInv, NextInv, PTL DEF Spec

-----------------------------------------------------------------------------
\* Induction over a set of numbers.
LEMMA SetInduction ==
  ASSUME NEW T, T \subseteq Nat, 0 \in T, \A n \in T : n + 1 \in T
  PROVE  T = Nat
<1> SUFFICES ASSUME Nat \ T # {} PROVE FALSE
  OBVIOUS
<1>1. \E x \in Nat \ T : \A y \in Nat \ T : ~ (<<y, x>> \in OpToRel(<, Nat))
  <2>1. Nat \ T \subseteq Nat
    OBVIOUS
  <2> QED BY <2>1, NatLessThanWellFounded, WFMin
<1>2. PICK x \in Nat \ T : \A y \in Nat \ T : ~ (y < x)
  BY <1>1 DEF OpToRel
<1>3. x - 1 \in Nat /\ x - 1 < x /\ (x - 1) + 1 = x
  OBVIOUS
<1>4. x - 1 \in T
  BY <1>2, <1>3
<1> QED BY <1>3, <1>4

-----------------------------------------------------------------------------
\* One step of the binary search, with f for the rest of it.
Halved(f, s) ==
  IF s[1] >= s[2] THEN 0
  ELSE LET m == (s[1] + s[2]) \div 2
       IN  IF s[3] = i_table[m] THEN m
           ELSE IF s[3] < i_table[m] THEN f[<<s[1], m, s[3]>>] ELSE f[<<m + 1, s[2], s[3]>>]
Searches == Places \X Places \X Keys
Solves(f, n) == \A s \in Searches : s[2] - s[1] <= n => f[s] = Halved(f, s)

\* The middle of a range that is not empty divides it.
LEMMA Middle ==
  ASSUME NEW s \in Searches, s[1] < s[2]
  PROVE  LET m == (s[1] + s[2]) \div 2
         IN /\ <<s[1], m, s[3]>> \in Searches /\ <<m + 1, s[2], s[3]>> \in Searches
            /\ m \in Nat /\ s[1] <= m /\ m < s[2]
BY SizesAssumption DEF Places, Searches

\* The recursive function exists, so its defining equation holds.
LEMMA SearchEquation == \A s \in Searches : Search[s] = Halved(Search, s)
<1> DEFINE T == {n \in Nat : \E f : Solves(f, n)}
<1>0. MaxEntries \in Nat /\ Places \subseteq Nat /\ \A s \in Searches : s[1] \in Nat /\ s[2] \in Nat
  BY SizesAssumption DEF Places, Searches
<1>1. 0 \in T
  <2> DEFINE f == [s \in Searches |-> 0]
  <2>1. Solves(f, 0)
    BY <1>0 DEF Solves, Halved
  <2> QED BY <2>1
<1>2. ASSUME NEW n \in T PROVE n + 1 \in T
  <2>1. PICK f : Solves(f, n)
    OBVIOUS
  <2> DEFINE g == [s \in Searches |-> Halved(f, s)]
  <2>2. \A s \in Searches : g[s] = Halved(f, s)
    OBVIOUS
  <2> HIDE DEF g
  <2>3. \A s \in Searches : s[2] - s[1] <= n => g[s] = f[s]
    BY <2>1, <2>2 DEF Solves
  <2>4. ASSUME NEW s \in Searches, s[2] - s[1] <= n + 1
        PROVE  Halved(g, s) = Halved(f, s)
    <3>1. CASE s[1] >= s[2]
      BY <3>1 DEF Halved
    <3>2. CASE s[1] < s[2]
      <4>0. PICK m : m = (s[1] + s[2]) \div 2
        OBVIOUS
      <4>1. /\ <<s[1], m, s[3]>> \in Searches /\ <<m + 1, s[2], s[3]>> \in Searches
            /\ m - s[1] <= n /\ s[2] - (m + 1) <= n
        BY <1>0, <2>4, <3>2, <4>0, Middle
      <4>2. /\ g[<<s[1], m, s[3]>>] = f[<<s[1], m, s[3]>>]
            /\ g[<<m + 1, s[2], s[3]>>] = f[<<m + 1, s[2], s[3]>>]
        BY <2>3, <4>1
      <4> QED BY <4>0, <4>2 DEF Halved
    <3> QED BY <1>0, <3>1, <3>2
  <2>5. Solves(g, n + 1)
    BY <2>2, <2>4 DEF Solves
  <2> QED BY <2>5
<1>3. T = Nat
  <2> HIDE DEF T
  <2>1. T \subseteq Nat
    BY DEF T
  <2> QED BY <1>1, <1>2, <2>1, SetInduction
<1>4. PICK f : Solves(f, MaxEntries)
  BY <1>0, <1>3
<1> DEFINE g == [s \in Searches |-> Halved(f, s)]
<1>5. \A s \in Searches : g[s] = f[s]
  <2>1. \A s \in Searches : s[2] - s[1] <= MaxEntries
    BY <1>0 DEF Places, Searches
  <2> QED BY <1>4, <2>1 DEF Solves
<1>6. g = [s \in Searches |-> Halved(g, s)]
  <2>1. ASSUME NEW s \in Searches PROVE Halved(f, s) = Halved(g, s)
    <3> HIDE DEF g
    <3>1. CASE s[1] >= s[2]
      BY <3>1 DEF Halved
    <3>2. CASE s[1] < s[2]
      BY <1>5, <3>2, Middle DEF Halved
    <3> QED BY <1>0, <3>1, <3>2
  <2> QED BY <2>1
<1>7. \E h : h = [s \in Searches |-> Halved(h, s)]
  BY <1>6
<1>8. Search = [s \in Searches |-> Halved(Search, s)]
  BY <1>7 DEF Search, Halved, Searches
<1> QED BY <1>8

-----------------------------------------------------------------------------
\* What the search finds, and that it does not miss anything.
Located(s) == Search[s] # 0 => Search[s] \in s[1] .. s[2] - 1 /\ i_table[Search[s]] = s[3]
Reached(s) == \A x \in s[1] .. s[2] - 1 : i_table[x] = s[3] => Search[s] # 0

\* The numbers of a search.
LEMMA SearchNumbers ==
  /\ MaxEntries \in Nat /\ Searches # {}
  /\ \A s \in Searches : s[1] \in Nat \ {0} /\ s[2] \in Nat \ {0} /\ s[3] \in Keys
  /\ \A s \in Searches : s[2] - s[1] \in Int /\ s[2] - s[1] <= MaxEntries
<1>1. MaxEntries \in Nat /\ MaxId \in Nat
  BY SizesAssumption
<1>2. <<1, 1, 0>> \in Searches
  BY <1>1 DEF Searches, Places, Keys, Infinity
<1> QED BY <1>1, <1>2 DEF Searches, Places

\* A position the search returns lies between its bounds and holds the key.
LEMMA SearchLocated == \A s \in Searches : Located(s)
<1> DEFINE T == {n \in Nat : \A s \in Searches : s[2] - s[1] <= n => Located(s)}
<1>1. 0 \in T
  <2>1. ASSUME NEW s \in Searches, s[2] - s[1] <= 0 PROVE Located(s)
    <3>1. s[1] >= s[2]
      BY <2>1, SearchNumbers
    <3> QED BY <3>1, SearchEquation DEF Halved, Located
  <2> QED BY <2>1
<1>2. ASSUME NEW n \in T PROVE n + 1 \in T
  <2>1. ASSUME NEW s \in Searches, s[2] - s[1] <= n + 1 PROVE Located(s)
    <3>1. CASE s[1] >= s[2]
      BY <3>1, SearchEquation DEF Halved, Located
    <3>2. CASE s[1] < s[2]
      <4>0. PICK m : m = (s[1] + s[2]) \div 2
        OBVIOUS
      <4> DEFINE a == <<s[1], m, s[3]>>
                 b == <<m + 1, s[2], s[3]>>
      <4>1. a \in Searches /\ b \in Searches /\ m \in Nat /\ s[1] <= m /\ m < s[2]
        BY <3>2, <4>0, Middle
      <4>2. m - s[1] <= n /\ s[2] - (m + 1) <= n
        BY <2>1, <4>1, SearchNumbers
      <4>3. Located(a) /\ Located(b)
        BY <4>1, <4>2
      <4>4. Search[s] = IF s[3] = i_table[m] THEN m ELSE IF s[3] < i_table[m] THEN Search[a] ELSE Search[b]
        BY <3>2, <4>0, SearchEquation, SearchNumbers DEF Halved
      <4>5. Search[a] # 0 => Search[a] \in s[1] .. m - 1 /\ i_table[Search[a]] = s[3]
        BY <4>3 DEF Located
      <4>6. Search[b] # 0 => Search[b] \in m + 1 .. s[2] - 1 /\ i_table[Search[b]] = s[3]
        BY <4>3 DEF Located
      <4> HIDE DEF a, b
      <4>7. s[1] \in Nat /\ s[2] \in Nat
        BY SearchNumbers
      <4> QED BY <4>1, <4>4, <4>5, <4>6, <4>7 DEF Located
    <3> QED BY <3>1, <3>2, SearchNumbers
  <2> QED BY <2>1
<1>3. T = Nat
  <2> HIDE DEF T
  <2>1. T \subseteq Nat
    BY DEF T
  <2> QED BY <1>1, <1>2, <2>1, SetInduction
<1> QED BY <1>3, SearchNumbers

\* In a sorted table the search does not miss a key between its bounds.
LEMMA SearchReaches ==
  ASSUME i_table \in Seq(0 .. MaxId), Sorted
  PROVE  \A s \in Searches : s[2] <= Len(i_table) + 1 => Reached(s)
<1> DEFINE T == {n \in Nat : \A s \in Searches : s[2] <= Len(i_table) + 1 /\ s[2] - s[1] <= n => Reached(s)}
<1>1. 0 \in T
  <2>1. ASSUME NEW s \in Searches, s[2] - s[1] <= 0 PROVE Reached(s)
    BY <2>1, SearchNumbers DEF Reached
  <2> QED BY <2>1
<1>2. ASSUME NEW n \in T PROVE n + 1 \in T
  <2>1. ASSUME NEW s \in Searches, s[2] <= Len(i_table) + 1, s[2] - s[1] <= n + 1,
               NEW x \in s[1] .. s[2] - 1, i_table[x] = s[3]
        PROVE  Search[s] # 0
    <3>0. s[1] \in Nat \ {0} /\ s[2] \in Nat \ {0} /\ s[3] \in Keys /\ Len(i_table) \in Nat
      BY SearchNumbers
    <3>1. s[1] < s[2] /\ x \in 1 .. Len(i_table)
      BY <2>1, <3>0
    <3>2. PICK m : m = (s[1] + s[2]) \div 2
      OBVIOUS
    <3> DEFINE a == <<s[1], m, s[3]>>
               b == <<m + 1, s[2], s[3]>>
    <3>3. a \in Searches /\ b \in Searches /\ m \in Nat /\ s[1] <= m /\ m < s[2]
      BY <3>1, <3>2, Middle
    <3>4. m - s[1] <= n /\ s[2] - (m + 1) <= n /\ m <= Len(i_table) + 1 /\ m \in 1 .. Len(i_table)
      BY <2>1, <3>0, <3>3, SMTT(30)
    <3>5. Reached(a) /\ Reached(b)
      BY <2>1, <3>3, <3>4
    <3>6. Search[s] = IF s[3] = i_table[m] THEN m ELSE IF s[3] < i_table[m] THEN Search[a] ELSE Search[b]
      BY <3>0, <3>1, <3>2, SearchEquation, SMTT(30) DEF Halved
    <3>7. x \in s[1] .. m - 1 => Search[a] # 0
      BY <2>1, <3>5 DEF Reached
    <3>8. x \in m + 1 .. s[2] - 1 => Search[b] # 0
      BY <2>1, <3>5 DEF Reached
    <3> HIDE DEF a, b
    <3>9. i_table[m] \in 0 .. MaxId /\ i_table[x] \in 0 .. MaxId
      BY <3>1, <3>4, ElementOfSeq
    <3>10. (m < x => i_table[m] <= i_table[x]) /\ (x < m => i_table[x] <= i_table[m])
      BY <3>1, <3>4, LenProperties DEF Sorted
    <3>11. CASE s[3] = i_table[m]
      BY <3>0, <3>3, <3>6, <3>11
    <3>12. CASE s[3] < i_table[m]
      <4>1. x < m
        BY <2>1, <3>1, <3>4, <3>9, <3>10, <3>12
      <4> QED BY <2>1, <3>0, <3>3, <3>6, <3>7, <3>9, <3>12, <4>1
    <3>13. CASE s[3] > i_table[m]
      <4>1. x > m
        BY <2>1, <3>1, <3>4, <3>9, <3>10, <3>13
      <4> QED BY <2>1, <3>0, <3>3, <3>6, <3>8, <3>9, <3>13, <4>1, SMTT(30)
    <3> QED BY <2>1, <3>9, <3>11, <3>12, <3>13
  <2> QED BY <2>1 DEF Reached
<1>3. T = Nat
  <2> HIDE DEF T
  <2>1. T \subseteq Nat
    BY DEF T
  <2> QED BY <1>1, <1>2, <2>1, SetInduction
<1> QED BY <1>3, SearchNumbers

\* What pst_getID returns.
LEMMA GetIDResult ==
  ASSUME i_table \in Seq(0 .. MaxId), Len(i_table) <= MaxEntries, NEW key \in Keys
  PROVE  /\ GetID(key) \in 0 .. Len(i_table)
         /\ GetID(key) # 0 => i_table[GetID(key)] = Even(key)
         /\ Sorted /\ key # 0 /\ Contains(i_table, Even(key)) => GetID(key) # 0
<1> DEFINE s == <<1, Len(i_table) + 1, Even(key)>>
<1>1. Len(i_table) \in Nat /\ MaxEntries \in Nat /\ MaxId \in Nat
  BY SizesAssumption
<1>2. Even(key) \in Keys
  BY <1>1 DEF Even, Keys, Infinity
<1>3. s \in Searches
  BY <1>1, <1>2 DEF Searches, Places
<1>4. s[1] = 1 /\ s[2] = Len(i_table) + 1 /\ s[3] = Even(key)
  OBVIOUS
<1>5. GetID(key) = IF key = 0 THEN 0 ELSE Search[s]
  BY DEF GetID
<1> HIDE DEF s
<1>6. Search[s] # 0 => Search[s] \in 1 .. Len(i_table) /\ i_table[Search[s]] = Even(key)
  BY <1>1, <1>3, <1>4, SearchLocated DEF Located
<1>7. ASSUME Sorted, Contains(i_table, Even(key)) PROVE Search[s] # 0
  <2>1. PICK x \in 1 .. Len(i_table) : i_table[x] = Even(key)
    BY <1>7 DEF Contains
  <2>2. Reached(s)
    BY <1>1, <1>3, <1>4, <1>7, SearchReaches
  <2> QED BY <1>1, <1>4, <2>1, <2>2 DEF Reached
<1> QED BY <1>1, <1>5, <1>6, <1>7

-----------------------------------------------------------------------------
\* What the calls on the stack may still add to the table.
Weights(w) == \A k \in Nat : w[k] \in Nat
Weighs(w, st) == Weights(w) /\ \A k \in 1 .. Len(st) : w[k - 1] + Len(st[k].rest) <= w[k]

\* The weights around one call.
LEMMA WeighsAt ==
  ASSUME NEW st \in Seq(Frame), NEW w, Weighs(w, st), NEW k \in 1 .. Len(st)
  PROVE  /\ Weights(w) /\ k \in Nat \ {0} /\ k - 1 \in Nat
         /\ w[k - 1] \in Nat /\ w[k] \in Nat /\ Len(st[k].rest) \in Nat
         /\ w[k - 1] + Len(st[k].rest) <= w[k]
<1>1. k \in Nat \ {0} /\ k - 1 \in Nat
  OBVIOUS
<1>2. st[k] \in Frame
  OBVIOUS
<1>3. Len(st[k].rest) \in Nat
  BY <1>2 DEF Frame
<1>4. w[k - 1] + Len(st[k].rest) <= w[k] /\ Weights(w)
  BY DEF Weighs
<1>5. w[k - 1] \in Nat /\ w[k] \in Nat
  BY <1>1, <1>4 DEF Weights
<1> QED BY <1>1, <1>3, <1>4, <1>5

\* The weight of one call is replaced.
LEMMA Reweigh ==
  ASSUME NEW w, Weights(w), NEW n \in Nat, NEW x \in Nat
  PROVE  \E v : Weights(v) /\ v[n] = x /\ \A k \in Nat : k # n => v[k] = w[k]
<1> DEFINE v == [k \in Nat |-> IF k = n THEN x ELSE w[k]]
<1>1. v[n] = x /\ \A k \in Nat : k # n => v[k] = w[k]
  OBVIOUS
<1>2. Weights(v)
  BY DEF Weights
<1> QED BY <1>1, <1>2

Fits ==
  /\ Len(i_table) <= MaxEntries
  /\ phase = 1 => \E w : Weighs(w, stack) /\ w[Len(stack)] + budget + Len(i_table) <= MaxEntries

Pointer == [key : Keys, at : 0 .. Len(i_table), moves : Nat]
Pointers ==
  /\ moves \in Nat /\ budget \in Nat
  /\ phase = 1 => descs = <<>>
  /\ descs \in Seq(Pointer)
  /\ DescPointersValid

LookupInv == IndexInv /\ Fits /\ Pointers

\* The type invariant and the promise of pst_getID follow.
LEMMA LookupFollows == LookupInv => LookupFinds
<1> SUFFICES ASSUME LookupInv PROVE LookupFinds
  OBVIOUS
<1>1. TypeOK
  <2>1. Types
    BY DEF LookupInv, IndexInv
  <2>2. (stack = <<>>) = ~Loading
    BY <2>1, TwoTrees DEF Types
  <2> QED BY <2>1, <2>2 DEF LookupInv, Pointers, Pointer, Types, TypeOK
<1>2. i_table \in Seq(0 .. MaxId) /\ Len(i_table) <= MaxEntries /\ (~failed => Sorted)
  BY DEF LookupInv, IndexInv, Types, Fits
<1>3. ASSUME ~failed, NEW key \in Keys \ {0}
      PROVE  IF Contains(i_table, Even(key))
             THEN GetID(key) # 0 /\ i_table[GetID(key)] = Even(key)
             ELSE GetID(key) = 0
  <2>1. CASE Contains(i_table, Even(key))
    BY <1>2, <1>3, <2>1, GetIDResult
  <2>2. CASE ~Contains(i_table, Even(key))
    <3>1. SUFFICES ASSUME GetID(key) # 0 PROVE FALSE
      BY <2>2
    <3>2. GetID(key) \in 1 .. Len(i_table) /\ i_table[GetID(key)] = Even(key)
      BY <1>2, <3>1, GetIDResult
    <3> QED BY <2>2, <3>2 DEF Contains
  <2> QED BY <2>1, <2>2
<1> QED BY <1>1, <1>3 DEF LookupFinds

\* Before the first block nothing has been added.
LEMMA InitLookup == Init => LookupInv
<1> SUFFICES ASSUME Init PROVE LookupInv
  OBVIOUS
<1>1. MaxEntries \in Nat
  BY SizesAssumption
<1>2. Fits
  <2> DEFINE w == [k \in Nat |-> 0]
  <2>1. stack = <<Root("id")>> /\ Root("id").rest = <<>>
    BY TwoTrees DEF Init, Root, NewFrame
  <2>2. Weighs(w, stack) /\ w[Len(stack)] = 0
    BY <2>1 DEF Weighs, Weights
  <2> QED BY <1>1, <2>2 DEF Init, Fits
<1>3. Pointers
  BY <1>1 DEF Init, Pointers, DescPointersValid
<1> QED BY <1>2, <1>3, InitInv DEF LookupInv

\* A step that leaves the table and the pointers alone.
LEMMA PointersKept ==
  ASSUME Pointers, UNCHANGED <<i_table, moves, descs>>, budget' \in Nat, phase' = 1 => phase = 1
  PROVE  Pointers'
BY DEF Pointers, Pointer, DescPointersValid, Even

\* A call returns: its caller has what it had.
LEMMA LeaveLookup ==
  ASSUME LookupInv, Loading, Leave, UNCHANGED <<i_table, moves, descs>>
  PROVE  Fits' /\ Pointers'
<1>1. Types /\ phase \in {1, 2} /\ stack # <<>> /\ budget \in Nat /\ Len(i_table) \in Nat
  BY TwoTrees DEF LookupInv, IndexInv, Types, Pointers
<1>2. /\ Len(stack) \in Nat \ {0}
      /\ Front(stack) \in Seq(Frame) /\ Len(Front(stack)) = Len(stack) - 1
      /\ \A k \in 1 .. Len(stack) - 1 : Front(stack)[k] = stack[k]
  BY <1>1, TopType
<1>3. CASE Front(stack) # <<>>
  <2>1. stack' = Front(stack) /\ phase' = phase /\ budget' = budget
    BY <1>3 DEF Leave
  <2>2. Pointers'
    BY <1>1, <2>1, PointersKept DEF LookupInv
  <2>3. Fits'
    <3>1. SUFFICES ASSUME phase = 1
                   PROVE \E w : Weighs(w, stack') /\ w[Len(stack')] + budget + Len(i_table) <= MaxEntries
      BY <2>1 DEF LookupInv, Fits
    <3>2. PICK w : Weighs(w, stack) /\ w[Len(stack)] + budget + Len(i_table) <= MaxEntries
      BY <3>1 DEF LookupInv, Fits
    <3> DEFINE n == Len(stack)
    <3>3. stack \in Seq(Frame) /\ n \in 1 .. Len(stack) /\ MaxEntries \in Nat
      BY <1>1, <1>2, SizesAssumption DEF Types
    <3>31. n \in Nat \ {0}
      BY <1>2
    <3> HIDE DEF n
    <3>4. /\ w[n - 1] \in Nat /\ w[n] \in Nat /\ Len(stack[n].rest) \in Nat
          /\ w[n - 1] + Len(stack[n].rest) <= w[n]
      BY <3>2, <3>3, WeighsAt
    <3>5. w[n] + budget + Len(i_table) <= MaxEntries
      BY <3>2 DEF n
    <3>6. w[n - 1] + budget + Len(i_table) <= MaxEntries
      <4>1. PICK a \in Nat, b \in Nat, r \in Nat : a = w[n - 1] /\ b = w[n] /\ r = Len(stack[n].rest)
        BY <3>4
      <4>2. a + r <= b /\ b + budget + Len(i_table) <= MaxEntries
        BY <3>4, <3>5, <4>1
      <4>3. a + budget + Len(i_table) <= MaxEntries
        BY <1>1, <3>3, <4>2
      <4> QED BY <4>1, <4>3
    <3>7. ASSUME NEW k \in 1 .. Len(stack') PROVE w[k - 1] + Len(stack'[k].rest) <= w[k]
      <4>1. k \in 1 .. Len(stack) - 1 /\ k \in 1 .. Len(stack)
        BY <1>2, <2>1
      <4>2. stack'[k] = stack[k]
        BY <1>2, <2>1, <4>1
      <4> QED BY <3>2, <3>3, <4>1, <4>2, WeighsAt
    <3>8. Weighs(w, stack')
      BY <3>2, <3>7 DEF Weighs
    <3>9. Len(stack') = n - 1
      BY <1>2, <2>1 DEF n
    <3> QED BY <3>6, <3>8, <3>9
  <2> QED BY <2>2, <2>3
<1>4. CASE Front(stack) = <<>>
  <2>1. phase' = phase + 1 /\ budget' = MaxDescs
    BY <1>4 DEF Leave
  <2>2. phase' # 1 /\ budget' \in Nat
    BY <1>1, <2>1, SizesAssumption
  <2>3. Pointers'
    BY <2>2, PointersKept DEF LookupInv
  <2> QED BY <2>2, <2>3 DEF LookupInv, Fits
<1> QED BY <1>3, <1>4

\* A block takes what it holds from the budget.
LEMMA ReadLookup == ASSUME LookupInv, Read PROVE Fits' /\ Pointers'
<1>1. Types /\ stack # <<>> /\ budget \in Nat /\ Len(i_table) \in Nat /\ MaxEntries \in Nat
  BY TwoTrees, SizesAssumption DEF LookupInv, IndexInv, Types, Pointers, Read
<1>2. PICK level \in {"leaf", "inner"}, b \in Blocks :
        /\ Len(b) <= budget /\ budget' = budget - Len(b)
        /\ stack' = SetTop([Top EXCEPT !.level = level, !.rest = b])
  BY DEF Read
<1> DEFINE f == [Top EXCEPT !.level = level, !.rest = b]
           n == Len(stack)
<1>3. Top \in Frame /\ n \in Nat \ {0}
  BY <1>1, TopType
<1>4. b \in Seq({Overrun} \cup 0 .. MaxId)
  BY <1>2, SizesAssumption DEF Blocks, BoundedSeq, SeqOf
<1>5. f \in Frame /\ f.rest = b /\ Len(b) \in Nat
  <2>1. f \in Frame
    BY <1>3, <1>4 DEF Frame
  <2>2. f.rest = b
    BY <1>3 DEF Frame
  <2> QED BY <1>4, <2>1, <2>2
<1>6. /\ Len(stack') = n /\ stack'[n] = f /\ \A k \in 1 .. n - 1 : stack'[k] = stack[k]
  BY <1>1, <1>2, <1>5, SetTopType
<1> HIDE DEF f
<1>7. budget' \in Nat /\ UNCHANGED <<phase, i_table, moves, descs>>
  BY <1>1, <1>2, <1>5 DEF Read
<1>8. Fits'
  <2>1. SUFFICES ASSUME phase = 1
                 PROVE \E w : Weighs(w, stack') /\ w[n] + budget' + Len(i_table) <= MaxEntries
    BY <1>6, <1>7 DEF LookupInv, Fits
  <2>2. PICK w : Weighs(w, stack) /\ w[n] + budget + Len(i_table) <= MaxEntries
    BY <2>1 DEF LookupInv, Fits
  <2>0. stack \in Seq(Frame) /\ n \in 1 .. n
    BY <1>1, <1>3 DEF Types
  <2>3. /\ Weights(w) /\ w[n - 1] \in Nat /\ w[n] \in Nat /\ n - 1 \in Nat
        /\ w[n - 1] + Len(stack[n].rest) <= w[n]
    BY <2>0, <2>2, WeighsAt
  <2>4. Len(stack[n].rest) \in Nat
    BY <2>0, <2>2, WeighsAt
  <2>5. PICK v : Weights(v) /\ v[n] = w[n - 1] + Len(b) /\ \A k \in Nat : k # n => v[k] = w[k]
    <3>1. w[n - 1] + Len(b) \in Nat
      BY <1>5, <2>3
    <3>2. PICK x \in Nat : x = w[n - 1] + Len(b)
      BY <3>1
    <3>3. \E v : Weights(v) /\ v[n] = x /\ \A k \in Nat : k # n => v[k] = w[k]
      <4>1. Weights(w) /\ n \in Nat
        BY <1>3, <2>3
      <4> HIDE DEF n
      <4> QED BY <4>1, Reweigh
    <3> QED BY <3>2, <3>3
  <2>51. v[n - 1] = w[n - 1]
    BY <1>3, <2>3, <2>5
  <2>6. Weighs(v, stack')
    <3>1. ASSUME NEW k \in 1 .. n - 1 PROVE v[k - 1] + Len(stack'[k].rest) <= v[k]
      <4>0. k \in 1 .. n /\ k # n /\ k - 1 # n
        BY <1>3
      <4>1. w[k - 1] + Len(stack[k].rest) <= w[k] /\ k \in Nat /\ k - 1 \in Nat
        BY <2>0, <2>2, <4>0, WeighsAt
      <4>2. v[k - 1] = w[k - 1] /\ v[k] = w[k] /\ stack'[k] = stack[k]
        BY <1>6, <2>5, <4>0, <4>1
      <4> QED BY <4>1, <4>2
    <3>2. v[n - 1] + Len(stack'[n].rest) <= v[n]
      <4>1. stack'[n].rest = b
        BY <1>5, <1>6
      <4> QED BY <1>5, <2>3, <2>5, <2>51, <4>1
    <3>3. \A k \in 1 .. n : k = n \/ k \in 1 .. n - 1
      BY <1>3
    <3> QED BY <1>6, <2>5, <3>1, <3>2, <3>3 DEF Weighs
  <2>7. v[n] + budget' + Len(i_table) <= MaxEntries
    <3>1. w[n] + budget + Len(i_table) <= MaxEntries /\ w[n - 1] <= w[n]
      BY <2>2, <2>3, <2>4
    <3>2. v[n] + budget' = w[n - 1] + budget
      BY <1>1, <1>2, <1>5, <2>3, <2>5
    <3> QED BY <1>1, <2>3, <3>1, <3>2
  <2> QED BY <2>6, <2>7
<1>9. Pointers'
  BY <1>7, PointersKept DEF LookupInv
<1> QED BY <1>8, <1>9

\* An entry that the loop has passed is no longer in the block.
LEMMA PassedWeight ==
  ASSUME LookupInv, NEW level \in {"leaf", "inner"}, Good(level), phase = 1
  PROVE  \E w : /\ Weighs(w, SetTop(Passed))
                /\ w[Len(stack)] + 1 + budget + Len(i_table) <= MaxEntries
<1> DEFINE n == Len(stack)
<1>1. /\ Types /\ stack # <<>> /\ Top \in Frame /\ n \in Nat \ {0} /\ Passed \in Frame
      /\ Passed.rest = Tail(Top.rest) /\ Top.rest # <<>>
  BY GoodEntry DEF LookupInv, Good, HasEntry
<1>2. Len(SetTop(Passed)) = n /\ SetTop(Passed)[n] = Passed
      /\ \A k \in 1 .. n - 1 : SetTop(Passed)[k] = stack[k]
  BY <1>1, SetTopType
<1>3. Len(Top.rest) \in Nat \ {0} /\ Len(Passed.rest) = Len(Top.rest) - 1 /\ stack[n].rest = Top.rest
  <2>1. Top.rest \in Seq({Overrun} \cup 0 .. MaxId)
    BY <1>1 DEF Frame
  <2> QED BY <1>1, <2>1, EmptySeq DEF Top
<1>4. PICK w : Weighs(w, stack) /\ w[n] + budget + Len(i_table) <= MaxEntries
  BY DEF LookupInv, Fits
<1>41. stack \in Seq(Frame) /\ n \in 1 .. n
  BY <1>1 DEF Types
<1>5. /\ Weights(w) /\ w[n - 1] \in Nat /\ w[n] \in Nat /\ n - 1 \in Nat
      /\ w[n - 1] + Len(Top.rest) <= w[n]
  BY <1>3, <1>4, <1>41, WeighsAt
<1>6. PICK v : Weights(v) /\ v[n] = w[n] - 1 /\ \A k \in Nat : k # n => v[k] = w[k]
  <2>1. w[n] - 1 \in Nat
    BY <1>3, <1>5
  <2>2. PICK x \in Nat : x = w[n] - 1
    BY <2>1
  <2>3. \E v : Weights(v) /\ v[n] = x /\ \A k \in Nat : k # n => v[k] = w[k]
    <3>1. Weights(w) /\ n \in Nat
      BY <1>1, <1>5
    <3> HIDE DEF n
    <3> QED BY <3>1, Reweigh
  <2> QED BY <2>2, <2>3
<1>7. ASSUME NEW k \in 1 .. n - 1 PROVE v[k - 1] + Len(SetTop(Passed)[k].rest) <= v[k]
  <2>0. k \in 1 .. n /\ k # n /\ k - 1 # n
    BY <1>1
  <2>1. w[k - 1] + Len(stack[k].rest) <= w[k] /\ k \in Nat /\ k - 1 \in Nat
    BY <1>4, <1>41, <2>0, WeighsAt
  <2>2. v[k - 1] = w[k - 1] /\ v[k] = w[k] /\ SetTop(Passed)[k] = stack[k]
    BY <1>2, <1>6, <2>0, <2>1
  <2> QED BY <2>1, <2>2
<1>8. v[n - 1] + Len(SetTop(Passed)[n].rest) <= v[n]
  <2>1. v[n - 1] = w[n - 1]
    BY <1>1, <1>5, <1>6
  <2> QED BY <1>2, <1>3, <1>5, <1>6, <2>1
<1>9. \A k \in 1 .. n : k = n \/ k \in 1 .. n - 1
  BY <1>1
<1>10. Weighs(v, SetTop(Passed))
  BY <1>2, <1>6, <1>7, <1>8, <1>9 DEF Weighs
<1>11. v[n] + 1 + budget + Len(i_table) <= MaxEntries
  BY <1>4, <1>5, <1>6 DEF LookupInv, Pointers
<1> QED BY <1>10, <1>11

\* The table grows by the entry that has been passed.
LEMMA AddIndexLookup == ASSUME LookupInv, AddIndex PROVE Fits' /\ Pointers'
<1>1. Good("leaf") /\ i_table \in Seq(0 .. MaxId) /\ budget \in Nat /\ moves \in Nat /\ MaxEntries \in Nat
  BY SizesAssumption DEF AddIndex, LookupInv, IndexInv, Types, Pointers
<1>2. /\ Entry \in 0 .. MaxId /\ stack # <<>> /\ Types /\ Passed \in Frame
  BY <1>1, GoodEntry DEF LookupInv
<1>3. Len(i_table') = Len(i_table) + 1 /\ Len(i_table) \in Nat
  BY <1>1, <1>2, AppendProperties DEF AddIndex
<1>4. phase = 1
  <2>1. phase = 2 => Tree # "id"
    BY TwoTrees
  <2>2. phase \in {1, 2}
    BY <1>1, GoodEntry DEF LookupInv
  <2> QED BY <2>1, <2>2 DEF AddIndex
<1>5. PICK w : Weighs(w, SetTop(Passed)) /\ w[Len(stack)] + 1 + budget + Len(i_table) <= MaxEntries
  BY <1>1, <1>4, PassedWeight
<1>6. Len(SetTop(Passed)) = Len(stack) /\ Len(stack) \in Nat
  BY <1>2, SetTopType, TopType
<1>7. w[Len(stack)] \in Nat
  BY <1>5, <1>6 DEF Weighs, Weights
<1>8. Fits'
  <2>1. Weighs(w, stack') /\ w[Len(stack')] + budget' + Len(i_table') <= MaxEntries
    BY <1>1, <1>3, <1>5, <1>6, <1>7 DEF AddIndex
  <2>2. Len(i_table') <= MaxEntries
    BY <1>1, <1>3, <1>5, <1>7
  <2> QED BY <2>1, <2>2 DEF Fits
<1>9. Pointers'
  <2>1. descs' = <<>> /\ phase' = 1 /\ budget' \in Nat
    BY <1>1, <1>4 DEF AddIndex, LookupInv, Pointers
  <2>2. moves' \in Nat
    BY <1>1 DEF AddIndex
  <2> QED BY <2>1, <2>2 DEF Pointers, DescPointersValid
<1> QED BY <1>8, <1>9

\* A descriptor gets the position that pst_getID found.
LEMMA AddDescLookup == ASSUME LookupInv, AddDesc PROVE Fits' /\ Pointers'
<1>1. phase # 1 /\ UNCHANGED <<phase, i_table, moves, budget>>
  BY TwoTrees DEF AddDesc
<1>2. Fits'
  BY <1>1 DEF LookupInv, Fits
<1>3. PICK key \in Keys : descs' = Append(descs, [key |-> key, at |-> GetID(key), moves |-> moves])
  BY DEF AddDesc
<1> DEFINE d == [key |-> key, at |-> GetID(key), moves |-> moves]
<1>4. GetID(key) \in 0 .. Len(i_table) /\ (GetID(key) # 0 => i_table[GetID(key)] = Even(key))
  BY GetIDResult DEF LookupInv, IndexInv, Types, Fits
<1>5. d \in Pointer /\ descs \in Seq(Pointer)
  BY <1>4 DEF LookupInv, Pointers, Pointer
<1>6. d.at = GetID(key) /\ d.key = key /\ d.moves = moves
  OBVIOUS
<1> HIDE DEF d
<1>7. /\ descs' \in Seq(Pointer) /\ Len(descs') = Len(descs) + 1 /\ Len(descs) \in Nat
      /\ descs'[Len(descs) + 1] = d /\ \A x \in 1 .. Len(descs) : descs'[x] = descs[x]
  BY <1>3, <1>5, AppendProperties DEF d
<1>8. ASSUME NEW x \in DOMAIN descs', descs'[x].at # 0
      PROVE  descs'[x].moves = moves /\ i_table[descs'[x].at] = Even(descs'[x].key)
  <2>1. x \in 1 .. Len(descs) + 1
    BY <1>7, <1>8, LenProperties
  <2>2. CASE x = Len(descs) + 1
    BY <1>4, <1>6, <1>7, <1>8, <2>2
  <2>3. CASE x \in 1 .. Len(descs)
    <3>1. x \in DOMAIN descs
      BY <1>5, <2>3, LenProperties
    <3> QED BY <1>7, <1>8, <2>3, <3>1 DEF LookupInv, Pointers, DescPointersValid
  <2> QED BY <1>7, <2>1, <2>2, <2>3
<1>9. DescPointersValid'
  BY <1>1, <1>8 DEF DescPointersValid, Even
<1>10. descs' \in Seq(Pointer')
  BY <1>1, <1>7 DEF Pointer
<1>11. moves' \in Nat /\ budget' \in Nat /\ phase' # 1
  BY <1>1 DEF LookupInv, Pointers
<1> QED BY <1>2, <1>9, <1>10, <1>11 DEF Pointers

\* A child has nothing to add until its block is read.
LEMMA DescendLookup == ASSUME LookupInv, Descend PROVE Fits' /\ Pointers'
<1> DEFINE n == Len(stack)
           child == NewFrame(Entry, EndOf(Top))
<1>1. UNCHANGED <<phase, i_table, moves, descs, budget>> /\ stack' = Append(SetTop(Passed), child)
  BY DEF Descend
<1>2. Good("inner") /\ Types /\ stack # <<>> /\ n \in Nat \ {0} /\ Passed \in Frame
      /\ Top \in Frame /\ budget \in Nat
  BY GoodEntry DEF Descend, LookupInv, Pointers
<1>3. child.rest = <<>>
  BY DEF NewFrame
<1> HIDE DEF child
<1>4. Pointers'
  BY <1>1, <1>2, PointersKept DEF LookupInv
<1>5. Fits'
  <2>1. SUFFICES ASSUME phase = 1
                 PROVE \E w : Weighs(w, stack') /\ w[Len(stack')] + budget + Len(i_table) <= MaxEntries
    BY <1>1 DEF LookupInv, Fits
  <2>2. PICK w : Weighs(w, SetTop(Passed)) /\ w[n] + 1 + budget + Len(i_table) <= MaxEntries
    BY <1>2, <2>1, PassedWeight
  <2>3. SetTop(Passed) \in Seq(Frame) /\ Len(SetTop(Passed)) = n
    BY <1>2, SetTopType
  <2>4. Len(stack') = n + 1 /\ stack'[n + 1] = child /\ \A k \in 1 .. n : stack'[k] = SetTop(Passed)[k]
    BY <1>1, <2>3
  <2>5. Weights(w) /\ w[n] \in Nat /\ n \in 1 .. n
    BY <1>2, <2>2, <2>3, WeighsAt
  <2>6. PICK v : Weights(v) /\ v[n + 1] = w[n] /\ v[n] = w[n] /\ \A k \in Nat : k # n + 1 => v[k] = w[k]
    <3>1. n + 1 \in Nat /\ n # n + 1
      BY <1>2
    <3>2. \E v : Weights(v) /\ v[n + 1] = w[n] /\ \A k \in Nat : k # n + 1 => v[k] = w[k]
      BY <2>5, <3>1, Reweigh, ZenonT(30)
    <3> QED BY <1>2, <3>1, <3>2
  <2>7. ASSUME NEW k \in 1 .. n PROVE v[k - 1] + Len(stack'[k].rest) <= v[k]
    <3>1. w[k - 1] + Len(SetTop(Passed)[k].rest) <= w[k]
      BY <2>2, <2>3, WeighsAt
    <3>2. k - 1 \in Nat /\ k \in Nat /\ k # n + 1 /\ k - 1 # n + 1
      BY <1>2
    <3>3. v[k - 1] = w[k - 1] /\ v[k] = w[k]
      BY <2>6, <3>2
    <3> QED BY <2>4, <3>1, <3>3
  <2>8. v[n + 1 - 1] + Len(stack'[n + 1].rest) <= v[n + 1]
    <3>1. n + 1 - 1 = n /\ Len(stack'[n + 1].rest) = 0
      BY <1>2, <1>3, <2>4
    <3> QED BY <2>5, <2>6, <3>1
  <2>9. \A k \in 1 .. n + 1 : k = n + 1 \/ k \in 1 .. n
    BY <1>2
  <2>10. Weighs(v, stack')
    BY <2>4, <2>6, <2>7, <2>8, <2>9 DEF Weighs
  <2>11. v[n + 1] + budget + Len(i_table) <= MaxEntries
    <3>1. Len(i_table) \in Nat /\ MaxEntries \in Nat
      BY SizesAssumption DEF LookupInv, IndexInv, Types
    <3> QED BY <1>2, <2>2, <2>5, <2>6, <3>1
  <2> QED BY <2>4, <2>10, <2>11
<1> QED BY <1>4, <1>5

\* Every step keeps both.
LEMMA NextLookup == LookupInv /\ [Next]_vars => LookupInv'
<1> SUFFICES ASSUME LookupInv, [Next]_vars PROVE Fits' /\ Pointers'
  BY NextInv DEF LookupInv
<1>1. CASE UNCHANGED vars
  BY <1>1, PointersKept DEF vars, LookupInv, Fits, Weighs, Pointers
<1>2. CASE Refuse \/ EndBlock \/ StopAtZero \/ BadEntry
  <2>1. Loading /\ Leave /\ UNCHANGED <<i_table, moves, descs>>
    BY <1>2 DEF Refuse, EndBlock, StopAtZero, BadEntry, HasEntry, Return, Fail
  <2> QED BY <2>1, LeaveLookup
<1>3. CASE Read
  BY <1>3, ReadLookup
<1>4. CASE AddIndex
  BY <1>4, AddIndexLookup
<1>5. CASE AddDesc
  BY <1>5, AddDescLookup
<1>6. CASE Descend
  BY <1>6, DescendLookup
<1> QED BY <1>1, <1>2, <1>3, <1>4, <1>5, <1>6 DEF Next

(* libpst.c:1288-1312.  In an index that was loaded without a failure the  *)
(* binary search of pst_getID finds every block, whatever the low bit of   *)
(* the id, and never a block that is not there.                            *)
THEOREM LookupCorrect == Spec => []LookupFinds
BY InitLookup, NextLookup, LookupFollows, PTL DEF Spec

(* libpst.c:1060-1199.  A descriptor's pointer into the table stays valid  *)
(* and leads to the block it was looked up for, in every file.             *)
THEOREM PointersStayValid == Spec => []DescPointersValid
<1>1. LookupInv => DescPointersValid
  BY DEF LookupInv, Pointers
<1> QED BY <1>1, InitLookup, NextLookup, PTL DEF Spec
=============================================================================
