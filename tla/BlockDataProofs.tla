--------------------------- MODULE BlockDataProofs ---------------------------
(***************************************************************************)
(* The data of blocks for every depth, block size, number of references    *)
(* and line length: without failures the destination holds all of it in    *)
(* order, a base64 text can always be decoded, and a buffer never holds    *)
(* less than its caller may read.                                          *)
(***************************************************************************)
EXTENDS BlockData, SequenceTheorems, WellFoundedInduction, TLAPS

-----------------------------------------------------------------------------
\* Induction over a set of numbers.
LEMMA SetInduction ==
  ASSUME NEW T, T \subseteq Nat, 0 \in T, \A n \in T : n + 1 \in T
  PROVE  T = Nat
<1> SUFFICES ASSUME Nat \ T # {} PROVE FALSE
  OBVIOUS
<1>1. \E x \in Nat \ T : \A y \in Nat \ T : ~ (<<y, x>> \in OpToRel(<, Nat))
  <2>1. Nat \ T \subseteq Nat
    OBVIOUS
  <2> QED BY <2>1, NatLessThanWellFounded, WFMin
<1>2. PICK x \in Nat \ T : \A y \in Nat \ T : ~ (y < x)
  BY <1>1 DEF OpToRel
<1>3. x - 1 \in Nat /\ x - 1 < x /\ (x - 1) + 1 = x
  OBVIOUS
<1>4. x - 1 \in T
  BY <1>2, <1>3
<1> QED BY <1>3, <1>4

-----------------------------------------------------------------------------
\* FlattenSeq of SequencesExt joins the sequences from the left.
Joins(f, s) == f = [i \in 1 .. Len(s) |-> IF i = 1 THEN s[i] ELSE f[i - 1] \o s[i]]

\* What is joined is a sequence of the same elements.
LEMMA JoinsType ==
  ASSUME NEW S, NEW s \in Seq(Seq(S)), NEW f, Joins(f, s)
  PROVE  \A i \in 1 .. Len(s) : f[i] \in Seq(S)
<1> DEFINE T == {n \in Nat : n + 1 <= Len(s) => f[n + 1] \in Seq(S)}
<1>1. \A i \in 1 .. Len(s) : f[i] = (IF i = 1 THEN s[i] ELSE f[i - 1] \o s[i]) /\ s[i] \in Seq(S)
  <2>1. \A i \in 1 .. Len(s) : f[i] = IF i = 1 THEN s[i] ELSE f[i - 1] \o s[i]
    BY DEF Joins
  <2> QED BY <2>1
<1>2. Len(s) \in Nat
  OBVIOUS
<1>3. 0 \in T
  BY <1>1, <1>2
<1>4. ASSUME NEW n \in T PROVE n + 1 \in T
  <2>1. SUFFICES ASSUME n + 1 + 1 <= Len(s) PROVE f[n + 1 + 1] \in Seq(S)
    OBVIOUS
  <2>2. f[n + 1] \in Seq(S) /\ n + 1 + 1 \in 1 .. Len(s) /\ n + 1 + 1 # 1 /\ n + 1 + 1 - 1 = n + 1
    BY <1>2, <2>1
  <2>3. PICK i \in 1 .. Len(s) : i = n + 1 + 1 /\ i # 1 /\ i - 1 = n + 1
    BY <2>2
  <2>4. f[i] = f[i - 1] \o s[i] /\ s[i] \in Seq(S)
    BY <1>1, <2>3
  <2> QED BY <2>2, <2>3, <2>4, ConcatProperties
<1>5. T = Nat
  <2> HIDE DEF T
  <2>1. T \subseteq Nat
    BY DEF T
  <2> QED BY <1>3, <1>4, <2>1, SetInduction
<1>6. ASSUME NEW i \in 1 .. Len(s) PROVE f[i] \in Seq(S)
  <2>0. i - 1 \in Nat /\ i - 1 + 1 = i /\ i <= Len(s)
    BY <1>2
  <2>1. i - 1 \in T
    <3> HIDE DEF T
    <3> QED BY <1>5, <2>0
  <2> QED BY <2>0, <2>1
<1> QED BY <1>6

\* The joins exist.
LEMMA JoinsExist == ASSUME NEW S, NEW s \in Seq(Seq(S)) PROVE \E f : Joins(f, s)
<1> DEFINE Upto(f, n) == f = [i \in 1 .. n |-> IF i = 1 THEN s[i] ELSE f[i - 1] \o s[i]]
           T == {n \in Nat : \E f : Upto(f, n)}
<1>1. 0 \in T
  <2> DEFINE f == [i \in 1 .. 0 |-> s[i]]
  <2>1. Upto(f, 0)
    OBVIOUS
  <2> QED BY <2>1
<1>2. ASSUME NEW n \in T PROVE n + 1 \in T
  <2>1. PICK f : Upto(f, n)
    OBVIOUS
  <2> DEFINE g == [i \in 1 .. n + 1 |-> IF i = 1 THEN s[i] ELSE f[i - 1] \o s[i]]
  <2>2. \A i \in 1 .. n : g[i] = f[i]
    <3>1. \A i \in 1 .. n : f[i] = IF i = 1 THEN s[i] ELSE f[i - 1] \o s[i]
      BY <2>1
    <3>2. \A i \in 1 .. n : i \in 1 .. n + 1
      OBVIOUS
    <3>3. \A i \in 1 .. n + 1 : g[i] = IF i = 1 THEN s[i] ELSE f[i - 1] \o s[i]
      OBVIOUS
    <3> HIDE DEF g
    <3> QED BY <3>1, <3>2, <3>3
  <2>3. ASSUME NEW i \in 1 .. n + 1, i # 1 PROVE g[i - 1] = f[i - 1]
    <3>1. i - 1 \in 1 .. n
      BY <2>3
    <3> QED BY <2>2, <3>1
  <2>4. \A i \in 1 .. n + 1 : (IF i = 1 THEN s[i] ELSE f[i - 1] \o s[i]) = IF i = 1 THEN s[i] ELSE g[i - 1] \o s[i]
    <3> HIDE DEF g
    <3> QED BY <2>3
  <2>5. g = [i \in 1 .. n + 1 |-> IF i = 1 THEN s[i] ELSE g[i - 1] \o s[i]]
    BY <2>4
  <2>6. \E h : h = [i \in 1 .. n + 1 |-> IF i = 1 THEN s[i] ELSE h[i - 1] \o s[i]]
    <3> HIDE DEF g
    <3> QED BY <2>5
  <2>7. n + 1 \in Nat
    OBVIOUS
  <2> HIDE DEF g
  <2> QED BY <2>6, <2>7
<1>3. T = Nat
  <2> HIDE DEF T
  <2>1. T \subseteq Nat
    BY DEF T
  <2> QED BY <1>1, <1>2, <2>1, SetInduction
<1>4. Len(s) \in Nat
  OBVIOUS
<1> QED BY <1>3, <1>4 DEF Joins

\* The end of the joins is the flat sequence.
LEMMA FlattenJoins ==
  ASSUME NEW S, NEW s \in Seq(Seq(S)), s # <<>>
  PROVE  \E f : Joins(f, s) /\ FlattenSeq(s) = f[Len(s)]
<1> DEFINE F == CHOOSE f : Joins(f, s)
<1>1. Joins(F, s)
  BY JoinsExist
<1>2. Len(s) # 0
  BY EmptySeq
<1>3. FlattenSeq(s) = F[Len(s)]
  BY <1>2 DEF FlattenSeq, Joins
<1> QED BY <1>1, <1>3

\* The flat sequence grows at its end.
LEMMA FlattenAppend ==
  ASSUME NEW S, NEW s \in Seq(Seq(S)), NEW t \in Seq(S)
  PROVE  /\ FlattenSeq(<<>>) = <<>>
         /\ FlattenSeq(s) \in Seq(S)
         /\ FlattenSeq(Append(s, t)) = FlattenSeq(s) \o t
<1> DEFINE n == Len(s)
           u == Append(s, t)
<1>1. FlattenSeq(<<>>) = <<>>
  BY DEF FlattenSeq
<1>2. /\ u \in Seq(Seq(S)) /\ Len(u) = n + 1 /\ u[n + 1] = t /\ u # <<>> /\ n \in Nat
      /\ \A i \in 1 .. n : u[i] = s[i]
  BY AppendProperties
<1> HIDE DEF u
<1>3. PICK g : Joins(g, u) /\ FlattenSeq(u) = g[n + 1]
  BY <1>2, FlattenJoins
<1>4. \A i \in 1 .. n + 1 : g[i] = IF i = 1 THEN u[i] ELSE g[i - 1] \o u[i]
  BY <1>2, <1>3 DEF Joins
<1>5. CASE s = <<>>
  <2>1. n = 0 /\ FlattenSeq(s) = <<>>
    BY <1>1, <1>5
  <2>2. g[1] = t
    BY <1>2, <1>4, <2>1
  <2>3. <<>> \o t = t
    BY ConcatEmptySeq
  <2>4. FlattenSeq(u) = FlattenSeq(s) \o t
    BY <1>3, <2>1, <2>2, <2>3
  <2>5. FlattenSeq(s) \in Seq(S)
    BY <2>1
  <2> QED BY <1>1, <2>4, <2>5 DEF u
<1>6. CASE s # <<>>
  <2>1. PICK f : Joins(f, s) /\ FlattenSeq(s) = f[n]
    BY <1>6, FlattenJoins
  <2>2. n # 0
    BY <1>6, EmptySeq
  <2>3. \A i \in 1 .. n : f[i] = IF i = 1 THEN s[i] ELSE f[i - 1] \o s[i]
    BY <2>1 DEF Joins
  <2> DEFINE T == {k \in Nat : k + 1 <= n => g[k + 1] = f[k + 1]}
  <2>4. 0 \in T
    BY <1>2, <1>4, <2>2, <2>3
  <2>5. ASSUME NEW k \in T PROVE k + 1 \in T
    <3>1. SUFFICES ASSUME k + 1 + 1 <= n PROVE g[k + 1 + 1] = f[k + 1 + 1]
      OBVIOUS
    <3>2. g[k + 1] = f[k + 1] /\ k + 1 + 1 \in 1 .. n /\ k + 1 + 1 \in 1 .. n + 1 /\ k + 1 + 1 # 1 /\ k + 1 + 1 - 1 = k + 1
      BY <1>2, <3>1
    <3> QED BY <1>2, <1>4, <2>3, <3>2
  <2>6. T = Nat
    <3> HIDE DEF T
    <3>1. T \subseteq Nat
      BY DEF T
    <3> QED BY <2>4, <2>5, <3>1, SetInduction
  <2>7. g[n] = f[n]
    <3>1. n - 1 \in Nat /\ n - 1 + 1 = n
      BY <1>2, <2>2
    <3>2. n - 1 \in T
      <4> HIDE DEF T
      <4> QED BY <2>6, <3>1
    <3> QED BY <3>1, <3>2
  <2>8. n + 1 \in 1 .. n + 1 /\ n + 1 # 1 /\ n + 1 - 1 = n
    BY <1>2, <2>2
  <2>9. FlattenSeq(u) = FlattenSeq(s) \o t
    <3>1. PICK m \in 1 .. n + 1 : m = n + 1 /\ m # 1 /\ m - 1 = n
      BY <2>8
    <3>2. g[m] = g[m - 1] \o u[m]
      BY <1>4, <3>1
    <3> QED BY <1>2, <1>3, <2>1, <2>7, <3>1, <3>2
  <2>10. FlattenSeq(s) \in Seq(S)
    BY <1>2, <2>1, <2>2, JoinsType
  <2> QED BY <1>1, <2>9, <2>10 DEF u
<1> QED BY <1>5, <1>6

\* The end of a sequence is a suffix in the sense of SequencesExt.
LEMMA SuffixOf ==
  ASSUME NEW S, NEW u \in Seq(S), NEW s \in Seq(S)
  PROVE  IsSuffix(s, u \o s)
<1> DEFINE t == u \o s
           a == Reverse(s)
           b == Reverse(t)
<1>1. /\ t \in Seq(S) /\ Len(t) = Len(u) + Len(s) /\ Len(u) \in Nat /\ Len(s) \in Nat
      /\ \A i \in 1 .. Len(u) + Len(s) : t[i] = IF i <= Len(u) THEN u[i] ELSE s[i - Len(u)]
  BY ConcatProperties
<1> HIDE DEF t
<1>2. /\ a \in Seq(S) /\ Len(a) = Len(s) /\ \A i \in 1 .. Len(s) : a[i] = s[Len(s) - i + 1]
  <2>1. \A i \in 1 .. Len(s) : Len(s) - i + 1 \in 1 .. Len(s)
    BY <1>1
  <2>2. a = [i \in 1 .. Len(s) |-> s[Len(s) - i + 1]]
    BY DEF Reverse
  <2> QED BY <1>1, <2>1, <2>2, IsASeq, LenProperties
<1>3. /\ b \in Seq(S) /\ Len(b) = Len(t) /\ \A i \in 1 .. Len(t) : b[i] = t[Len(t) - i + 1]
  <2>1. \A i \in 1 .. Len(t) : Len(t) - i + 1 \in 1 .. Len(t)
    BY <1>1
  <2>2. b = [i \in 1 .. Len(t) |-> t[Len(t) - i + 1]]
    BY DEF Reverse
  <2>3. Len(t) \in Nat
    BY <1>1
  <2> QED BY <1>1, <2>1, <2>2, <2>3, IsASeq, LenProperties
<1> HIDE DEF a, b
<1>4. ASSUME NEW i \in 1 .. Len(s) PROVE a[i] = b[i]
  <2>1. Len(s) - i + 1 \in 1 .. Len(s) /\ i \in 1 .. Len(t) /\ Len(t) - i + 1 \in 1 .. Len(u) + Len(s)
        /\ Len(t) - i + 1 > Len(u) /\ Len(t) - i + 1 - Len(u) = Len(s) - i + 1
    BY <1>1
  <2>2. t[Len(t) - i + 1] = s[Len(s) - i + 1]
    BY <1>1, <2>1
  <2> QED BY <1>2, <1>3, <2>1, <2>2
<1>5. SubSeq(a, 1, Len(a)) = SubSeq(b, 1, Len(a))
  <2> DEFINE l == Len(s)
  <2>0. l \in Nat /\ l <= Len(b) /\ Len(a) = l
    BY <1>1, <1>2, <1>3
  <2> HIDE DEF l
  <2>1. (\A i \in 1 .. l : a[i] \in S) /\ (\A i \in 1 .. l : b[i] \in S)
    BY <1>2, <1>3, <2>0
  <2>2. /\ SubSeq(a, 1, l) \in Seq(S) /\ Len(SubSeq(a, 1, l)) = IF 1 <= l THEN l - 1 + 1 ELSE 0
        /\ \A i \in 1 .. l - 1 + 1 : SubSeq(a, 1, l)[i] = a[1 + i - 1]
    BY <2>0, <2>1, SubSeqProperties
  <2>3. /\ SubSeq(b, 1, l) \in Seq(S) /\ Len(SubSeq(b, 1, l)) = IF 1 <= l THEN l - 1 + 1 ELSE 0
        /\ \A i \in 1 .. l - 1 + 1 : SubSeq(b, 1, l)[i] = b[1 + i - 1]
    BY <2>0, <2>1, SubSeqProperties
  <2>4. Len(SubSeq(a, 1, l)) = l /\ Len(SubSeq(b, 1, l)) = l
    BY <2>0, <2>2, <2>3
  <2>5. \A i \in 1 .. l : SubSeq(a, 1, l)[i] = SubSeq(b, 1, l)[i]
    <3>1. \A i \in 1 .. l : i \in 1 .. l - 1 + 1 /\ 1 + i - 1 = i /\ a[i] = b[i]
      BY <1>4, <2>0 DEF l
    <3> QED BY <2>2, <2>3, <3>1
  <2> QED BY <2>0, <2>2, <2>3, <2>4, <2>5, SeqEqual
<1>6. IsPrefix(a, b)
  BY <1>1, <1>2, <1>3, <1>5 DEF IsPrefix
<1> QED BY <1>6 DEF IsSuffix, a, b, t

\* A sequence is its front and its last element.
LEMMA FrontLast ==
  ASSUME NEW S, NEW s \in Seq(S), s # <<>>
  PROVE  /\ Front(s) \in Seq(S) /\ Last(s) \in S /\ Len(s) \in Nat \ {0}
         /\ Len(Front(s)) = Len(s) - 1
         /\ \A i \in 1 .. Len(s) - 1 : Front(s)[i] = s[i]
         /\ s = Append(Front(s), Last(s))
<1>1. PICK f \in Seq(S), e \in S : s = Append(f, e)
  BY SequenceEmptyOrAppend
<1>2. /\ Len(f) \in Nat /\ Len(s) = Len(f) + 1 /\ s[Len(f) + 1] = e
      /\ \A i \in 1 .. Len(f) : s[i] = f[i]
  BY <1>1, AppendProperties
<1>3. Last(s) = e
  BY <1>2 DEF Last
<1>4. Front(s) = f
  <2> DEFINE l == Len(f)
             g == SubSeq(s, 1, l)
  <2>1. \A i \in 1 .. l : s[i] \in S
    BY <1>2
  <2>2. l \in Nat /\ l - 1 + 1 = l /\ \A i \in 1 .. l : 1 + i - 1 = i
    BY <1>2
  <2>3. Front(s) = g
    BY <1>2 DEF Front
  <2>4. /\ g \in Seq(S) /\ Len(g) = IF 1 <= l THEN l - 1 + 1 ELSE 0
        /\ \A i \in 1 .. l - 1 + 1 : g[i] = s[1 + i - 1]
    <3> HIDE DEF l
    <3> QED BY <2>1, <2>2, SubSeqProperties
  <2> HIDE DEF g
  <2>5. Len(g) = Len(f) /\ \A i \in 1 .. Len(g) : g[i] = f[i]
    BY <1>2, <2>2, <2>4
  <2> QED BY <2>3, <2>4, <2>5, SeqEqual
<1> QED BY <1>1, <1>2, <1>3, <1>4

-----------------------------------------------------------------------------
Group == Seq(Byte)
Text == Seq(Seq(Group))

\* Every line but the last is full; the column is the length of the last.
Shape(lines, col) ==
  /\ lines \in Text /\ col \in 0 .. LineGroups
  /\ \A l \in 1 .. Len(lines) - 1 : Len(lines[l]) = LineGroups
  /\ lines = <<>> => col = 0
  /\ lines # <<>> => Len(Last(lines)) = col /\ col > 0

\* One more group keeps the shape and goes to the end.
LEMMA GroupWritten ==
  ASSUME NEW lines, NEW col, Shape(lines, col), NEW group \in Group
  PROVE  /\ Shape(Put(lines, col, group), NextColumn(col))
         /\ FlattenSeq(Put(lines, col, group)) = Append(FlattenSeq(lines), group)
<1> DEFINE out == Put(lines, col, group)
<1>0. lines \in Text /\ LineGroups \in Nat /\ LineGroups > 0 /\ Len(lines) \in Nat /\ col \in 0 .. LineGroups
  BY SizesAssumption DEF Shape, Text
<1>1. FlattenSeq(lines) \in Seq(Group)
  BY <1>0, FlattenAppend DEF Text
<1>2. CASE lines = <<>> \/ col = LineGroups
  <2>1. <<group>> \in Seq(Group) /\ Len(<<group>>) = 1
    OBVIOUS
  <2>2. out = Append(lines, <<group>>)
    BY <1>2 DEF Put
  <2>3. FlattenSeq(out) = FlattenSeq(lines) \o <<group>>
    BY <1>0, <2>1, <2>2, FlattenAppend DEF Text
  <2>4. FlattenSeq(lines) \o <<group>> = Append(FlattenSeq(lines), group)
    BY <1>1, AppendIsConcat
  <2>5. NextColumn(col) = 1
    BY <1>0, <1>2 DEF Shape, NextColumn
  <2>6. /\ out \in Text /\ out # <<>> /\ Len(out) = Len(lines) + 1
        /\ \A l \in 1 .. Len(lines) : out[l] = lines[l]
        /\ out[Len(lines) + 1] = <<group>>
    BY <1>0, <2>1, <2>2, AppendProperties DEF Text
  <2> HIDE DEF out
  <2>7. Last(out) = <<group>>
    BY <2>6 DEF Last
  <2>8. \A l \in 1 .. Len(lines) : Len(lines[l]) = LineGroups
    <3>1. CASE lines = <<>>
      BY <3>1
    <3>2. CASE lines # <<>>
      BY <1>0, <1>2, <3>2 DEF Shape, Last
    <3> QED BY <3>1, <3>2
  <2>9. Shape(out, NextColumn(col))
    <3>1. Len(out) - 1 = Len(lines)
      BY <1>0, <2>6
    <3> QED BY <1>0, <2>1, <2>5, <2>6, <2>7, <2>8, <3>1 DEF Shape
  <2> QED BY <2>3, <2>4, <2>9 DEF out
<1>3. CASE lines # <<>> /\ col # LineGroups
  <2> DEFINE F == Front(lines)
             L == Last(lines)
  <2>1. /\ F \in Text /\ L \in Seq(Group) /\ Len(F) = Len(lines) - 1
        /\ \A i \in 1 .. Len(lines) - 1 : F[i] = lines[i]
        /\ lines = Append(F, L)
    BY <1>0, <1>3, FrontLast DEF Text
  <2>2. out = Append(F, Append(L, group))
    BY <1>3 DEF Put
  <2>3. Len(L) = col /\ col > 0 /\ NextColumn(col) = col + 1
    BY <1>3 DEF Shape, NextColumn
  <2> HIDE DEF F, L
  <2>4. Append(L, group) \in Seq(Group) /\ Len(Append(L, group)) = col + 1
    BY <2>1, <2>3, AppendProperties
  <2>5. /\ out \in Text /\ out # <<>> /\ Len(out) = Len(lines)
        /\ \A l \in 1 .. Len(lines) - 1 : out[l] = lines[l]
        /\ out[Len(lines)] = Append(L, group)
    <3>1. /\ out \in Text /\ out # <<>> /\ Len(out) = Len(F) + 1
          /\ \A l \in 1 .. Len(F) : out[l] = F[l]
          /\ out[Len(F) + 1] = Append(L, group)
      BY <2>1, <2>2, <2>4, AppendProperties DEF Text
    <3>2. Len(F) + 1 = Len(lines)
      BY <1>0, <2>1
    <3> HIDE DEF out
    <3> QED BY <1>0, <2>1, <3>1, <3>2
  <2>6. FlattenSeq(out) = Append(FlattenSeq(lines), group)
    <3>1. FlattenSeq(F) \in Seq(Group) /\ FlattenSeq(lines) = FlattenSeq(F) \o L
      BY <2>1, FlattenAppend DEF Text
    <3>2. FlattenSeq(out) = FlattenSeq(F) \o Append(L, group)
      BY <2>1, <2>2, <2>4, FlattenAppend DEF Text
    <3>3. Append(L, group) = L \o <<group>> /\ <<group>> \in Seq(Group)
      BY <2>1, AppendIsConcat
    <3>4. FlattenSeq(F) \o (L \o <<group>>) = (FlattenSeq(F) \o L) \o <<group>>
      <4>1. FlattenSeq(F) \in Seq(Group) /\ L \in Seq(Group) /\ <<group>> \in Seq(Group)
        BY <2>1, <3>1, <3>3
      <4> QED BY ONLY <4>1, ConcatAssociative
    <3>5. FlattenSeq(lines) \o <<group>> = Append(FlattenSeq(lines), group)
      BY <1>1, AppendIsConcat
    <3> HIDE DEF out
    <3> QED BY <3>1, <3>2, <3>3, <3>4, <3>5
  <2> HIDE DEF out
  <2>7. Shape(out, NextColumn(col))
    <3>1. Last(out) = Append(L, group)
      BY <2>5 DEF Last
    <3>2. col + 1 \in 0 .. LineGroups /\ col + 1 > 0
      BY <1>0, <1>3
    <3>3. \A l \in 1 .. Len(lines) - 1 : Len(lines[l]) = LineGroups
      BY DEF Shape
    <3> QED BY <2>3, <2>4, <2>5, <3>1, <3>2, <3>3 DEF Shape
  <2> QED BY <2>6, <2>7 DEF out
<1> QED BY <1>2, <1>3

-----------------------------------------------------------------------------
\* The states of the encoder behind every group.
Encoding(f, n, groups) ==
  f = [g \in 0 .. n |->
         IF g = 0 THEN [lines |-> file, col |-> column] ELSE WriteGroup(f[g - 1], groups[g])]

\* They exist.
LEMMA EncodingExists == ASSUME NEW groups, NEW n \in Nat PROVE \E f : Encoding(f, n, groups)
<1> DEFINE T == {k \in Nat : \E f : Encoding(f, k, groups)}
           Start == [lines |-> file, col |-> column]
<1>1. 0 \in T
  <2> DEFINE f == [g \in 0 .. 0 |-> Start]
  <2>1. Encoding(f, 0, groups)
    BY DEF Encoding
  <2> QED BY <2>1
<1>2. ASSUME NEW k \in T PROVE k + 1 \in T
  <2>1. PICK f : Encoding(f, k, groups)
    OBVIOUS
  <2> DEFINE h == [g \in 0 .. k + 1 |-> IF g = 0 THEN Start ELSE WriteGroup(f[g - 1], groups[g])]
  <2>2. \A g \in 0 .. k : h[g] = f[g]
    <3>1. \A g \in 0 .. k : f[g] = IF g = 0 THEN Start ELSE WriteGroup(f[g - 1], groups[g])
      BY <2>1 DEF Encoding
    <3>2. \A g \in 0 .. k : g \in 0 .. k + 1
      OBVIOUS
    <3>3. \A g \in 0 .. k + 1 : h[g] = IF g = 0 THEN Start ELSE WriteGroup(f[g - 1], groups[g])
      OBVIOUS
    <3> HIDE DEF h, Start
    <3> QED BY <3>1, <3>2, <3>3
  <2>3. ASSUME NEW g \in 0 .. k + 1, g # 0 PROVE h[g - 1] = f[g - 1]
    <3>1. g - 1 \in 0 .. k
      BY <2>3
    <3> HIDE DEF h
    <3> QED BY <2>2, <3>1
  <2>4. \A g \in 0 .. k + 1 : (IF g = 0 THEN Start ELSE WriteGroup(f[g - 1], groups[g]))
                              = IF g = 0 THEN Start ELSE WriteGroup(h[g - 1], groups[g])
    <3> HIDE DEF h, Start
    <3> QED BY <2>3
  <2>5. h = [g \in 0 .. k + 1 |-> IF g = 0 THEN Start ELSE WriteGroup(h[g - 1], groups[g])]
    <3> HIDE DEF Start
    <3> QED BY <2>4
  <2>6. Encoding(h, k + 1, groups)
    <3> HIDE DEF h
    <3> QED BY <2>5 DEF Encoding
  <2>7. k + 1 \in Nat
    OBVIOUS
  <2> HIDE DEF h
  <2> QED BY <2>6, <2>7
<1>3. T = Nat
  <2> HIDE DEF T
  <2>1. T \subseteq Nat
    BY DEF T
  <2> QED BY <1>1, <1>2, <2>1, SetInduction
<1> QED BY <1>3

\* What is encoded goes to the end of the text, which keeps its shape.
LEMMA EncodeResult ==
  ASSUME Shape(file, column), NEW groups \in Seq(Group)
  PROVE  /\ Shape(Encode(groups).lines, Encode(groups).col)
         /\ FlattenSeq(Encode(groups).lines) = FlattenSeq(file) \o groups
<1> DEFINE n == Len(groups)
           f == CHOOSE h : Encoding(h, n, groups)
           Done(k) == /\ Shape(f[k].lines, f[k].col)
                      /\ FlattenSeq(f[k].lines) = FlattenSeq(file) \o SubSeq(groups, 1, k)
           T == {k \in Nat : k <= n => Done(k)}
<1>0. n \in Nat /\ FlattenSeq(file) \in Seq(Group)
  BY FlattenAppend DEF Shape, Text
<1>1. Encoding(f, n, groups)
  BY <1>0, EncodingExists
<1>2. Encode(groups) = f[n]
  BY DEF Encode, Encoding
<1> HIDE DEF f
<1>2a. \A b, d, e \in Seq(Group) : (b \o d) \o e = b \o (d \o e)
  BY ConcatAssociative
<1>3. \A g \in 0 .. n : f[g] = IF g = 0 THEN [lines |-> file, col |-> column] ELSE WriteGroup(f[g - 1], groups[g])
  BY <1>1 DEF Encoding
<1>4. 0 \in T
  <2>1. f[0] = [lines |-> file, col |-> column]
    BY <1>0, <1>3
  <2>2. SubSeq(groups, 1, 0) = <<>>
    BY SubSeqEmpty
  <2>3. FlattenSeq(file) \o <<>> = FlattenSeq(file)
    BY <1>0, ConcatEmptySeq
  <2>4. f[0].lines = file /\ f[0].col = column
    BY <2>1
  <2>5. Done(0)
    BY <2>2, <2>3, <2>4
  <2> HIDE DEF Done
  <2> QED BY <2>5
<1>5. ASSUME NEW k \in T PROVE k + 1 \in T
  <2>1. SUFFICES ASSUME k + 1 <= n PROVE Done(k + 1)
    BY DEF T
  <2>2. k \in Nat /\ k <= n /\ k + 1 \in 0 .. n /\ k + 1 \in 1 .. n /\ k + 1 # 0 /\ k + 1 - 1 = k
    BY <1>0, <2>1
  <2>3. Done(k)
    <3> HIDE DEF Done
    <3> QED BY <2>2
  <2>4. PICK m \in 1 .. n : m = k + 1 /\ m \in 0 .. n /\ m # 0 /\ m - 1 = k
    BY <2>2
  <2>5. f[m] = WriteGroup(f[k], groups[m]) /\ groups[m] \in Group
    BY <1>3, <2>4
  <2> DEFINE a == f[k].lines
             c == f[k].col
  <2>6. f[m].lines = Put(a, c, groups[m]) /\ f[m].col = NextColumn(c)
    BY <2>5 DEF WriteGroup
  <2>7. Shape(f[m].lines, f[m].col) /\ FlattenSeq(f[m].lines) = Append(FlattenSeq(a), groups[m])
    <3> HIDE DEF a, c
    <3>1. Shape(a, c)
      BY <2>3 DEF a, c
    <3> QED BY <2>5, <2>6, <3>1, GroupWritten
  <2>8. SubSeq(groups, 1, m) = SubSeq(groups, 1, k) \o <<groups[m]>>
    <3>1. 1 \in 1 .. Len(groups) /\ m \in 1 .. Len(groups)
      BY <2>4
    <3> QED BY <2>4, <3>1, SubSeqRecursiveSecond
  <2>9. SubSeq(groups, 1, k) \in Seq(Group) /\ <<groups[m]>> \in Seq(Group)
    <3>1. \A i \in 1 .. k : groups[i] \in Group
      BY <2>2
    <3> QED BY <2>2, <2>5, <3>1, SubSeqProperties
  <2>10. Append(FlattenSeq(a), groups[m]) = FlattenSeq(file) \o SubSeq(groups, 1, m)
    <3>1. FlattenSeq(a) = FlattenSeq(file) \o SubSeq(groups, 1, k)
      BY <2>3
    <3>2. FlattenSeq(a) \in Seq(Group)
      BY <1>0, <2>9, <3>1, ConcatProperties
    <3>3. Append(FlattenSeq(a), groups[m]) = FlattenSeq(a) \o <<groups[m]>>
      BY <2>5, <3>2, AppendIsConcat
    <3>4. (FlattenSeq(file) \o SubSeq(groups, 1, k)) \o <<groups[m]>>
          = FlattenSeq(file) \o (SubSeq(groups, 1, k) \o <<groups[m]>>)
      BY <1>0, <2>9, <1>2a
    <3> HIDE DEF a
    <3> QED BY <2>8, <3>1, <3>3, <3>4
  <2> HIDE DEF a
  <2> QED BY <2>4, <2>7, <2>10
<1>6. Done(n)
  <2>1. T = Nat
    <3> HIDE DEF T
    <3>1. T \subseteq Nat
      BY DEF T
    <3> QED BY <1>4, <1>5, <3>1, SetInduction
  <2> HIDE DEF Done
  <2> QED BY <1>0, <2>1
<1>7. SubSeq(groups, 1, n) = groups
  BY SubSeqFull
<1> HIDE DEF n
<1> QED BY <1>2, <1>6, <1>7

-----------------------------------------------------------------------------
\* Division by three leaves at most two.
LEMMA Thirds ==
  ASSUME NEW n \in Nat
  PROVE  n \div 3 \in Nat /\ 3 * (n \div 3) <= n /\ n - 3 * (n \div 3) \in 0 .. 2
OBVIOUS

\* The groups are full, and fewer than three bytes are left over.
LEMMA GroupsType ==
  ASSUME NEW data \in Seq(Byte)
  PROVE  /\ Groups(data) \in Seq(Group) /\ Len(Groups(data)) = Len(data) \div 3
         /\ \A g \in 1 .. Len(data) \div 3 :
              Groups(data)[g] = SubSeq(data, 3 * g - 2, 3 * g) /\ Len(Groups(data)[g]) = 3
         /\ LeftOver(data) \in Seq(Byte)
         /\ Len(LeftOver(data)) = Len(data) - 3 * (Len(data) \div 3)
<1> DEFINE q == Len(data) \div 3
           G == [g \in 1 .. q |-> SubSeq(data, 3 * g - 2, 3 * g)]
<1>1. Len(data) \in Nat /\ q \in Nat /\ 3 * q <= Len(data) /\ Len(data) - 3 * q \in 0 .. 2
  BY Thirds
<1> HIDE DEF q
<1>2. \A i \in 1 .. Len(data) : data[i] \in Byte
  OBVIOUS
<1>3. ASSUME NEW g \in 1 .. q
      PROVE  SubSeq(data, 3 * g - 2, 3 * g) \in Group /\ Len(SubSeq(data, 3 * g - 2, 3 * g)) = 3
  <2>1. \A i \in 3 * g - 2 .. 3 * g : i \in 1 .. Len(data)
    BY <1>1
  <2>2. 3 * g - 2 \in Int /\ 3 * g \in Int /\ 3 * g - 2 <= 3 * g /\ 3 * g - (3 * g - 2) + 1 = 3
    BY <1>1
  <2>3. \A i \in 3 * g - 2 .. 3 * g : data[i] \in Byte
    BY <1>2, <2>1
  <2>4. PICK a \in Int, b \in Int : a = 3 * g - 2 /\ b = 3 * g
    BY <2>2
  <2>5. /\ SubSeq(data, a, b) \in Seq(Byte)
        /\ Len(SubSeq(data, a, b)) = IF a <= b THEN b - a + 1 ELSE 0
    BY <2>3, <2>4, SubSeqProperties
  <2> QED BY <2>2, <2>4, <2>5 DEF Group
<1>4. Groups(data) = G
  BY DEF Groups, q
<1>5. G \in Seq(Group) /\ Len(G) = q
  <2>1. G \in [1 .. q -> Group]
    BY <1>3
  <2> QED BY <1>1, <2>1
<1>6. \A g \in 1 .. q : G[g] = SubSeq(data, 3 * g - 2, 3 * g) /\ Len(G[g]) = 3
  BY <1>3
<1>7. LeftOver(data) \in Seq(Byte) /\ Len(LeftOver(data)) = Len(data) - 3 * q
  <2>1. PICK a \in Int, b \in Int : a = 3 * q + 1 /\ b = Len(data)
    BY <1>1
  <2>2. \A i \in a .. b : data[i] \in Byte
    BY <1>1, <1>2, <2>1
  <2>3. /\ SubSeq(data, a, b) \in Seq(Byte)
        /\ Len(SubSeq(data, a, b)) = IF a <= b THEN b - a + 1 ELSE 0
    BY <2>2, SubSeqProperties
  <2>4. LeftOver(data) = SubSeq(data, a, b)
    BY <2>1 DEF LeftOver, q
  <2>5. (IF a <= b THEN b - a + 1 ELSE 0) = Len(data) - 3 * q
    <3>1. \A n, k \in Nat : 3 * k <= n => (IF 3 * k + 1 <= n THEN n - (3 * k + 1) + 1 ELSE 0) = n - 3 * k
      OBVIOUS
    <3> QED BY <1>1, <2>1, <3>1
  <2> QED BY <2>3, <2>4, <2>5
<1> HIDE DEF G
<1> QED BY <1>4, <1>5, <1>6, <1>7 DEF q

\* The groups behind others, and what is left over, are the data behind theirs.
LEMMA GroupsKeepData ==
  ASSUME NEW data \in Seq(Byte), NEW F \in Seq(Group)
  PROVE  /\ FlattenSeq(F \o Groups(data)) \in Seq(Byte)
         /\ FlattenSeq(F \o Groups(data)) \o LeftOver(data) = FlattenSeq(F) \o data
<1> DEFINE q == Len(data) \div 3
           G == Groups(data)
           Done(i) == FlattenSeq(F \o SubSeq(G, 1, i)) = FlattenSeq(F) \o SubSeq(data, 1, 3 * i)
           T == {i \in Nat : i <= q => Done(i)}
<1>1. Len(data) \in Nat /\ q \in Nat /\ 3 * q <= Len(data)
  BY Thirds
<1>2. /\ G \in Seq(Group) /\ Len(G) = q
      /\ \A g \in 1 .. q : G[g] = SubSeq(data, 3 * g - 2, 3 * g)
  BY GroupsType
<1>3. FlattenSeq(F) \in Seq(Byte)
  BY FlattenAppend DEF Group
<1>4. \A a, b, c \in Seq(Byte) : (a \o b) \o c = a \o (b \o c)
  BY ConcatAssociative, SMTT(30)
<1>5. \A a, b, c \in Seq(Group) : (a \o b) \o c = a \o (b \o c)
  BY ConcatAssociative, SMTT(30)
<1>6. \A i \in 0 .. q : SubSeq(G, 1, i) \in Seq(Group) /\ F \o SubSeq(G, 1, i) \in Seq(Group)
  <2> SUFFICES ASSUME NEW i \in 0 .. q
               PROVE  SubSeq(G, 1, i) \in Seq(Group) /\ F \o SubSeq(G, 1, i) \in Seq(Group)
    OBVIOUS
  <2> HIDE DEF G, q
  <2>1. \A j \in 1 .. i : G[j] \in Group
    BY <1>1, <1>2
  <2>2. SubSeq(G, 1, i) \in Seq(Group)
    BY <1>1, <2>1, SubSeqProperties
  <2> QED BY <2>2, ConcatProperties
<1>7. \A a \in 1 .. Len(data) + 1, b \in 0 .. Len(data) : SubSeq(data, a, b) \in Seq(Byte)
  <2> SUFFICES ASSUME NEW a \in 1 .. Len(data) + 1, NEW b \in 0 .. Len(data)
               PROVE  SubSeq(data, a, b) \in Seq(Byte)
    OBVIOUS
  <2>1. \A j \in a .. b : data[j] \in Byte
    BY <1>1
  <2> QED BY <1>1, <2>1, SubSeqProperties
<1>8. 0 \in T
  <2>1. SubSeq(G, 1, 0) = <<>> /\ SubSeq(data, 1, 3 * 0) = <<>>
    BY SubSeqEmpty
  <2>2. F \o <<>> = F /\ FlattenSeq(F) \o <<>> = FlattenSeq(F)
    BY <1>3, ConcatEmptySeq
  <2>3. Done(0)
    <3> HIDE DEF G
    <3> QED BY <2>1, <2>2
  <2> HIDE DEF Done
  <2> QED BY <2>3
<1>9. ASSUME NEW i \in T PROVE i + 1 \in T
  <2>1. SUFFICES ASSUME i + 1 <= q PROVE Done(i + 1)
    BY DEF T
  <2>2. i \in Nat /\ i <= q /\ i \in 0 .. q /\ i + 1 \in 1 .. q
    BY <1>1, <2>1
  <2>3. Done(i)
    <3> HIDE DEF Done
    <3> QED BY <2>2
  <2> HIDE DEF T, q
  <2>4. PICK j \in 1 .. q : j = i + 1
    BY <2>2
  <2> DEFINE s == SubSeq(G, 1, i)
             d == SubSeq(data, 1, 3 * i)
             e == SubSeq(data, 3 * i + 1, 3 * i + 3)
  <2>5. G[j] \in Group /\ G[j] = e
    <3>1. 3 * j - 2 = 3 * i + 1 /\ 3 * j = 3 * i + 3
      BY <2>2, <2>4
    <3>2. G[j] \in Group
      <4> HIDE DEF G
      <4> QED BY <1>1, <1>2
    <3>3. G[j] = SubSeq(data, 3 * j - 2, 3 * j)
      <4> HIDE DEF G
      <4> QED BY <1>2
    <3> HIDE DEF G
    <3> QED BY <3>1, <3>2, <3>3
  <2>6. s \in Seq(Group) /\ F \o s \in Seq(Group) /\ <<G[j]>> \in Seq(Group)
    <3> HIDE DEF G
    <3> QED BY <1>6, <2>2, <2>5
  <2>7. SubSeq(G, 1, j) = s \o <<G[j]>>
    <3>1. 1 \in 1 .. Len(G) /\ j \in 1 .. Len(G) /\ j - 1 = i
      BY <1>1, <1>2, <2>2, <2>4
    <3>2. SubSeq(G, 1, j) = SubSeq(G, 1, j - 1) \o <<G[j]>>
      <4> HIDE DEF G
      <4> QED BY <1>2, <3>1, SubSeqRecursiveSecond
    <3> QED BY <3>1, <3>2
  <2>8. FlattenSeq(F \o SubSeq(G, 1, j)) = FlattenSeq(F \o s) \o G[j]
    <3> HIDE DEF G, s
    <3>1. F \o (s \o <<G[j]>>) = (F \o s) \o <<G[j]>>
      BY <1>5, <2>6
    <3>2. (F \o s) \o <<G[j]>> = Append(F \o s, G[j])
      BY <2>5, <2>6, AppendIsConcat
    <3>3. FlattenSeq(Append(F \o s, G[j])) = FlattenSeq(F \o s) \o G[j]
      BY <2>5, <2>6, FlattenAppend DEF Group
    <3> QED BY <2>7, <3>1, <3>2, <3>3
  <2>9. d \in Seq(Byte) /\ e \in Seq(Byte) /\ d \o e = SubSeq(data, 1, 3 * i + 3)
    <3>1. /\ 3 * i \in 0 .. Len(data) /\ 3 * i + 3 \in 3 * i .. Len(data)
          /\ 3 * i + 1 \in 1 .. Len(data) + 1 /\ 3 * i + 3 \in 0 .. Len(data)
          /\ 1 \in 1 .. Len(data) + 1 /\ 3 * i \in 1 - 1 .. Len(data)
      BY <1>1, <2>1, <2>2
    <3>2. PICK k \in 0 .. Len(data) : k = 3 * i
      BY <3>1
    <3>3. PICK n \in 0 .. Len(data) : n = 3 * i + 3
      BY <3>1
    <3>4. SubSeq(data, 1, k) \o SubSeq(data, k + 1, n) = SubSeq(data, 1, n)
      <4>1. 1 \in 1 .. Len(data) + 1 /\ k \in 1 - 1 .. Len(data) /\ n \in k .. Len(data)
        BY <3>1, <3>2, <3>3
      <4> QED BY <4>1, ConcatAdjacentSubSeq
    <3>5. SubSeq(data, 1, k) \in Seq(Byte) /\ SubSeq(data, k + 1, n) \in Seq(Byte)
      BY <1>7, <3>1, <3>2
    <3> QED BY <3>2, <3>3, <3>4, <3>5
  <2>10. FlattenSeq(F \o s) = FlattenSeq(F) \o d
    BY <2>3
  <2>11. 3 * (i + 1) = 3 * i + 3
    BY <2>2
  <2> HIDE DEF G, s, d, e
  <2>12. (FlattenSeq(F) \o d) \o e = FlattenSeq(F) \o (d \o e)
    BY <1>3, <1>4, <2>9
  <2> QED BY <2>4, <2>5, <2>8, <2>9, <2>10, <2>11, <2>12
<1>10. Done(q)
  <2> HIDE DEF Done, q
  <2>1. T = Nat
    <3> HIDE DEF T
    <3>1. T \subseteq Nat
      BY DEF T
    <3> QED BY <1>8, <1>9, <3>1, SetInduction
  <2> QED BY <1>1, <2>1
<1>11. FlattenSeq(F \o G) = FlattenSeq(F) \o SubSeq(data, 1, 3 * q)
  <2>1. SubSeq(G, 1, q) = G
    <3> HIDE DEF G, q
    <3> QED BY <1>2, SubSeqFull
  <2> HIDE DEF G, q
  <2> QED BY <1>10, <2>1
<1>12. SubSeq(data, 1, 3 * q) \in Seq(Byte)
  BY <1>1, <1>7
<1>13. SubSeq(data, 1, 3 * q) \o LeftOver(data) = data
  <2>1. PICK k \in 0 .. Len(data) : k = 3 * q
    BY <1>1
  <2>2. SubSeq(data, 1, k) \o SubSeq(data, k + 1, Len(data)) = SubSeq(data, 1, Len(data))
    <3>1. 1 \in 1 .. Len(data) + 1 /\ k \in 1 - 1 .. Len(data) /\ Len(data) \in k .. Len(data)
      BY <1>1
    <3> QED BY <3>1, ConcatAdjacentSubSeq
  <2>3. SubSeq(data, 1, Len(data)) = data
    BY SubSeqFull
  <2>4. LeftOver(data) = SubSeq(data, k + 1, Len(data))
    BY <2>1 DEF LeftOver
  <2> HIDE DEF q
  <2> QED BY <2>1, <2>2, <2>3, <2>4
<1>14. FlattenSeq(F) \o SubSeq(data, 1, 3 * q) \in Seq(Byte)
  BY <1>3, <1>12, ConcatProperties
<1>15. (FlattenSeq(F) \o SubSeq(data, 1, 3 * q)) \o LeftOver(data)
       = FlattenSeq(F) \o (SubSeq(data, 1, 3 * q) \o LeftOver(data))
  BY <1>3, <1>4, <1>12, GroupsType, ZenonT(30)
<1> HIDE DEF q
<1> QED BY <1>11, <1>13, <1>14, <1>15

-----------------------------------------------------------------------------
\* The size the current call works with, or the result.
Cur == IF pc = "run" THEN Top.size ELSE result

\* What lies in the destination while the current size is size: the end of what
\* was sent in memory, all of it in a file, all but the waiting bytes in base64;
\* and without failures the size and the waiting bytes are all that was sent.
Holds(size) ==
  /\ mode = "memory" =>
       size <= Len(buffer) /\ \E u \in Seq(Byte) : sent = u \o SubSeq(buffer, 1, size)
  /\ mode = "file" => file = sent
  /\ mode = "base64" =>
       /\ Shape(file, column)
       /\ \A g \in 1 .. Len(FlattenSeq(file)) : Len(FlattenSeq(file)[g]) = 3
       /\ FlattenSeq(FlattenSeq(file)) \o extra = sent
  /\ mode # "base64" => extra = <<>>
  /\ ~failed => size + Len(extra) = Len(sent)

\* What lies there in the end.
Arrived ==
  /\ mode = "memory" =>
       result <= Len(buffer) /\ \E u \in Seq(Byte) : sent = u \o SubSeq(buffer, 1, result)
  /\ mode = "file" => file = sent
  /\ mode = "base64" =>
       /\ Shape(file, column)
       /\ \A g \in 1 .. Len(FlattenSeq(file)) - 1 : Len(FlattenSeq(file)[g]) = 3
       /\ FlattenSeq(FlattenSeq(file)) = sent
  /\ ~failed => result = Len(sent)

\* The types of what a holder keeps.
HolderOK ==
  /\ mode \in {"memory", "file", "base64"}
  /\ buffer \in Seq(Byte) /\ sent \in Seq(Byte) /\ extra \in Seq(Byte) /\ Len(extra) <= 2
  /\ file \in IF mode = "base64" THEN Seq(Seq(Seq(Byte))) ELSE Seq(Byte)
  /\ column \in 0 .. LineGroups

\* The calls: only the innermost may be one too deep, and then it is refused.
CallsOK ==
  /\ pc \in {"start", "run", "finish", "done"} /\ result \in Nat
  /\ stack \in Seq(Frame) /\ (stack # <<>>) = (pc = "run")
  /\ Len(stack) <= MaxDepth + 2
  /\ pc = "run" => Top.kind = "open" \/ Len(stack) <= MaxDepth + 1

\* No block holds more than MaxRead bytes.
RoomOK ==
  /\ read \in 0 .. MaxBlocks /\ failed \in BOOLEAN
  /\ Len(sent) <= read * MaxRead
  /\ pc = "start" => read = 0 /\ result = 0 /\ ~failed

\* The inductive invariant.
DataInv ==
  /\ HolderOK /\ CallsOK /\ RoomOK
  /\ pc # "done" => Holds(Cur)
  /\ pc = "done" => Arrived

\* Products of natural numbers.
LEMMA Products ==
  \A a, b, c \in Nat : a < b => a * c + c = (a + 1) * c /\ (a + 1) * c <= b * c /\ b * c \in Nat
<1> SUFFICES ASSUME NEW a \in Nat, NEW b \in Nat, NEW c \in Nat, a < b
             PROVE  a * c + c = (a + 1) * c /\ (a + 1) * c <= b * c /\ b * c \in Nat
  OBVIOUS
<1>1. a * c + c = (a + 1) * c
  BY Z3
<1>2. (a + 1) * c <= b * c
  BY Z3
<1>3. b * c \in Nat
  BY Z3
<1> QED BY <1>1, <1>2, <1>3

\* There is room for the bytes of one more block.
LEMMA BytesFit ==
  ASSUME HolderOK, RoomOK, read < MaxBlocks, NEW z \in 0 .. MaxRead
  PROVE  Bytes(z) \in Seq(Byte) /\ Len(Bytes(z)) = z /\ Len(sent) + z <= (read + 1) * MaxRead
<1> DEFINE l == Len(sent)
           m == read * MaxRead
           n == (read + 1) * MaxRead
           t == MaxBlocks * MaxRead
<1>1. read \in Nat /\ MaxRead \in Nat /\ MaxBlocks \in Nat /\ l \in Nat /\ z \in Nat /\ z <= MaxRead
  BY SizesAssumption DEF HolderOK, RoomOK
<1>2. m + MaxRead = n /\ n <= t /\ t \in Nat
  BY <1>1, Products
<1>3. l <= m /\ m \in Nat /\ n \in Nat
  BY <1>1 DEF RoomOK
<1> HIDE DEF m, n, t
<1>4. l + z <= n
  BY <1>1, <1>2, <1>3
<1>5. \A i \in 1 .. z : l + i \in 1 .. t
  BY <1>1, <1>2, <1>3, <1>4
<1>6. \A i \in 1 .. z : l + i \in Byte
  BY <1>5 DEF Byte, t
<1> HIDE DEF l
<1>7. [i \in 1 .. z |-> l + i] \in Seq(Byte) /\ Len([i \in 1 .. z |-> l + i]) = z
  <2>1. [i \in 1 .. z |-> l + i] \in [1 .. z -> Byte]
    BY <1>6
  <2> QED BY <1>1, <2>1
<1>8. Bytes(z) = [i \in 1 .. z |-> l + i]
  BY DEF Bytes, l
<1> QED BY <1>4, <1>7, <1>8 DEF l, n

\* What pst_append_holder leaves behind.
LEMMA Appended ==
  ASSUME HolderOK, NEW size \in Nat, Holds(size), NEW z \in Nat, NEW total,
         Bytes(z) \in Seq(Byte), Len(Bytes(z)) = z, ~failed' => ~failed,
         AppendHolder(size, z), total = NewSize(size, z)
  PROVE  /\ HolderOK' /\ Len(sent') = Len(sent) + z /\ mode' = mode
         /\ total \in Nat /\ Holds(total)'
<1> DEFINE b == Bytes(z)
<1>1. /\ b \in Seq(Byte) /\ Len(b) = z /\ sent' = sent \o b /\ mode' = mode
      /\ sent \in Seq(Byte) /\ extra \in Seq(Byte) /\ buffer \in Seq(Byte) /\ Len(extra) <= 2
      /\ Len(sent) \in Nat /\ Len(extra) \in Nat /\ Len(buffer) \in Nat
  BY DEF AppendHolder, HolderOK
<1> HIDE DEF b
<1>2. sent' \in Seq(Byte) /\ Len(sent') = Len(sent) + z
  BY <1>1, ConcatProperties
<1>3. \A a, c, d \in Seq(Byte) : (a \o c) \o d = a \o (c \o d)
  BY ConcatAssociative, SMTT(30)
<1>7. \A s, t \in Seq(Group) :
        /\ Len(s \o t) = Len(s) + Len(t) /\ Len(s) \in Nat
        /\ \A i \in 1 .. Len(s) + Len(t) : (s \o t)[i] = IF i <= Len(s) THEN s[i] ELSE t[i - Len(s)]
  BY ConcatProperties
<1>4. CASE mode = "memory"
  <2>1. buffer' = SubSeq(buffer, 1, size) \o b /\ UNCHANGED <<file, extra, column>> /\ total = size + z
    BY <1>4 DEF AppendHolder, NewSize, b
  <2>2. PICK u \in Seq(Byte) : size <= Len(buffer) /\ sent = u \o SubSeq(buffer, 1, size)
    BY <1>4 DEF Holds
  <2>3. SubSeq(buffer, 1, size) \in Seq(Byte) /\ Len(SubSeq(buffer, 1, size)) = size
    <3>1. \A i \in 1 .. size : buffer[i] \in Byte
      BY <1>1, <2>2
    <3>2. (IF 1 <= size THEN size - 1 + 1 ELSE 0) = size
      OBVIOUS
    <3> QED BY <3>1, <3>2, SubSeqProperties
  <2>4. buffer' \in Seq(Byte) /\ Len(buffer') = total
    BY <1>1, <2>1, <2>3, ConcatProperties
  <2>5. SubSeq(buffer', 1, total) = buffer'
    BY <2>4, SubSeqFull
  <2>6. sent' = u \o SubSeq(buffer', 1, total)
    <3>1. (u \o SubSeq(buffer, 1, size)) \o b = u \o (SubSeq(buffer, 1, size) \o b)
      <4> DEFINE w == SubSeq(buffer, 1, size)
      <4>1. u \in Seq(Byte) /\ w \in Seq(Byte) /\ b \in Seq(Byte)
        BY <1>1, <2>3
      <4> HIDE DEF w
      <4>2. (u \o w) \o b = u \o (w \o b)
        BY <1>3, <4>1, Zenon
      <4> QED BY <4>2 DEF w
    <3> QED BY <1>1, <2>1, <2>2, <2>5, <3>1
  <2>7. ~failed' => total + Len(extra') = Len(sent')
    BY <1>1, <1>2, <2>1 DEF Holds
  <2>8. extra' = <<>> /\ total \in Nat /\ total <= Len(buffer')
    BY <1>1, <1>4, <2>1, <2>4 DEF Holds
  <2>9. Holds(total)'
    BY <1>1, <1>4, <2>6, <2>7, <2>8 DEF Holds
  <2>10. HolderOK'
    BY <1>1, <1>2, <1>4, <2>1, <2>4 DEF HolderOK
  <2> QED BY <1>1, <1>2, <2>8, <2>9, <2>10
<1>5. CASE mode = "file"
  <2>1. file' = file \o b /\ UNCHANGED <<buffer, extra, column>> /\ total = size + z
    BY <1>5 DEF AppendHolder, NewSize, b
  <2>2. file = sent /\ extra = <<>>
    BY <1>5 DEF Holds
  <2>3. ~failed' => total + Len(extra') = Len(sent')
    BY <1>1, <1>2, <2>1 DEF Holds
  <2>4. Holds(total)'
    BY <1>1, <1>5, <2>1, <2>2, <2>3 DEF Holds
  <2>5. HolderOK'
    BY <1>1, <1>2, <1>5, <2>1, <2>2 DEF HolderOK
  <2> QED BY <1>1, <1>2, <2>1, <2>4, <2>5
<1>6. CASE mode = "base64"
  <2> DEFINE data == extra \o b
             G == Groups(data)
             q == Len(data) \div 3
             out == Encode(G)
             F == FlattenSeq(file)
  <2>1. /\ file' = out.lines /\ column' = out.col /\ extra' = LeftOver(data) /\ buffer' = buffer
        /\ total = size + 3 * q
    BY <1>6 DEF AppendHolder, NewSize, Carried, b
  <2>2. /\ Shape(file, column) /\ F \in Seq(Group) /\ FlattenSeq(F) \o extra = sent
        /\ \A g \in 1 .. Len(F) : Len(F[g]) = 3
    BY <1>6, FlattenAppend DEF Holds, Shape, Text
  <2>3. data \in Seq(Byte) /\ Len(data) = Len(extra) + z
    BY <1>1, ConcatProperties
  <2> HIDE DEF data
  <2>4. Len(data) \in Nat /\ q \in Nat /\ 3 * q <= Len(data) /\ Len(data) - 3 * q \in 0 .. 2
    <3>1. Len(data) \in Nat
      BY <2>3
    <3> QED BY <3>1, Thirds
  <2>5. /\ G \in Seq(Group) /\ Len(G) = q /\ \A g \in 1 .. q : Len(G[g]) = 3
        /\ LeftOver(data) \in Seq(Byte) /\ Len(LeftOver(data)) = Len(data) - 3 * q
    BY <2>3, GroupsType
  <2>6. FlattenSeq(F \o G) \in Seq(Byte) /\ FlattenSeq(F \o G) \o LeftOver(data) = FlattenSeq(F) \o data
    <3> HIDE DEF F
    <3> QED BY <2>2, <2>3, GroupsKeepData
  <2> HIDE DEF G, q
  <2>7. Shape(out.lines, out.col) /\ FlattenSeq(out.lines) = F \o G
    BY <2>2, <2>5, EncodeResult
  <2> HIDE DEF F, out
  <2>8. FlattenSeq(F) \in Seq(Byte)
    BY <2>2, FlattenAppend DEF Group
  <2>9. FlattenSeq(F) \o data = sent'
    <3>1. FlattenSeq(F) \o data = (FlattenSeq(F) \o extra) \o b
      <4>1. extra \in Seq(Byte) /\ b \in Seq(Byte) /\ data = extra \o b
        BY <1>1, <1>3 DEF data
      <4>2. PICK w : w = FlattenSeq(F)
        OBVIOUS
      <4>3. w \in Seq(Byte)
        BY <2>8, <4>2
      <4>4. (w \o extra) \o b = w \o (extra \o b)
        BY ONLY <4>1, <4>3, ConcatAssociative
      <4> QED BY <4>1, <4>2, <4>4
    <3> QED BY <1>1, <2>2, <3>1
  <2>10. \A g \in 1 .. Len(F \o G) : Len((F \o G)[g]) = 3
    <3>1. /\ Len(F \o G) = Len(F) + Len(G) /\ Len(F) \in Nat
          /\ \A i \in 1 .. Len(F) + Len(G) : (F \o G)[i] = IF i <= Len(F) THEN F[i] ELSE G[i - Len(F)]
      BY <1>7, <2>2, <2>5
    <3>2. TAKE g \in 1 .. Len(F \o G)
    <3>3. CASE g <= Len(F)
      BY <2>2, <3>1, <3>3
    <3>4. CASE g > Len(F)
      <4>1. g - Len(F) \in 1 .. q
        BY <2>4, <2>5, <3>1, <3>4
      <4>2. (F \o G)[g] = G[g - Len(F)]
        BY <3>1, <3>4
      <4> QED BY <2>5, <4>1, <4>2
    <3> QED BY <3>1, <3>3, <3>4
  <2>11. ~failed' => total + Len(extra') = Len(sent')
    <3>1. ~failed' => size + Len(extra) = Len(sent)
      BY DEF Holds
    <3>2. Len(extra') = Len(extra) + z - 3 * q
      BY <2>1, <2>3, <2>5
    <3>3. total + Len(extra') = size + Len(extra) + z
      BY <1>1, <2>1, <2>4, <3>2
    <3> QED BY <1>1, <1>2, <3>1, <3>3
  <2>12. Holds(total)'
    <3>1. Shape(file, column)'
      BY <2>1, <2>7 DEF Shape
    <3>2. FlattenSeq(file') = F \o G
      BY <2>1, <2>7
    <3> QED BY <1>1, <1>6, <2>1, <2>6, <2>9, <2>10, <2>11, <3>1, <3>2 DEF Holds
  <2>13. HolderOK'
    <3>1. out.lines \in Seq(Seq(Seq(Byte))) /\ out.col \in 0 .. LineGroups
      BY <2>7 DEF Shape, Text, Group
    <3> QED BY <1>1, <1>2, <1>6, <2>1, <2>4, <2>5, <3>1, SMTT(30) DEF HolderOK
  <2> QED BY <1>1, <1>2, <2>1, <2>4, <2>12, <2>13
<1> QED BY <1>4, <1>5, <1>6 DEF HolderOK

-----------------------------------------------------------------------------
\* While calls run there is an innermost one.
LEMMA TopFrame ==
  ASSUME CallsOK, pc = "run"
  PROVE  Len(stack) \in Nat \ {0} /\ Top \in Frame /\ Top.size \in Nat
<1>1. Len(stack) \in Nat \ {0} /\ \A i \in 1 .. Len(stack) : stack[i] \in Frame
  BY EmptySeq DEF CallsOK
<1>2. Top \in Frame
  BY <1>1 DEF Top
<1> QED BY <1>1, <1>2 DEF Frame

\* The innermost call changes.
LEMMA TopSet ==
  ASSUME CallsOK, pc = "run", NEW f \in Frame
  PROVE  /\ SetTop(f) \in Seq(Frame) /\ Len(SetTop(f)) = Len(stack) /\ SetTop(f) # <<>>
         /\ SetTop(f)[Len(stack)] = f
<1>1. Len(stack) \in 1 .. Len(stack) /\ Len(stack) > 0
  BY TopFrame
<1>2. /\ SetTop(f) \in Seq(Frame) /\ Len(SetTop(f)) = Len(stack)
      /\ \A i \in 1 .. Len(stack) : SetTop(f)[i] = IF i = Len(stack) THEN f ELSE stack[i]
  BY <1>1, ExceptSeq DEF SetTop, CallsOK
<1>3. SetTop(f) # <<>>
  BY <1>1, <1>2, EmptySeq
<1> QED BY <1>1, <1>2, <1>3

\* The innermost call returns: its size is the current one.
LEMMA CallLeft ==
  ASSUME CallsOK, pc = "run", NEW size \in Nat, Leave(size)
  PROVE  CallsOK' /\ Cur' = size /\ pc' \in {"run", "finish"}
<1> DEFINE rest == Front(stack)
<1>1. rest \in Seq(Frame) /\ Len(rest) = Len(stack) - 1 /\ Len(rest) \in Nat /\ Len(rest) <= MaxDepth + 1
  <2>1. rest \in Seq(Frame) /\ Len(rest) = Len(stack) - 1 /\ Len(stack) \in Nat \ {0}
    BY FrontLast DEF CallsOK
  <2> HIDE DEF rest
  <2> QED BY <2>1, SizesAssumption DEF CallsOK
<1> HIDE DEF rest
<1>2. CASE rest # <<>>
  <2> DEFINE l == Len(rest)
             f == [rest[l] EXCEPT !.size = size]
  <2>1. stack' = [rest EXCEPT ![l].size = size] /\ pc' = pc /\ result' = result
    BY <1>2 DEF Leave, rest
  <2>2. l \in 1 .. Len(rest) /\ l > 0
    BY <1>1, <1>2, EmptySeq
  <2>3. rest[l] \in Frame
    BY <1>1, <2>2
  <2>4. f \in Frame /\ f.size = size
    BY <2>3 DEF Frame
  <2>5. stack' = [rest EXCEPT ![l] = f]
    BY <2>1
  <2> HIDE DEF f
  <2>6. /\ stack' \in Seq(Frame) /\ Len(stack') = l
        /\ \A i \in 1 .. l : stack'[i] = IF i = l THEN f ELSE rest[i]
    BY <1>1, <2>2, <2>4, <2>5, ExceptSeq
  <2>7. stack' # <<>> /\ stack'[Len(stack')] = f
    BY <2>2, <2>6, EmptySeq
  <2>8. Len(stack') <= MaxDepth + 1 /\ Len(stack') <= MaxDepth + 2
    BY <1>1, <2>6, SizesAssumption
  <2>9. CallsOK'
    BY <2>1, <2>6, <2>7, <2>8 DEF CallsOK
  <2>10. Cur' = size
    BY <2>1, <2>4, <2>7 DEF Cur, Top
  <2> QED BY <2>1, <2>9, <2>10
<1>3. CASE rest = <<>>
  <2>1. stack' = <<>> /\ pc' = "finish" /\ result' = size
    BY <1>3 DEF Leave, rest
  <2>2. <<>> \in Seq(Frame) /\ Len(<<>>) = 0 /\ 0 <= MaxDepth + 2
    BY SizesAssumption
  <2> QED BY <2>1, <2>2 DEF CallsOK, Cur
<1> QED BY <1>2, <1>3

\* The destination stays as it is; only after a failure may the size drop to 0.
LEMMA Kept ==
  ASSUME HolderOK, UNCHANGED <<holder, sent>>, NEW s \in Nat, Holds(s), ~failed' => ~failed,
         NEW t, t = s \/ (t = 0 /\ failed')
  PROVE  HolderOK' /\ Holds(t)'
<1>1. mode' = mode /\ buffer' = buffer /\ file' = file /\ extra' = extra /\ column' = column /\ sent' = sent
  BY DEF holder
<1>2. HolderOK'
  BY <1>1 DEF HolderOK
<1>3. mode = "memory" => t <= Len(buffer) /\ \E u \in Seq(Byte) : sent = u \o SubSeq(buffer, 1, t)
  <2>1. CASE t = s
    BY <2>1 DEF Holds
  <2>2. CASE t = 0
    <3>1. SubSeq(buffer, 1, 0) = <<>>
      BY SubSeqEmpty
    <3>2. sent \in Seq(Byte) /\ sent \o <<>> = sent /\ Len(buffer) \in Nat
      BY ConcatEmptySeq DEF HolderOK
    <3> QED BY <2>2, <3>1, <3>2
  <2> QED BY <2>1, <2>2
<1>4. ~failed' => t + Len(extra) = Len(sent)
  BY DEF Holds
<1>5. /\ mode = "file" => file = sent
      /\ mode = "base64" =>
           /\ Shape(file, column)
           /\ \A g \in 1 .. Len(FlattenSeq(file)) : Len(FlattenSeq(file)[g]) = 3
           /\ FlattenSeq(FlattenSeq(file)) \o extra = sent
      /\ mode # "base64" => extra = <<>>
  BY DEF Holds
<1>6. Holds(t)'
  BY <1>1, <1>3, <1>4, <1>5 DEF Holds, Shape
<1> QED BY <1>2, <1>6

\* The room when nothing is sent.
LEMMA RoomKept ==
  ASSUME RoomOK, HolderOK, sent' = sent, failed' \in BOOLEAN, pc' # "start",
         read' = read \/ (read < MaxBlocks /\ read' = read + 1)
  PROVE  RoomOK'
<1> DEFINE l == Len(sent)
           m == read * MaxRead
           n == (read + 1) * MaxRead
<1>1. read \in Nat /\ MaxRead \in Nat /\ MaxBlocks \in Nat /\ l \in Nat
  BY SizesAssumption DEF RoomOK, HolderOK
<1>2. l <= m /\ m \in Nat
  BY <1>1 DEF RoomOK
<1>3. read < MaxBlocks => m + MaxRead = n /\ n \in Nat
  BY <1>1, Products
<1> HIDE DEF l, m, n
<1>4. read < MaxBlocks => l <= n
  BY <1>1, <1>2, <1>3
<1>5. Len(sent') <= read' * MaxRead
  BY <1>2, <1>4 DEF l, m, n
<1>6. read' \in 0 .. MaxBlocks
  BY <1>1 DEF RoomOK
<1> QED BY <1>5, <1>6 DEF RoomOK

\* The room when one more block is sent.
LEMMA RoomSent ==
  ASSUME RoomOK, HolderOK, NEW z \in 0 .. MaxRead, Len(sent') = Len(sent) + z, failed' \in BOOLEAN,
         pc' # "start", read < MaxBlocks, read' = read + 1
  PROVE  RoomOK'
<1>1. Len(sent) + z <= (read + 1) * MaxRead
  BY BytesFit
<1>2. read' \in 0 .. MaxBlocks
  BY SizesAssumption DEF RoomOK
<1>3. Len(sent') <= read' * MaxRead
  BY <1>1
<1> QED BY <1>2, <1>3 DEF RoomOK

-----------------------------------------------------------------------------
\* The invariant holds before anything is read.
LEMMA DataInit == Init => DataInv
<1> SUFFICES ASSUME Init PROVE DataInv
  OBVIOUS
<1>1. /\ pc = "start" /\ stack = <<>> /\ result = 0 /\ buffer = <<>> /\ file = <<>> /\ extra = <<>>
      /\ column = 0 /\ sent = <<>> /\ read = 0 /\ failed = FALSE /\ mode \in {"memory", "file", "base64"}
  BY DEF Init
<1>2. /\ LineGroups \in Nat /\ MaxRead \in Nat /\ MaxBlocks \in Nat /\ MaxDepth \in Nat
      /\ \A S : <<>> \in Seq(S)
      /\ Len(<<>>) = 0
  BY SizesAssumption
<1>3. HolderOK
  BY <1>1, <1>2 DEF HolderOK
<1>4. CallsOK
  BY <1>1, <1>2 DEF CallsOK
<1>5. RoomOK
  <2>1. 0 * MaxRead = 0
    BY <1>2
  <2>2. failed \in BOOLEAN /\ ~failed
    BY <1>1
  <2>3. read \in 0 .. MaxBlocks /\ Len(sent) <= read * MaxRead /\ read = 0 /\ result = 0
    BY <1>1, <1>2, <2>1
  <2> QED BY <2>2, <2>3 DEF RoomOK
<1>6. Shape(<<>>, 0)
  BY <1>2 DEF Shape, Text
<1>7. FlattenSeq(<<>>) = <<>>
  BY DEF FlattenSeq
<1>8. SubSeq(<<>>, 1, 0) = <<>> /\ <<>> \o <<>> = <<>>
  <2>1. <<>> \in Seq(Byte)
    BY <1>2
  <2> QED BY <2>1, SubSeqEmpty, ConcatEmptySeq
<1>9. Cur = 0
  BY <1>1 DEF Cur
<1>10. mode = "memory" => \E u \in Seq(Byte) : sent = u \o SubSeq(buffer, 1, 0)
  <2>1. <<>> \in Seq(Byte)
    BY <1>2
  <2> QED BY <1>1, <1>8, <2>1
<1>11. \A g \in 1 .. Len(FlattenSeq(file)) : Len(FlattenSeq(file)[g]) = 3
  BY <1>1, <1>2, <1>7
<1>12. Holds(0)
  BY <1>1, <1>2, <1>6, <1>7, <1>8, <1>10, <1>11 DEF Holds
<1> QED BY <1>1, <1>3, <1>4, <1>5, <1>9, <1>12 DEF DataInv

\* A single block is sent.
LEMMA SingleStep == DataInv /\ SingleBlock => DataInv'
<1> SUFFICES ASSUME DataInv, SingleBlock PROVE DataInv'
  OBVIOUS
<1>1. PICK z \in 0 .. MaxRead : AppendHolder(0, z) /\ result' = NewSize(0, z) /\ failed' = (z = 0)
  BY DEF SingleBlock
<1>2. /\ pc = "start" /\ pc' = "finish" /\ read' = read + 1 /\ stack' = stack
      /\ HolderOK /\ CallsOK /\ RoomOK /\ read = 0 /\ result = 0 /\ ~failed /\ Holds(0)
  BY DEF SingleBlock, CountRead, DataInv, RoomOK, Cur
<1>3. PICK total : total = NewSize(0, z)
  OBVIOUS
<1>4. read < MaxBlocks /\ z \in Nat
  BY <1>2, SizesAssumption
<1>5. Bytes(z) \in Seq(Byte) /\ Len(Bytes(z)) = z
  BY <1>2, <1>4, BytesFit
<1>6. HolderOK' /\ Len(sent') = Len(sent) + z /\ total \in Nat /\ Holds(total)'
  BY <1>1, <1>2, <1>3, <1>4, <1>5, Appended
<1>7. RoomOK'
  BY <1>1, <1>2, <1>4, <1>6, RoomSent
<1>8. CallsOK' /\ Cur' = total
  BY <1>1, <1>2, <1>3, <1>6 DEF CallsOK, Cur
<1>9. Holds(Cur)'
  BY <1>6, <1>8 DEF Holds
<1> QED BY <1>2, <1>6, <1>7, <1>8, <1>9 DEF DataInv

\* A call returns and nothing is sent.
LEMMA LeaveStep ==
  ASSUME DataInv, pc = "run", NEW size \in Nat, Leave(size), UNCHANGED <<holder, sent, read>>,
         failed' \in BOOLEAN, ~failed' => ~failed, size = Top.size \/ (size = 0 /\ failed')
  PROVE  DataInv'
<1>1. HolderOK /\ CallsOK /\ RoomOK /\ Top.size \in Nat /\ Holds(Top.size)
  BY TopFrame DEF DataInv, Cur
<1>2. CallsOK' /\ Cur' = size /\ pc' \in {"run", "finish"}
  BY <1>1, CallLeft
<1>3. PICK s \in Nat : s = Top.size
  BY <1>1
<1>4. HolderOK' /\ Holds(size)'
  BY <1>1, <1>3, Kept
<1>5. RoomOK'
  BY <1>1, <1>2, RoomKept
<1>6. Holds(Cur)'
  BY <1>2, <1>4 DEF Holds
<1> QED BY <1>2, <1>4, <1>5, <1>6 DEF DataInv

\* Refused blocks, failed reads and the ends of reference lists.
LEMMA LeavingSteps == DataInv /\ (Refuse \/ ReadFails \/ NextDataFails \/ EndReferences) => DataInv'
<1> SUFFICES ASSUME DataInv, Refuse \/ ReadFails \/ NextDataFails \/ EndReferences PROVE DataInv'
  OBVIOUS
<1>1. pc = "run" /\ UNCHANGED <<holder, sent, read>>
  BY DEF Refuse, ReadFails, NextDataFails, EndReferences, Opening, Referencing
<1>2. PICK s \in Nat : s = Top.size
  BY <1>1, TopFrame DEF DataInv
<1>3. failed \in BOOLEAN
  BY DEF DataInv, RoomOK
<1>4. CASE Refuse
  BY <1>1, <1>2, <1>4, LeaveStep DEF Refuse
<1>5. CASE ReadFails \/ NextDataFails
  BY <1>1, <1>2, <1>5, LeaveStep DEF ReadFails, NextDataFails
<1>6. CASE EndReferences
  BY <1>1, <1>2, <1>3, <1>6, LeaveStep DEF EndReferences
<1> QED BY <1>4, <1>5, <1>6

\* An indirection block is opened, its references are read, or it refers to another.
LEMMA TableSteps == DataInv /\ (Indirect \/ ReadReferences \/ NextTable) => DataInv'
<1> SUFFICES ASSUME DataInv, Indirect \/ ReadReferences \/ NextTable PROVE DataInv'
  OBVIOUS
<1>1. /\ UNCHANGED <<holder, result, sent, failed>> /\ pc # "done" /\ pc' = "run"
      /\ read' = read \/ (read < MaxBlocks /\ read' = read + 1)
  BY DEF Indirect, ReadReferences, NextTable, Opening, Referencing, CountRead, CanRead
<1>2. HolderOK /\ CallsOK /\ RoomOK /\ Holds(Cur) /\ failed \in BOOLEAN /\ MaxRefs \in Nat /\ MaxDepth \in Nat
  BY <1>1, SizesAssumption DEF DataInv, RoomOK
<1>3. Cur \in Nat
  BY <1>2, TopFrame DEF Cur, CallsOK
<1>4. CallsOK' /\ Cur' = Cur
  <2>1. CASE Indirect
    <3>1. stack' = <<NewFrame(0)>> /\ pc = "start" /\ Cur = 0
      BY <1>2, <2>1 DEF Indirect, Cur, RoomOK
    <3>2. NewFrame(0) \in Frame /\ NewFrame(0).size = 0 /\ NewFrame(0).kind = "open"
      BY <1>2 DEF NewFrame, Frame
    <3>3. <<NewFrame(0)>> \in Seq(Frame) /\ Len(<<NewFrame(0)>>) = 1 /\ <<NewFrame(0)>> # <<>>
      BY <3>2
    <3>4. Top' = NewFrame(0)
      BY <3>1, <3>3 DEF Top
    <3>5. CallsOK'
      BY <1>1, <1>2, <3>1, <3>2, <3>3, <3>4 DEF CallsOK
    <3> QED BY <1>1, <3>1, <3>2, <3>4, <3>5 DEF Cur
  <2>2. CASE ReadReferences
    <3>1. PICK kind \in {"table", "list"}, n \in 0 .. MaxRefs :
            stack' = SetTop([Top EXCEPT !.kind = kind, !.left = n])
      BY <2>2 DEF ReadReferences
    <3>2. pc = "run" /\ ~TooDeep
      BY <2>2 DEF ReadReferences, Opening
    <3> DEFINE f == [Top EXCEPT !.kind = kind, !.left = n]
    <3>3. f \in Frame /\ f.size = Top.size
      BY <1>2, <3>2, TopFrame DEF Frame
    <3>4. stack' \in Seq(Frame) /\ Len(stack') = Len(stack) /\ stack' # <<>> /\ stack'[Len(stack)] = f
      <4> HIDE DEF f
      <4>1. stack' = SetTop(f)
        BY <3>1 DEF f
      <4> QED BY <1>2, <3>2, <3>3, <4>1, TopSet
    <3> HIDE DEF f
    <3>5. Len(stack') <= MaxDepth + 1 /\ Len(stack') <= MaxDepth + 2
      BY <1>2, <3>2, <3>4, TopFrame DEF TooDeep
    <3>6. CallsOK'
      BY <1>1, <1>2, <3>4, <3>5 DEF CallsOK
    <3>7. Cur = Top.size /\ Cur' = f.size
      BY <1>1, <3>2, <3>4 DEF Cur, Top
    <3> QED BY <3>3, <3>6, <3>7
  <2>3. CASE NextTable
    <3> DEFINE f == [Top EXCEPT !.left = @ - 1]
               g == NewFrame(Top.size)
    <3>1. stack' = Append(SetTop(f), g) /\ pc = "run" /\ Top.kind = "table" /\ Top.left > 0
      BY <2>3 DEF NextTable, Referencing
    <3>2. f \in Frame /\ g \in Frame /\ g.size = Top.size /\ g.kind = "open"
      BY <1>2, <3>1, TopFrame DEF Frame, NewFrame
    <3> HIDE DEF f, g
    <3>3. SetTop(f) \in Seq(Frame) /\ Len(SetTop(f)) = Len(stack)
      BY <1>2, <3>1, <3>2, TopSet
    <3>4. /\ stack' \in Seq(Frame) /\ stack' # <<>> /\ Len(stack') = Len(stack) + 1
          /\ stack'[Len(stack) + 1] = g
      BY <3>1, <3>2, <3>3, AppendProperties
    <3>5. Len(stack') <= MaxDepth + 2
      BY <1>2, <3>1, <3>4, TopFrame DEF CallsOK
    <3>6. Top' = g
      BY <3>4 DEF Top
    <3>7. CallsOK'
      BY <1>1, <1>2, <3>2, <3>4, <3>5, <3>6 DEF CallsOK
    <3> QED BY <1>1, <3>1, <3>2, <3>6, <3>7 DEF Cur
  <2> QED BY <2>1, <2>2, <2>3
<1>5. PICK s \in Nat : s = Cur
  BY <1>3
<1>6. HolderOK' /\ Holds(s)'
  BY <1>1, <1>2, <1>5, Kept
<1>7. Holds(Cur)'
  BY <1>4, <1>5, <1>6 DEF Holds
<1>8. RoomOK'
  BY <1>1, <1>2, RoomKept
<1> QED BY <1>1, <1>4, <1>6, <1>7, <1>8 DEF DataInv

\* A block of data is sent inside a call.
LEMMA DataSteps == DataInv /\ (ReadPlain \/ NextData) => DataInv'
<1> SUFFICES ASSUME DataInv, ReadPlain \/ NextData PROVE DataInv'
  OBVIOUS
<1>1. pc = "run" /\ read < MaxBlocks /\ read' = read + 1 /\ failed' = failed
  BY DEF ReadPlain, NextData, Opening, Referencing, CanRead, CountRead
<1>2. HolderOK /\ CallsOK /\ RoomOK /\ Holds(Top.size) /\ failed \in BOOLEAN
  BY <1>1 DEF DataInv, Cur, RoomOK
<1>3. Top \in Frame /\ Top.size \in Nat
  BY <1>1, <1>2, TopFrame
<1>4. PICK size \in Nat : size = Top.size
  BY <1>3
<1>5. PICK z \in 1 .. MaxRead :
        /\ AppendHolder(Top.size, z)
        /\ \/ ReadPlain /\ Leave(NewSize(Top.size, z))
           \/ NextData /\ stack' = SetTop([Top EXCEPT !.left = @ - 1, !.size = NewSize(Top.size, z)])
  BY DEF ReadPlain, NextData
<1>6. z \in Nat /\ z \in 0 .. MaxRead
  BY SizesAssumption
<1>7. PICK total : total = NewSize(size, z)
  OBVIOUS
<1>8. Bytes(z) \in Seq(Byte) /\ Len(Bytes(z)) = z
  BY <1>1, <1>2, <1>6, BytesFit
<1>9. HolderOK' /\ Len(sent') = Len(sent) + z /\ total \in Nat /\ Holds(total)'
  <2>1. Holds(size) /\ AppendHolder(size, z)
    BY <1>2, <1>4, <1>5
  <2> QED BY <1>1, <1>2, <1>6, <1>7, <1>8, <2>1, Appended
<1>10. CallsOK' /\ Cur' = total /\ pc' \in {"run", "finish"}
  <2>1. CASE ReadPlain /\ Leave(NewSize(Top.size, z))
    <3>1. Leave(total)
      BY <1>4, <1>7, <2>1
    <3> QED BY <1>1, <1>2, <1>9, <3>1, CallLeft
  <2>2. CASE NextData /\ stack' = SetTop([Top EXCEPT !.left = @ - 1, !.size = NewSize(Top.size, z)])
    <3> DEFINE f == [Top EXCEPT !.left = @ - 1, !.size = total]
    <3>1. stack' = SetTop(f) /\ pc' = "run" /\ result' = result /\ Top.kind = "list" /\ Top.left > 0
      BY <1>1, <1>4, <1>7, <2>2 DEF NextData, Referencing
    <3>2. f \in Frame /\ f.size = total
      <4>1. Top.kind \in {"open", "table", "list"} /\ Top.left \in 0 .. MaxRefs
        BY <1>3 DEF Frame
      <4>2. Top.left - 1 \in 0 .. MaxRefs
        BY <3>1, <4>1, SizesAssumption
      <4>3. PICK m \in 0 .. MaxRefs : m = Top.left - 1
        BY <4>2
      <4>4. PICK fr \in Frame : fr = Top
        BY <1>3
      <4>5. [fr EXCEPT !.left = m, !.size = total] \in Frame /\ [fr EXCEPT !.left = m, !.size = total].size = total
        BY <1>9 DEF Frame
      <4>6. f = [fr EXCEPT !.left = m, !.size = total]
        BY <4>3, <4>4
      <4> HIDE DEF f
      <4> QED BY <4>5, <4>6
    <3> HIDE DEF f
    <3>3. stack' \in Seq(Frame) /\ Len(stack') = Len(stack) /\ stack' # <<>> /\ stack'[Len(stack)] = f
      BY <1>1, <1>2, <3>1, <3>2, TopSet
    <3>4. Len(stack') <= MaxDepth + 1 /\ Len(stack') <= MaxDepth + 2
      BY <1>1, <1>2, <3>1, <3>3, TopFrame, SizesAssumption DEF CallsOK
    <3>5. Top' = f
      BY <3>3 DEF Top
    <3>6. CallsOK'
      BY <1>2, <3>1, <3>3, <3>4 DEF CallsOK
    <3> QED BY <3>1, <3>2, <3>5, <3>6 DEF Cur
  <2> QED BY <1>5, <2>1, <2>2
<1>11. RoomOK'
  BY <1>1, <1>2, <1>6, <1>9, <1>10, RoomSent
<1>12. Holds(Cur)'
  BY <1>9, <1>10 DEF Holds
<1> QED BY <1>9, <1>10, <1>11, <1>12 DEF DataInv

\* The waiting bytes become the last group.
LEMMA FinishStep == DataInv /\ Finish => DataInv'
<1> SUFFICES ASSUME DataInv, Finish PROVE DataInv'
  OBVIOUS
<1>1. /\ pc = "finish" /\ pc' = "done" /\ UNCHANGED <<mode, stack, buffer, extra, sent, read, failed>>
      /\ result' = result + IF mode = "base64" THEN Len(extra) ELSE 0
  BY DEF Finish
<1>2. HolderOK /\ CallsOK /\ RoomOK /\ Holds(result) /\ result \in Nat /\ Len(extra) \in Nat
  BY <1>1 DEF DataInv, Cur, CallsOK, HolderOK
<1>3. CallsOK' /\ RoomOK'
  BY <1>1, <1>2 DEF CallsOK, RoomOK
<1>4. CASE mode # "base64"
  <2>1. UNCHANGED <<file, column>> /\ result' = result /\ extra = <<>> /\ Len(extra) = 0
    BY <1>1, <1>2, <1>4 DEF Finish, Holds
  <2>2. HolderOK'
    BY <1>1, <1>2, <2>1 DEF HolderOK
  <2>3. Arrived'
    BY <1>1, <1>2, <1>4, <2>1 DEF Holds, Arrived
  <2> QED BY <1>1, <1>3, <2>2, <2>3 DEF DataInv
<1>5. CASE mode = "base64"
  <2> DEFINE F == FlattenSeq(file)
  <2>1. /\ Shape(file, column) /\ F \in Seq(Group) /\ FlattenSeq(F) \o extra = sent
        /\ \A g \in 1 .. Len(F) : Len(F[g]) = 3
    BY <1>2, <1>5, FlattenAppend DEF Holds, Shape, Text
  <2>2. /\ Shape(file', column') /\ FlattenSeq(FlattenSeq(file')) = sent
        /\ \A g \in 1 .. Len(FlattenSeq(file')) - 1 : Len(FlattenSeq(file')[g]) = 3
    <3>1. CASE extra # <<>>
      <4> DEFINE out == Encode(<<extra>>)
      <4>1. file' = out.lines /\ column' = out.col
        BY <1>5, <3>1 DEF Finish
      <4>2. extra \in Group /\ <<extra>> \in Seq(Group)
        BY <1>2 DEF HolderOK, Group
      <4>3. Shape(out.lines, out.col) /\ FlattenSeq(out.lines) = F \o <<extra>>
        BY <2>1, <4>2, EncodeResult
      <4> HIDE DEF out, F
      <4>4. F \o <<extra>> = Append(F, extra)
        BY <2>1, <4>2, AppendIsConcat
      <4>5. FlattenSeq(Append(F, extra)) = FlattenSeq(F) \o extra
        BY <2>1, <4>2, FlattenAppend DEF Group
      <4>6. /\ Len(Append(F, extra)) = Len(F) + 1 /\ Len(F) \in Nat
            /\ \A g \in 1 .. Len(F) : Append(F, extra)[g] = F[g]
        BY <2>1, <4>2, AppendProperties
      <4>7. \A g \in 1 .. Len(Append(F, extra)) - 1 : Len(Append(F, extra)[g]) = 3
        BY <2>1, <4>6
      <4>8. FlattenSeq(file') = Append(F, extra)
        BY <4>1, <4>3, <4>4
      <4> QED BY <2>1, <4>1, <4>3, <4>5, <4>7, <4>8
    <3>2. CASE extra = <<>>
      <4>1. file' = file /\ column' = column
        BY <1>5, <3>2 DEF Finish
      <4>2. FlattenSeq(F) \in Seq(Byte)
        BY <2>1, FlattenAppend DEF Group
      <4>3. FlattenSeq(F) \o <<>> = FlattenSeq(F)
        BY <4>2, ConcatEmptySeq
      <4>4. Len(F) \in Nat
        BY <2>1
      <4>5. \A g \in 1 .. Len(F) - 1 : Len(F[g]) = 3
        BY <2>1, <4>4
      <4> QED BY <2>1, <3>2, <4>1, <4>3, <4>5
    <3> QED BY <3>1, <3>2
  <2>3. ~failed' => result' = Len(sent')
    BY <1>1, <1>2, <1>5 DEF Holds
  <2>4. Arrived'
    BY <1>1, <1>5, <2>2, <2>3 DEF Arrived, Shape
  <2>5. HolderOK'
    <3>1. file' \in Seq(Seq(Seq(Byte))) /\ column' \in 0 .. LineGroups
      BY <2>2 DEF Shape, Text, Group
    <3> QED BY <1>1, <1>2, <1>5, <3>1 DEF HolderOK
  <2> QED BY <1>1, <1>3, <2>4, <2>5 DEF DataInv
<1> QED BY <1>4, <1>5

\* Every step keeps the invariant.
LEMMA DataStep == DataInv /\ [Next]_vars => DataInv'
<1> SUFFICES ASSUME DataInv, [Next]_vars PROVE DataInv'
  OBVIOUS
<1>1. CASE SingleBlock
  BY <1>1, SingleStep
<1>2. CASE Refuse \/ ReadFails \/ NextDataFails \/ EndReferences
  BY <1>2, LeavingSteps
<1>3. CASE Indirect \/ ReadReferences \/ NextTable
  BY <1>3, TableSteps
<1>4. CASE ReadPlain \/ NextData
  BY <1>4, DataSteps
<1>5. CASE Finish
  BY <1>5, FinishStep
<1>6. CASE UNCHANGED vars
  <2>1. /\ UNCHANGED <<mode, pc, stack, result, buffer, file, extra, column, sent, read, failed>>
        /\ Top' = Top /\ Cur' = Cur
    BY <1>6 DEF vars, Top, Cur
  <2>2. HolderOK' /\ CallsOK' /\ RoomOK'
    BY <2>1 DEF DataInv, HolderOK, CallsOK, RoomOK
  <2>3. pc # "done" => Holds(Cur)'
    BY <2>1 DEF DataInv, Holds, Shape
  <2>4. pc = "done" => Arrived'
    BY <2>1 DEF DataInv, Arrived, Shape
  <2> QED BY <2>1, <2>2, <2>3, <2>4 DEF DataInv
<1> QED BY <1>1, <1>2, <1>3, <1>4, <1>5, <1>6 DEF Next

\* The invariant holds in every reachable state.
LEMMA DataInvariant == Spec => []DataInv
BY DataInit, DataStep, PTL DEF Spec

-----------------------------------------------------------------------------
\* Without failures the destination holds the bytes of all blocks in their
\* order: pst_append_holder with pst_finish_cleanup_holder, for every division
\* of the data into blocks and every nesting of references.
THEOREM AllDataArrives == Spec => []DataComplete
<1>1. DataInv => DataComplete
  <2> SUFFICES ASSUME DataInv, pc = "done", ~failed PROVE Written = sent /\ result = Len(sent)
    BY DEF DataComplete
  <2>1. Arrived /\ result = Len(sent) /\ HolderOK /\ Len(sent) \in Nat
    <3>1. Arrived /\ HolderOK
      BY DEF DataInv
    <3>2. result = Len(sent)
      BY <3>1 DEF Arrived
    <3> QED BY <3>1, <3>2 DEF HolderOK
  <2>0. \A s, t \in Seq(Byte) : Len(s \o t) = Len(s) + Len(t) /\ Len(s) \in Nat
    BY ConcatProperties
  <2>2. CASE mode = "memory"
    <3>1. PICK u \in Seq(Byte) : sent = u \o SubSeq(buffer, 1, result)
      BY <2>1, <2>2 DEF Arrived
    <3> DEFINE w == SubSeq(buffer, 1, result)
    <3>2. \A i \in 1 .. result : buffer[i] \in Byte
      BY <2>1, <2>2 DEF Arrived, HolderOK
    <3>3. w \in Seq(Byte) /\ Len(w) = result
      <4>1. result \in Int /\ (IF 1 <= result THEN result - 1 + 1 ELSE 0) = result
        BY <2>1
      <4> QED BY <3>2, <4>1, SubSeqProperties
    <3> HIDE DEF w
    <3>4. sent = u \o w
      BY <3>1 DEF w
    <3>5. Len(u) + Len(w) = Len(sent) /\ Len(u) \in Nat
      BY <2>0, <3>3, <3>4
    <3>6. u = <<>>
      BY <2>1, <3>3, <3>5, EmptySeq
    <3>7. sent = w
      BY <3>3, <3>4, <3>6, ConcatEmptySeq
    <3> QED BY <2>1, <2>2, <3>7 DEF Written, w
  <2>3. CASE mode = "file"
    BY <2>1, <2>3 DEF Written, Arrived
  <2>4. CASE mode = "base64"
    BY <2>1, <2>4 DEF Written, Arrived
  <2> QED BY <2>1, <2>2, <2>3, <2>4 DEF HolderOK
<1> QED BY <1>1, DataInvariant, PTL

\* Whatever fails, a base64 text of pst_base64_encode_multiple consists of full
\* groups on full lines, and in the end it decodes to what was sent.
THEOREM Base64Decodes == Spec => []Base64WellFormed
<1>1. DataInv => Base64WellFormed
  <2> SUFFICES ASSUME DataInv, mode = "base64"
               PROVE  LET groups == FlattenSeq(file)
                      IN  /\ \A g \in 1 .. Len(groups) - 1 : Len(groups[g]) = 3
                          /\ \A l \in 1 .. Len(file) - 1 : Len(file[l]) = LineGroups
                          /\ file # <<>> => Len(Last(file)) \in 1 .. LineGroups
                          /\ pc = "done" => FlattenSeq(groups) = sent
    BY DEF Base64WellFormed
  <2> DEFINE F == FlattenSeq(file)
  <2>1. Shape(file, column)
    BY DEF DataInv, Holds, Arrived
  <2>2. F \in Seq(Group) /\ Len(F) \in Nat
    BY <2>1, FlattenAppend DEF Shape, Text
  <2>3. \A g \in 1 .. Len(F) - 1 : Len(F[g]) = 3
    BY <2>2 DEF DataInv, Holds, Arrived
  <2>4. pc = "done" => FlattenSeq(F) = sent
    BY DEF DataInv, Arrived
  <2>5. /\ \A l \in 1 .. Len(file) - 1 : Len(file[l]) = LineGroups
        /\ file # <<>> => Len(Last(file)) \in 1 .. LineGroups
    BY <2>1, SizesAssumption DEF Shape
  <2> QED BY <2>3, <2>4, <2>5
<1> QED BY <1>1, DataInvariant, PTL

\* The types, and the buffer that pst_attach_to_mem hands to its caller: it holds
\* as many bytes as the size returned with it says, the last that were read.
THEOREM BufferNeverShort == Spec => []BufferHoldsSize
<1>1. DataInv => BufferHoldsSize
  <2> SUFFICES ASSUME DataInv PROVE BufferHoldsSize
    OBVIOUS
  <2>1. TypeOK
    BY DEF DataInv, HolderOK, CallsOK, RoomOK, TypeOK
  <2>2. ASSUME mode = "memory", pc \in {"finish", "done"}
        PROVE  result <= Len(buffer) /\ IsSuffix(SubSeq(buffer, 1, result), sent)
    <3>1. PICK u \in Seq(Byte) : result <= Len(buffer) /\ sent = u \o SubSeq(buffer, 1, result)
      BY <2>2 DEF DataInv, Holds, Arrived, Cur
    <3>2. \A i \in 1 .. result : buffer[i] \in Byte
      BY <2>1, <3>1 DEF TypeOK
    <3>3. SubSeq(buffer, 1, result) \in Seq(Byte)
      BY <2>1, <3>2, SubSeqProperties DEF TypeOK
    <3> QED BY <3>1, <3>3, SuffixOf
  <2> QED BY <2>1, <2>2 DEF BufferHoldsSize
<1> QED BY <1>1, DataInvariant, PTL
=============================================================================
