----------------------------- MODULE ForkedProofs -----------------------------
(***************************************************************************)
(* What the processes of readpst share besides the pool, for every number  *)
(* of processes: the output lock is held by one process at a time and lost *)
(* only by a kill, and no message is torn; reads of the pst files go       *)
(* wrong, and files and directories are lost, only in the ways that        *)
(* ReadsRight and HandleKept name; every item gets to its file, twice only *)
(* where a fork copied a buffer with its text.                             *)
(***************************************************************************)
EXTENDS DebugLock, FileHandle, OutputBuffers,
        FiniteSetTheorems, SequenceTheorems, WellFoundedInduction, TLAPS

-----------------------------------------------------------------------------
\* The output lock.

Steps == {"none", "idle", "head", "text", "flush", "unlock", "ended"}
Holders == {p \in Processes : step[p] \in Locked}

Types ==
  /\ mutex \in Nat
  /\ step \in [Processes -> Steps]
  /\ killed \in SUBSET (Processes \X Steps) /\ IsFiniteSet(killed)

\* A process that was killed does not get up again, so that it is counted once.
KilledEnded == \A k \in killed : step[k[1]] = "ended"

LockInv == Types /\ KilledEnded /\ LockAccounted

\* There are finitely many processes.
LEMMA ProcessesFinite == IsFiniteSet(Processes)
BY FS_Interval, ProcessesAssumption DEF Processes

\* A process that begins to hold the lock, or stops to.
LEMMA Holding ==
  ASSUME NEW S, IsFiniteSet(S), NEW p
  PROVE  /\ Cardinality(S) \in Nat
         /\ p \notin S => Cardinality(S \cup {p}) = Cardinality(S) + 1
         /\ p \in S => Cardinality(S \ {p}) = Cardinality(S) - 1
BY FS_CardinalityType, FS_AddElement, FS_RemoveElement

\* Taking the lock and giving it back; every other step of a live process
\* leaves mutex, holders and the killed as they were.
LEMMA StepKeeps ==
  ASSUME LockInv, NEW p \in Processes, NEW to \in Steps, step[p] # "ended",
         step' = [step EXCEPT ![p] = to], UNCHANGED killed,
         mutex' = mutex + (IF step[p] \in Locked THEN 1 ELSE 0) - (IF to \in Locked THEN 1 ELSE 0),
         mutex' \in Nat
  PROVE  LockInv'
<1>1. Types' /\ KilledEnded'
  BY DEF LockInv, Types, KilledEnded
<1>2. IsFiniteSet(Holders)
  BY ProcessesFinite, FS_Subset DEF Holders
<1>3. Holders' = IF to \in Locked THEN Holders \cup {p} ELSE Holders \ {p}
  BY DEF Holders, LockInv, Types
<1>4. p \in Holders <=> step[p] \in Locked
  BY DEF Holders
<1>5. Cardinality(Holders') = Cardinality(Holders) - (IF step[p] \in Locked THEN 1 ELSE 0)
                                                   + (IF to \in Locked THEN 1 ELSE 0)
  <2>1. /\ Cardinality(Holders) \in Nat
        /\ p \notin Holders => Cardinality(Holders \cup {p}) = Cardinality(Holders) + 1
        /\ p \in Holders => Cardinality(Holders \ {p}) = Cardinality(Holders) - 1
    BY <1>2, Holding
  <2>2. p \in Holders => Holders \cup {p} = Holders
    OBVIOUS
  <2>3. p \notin Holders => Holders \ {p} = Holders
    OBVIOUS
  <2>4. CASE to \in Locked
    <3>1. Holders' = Holders \cup {p}
      BY <1>3, <2>4
    <3>2. CASE p \in Holders
      <4>1. Cardinality(Holders') = Cardinality(Holders)
        BY <2>2, <3>1, <3>2
      <4> QED BY <1>4, <2>1, <2>4, <3>2, <4>1
    <3>3. CASE p \notin Holders
      <4>1. Cardinality(Holders') = Cardinality(Holders) + 1
        BY <2>1, <3>1, <3>3
      <4> QED BY <1>4, <2>1, <2>4, <3>3, <4>1
    <3> QED BY <3>2, <3>3
  <2>5. CASE to \notin Locked
    <3>1. Holders' = Holders \ {p}
      BY <1>3, <2>5
    <3>2. CASE p \in Holders
      <4>1. Cardinality(Holders') = Cardinality(Holders) - 1
        BY <2>1, <3>1, <3>2
      <4> QED BY <1>4, <2>1, <2>5, <3>2, <4>1
    <3>3. CASE p \notin Holders
      <4>1. Cardinality(Holders') = Cardinality(Holders)
        BY <2>3, <3>1, <3>3
      <4> QED BY <1>4, <2>1, <2>5, <3>3, <4>1
    <3> QED BY <3>2, <3>3
  <2> QED BY <2>4, <2>5
<1>6. Lost' = Lost
  BY DEF Lost
<1>7. /\ mutex + Cardinality(Holders) + Cardinality(Lost) = 1
      /\ Cardinality(Holders) \in Nat /\ Cardinality(Lost) \in Nat
  <2>1. IsFiniteSet(Lost)
    BY FS_Subset DEF Lost, LockInv, Types
  <2> QED BY <1>2, <2>1, FS_CardinalityType DEF LockInv, LockAccounted, Holders
<1>8. mutex' + Cardinality(Holders') + Cardinality(Lost') = 1
  BY <1>5, <1>6, <1>7 DEF LockInv, Types
<1> QED BY <1>1, <1>8 DEF LockInv, LockAccounted, Holders

\* A kill moves a holder to the killed; one without the lock changes no count.
LEMMA KillKeeps ==
  ASSUME LockInv, NEW p \in Processes, Kill(p)
  PROVE  LockInv'
<1>1. /\ step[p] \in Steps \ {"none", "ended"}
      /\ step' = [step EXCEPT ![p] = "ended"]
      /\ killed' = killed \cup {<<p, step[p]>>} /\ mutex' = mutex
  BY DEF Kill, Live, To, LockInv, Types
<1>2. <<p, step[p]>> \notin killed
  BY <1>1 DEF LockInv, KilledEnded
<1>3. Types'
  <2>1. IsFiniteSet(killed')
    BY <1>1, FS_AddElement DEF LockInv, Types
  <2> QED BY <1>1, <2>1 DEF LockInv, Types, Steps
<1>4. KilledEnded'
  BY <1>1 DEF LockInv, Types, KilledEnded
<1>5. IsFiniteSet(Holders) /\ IsFiniteSet(Lost)
  BY ProcessesFinite, FS_Subset DEF Holders, Lost, LockInv, Types
<1>6. mutex + Cardinality(Holders) + Cardinality(Lost) = 1
  BY DEF LockInv, LockAccounted, Holders
<1>7. mutex' + Cardinality(Holders') + Cardinality(Lost') = 1
  <2>1. CASE step[p] \in Locked
    <3>1. Holders' = Holders \ {p} /\ p \in Holders
      BY <1>1, <2>1 DEF Holders, LockInv, Types, Locked
    <3>2. Lost' = Lost \cup {<<p, step[p]>>} /\ <<p, step[p]>> \notin Lost
      BY <1>1, <1>2, <2>1 DEF Lost
    <3>3. /\ Cardinality(Holders') = Cardinality(Holders) - 1 /\ Cardinality(Holders) \in Nat
          /\ Cardinality(Lost') = Cardinality(Lost) + 1 /\ Cardinality(Lost) \in Nat
      <4> HIDE DEF Holders, Lost
      <4> QED BY <1>5, <3>1, <3>2, Holding
    <3> QED BY <1>1, <1>6, <3>3 DEF LockInv, Types
  <2>2. CASE step[p] \notin Locked
    <3>1. Holders' = Holders
      BY <1>1, <2>2 DEF Holders, LockInv, Types, Locked
    <3>2. Lost' = Lost
      BY <1>1, <2>2 DEF Lost
    <3> QED BY <1>1, <1>6, <3>1, <3>2
  <2> QED BY <2>1, <2>2
<1> QED BY <1>3, <1>4, <1>7 DEF LockInv, LockAccounted, Holders

\* At the start the lock is free.
LEMMA InitLock == Init => LockInv
<1> SUFFICES ASSUME Init PROVE LockInv
  OBVIOUS
<1>1. Types
  BY FS_EmptySet DEF Init, Types, Steps
<1>2. Holders = {} /\ Lost = {} /\ KilledEnded
  BY DEF Init, Holders, Lost, Locked, KilledEnded
<1>3. LockAccounted
  <2>1. Cardinality(Holders) = 0 /\ Cardinality(Lost) = 0
    BY <1>2, FS_EmptySet
  <2>2. mutex + Cardinality(Holders) + Cardinality(Lost) = 1
    BY <2>1 DEF Init
  <2> QED BY <2>2 DEF LockAccounted, Holders
<1> QED BY <1>1, <1>2, <1>3 DEF LockInv

\* Every step keeps the account of the lock.
LEMMA NextLock == LockInv /\ [Next]_vars => LockInv'
<1> SUFFICES ASSUME LockInv, [Next]_vars PROVE LockInv'
  OBVIOUS
<1>1. CASE UNCHANGED vars
  BY <1>1 DEF vars, LockInv, Types, KilledEnded, LockAccounted, Lost
<1>2. ASSUME NEW p \in Processes, Kill(p) PROVE LockInv'
  BY <1>2, KillKeeps
<1>3. ASSUME NEW p \in Processes, Begin(p) PROVE LockInv'
  BY <1>3 DEF Begin, LockInv, Types, KilledEnded, LockAccounted, Lost
<1>4. ASSUME NEW p \in Processes, Lock(p) PROVE LockInv'
  <2>1. "head" \in Steps /\ step[p] = "idle" /\ step' = [step EXCEPT ![p] = "head"]
        /\ UNCHANGED killed /\ mutex' = mutex - 1 /\ mutex' \in Nat
    BY <1>4 DEF Lock, To, Steps, LockInv, Types
  <2>2. mutex' = mutex + (IF step[p] \in Locked THEN 1 ELSE 0) - (IF "head" \in Locked THEN 1 ELSE 0)
    BY <2>1 DEF Locked, LockInv, Types
  <2>3. step[p] # "ended"
    BY <2>1
  <2> QED BY <2>1, <2>2, <2>3, StepKeeps
<1>5. ASSUME NEW p \in Processes, Put(p) PROVE LockInv'
  <2>1. PICK to \in {"text", "flush"} : step' = [step EXCEPT ![p] = to]
    BY <1>5 DEF Put, To
  <2>2. step[p] \in {"head", "text"} /\ UNCHANGED <<mutex, killed>> /\ to \in Steps /\ mutex \in Nat
    BY <1>5, <2>1 DEF Put, Steps, LockInv, Types
  <2>3. mutex' = mutex + (IF step[p] \in Locked THEN 1 ELSE 0) - (IF to \in Locked THEN 1 ELSE 0) /\ mutex' \in Nat /\ step[p] # "ended"
    BY <2>1, <2>2 DEF Locked
  <2> QED BY <2>1, <2>2, <2>3, StepKeeps
<1>6. ASSUME NEW p \in Processes, Flush(p) PROVE LockInv'
  <2>1. "unlock" \in Steps /\ step[p] = "flush" /\ step' = [step EXCEPT ![p] = "unlock"]
        /\ UNCHANGED <<mutex, killed>> /\ mutex \in Nat
    BY <1>6 DEF Flush, To, Steps, LockInv, Types
  <2>2. mutex' = mutex + (IF step[p] \in Locked THEN 1 ELSE 0) - (IF "unlock" \in Locked THEN 1 ELSE 0) /\ mutex' \in Nat /\ step[p] # "ended"
    BY <2>1 DEF Locked
  <2> QED BY <2>1, <2>2, StepKeeps
<1>7. ASSUME NEW p \in Processes, Unlock(p) PROVE LockInv'
  <2>1. "idle" \in Steps /\ step[p] = "unlock" /\ step' = [step EXCEPT ![p] = "idle"]
        /\ UNCHANGED killed /\ mutex' = mutex + 1 /\ mutex \in Nat
    BY <1>7 DEF Unlock, To, Steps, LockInv, Types
  <2>2. mutex' = mutex + (IF step[p] \in Locked THEN 1 ELSE 0) - (IF "idle" \in Locked THEN 1 ELSE 0) /\ mutex' \in Nat /\ step[p] # "ended"
    BY <2>1 DEF Locked
  <2> QED BY <2>1, <2>2, StepKeeps
<1>8. ASSUME NEW p \in Processes, Fork(p) PROVE LockInv'
  <2>1. PICK c \in Processes : step[c] = "none" /\ step' = [step EXCEPT ![c] = "idle"]
    BY <1>8 DEF Fork, To
  <2>2. "idle" \in Steps /\ UNCHANGED <<mutex, killed>> /\ mutex \in Nat
    BY <1>8 DEF Fork, Steps, LockInv, Types
  <2>3. mutex' = mutex + (IF step[c] \in Locked THEN 1 ELSE 0) - (IF "idle" \in Locked THEN 1 ELSE 0) /\ mutex' \in Nat /\ step[c] # "ended"
    BY <2>1, <2>2 DEF Locked
  <2> QED BY <2>1, <2>2, <2>3, StepKeeps
<1>9. ASSUME NEW p \in Processes, Exit(p) PROVE LockInv'
  <2>1. "ended" \in Steps /\ step[p] = "idle" /\ step' = [step EXCEPT ![p] = "ended"]
        /\ UNCHANGED <<mutex, killed>> /\ mutex \in Nat
    BY <1>9 DEF Exit, To, Steps, LockInv, Types
  <2>2. mutex' = mutex + (IF step[p] \in Locked THEN 1 ELSE 0) - (IF "ended" \in Locked THEN 1 ELSE 0) /\ mutex' \in Nat /\ step[p] # "ended"
    BY <2>1 DEF Locked
  <2> QED BY <2>1, <2>2, StepKeeps
<1> QED BY <1>1, <1>2, <1>3, <1>4, <1>5, <1>6, <1>7, <1>8, <1>9 DEF Next, Work

(* debug.c:28-41.  The lock is free, or one live process has it, or a      *)
(* process was killed with it, for any number of processes and kills.      *)
THEOREM LockNeverDoubled == Spec => []LockAccounted
<1>1. LockInv => LockAccounted
  BY DEF LockInv
<1> QED BY InitLock, NextLock, <1>1, PTL DEF Spec

-----------------------------------------------------------------------------
\* The text of one stream.
Pieces == [by : Processes, message : Nat, piece : {"head", "text"}]
Whole(f) ==
  \A k \in 1 .. Len(f) :
    /\ \A j \in 1 .. Len(f) : f[j] = f[k] => j = k
    /\ IF f[k].piece = "head"
       THEN k < Len(f) => f[k + 1] = [f[k] EXCEPT !.piece = "text"]
       ELSE k > 1 /\ f[k - 1] = [f[k] EXCEPT !.piece = "head"]
Complete(f) == f # <<>> => f[Len(f)].piece = "text"

\* The next message begins behind a whole one.
LEMMA HeadAdded ==
  ASSUME NEW f \in Seq(Pieces), NEW h \in Pieces, h.piece = "head",
         Whole(f), Complete(f), \A k \in 1 .. Len(f) : f[k] # h
  PROVE  Whole(Append(f, h))
<1> DEFINE g == Append(f, h)
           n == Len(f)
<1>1. /\ g \in Seq(Pieces) /\ Len(g) = n + 1 /\ g[n + 1] = h /\ n \in Nat
      /\ \A k \in 1 .. n : g[k] = f[k] /\ f[k] \in Pieces
  OBVIOUS
<1> HIDE DEF g
<1>2. ASSUME NEW k \in 1 .. n + 1, NEW j \in 1 .. n + 1, g[j] = g[k] PROVE j = k
  <2>1. (j \in 1 .. n \/ j = n + 1) /\ (k \in 1 .. n \/ k = n + 1)
    BY <1>1
  <2>2. CASE j \in 1 .. n /\ k \in 1 .. n
    <3>1. f[j] = f[k]
      BY <1>1, <1>2, <2>2
    <3> QED BY <2>2, <3>1 DEF Whole
  <2>3. CASE j = n + 1 /\ k \in 1 .. n
    BY <1>1, <1>2, <2>3
  <2>4. CASE k = n + 1 /\ j \in 1 .. n
    BY <1>1, <1>2, <2>4
  <2> QED BY <2>1, <2>2, <2>3, <2>4
<1>3. ASSUME NEW k \in 1 .. n
      PROVE  IF g[k].piece = "head"
             THEN k < n + 1 => g[k + 1] = [g[k] EXCEPT !.piece = "text"]
             ELSE k > 1 /\ g[k - 1] = [g[k] EXCEPT !.piece = "head"]
  <2>1. IF f[k].piece = "head" THEN k < n => f[k + 1] = [f[k] EXCEPT !.piece = "text"]
        ELSE k > 1 /\ f[k - 1] = [f[k] EXCEPT !.piece = "head"]
    BY DEF Whole
  <2>2. f[k].piece = "head" => k < n
    <3>1. f # <<>>
      BY <1>1
    <3> QED BY <1>1, <3>1 DEF Complete
  <2>3. k < n => g[k + 1] = f[k + 1]
    BY <1>1
  <2>4. k > 1 => g[k - 1] = f[k - 1]
    BY <1>1
  <2>5. g[k] = f[k]
    BY <1>1
  <2> QED BY <2>1, <2>2, <2>3, <2>4, <2>5
<1>4. \A k \in 1 .. n + 1 : k \in 1 .. n \/ k = n + 1
  BY <1>1
<1>5. Whole(g)
  BY <1>1, <1>2, <1>3, <1>4 DEF Whole
<1> QED BY <1>5 DEF g

\* The text comes behind its head.
LEMMA TextAdded ==
  ASSUME NEW f \in Seq(Pieces), NEW h \in Pieces, NEW t \in Pieces,
         h.piece = "head", t = [h EXCEPT !.piece = "text"],
         Whole(f), f # <<>>, f[Len(f)] = h
  PROVE  Whole(Append(f, t))
<1> DEFINE g == Append(f, t)
           n == Len(f)
<1>1. /\ g \in Seq(Pieces) /\ Len(g) = n + 1 /\ g[n + 1] = t /\ n \in Nat \ {0}
      /\ \A k \in 1 .. n : g[k] = f[k] /\ f[k] \in Pieces
  BY EmptySeq
<1>2. h = [t EXCEPT !.piece = "head"] /\ t.piece = "text"
  BY DEF Pieces
<1>3. ASSUME NEW k \in 1 .. n, f[k] = t PROVE FALSE
  <2>1. k > 1 /\ f[k - 1] = h
    BY <1>2, <1>3 DEF Whole
  <2>2. k - 1 \in 1 .. n /\ n \in 1 .. n /\ k - 1 # n
    BY <1>1, <2>1
  <2> QED BY <2>1, <2>2 DEF Whole
<1> HIDE DEF g
<1>4. ASSUME NEW k \in 1 .. n + 1, NEW j \in 1 .. n + 1, g[j] = g[k] PROVE j = k
  <2>1. (j \in 1 .. n \/ j = n + 1) /\ (k \in 1 .. n \/ k = n + 1)
    BY <1>1
  <2>2. CASE j \in 1 .. n /\ k \in 1 .. n
    BY <1>1, <1>4, <2>2 DEF Whole
  <2>3. CASE j = n + 1 /\ k \in 1 .. n
    BY <1>1, <1>3, <1>4, <2>3
  <2>4. CASE k = n + 1 /\ j \in 1 .. n
    BY <1>1, <1>3, <1>4, <2>4
  <2> QED BY <2>1, <2>2, <2>3, <2>4
<1>5. ASSUME NEW k \in 1 .. n
      PROVE  IF g[k].piece = "head"
             THEN k < n + 1 => g[k + 1] = [g[k] EXCEPT !.piece = "text"]
             ELSE k > 1 /\ g[k - 1] = [g[k] EXCEPT !.piece = "head"]
  <2>1. IF f[k].piece = "head" THEN k < n => f[k + 1] = [f[k] EXCEPT !.piece = "text"]
        ELSE k > 1 /\ f[k - 1] = [f[k] EXCEPT !.piece = "head"]
    BY DEF Whole
  <2>2. k < n => g[k + 1] = f[k + 1]
    BY <1>1
  <2>3. k > 1 => g[k - 1] = f[k - 1]
    BY <1>1
  <2>4. g[k] = f[k]
    BY <1>1
  <2>5. k = n \/ k < n
    BY <1>1
  <2>6. CASE k = n
    BY <1>1, <2>1, <2>3, <2>4, <2>6
  <2>7. CASE k < n
    BY <2>1, <2>2, <2>3, <2>4, <2>7
  <2> QED BY <2>5, <2>6, <2>7
<1>6. n + 1 > 1 /\ g[n + 1 - 1] = [g[n + 1] EXCEPT !.piece = "head"] /\ g[n + 1].piece # "head"
  <2>1. n + 1 - 1 = n /\ n \in 1 .. n
    BY <1>1
  <2> QED BY <1>1, <1>2, <2>1
<1>7. \A k \in 1 .. n + 1 : k \in 1 .. n \/ k = n + 1
  BY <1>1
<1>8. Whole(g)
  <2>1. ASSUME NEW k \in 1 .. n + 1
        PROVE  IF g[k].piece = "head"
               THEN k < n + 1 => g[k + 1] = [g[k] EXCEPT !.piece = "text"]
               ELSE k > 1 /\ g[k - 1] = [g[k] EXCEPT !.piece = "head"]
    <3>1. CASE k = n + 1
      BY <1>6, <3>1
    <3>2. CASE k \in 1 .. n
      BY <1>5, <3>2
    <3> QED BY <1>7, <3>1, <3>2
  <2> QED BY <1>1, <1>4, <2>1 DEF Whole
<1> QED BY <1>8 DEF g

\* Appending to the end of a concatenation.
LEMMA ConcatAppend ==
  ASSUME NEW f \in Seq(Pieces), NEW b \in Seq(Pieces), NEW t \in Pieces
  PROVE  Append(b, t) \in Seq(Pieces) /\ f \o Append(b, t) = Append(f \o b, t)
<1>1. /\ Append(b, t) = b \o <<t>> /\ Append(f \o b, t) = (f \o b) \o <<t>>
      /\ f \o b \in Seq(Pieces) /\ <<t>> \in Seq(Pieces)
  BY ConcatProperties, AppendIsConcat
<1>2. (f \o b) \o <<t>> = f \o (b \o <<t>>)
  BY <1>1, ConcatAssociative
<1> QED BY <1>1, <1>2

\* What has left the buffers is the beginning of what was written.
LEMMA Spilled ==
  ASSUME NEW f \in Seq(Pieces), NEW all \in Seq(Pieces), NEW k \in 0 .. Len(all)
  PROVE  LET front == f \o SubSeq(all, 1, k)
             rest == SubSeq(all, k + 1, Len(all))
         IN /\ front \in Seq(Pieces) /\ rest \in Seq(Pieces)
            /\ Len(front) <= Len(f \o all) /\ \A i \in 1 .. Len(front) : front[i] = (f \o all)[i]
            /\ front \o rest = f \o all
            /\ k = Len(all) => rest = <<>>
<1> DEFINE a == SubSeq(all, 1, k)
           b == SubSeq(all, k + 1, Len(all))
<1>1. Len(all) \in Nat /\ k \in Nat /\ Len(f) \in Nat
  OBVIOUS
<1>2. a \in Seq(Pieces) /\ Len(a) = k /\ \A i \in 1 .. k : a[i] = all[i]
  <2>1. \A i \in 1 .. k : all[i] \in Pieces
    BY <1>1
  <2> QED BY <1>1, <2>1, SubSeqProperties
<1>3. b \in Seq(Pieces) /\ Len(b) = Len(all) - k /\ \A i \in 1 .. Len(all) - k : b[i] = all[k + i]
  <2>1. \A i \in k + 1 .. Len(all) : all[i] \in Pieces
    BY <1>1
  <2> QED BY <1>1, <2>1, SubSeqProperties
<1> HIDE DEF a, b
<1>4. k = Len(all) => b = <<>>
  BY <1>1, <1>3, EmptySeq
<1>5. /\ f \o a \in Seq(Pieces) /\ Len(f \o a) = Len(f) + k
      /\ \A i \in 1 .. Len(f) + k : (f \o a)[i] = IF i <= Len(f) THEN f[i] ELSE all[i - Len(f)]
  <2>1. \A i \in 1 .. Len(f) + k : i > Len(f) => i - Len(f) \in 1 .. k
    BY <1>1
  <2>2. /\ f \o a \in Seq(Pieces) /\ Len(f \o a) = Len(f) + k
        /\ \A i \in 1 .. Len(f) + k : (f \o a)[i] = IF i <= Len(f) THEN f[i] ELSE a[i - Len(f)]
    BY <1>2, ConcatProperties
  <2>3. ASSUME NEW i \in 1 .. Len(f) + k
        PROVE  (f \o a)[i] = IF i <= Len(f) THEN f[i] ELSE all[i - Len(f)]
    BY <1>1, <1>2, <2>1, <2>2
  <2> QED BY <2>2, <2>3
<1>6. /\ f \o all \in Seq(Pieces) /\ Len(f \o all) = Len(f) + Len(all)
      /\ \A i \in 1 .. Len(f) + Len(all) : (f \o all)[i] = IF i <= Len(f) THEN f[i] ELSE all[i - Len(f)]
  BY ConcatProperties
<1> DEFINE c == f \o a
           d == f \o all
<1> HIDE DEF c, d
<1>7. c \in Seq(Pieces) /\ Len(c) = Len(f) + k /\ d \in Seq(Pieces) /\ Len(d) = Len(f) + Len(all)
      /\ \A i \in 1 .. Len(f) + k : c[i] = d[i]
  BY <1>1, <1>5, <1>6 DEF c, d
<1>8. c \o b = d
  <2>1. c \o b \in Seq(Pieces) /\ Len(c \o b) = Len(d)
    <3>1. c \o b \in Seq(Pieces) /\ Len(c \o b) = Len(c) + Len(b)
      BY <1>3, <1>7, ConcatProperties
    <3> QED BY <1>1, <1>3, <1>7, <3>1
  <2>0. \A i \in 1 .. Len(c) + Len(b) : (c \o b)[i] = IF i <= Len(c) THEN c[i] ELSE b[i - Len(c)]
    BY <1>3, <1>7, ConcatProperties, SMTT(30)
  <2>2. ASSUME NEW i \in 1 .. Len(d) PROVE (c \o b)[i] = d[i]
    <3>1. CASE i <= Len(c)
      BY <1>1, <1>3, <1>7, <2>0, <3>1
    <3>2. CASE i > Len(c)
      <4>1. i - Len(c) \in 1 .. Len(all) - k /\ k + (i - Len(c)) = i - Len(f) /\ i > Len(f)
        BY <1>1, <1>7, <3>2
      <4>2. (c \o b)[i] = b[i - Len(c)]
        BY <1>1, <1>3, <1>7, <2>0, <3>2, SMTT(30)
      <4>3. d[i] = all[i - Len(f)]
        BY <1>1, <1>6, <1>7, <4>1 DEF d
      <4>4. b[i - Len(c)] = all[k + (i - Len(c))]
        BY <1>3, <4>1
      <4> QED BY <4>1, <4>2, <4>3, <4>4
    <3>3. i <= Len(c) \/ i > Len(c)
      BY <1>1, <1>7
    <3> QED BY <3>1, <3>2, <3>3
  <2> QED BY <1>7, <2>1, <2>2, SeqEqual
<1>9. Len(c) <= Len(d) /\ \A i \in 1 .. Len(c) : c[i] = d[i]
  BY <1>1, <1>7
<1>10. LET front == f \o SubSeq(all, 1, k) IN front = c
  BY DEF a, c
<1> QED BY <1>3, <1>4, <1>7, <1>8, <1>9 DEF a, b, c, d

\* The beginning of whole messages is whole but for its last one.
LEMMA WholePrefix ==
  ASSUME NEW f \in Seq(Pieces), NEW g \in Seq(Pieces), Whole(g),
         Len(f) <= Len(g), \A i \in 1 .. Len(f) : f[i] = g[i]
  PROVE  Whole(f)
<1>1. Len(f) \in Nat /\ Len(g) \in Nat
  OBVIOUS
<1>2. SUFFICES ASSUME NEW k \in 1 .. Len(f)
      PROVE  /\ \A j \in 1 .. Len(f) : f[j] = f[k] => j = k
             /\ IF f[k].piece = "head"
                THEN k < Len(f) => f[k + 1] = [f[k] EXCEPT !.piece = "text"]
                ELSE k > 1 /\ f[k - 1] = [f[k] EXCEPT !.piece = "head"]
  BY DEF Whole
<1>3. k \in 1 .. Len(g) /\ f[k] = g[k]
  BY <1>1
<1>4. /\ \A j \in 1 .. Len(g) : g[j] = g[k] => j = k
      /\ IF g[k].piece = "head"
         THEN k < Len(g) => g[k + 1] = [g[k] EXCEPT !.piece = "text"]
         ELSE k > 1 /\ g[k - 1] = [g[k] EXCEPT !.piece = "head"]
  BY <1>3 DEF Whole
<1>5. ASSUME NEW j \in 1 .. Len(f), f[j] = f[k] PROVE j = k
  BY <1>1, <1>3, <1>4, <1>5
<1>6. k < Len(f) => f[k + 1] = g[k + 1] /\ k < Len(g)
  BY <1>1
<1>7. k > 1 => f[k - 1] = g[k - 1]
  BY <1>1
<1> QED BY <1>3, <1>4, <1>5, <1>6, <1>7

-----------------------------------------------------------------------------
\* What a process that has the lock is writing, and what it has written of it.
TextSoFar(p) == file[Head(todo[p])] \o buffer[p][Head(todo[p])]
AtWork(p) == step[p] \in {"text", "flush"}

TextTypes ==
  /\ todo \in [Processes -> Seq(Streams \cup {"exit"})]
  /\ sent \in [Processes -> Nat]
  /\ buffer \in [Processes -> [Streams -> Seq(Pieces)]]
  /\ file \in [Streams -> Seq(Pieces)]
  /\ \A p \in Processes : step[p] \in Locked => todo[p] # <<>> /\ Head(todo[p]) \in Streams

\* Text waits in a buffer only inside a message.
Flushed ==
  \A p \in Processes : \A s \in Streams :
    buffer[p][s] # <<>> => AtWork(p) /\ s = Head(todo[p])

\* A message that has not begun is in no file.
Known(f) == \A k \in 1 .. Len(f) : f[k].message <= sent[f[k].by]
Numbered ==
  /\ \A s \in Streams : \A k \in 1 .. Len(file[s]) :
       LET w == file[s][k]
       IN  w.message <= sent[w.by] /\ (step[w.by] = "head" => w.message # sent[w.by])
  /\ \A p \in Processes : AtWork(p) => Known(TextSoFar(p))

\* The message at work is the last of its stream; every other stream ends with a
\* whole message, unless one was cut off.
Ordered ==
  /\ \A s \in Streams : Whole(file[s])
  /\ \A p \in Processes : AtWork(p) =>
       /\ Whole(TextSoFar(p)) /\ TextSoFar(p) # <<>>
       /\ TextSoFar(p)[Len(TextSoFar(p))] =
            [by |-> p, message |-> sent[p], piece |-> IF step[p] = "text" THEN "head" ELSE "text"]
  /\ Lost = {} => \A s \in Streams :
       (\A p \in Processes : AtWork(p) => Head(todo[p]) # s) => Complete(file[s])

TextInv == LockInv /\ TextTypes /\ Flushed /\ Numbered /\ Ordered

\* One process has the lock, and only as long as none was killed with it.
LEMMA Exclusive ==
  ASSUME LockInv
  PROVE  /\ \A p, q \in Processes : step[p] \in Locked /\ step[q] \in Locked => p = q
         /\ \A p \in Processes : step[p] \in Locked => Lost = {}
         /\ mutex > 0 => Lost = {} /\ \A p \in Processes : step[p] \notin Locked
<1>1. IsFiniteSet(Holders) /\ IsFiniteSet(Lost)
  BY ProcessesFinite, FS_Subset DEF Holders, Lost, LockInv, Types
<1>2. mutex + Cardinality(Holders) + Cardinality(Lost) = 1 /\ mutex \in Nat
  BY DEF LockInv, LockAccounted, Holders, Types
<1>3. Cardinality(Holders) \in Nat /\ Cardinality(Lost) \in Nat
  BY <1>1, FS_CardinalityType
<1>4. /\ Cardinality(Holders) = 0 => Holders = {}
      /\ Cardinality(Lost) = 0 => Lost = {}
      /\ Cardinality(Holders) = 1 => \E x : Holders = {x}
  BY <1>1, FS_EmptySet, FS_Singleton
<1>5. \A p \in Processes : step[p] \in Locked <=> p \in Holders
  BY DEF Holders
<1> HIDE DEF Holders
<1>6. CASE Cardinality(Holders) = 0
  <2>1. Cardinality(Lost) = 0 \/ mutex = 0
    BY <1>2, <1>3, <1>6
  <2> QED BY <1>2, <1>4, <1>5, <1>6, <2>1
<1>7. CASE Cardinality(Holders) # 0
  <2>1. Cardinality(Holders) = 1 /\ Cardinality(Lost) = 0 /\ mutex = 0
    BY <1>2, <1>3, <1>7
  <2> QED BY <1>4, <1>5, <2>1
<1> QED BY <1>6, <1>7

\* At the start nothing is written.
LEMMA InitText == Init => TextInv
<1> SUFFICES ASSUME Init PROVE TextInv
  OBVIOUS
<1>1. LockInv /\ (\A p \in Processes : step[p] \in {"idle", "none"})
  BY InitLock DEF Init
<1>2. \A p \in Processes : ~AtWork(p) /\ step[p] \notin Locked
  BY <1>1 DEF AtWork, Locked
<1>3. /\ file = [s \in Streams |-> <<>>] /\ buffer = [p \in Processes |-> [s \in Streams |-> <<>>]]
      /\ todo = [p \in Processes |-> <<>>] /\ sent = [p \in Processes |-> 0]
  BY DEF Init, NoText
<1>4. \A s \in Streams : file[s] = <<>> /\ Whole(file[s]) /\ Complete(file[s])
  BY <1>3 DEF Whole, Complete
<1>5. TextTypes
  <2>1. <<>> \in Seq(Pieces) /\ <<>> \in Seq(Streams \cup {"exit"})
    OBVIOUS
  <2> QED BY <1>2, <1>3, <2>1 DEF TextTypes
<1>6. Flushed
  BY <1>3 DEF Flushed
<1>7. Numbered
  BY <1>2, <1>4 DEF Numbered
<1>8. Ordered
  BY <1>2, <1>4 DEF Ordered
<1> QED BY <1>1, <1>5, <1>6, <1>7, <1>8 DEF TextInv

\* The number of a new piece is known.
LEMMA KnownAdded ==
  ASSUME NEW f \in Seq(Pieces), Known(f), NEW t \in Pieces, t.message <= sent[t.by]
  PROVE  Known(Append(f, t))
<1>1. /\ Len(Append(f, t)) = Len(f) + 1 /\ Append(f, t)[Len(f) + 1] = t /\ Len(f) \in Nat
      /\ \A k \in 1 .. Len(f) : Append(f, t)[k] = f[k]
  OBVIOUS
<1>2. \A k \in 1 .. Len(f) + 1 : k = Len(f) + 1 \/ k \in 1 .. Len(f)
  BY <1>1
<1> QED BY <1>1, <1>2 DEF Known

\* What is written of the message at work.
LEMMA TextSoFarType ==
  ASSUME TextInv, NEW p \in Processes, step[p] \in Locked
  PROVE  /\ Head(todo[p]) \in Streams /\ file[Head(todo[p])] \in Seq(Pieces)
         /\ buffer[p][Head(todo[p])] \in Seq(Pieces) /\ TextSoFar(p) \in Seq(Pieces)
<1>1. Head(todo[p]) \in Streams
  BY DEF TextInv, TextTypes
<1>2. file[Head(todo[p])] \in Seq(Pieces) /\ buffer[p][Head(todo[p])] \in Seq(Pieces)
  BY <1>1 DEF TextInv, TextTypes
<1> QED BY <1>1, <1>2, ConcatProperties DEF TextSoFar

\* Who holds the lock is at work or about to be.
LEMMA WorkLocked == \A p \in Processes : AtWork(p) => step[p] \in Locked
BY DEF AtWork, Locked

\* A step that writes nothing and keeps the message at work.
LEMMA TextKept ==
  ASSUME TextInv, LockInv', TextTypes', UNCHANGED file,
         \A p \in Processes : AtWork(p)' <=> AtWork(p),
         \A p \in Processes : AtWork(p) =>
           step'[p] = step[p] /\ sent'[p] = sent[p] /\ Head(todo'[p]) = Head(todo[p]) /\ buffer'[p] = buffer[p],
         \A p \in Processes : ~AtWork(p) => buffer'[p] = NoText,
         \A p \in Processes : sent[p] <= sent'[p],
         \A p \in Processes : step'[p] = "head" => step[p] = "head" \/ sent[p] < sent'[p],
         Lost \subseteq Lost'
  PROVE  TextInv'
<1>1. Flushed'
  <2>1. ASSUME NEW p \in Processes, NEW s \in Streams, buffer'[p][s] # <<>>
        PROVE  AtWork(p)' /\ s = Head(todo'[p])
    <3>1. AtWork(p)
      BY <2>1 DEF NoText
    <3> QED BY <2>1, <3>1 DEF TextInv, Flushed
  <2> QED BY <2>1 DEF Flushed
<1>2. Numbered'
  <2>1. ASSUME NEW s \in Streams, NEW k \in 1 .. Len(file[s]), NEW w, w = file[s][k]
        PROVE  w.message <= sent'[w.by] /\ (step'[w.by] = "head" => w.message # sent'[w.by])
    <3>1. w \in Pieces
      BY <2>1 DEF TextInv, TextTypes
    <3>2. w.message \in Nat /\ w.by \in Processes
      BY <3>1 DEF Pieces
    <3>3. w.message <= sent[w.by] /\ (step[w.by] = "head" => w.message # sent[w.by])
      BY <2>1 DEF TextInv, Numbered
    <3>4. sent[w.by] \in Nat /\ sent'[w.by] \in Nat
      BY <3>2 DEF TextInv, TextTypes
    <3>5. sent[w.by] <= sent'[w.by] /\ (step'[w.by] = "head" => step[w.by] = "head" \/ sent[w.by] < sent'[w.by])
      BY <3>2
    <3> QED BY <3>2, <3>3, <3>4, <3>5
  <2>2. ASSUME NEW p \in Processes, AtWork(p)' PROVE Known(TextSoFar(p))'
    <3>1. AtWork(p) /\ Known(TextSoFar(p)) /\ TextSoFar(p)' = TextSoFar(p) /\ TextSoFar(p) \in Seq(Pieces)
      BY <2>2, TextSoFarType, WorkLocked DEF TextInv, Numbered, TextSoFar
    <3>2. ASSUME NEW k \in 1 .. Len(TextSoFar(p)), NEW w, w = TextSoFar(p)[k] PROVE w.message <= sent'[w.by]
      <4>0. w \in Pieces
        BY <3>1, <3>2
      <4>1. w.message \in Nat /\ w.by \in Processes
        BY <4>0 DEF Pieces
      <4>2. sent[w.by] \in Nat /\ sent'[w.by] \in Nat /\ sent[w.by] <= sent'[w.by]
        BY <4>1 DEF TextInv, TextTypes
      <4>3. w.message <= sent[w.by]
        BY <3>1, <3>2 DEF Known
      <4> QED BY <4>1, <4>2, <4>3
    <3> QED BY <3>1, <3>2 DEF Known
  <2> QED BY <2>1, <2>2 DEF Numbered
<1>3. Ordered'
  <2>1. \A p \in Processes : AtWork(p) => TextSoFar(p)' = TextSoFar(p)
    BY DEF TextSoFar
  <2>2. ASSUME NEW p \in Processes, AtWork(p)'
        PROVE  /\ Whole(TextSoFar(p)') /\ TextSoFar(p)' # <<>>
               /\ TextSoFar(p)'[Len(TextSoFar(p)')] =
                    [by |-> p, message |-> sent'[p], piece |-> IF step'[p] = "text" THEN "head" ELSE "text"]
    BY <2>1, <2>2 DEF TextInv, Ordered
  <2>3. ASSUME Lost' = {}, NEW s \in Streams, \A p \in Processes : AtWork(p)' => Head(todo'[p]) # s
        PROVE  Complete(file[s])
    BY <2>3 DEF TextInv, Ordered
  <2>4. \A s \in Streams : Whole(file'[s])
    BY DEF TextInv, Ordered
  <2> QED BY <2>2, <2>3, <2>4 DEF Ordered
<1> QED BY <1>1, <1>2, <1>3 DEF TextInv

-----------------------------------------------------------------------------
\* Outside a message nothing waits in the buffers of a process.
LEMMA IdleEmpty ==
  ASSUME TextInv, NEW p \in Processes, ~AtWork(p)
  PROVE  buffer[p] = NoText /\ \A s \in Streams : buffer[p][s] = <<>>
<1>1. \A s \in Streams : buffer[p][s] = <<>>
  BY DEF TextInv, Flushed
<1>2. buffer[p] \in [Streams -> Seq(Pieces)]
  BY DEF TextInv, TextTypes
<1> QED BY <1>1, <1>2 DEF NoText

\* The macro of the next message is chosen.
LEMMA BeginText == ASSUME TextInv, NEW p \in Processes, Begin(p), LockInv' PROVE TextInv'
<1>1. PICK m \in Macros : todo' = [todo EXCEPT ![p] = IF Head(m) = "log" /\ ~debugging THEN Tail(m) ELSE m]
  BY DEF Begin
<1>2. UNCHANGED <<debugging, mutex, step, sent, buffer, file, parent, killed>> /\ step[p] = "idle"
  BY DEF Begin, Idle
<1>3. m \in Seq(Streams \cup {"exit"})
  <2>1. {"log", "stdout", "exit"} \subseteq Streams \cup {"exit"}
    BY DEF Streams
  <2> DEFINE S == Streams \cup {"exit"}
  <2>2. "log" \in S /\ "stdout" \in S /\ "exit" \in S
    BY <2>1
  <2> HIDE DEF S
  <2>3. <<"log">> \in Seq(S) /\ <<"stdout">> \in Seq(S) /\ <<"log", "stdout">> \in Seq(S)
        /\ <<"log", "stdout", "exit">> \in Seq(S)
    BY <2>2
  <2>4. m \in Seq(S)
    BY <2>3 DEF Macros
  <2> QED BY <2>4 DEF S
<1>4. (IF Head(m) = "log" /\ ~debugging THEN Tail(m) ELSE m) \in Seq(Streams \cup {"exit"})
  BY <1>3 DEF Macros
<1>5. TextTypes'
  BY <1>1, <1>2, <1>4 DEF TextInv, TextTypes, Locked
<1>6. \A q \in Processes : AtWork(q) => q # p
  BY <1>2 DEF AtWork
<1>7. \A q \in Processes : AtWork(q) => todo'[q] = todo[q]
  BY <1>1, <1>6 DEF TextInv, TextTypes
<1>8. \A q \in Processes : (AtWork(q)' <=> AtWork(q)) /\ sent[q] <= sent'[q]
  BY <1>2 DEF AtWork, TextInv, TextTypes
<1>9. Lost' = Lost
  BY <1>2 DEF Lost
<1> QED BY <1>2, <1>5, <1>7, <1>8, <1>9, IdleEmpty, TextKept

\* The lock is taken for a message that is nowhere yet.
LEMMA LockText == ASSUME TextInv, NEW p \in Processes, Lock(p), LockInv' PROVE TextInv'
<1>1. /\ step[p] = "idle" /\ step' = [step EXCEPT ![p] = "head"] /\ sent' = [sent EXCEPT ![p] = @ + 1]
      /\ UNCHANGED <<debugging, todo, buffer, file, parent, killed>>
      /\ todo[p] # <<>> /\ Head(todo[p]) \in Streams
  BY DEF Lock, To
<1>2. step \in [Processes -> Steps] /\ sent \in [Processes -> Nat]
  BY DEF TextInv, LockInv, Types, TextTypes
<1>3. /\ \A q \in Processes : q # p => step'[q] = step[q] /\ sent'[q] = sent[q]
      /\ step'[p] = "head" /\ sent'[p] = sent[p] + 1 /\ sent' \in [Processes -> Nat]
  BY <1>1, <1>2
<1>4. \A q \in Processes : AtWork(q)' <=> AtWork(q)
  BY <1>1, <1>3 DEF AtWork
<1>5. \A q \in Processes : AtWork(q) => step'[q] = step[q] /\ sent'[q] = sent[q]
  BY <1>1, <1>3 DEF AtWork
<1>6. TextTypes'
  BY <1>1, <1>3 DEF TextInv, TextTypes
<1>7. \A q \in Processes : sent[q] <= sent'[q] /\ (step'[q] = "head" => step[q] = "head" \/ sent[q] < sent'[q])
  <2>1. \A q \in Processes : sent[q] \in Nat
    BY <1>2
  <2> QED BY <1>3, <2>1
<1>8. Lost' = Lost
  BY <1>1 DEF Lost
<1> QED BY <1>1, <1>4, <1>5, <1>6, <1>7, <1>8, IdleEmpty, TextKept

\* The lock is given back behind a whole message.
LEMMA UnlockText == ASSUME TextInv, NEW p \in Processes, Unlock(p), LockInv' PROVE TextInv'
<1>1. /\ step[p] = "unlock" /\ step' = [step EXCEPT ![p] = "idle"] /\ todo' = [todo EXCEPT ![p] = Tail(@)]
      /\ UNCHANGED <<debugging, sent, buffer, file, parent, killed>>
  BY DEF Unlock, To
<1>2. step \in [Processes -> Steps] /\ todo \in [Processes -> Seq(Streams \cup {"exit"})]
  BY DEF TextInv, LockInv, Types, TextTypes
<1>3. \A q \in Processes : q # p => step'[q] = step[q] /\ todo'[q] = todo[q]
  BY <1>1, <1>2
<1>4. \A q \in Processes : (AtWork(q)' <=> AtWork(q)) /\ (AtWork(q) => q # p)
  BY <1>1, <1>2 DEF AtWork
<1>5. TextTypes'
  <2>1. todo[p] # <<>>
    BY <1>1 DEF TextInv, TextTypes, Locked
  <2>2. Tail(todo[p]) \in Seq(Streams \cup {"exit"})
    BY <1>2, <2>1
  <2>3. \A q \in Processes : step'[q] \in Locked => step[q] \in Locked /\ q # p
    BY <1>1, <1>2 DEF Locked
  <2>4. todo' \in [Processes -> Seq(Streams \cup {"exit"})]
    BY <1>1, <1>2, <2>2
  <2>5. \A q \in Processes : step'[q] \in Locked => todo'[q] # <<>> /\ Head(todo'[q]) \in Streams
    BY <1>3, <2>3 DEF TextInv, TextTypes
  <2> QED BY <1>1, <2>4, <2>5 DEF TextInv, TextTypes
<1>6. \A q \in Processes : sent[q] <= sent'[q] /\ (step'[q] = "head" => step[q] = "head")
  BY <1>1, <1>2 DEF TextInv, TextTypes
<1>7. Lost' = Lost
  BY <1>1 DEF Lost
<1> QED BY <1>1, <1>3, <1>4, <1>5, <1>6, <1>7, IdleEmpty, TextKept

\* A child gets empty buffers.
LEMMA ForkText == ASSUME TextInv, NEW p \in Processes, Fork(p), LockInv' PROVE TextInv'
<1>1. PICK c \in Processes : step[c] = "none" /\ step' = [step EXCEPT ![c] = "idle"]
                             /\ buffer' = [buffer EXCEPT ![c] = buffer[p]]
  BY DEF Fork, To
<1>2. UNCHANGED <<debugging, mutex, todo, sent, file, killed>> /\ step[p] = "idle"
  BY DEF Fork, Idle
<1>3. /\ step \in [Processes -> Steps] /\ buffer \in [Processes -> [Streams -> Seq(Pieces)]]
  BY DEF TextInv, LockInv, Types, TextTypes
<1>4. buffer[p] = NoText
  BY <1>2, IdleEmpty DEF AtWork
<1>5. \A q \in Processes : q # c => step'[q] = step[q] /\ buffer'[q] = buffer[q]
  BY <1>1, <1>3
<1>6. step'[c] = "idle" /\ buffer'[c] = NoText
  BY <1>1, <1>3, <1>4
<1>7. \A q \in Processes : (AtWork(q)' <=> AtWork(q)) /\ (AtWork(q) => q # c)
  BY <1>1, <1>5, <1>6 DEF AtWork
<1>8. TextTypes'
  <2>1. buffer' \in [Processes -> [Streams -> Seq(Pieces)]]
    BY <1>1, <1>3
  <2>2. \A q \in Processes : step'[q] \in Locked => step[q] \in Locked
    BY <1>5, <1>6 DEF Locked
  <2> QED BY <1>2, <2>1, <2>2 DEF TextInv, TextTypes
<1>9. \A q \in Processes : ~AtWork(q) => buffer'[q] = NoText
  BY <1>5, <1>6, IdleEmpty
<1>10. \A q \in Processes : sent[q] <= sent'[q] /\ (step'[q] = "head" => step[q] = "head")
  <2>1. \A q \in Processes : sent[q] \in Nat /\ sent'[q] = sent[q]
    BY <1>2 DEF TextInv, TextTypes
  <2> QED BY <1>5, <1>6, <2>1
<1>11. Lost' = Lost
  BY <1>2 DEF Lost
<1> QED BY <1>2, <1>5, <1>7, <1>8, <1>9, <1>10, <1>11, TextKept

\* Nothing is left to write at the exit.
LEMMA ExitText == ASSUME TextInv, NEW p \in Processes, Exit(p), LockInv' PROVE TextInv'
<1>1. /\ step[p] = "idle" /\ step' = [step EXCEPT ![p] = "ended"] /\ todo' = [todo EXCEPT ![p] = <<>>]
      /\ buffer' = [buffer EXCEPT ![p] = NoText] /\ file' = [s \in Streams |-> file[s] \o buffer[p][s]]
      /\ UNCHANGED <<debugging, mutex, sent, parent, killed>>
  BY DEF Exit, To
<1>2. /\ step \in [Processes -> Steps] /\ todo \in [Processes -> Seq(Streams \cup {"exit"})]
      /\ buffer \in [Processes -> [Streams -> Seq(Pieces)]] /\ file \in [Streams -> Seq(Pieces)]
  BY DEF TextInv, LockInv, Types, TextTypes
<1>3. file' = file
  <2>1. \A s \in Streams : buffer[p][s] = <<>>
    BY <1>1, IdleEmpty DEF AtWork
  <2>2. \A s \in Streams : file[s] \o <<>> = file[s]
    BY <1>2, ConcatEmptySeq
  <2> QED BY <1>1, <1>2, <2>1, <2>2
<1>4. \A q \in Processes : q # p => step'[q] = step[q] /\ todo'[q] = todo[q] /\ buffer'[q] = buffer[q]
  BY <1>1, <1>2
<1>5. step'[p] = "ended" /\ todo'[p] = <<>> /\ buffer'[p] = NoText
  BY <1>1, <1>2
<1>6. \A q \in Processes : (AtWork(q)' <=> AtWork(q)) /\ (AtWork(q) => q # p)
  BY <1>1, <1>4, <1>5 DEF AtWork
<1>7. TextTypes'
  <2>1. NoText \in [Streams -> Seq(Pieces)]
    BY DEF NoText
  <2>2. buffer' \in [Processes -> [Streams -> Seq(Pieces)]]
    BY <1>1, <1>2, <2>1
  <2>3. todo' \in [Processes -> Seq(Streams \cup {"exit"})]
    <3>1. <<>> \in Seq(Streams \cup {"exit"})
      OBVIOUS
    <3> QED BY <1>1, <1>2, <3>1
  <2>4. \A q \in Processes : step'[q] \in Locked => step[q] \in Locked /\ q # p
    BY <1>4, <1>5 DEF Locked
  <2>5. \A q \in Processes : step'[q] \in Locked => todo'[q] # <<>> /\ Head(todo'[q]) \in Streams
    BY <1>4, <2>4 DEF TextInv, TextTypes
  <2> QED BY <1>1, <1>3, <2>2, <2>3, <2>5 DEF TextInv, TextTypes
<1>8. \A q \in Processes : ~AtWork(q) => buffer'[q] = NoText
  BY <1>4, <1>5, IdleEmpty
<1>9. \A q \in Processes : sent[q] <= sent'[q] /\ (step'[q] = "head" => step[q] = "head")
  BY <1>1, <1>4, <1>5 DEF TextInv, TextTypes
<1>10. Lost' = Lost
  BY <1>1 DEF Lost
<1> QED BY <1>1, <1>3, <1>4, <1>6, <1>7, <1>8, <1>9, <1>10, TextKept

\* A kill inside a message cuts the last text of its file off.
LEMMA KillText == ASSUME TextInv, NEW p \in Processes, Kill(p), LockInv' PROVE TextInv'
<1>1. /\ killed' = killed \cup {<<p, step[p]>>} /\ step' = [step EXCEPT ![p] = "ended"]
      /\ todo' = [todo EXCEPT ![p] = <<>>] /\ buffer' = [buffer EXCEPT ![p] = NoText]
      /\ UNCHANGED <<debugging, mutex, sent, file, parent>>
  BY DEF Kill, To
<1>2. /\ step \in [Processes -> Steps] /\ todo \in [Processes -> Seq(Streams \cup {"exit"})]
      /\ buffer \in [Processes -> [Streams -> Seq(Pieces)]]
  BY DEF TextInv, LockInv, Types, TextTypes
<1>3. \A q \in Processes : q # p => step'[q] = step[q] /\ todo'[q] = todo[q] /\ buffer'[q] = buffer[q]
  BY <1>1, <1>2
<1>4. step'[p] = "ended" /\ todo'[p] = <<>> /\ buffer'[p] = NoText /\ \A s \in Streams : buffer'[p][s] = <<>>
  BY <1>1, <1>2 DEF NoText
<1>5. \A q \in Processes : AtWork(q)' <=> AtWork(q) /\ q # p
  BY <1>3, <1>4 DEF AtWork
<1>6. TextTypes'
  <2>1. NoText \in [Streams -> Seq(Pieces)]
    BY DEF NoText
  <2>2. buffer' \in [Processes -> [Streams -> Seq(Pieces)]]
    BY <1>1, <1>2, <2>1
  <2>3. todo' \in [Processes -> Seq(Streams \cup {"exit"})]
    <3>1. <<>> \in Seq(Streams \cup {"exit"})
      OBVIOUS
    <3> QED BY <1>1, <1>2, <3>1
  <2>4. \A q \in Processes : step'[q] \in Locked => step[q] \in Locked /\ q # p
    BY <1>3, <1>4 DEF Locked
  <2>5. \A q \in Processes : step'[q] \in Locked => todo'[q] # <<>> /\ Head(todo'[q]) \in Streams
    BY <1>3, <2>4 DEF TextInv, TextTypes
  <2> QED BY <1>1, <2>2, <2>3, <2>5 DEF TextInv, TextTypes
<1>7. Flushed'
  <2>1. ASSUME NEW q \in Processes, NEW s \in Streams, buffer'[q][s] # <<>>
        PROVE  AtWork(q)' /\ s = Head(todo'[q])
    <3>1. q # p
      BY <1>4, <2>1
    <3> QED BY <1>3, <1>5, <2>1, <3>1 DEF TextInv, Flushed
  <2> QED BY <2>1 DEF Flushed
<1>8. Numbered'
  <2>1. ASSUME NEW s \in Streams, NEW k \in 1 .. Len(file[s])
        PROVE  LET w == file[s][k]
               IN  w.message <= sent[w.by] /\ (step'[w.by] = "head" => w.message # sent[w.by])
    <3>1. file[s][k] \in Pieces
      BY DEF TextInv, TextTypes
    <3>2. file[s][k].by \in Processes
      BY <3>1 DEF Pieces
    <3>3. step'[file[s][k].by] = "head" => step[file[s][k].by] = "head"
      BY <1>3, <1>4, <3>2
    <3> QED BY <3>3 DEF TextInv, Numbered
  <2>2. ASSUME NEW q \in Processes, AtWork(q)' PROVE Known(TextSoFar(q))'
    <3>1. AtWork(q) /\ Known(TextSoFar(q)) /\ TextSoFar(q)' = TextSoFar(q) /\ sent' = sent
      BY <1>1, <1>3, <1>5, <2>2 DEF TextInv, Numbered, TextSoFar
    <3> QED BY <3>1 DEF Known
  <2> QED BY <1>1, <2>1, <2>2 DEF Numbered
<1>9. Ordered'
  <2>1. ASSUME NEW q \in Processes, AtWork(q)'
        PROVE  /\ TextSoFar(q)' = TextSoFar(q) /\ step'[q] = step[q] /\ sent'[q] = sent[q] /\ AtWork(q)
    BY <1>1, <1>3, <1>5, <2>1 DEF TextSoFar
  <2>2. ASSUME NEW q \in Processes, AtWork(q)'
        PROVE  /\ Whole(TextSoFar(q)') /\ TextSoFar(q)' # <<>>
               /\ TextSoFar(q)'[Len(TextSoFar(q)')] =
                    [by |-> q, message |-> sent'[q], piece |-> IF step'[q] = "text" THEN "head" ELSE "text"]
    BY <2>1, <2>2 DEF TextInv, Ordered
  <2>3. ASSUME Lost' = {}, NEW s \in Streams, \A q \in Processes : AtWork(q)' => Head(todo'[q]) # s
        PROVE  Complete(file[s])
    <3>1. Lost = {} /\ step[p] \notin Locked
      <4>1. Lost \subseteq Lost'
        BY <1>1 DEF Lost
      <4>2. <<p, step[p]>> \in killed' /\ <<p, step[p]>>[2] = step[p]
        BY <1>1
      <4>3. step[p] \in Locked => <<p, step[p]>> \in Lost'
        BY <4>2 DEF Lost
      <4> QED BY <2>3, <4>1, <4>3
    <3>2. ~AtWork(p)
      BY <3>1, WorkLocked
    <3> QED BY <1>3, <1>5, <2>3, <3>1, <3>2 DEF TextInv, Ordered
  <2>4. \A s \in Streams : Whole(file'[s])
    BY <1>1 DEF TextInv, Ordered
  <2> QED BY <1>1, <2>2, <2>3, <2>4 DEF Ordered
<1> QED BY <1>6, <1>7, <1>8, <1>9 DEF TextInv

\* Only the process that has the lock may have begun a message.
LEMMA OneAtWork ==
  ASSUME TextInv, NEW p \in Processes, step[p] \in Locked
  PROVE  Lost = {} /\ \A q \in Processes : q # p => step[q] \notin Locked /\ ~AtWork(q)
<1>1. LockInv
  BY DEF TextInv
<1> QED BY <1>1, Exclusive, WorkLocked

\* With the next piece what is written is still whole messages but for the last.
LEMMA PieceAdded ==
  ASSUME TextInv, NEW p \in Processes, step[p] \in {"head", "text"}
  PROVE  LET t == [by |-> p, message |-> sent[p], piece |-> step[p]]
         IN /\ t \in Pieces /\ TextSoFar(p) \in Seq(Pieces) /\ Whole(Append(TextSoFar(p), t))
            /\ Known(Append(TextSoFar(p), t))
<1> DEFINE t == [by |-> p, message |-> sent[p], piece |-> step[p]]
           s == Head(todo[p])
<1>1. step[p] \in Locked /\ sent[p] \in Nat
  BY DEF Locked, TextInv, TextTypes
<1>2. s \in Streams /\ file[s] \in Seq(Pieces) /\ buffer[p][s] \in Seq(Pieces) /\ TextSoFar(p) \in Seq(Pieces)
  BY <1>1, TextSoFarType
<1>3. t \in Pieces
  BY <1>1 DEF Pieces
<1>4. t.by = p /\ t.message = sent[p] /\ t.piece = step[p]
  OBVIOUS
<1>5. CASE step[p] = "head"
  <2>1. buffer[p][s] = <<>>
    BY <1>2, <1>5, IdleEmpty DEF AtWork
  <2>2. TextSoFar(p) = file[s]
    BY <1>2, <2>1, ConcatEmptySeq DEF TextSoFar
  <2>3. Complete(file[s])
    <3>1. \A q \in Processes : ~AtWork(q)
      BY <1>1, <1>5, OneAtWork DEF AtWork
    <3> QED BY <1>1, <1>2, <3>1, OneAtWork DEF TextInv, Ordered
  <2>4. Whole(file[s])
    BY <1>2 DEF TextInv, Ordered
  <2>5. \A k \in 1 .. Len(file[s]) : file[s][k] # t
    BY <1>2, <1>4, <1>5 DEF TextInv, Numbered
  <2>6. Known(TextSoFar(p))
    BY <1>2, <2>2 DEF TextInv, Numbered, Known
  <2> HIDE DEF t, s
  <2>7. Whole(Append(TextSoFar(p), t))
    BY <1>2, <1>3, <1>4, <1>5, <2>2, <2>3, <2>4, <2>5, HeadAdded
  <2> QED BY <1>1, <1>2, <1>3, <1>4, <2>6, <2>7, KnownAdded DEF t
<1>6. CASE step[p] = "text"
  <2> DEFINE h == [by |-> p, message |-> sent[p], piece |-> "head"]
  <2>1. AtWork(p)
    BY <1>6 DEF AtWork
  <2>2. /\ Whole(TextSoFar(p)) /\ TextSoFar(p) # <<>> /\ TextSoFar(p)[Len(TextSoFar(p))] = h
    BY <1>6, <2>1 DEF TextInv, Ordered
  <2>3. Known(TextSoFar(p))
    BY <2>1 DEF TextInv, Numbered
  <2>4. h \in Pieces /\ h.piece = "head" /\ t = [h EXCEPT !.piece = "text"]
    BY <1>1, <1>6 DEF Pieces
  <2> HIDE DEF t, h
  <2>5. Whole(Append(TextSoFar(p), t))
    BY <1>2, <1>3, <2>2, <2>4, TextAdded
  <2> QED BY <1>1, <1>2, <1>3, <1>4, <2>3, <2>5, KnownAdded DEF t
<1> QED BY <1>5, <1>6

\* A piece of the message leaves stdio or waits in the buffer.
LEMMA PutText == ASSUME TextInv, NEW p \in Processes, Put(p), LockInv' PROVE TextInv'
<1> DEFINE t == [by |-> p, message |-> sent[p], piece |-> step[p]]
           s == Head(todo[p])
           all == Append(buffer[p][s], t)
           new == Append(TextSoFar(p), t)
<1>1. /\ step[p] \in {"head", "text"} /\ UNCHANGED <<debugging, mutex, todo, sent, parent, killed>>
      /\ step' = [step EXCEPT ![p] = IF step[p] = "head" THEN "text" ELSE "flush"]
  BY DEF Put, To
<1>2. PICK k \in 0 .. Len(all) :
        /\ file' = [file EXCEPT ![s] = @ \o SubSeq(all, 1, k)]
        /\ buffer' = [buffer EXCEPT ![p][s] = SubSeq(all, k + 1, Len(all))]
  BY DEF Put, Spill
<1>3. /\ step \in [Processes -> Steps] /\ buffer \in [Processes -> [Streams -> Seq(Pieces)]]
      /\ file \in [Streams -> Seq(Pieces)] /\ sent \in [Processes -> Nat]
  BY DEF TextInv, LockInv, Types, TextTypes
<1>4. step[p] \in Locked
  BY <1>1 DEF Locked
<1>5. s \in Streams /\ file[s] \in Seq(Pieces) /\ buffer[p][s] \in Seq(Pieces)
  BY <1>4, TextSoFarType
<1>6. t \in Pieces /\ TextSoFar(p) \in Seq(Pieces) /\ Whole(new) /\ Known(new)
  BY <1>1, PieceAdded
<1>7. TextSoFar(p) = file[s] \o buffer[p][s]
  BY DEF TextSoFar
<1>8. all \in Seq(Pieces) /\ file[s] \o all = new
  <2> DEFINE f == file[s]
             b == buffer[p][s]
  <2> HIDE DEF f, b, t
  <2>1. f \in Seq(Pieces) /\ b \in Seq(Pieces) /\ t \in Pieces
    BY <1>5, <1>6 DEF f, b
  <2>2. Append(b, t) \in Seq(Pieces) /\ f \o Append(b, t) = Append(f \o b, t)
    BY ONLY <2>1, ConcatAppend
  <2> QED BY <1>7, <2>2 DEF f, b
<1> DEFINE front == file[s] \o SubSeq(all, 1, k)
           rest == SubSeq(all, k + 1, Len(all))
<1>9. /\ front \in Seq(Pieces) /\ rest \in Seq(Pieces)
      /\ Len(front) <= Len(new) /\ \A i \in 1 .. Len(front) : front[i] = new[i]
      /\ front \o rest = new
  <2> HIDE DEF s, all, new
  <2>1. /\ front \in Seq(Pieces) /\ rest \in Seq(Pieces)
        /\ Len(front) <= Len(file[s] \o all) /\ \A i \in 1 .. Len(front) : front[i] = (file[s] \o all)[i]
        /\ front \o rest = file[s] \o all
    BY <1>5, <1>8, Spilled
  <2> QED BY <1>8, <2>1
<1>10. new \in Seq(Pieces) /\ new # <<>> /\ new[Len(new)] = t
  BY <1>6
<1>11. Whole(front) /\ Known(front)
  <2> HIDE DEF front, new
  <2>1. Whole(front)
    BY <1>6, <1>9, <1>10, WholePrefix
  <2>2. \A i \in 1 .. Len(front) : i \in 1 .. Len(new)
    <3>1. Len(front) \in Nat /\ Len(new) \in Nat /\ Len(front) <= Len(new)
      BY <1>9, <1>10, LenProperties
    <3> QED BY <3>1
  <2>3. Known(front)
    BY <1>6, <1>9, <2>2 DEF Known
  <2> QED BY <2>1, <2>3
<1>12. /\ file'[s] = front /\ \A r \in Streams : r # s => file'[r] = file[r]
       /\ file' \in [Streams -> Seq(Pieces)]
  BY <1>2, <1>3, <1>5, <1>9
<1>13. /\ buffer'[p][s] = rest /\ (\A r \in Streams : r # s => buffer'[p][r] = buffer[p][r])
       /\ (\A q \in Processes : q # p => buffer'[q] = buffer[q])
       /\ buffer' \in [Processes -> [Streams -> Seq(Pieces)]]
  <2> HIDE DEF rest
  <2>1. buffer' = [buffer EXCEPT ![p][s] = rest]
    BY <1>2 DEF rest
  <2> QED BY <1>3, <1>5, <1>9, <2>1
<1>14. /\ step'[p] = IF step[p] = "head" THEN "text" ELSE "flush"
       /\ \A q \in Processes : q # p => step'[q] = step[q]
  BY <1>1, <1>3
<1>15. /\ Lost = {} /\ AtWork(p)' /\ step'[p] # "head"
       /\ \A q \in Processes : q # p => step[q] \notin Locked /\ ~AtWork(q) /\ ~AtWork(q)' /\ step'[q] # "head"
  <2>1. Lost = {} /\ \A q \in Processes : q # p => step[q] \notin Locked /\ ~AtWork(q)
    BY <1>4, OneAtWork
  <2>2. \A q \in Processes : q # p => ~AtWork(q)' /\ step'[q] # "head"
    BY <1>14, <2>1 DEF AtWork, Locked
  <2> QED BY <1>1, <1>14, <2>1, <2>2 DEF AtWork
<1>16. TextSoFar(p)' = new
  BY <1>1, <1>9, <1>12, <1>13 DEF TextSoFar
<1>17. sent' = sent /\ todo' = todo /\ Lost' = Lost
  BY <1>1 DEF Lost
<1>18. new[Len(new)] = [by |-> p, message |-> sent[p], piece |-> IF step'[p] = "text" THEN "head" ELSE "text"]
  BY <1>1, <1>10, <1>14
<1> HIDE DEF t, s, all, new, front, rest
<1>19. TextTypes'
  <2>1. \A q \in Processes : step'[q] \in Locked => q = p
    BY <1>14, <1>15
  <2>2. todo[p] # <<>> /\ Head(todo[p]) \in Streams
    BY <1>4 DEF TextInv, TextTypes
  <2> QED BY <1>12, <1>13, <1>17, <2>1, <2>2 DEF TextInv, TextTypes
<1>20. Flushed'
  <2>1. ASSUME NEW q \in Processes, NEW r \in Streams, buffer'[q][r] # <<>>
        PROVE  AtWork(q)' /\ r = Head(todo[q])
    <3>1. q = p
      <4>1. SUFFICES ASSUME q # p PROVE FALSE
        OBVIOUS
      <4> QED BY <1>13, <1>15, <2>1, <4>1, IdleEmpty, SMTT(30)
    <3>2. r = s
      <4>1. SUFFICES ASSUME r # s PROVE FALSE
        OBVIOUS
      <4>2. buffer[p][r] # <<>>
        BY <1>13, <2>1, <3>1, <4>1
      <4> QED BY <4>1, <4>2 DEF TextInv, Flushed, s
    <3> QED BY <1>15, <3>1, <3>2 DEF s
  <2> QED BY <1>17, <2>1 DEF Flushed
<1>21. Numbered'
  <2>1. ASSUME NEW r \in Streams, NEW i \in 1 .. Len(file'[r])
        PROVE  /\ file'[r][i].message <= sent[file'[r][i].by]
               /\ step'[file'[r][i].by] # "head"
    <3>1. file'[r][i].message <= sent[file'[r][i].by]
      <4>1. CASE r = s
        BY <1>11, <1>12, <2>1, <4>1 DEF Known
      <4>2. CASE r # s
        <5>1. file'[r] = file[r]
          BY <1>12, <4>2
        <5> QED BY <2>1, <5>1 DEF TextInv, Numbered
      <4> QED BY <4>1, <4>2
    <3>2. file'[r][i] \in Pieces
      BY <1>12, <2>1
    <3>3. file'[r][i].by \in Processes
      BY <3>2 DEF Pieces
    <3> QED BY <1>15, <3>1, <3>3
  <2>2. ASSUME NEW q \in Processes, AtWork(q)' PROVE Known(TextSoFar(q))'
    <3>1. q = p
      BY <1>15, <2>2
    <3> QED BY <1>6, <1>16, <1>17, <3>1 DEF Known
  <2> QED BY <1>17, <2>1, <2>2 DEF Numbered
<1>22. Ordered'
  <2>1. \A r \in Streams : Whole(file'[r])
    BY <1>11, <1>12 DEF TextInv, Ordered
  <2>2. ASSUME NEW q \in Processes, AtWork(q)'
        PROVE  /\ Whole(TextSoFar(q)') /\ TextSoFar(q)' # <<>>
               /\ TextSoFar(q)'[Len(TextSoFar(q)')] =
                    [by |-> q, message |-> sent'[q], piece |-> IF step'[q] = "text" THEN "head" ELSE "text"]
    <3>1. q = p
      BY <1>15, <2>2
    <3> QED BY <1>6, <1>10, <1>16, <1>17, <1>18, <3>1
  <2>3. ASSUME NEW r \in Streams, \A q \in Processes : AtWork(q)' => Head(todo'[q]) # r
        PROVE  Complete(file'[r])
    <3>1. r # s
      BY <1>15, <1>17, <2>3 DEF s
    <3>2. \A q \in Processes : AtWork(q) => Head(todo[q]) # r
      BY <1>15, <3>1 DEF s
    <3>3. file'[r] = file[r]
      BY <1>12, <3>1
    <3> QED BY <1>15, <3>2, <3>3 DEF TextInv, Ordered
  <2> QED BY <2>1, <2>2, <2>3 DEF Ordered
<1> QED BY <1>19, <1>20, <1>21, <1>22 DEF TextInv

\* fflush completes the message.
LEMMA FlushText == ASSUME TextInv, NEW p \in Processes, Flush(p), LockInv' PROVE TextInv'
<1> DEFINE s == Head(todo[p])
           b == buffer[p][s]
<1>1. /\ step[p] = "flush" /\ UNCHANGED <<debugging, mutex, todo, sent, parent, killed>>
      /\ step' = [step EXCEPT ![p] = "unlock"]
      /\ file' = [file EXCEPT ![s] = @ \o SubSeq(b, 1, Len(b))]
      /\ buffer' = [buffer EXCEPT ![p][s] = SubSeq(b, Len(b) + 1, Len(b))]
  BY DEF Flush, To, Spill
<1>2. /\ step \in [Processes -> Steps] /\ buffer \in [Processes -> [Streams -> Seq(Pieces)]]
      /\ file \in [Streams -> Seq(Pieces)] /\ sent \in [Processes -> Nat]
  BY DEF TextInv, LockInv, Types, TextTypes
<1>3. step[p] \in Locked /\ AtWork(p)
  BY <1>1 DEF Locked, AtWork
<1>4. s \in Streams /\ file[s] \in Seq(Pieces) /\ b \in Seq(Pieces) /\ TextSoFar(p) \in Seq(Pieces)
  BY <1>3, TextSoFarType
<1> DEFINE front == file[s] \o SubSeq(b, 1, Len(b))
           rest == SubSeq(b, Len(b) + 1, Len(b))
<1>5. front = TextSoFar(p) /\ rest = <<>>
  <2>1. Len(b) \in 0 .. Len(b)
    BY <1>4
  <2>2. front \in Seq(Pieces) /\ rest = <<>> /\ front \o rest = file[s] \o b
    BY <1>4, <2>1, Spilled
  <2>3. front \o <<>> = front
    BY <2>2, ConcatEmptySeq
  <2> QED BY <2>2, <2>3 DEF TextSoFar
<1>6. /\ file'[s] = TextSoFar(p) /\ \A r \in Streams : r # s => file'[r] = file[r]
      /\ file' \in [Streams -> Seq(Pieces)]
  BY <1>1, <1>2, <1>4, <1>5
<1>7. /\ buffer'[p][s] = <<>> /\ (\A r \in Streams : r # s => buffer'[p][r] = buffer[p][r])
      /\ (\A q \in Processes : q # p => buffer'[q] = buffer[q])
      /\ buffer' \in [Processes -> [Streams -> Seq(Pieces)]]
  <2>1. buffer' = [buffer EXCEPT ![p][s] = <<>>] /\ <<>> \in Seq(Pieces)
    <3>1. buffer' = [buffer EXCEPT ![p][s] = rest] /\ rest = <<>>
      BY <1>1, <1>5
    <3> HIDE DEF b, front, rest, s
    <3>2. <<>> \in Seq(Pieces)
      OBVIOUS
    <3> QED BY <3>1, <3>2
  <2> HIDE DEF b, front, rest
  <2>2. buffer[p] \in [Streams -> Seq(Pieces)]
    BY <1>2
  <2>3. PICK c : c = [buffer[p] EXCEPT ![s] = <<>>]
    OBVIOUS
  <2>4. /\ c \in [Streams -> Seq(Pieces)] /\ c[s] = <<>>
        /\ \A r \in Streams : r # s => c[r] = buffer[p][r]
    BY <1>4, <2>1, <2>2, <2>3
  <2>5. buffer' = [buffer EXCEPT ![p] = c]
    BY <2>1, <2>3
  <2> QED BY <1>2, <2>4, <2>5
<1>8. step'[p] = "unlock" /\ \A q \in Processes : q # p => step'[q] = step[q]
  BY <1>1, <1>2
<1>9. /\ Lost = {}
      /\ \A q \in Processes : ~AtWork(q)' /\ step'[q] # "head"
      /\ \A q \in Processes : q # p => step[q] \notin Locked /\ ~AtWork(q)
  <2>1. Lost = {} /\ \A q \in Processes : q # p => step[q] \notin Locked /\ ~AtWork(q)
    BY <1>3, OneAtWork
  <2>2. \A q \in Processes : ~AtWork(q)' /\ step'[q] # "head"
    BY <1>8, <2>1 DEF AtWork, Locked
  <2> QED BY <2>1, <2>2
<1>10. sent' = sent /\ todo' = todo /\ Lost' = Lost
  BY <1>1 DEF Lost
<1>11. /\ Whole(TextSoFar(p)) /\ Known(TextSoFar(p)) /\ Complete(TextSoFar(p))
  <2>1. TextSoFar(p)[Len(TextSoFar(p))] = [by |-> p, message |-> sent[p], piece |-> "text"]
    <3>1. step[p] # "text"
      BY <1>1
    <3>2. TextSoFar(p)[Len(TextSoFar(p))] =
            [by |-> p, message |-> sent[p], piece |-> IF step[p] = "text" THEN "head" ELSE "text"]
      BY <1>3 DEF TextInv, Ordered
    <3> QED BY <3>1, <3>2
  <2>2. Complete(TextSoFar(p))
    BY <2>1 DEF Complete
  <2> QED BY <1>3, <2>2 DEF TextInv, Ordered, Numbered
<1> HIDE DEF s, b, front, rest
<1>12. TextTypes'
  <2>1. \A q \in Processes : step'[q] \in Locked => q = p
    BY <1>8, <1>9
  <2>2. todo[p] # <<>> /\ Head(todo[p]) \in Streams
    BY <1>3 DEF TextInv, TextTypes
  <2> QED BY <1>6, <1>7, <1>10, <2>1, <2>2 DEF TextInv, TextTypes
<1>13. Flushed'
  <2>1. ASSUME NEW q \in Processes, NEW r \in Streams PROVE buffer'[q][r] = <<>>
    <3>1. CASE q # p
      BY <1>7, <1>9, <3>1, IdleEmpty
    <3>2. CASE q = p /\ r # s
      BY <1>7, <3>2 DEF TextInv, Flushed, s
    <3>3. CASE q = p /\ r = s
      BY <1>7, <3>3
    <3> QED BY <3>1, <3>2, <3>3
  <2> QED BY <2>1 DEF Flushed
<1>14. Numbered'
  <2>1. ASSUME NEW r \in Streams, NEW i \in 1 .. Len(file'[r])
        PROVE  /\ file'[r][i].message <= sent[file'[r][i].by]
               /\ step'[file'[r][i].by] # "head"
    <3>1. file'[r][i].message <= sent[file'[r][i].by]
      <4>1. CASE r = s
        BY <1>6, <1>11, <2>1, <4>1 DEF Known
      <4>2. CASE r # s
        <5>1. file'[r] = file[r]
          BY <1>6, <4>2
        <5> QED BY <2>1, <5>1 DEF TextInv, Numbered
      <4> QED BY <4>1, <4>2
    <3>2. file'[r][i] \in Pieces
      BY <1>6, <2>1
    <3>3. file'[r][i].by \in Processes
      BY <3>2 DEF Pieces
    <3> QED BY <1>9, <3>1, <3>3
  <2> QED BY <1>9, <1>10, <2>1 DEF Numbered
<1>15. Ordered'
  <2>1. \A r \in Streams : Whole(file'[r])
    BY <1>6, <1>11 DEF TextInv, Ordered
  <2>2. ASSUME NEW r \in Streams PROVE Complete(file'[r])
    <3>1. CASE r = s
      BY <1>6, <1>11, <3>1
    <3>2. CASE r # s
      <4>1. \A q \in Processes : AtWork(q) => Head(todo[q]) # r
        BY <1>9, <3>2 DEF s
      <4>2. file'[r] = file[r]
        BY <1>6, <3>2
      <4> QED BY <1>9, <4>1, <4>2 DEF TextInv, Ordered
    <3> QED BY <3>1, <3>2
  <2> QED BY <1>9, <2>1, <2>2 DEF Ordered
<1> QED BY <1>12, <1>13, <1>14, <1>15 DEF TextInv

\* Every step keeps the messages whole.
LEMMA NextText == TextInv /\ [Next]_vars => TextInv'
<1> SUFFICES ASSUME TextInv, [Next]_vars PROVE TextInv'
  OBVIOUS
<1>1. LockInv'
  BY NextLock DEF TextInv
<1>2. CASE UNCHANGED vars
  BY <1>2 DEF vars, TextInv, LockInv, Types, KilledEnded, LockAccounted, TextTypes, Flushed, Numbered,
              Ordered, AtWork, TextSoFar, Known, Lost
<1>3. ASSUME NEW p \in Processes, Work(p) \/ Kill(p) PROVE TextInv'
  BY <1>1, <1>3, BeginText, LockText, PutText, FlushText, UnlockText, ForkText, ExitText, KillText DEF Work
<1> QED BY <1>2, <1>3 DEF Next

(* define.h:84-120, debug.c.  In the log and on standard output every      *)
(* message written under the lock is in one piece, there once, for any     *)
(* number of processes and messages, whoever forks or is killed.           *)
THEOREM MessagesNeverTorn == Spec => []MessagesWhole
<1>1. TextInv => MessagesWhole
  <2> SUFFICES ASSUME TextInv, NEW s \in Streams, NEW k \in DOMAIN file[s]
               PROVE  /\ \A j \in DOMAIN file[s] : file[s][j] = file[s][k] => j = k
                      /\ IF file[s][k].piece = "head"
                         THEN k < Len(file[s]) => file[s][k + 1] = [file[s][k] EXCEPT !.piece = "text"]
                         ELSE k > 1 /\ file[s][k - 1] = [file[s][k] EXCEPT !.piece = "head"]
    BY DEF MessagesWhole
  <2>1. DOMAIN file[s] = 1 .. Len(file[s])
    BY LenProperties DEF TextInv, TextTypes
  <2>2. Whole(file[s])
    BY DEF TextInv, Ordered
  <2> QED BY <2>1, <2>2 DEF Whole
<1> QED BY <1>1, InitText, NextText, PTL DEF Spec

-----------------------------------------------------------------------------
\* The open pst files.

Reopening == {"getcwd", "chdir", "fclose", "fopen", "back"}
HandleSteps == {"none", "start", "work", "read", "ended"} \cup Reopening
Calls == {"no", "getcwd", "chdir", "fopen", "back"}

HandleTypes ==
  /\ pc \in [Processes -> HandleSteps]
  /\ fp \in [Processes -> Processes \cup {Closed}]
  /\ offset \in [Processes -> Positions]
  /\ dir \in [Processes -> Int] /\ saved \in [Processes -> Int] /\ should \in [Processes -> Int]
  /\ failed \in [Processes -> Calls]
  /\ read \in [Processes -> [pos : Positions \cup {Start}, exposed : BOOLEAN]]

\* Processes are forked in the order of their numbers, a stream belongs to one
\* that is alive, and a file is reopened once.
InOrder ==
  /\ \A p, q \in Processes : pc[p] = "none" /\ p < q => pc[q] = "none"
  /\ \A p \in Processes : pc[p] \in {"none", "start", "ended"} => fp[p] = Closed
  /\ \A p \in Processes : pc[p] \notin {"work", "read", "ended"} => failed[p] = "no"

\* A description has one maker, who opens the file once; before that nobody has it.
OneMaker ==
  \A p, q \in Processes :
    pc[p] \in {"none", "start", "getcwd", "chdir", "fclose", "fopen"} => fp[q] # p

\* Whoever shares a description still has, or kept, the stream it was forked with.
Shared ==
  \A p, q \in Processes :
    p # q /\ fp[p] = fp[q] /\ fp[p] # Closed => Inherited(p) \/ Inherited(q)

\* A read that began undisturbed has its description to itself.
Alone ==
  \A p \in Processes : pc[p] = "read" /\ ~read[p].exposed =>
    /\ fp[p] # Closed
    /\ \A q \in Processes \ {p} : fp[q] # fp[p]
    /\ offset[fp[p]] = read[p].pos

\* Where a process is while it reopens the file, and when it does not.
Places ==
  \A p \in Processes :
    /\ pc[p] \in {"start", "getcwd", "chdir"} => dir[p] = should[p]
    /\ pc[p] \in {"chdir", "fclose", "fopen", "back"} => saved[p] = should[p]
    /\ pc[p] \in {"work", "read"} /\ dir[p] # should[p] => failed[p] \in {"fopen", "back"}

\* Who has no stream, but for the step in which it has none.
StreamsMade ==
  \A p \in Processes :
    pc[p] \in {"work", "read", "getcwd", "chdir", "fclose", "back"} /\ fp[p] = Closed
      => \E q \in 1 .. p : failed[q] = "fopen"

HandleInv ==
  HandleTypes /\ InOrder /\ OneMaker /\ Shared /\ Alone /\ Places /\ StreamsMade /\ misread = {}

\* Processes are numbers, and none is the closed stream.
LEMMA Numbers ==
  MaxProcesses \in Nat /\ 1 \in Processes /\ Closed \notin Processes /\ Processes \subseteq Nat
BY ProcessesAssumption DEF Processes, Closed

\* Before pst_open there is nothing that could be shared.
LEMMA InitHandle == ASSUME HandleInit PROVE HandleInv
<1>1. HandleTypes
  <2>1. /\ pc \in [Processes -> HandleSteps] /\ fp \in [Processes -> {Closed}]
        /\ failed \in [Processes -> Calls]
    BY DEF HandleInit, HandleSteps, Calls
  <2>2. offset \in [Processes -> Positions]
    BY DEF HandleInit
  <2>3. dir \in [Processes -> Int] /\ saved = dir /\ should = dir
    BY DEF HandleInit, Start
  <2>4. read \in [Processes -> [pos : Positions \cup {Start}, exposed : BOOLEAN]]
    BY DEF HandleInit, NoRead
  <2> QED BY <2>1, <2>2, <2>3, <2>4 DEF HandleTypes
<1>2. InOrder /\ OneMaker /\ Shared
  BY Numbers DEF HandleInit, InOrder, OneMaker, Shared, Processes
<1>3. \A p \in Processes : pc[p] \in {"start", "none"} /\ dir[p] = should[p]
  BY DEF HandleInit
<1>4. Alone /\ Places /\ StreamsMade /\ misread = {}
  BY <1>3 DEF HandleInit, Alone, Places, StreamsMade
<1> QED BY <1>1, <1>2, <1>4 DEF HandleInv

\* A process gets a description of its own: nobody has it yet.
LEMMA OpenedKeeps ==
  ASSUME HandleInv, NEW p \in Processes, NEW next \in {"work", "back"},
         pc[p] = (IF next = "work" THEN "start" ELSE "fopen"),
         pc' = [pc EXCEPT ![p] = next], Opened(p),
         UNCHANGED <<dir, saved, should, failed, reading>>
  PROVE  HandleInv'
<1> USE Numbers DEF HandleInv, reading
<1>1. PICK first \in Positions : offset' = [offset EXCEPT ![p] = first]
  BY DEF Opened
<1>2. fp' = [fp EXCEPT ![p] = p] /\ \A q \in Processes : fp[q] # p
  BY DEF Opened, OneMaker
<1>3. HandleTypes'
  BY <1>1, <1>2 DEF HandleTypes, HandleSteps, Reopening
<1>4. InOrder'
  BY <1>2 DEF InOrder, HandleTypes
<1>5. OneMaker'
  BY <1>2 DEF OneMaker, HandleTypes
<1>6. Shared'
  BY <1>2 DEF Shared, Inherited, HandleTypes
<1>7. Alone'
  BY <1>1, <1>2 DEF Alone, HandleTypes
<1>8. Places' /\ misread' = {}
  BY DEF Places, HandleTypes
<1>9. StreamsMade'
  BY <1>2 DEF StreamsMade, HandleTypes
<1> QED BY <1>3, <1>4, <1>5, <1>6, <1>7, <1>8, <1>9

LEMMA OpenKeeps == ASSUME HandleInv, Open PROVE HandleInv'
<1> USE Numbers DEF HandleInv, Open
<1>1. CASE Opened(1) /\ pc' = [pc EXCEPT ![1] = "work"]
  BY <1>1, OpenedKeeps
<1>2. CASE pc' = [pc EXCEPT ![1] = "ended"] /\ UNCHANGED <<fp, offset>>
  <2>1. HandleTypes' /\ InOrder' /\ OneMaker'
    BY <1>2 DEF HandleTypes, HandleSteps, InOrder, OneMaker, reading
  <2>2. Shared'
    BY <1>2 DEF HandleTypes, Shared, Inherited, InOrder
  <2>3. Alone' /\ StreamsMade'
    BY <1>2 DEF HandleTypes, Alone, StreamsMade, reading
  <2>4. Places' /\ misread' = {}
    BY <1>2 DEF HandleTypes, Places, reading
  <2> QED BY <2>1, <2>2, <2>3, <2>4
<1> QED BY <1>1, <1>2

\* Entering a folder changes the own directory only.
LEMMA EnterDirKeeps ==
  ASSUME HandleInv, NEW p \in Processes, EnterDir(p) PROVE HandleInv'
<1> USE Numbers DEF HandleInv, EnterDir, reading
<1>1. HandleTypes'
  BY DEF HandleTypes, Depths
<1>2. InOrder' /\ OneMaker' /\ StreamsMade' /\ misread' = {}
  BY DEF InOrder, OneMaker, StreamsMade
<1>3. Shared'
  BY DEF Shared, Inherited
<1>4. Alone'
  BY DEF Alone
<1>5. Places'
  BY DEF Places, HandleTypes
<1> QED BY <1>1, <1>2, <1>3, <1>4, <1>5

\* A read is undisturbed only if nobody shares the description.
LEMMA SeekKeeps ==
  ASSUME HandleInv, NEW p \in Processes, Seek(p) PROVE HandleInv'
<1> USE Numbers DEF HandleInv
<1>1. PICK pos \in Positions :
        /\ read' = [read EXCEPT ![p] =
             [pos |-> pos,
              exposed |-> fp[p] = Closed \/ \E q \in Sharing(p) : Inherited(p) \/ Inherited(q)]]
        /\ offset' = IF fp[p] = Closed THEN offset ELSE [offset EXCEPT ![fp[p]] = pos]
  BY DEF Seek
<1>2. /\ pc[p] = "work" /\ pc' = [pc EXCEPT ![p] = "read"]
      /\ UNCHANGED <<fp, cwd, dir, saved, should, failed, misread>>
  BY DEF Seek
<1>3. HandleTypes'
  BY <1>1, <1>2 DEF HandleTypes, HandleSteps
<1>4. InOrder' /\ OneMaker' /\ Places' /\ StreamsMade' /\ misread' = {}
  BY <1>2 DEF InOrder, OneMaker, Places, StreamsMade, HandleTypes
<1>5. Shared'
  BY <1>2 DEF Shared, Inherited, HandleTypes
<1>6. Alone'
  <2> SUFFICES ASSUME NEW r \in Processes, pc'[r] = "read", ~read'[r].exposed
               PROVE  /\ fp[r] # Closed
                      /\ \A q \in Processes \ {r} : fp[q] # fp[r]
                      /\ offset'[fp[r]] = read'[r].pos
    BY <1>2 DEF Alone
  <2>1. CASE r = p
    <3>1. fp[p] # Closed /\ ~\E q \in Sharing(p) : Inherited(p) \/ Inherited(q)
      BY <1>1, <2>1 DEF HandleTypes
    <3>2. ASSUME NEW q \in Processes \ {p}, fp[q] = fp[p] PROVE FALSE
      <4>1. Inherited(p) \/ Inherited(q)
        BY <3>1, <3>2 DEF Shared
      <4>2. q \in Sharing(p)
        BY <3>1, <3>2 DEF Sharing, InOrder
      <4> QED BY <3>1, <4>1, <4>2
    <3>3. offset'[fp[p]] = read'[p].pos
      BY <1>1, <3>1 DEF HandleTypes
    <3> QED BY <2>1, <3>1, <3>2, <3>3
  <2>2. CASE r # p
    <3>1. pc[r] = "read" /\ read'[r] = read[r]
      BY <1>1, <1>2, <2>2 DEF HandleTypes
    <3>2. fp[r] # Closed /\ (\A q \in Processes \ {r} : fp[q] # fp[r]) /\ offset[fp[r]] = read[r].pos
      BY <3>1 DEF Alone
    <3> QED BY <1>1, <2>2, <3>1, <3>2 DEF HandleTypes
  <2> QED BY <2>1, <2>2
<1> QED BY <1>3, <1>4, <1>5, <1>6

\* A read that had its description to itself gets its own position.
LEMMA ReadKeeps ==
  ASSUME HandleInv, NEW p \in Processes, Read(p) PROVE HandleInv'
<1> USE Numbers DEF HandleInv
<1>1. /\ pc[p] = "read" /\ pc' = [pc EXCEPT ![p] = "work"]
      /\ read' = [read EXCEPT ![p] = NoRead]
      /\ UNCHANGED <<fp, cwd, dir, saved, should, failed>>
  BY DEF Read
<1>2. misread' = {}
  BY DEF Read, Alone
<1>3. IF fp[p] = Closed THEN offset' = offset
      ELSE \E pos \in Positions : offset' = [offset EXCEPT ![fp[p]] = pos]
  BY DEF Read, Moved
<1>4. HandleTypes'
  BY <1>1, <1>3 DEF HandleTypes, HandleSteps, NoRead
<1>5. InOrder' /\ OneMaker' /\ Places' /\ StreamsMade'
  BY <1>1 DEF InOrder, OneMaker, Places, StreamsMade, HandleTypes
<1>6. Shared'
  BY <1>1 DEF Shared, Inherited, HandleTypes
<1>7. Alone'
  <2> SUFFICES ASSUME NEW r \in Processes, pc'[r] = "read", ~read'[r].exposed
               PROVE  /\ fp'[r] # Closed
                      /\ \A q \in Processes \ {r} : fp'[q] # fp'[r]
                      /\ offset'[fp'[r]] = read'[r].pos
    BY DEF Alone
  <2>1. r # p /\ pc[r] = "read" /\ read'[r] = read[r] /\ fp'[r] = fp[r] /\ ~read[r].exposed
    BY <1>1 DEF HandleTypes
  <2>2. /\ fp[r] # Closed /\ offset[fp[r]] = read[r].pos
        /\ \A q \in Processes \ {r} : fp[q] # fp[r]
    BY <2>1 DEF Alone
  <2>3. offset'[fp[r]] = offset[fp[r]]
    <3>1. CASE fp[p] = Closed
      BY <1>3, <3>1
    <3>2. CASE fp[p] # Closed
      <4>1. PICK pos \in Positions : offset' = [offset EXCEPT ![fp[p]] = pos]
        BY <1>3, <3>2
      <4>2. fp[p] # fp[r]
        BY <2>1, <2>2
      <4> QED BY <4>1, <4>2 DEF HandleTypes
    <3> QED BY <3>1, <3>2
  <2>4. \A q \in Processes \ {r} : fp'[q] # fp[r]
    BY <1>1, <2>2 DEF HandleTypes
  <2> QED BY <2>1, <2>2, <2>3, <2>4
<1> QED BY <1>2, <1>4, <1>5, <1>6, <1>7

\* A child starts with the stream and in the directory of its parent, who is not
\* in a read.
LEMMA ForkKeeps ==
  ASSUME HandleInv, NEW p \in Processes, ForkReader(p) PROVE HandleInv'
<1> USE Numbers DEF HandleInv
<1>1. PICK c \in Processes :
        /\ pc[p] = "work"
        /\ pc[c] = "none" /\ \A q \in 1 .. c - 1 : pc[q] # "none"
        /\ pc' = [pc EXCEPT ![c] = "getcwd"]
        /\ fp' = [fp EXCEPT ![c] = fp[p]]
        /\ dir' = [dir EXCEPT ![c] = dir[p]]
        /\ should' = [should EXCEPT ![c] = dir[p]]
        /\ UNCHANGED <<offset, cwd, saved, failed, read, misread>>
  BY DEF ForkReader, reading
<1>2. p < c
  BY <1>1 DEF InOrder
<1>3. HandleTypes'
  BY <1>1 DEF HandleTypes, HandleSteps, Reopening
<1>4. InOrder'
  <2>1. ASSUME NEW q \in Processes, NEW r \in Processes, pc'[q] = "none", q < r PROVE pc'[r] = "none"
    <3>1. pc[q] = "none" /\ q # c
      BY <1>1, <2>1 DEF HandleTypes
    <3>2. pc[r] = "none"
      BY <2>1, <3>1 DEF InOrder
    <3>3. r # c
      BY <1>1, <2>1, <3>1 DEF Processes
    <3> QED BY <1>1, <3>2, <3>3 DEF HandleTypes
  <2>2. \A q \in Processes : pc'[q] \in {"none", "start", "ended"} => fp'[q] = Closed
    BY <1>1 DEF InOrder, HandleTypes
  <2>3. \A q \in Processes : pc'[q] \notin {"work", "read", "ended"} => failed'[q] = "no"
    BY <1>1 DEF InOrder, HandleTypes
  <2> QED BY <2>1, <2>2, <2>3 DEF InOrder
<1>5. OneMaker'
  BY <1>1 DEF OneMaker, HandleTypes
<1>6. Shared'
  BY <1>1 DEF Shared, Inherited, HandleTypes
<1>7. Alone'
  BY <1>1 DEF Alone, HandleTypes
<1>8. Places' /\ misread' = {}
  BY <1>1 DEF Places, HandleTypes
<1>9. StreamsMade'
  <2> SUFFICES ASSUME NEW r \in Processes, fp'[r] = Closed,
                      pc'[r] \in {"work", "read", "getcwd", "chdir", "fclose", "back"}
               PROVE  \E q \in 1 .. r : failed[q] = "fopen"
    BY <1>1 DEF StreamsMade
  <2>1. CASE r # c
    BY <1>1, <2>1 DEF StreamsMade, HandleTypes
  <2>2. CASE r = c
    <3>1. PICK q \in 1 .. p : failed[q] = "fopen"
      BY <1>1, <2>2 DEF StreamsMade, HandleTypes
    <3>2. q \in 1 .. r
      BY <1>2, <2>2, <3>1
    <3> QED BY <3>1, <3>2
  <2> QED BY <2>1, <2>2
<1> QED BY <1>3, <1>4, <1>5, <1>6, <1>7, <1>8, <1>9

-----------------------------------------------------------------------------
(* pst_reopen.  A call that fails ends it; the stream is the inherited one *)
(* until fclose, and none between fclose and fopen.                        *)
LEMMA FailsKeeps ==
  ASSUME HandleInv, NEW p \in Processes,
         pc[p] \in {"getcwd", "chdir", "fopen", "back"}, Fails(p, pc[p]),
         UNCHANGED <<fp, offset, dir, should, reading>>,
         saved' \in [Processes -> Int], \A q \in Processes \ {p} : saved'[q] = saved[q]
  PROVE  HandleInv'
<1> USE Numbers DEF HandleInv, Fails, reading
<1>1. HandleTypes'
  BY DEF HandleTypes, HandleSteps, Calls
<1>2. InOrder' /\ OneMaker'
  BY DEF InOrder, OneMaker, HandleTypes
<1>3. Shared'
  BY DEF Shared, Inherited, InOrder, HandleTypes
<1>4. Alone'
  BY DEF Alone, HandleTypes
<1>5. Places' /\ misread' = {}
  BY DEF Places, HandleTypes
<1>6. StreamsMade'
  <2> SUFFICES ASSUME NEW r \in Processes, fp[r] = Closed,
                      pc'[r] \in {"work", "read", "getcwd", "chdir", "fclose", "back"}
               PROVE  \E q \in 1 .. r : failed'[q] = "fopen"
    BY DEF StreamsMade
  <2>1. CASE r = p /\ pc[p] = "fopen"
    <3>1. r \in 1 .. r /\ failed'[r] = "fopen"
      BY <2>1 DEF HandleTypes, Processes
    <3> QED BY <3>1
  <2>2. CASE r # p \/ pc[p] # "fopen"
    <3>1. PICK q \in 1 .. r : failed[q] = "fopen"
      BY <2>2 DEF StreamsMade, HandleTypes
    <3>2. q # p /\ q \in Processes
      BY <3>1 DEF InOrder, Processes
    <3>3. failed'[q] = "fopen"
      BY <3>1, <3>2 DEF HandleTypes
    <3> QED BY <3>1, <3>3
  <2> QED BY <2>1, <2>2
<1> QED BY <1>1, <1>2, <1>3, <1>4, <1>5, <1>6

\* pst_reopen notes where the process is.
LEMMA GetCwdKeeps ==
  ASSUME HandleInv, NEW p \in Processes, GetCwd(p) PROVE HandleInv'
<1>1. CASE Fails(p, "getcwd") /\ UNCHANGED saved
  BY <1>1, FailsKeeps DEF GetCwd, HandleInv, HandleTypes
<1>2. CASE Goes(p, "chdir") /\ saved' = [saved EXCEPT ![p] = dir[p]]
  <2> USE <1>2 DEF HandleInv, GetCwd, Goes, reading, HandleTypes
  <2>1. HandleTypes' /\ InOrder' /\ OneMaker'
    BY DEF HandleSteps, Reopening, InOrder, OneMaker
  <2>2. Shared' /\ Alone'
    BY DEF Shared, Inherited, Alone
  <2>3. Places' /\ StreamsMade' /\ misread' = {}
    BY DEF Places, StreamsMade
  <2> QED BY <2>1, <2>2, <2>3
<1> QED BY <1>1, <1>2 DEF GetCwd

\* It goes to the directory the file was opened in.
LEMMA ChDirKeeps ==
  ASSUME HandleInv, cwd \in Int, NEW p \in Processes, ChDir(p) PROVE HandleInv'
<1>1. CASE Fails(p, "chdir") /\ UNCHANGED dir
  BY <1>1, FailsKeeps DEF ChDir, HandleInv, HandleTypes
<1>2. CASE Goes(p, "fclose") /\ dir' = [dir EXCEPT ![p] = cwd]
  <2> USE <1>2 DEF HandleInv, ChDir, Goes, reading, HandleTypes
  <2>1. HandleTypes' /\ InOrder' /\ OneMaker'
    BY DEF HandleSteps, Reopening, InOrder, OneMaker
  <2>2. Shared' /\ Alone'
    BY DEF Shared, Inherited, Alone
  <2>3. Places' /\ StreamsMade' /\ misread' = {}
    BY DEF Places, StreamsMade
  <2> QED BY <2>1, <2>2, <2>3
<1> QED BY <1>1, <1>2 DEF ChDir

\* A process gives up its copy of a stream, between two steps or at its end.
LEMMA ClosedKeeps ==
  ASSUME HandleInv, NEW p \in Processes, NEW next \in {"fopen", "ended"},
         pc[p] = (IF next = "fopen" THEN "fclose" ELSE "work"),
         pc' = [pc EXCEPT ![p] = next], fp' = [fp EXCEPT ![p] = Closed], Moved(p),
         UNCHANGED <<saved, failed, reading>>,
         dir' \in [Processes -> Int], should' \in [Processes -> Int],
         \A q \in Processes \ {p} : dir'[q] = dir[q] /\ should'[q] = should[q],
         next = "fopen" => should'[p] = should[p]
  PROVE  HandleInv'
<1> USE Numbers DEF HandleInv, reading
<1>1. IF fp[p] = Closed THEN offset' = offset
      ELSE \E pos \in Positions : offset' = [offset EXCEPT ![fp[p]] = pos]
  BY DEF Moved
<1>2. HandleTypes'
  BY <1>1 DEF HandleTypes, HandleSteps, Reopening
<1>3. InOrder' /\ OneMaker'
  BY DEF InOrder, OneMaker, HandleTypes
<1>4. Shared'
  BY DEF Shared, Inherited, HandleTypes
<1>5. Alone'
  <2> SUFFICES ASSUME NEW r \in Processes, pc'[r] = "read", ~read'[r].exposed
               PROVE  /\ fp'[r] # Closed
                      /\ \A q \in Processes \ {r} : fp'[q] # fp'[r]
                      /\ offset'[fp'[r]] = read'[r].pos
    BY DEF Alone
  <2>1. r # p /\ pc[r] = "read" /\ read'[r] = read[r] /\ fp'[r] = fp[r] /\ ~read[r].exposed
    BY DEF HandleTypes
  <2>2. /\ fp[r] # Closed /\ offset[fp[r]] = read[r].pos
        /\ \A q \in Processes \ {r} : fp[q] # fp[r]
    BY <2>1 DEF Alone
  <2>3. offset'[fp[r]] = offset[fp[r]]
    BY <1>1, <2>1, <2>2 DEF HandleTypes
  <2>4. \A q \in Processes \ {r} : fp'[q] # fp[r]
    BY <2>2 DEF HandleTypes
  <2> QED BY <2>1, <2>2, <2>3, <2>4
<1>6. Places' /\ StreamsMade' /\ misread' = {}
  BY DEF Places, StreamsMade, HandleTypes
<1> QED BY <1>2, <1>3, <1>4, <1>5, <1>6

\* Closing the inherited stream moves the description and leaves none.
LEMMA FCloseKeeps ==
  ASSUME HandleInv, NEW p \in Processes, FClose(p) PROVE HandleInv'
BY ClosedKeeps DEF FClose, Goes, reading, HandleInv, HandleTypes

\* A process that ends closes its stream.
LEMMA ExitKeeps ==
  ASSUME HandleInv, NEW p \in Processes, CloseAndExit(p) PROVE HandleInv'
<1>1. /\ pc[p] = "work" /\ pc' = [pc EXCEPT ![p] = "ended"]
      /\ fp' = [fp EXCEPT ![p] = Closed] /\ Moved(p)
      /\ dir' = [dir EXCEPT ![p] = Start] /\ should' = [should EXCEPT ![p] = Start]
      /\ UNCHANGED <<saved, failed, reading>>
  BY DEF CloseAndExit
<1>2. /\ dir' \in [Processes -> Int] /\ should' \in [Processes -> Int]
      /\ \A q \in Processes \ {p} : dir'[q] = dir[q] /\ should'[q] = should[q]
  BY <1>1 DEF Start, HandleInv, HandleTypes
<1> QED BY <1>1, <1>2, ClosedKeeps

\* The new stream has a description of its own.
LEMMA FOpenKeeps ==
  ASSUME HandleInv, NEW p \in Processes, FOpen(p) PROVE HandleInv'
<1>1. CASE Fails(p, "fopen") /\ UNCHANGED <<fp, offset>>
  BY <1>1, FailsKeeps DEF FOpen, HandleInv, HandleTypes
<1>2. CASE Goes(p, "back") /\ Opened(p)
  BY <1>2, OpenedKeeps DEF FOpen, Goes, reading
<1> QED BY <1>1, <1>2 DEF FOpen

\* It returns to the directory it was in.
LEMMA BackKeeps ==
  ASSUME HandleInv, NEW p \in Processes, Back(p) PROVE HandleInv'
<1>1. CASE Fails(p, "back") /\ UNCHANGED dir
  BY <1>1, FailsKeeps DEF Back, Start, HandleInv, HandleTypes
<1>2. CASE Goes(p, "work") /\ dir' = [dir EXCEPT ![p] = saved[p]]
  <2> USE <1>2 DEF HandleInv, Back, Goes, reading, HandleTypes
  <2>1. HandleTypes' /\ InOrder' /\ OneMaker'
    BY DEF HandleSteps, Reopening, InOrder, OneMaker, Start
  <2>2. Shared' /\ Alone'
    BY DEF Shared, Inherited, InOrder, Alone
  <2>3. Places' /\ StreamsMade' /\ misread' = {}
    BY DEF Places, StreamsMade
  <2> QED BY <2>1, <2>2, <2>3
<1> QED BY <1>1, <1>2 DEF Back

-----------------------------------------------------------------------------
\* Every step keeps the invariant.
LEMMA NextHandle ==
  ASSUME HandleInv, cwd \in Int, [HandleNext]_handleVars PROVE HandleInv' /\ cwd' \in Int
<1>1. CASE UNCHANGED handleVars
  BY <1>1 DEF handleVars, reading, HandleInv, HandleTypes, InOrder, OneMaker, Shared, Inherited, Alone, Places, StreamsMade
<1>2. CASE Open
  <2>1. cwd' \in Int
    BY <1>2, HandleAssumption DEF Open, Start, Unknown
  <2> QED BY <1>2, <2>1, OpenKeeps
<1>3. ASSUME NEW p \in Processes,
             \/ EnterDir(p) \/ Seek(p) \/ Read(p) \/ ForkReader(p) \/ CloseAndExit(p)
             \/ GetCwd(p) \/ ChDir(p) \/ FClose(p) \/ FOpen(p) \/ Back(p)
      PROVE  HandleInv' /\ cwd' \in Int
  <2>1. HandleInv'
    BY <1>3, EnterDirKeeps, SeekKeeps, ReadKeeps, ForkKeeps, ExitKeeps,
       GetCwdKeeps, ChDirKeeps, FCloseKeeps, FOpenKeeps, BackKeeps
  <2>2. cwd' = cwd
    BY <1>3 DEF EnterDir, Seek, Read, ForkReader, CloseAndExit, GetCwd, ChDir, FClose, FOpen, Back
  <2> QED BY <2>1, <2>2
<1> QED BY <1>1, <1>2, <1>3 DEF HandleNext

\* So it always holds.
LEMMA HandleAlways == HandleSpec => [](HandleInv /\ cwd \in Int)
<1>1. HandleInit => HandleInv /\ cwd \in Int
  BY InitHandle, HandleAssumption DEF HandleInit, Unknown
<1>2. (HandleInv /\ cwd \in Int) /\ [HandleNext]_handleVars => (HandleInv /\ cwd \in Int)'
  BY NextHandle
<1> QED BY <1>1, <1>2, PTL DEF HandleSpec

(* readpst.c:219.  In any number of processes a read gets the data of its  *)
(* own position, unless it met a stream that was inherited and not yet, or *)
(* never, reopened.                                                        *)
THEOREM ReadsGetTheirData == HandleSpec => []ReadsRight
<1>1. HandleInv => ReadsRight
  BY DEF HandleInv, ReadsRight, SharedBriefly, Shared, Inherited
<1> QED BY <1>1, HandleAlways, PTL

(* libpst.c:395-411.  A process is without its file, or in the wrong       *)
(* directory, only where pst_reopen failed after its fclose.               *)
THEOREM HandlesKept == HandleSpec => []HandleKept
<1>1. HandleInv => HandleKept
  BY DEF HandleInv, HandleKept, StreamOpen, DirectoryKept, StreamsMade, Places
<1> QED BY <1>1, HandleAlways, PTL

-----------------------------------------------------------------------------
\* The output streams.

WriterStates == {"none", "running", "item", "ending", "exited"}
OutputFrames == [folder : Folders, next : Nat \ {0}, buffer : Seq(Items)]
Records == [item : Items, by : Writers]

OutputTypes ==
  /\ separate \in BOOLEAN
  /\ state \in [Writers -> WriterStates]
  /\ stack \in [Writers -> Seq(OutputFrames)]
  /\ job \in [Writers -> Folders \cup Items]
  /\ output \in [Folders \cup Items -> Seq(Records)]
  /\ copied \in SUBSET Items

\* The folder of an activation is the last entry the activation around it went over.
NestedIn(s) ==
  /\ s # <<>> => s[1].folder = Root
  /\ \A d \in DOMAIN s : s[d].next <= Len(Entries[s[d].folder]) + 1
  /\ \A d \in DOMAIN s \ {1} :
       /\ s[d - 1].next > 1
       /\ Entries[s[d - 1].folder][s[d - 1].next - 1] = s[d].folder

WritersKnown ==
  \A p \in Writers :
    /\ NestedIn(stack[p])
    /\ state[p] \in {"none", "exited"} => stack[p] = <<>>
    /\ state[p] = "running" => \E d \in DOMAIN stack[p] : stack[p][d].folder = job[p]
    /\ state[p] = "item" => /\ separate /\ stack[p] # <<>> /\ job[p] \in Items
                            /\ Top(p).next <= Len(Entries[Top(p).folder]) /\ Entry(p) = job[p]

\* Where a process is that was forked for j: in the activation of j and those
\* inside.
PlacesIn(s, j) == {<<s[d].folder, s[d].next>> : d \in {c \in DOMAIN s : \E e \in 1 .. c : s[e].folder = j}}
AllPlaces == [p \in Writers |-> IF state[p] = "running" THEN PlacesIn(stack[p], job[p]) ELSE {}]

\* P has the places of all processes, E the folders that were entered.
PassedIn(P, E, f, x) == f \in E /\ \A p \in Writers, n \in Nat : <<f, n>> \in P[p] => x < n

ProgressIn(P, E) ==
  /\ Root \in E
  /\ \A p \in Writers, f \in Folders, n \in Nat : <<f, n>> \in P[p] => f \in E
  /\ \A p, q \in Writers, f \in Folders, m, n \in Nat : <<f, m>> \in P[p] /\ <<f, n>> \in P[q] => p = q /\ m = n
  /\ \A f \in Folders : \A x \in DOMAIN Entries[f] :
       Entries[f][x] \in Folders => (Entries[f][x] \in E <=> PassedIn(P, E, f, x))

\* The items in the text w.
ItemsIn(w) == {w[k].item : k \in DOMAIN w}
OnceIn(w, i) == \A j, k \in DOMAIN w : w[j].item = i /\ w[k].item = i => j = k

\* A text with the items of folder f in order.
TextOf(f, w) ==
  \A k \in DOMAIN w : /\ w[k].item \in ToSet(Entries[f])
                      /\ Earlier(f, w[k].item) \subseteq {w[j].item : j \in 1 .. k - 1}

\* The buffer of an activation: what of its folder was passed and is not in the
\* file, which holds F, in order.
BufferFor(s, F) ==
  /\ \A x \in 1 .. s.next - 1 :
       Entries[s.folder][x] \in Items => Entries[s.folder][x] \in ToSet(s.buffer) \cup F
  /\ \A j \in DOMAIN s.buffer :
       /\ \E x \in 1 .. s.next - 1 : Entries[s.folder][x] = s.buffer[j]
       /\ Earlier(s.folder, s.buffer[j]) \subseteq F \cup {s.buffer[i] : i \in 1 .. j - 1}
       /\ \A i \in DOMAIN s.buffer : s.buffer[i] = s.buffer[j] => i = j

InFile(f, i) == i \in ItemsIn(output[f])
InBuffer(p, d, i) == i \in ToSet(stack[p][d].buffer)

\* An item is nowhere, then somewhere; without copies it is in one place.
Kept(f, i, passed) ==
  /\ ~passed => /\ i \notin copied /\ ~InFile(f, i)
                /\ \A p \in Writers : \A d \in DOMAIN stack[p] : ~InBuffer(p, d, i)
  /\ passed => InFile(f, i) \/ \E p \in Writers : \E d \in DOMAIN stack[p] : InBuffer(p, d, i)
  /\ i \notin copied =>
       /\ OnceIn(output[f], i)
       /\ \A p \in Writers : \A d \in DOMAIN stack[p] : InBuffer(p, d, i) =>
            /\ ~InFile(f, i)
            /\ \A q \in Writers : \A e \in DOMAIN stack[q] : InBuffer(q, e, i) => p = q

Together(E) ==
  /\ \A p \in Writers : \A d \in DOMAIN stack[p] : BufferFor(stack[p][d], ItemsIn(output[stack[p][d].folder]))
  /\ \A f \in Folders : TextOf(f, output[f])
  /\ \A f \in Folders : \A x \in DOMAIN Entries[f] :
       Entries[f][x] \in Items => Kept(f, Entries[f][x], PassedIn(AllPlaces, E, f, x))

\* A process was forked to write item i.
Writing(p, i) == state[p] = "item" /\ job[p] = i

KeptApart(i, passed) ==
  /\ ~passed => output[i] = <<>> /\ \A p \in Writers : ~Writing(p, i)
  /\ passed => \/ output[i] = <<>> /\ \E p \in Writers : Writing(p, i)
               \/ /\ Len(output[i]) = 1 /\ output[i][1].item = i
                  /\ \A p \in Writers : ~Writing(p, i)
  /\ \A p, q \in Writers : Writing(p, i) /\ Writing(q, i) => p = q

Apart(E) ==
  /\ copied = {}
  /\ \A p \in Writers : \A d \in DOMAIN stack[p] : stack[p][d].buffer = <<>>
  /\ \A f \in Folders : output[f] = <<>>
  /\ \A f \in Folders : \A x \in DOMAIN Entries[f] :
       Entries[f][x] \in Items => KeptApart(Entries[f][x], PassedIn(AllPlaces, E, f, x))

WritersInv(E) ==
  /\ OutputTypes /\ WritersKnown
  /\ E \in SUBSET Folders /\ ProgressIn(AllPlaces, E)
  /\ IF separate THEN Apart(E) ELSE Together(E)

\* The least of a set of numbers.
LEMMA FirstOf ==
  ASSUME NEW T, T \subseteq Nat, T # {}
  PROVE  \E x \in T : \A y \in T : x <= y
<1>1. \E x \in T : \A y \in T : ~ (<<y, x>> \in OpToRel(<, Nat))
  BY NatLessThanWellFounded, WFMin
<1>2. PICK x \in T : \A y \in T : ~ (y < x)
  BY <1>1 DEF OpToRel
<1>3. \A y \in T : x <= y
  BY <1>2
<1> QED BY <1>3

LEMMA ItemsApart == Items \cap Folders = {}
<1>1. \A i \in Items : i \notin Folders
  BY DEF Items
<1> QED BY <1>1

LEMMA EntriesTyped ==
  /\ Root \in Folders
  /\ \A f \in Folders : \A x \in DOMAIN Entries[f] :
       Entries[f][x] \in Items \cup (Folders \ {Root}) /\ x \in Nat /\ x >= 1 /\ x <= Len(Entries[f])
  /\ \A f \in Folders : /\ Len(Entries[f]) \in Nat /\ DOMAIN Entries[f] = 1 .. Len(Entries[f])
  /\ \A f, g \in Folders : \A i \in DOMAIN Entries[f], j \in DOMAIN Entries[g] :
       Entries[f][i] = Entries[g][j] => f = g /\ i = j
  /\ Items \cap Folders = {}
<1>1. \A f \in Folders : Entries[f] \in Seq(Items \cup (Folders \ {Root}))
  BY EntriesAssumption
<1>2. Items \cap Folders = {}
  BY ItemsApart
<1>3. \A f \in Folders : \A x \in DOMAIN Entries[f] :
       Entries[f][x] \in Items \cup (Folders \ {Root}) /\ x \in Nat /\ x >= 1 /\ x <= Len(Entries[f])
  BY <1>1
<1>4. \A f \in Folders : /\ Len(Entries[f]) \in Nat /\ DOMAIN Entries[f] = 1 .. Len(Entries[f])
  BY <1>1
<1> HIDE DEF Items
<1> QED BY <1>2, <1>3, <1>4, EntriesAssumption

\* No two entries are the same.
LEMMA OnePlace ==
  ASSUME NEW f \in Folders, NEW g \in Folders, NEW i \in DOMAIN Entries[f], NEW j \in DOMAIN Entries[g],
         Entries[f][i] = Entries[g][j]
  PROVE  f = g /\ i = j
BY Zenon, EntriesAssumption

\* Every item is an entry of a folder.
LEMMA ItemPlaced ==
  ASSUME NEW i \in Items
  PROVE  \E f \in Folders : \E x \in DOMAIN Entries[f] : Entries[f][x] = i
BY DEF Items, ToSet

\* Before a next entry that is not the first there is one.
LEMMA EntryBefore ==
  ASSUME NEW f \in Folders, NEW n \in Nat, n > 1, n <= Len(Entries[f]) + 1
  PROVE  n - 1 \in DOMAIN Entries[f]
<1>1. Len(Entries[f]) \in Nat /\ DOMAIN Entries[f] = 1 .. Len(Entries[f])
  BY EntriesTyped
<1> QED BY <1>1

\* No folder is inside itself: the activations of a process are of different folders.
LEMMA NestedApart ==
  ASSUME NEW s \in Seq(OutputFrames), NestedIn(s), NEW d \in DOMAIN s, NEW e \in DOMAIN s, s[d].folder = s[e].folder
  PROVE  d = e
<1> DEFINE S == {n \in Nat : \E a, b \in DOMAIN s : a # b /\ s[a].folder = s[b].folder /\ n = a}
<1>1. \A a \in DOMAIN s : /\ a \in Nat /\ a >= 1 /\ a <= Len(s) /\ s[a] \in OutputFrames
                          /\ s[a].folder \in Folders /\ s[a].next \in Nat
  <2>1. \A a \in DOMAIN s : a \in Nat /\ a >= 1 /\ a <= Len(s) /\ s[a] \in OutputFrames
    OBVIOUS
  <2>2. \A a \in OutputFrames : a.folder \in Folders /\ a.next \in Nat
    BY DEF OutputFrames
  <2> QED BY <2>1, <2>2
<1>2. SUFFICES ASSUME d # e PROVE FALSE
  OBVIOUS
<1>3. d \in S
  BY <1>1, <1>2
<1>4. PICK a \in S : \A b \in S : a <= b
  <2>1. S \subseteq Nat /\ S # {}
    BY <1>3
  <2> HIDE DEF S
  <2> QED BY <2>1, FirstOf
<1>5. PICK b \in DOMAIN s : a # b /\ s[a].folder = s[b].folder /\ a \in DOMAIN s
  BY <1>4
<1>6. a < b
  <2>1. b \in S
    BY <1>1, <1>5
  <2> QED BY <1>1, <1>4, <1>5, <2>1
<1>7. /\ b \in DOMAIN s \ {1} /\ b - 1 \in DOMAIN s /\ s[b - 1].next > 1
      /\ Entries[s[b - 1].folder][s[b - 1].next - 1] = s[b].folder
      /\ s[b - 1].next - 1 \in DOMAIN Entries[s[b - 1].folder]
  <2>1. b \in DOMAIN s \ {1} /\ b - 1 \in DOMAIN s
    BY <1>1, <1>5, <1>6
  <2>2. /\ s[b - 1].next > 1 /\ s[b - 1].next <= Len(Entries[s[b - 1].folder]) + 1
        /\ Entries[s[b - 1].folder][s[b - 1].next - 1] = s[b].folder
    BY <2>1 DEF NestedIn
  <2>3. s[b - 1].next - 1 \in DOMAIN Entries[s[b - 1].folder]
    <3>1. s[b - 1].folder \in Folders /\ s[b - 1].next \in Nat
      BY <1>1, <2>1
    <3> QED BY <2>2, <3>1, EntryBefore
  <2> QED BY <2>1, <2>2, <2>3
<1>8. CASE a = 1
  <2>1. s[a].folder = Root
    BY <1>5, <1>8 DEF NestedIn
  <2> QED BY <1>1, <1>5, <1>7, <2>1, EntriesTyped
<1>9. CASE a # 1
  <2>1. a \in DOMAIN s \ {1} /\ a - 1 \in DOMAIN s
    BY <1>1, <1>5, <1>9
  <2>2. /\ s[a - 1].next > 1 /\ s[a - 1].next <= Len(Entries[s[a - 1].folder]) + 1
        /\ Entries[s[a - 1].folder][s[a - 1].next - 1] = s[a].folder
    BY <2>1 DEF NestedIn
  <2>3. s[a - 1].next - 1 \in DOMAIN Entries[s[a - 1].folder]
    <3>1. s[a - 1].folder \in Folders /\ s[a - 1].next \in Nat
      BY <1>1, <2>1
    <3> QED BY <2>2, <3>1, EntryBefore
  <2>4. s[a - 1].folder = s[b - 1].folder
    <3>1. s[a - 1].folder \in Folders /\ s[b - 1].folder \in Folders
      BY <1>1, <1>7, <2>1
    <3>2. Entries[s[a - 1].folder][s[a - 1].next - 1] = Entries[s[b - 1].folder][s[b - 1].next - 1]
      BY <1>5, <1>7, <2>2
    <3> QED BY Zenon, <1>7, <2>3, <3>1, <3>2, OnePlace
  <2>5. a - 1 # b - 1
    BY <1>1, <1>5, <1>6
  <2>6. a - 1 \in S
    BY <1>1, <1>7, <2>1, <2>4, <2>5
  <2>7. a <= a - 1
    BY <1>4, <2>6
  <2>8. a \in Nat
    BY <1>1, <1>5
  <2> QED BY ONLY <2>7, <2>8
<1> QED BY <1>8, <1>9

-----------------------------------------------------------------------------
\* Where the processes are, P, moves on to Q.

\* Process p goes over entry n of f; it also goes over folder g, which c begins
\* with; it is done with f.
GoesOver(P, Q, p, f, n) ==
  \A q \in Writers, h \in Folders, m \in Nat :
    <<h, m>> \in Q[q] <=> \/ <<h, m>> \in P[q] /\ ~(q = p /\ h = f /\ m = n)
                          \/ q = p /\ h = f /\ m = n + 1

Enters(P, Q, p, f, n, c, g) ==
  \A q \in Writers, h \in Folders, m \in Nat :
    <<h, m>> \in Q[q] <=> \/ <<h, m>> \in P[q] /\ ~(q = p /\ h = f /\ m = n)
                          \/ q = p /\ h = f /\ m = n + 1
                          \/ q = c /\ h = g /\ m = 1

Leaves(P, Q, p, f) ==
  \A q \in Writers, h \in Folders, m \in Nat :
    <<h, m>> \in Q[q] <=> <<h, m>> \in P[q] /\ ~(q = p /\ h = f /\ m = Len(Entries[f]) + 1)

\* What was passed then: entry n of f too, or the same items.
AlsoPassed(P, Q, E, f, n) ==
  \A h \in Folders : \A x \in DOMAIN Entries[h] :
    PassedIn(Q, E, h, x) <=> PassedIn(P, E, h, x) \/ (h = f /\ x = n)

SamePassed(P, Q, E, D) ==
  \A h \in Folders : \A x \in DOMAIN Entries[h] :
    Entries[h][x] \in Items => (PassedIn(Q, D, h, x) <=> PassedIn(P, E, h, x))

\* A process goes over an entry that is no folder.
LEMMA PlaceAdvances ==
  ASSUME NEW P, NEW Q, NEW E, ProgressIn(P, E),
         NEW p \in Writers, NEW f \in Folders, NEW n \in DOMAIN Entries[f], <<f, n>> \in P[p],
         Entries[f][n] \notin Folders, GoesOver(P, Q, p, f, n)
  PROVE  /\ ProgressIn(Q, E) /\ ~PassedIn(P, E, f, n)
         /\ AlsoPassed(P, Q, E, f, n)
<1>1. n \in Nat /\ n + 1 \in Nat /\ \A h \in Folders : \A x \in DOMAIN Entries[h] : x \in Nat
  BY EntriesTyped
<1>2. \A q \in Writers, h \in Folders, m \in Nat :
        <<h, m>> \in Q[q] <=> \/ <<h, m>> \in P[q] /\ ~(q = p /\ h = f /\ m = n)
                              \/ q = p /\ h = f /\ m = n + 1
  BY DEF GoesOver
<1>3. \A q \in Writers, m \in Nat : <<f, m>> \in P[q] => q = p /\ m = n
  BY <1>1 DEF ProgressIn
<1>4. f \in E
  BY <1>1 DEF ProgressIn
<1>5. ~PassedIn(P, E, f, n)
  BY <1>1 DEF PassedIn
<1>6. \A h \in Folders : \A x \in DOMAIN Entries[h] :
              PassedIn(Q, E, h, x) <=> PassedIn(P, E, h, x) \/ (h = f /\ x = n)
  <2> TAKE h \in Folders
  <2> TAKE x \in DOMAIN Entries[h]
  <2>1. CASE h # f
    <3>1. \A q \in Writers, m \in Nat : <<h, m>> \in Q[q] <=> <<h, m>> \in P[q]
      BY <1>2, <2>1
    <3> QED BY <2>1, <3>1 DEF PassedIn
  <2>2. CASE h = f
    <3>1. \A q \in Writers, m \in Nat : <<f, m>> \in Q[q] <=> q = p /\ m = n + 1
      BY <1>2, <1>3
    <3>2. PassedIn(Q, E, f, x) <=> x < n + 1
      BY <1>1, <1>4, <3>1 DEF PassedIn
    <3>3. PassedIn(P, E, f, x) <=> x < n
      BY <1>1, <1>3, <1>4 DEF PassedIn
    <3>4. x \in Nat
      BY <1>1
    <3> QED BY <1>1, <2>2, <3>2, <3>3, <3>4
  <2> QED BY <2>1, <2>2
<1>7. ProgressIn(Q, E)
  <2>1. \A q \in Writers, h \in Folders, m \in Nat : <<h, m>> \in Q[q] => h \in E
    BY <1>2, <1>4 DEF ProgressIn
  <2>2. \A q, r \in Writers, h \in Folders, l, m \in Nat : <<h, l>> \in Q[q] /\ <<h, m>> \in Q[r] => q = r /\ l = m
    <3> TAKE q, r \in Writers, h \in Folders, l, m \in Nat
    <3>1. CASE h = f
      BY <1>2, <1>3, <3>1
    <3>2. CASE h # f
      BY <1>2, <3>2 DEF ProgressIn
    <3> QED BY <3>1, <3>2
  <2>3. \A h \in Folders : \A x \in DOMAIN Entries[h] :
       Entries[h][x] \in Folders => (Entries[h][x] \in E <=> PassedIn(Q, E, h, x))
    BY <1>6 DEF ProgressIn
  <2> QED BY <2>1, <2>2, <2>3 DEF ProgressIn
<1> QED BY <1>5, <1>6, <1>7 DEF AlsoPassed

\* A process goes over a folder, and c begins with it.
LEMMA PlaceEntered ==
  ASSUME NEW P, NEW Q, NEW E, ProgressIn(P, E),
         NEW p \in Writers, NEW c \in Writers, NEW f \in Folders, NEW n \in DOMAIN Entries[f], <<f, n>> \in P[p],
         NEW g \in Folders, Entries[f][n] = g, Enters(P, Q, p, f, n, c, g)
  PROVE  /\ ProgressIn(Q, E \cup {g}) /\ g \notin E
         /\ SamePassed(P, Q, E, E \cup {g})
<1>1. n \in Nat /\ n + 1 \in Nat /\ \A h \in Folders : \A x \in DOMAIN Entries[h] : x \in Nat /\ x >= 1
  BY EntriesTyped
<1>2. f \in E
  BY <1>1 DEF ProgressIn
<1>3. ~PassedIn(P, E, f, n)
  BY <1>1 DEF PassedIn
<1>4. g \notin E /\ g # f
  BY <1>2, <1>3 DEF ProgressIn
<1>5. \A q \in Writers, m \in Nat : <<g, m>> \notin P[q]
  BY <1>4 DEF ProgressIn
<1>6. \A q \in Writers, h \in Folders, m \in Nat :
        <<h, m>> \in Q[q] <=> \/ <<h, m>> \in P[q] /\ ~(q = p /\ h = f /\ m = n)
                              \/ q = p /\ h = f /\ m = n + 1
                              \/ q = c /\ h = g /\ m = 1
  BY DEF Enters
<1>7. \A q \in Writers, m \in Nat : <<f, m>> \in P[q] => q = p /\ m = n
  BY <1>1 DEF ProgressIn
<1>8. \A h \in Folders : \A x \in DOMAIN Entries[h] :
              PassedIn(Q, E \cup {g}, h, x) <=> PassedIn(P, E, h, x) \/ (h = f /\ x = n)
  <2> TAKE h \in Folders
  <2> TAKE x \in DOMAIN Entries[h]
  <2>1. CASE h # f /\ h # g
    <3>1. \A q \in Writers, m \in Nat : <<h, m>> \in Q[q] <=> <<h, m>> \in P[q]
      BY <1>6, <2>1
    <3> QED BY <2>1, <3>1 DEF PassedIn
  <2>2. CASE h = f
    <3>1. \A q \in Writers, m \in Nat : <<f, m>> \in Q[q] <=> q = p /\ m = n + 1
      BY <1>4, <1>6, <1>7
    <3>2. PassedIn(Q, E \cup {g}, f, x) <=> x < n + 1
      BY <1>1, <1>2, <3>1 DEF PassedIn
    <3>3. PassedIn(P, E, f, x) <=> x < n
      BY <1>1, <1>2, <1>7 DEF PassedIn
    <3>4. x \in Nat
      BY <1>1
    <3> QED BY <1>1, <2>2, <3>2, <3>3, <3>4
  <2>3. CASE h = g
    <3>1. <<g, 1>> \in Q[c] /\ 1 \in Nat /\ ~(x < 1)
      BY <1>1, <1>6
    <3>2. ~PassedIn(Q, E \cup {g}, g, x)
      BY <3>1 DEF PassedIn
    <3>3. ~PassedIn(P, E, g, x)
      BY <1>4 DEF PassedIn
    <3> QED BY <1>4, <2>3, <3>2, <3>3
  <2> QED BY <2>1, <2>2, <2>3
<1>9. ProgressIn(Q, E \cup {g})
  <2>1. \A q \in Writers, h \in Folders, m \in Nat : <<h, m>> \in Q[q] => h \in E \cup {g}
    BY <1>2, <1>6 DEF ProgressIn
  <2>2. \A q, r \in Writers, h \in Folders, l, m \in Nat : <<h, l>> \in Q[q] /\ <<h, m>> \in Q[r] => q = r /\ l = m
    <3> TAKE q, r \in Writers, h \in Folders, l, m \in Nat
    <3>1. CASE h = f
      BY <1>4, <1>6, <1>7, <3>1
    <3>2. CASE h = g
      BY <1>4, <1>5, <1>6, <3>2
    <3>3. CASE h # f /\ h # g
      BY <1>6, <3>3 DEF ProgressIn
    <3> QED BY <3>1, <3>2, <3>3
  <2>3. \A h \in Folders : \A x \in DOMAIN Entries[h] :
       Entries[h][x] \in Folders => (Entries[h][x] \in E \cup {g} <=> PassedIn(Q, E \cup {g}, h, x))
    <3> TAKE h \in Folders
    <3> TAKE x \in DOMAIN Entries[h]
    <3>1. Entries[h][x] = g <=> h = f /\ x = n
      BY EntriesTyped
    <3> QED BY <1>8, <3>1 DEF ProgressIn
  <2> QED BY <2>1, <2>2, <2>3 DEF ProgressIn
<1>10. \A h \in Folders : \A x \in DOMAIN Entries[h] : Entries[h][x] \in Items => ~(h = f /\ x = n)
  BY ItemsApart
<1> QED BY <1>4, <1>8, <1>9, <1>10 DEF SamePassed

\* A process is done with a folder.
LEMMA PlaceLeft ==
  ASSUME NEW P, NEW Q, NEW E, ProgressIn(P, E),
         NEW p \in Writers, NEW f \in Folders, Leaves(P, Q, p, f)
  PROVE  /\ ProgressIn(Q, E)
         /\ SamePassed(P, Q, E, E)
<1>1. /\ Len(Entries[f]) + 1 \in Nat
      /\ \A h \in Folders : \A x \in DOMAIN Entries[h] : x \in Nat /\ x <= Len(Entries[h])
  BY EntriesTyped
<1>2. \A q \in Writers, h \in Folders, m \in Nat :
        <<h, m>> \in Q[q] <=> <<h, m>> \in P[q] /\ ~(q = p /\ h = f /\ m = Len(Entries[f]) + 1)
  BY DEF Leaves
<1>3. \A h \in Folders : \A x \in DOMAIN Entries[h] : PassedIn(Q, E, h, x) <=> PassedIn(P, E, h, x)
  <2> TAKE h \in Folders
  <2> TAKE x \in DOMAIN Entries[h]
  <2>1. h = f => x < Len(Entries[f]) + 1
    BY <1>1, EntriesTyped
  <2> QED BY <1>2, <2>1 DEF PassedIn
<1>4. ProgressIn(Q, E)
  <2>1. /\ Root \in E
        /\ \A q \in Writers, h \in Folders, m \in Nat : <<h, m>> \in Q[q] => h \in E
    BY <1>2 DEF ProgressIn
  <2>2. \A q, r \in Writers, h \in Folders, l, m \in Nat : <<h, l>> \in Q[q] /\ <<h, m>> \in Q[r] => q = r /\ l = m
    BY <1>2 DEF ProgressIn
  <2>3. \A h \in Folders : \A x \in DOMAIN Entries[h] :
       Entries[h][x] \in Folders => (Entries[h][x] \in E <=> PassedIn(Q, E, h, x))
    BY <1>3 DEF ProgressIn
  <2> QED BY <2>1, <2>2, <2>3 DEF ProgressIn
<1> QED BY <1>3, <1>4 DEF SamePassed

-----------------------------------------------------------------------------
\* The activations of a process.

LEMMA FramesTyped ==
  ASSUME NEW s \in Seq(OutputFrames)
  PROVE  /\ Len(s) \in Nat /\ DOMAIN s = 1 .. Len(s)
         /\ \A d \in DOMAIN s : /\ d \in Nat /\ d >= 1 /\ d <= Len(s)
                                /\ s[d] \in OutputFrames /\ s[d].folder \in Folders
                                /\ s[d].next \in Nat /\ s[d].next >= 1 /\ s[d].buffer \in Seq(Items)
<1>1. /\ Len(s) \in Nat /\ DOMAIN s = 1 .. Len(s)
      /\ \A d \in DOMAIN s : d \in Nat /\ d >= 1 /\ d <= Len(s) /\ s[d] \in OutputFrames
  OBVIOUS
<1>2. \A a \in OutputFrames : a.folder \in Folders /\ a.next \in Nat /\ a.next >= 1 /\ a.buffer \in Seq(Items)
  BY DEF OutputFrames
<1> QED BY <1>1, <1>2

\* t is s with the innermost loop moved on, whatever the buffers.
Advanced(s, t) ==
  /\ s # <<>> /\ Len(t) = Len(s)
  /\ \A d \in DOMAIN s : /\ t[d].folder = s[d].folder
                         /\ t[d].next = IF d = Len(s) THEN s[d].next + 1 ELSE s[d].next

LEMMA NestedAdvanced ==
  ASSUME NEW s \in Seq(OutputFrames), NEW t \in Seq(OutputFrames), NestedIn(s), Advanced(s, t),
         s[Len(s)].next <= Len(Entries[s[Len(s)].folder])
  PROVE  NestedIn(t)
<1>1. /\ Len(s) \in Nat /\ DOMAIN s = 1 .. Len(s) /\ DOMAIN t = DOMAIN s /\ 1 \in DOMAIN s
      /\ \A d \in DOMAIN s : d \in Nat /\ s[d].next \in Nat /\ s[d].folder \in Folders
  BY FramesTyped DEF Advanced
<1>2. t[1].folder = Root
  BY <1>1 DEF NestedIn, Advanced
<1>3. ASSUME NEW d \in DOMAIN t PROVE t[d].next <= Len(Entries[t[d].folder]) + 1
  <2>1. CASE d = Len(s)
    <3>1. t[d].next = s[d].next + 1 /\ t[d].folder = s[d].folder
      BY <1>1, <2>1 DEF Advanced
    <3> QED BY <1>1, <2>1, <3>1, EntriesTyped
  <2>2. CASE d # Len(s)
    BY <1>1, <2>2 DEF NestedIn, Advanced
  <2> QED BY <2>1, <2>2
<1>4. ASSUME NEW d \in DOMAIN t \ {1}
      PROVE  t[d - 1].next > 1 /\ Entries[t[d - 1].folder][t[d - 1].next - 1] = t[d].folder
  <2>1. d \in DOMAIN s \ {1} /\ d - 1 \in DOMAIN s /\ d - 1 # Len(s)
    BY <1>1
  <2>2. t[d - 1].next = s[d - 1].next /\ t[d - 1].folder = s[d - 1].folder /\ t[d].folder = s[d].folder
    BY <2>1 DEF Advanced
  <2> QED BY <2>1, <2>2 DEF NestedIn
<1> QED BY <1>2, <1>3, <1>4 DEF NestedIn

LEMMA AppendFrame ==
  ASSUME NEW t \in Seq(OutputFrames), NEW g \in Folders
  PROVE  /\ NewFrame(g) \in OutputFrames
         /\ Append(t, NewFrame(g)) \in Seq(OutputFrames) /\ Len(Append(t, NewFrame(g))) = Len(t) + 1
         /\ Append(t, NewFrame(g))[Len(t) + 1] = NewFrame(g)
         /\ \A d \in DOMAIN t : Append(t, NewFrame(g))[d] = t[d]
         /\ DOMAIN Append(t, NewFrame(g)) = DOMAIN t \cup {Len(t) + 1} /\ Len(t) + 1 \notin DOMAIN t
         /\ NewFrame(g).folder = g /\ NewFrame(g).next = 1 /\ NewFrame(g).buffer = <<>>
<1>1. NewFrame(g) \in OutputFrames /\ NewFrame(g).folder = g /\ NewFrame(g).next = 1 /\ NewFrame(g).buffer = <<>>
  BY DEF NewFrame, OutputFrames
<1> HIDE DEF NewFrame, OutputFrames
<1> QED BY <1>1

LEMMA NestedEntered ==
  ASSUME NEW s \in Seq(OutputFrames), NEW t \in Seq(OutputFrames), NestedIn(s), Advanced(s, t),
         s[Len(s)].next <= Len(Entries[s[Len(s)].folder]), NEW g \in Folders,
         Entries[s[Len(s)].folder][s[Len(s)].next] = g
  PROVE  NestedIn(Append(t, NewFrame(g)))
<1> DEFINE u == Append(t, NewFrame(g))
<1>1. /\ Len(s) \in Nat /\ Len(s) >= 1 /\ Len(t) = Len(s) /\ DOMAIN s = 1 .. Len(s)
      /\ DOMAIN t = DOMAIN s /\ 1 \in DOMAIN s /\ Len(s) \in DOMAIN s
      /\ \A d \in DOMAIN s : d \in Nat /\ s[d].next \in Nat /\ s[d].folder \in Folders /\ s[d].next >= 1
  BY FramesTyped DEF Advanced
<1>2. /\ Len(u) = Len(t) + 1 /\ u[Len(t) + 1] = NewFrame(g) /\ \A d \in DOMAIN t : u[d] = t[d]
      /\ DOMAIN u = DOMAIN t \cup {Len(t) + 1} /\ NewFrame(g).folder = g /\ NewFrame(g).next = 1
      /\ u[Len(s) + 1].folder = g /\ u[Len(s) + 1].next = 1
  BY <1>1, AppendFrame
<1>3. NestedIn(t)
  BY NestedAdvanced
<1> HIDE DEF u
<1>4. u[1].folder = Root
  BY <1>1, <1>2, <1>3 DEF NestedIn
<1>5. ASSUME NEW d \in DOMAIN u PROVE u[d].next <= Len(Entries[u[d].folder]) + 1
  <2>1. CASE d = Len(s) + 1
    BY <1>1, <1>2, <2>1, EntriesTyped
  <2>2. CASE d # Len(s) + 1
    <3>1. d \in DOMAIN t
      BY <1>1, <1>2, <2>2
    <3> QED BY <1>2, <1>3, <3>1 DEF NestedIn
  <2> QED BY <2>1, <2>2
<1>6. ASSUME NEW d \in DOMAIN u \ {1}
      PROVE  u[d - 1].next > 1 /\ Entries[u[d - 1].folder][u[d - 1].next - 1] = u[d].folder
  <2>1. CASE d = Len(s) + 1
    <3>1. d - 1 = Len(s) /\ u[d - 1] = t[Len(s)]
      BY <1>1, <1>2, <2>1
    <3>2. t[Len(s)].folder = s[Len(s)].folder /\ t[Len(s)].next = s[Len(s)].next + 1
      BY <1>1 DEF Advanced
    <3> QED BY <1>1, <1>2, <2>1, <3>1, <3>2
  <2>2. CASE d # Len(s) + 1
    <3>1. d \in DOMAIN t \ {1} /\ d - 1 \in DOMAIN t
      BY <1>1, <1>2, <2>2
    <3>2. u[d] = t[d] /\ u[d - 1] = t[d - 1]
      BY <1>2, <3>1
    <3> QED BY <1>3, <3>1, <3>2 DEF NestedIn
  <2> QED BY <2>1, <2>2
<1>7. u # <<>>
  BY <1>1, <1>2
<1> QED BY <1>4, <1>5, <1>6, <1>7 DEF NestedIn, u

LEMMA FrontFrames ==
  ASSUME NEW s \in Seq(OutputFrames), s # <<>>
  PROVE  /\ Front(s) \in Seq(OutputFrames) /\ DOMAIN Front(s) = DOMAIN s \ {Len(s)} /\ Len(s) \in DOMAIN s
         /\ Len(Front(s)) = Len(s) - 1 /\ \A d \in DOMAIN Front(s) : Front(s)[d] = s[d]
<1>1. Front(s) = [i \in 1 .. Len(s) - 1 |-> s[i]]
  BY DEF Front
<1>2. Len(s) \in Nat /\ Len(s) >= 1 /\ Len(s) - 1 \in Nat /\ \A d \in DOMAIN s : d \in Nat /\ s[d] \in OutputFrames
  BY FramesTyped
<1>3. [i \in 1 .. Len(s) - 1 |-> s[i]] \in Seq(OutputFrames)
  BY <1>2, IsASeq
<1>4. Len(Front(s)) = Len(s) - 1 /\ DOMAIN Front(s) = 1 .. Len(s) - 1
  BY <1>1, <1>2
<1>5. DOMAIN s = 1 .. Len(s)
  OBVIOUS
<1>6. 1 .. Len(s) - 1 = (1 .. Len(s)) \ {Len(s)}
  BY <1>2
<1> QED BY <1>1, <1>2, <1>3, <1>4, <1>5, <1>6

LEMMA NestedLeft ==
  ASSUME NEW s \in Seq(OutputFrames), s # <<>>, NestedIn(s)
  PROVE  NestedIn(Front(s))
<1> DEFINE t == Front(s)
<1>1. /\ DOMAIN t = DOMAIN s \ {Len(s)} /\ \A d \in DOMAIN t : t[d] = s[d]
      /\ Len(t) = Len(s) - 1 /\ t \in Seq(OutputFrames)
  BY FrontFrames
<1>2. /\ Len(s) \in Nat /\ DOMAIN s = 1 .. Len(s) /\ \A d \in DOMAIN s : d \in Nat
  OBVIOUS
<1> HIDE DEF t
<1>3. \A d \in DOMAIN t : t[d].next <= Len(Entries[t[d].folder]) + 1
  BY <1>1 DEF NestedIn
<1>4. ASSUME NEW d \in DOMAIN t \ {1}
      PROVE  t[d - 1].next > 1 /\ Entries[t[d - 1].folder][t[d - 1].next - 1] = t[d].folder
  <2>1. d \in DOMAIN s \ {1} /\ d - 1 \in DOMAIN t /\ t[d] = s[d]
    BY <1>1, <1>2
  <2>2. t[d - 1] = s[d - 1]
    BY <1>1, <2>1
  <2> QED BY <2>1, <2>2 DEF NestedIn
<1>5. t # <<>> => t[1].folder = Root
  <2>1. t # <<>> => 1 \in DOMAIN t
    BY <1>1
  <2> QED BY <1>1, <2>1 DEF NestedIn
<1> QED BY <1>3, <1>4, <1>5 DEF NestedIn, t

LEMMA PlacesTyped ==
  ASSUME NEW s \in Seq(OutputFrames), NEW j
  PROVE  PlacesIn(s, j) \in SUBSET (Folders \X Nat)
<1>1. \A d \in DOMAIN s : s[d].folder \in Folders /\ s[d].next \in Nat
  BY FramesTyped
<1> QED BY <1>1 DEF PlacesIn

LEMMA PlacesAdvanced ==
  ASSUME NEW s \in Seq(OutputFrames), NEW t \in Seq(OutputFrames), NestedIn(s), Advanced(s, t),
         NEW j, \E e \in DOMAIN s : s[e].folder = j,
         NEW f, NEW n, f = s[Len(s)].folder, n = s[Len(s)].next
  PROVE  /\ PlacesIn(t, j) = (PlacesIn(s, j) \ {<<f, n>>}) \cup {<<f, n + 1>>}
         /\ <<f, n>> \in PlacesIn(s, j)
<1>1. /\ Len(s) \in Nat /\ DOMAIN s = 1 .. Len(s) /\ DOMAIN t = DOMAIN s /\ Len(s) \in DOMAIN s
      /\ \A d \in DOMAIN s : d \in Nat /\ d <= Len(s)
  BY FramesTyped DEF Advanced
<1> DEFINE Own == {c \in DOMAIN s : \E e \in 1 .. c : s[e].folder = j}
<1>2. Len(s) \in Own
  BY <1>1
<1>3. {c \in DOMAIN t : \E e \in 1 .. c : t[e].folder = j} = Own
  <2>1. \A c \in DOMAIN s : \A e \in 1 .. c : e \in DOMAIN s /\ t[e].folder = s[e].folder
    BY <1>1 DEF Advanced
  <2> QED BY <1>1, <2>1
<1>4. PlacesIn(s, j) = {<<s[d].folder, s[d].next>> : d \in Own}
  BY DEF PlacesIn
<1>5. PlacesIn(t, j) = {<<t[d].folder, t[d].next>> : d \in Own}
  BY <1>3 DEF PlacesIn
<1>6. \A d \in Own : /\ d \in DOMAIN s /\ t[d].folder = s[d].folder
                     /\ d # Len(s) => t[d].next = s[d].next /\ s[d].folder # f
  BY <1>1, NestedApart DEF Advanced
<1>7. t[Len(s)].folder = f /\ t[Len(s)].next = n + 1
  BY <1>1 DEF Advanced
<1> HIDE DEF Own
<1>8. <<f, n>> \in PlacesIn(s, j) /\ <<f, n + 1>> \in PlacesIn(t, j)
  BY <1>2, <1>4, <1>5, <1>7
<1>9. \A d \in Own \ {Len(s)} : <<t[d].folder, t[d].next>> = <<s[d].folder, s[d].next>> /\ s[d].folder # f
  BY <1>6
<1>10. PlacesIn(t, j) = {<<t[d].folder, t[d].next>> : d \in Own \ {Len(s)}} \cup {<<f, n + 1>>}
  BY <1>2, <1>5, <1>7
<1>11. PlacesIn(s, j) = {<<s[d].folder, s[d].next>> : d \in Own \ {Len(s)}} \cup {<<f, n>>}
  BY <1>2, <1>4
<1>12. {<<t[d].folder, t[d].next>> : d \in Own \ {Len(s)}} = {<<s[d].folder, s[d].next>> : d \in Own \ {Len(s)}}
  BY <1>9
<1>13. <<f, n>> \notin {<<s[d].folder, s[d].next>> : d \in Own \ {Len(s)}}
  BY <1>9
<1> QED BY <1>8, <1>10, <1>11, <1>12, <1>13

LEMMA PlacesEntered ==
  ASSUME NEW t \in Seq(OutputFrames), NEW g \in Folders, NEW j, \E e \in DOMAIN t : t[e].folder = j
  PROVE  PlacesIn(Append(t, NewFrame(g)), j) = PlacesIn(t, j) \cup {<<g, 1>>}
<1> DEFINE u == Append(t, NewFrame(g))
<1>1. /\ u[Len(t) + 1] = NewFrame(g) /\ \A d \in DOMAIN t : u[d] = t[d]
      /\ DOMAIN u = DOMAIN t \cup {Len(t) + 1} /\ NewFrame(g).folder = g /\ NewFrame(g).next = 1
  BY AppendFrame
<1>2. Len(t) \in Nat /\ DOMAIN t = 1 .. Len(t) /\ \A d \in DOMAIN t : d \in Nat
  OBVIOUS
<1> HIDE DEF u
<1>3. {c \in DOMAIN u : \E e \in 1 .. c : u[e].folder = j}
        = {c \in DOMAIN t : \E e \in 1 .. c : t[e].folder = j} \cup {Len(t) + 1}
  <2>1. \A c \in DOMAIN t : \A e \in 1 .. c : e \in DOMAIN t /\ u[e].folder = t[e].folder
    BY <1>1, <1>2
  <2>2. \E e \in 1 .. Len(t) + 1 : u[e].folder = j
    BY <1>1, <1>2
  <2> QED BY <1>1, <2>1, <2>2
<1> DEFINE Own == {c \in DOMAIN t : \E e \in 1 .. c : t[e].folder = j}
<1>4. PlacesIn(t, j) = {<<t[d].folder, t[d].next>> : d \in Own}
  BY DEF PlacesIn
<1>5. PlacesIn(u, j) = {<<u[d].folder, u[d].next>> : d \in Own \cup {Len(t) + 1}}
  BY <1>3 DEF PlacesIn
<1>6. \A d \in Own : u[d] = t[d]
  BY <1>1
<1> HIDE DEF Own
<1>7. PlacesIn(u, j) = PlacesIn(t, j) \cup {<<g, 1>>}
  BY <1>1, <1>4, <1>5, <1>6
<1> QED BY <1>7 DEF u

LEMMA PlacesForked ==
  ASSUME NEW t \in Seq(OutputFrames), NEW g \in Folders, NestedIn(Append(t, NewFrame(g)))
  PROVE  PlacesIn(Append(t, NewFrame(g)), g) = {<<g, 1>>}
<1> DEFINE u == Append(t, NewFrame(g))
<1>1. /\ u[Len(t) + 1] = NewFrame(g) /\ Len(t) + 1 \in DOMAIN u /\ u \in Seq(OutputFrames)
      /\ NewFrame(g).folder = g /\ NewFrame(g).next = 1 /\ Len(u) = Len(t) + 1 /\ Len(t) \in Nat
      /\ NestedIn(u)
  BY AppendFrame
<1> HIDE DEF u
<1>2. \A d \in DOMAIN u : u[d].folder = g => d = Len(t) + 1
  BY <1>1, NestedApart
<1>3. {c \in DOMAIN u : \E e \in 1 .. c : u[e].folder = g} = {Len(t) + 1}
  <2>1. \A c \in DOMAIN u : /\ c \in Nat /\ c <= Len(t) + 1
                            /\ \A e \in 1 .. c : e \in DOMAIN u /\ (e = Len(t) + 1 => c = Len(t) + 1)
    BY <1>1
  <2>2. Len(t) + 1 \in 1 .. Len(t) + 1
    BY <1>1
  <2> QED BY <1>1, <1>2, <2>1, <2>2
<1>4. PlacesIn(u, g) = {<<u[d].folder, u[d].next>> : d \in {Len(t) + 1}}
  BY <1>3 DEF PlacesIn
<1>5. PlacesIn(u, g) = {<<g, 1>>}
  BY <1>1, <1>4
<1> QED BY <1>5 DEF u

LEMMA PlacesLeft ==
  ASSUME NEW s \in Seq(OutputFrames), s # <<>>, NestedIn(s), NEW j, \E e \in DOMAIN s : s[e].folder = j,
         NEW f, NEW n, f = s[Len(s)].folder, n = s[Len(s)].next
  PROVE  /\ f = j => PlacesIn(s, j) = {<<f, n>>}
         /\ f # j => /\ PlacesIn(Front(s), j) = PlacesIn(s, j) \ {<<f, n>>}
                     /\ \E e \in DOMAIN Front(s) : Front(s)[e].folder = j
         /\ <<f, n>> \in PlacesIn(s, j)
<1> DEFINE Own == {c \in DOMAIN s : \E e \in 1 .. c : s[e].folder = j}
           t == Front(s)
<1>1. /\ DOMAIN t = DOMAIN s \ {Len(s)} /\ Len(s) \in DOMAIN s /\ \A d \in DOMAIN t : t[d] = s[d]
      /\ Len(s) \in Nat /\ DOMAIN s = 1 .. Len(s) /\ \A d \in DOMAIN s : d \in Nat /\ d <= Len(s)
  BY FrontFrames, FramesTyped
<1> HIDE DEF t
<1>2. Len(s) \in Own
  BY <1>1
<1>3. PlacesIn(s, j) = {<<s[d].folder, s[d].next>> : d \in Own}
  BY DEF PlacesIn
<1>4. \A d \in DOMAIN s : s[d].folder = f => d = Len(s)
  BY <1>1, NestedApart
<1>5. ASSUME f = j PROVE PlacesIn(s, j) = {<<f, n>>}
  <2>1. \A d \in Own : d = Len(s)
    <3> SUFFICES ASSUME NEW d \in Own PROVE d = Len(s)
      OBVIOUS
    <3>1. PICK e \in 1 .. d : s[e].folder = j
      OBVIOUS
    <3>2. d \in DOMAIN s /\ d \in Nat /\ d <= Len(s)
      BY <1>1
    <3>3. e \in DOMAIN s
      BY <1>1, <3>2
    <3>4. e = Len(s)
      BY <1>4, <1>5, <3>1, <3>3
    <3> QED BY <1>1, <3>1, <3>2, <3>4
  <2>2. Own = {Len(s)}
    BY <1>2, <2>1
  <2> HIDE DEF Own
  <2> QED BY <1>3, <2>2
<1>6. ASSUME f # j
      PROVE  PlacesIn(t, j) = PlacesIn(s, j) \ {<<f, n>>} /\ \E e \in DOMAIN t : t[e].folder = j
  <2>1. {c \in DOMAIN t : \E e \in 1 .. c : t[e].folder = j} = Own \ {Len(s)}
    <3>1. \A c \in DOMAIN t : \A e \in 1 .. c : e \in DOMAIN t /\ t[e].folder = s[e].folder
      BY <1>1
    <3> QED BY <1>1, <3>1
  <2>2. PlacesIn(t, j) = {<<t[d].folder, t[d].next>> : d \in Own \ {Len(s)}}
    BY <2>1 DEF PlacesIn
  <2>3. \A d \in Own : d \in DOMAIN s /\ (d # Len(s) => t[d] = s[d] /\ s[d].folder # f)
    BY <1>1, <1>4
  <2>4. PlacesIn(t, j) = PlacesIn(s, j) \ {<<f, n>>}
    <3> HIDE DEF Own
    <3> QED BY <1>2, <1>3, <2>2, <2>3
  <2>5. \E e \in DOMAIN t : t[e].folder = j
    BY <1>1, <1>6
  <2> QED BY <2>4, <2>5
<1>7. <<f, n>> \in PlacesIn(s, j)
  <2> HIDE DEF Own
  <2> QED BY <1>2, <1>3
<1> QED BY <1>5, <1>6, <1>7 DEF t

-----------------------------------------------------------------------------
\* Steps of a process among its entries.

Shape(E) == OutputTypes /\ WritersKnown /\ E \in SUBSET Folders /\ ProgressIn(AllPlaces, E)

\* What a process that is at work has.
LEMMA AtWorkFrames ==
  ASSUME OutputTypes, WritersKnown, NEW p \in Writers
  PROVE  /\ stack[p] \in Seq(OutputFrames) /\ NestedIn(stack[p]) /\ state[p] \in WriterStates
         /\ state[p] = "running" => /\ stack[p] # <<>> /\ Len(stack[p]) \in DOMAIN stack[p]
                                    /\ Top(p) = stack[p][Len(stack[p])]
                                    /\ \E e \in DOMAIN stack[p] : stack[p][e].folder = job[p]
                                    /\ Top(p).folder \in Folders /\ Top(p).next \in Nat
                                    /\ Top(p).buffer \in Seq(Items)
         /\ HasEntry(p) => /\ state[p] = "running" /\ Top(p).next \in DOMAIN Entries[Top(p).folder]
                           /\ Top(p).next <= Len(Entries[Top(p).folder])
                           /\ Entry(p) = Entries[Top(p).folder][Top(p).next]
         /\ state[p] = "running" /\ ~HasEntry(p) => Top(p).next = Len(Entries[Top(p).folder]) + 1
<1>1. stack[p] \in Seq(OutputFrames) /\ NestedIn(stack[p]) /\ state[p] \in WriterStates
  BY DEF OutputTypes, WritersKnown
<1>2. ASSUME state[p] = "running"
      PROVE  /\ stack[p] # <<>> /\ Len(stack[p]) \in DOMAIN stack[p]
             /\ Top(p) = stack[p][Len(stack[p])]
             /\ \E e \in DOMAIN stack[p] : stack[p][e].folder = job[p]
             /\ Top(p).folder \in Folders /\ Top(p).next \in Nat /\ Top(p).next >= 1
             /\ Top(p).buffer \in Seq(Items) /\ Top(p).next <= Len(Entries[Top(p).folder]) + 1
  <2>1. \E e \in DOMAIN stack[p] : stack[p][e].folder = job[p]
    BY <1>2 DEF WritersKnown
  <2>2. stack[p] # <<>> /\ Len(stack[p]) \in DOMAIN stack[p]
    BY <1>1, <2>1
  <2>3. Top(p) = stack[p][Len(stack[p])]
    BY DEF Top, Last
  <2> QED BY <1>1, <2>1, <2>2, <2>3, FramesTyped DEF NestedIn
<1>3. HasEntry(p) => state[p] = "running" /\ Top(p).next <= Len(Entries[Top(p).folder])
  BY DEF HasEntry
<1>4. HasEntry(p) => Top(p).next \in DOMAIN Entries[Top(p).folder]
  BY <1>2, <1>3, EntriesTyped
<1>5. Entry(p) = Entries[Top(p).folder][Top(p).next]
  BY DEF Entry
<1>6. state[p] = "running" /\ ~HasEntry(p) => Top(p).next = Len(Entries[Top(p).folder]) + 1
  <2>1. SUFFICES ASSUME state[p] = "running", ~HasEntry(p) PROVE Top(p).next = Len(Entries[Top(p).folder]) + 1
    OBVIOUS
  <2>2. ~(Top(p).next <= Len(Entries[Top(p).folder]))
    BY <2>1 DEF HasEntry
  <2> QED BY <1>2, <2>1, <2>2, EntriesTyped
<1> QED BY <1>1, <1>2, <1>3, <1>4, <1>5, <1>6

LEMMA FrameReplaced ==
  ASSUME NEW s \in Seq(OutputFrames), NEW l \in DOMAIN s, NEW e \in OutputFrames,
         NEW t, t = [s EXCEPT ![l] = e]
  PROVE  /\ t \in Seq(OutputFrames) /\ Len(t) = Len(s) /\ DOMAIN t = DOMAIN s
         /\ t[l] = e /\ \A d \in DOMAIN s : d # l => t[d] = s[d]
<1>1. /\ DOMAIN t = DOMAIN s /\ t[l] = e /\ \A d \in DOMAIN s : d # l => t[d] = s[d]
      /\ Len(s) \in Nat
  OBVIOUS
<1>2. \A d \in 1 .. Len(s) : t[d] \in OutputFrames
  BY <1>1
<1>3. t \in Seq(OutputFrames)
  <2>1. t = [d \in DOMAIN s |-> t[d]]
    OBVIOUS
  <2>2. [d \in 1 .. Len(s) |-> t[d]] \in Seq(OutputFrames)
    BY <1>1, <1>2, IsASeq
  <2>3. DOMAIN s = 1 .. Len(s)
    OBVIOUS
  <2> QED BY ONLY <2>1, <2>2, <2>3
<1>4. Len(t) = Len(s)
  BY <1>1, <1>3
<1> QED BY <1>1, <1>3, <1>4

\* MovedOn, with the buffer as it was or another one.
LEMMA MovedFrames ==
  ASSUME NEW s \in Seq(OutputFrames), s # <<>>, NEW b \in Seq(Items)
  PROVE  \E t, u : /\ t = [s EXCEPT ![Len(s)].next = @ + 1] /\ u = [t EXCEPT ![Len(s)].buffer = b]
                   /\ t \in Seq(OutputFrames) /\ Advanced(s, t) /\ \A d \in DOMAIN s : t[d].buffer = s[d].buffer
                   /\ u \in Seq(OutputFrames) /\ Advanced(s, u)
                   /\ \A d \in DOMAIN s : u[d].buffer = IF d = Len(s) THEN b ELSE s[d].buffer
<1>0. PICK t, u : t = [s EXCEPT ![Len(s)].next = @ + 1] /\ u = [t EXCEPT ![Len(s)].buffer = b]
  OBVIOUS
<1>1. /\ Len(s) \in Nat /\ DOMAIN s = 1 .. Len(s) /\ Len(s) \in DOMAIN s
      /\ \A d \in DOMAIN s : s[d] \in OutputFrames /\ s[d].next \in Nat
  BY FramesTyped
<1> DEFINE l == Len(s)
           top == [s[l] EXCEPT !.next = @ + 1]
           new == [top EXCEPT !.buffer = b]
<1>2. /\ top \in OutputFrames /\ top.folder = s[l].folder /\ top.next = s[l].next + 1 /\ top.buffer = s[l].buffer
      /\ new \in OutputFrames /\ new.folder = s[l].folder /\ new.next = s[l].next + 1 /\ new.buffer = b
  <2>1. s[l] \in OutputFrames /\ s[l].next + 1 \in Nat \ {0}
    BY <1>1
  <2> QED BY <2>1 DEF OutputFrames
<1>3. t = [s EXCEPT ![l] = top]
  BY <1>0
<1> HIDE DEF top
<1>4. t \in Seq(OutputFrames) /\ Len(t) = l /\ DOMAIN t = DOMAIN s /\ t[l] = top /\ \A d \in DOMAIN s : d # l => t[d] = s[d]
  BY <1>1, <1>2, <1>3, FrameReplaced
<1>5. u = [t EXCEPT ![l] = new]
  BY <1>0, <1>4
<1> HIDE DEF new
<1>6. \A d \in DOMAIN s : t[d] = IF d = l THEN top ELSE s[d]
  BY <1>4
<1>7. u \in Seq(OutputFrames) /\ Len(u) = l /\ \A d \in DOMAIN s : u[d] = IF d = l THEN new ELSE s[d]
  <2>1. new \in OutputFrames /\ l \in DOMAIN t
    BY <1>1, <1>2, <1>4
  <2>2. /\ u \in Seq(OutputFrames) /\ Len(u) = Len(t) /\ u[l] = new
        /\ \A d \in DOMAIN t : d # l => u[d] = t[d]
    BY ONLY <1>4, <1>5, <2>1, FrameReplaced
  <2> QED BY <1>4, <1>6, <2>2
<1>8. Advanced(s, t) /\ \A d \in DOMAIN s : t[d].buffer = s[d].buffer
  BY <1>1, <1>2, <1>4, <1>6 DEF Advanced
<1>9. Advanced(s, u) /\ \A d \in DOMAIN s : u[d].buffer = IF d = Len(s) THEN b ELSE s[d].buffer
  BY <1>1, <1>2, <1>7 DEF Advanced
<1> QED BY ONLY <1>0, <1>4, <1>7, <1>8, <1>9

\* Text that goes to a file.
LEMMA FileGrown ==
  ASSUME NEW s \in Seq(Records), NEW b \in Seq(Items), NEW p \in Writers
  PROVE  /\ s \o Written(p, b) \in Seq(Records) /\ Len(s \o Written(p, b)) = Len(s) + Len(b)
         /\ DOMAIN (s \o Written(p, b)) = 1 .. Len(s) + Len(b)
         /\ \A k \in 1 .. Len(s) : (s \o Written(p, b))[k] = s[k]
         /\ \A j \in 1 .. Len(b) : (s \o Written(p, b))[Len(s) + j].item = b[j]
<1> DEFINE w == Written(p, b)
<1>1. Len(b) \in Nat /\ DOMAIN b = 1 .. Len(b) /\ \A j \in 1 .. Len(b) : b[j] \in Items
  OBVIOUS
<1>2. w = [i \in 1 .. Len(b) |-> [item |-> b[i], by |-> p]]
  BY <1>1 DEF Written
<1>3. \A j \in 1 .. Len(b) : [item |-> b[j], by |-> p] \in Records
  BY <1>1 DEF Records
<1>4. w \in Seq(Records)
  BY <1>1, <1>2, <1>3, IsASeq
<1>5. Len(w) = Len(b) /\ \A j \in 1 .. Len(b) : w[j].item = b[j]
  BY <1>1, <1>2
<1> HIDE DEF w
<1>6. s \o w \in Seq(Records) /\ Len(s \o w) = Len(s) + Len(w)
  BY <1>4
<1>7. \A k \in 1 .. Len(s) : (s \o w)[k] = s[k]
  BY <1>4
<1>8. \A j \in 1 .. Len(w) : (s \o w)[Len(s) + j] = w[j]
  BY <1>4
<1>9. DOMAIN (s \o w) = 1 .. Len(s) + Len(b)
  BY <1>5, <1>6
<1> QED BY <1>5, <1>6, <1>7, <1>8, <1>9 DEF w

LEMMA PlacesFunction ==
  ASSUME OutputTypes
  PROVE  AllPlaces \in [Writers -> SUBSET (Folders \X Nat)]
<1>1. \A p \in Writers : PlacesIn(stack[p], job[p]) \in SUBSET (Folders \X Nat)
  BY PlacesTyped DEF OutputTypes
<1> QED BY <1>1 DEF AllPlaces

\* Over an entry that is no folder, whatever process is forked for it.
LEMMA AdvanceShape ==
  ASSUME NEW E, Shape(E), NEW p \in Writers, HasEntry(p), Entry(p) \notin Folders,
         NEW t \in Seq(OutputFrames), Advanced(stack[p], t), stack'[p] = t, state'[p] = state[p], job'[p] = job[p],
         OutputTypes',
         \A q \in Writers \ {p} : \/ state'[q] = state[q] /\ stack'[q] = stack[q] /\ job'[q] = job[q]
                                  \/ /\ state[q] = "none" /\ state'[q] = "item" /\ separate' /\ Entry(p) \in Items
                                     /\ stack'[q] = stack[p] /\ job'[q] = Entry(p),
         separate' = separate
  PROVE  /\ Shape(E)' /\ ~PassedIn(AllPlaces, E, Top(p).folder, Top(p).next)
         /\ AlsoPassed(AllPlaces, AllPlaces', E, Top(p).folder, Top(p).next)
<1>0. PICK f, n : f = Top(p).folder /\ n = Top(p).next
  OBVIOUS
<1>1. /\ stack[p] \in Seq(OutputFrames) /\ NestedIn(stack[p]) /\ state[p] = "running"
      /\ Len(stack[p]) \in DOMAIN stack[p] /\ stack[p] # <<>>
      /\ Top(p) = stack[p][Len(stack[p])] /\ \E e \in DOMAIN stack[p] : stack[p][e].folder = job[p]
      /\ f \in Folders /\ n \in Nat /\ n \in DOMAIN Entries[f] /\ Entries[f][n] \notin Folders
      /\ n <= Len(Entries[f]) /\ Entry(p) = Entries[f][n]
      /\ f = stack[p][Len(stack[p])].folder /\ n = stack[p][Len(stack[p])].next
  BY <1>0, AtWorkFrames DEF Shape
<1>2. /\ PlacesIn(t, job[p]) = (PlacesIn(stack[p], job[p]) \ {<<f, n>>}) \cup {<<f, n + 1>>}
      /\ <<f, n>> \in PlacesIn(stack[p], job[p])
  BY <1>1, PlacesAdvanced
<1>3. \A q \in Writers : AllPlaces'[q] = IF q = p THEN (AllPlaces[p] \ {<<f, n>>}) \cup {<<f, n + 1>>} ELSE AllPlaces[q]
  <2>1. \A q \in Writers \ {p} : /\ state'[q] = "running" <=> state[q] = "running"
                                 /\ state[q] = "running" => stack'[q] = stack[q] /\ job'[q] = job[q]
    OBVIOUS
  <2>2. AllPlaces[p] = PlacesIn(stack[p], job[p])
    BY <1>1 DEF AllPlaces
  <2>3. \A q \in Writers : AllPlaces'[q] = IF q = p THEN (AllPlaces[p] \ {<<f, n>>}) \cup {<<f, n + 1>>} ELSE AllPlaces[q]
    <3> TAKE q \in Writers
    <3>1. CASE q = p
      <4>1. AllPlaces'[p] = PlacesIn(t, job[p])
        BY <1>1 DEF AllPlaces
      <4> QED BY <1>2, <2>2, <3>1, <4>1
    <3>2. CASE q # p
      BY <2>1, <3>2 DEF AllPlaces
    <3> QED BY <3>1, <3>2
  <2> QED BY <2>3
<1>4. GoesOver(AllPlaces, AllPlaces', p, f, n) /\ <<f, n>> \in AllPlaces[p]
  <2>1. <<f, n>> \in AllPlaces[p] /\ p \in DOMAIN AllPlaces
    BY <1>1, <1>2 DEF AllPlaces
  <2>2. \A q \in Writers : AllPlaces'[q] = IF q = p THEN (AllPlaces[p] \ {<<f, n>>}) \cup {<<f, n + 1>>} ELSE AllPlaces[q]
    BY <1>3
  <2> QED BY <2>1, <2>2 DEF GoesOver
<1>5. E \in SUBSET Folders /\ ProgressIn(AllPlaces, E)
  BY DEF Shape
<1>6. /\ ProgressIn(AllPlaces', E) /\ ~PassedIn(AllPlaces, E, f, n)
      /\ AlsoPassed(AllPlaces, AllPlaces', E, f, n)
  BY <1>1, <1>4, <1>5, PlaceAdvances
<1>7. WritersKnown'
  <2> SUFFICES ASSUME NEW q \in Writers
               PROVE  /\ NestedIn(stack'[q])
                      /\ state'[q] \in {"none", "exited"} => stack'[q] = <<>>
                      /\ state'[q] = "running" => \E d \in DOMAIN stack'[q] : stack'[q][d].folder = job'[q]
                      /\ state'[q] = "item" =>
                           /\ separate' /\ stack'[q] # <<>> /\ job'[q] \in Items
                           /\ Top(q)'.next <= Len(Entries[Top(q)'.folder]) /\ Entry(q)' = job'[q]
    BY DEF WritersKnown
  <2>1. CASE q = p
    <3>1. NestedIn(t)
      BY <1>1, NestedAdvanced
    <3>2. DOMAIN t = DOMAIN stack[p] /\ \A e \in DOMAIN t : t[e].folder = stack[p][e].folder
      BY <1>1, FramesTyped DEF Advanced
    <3> QED BY <1>1, <2>1, <3>1, <3>2
  <2>2. CASE q # p /\ state'[q] = state[q] /\ stack'[q] = stack[q] /\ job'[q] = job[q]
    <3>1. Top(q)' = Top(q) /\ Entry(q)' = Entry(q)
      BY <2>2 DEF Top, Entry
    <3> QED BY <2>2, <3>1 DEF Shape, WritersKnown
  <2>3. CASE /\ q # p /\ state[q] = "none" /\ state'[q] = "item" /\ separate' /\ Entry(p) \in Items
             /\ stack'[q] = stack[p] /\ job'[q] = Entry(p)
    <3>1. Top(q)' = Top(p)
      BY <2>3 DEF Top
    <3>2. Entry(q)' = Entry(p)
      BY <3>1 DEF Entry
    <3> QED BY <1>1, <2>3, <3>1, <3>2
  <2> QED BY <2>1, <2>2, <2>3
<1> QED BY <1>0, <1>5, <1>6, <1>7 DEF Shape

\* Into a folder.
LEMMA EnterShape ==
  ASSUME NEW E, Shape(E), NEW p \in Writers, HasEntry(p), NEW g \in Folders, g = Entry(p),
         NEW t \in Seq(OutputFrames), Advanced(stack[p], t), stack'[p] = Append(t, NewFrame(g)),
         state' = state, job' = job, separate' = separate, OutputTypes',
         \A q \in Writers \ {p} : stack'[q] = stack[q]
  PROVE  Shape(E \cup {g})' /\ SamePassed(AllPlaces, AllPlaces', E, E \cup {g})
<1>0. PICK f, n : f = Top(p).folder /\ n = Top(p).next
  OBVIOUS
<1>1. /\ stack[p] \in Seq(OutputFrames) /\ NestedIn(stack[p]) /\ state[p] = "running"
      /\ stack[p] # <<>> /\ \E e \in DOMAIN stack[p] : stack[p][e].folder = job[p]
      /\ f \in Folders /\ n \in Nat /\ n \in DOMAIN Entries[f] /\ Entries[f][n] = g /\ n <= Len(Entries[f])
      /\ f = stack[p][Len(stack[p])].folder /\ n = stack[p][Len(stack[p])].next
  BY <1>0, AtWorkFrames DEF Shape
<1>2. /\ PlacesIn(t, job[p]) = (PlacesIn(stack[p], job[p]) \ {<<f, n>>}) \cup {<<f, n + 1>>}
      /\ <<f, n>> \in PlacesIn(stack[p], job[p])
  <2>1. PICK s, j : s = stack[p] /\ j = job[p]
    OBVIOUS
  <2>2. /\ s \in Seq(OutputFrames) /\ NestedIn(s) /\ Advanced(s, t) /\ \E e \in DOMAIN s : s[e].folder = j
        /\ f = s[Len(s)].folder /\ n = s[Len(s)].next
    BY <1>1, <2>1
  <2>3. /\ PlacesIn(t, j) = (PlacesIn(s, j) \ {<<f, n>>}) \cup {<<f, n + 1>>}
        /\ <<f, n>> \in PlacesIn(s, j)
    BY ONLY <2>2, t \in Seq(OutputFrames), PlacesAdvanced
  <2> QED BY <2>1, <2>3
<1>3. DOMAIN t = DOMAIN stack[p] /\ \A e \in DOMAIN t : t[e].folder = stack[p][e].folder
  BY <1>1, FramesTyped DEF Advanced
<1>4. PlacesIn(Append(t, NewFrame(g)), job[p]) = PlacesIn(t, job[p]) \cup {<<g, 1>>}
  BY <1>1, <1>3, PlacesEntered
<1>5. Enters(AllPlaces, AllPlaces', p, f, n, p, g) /\ <<f, n>> \in AllPlaces[p]
  <2>1. AllPlaces[p] = PlacesIn(stack[p], job[p])
    BY <1>1 DEF AllPlaces
  <2>2. AllPlaces'[p] = PlacesIn(Append(t, NewFrame(g)), job[p])
    BY <1>1 DEF AllPlaces
  <2>3. \A q \in Writers : q # p => AllPlaces'[q] = AllPlaces[q]
    BY DEF AllPlaces
  <2>4. AllPlaces'[p] = (AllPlaces[p] \ {<<f, n>>}) \cup {<<f, n + 1>>} \cup {<<g, 1>>}
    BY <1>2, <1>4, <2>1, <2>2
  <2>5. <<f, n>> \in AllPlaces[p]
    BY <1>2, <2>1
  <2> QED BY <2>3, <2>4, <2>5 DEF Enters
<1>6. E \in SUBSET Folders /\ ProgressIn(AllPlaces, E)
  BY DEF Shape
<1>7. ProgressIn(AllPlaces', E \cup {g}) /\ SamePassed(AllPlaces, AllPlaces', E, E \cup {g})
  <2>1. PICK P, Q : P = AllPlaces /\ Q = AllPlaces'
    OBVIOUS
  <2>2. Enters(P, Q, p, f, n, p, g) /\ <<f, n>> \in P[p] /\ ProgressIn(P, E)
    BY <1>5, <1>6, <2>1
  <2>3. f \in Folders /\ n \in DOMAIN Entries[f] /\ Entries[f][n] = g
    BY <1>1
  <2>4. ProgressIn(Q, E \cup {g}) /\ SamePassed(P, Q, E, E \cup {g})
    BY ONLY <2>2, <2>3, p \in Writers, g \in Folders, PlaceEntered
  <2> QED BY <2>1, <2>4
<1>8. WritersKnown'
  <2> SUFFICES ASSUME NEW q \in Writers
               PROVE  /\ NestedIn(stack'[q])
                      /\ state'[q] \in {"none", "exited"} => stack'[q] = <<>>
                      /\ state'[q] = "running" => \E d \in DOMAIN stack'[q] : stack'[q][d].folder = job'[q]
                      /\ state'[q] = "item" =>
                           /\ separate' /\ stack'[q] # <<>> /\ job'[q] \in Items
                           /\ Top(q)'.next <= Len(Entries[Top(q)'.folder]) /\ Entry(q)' = job'[q]
    BY DEF WritersKnown
  <2>1. CASE q = p
    <3>1. NestedIn(Append(t, NewFrame(g)))
      BY <1>1, NestedEntered
    <3>2. \E d \in DOMAIN stack'[p] : stack'[p][d].folder = job[p]
      BY <1>1, <1>3, AppendFrame
    <3> QED BY <1>1, <2>1, <3>1, <3>2
  <2>2. CASE q # p
    <3>1. stack'[q] = stack[q]
      BY <2>2
    <3>2. Top(q)' = Top(q) /\ Entry(q)' = Entry(q)
      BY <3>1 DEF Top, Entry
    <3> QED BY <3>1, <3>2 DEF Shape, WritersKnown
  <2> QED BY <2>1, <2>2
<1> QED BY <1>6, <1>7, <1>8 DEF Shape

\* A folder is left to a child.
LEMMA ForkShape ==
  ASSUME NEW E, Shape(E), NEW p \in Writers, HasEntry(p), NEW g \in Folders, g = Entry(p),
         NEW t \in Seq(OutputFrames), Advanced(stack[p], t), NEW c \in Writers, state[c] = "none",
         stack'[p] = t, stack'[c] = Append(t, NewFrame(g)), state'[c] = "running", job'[c] = g,
         separate' = separate, OutputTypes',
         \A q \in Writers \ {c} : state'[q] = state[q] /\ job'[q] = job[q] /\ (q # p => stack'[q] = stack[q])
  PROVE  Shape(E \cup {g})' /\ SamePassed(AllPlaces, AllPlaces', E, E \cup {g})
<1>0. PICK f, n : f = Top(p).folder /\ n = Top(p).next
  OBVIOUS
<1>1. /\ stack[p] \in Seq(OutputFrames) /\ NestedIn(stack[p]) /\ state[p] = "running" /\ p # c
      /\ stack[p] # <<>> /\ \E e \in DOMAIN stack[p] : stack[p][e].folder = job[p]
      /\ f \in Folders /\ n \in Nat /\ n \in DOMAIN Entries[f] /\ Entries[f][n] = g /\ n <= Len(Entries[f])
      /\ f = stack[p][Len(stack[p])].folder /\ n = stack[p][Len(stack[p])].next
  BY <1>0, AtWorkFrames DEF Shape
<1>2. /\ PlacesIn(t, job[p]) = (PlacesIn(stack[p], job[p]) \ {<<f, n>>}) \cup {<<f, n + 1>>}
      /\ <<f, n>> \in PlacesIn(stack[p], job[p])
  <2>1. PICK s, j : s = stack[p] /\ j = job[p]
    OBVIOUS
  <2>2. /\ s \in Seq(OutputFrames) /\ NestedIn(s) /\ Advanced(s, t) /\ \E e \in DOMAIN s : s[e].folder = j
        /\ f = s[Len(s)].folder /\ n = s[Len(s)].next
    BY <1>1, <2>1
  <2>3. /\ PlacesIn(t, j) = (PlacesIn(s, j) \ {<<f, n>>}) \cup {<<f, n + 1>>}
        /\ <<f, n>> \in PlacesIn(s, j)
    BY ONLY <2>2, t \in Seq(OutputFrames), PlacesAdvanced
  <2> QED BY <2>1, <2>3
<1>3. DOMAIN t = DOMAIN stack[p] /\ \A e \in DOMAIN t : t[e].folder = stack[p][e].folder
  BY <1>1, FramesTyped DEF Advanced
<1>4. NestedIn(t) /\ NestedIn(Append(t, NewFrame(g)))
  BY <1>1, NestedAdvanced, NestedEntered
<1>5. PlacesIn(Append(t, NewFrame(g)), g) = {<<g, 1>>}
  BY <1>4, PlacesForked
<1>6. Enters(AllPlaces, AllPlaces', p, f, n, c, g) /\ <<f, n>> \in AllPlaces[p]
  <2>1. AllPlaces[p] = PlacesIn(stack[p], job[p]) /\ AllPlaces[c] = {}
    BY <1>1 DEF AllPlaces
  <2>2. AllPlaces'[p] = PlacesIn(t, job[p]) /\ AllPlaces'[c] = {<<g, 1>>}
    BY <1>1, <1>5 DEF AllPlaces
  <2>3. \A q \in Writers : q # p /\ q # c => AllPlaces'[q] = AllPlaces[q]
    BY DEF AllPlaces
  <2>4. AllPlaces'[p] = (AllPlaces[p] \ {<<f, n>>}) \cup {<<f, n + 1>>}
    BY <1>2, <2>1, <2>2
  <2>5. <<f, n>> \in AllPlaces[p]
    BY <1>2, <2>1
  <2> QED BY <1>1, <2>1, <2>2, <2>3, <2>4, <2>5 DEF Enters
<1>7. E \in SUBSET Folders /\ ProgressIn(AllPlaces, E)
  BY DEF Shape
<1>8. ProgressIn(AllPlaces', E \cup {g}) /\ SamePassed(AllPlaces, AllPlaces', E, E \cup {g})
  <2>1. PICK P, Q : P = AllPlaces /\ Q = AllPlaces'
    OBVIOUS
  <2>2. Enters(P, Q, p, f, n, c, g) /\ <<f, n>> \in P[p] /\ ProgressIn(P, E)
    BY <1>6, <1>7, <2>1
  <2>3. f \in Folders /\ n \in DOMAIN Entries[f] /\ Entries[f][n] = g
    BY <1>1
  <2>4. ProgressIn(Q, E \cup {g}) /\ SamePassed(P, Q, E, E \cup {g})
    BY ONLY <2>2, <2>3, p \in Writers, c \in Writers, g \in Folders, PlaceEntered
  <2> QED BY <2>1, <2>4
<1>9. WritersKnown'
  <2> SUFFICES ASSUME NEW q \in Writers
               PROVE  /\ NestedIn(stack'[q])
                      /\ state'[q] \in {"none", "exited"} => stack'[q] = <<>>
                      /\ state'[q] = "running" => \E d \in DOMAIN stack'[q] : stack'[q][d].folder = job'[q]
                      /\ state'[q] = "item" =>
                           /\ separate' /\ stack'[q] # <<>> /\ job'[q] \in Items
                           /\ Top(q)'.next <= Len(Entries[Top(q)'.folder]) /\ Entry(q)' = job'[q]
    BY DEF WritersKnown
  <2>1. CASE q = p
    BY <1>1, <1>3, <1>4, <2>1
  <2>2. CASE q = c
    <3>1. \E d \in DOMAIN stack'[c] : stack'[c][d].folder = g
      BY AppendFrame
    <3> QED BY <1>4, <2>2, <3>1
  <2>3. CASE q # p /\ q # c
    <3>1. stack'[q] = stack[q] /\ state'[q] = state[q] /\ job'[q] = job[q]
      BY <2>3
    <3>2. Top(q)' = Top(q) /\ Entry(q)' = Entry(q)
      BY <3>1 DEF Top, Entry
    <3> QED BY <3>1, <3>2 DEF Shape, WritersKnown
  <2> QED BY <2>1, <2>2, <2>3
<1> QED BY <1>7, <1>8, <1>9 DEF Shape

\* Out of a folder.
LEMMA LeaveShape ==
  ASSUME NEW E, Shape(E), NEW p \in Writers, LeaveFolder(p), OutputTypes'
  PROVE  Shape(E)' /\ SamePassed(AllPlaces, AllPlaces', E, E)
<1>0. PICK f, n : f = Top(p).folder /\ n = Top(p).next
  OBVIOUS
<1>1. /\ stack[p] \in Seq(OutputFrames) /\ NestedIn(stack[p]) /\ state[p] = "running"
      /\ stack[p] # <<>> /\ \E e \in DOMAIN stack[p] : stack[p][e].folder = job[p]
      /\ f \in Folders /\ n = Len(Entries[f]) + 1
      /\ f = stack[p][Len(stack[p])].folder /\ n = stack[p][Len(stack[p])].next
  BY <1>0, AtWorkFrames DEF Shape, LeaveFolder
<1>2. /\ stack'[p] = Front(stack[p]) /\ \A q \in Writers \ {p} : stack'[q] = stack[q] /\ state'[q] = state[q]
      /\ state'[p] = IF f = job[p] THEN "ending" ELSE "running"
      /\ job' = job /\ separate' = separate
  BY <1>0 DEF LeaveFolder, Shape, OutputTypes
<1>3. /\ f = job[p] => PlacesIn(stack[p], job[p]) = {<<f, n>>}
      /\ f # job[p] => /\ PlacesIn(Front(stack[p]), job[p]) = PlacesIn(stack[p], job[p]) \ {<<f, n>>}
                       /\ \E e \in DOMAIN Front(stack[p]) : Front(stack[p])[e].folder = job[p]
      /\ <<f, n>> \in PlacesIn(stack[p], job[p])
  <2>1. PICK s, j : s = stack[p] /\ j = job[p]
    OBVIOUS
  <2>2. /\ s \in Seq(OutputFrames) /\ NestedIn(s) /\ s # <<>> /\ \E e \in DOMAIN s : s[e].folder = j
        /\ f = s[Len(s)].folder /\ n = s[Len(s)].next
    BY <1>1, <2>1
  <2>3. /\ f = j => PlacesIn(s, j) = {<<f, n>>}
        /\ f # j => /\ PlacesIn(Front(s), j) = PlacesIn(s, j) \ {<<f, n>>}
                    /\ \E e \in DOMAIN Front(s) : Front(s)[e].folder = j
        /\ <<f, n>> \in PlacesIn(s, j)
    BY ONLY <2>2, PlacesLeft
  <2> QED BY <2>1, <2>3
<1>4. Leaves(AllPlaces, AllPlaces', p, f)
  <2>1. AllPlaces[p] = PlacesIn(stack[p], job[p])
    BY <1>1 DEF AllPlaces
  <2>2. AllPlaces'[p] = IF f = job[p] THEN {} ELSE PlacesIn(Front(stack[p]), job[p])
    BY <1>2 DEF AllPlaces
  <2>3. \A q \in Writers : q # p => AllPlaces'[q] = AllPlaces[q]
    BY <1>2 DEF AllPlaces
  <2>4. AllPlaces'[p] = AllPlaces[p] \ {<<f, n>>}
    BY <1>3, <2>1, <2>2
  <2> QED BY <1>1, <2>3, <2>4 DEF Leaves
<1>5. E \in SUBSET Folders /\ ProgressIn(AllPlaces, E)
  BY DEF Shape
<1>6. ProgressIn(AllPlaces', E) /\ SamePassed(AllPlaces, AllPlaces', E, E)
  BY <1>1, <1>4, <1>5, PlaceLeft
<1>7. WritersKnown'
  <2> SUFFICES ASSUME NEW q \in Writers
               PROVE  /\ NestedIn(stack'[q])
                      /\ state'[q] \in {"none", "exited"} => stack'[q] = <<>>
                      /\ state'[q] = "running" => \E d \in DOMAIN stack'[q] : stack'[q][d].folder = job'[q]
                      /\ state'[q] = "item" =>
                           /\ separate' /\ stack'[q] # <<>> /\ job'[q] \in Items
                           /\ Top(q)'.next <= Len(Entries[Top(q)'.folder]) /\ Entry(q)' = job'[q]
    BY DEF WritersKnown
  <2>1. CASE q = p
    <3>1. NestedIn(Front(stack[p]))
      BY <1>1, NestedLeft
    <3> QED BY <1>2, <1>3, <2>1, <3>1
  <2>2. CASE q # p
    <3>1. stack'[q] = stack[q] /\ state'[q] = state[q] /\ job'[q] = job[q]
      BY <1>2, <2>2
    <3>2. Top(q)' = Top(q) /\ Entry(q)' = Entry(q)
      BY <3>1 DEF Top, Entry
    <3> QED BY <1>2, <3>1, <3>2 DEF Shape, WritersKnown
  <2> QED BY <2>1, <2>2
<1> QED BY <1>5, <1>6, <1>7 DEF Shape

\* Steps of processes that are at their end.
LEMMA EndingShape ==
  ASSUME NEW E, Shape(E), OutputTypes', job' = job, separate' = separate,
         \A q \in Writers : \/ state'[q] = state[q] /\ stack'[q] = stack[q]
                            \/ state[q] = "item" /\ state'[q] = "ending" /\ stack'[q] = stack[q]
                            \/ state[q] = "ending" /\ state'[q] = "exited" /\ stack'[q] = <<>>
  PROVE  Shape(E)' /\ AllPlaces' = AllPlaces
<1>1. AllPlaces' = AllPlaces
  <2>1. \A q \in Writers : AllPlaces'[q] = AllPlaces[q]
    BY DEF AllPlaces
  <2> QED BY <2>1 DEF AllPlaces
<1>2. WritersKnown'
  <2> SUFFICES ASSUME NEW q \in Writers
               PROVE  /\ NestedIn(stack'[q])
                      /\ state'[q] \in {"none", "exited"} => stack'[q] = <<>>
                      /\ state'[q] = "running" => \E d \in DOMAIN stack'[q] : stack'[q][d].folder = job'[q]
                      /\ state'[q] = "item" =>
                           /\ separate' /\ stack'[q] # <<>> /\ job'[q] \in Items
                           /\ Top(q)'.next <= Len(Entries[Top(q)'.folder]) /\ Entry(q)' = job'[q]
    BY DEF WritersKnown
  <2>1. CASE state'[q] = state[q] /\ stack'[q] = stack[q]
    <3>1. Top(q)' = Top(q) /\ Entry(q)' = Entry(q)
      BY <2>1 DEF Top, Entry
    <3> QED BY <2>1, <3>1 DEF Shape, WritersKnown
  <2>2. CASE state[q] = "item" /\ state'[q] = "ending" /\ stack'[q] = stack[q]
    BY <2>2 DEF Shape, WritersKnown
  <2>3. CASE state[q] = "ending" /\ state'[q] = "exited" /\ stack'[q] = <<>>
    BY <2>3 DEF NestedIn
  <2> QED BY <2>1, <2>2, <2>3
<1> QED BY <1>1, <1>2 DEF Shape

-----------------------------------------------------------------------------
\* Buffers and files.

\* An item at the next entry joins the buffer.
LEMMA BufferAppended ==
  ASSUME NEW s \in OutputFrames, NEW F, BufferFor(s, F), s.next \in DOMAIN Entries[s.folder],
         NEW i \in Items, Entries[s.folder][s.next] = i,
         NEW t, t.folder = s.folder, t.next = s.next + 1, t.buffer = Append(s.buffer, i)
  PROVE  BufferFor(t, F)
<1>0. PICK f, n, b, a : f = s.folder /\ n = s.next /\ b = s.buffer /\ a = t.buffer
  OBVIOUS
<1>1. /\ f \in Folders /\ n \in Nat /\ b \in Seq(Items) /\ n \in DOMAIN Entries[f] /\ Entries[f][n] = i
      /\ n >= 1 /\ a = Append(b, i)
  BY <1>0 DEF OutputFrames
<1>2. /\ a \in Seq(Items) /\ DOMAIN a = 1 .. Len(b) + 1 /\ a[Len(b) + 1] = i /\ Len(b) \in Nat
      /\ DOMAIN b = 1 .. Len(b) /\ \A j \in DOMAIN b : a[j] = b[j] /\ j \in DOMAIN a /\ j \in Nat
  BY <1>1
<1>3. /\ \A x \in 1 .. n - 1 : Entries[f][x] \in Items => Entries[f][x] \in ToSet(b) \cup F
      /\ \A j \in DOMAIN b :
           /\ \E x \in 1 .. n - 1 : Entries[f][x] = b[j]
           /\ Earlier(f, b[j]) \subseteq F \cup {b[k] : k \in 1 .. j - 1}
           /\ \A k \in DOMAIN b : b[k] = b[j] => k = j
  BY <1>0 DEF BufferFor
<1>4. ToSet(a) = ToSet(b) \cup {i}
  BY <1>2 DEF ToSet
<1>5. \A x \in 1 .. n : x = n \/ x \in 1 .. n - 1
  BY <1>1
<1>6. \A x \in 1 .. n - 1 : x \in DOMAIN Entries[f] /\ x # n /\ x < n /\ x \in 1 .. n
  BY <1>1, EntriesTyped
<1>7. \A j \in DOMAIN b : b[j] # i
  BY <1>1, <1>3, <1>6, OnePlace
<1>8. \A j \in DOMAIN a : j = Len(b) + 1 \/ j \in DOMAIN b
  BY <1>2
<1>9. \A x \in 1 .. n : Entries[f][x] \in Items => Entries[f][x] \in ToSet(a) \cup F
  BY <1>1, <1>3, <1>4, <1>5
<1>10. ASSUME NEW j \in DOMAIN a
       PROVE  /\ \E x \in 1 .. n : Entries[f][x] = a[j]
              /\ Earlier(f, a[j]) \subseteq F \cup {a[k] : k \in 1 .. j - 1}
              /\ \A k \in DOMAIN a : a[k] = a[j] => k = j
  <2>1. CASE j \in DOMAIN b
    <3>1. a[j] = b[j] /\ \A k \in 1 .. j - 1 : k \in DOMAIN b /\ a[k] = b[k]
      BY <1>2, <2>1
    <3>2. {a[k] : k \in 1 .. j - 1} = {b[k] : k \in 1 .. j - 1}
      BY <3>1
    <3>3. \E x \in 1 .. n : Entries[f][x] = a[j]
      BY <1>3, <1>6, <2>1, <3>1
    <3>4. Earlier(f, a[j]) \subseteq F \cup {a[k] : k \in 1 .. j - 1}
      BY <1>3, <2>1, <3>1, <3>2
    <3>5. \A k \in DOMAIN a : a[k] = a[j] => k = j
      BY <1>2, <1>3, <1>7, <1>8, <2>1, <3>1
    <3> QED BY <3>3, <3>4, <3>5
  <2>2. CASE j = Len(b) + 1
    <3>1. a[j] = i /\ n \in 1 .. n
      BY <1>1, <1>2, <2>2
    <3>2. Earlier(f, i) \subseteq F \cup ToSet(b)
      <4> SUFFICES ASSUME NEW e \in Earlier(f, i) PROVE e \in F \cup ToSet(b)
        OBVIOUS
      <4>1. PICK x, y \in DOMAIN Entries[f] : x < y /\ Entries[f][x] = e /\ Entries[f][y] = i /\ e \in Items
        BY DEF Earlier
      <4>2. y = n
        BY <1>1, <4>1, OnePlace
      <4>3. x \in 1 .. n - 1
        BY <1>1, <4>1, <4>2, EntriesTyped
      <4> QED BY <1>3, <4>1, <4>3
    <3>3. ToSet(b) = {a[k] : k \in 1 .. j - 1}
      <4>1. 1 .. j - 1 = DOMAIN b
        BY <1>2, <2>2
      <4> QED BY <1>2, <4>1 DEF ToSet
    <3>4. \A k \in DOMAIN a : a[k] = a[j] => k = j
      BY <1>2, <1>7, <1>8, <2>2, <3>1
    <3> QED BY <1>1, <3>1, <3>2, <3>3, <3>4
  <2> QED BY <1>8, <2>1, <2>2
<1>11. t.next - 1 = n
  BY <1>0, <1>1
<1> QED BY <1>0, <1>9, <1>10, <1>11 DEF BufferFor

\* The parts of a buffer of which k items go to the file.
LEMMA BufferParts ==
  ASSUME NEW a \in Seq(Items), NEW k \in 0 .. Len(a)
  PROVE  /\ SubSeq(a, 1, k) \in Seq(Items) /\ Len(SubSeq(a, 1, k)) = k /\ \A j \in 1 .. k : SubSeq(a, 1, k)[j] = a[j]
         /\ SubSeq(a, k + 1, Len(a)) \in Seq(Items) /\ Len(SubSeq(a, k + 1, Len(a))) = Len(a) - k
         /\ \A j \in 1 .. Len(a) - k : SubSeq(a, k + 1, Len(a))[j] = a[k + j]
<1>1. Len(a) \in Nat /\ k \in Nat /\ k <= Len(a) /\ \A j \in 1 .. Len(a) : a[j] \in Items
  OBVIOUS
<1>2. SubSeq(a, 1, k) = [j \in 1 .. k |-> a[j]]
  BY <1>1
<1>3. SubSeq(a, k + 1, Len(a)) = [j \in 1 .. Len(a) - k |-> a[k + j]]
  BY <1>1
<1>4. \A j \in 1 .. k : a[j] \in Items
  BY <1>1
<1>5. [j \in 1 .. k |-> a[j]] \in Seq(Items)
  BY <1>1, <1>4, IsASeq
<1>6. Len(a) - k \in Nat /\ \A j \in 1 .. Len(a) - k : a[k + j] \in Items
  BY <1>1
<1>7. [j \in 1 .. Len(a) - k |-> a[k + j]] \in Seq(Items)
  BY <1>6, IsASeq
<1> QED BY <1>1, <1>2, <1>3, <1>5, <1>6, <1>7

\* Some of it goes to the file.
LEMMA BufferSpilled ==
  ASSUME NEW s, NEW F, BufferFor(s, F), s.buffer \in Seq(Items), NEW k \in 0 .. Len(s.buffer),
         NEW t, t.folder = s.folder, t.next = s.next, t.buffer = SubSeq(s.buffer, k + 1, Len(s.buffer))
  PROVE  /\ BufferFor(t, F \cup ToSet(SubSeq(s.buffer, 1, k)))
         /\ ToSet(s.buffer) = ToSet(t.buffer) \cup ToSet(SubSeq(s.buffer, 1, k))
         /\ ToSet(t.buffer) \cap ToSet(SubSeq(s.buffer, 1, k)) = {}
<1>0. PICK f, n, a, l, r : f = s.folder /\ n = s.next /\ a = s.buffer /\ l = SubSeq(a, 1, k) /\ r = t.buffer
  OBVIOUS
<1>1. a \in Seq(Items) /\ k \in 0 .. Len(a) /\ r = SubSeq(a, k + 1, Len(a))
  BY <1>0
<1>2. /\ l \in Seq(Items) /\ Len(l) = k /\ \A j \in 1 .. k : l[j] = a[j]
      /\ r \in Seq(Items) /\ Len(r) = Len(a) - k /\ \A j \in 1 .. Len(a) - k : r[j] = a[k + j]
  BY <1>0, <1>1, BufferParts
<1>3. /\ Len(a) \in Nat /\ k \in Nat /\ k <= Len(a) /\ DOMAIN a = 1 .. Len(a)
      /\ DOMAIN l = 1 .. k /\ DOMAIN r = 1 .. Len(a) - k
  BY <1>1, <1>2
<1>4. /\ \A x \in 1 .. n - 1 : Entries[f][x] \in Items => Entries[f][x] \in ToSet(a) \cup F
      /\ \A j \in DOMAIN a :
           /\ \E x \in 1 .. n - 1 : Entries[f][x] = a[j]
           /\ Earlier(f, a[j]) \subseteq F \cup {a[i] : i \in 1 .. j - 1}
           /\ \A i \in DOMAIN a : a[i] = a[j] => i = j
  BY <1>0 DEF BufferFor
<1>5. \A j \in DOMAIN a : (j <= k => j \in DOMAIN l) /\ (j > k => j - k \in DOMAIN r /\ k + (j - k) = j)
  BY <1>3
<1>6. ToSet(a) = ToSet(r) \cup ToSet(l)
  <2>1. \A j \in DOMAIN a : a[j] \in ToSet(r) \cup ToSet(l)
    <3> SUFFICES ASSUME NEW j \in DOMAIN a PROVE a[j] \in ToSet(r) \cup ToSet(l)
      OBVIOUS
    <3>1. CASE j <= k
      <4>1. j \in DOMAIN l /\ l[j] = a[j]
        BY <1>2, <1>3, <1>5, <3>1
      <4> QED BY <4>1 DEF ToSet
    <3>2. CASE j > k
      <4>1. j - k \in DOMAIN r /\ r[j - k] = a[j]
        BY <1>2, <1>3, <1>5, <3>2
      <4> QED BY <4>1 DEF ToSet
    <3> QED BY <1>3, <3>1, <3>2
  <2>2. \A j \in DOMAIN l : j \in DOMAIN a /\ l[j] = a[j]
    BY <1>2, <1>3
  <2>3. \A j \in DOMAIN r : k + j \in DOMAIN a /\ r[j] = a[k + j]
    BY <1>2, <1>3
  <2> QED BY <2>1, <2>2, <2>3 DEF ToSet
<1>7. ToSet(r) \cap ToSet(l) = {}
  <2>1. ASSUME NEW i \in DOMAIN r, NEW j \in DOMAIN l, r[i] = l[j] PROVE FALSE
    <3>1. k + i \in DOMAIN a /\ j \in DOMAIN a /\ a[k + i] = a[j] /\ k + i # j
      BY <1>2, <1>3, <2>1
    <3> QED BY <1>4, <3>1
  <2> QED BY <2>1 DEF ToSet
<1>8. \A x \in 1 .. n - 1 : Entries[f][x] \in Items => Entries[f][x] \in ToSet(r) \cup (F \cup ToSet(l))
  BY <1>4, <1>6
<1>9. ASSUME NEW j \in DOMAIN r
      PROVE  /\ \E x \in 1 .. n - 1 : Entries[f][x] = r[j]
             /\ Earlier(f, r[j]) \subseteq (F \cup ToSet(l)) \cup {r[i] : i \in 1 .. j - 1}
             /\ \A i \in DOMAIN r : r[i] = r[j] => i = j
  <2>1. k + j \in DOMAIN a /\ r[j] = a[k + j] /\ j \in Nat
    BY <1>2, <1>3
  <2>2. \E x \in 1 .. n - 1 : Entries[f][x] = r[j]
    BY <1>4, <2>1
  <2>3. ASSUME NEW e \in Earlier(f, r[j]) PROVE e \in (F \cup ToSet(l)) \cup {r[i] : i \in 1 .. j - 1}
    <3>1. e \in F \/ \E i \in 1 .. k + j - 1 : a[i] = e
      BY <1>4, <2>1
    <3>2. ASSUME NEW i \in 1 .. k + j - 1, a[i] = e PROVE e \in (F \cup ToSet(l)) \cup {r[h] : h \in 1 .. j - 1}
      <4>1. CASE i <= k
        <5>1. i \in DOMAIN l /\ l[i] = e
          BY <1>2, <1>3, <3>2, <4>1
        <5> QED BY <5>1 DEF ToSet
      <4>2. CASE i > k
        <5>1. i - k \in 1 .. j - 1 /\ i - k \in 1 .. Len(a) - k /\ k + (i - k) = i
          BY <1>3, <2>1, <4>2
        <5>2. r[i - k] = e
          BY <1>2, <3>2, <5>1
        <5> QED BY <5>1, <5>2
      <4> QED BY <1>3, <2>1, <4>1, <4>2
    <3> QED BY <3>1, <3>2
  <2>4. ASSUME NEW i \in DOMAIN r, r[i] = r[j] PROVE i = j
    <3>1. k + i \in DOMAIN a /\ a[k + i] = a[k + j] /\ i \in Nat
      BY <1>2, <1>3, <2>1, <2>4
    <3>2. k + i = k + j
      BY <1>4, <2>1, <3>1
    <3> QED BY <1>3, <2>1, <3>1, <3>2
  <2> QED BY <2>2, <2>3, <2>4
<1>10. BufferFor(t, F \cup ToSet(l))
  <2> DEFINE Holds(g, m, c) ==
        /\ \A x \in 1 .. m - 1 : Entries[g][x] \in Items => Entries[g][x] \in ToSet(c) \cup (F \cup ToSet(l))
        /\ \A j \in DOMAIN c :
             /\ \E x \in 1 .. m - 1 : Entries[g][x] = c[j]
             /\ Earlier(g, c[j]) \subseteq (F \cup ToSet(l)) \cup {c[i] : i \in 1 .. j - 1}
             /\ \A i \in DOMAIN c : c[i] = c[j] => i = j
  <2>1. Holds(f, n, r)
    BY <1>8, <1>9
  <2> HIDE DEF Holds
  <2>2. Holds(t.folder, t.next, t.buffer)
    BY <1>0, <2>1
  <2> QED BY <2>2 DEF Holds, BufferFor
<1> QED BY <1>0, <1>6, <1>7, <1>10

\* The file gets more, and the next entry is no item.
LEMMA BufferStays ==
  ASSUME NEW s \in OutputFrames, NEW F, BufferFor(s, F), NEW G, F \subseteq G,
         NEW t, t.folder = s.folder, t.buffer = s.buffer,
         \/ t.next = s.next
         \/ t.next = s.next + 1 /\ Entries[s.folder][s.next] \notin Items
  PROVE  BufferFor(t, G)
<1>0. PICK f, n, b, m : f = s.folder /\ n = s.next /\ b = s.buffer /\ m = t.next
  OBVIOUS
<1>1. n \in Nat /\ n >= 1
  BY <1>0 DEF OutputFrames
<1>2. /\ \A x \in 1 .. n - 1 : Entries[f][x] \in Items => Entries[f][x] \in ToSet(b) \cup F
      /\ \A j \in DOMAIN b :
           /\ \E x \in 1 .. n - 1 : Entries[f][x] = b[j]
           /\ Earlier(f, b[j]) \subseteq F \cup {b[i] : i \in 1 .. j - 1}
           /\ \A i \in DOMAIN b : b[i] = b[j] => i = j
  BY <1>0 DEF BufferFor
<1>3. m = n \/ (m = n + 1 /\ Entries[f][n] \notin Items)
  BY <1>0
<1>4. \A x \in 1 .. n - 1 : x \in 1 .. m - 1
  BY <1>1, <1>3
<1>5. \A x \in 1 .. m - 1 : x \in 1 .. n - 1 \/ Entries[f][x] \notin Items
  BY <1>1, <1>3
<1>6. \A x \in 1 .. m - 1 : Entries[f][x] \in Items => Entries[f][x] \in ToSet(b) \cup G
  BY <1>2, <1>5
<1>7. \A j \in DOMAIN b : \E x \in 1 .. m - 1 : Entries[f][x] = b[j]
  BY <1>2, <1>4
<1>8. \A j \in DOMAIN b : Earlier(f, b[j]) \subseteq G \cup {b[i] : i \in 1 .. j - 1}
  BY <1>2
<1> QED BY <1>0, <1>2, <1>6, <1>7, <1>8 DEF BufferFor

\* The text of a file, with the beginning of a buffer behind it.
LEMMA TextGrown ==
  ASSUME NEW f \in Folders, NEW w \in Seq(Records), TextOf(f, w), NEW p \in Writers,
         NEW s, BufferFor(s, ItemsIn(w)), s.folder = f, s.buffer \in Seq(Items), s.next <= Len(Entries[f]) + 1, s.next \in Nat,
         NEW l \in Seq(Items), Len(l) <= Len(s.buffer), \A j \in 1 .. Len(l) : l[j] = s.buffer[j]
  PROVE  /\ TextOf(f, w \o Written(p, l))
         /\ ItemsIn(w \o Written(p, l)) = ItemsIn(w) \cup ToSet(l)
         /\ \A i \in ToSet(l) : i \notin ItemsIn(w) => OnceIn(w \o Written(p, l), i)
         /\ \A i : i \notin ToSet(l) => (OnceIn(w \o Written(p, l), i) <=> OnceIn(w, i))
<1>0. PICK b, n, u : b = s.buffer /\ n = s.next /\ u = w \o Written(p, l)
  OBVIOUS
<1>1. /\ Len(w) \in Nat /\ DOMAIN w = 1 .. Len(w) /\ Len(l) \in Nat /\ DOMAIN l = 1 .. Len(l)
      /\ b \in Seq(Items) /\ Len(b) \in Nat /\ DOMAIN b = 1 .. Len(b) /\ Len(l) <= Len(b)
      /\ \A j \in 1 .. Len(l) : l[j] = b[j] /\ j \in DOMAIN b
  BY <1>0
<1>2. /\ DOMAIN u = 1 .. Len(w) + Len(l)
      /\ \A k \in 1 .. Len(w) : u[k] = w[k]
      /\ \A j \in 1 .. Len(l) : u[Len(w) + j].item = l[j]
  BY <1>0, FileGrown
<1>3. \A k \in DOMAIN u : k \in Nat /\ (k \in DOMAIN w \/ (k > Len(w) /\ k - Len(w) \in DOMAIN l /\ Len(w) + (k - Len(w)) = k))
  <2>1. ASSUME NEW v \in Nat, NEW m \in Nat, NEW k \in 1 .. v + m
        PROVE  k \in Nat /\ (k \in 1 .. v \/ (k > v /\ k - v \in 1 .. m /\ v + (k - v) = k))
    BY ONLY v \in Nat, m \in Nat, k \in 1 .. v + m
  <2>2. DOMAIN u = 1 .. Len(w) + Len(l) /\ DOMAIN w = 1 .. Len(w) /\ DOMAIN l = 1 .. Len(l)
    BY ONLY <1>1, <1>2
  <2>3. Len(w) \in Nat /\ Len(l) \in Nat
    BY <1>1
  <2> QED BY ONLY <2>1, <2>2, <2>3
<1>4. \A k \in DOMAIN w : k \in DOMAIN u /\ u[k] = w[k] /\ k \in Nat /\ k <= Len(w)
  BY <1>1, <1>2
<1>5. \A j \in DOMAIN l : Len(w) + j \in DOMAIN u /\ u[Len(w) + j].item = l[j] /\ j \in Nat /\ j >= 1
  BY <1>1, <1>2
<1>6. ItemsIn(u) = ItemsIn(w) \cup ToSet(l)
  <2>1. \A k \in DOMAIN u : u[k].item \in ItemsIn(w) \cup ToSet(l)
    <3> SUFFICES ASSUME NEW k \in DOMAIN u PROVE u[k].item \in ItemsIn(w) \cup ToSet(l)
      OBVIOUS
    <3>1. CASE k \in DOMAIN w
      BY <1>4, <3>1 DEF ItemsIn
    <3>2. CASE k - Len(w) \in DOMAIN l /\ Len(w) + (k - Len(w)) = k
      <4>1. u[k].item = l[k - Len(w)]
        BY <1>5, <3>2
      <4> QED BY <3>2, <4>1 DEF ToSet
    <3> QED BY <1>3, <3>1, <3>2
  <2>2. \A k \in DOMAIN w : w[k].item \in ItemsIn(u)
    BY <1>4 DEF ItemsIn
  <2>3. \A j \in DOMAIN l : l[j] \in ItemsIn(u)
    <3> TAKE j \in DOMAIN l
    <3>1. Len(w) + j \in DOMAIN u /\ u[Len(w) + j].item = l[j]
      BY <1>5
    <3> QED BY <3>1 DEF ItemsIn
  <2> QED BY <2>1, <2>2, <2>3 DEF ItemsIn, ToSet
<1>7. \A j \in DOMAIN b : /\ \E x \in 1 .. n - 1 : Entries[f][x] = b[j]
                          /\ Earlier(f, b[j]) \subseteq ItemsIn(w) \cup {b[i] : i \in 1 .. j - 1}
                          /\ \A i \in DOMAIN b : b[i] = b[j] => i = j
  BY <1>0 DEF BufferFor
<1>8. TextOf(f, u)
  <2> SUFFICES ASSUME NEW k \in DOMAIN u
               PROVE  /\ u[k].item \in ToSet(Entries[f])
                      /\ Earlier(f, u[k].item) \subseteq {u[j].item : j \in 1 .. k - 1}
    BY DEF TextOf
  <2>1. CASE k \in DOMAIN w
    <3>1. u[k].item \in ToSet(Entries[f]) /\ Earlier(f, u[k].item) \subseteq {w[j].item : j \in 1 .. k - 1}
      BY <1>4, <2>1 DEF TextOf
    <3>2. \A j \in 1 .. k - 1 : u[j] = w[j]
      BY <1>1, <1>4, <2>1
    <3>3. {u[j].item : j \in 1 .. k - 1} = {w[j].item : j \in 1 .. k - 1}
      BY <3>2
    <3> QED BY <3>1, <3>3
  <2>2. CASE k > Len(w) /\ k - Len(w) \in DOMAIN l /\ Len(w) + (k - Len(w)) = k
    <3>1. PICK m \in DOMAIN l : k = Len(w) + m
      BY <2>2
    <3>2. m \in DOMAIN b /\ u[k].item = b[m] /\ m \in Nat /\ m >= 1 /\ m <= Len(l)
      BY <1>1, <1>5, <3>1
    <3>3. u[k].item \in ToSet(Entries[f])
      <4>1. PICK x \in 1 .. n - 1 : Entries[f][x] = b[m]
        BY <1>7, <3>2
      <4>2. x \in DOMAIN Entries[f]
        BY <1>0, EntriesTyped
      <4> QED BY <3>2, <4>1, <4>2 DEF ToSet
    <3>4. ASSUME NEW e \in Earlier(f, u[k].item) PROVE e \in {u[j].item : j \in 1 .. k - 1}
      <4>1. e \in ItemsIn(w) \/ \E i \in 1 .. m - 1 : b[i] = e
        BY <1>7, <3>2
      <4>2. CASE e \in ItemsIn(w)
        <5>1. PICK j \in DOMAIN w : w[j].item = e
          BY <4>2 DEF ItemsIn
        <5>2. j \in 1 .. k - 1 /\ u[j].item = e
          BY <1>1, <1>4, <3>1, <3>2, <5>1
        <5> QED BY <5>2
      <4>3. ASSUME NEW i \in 1 .. m - 1, b[i] = e PROVE e \in {u[j].item : j \in 1 .. k - 1}
        <5>1. i \in DOMAIN l /\ l[i] = b[i]
          BY <1>1, <3>2
        <5>2. Len(w) + i \in 1 .. k - 1 /\ u[Len(w) + i].item = e
          BY <1>1, <1>5, <3>1, <3>2, <4>3, <5>1
        <5> QED BY <5>2
      <4> QED BY <4>1, <4>2, <4>3
    <3> QED BY <3>3, <3>4
  <2> QED BY <1>3, <2>1, <2>2
<1>9. ASSUME NEW i \in ToSet(l), i \notin ItemsIn(w) PROVE OnceIn(u, i)
  <2> SUFFICES ASSUME NEW j \in DOMAIN u, NEW k \in DOMAIN u, u[j].item = i, u[k].item = i PROVE j = k
    BY DEF OnceIn
  <2>1. \A h \in DOMAIN w : w[h].item # i
    BY <1>9 DEF ItemsIn
  <2>2. j \notin DOMAIN w /\ k \notin DOMAIN w
    BY <1>4, <2>1
  <2>3. PICK x \in DOMAIN l, y \in DOMAIN l : j = Len(w) + x /\ k = Len(w) + y
    BY <1>3, <2>2
  <2>4. l[x] = i /\ l[y] = i /\ x \in DOMAIN b /\ y \in DOMAIN b /\ b[x] = i /\ b[y] = i
    BY <1>1, <1>5, <2>3
  <2>5. x = y
    BY <1>7, <2>4
  <2> QED BY <2>3, <2>5
<1>10. ASSUME NEW i, i \notin ToSet(l) PROVE OnceIn(u, i) <=> OnceIn(w, i)
  <2>1. \A k \in DOMAIN u : u[k].item = i => k \in DOMAIN w /\ w[k].item = i
    <3> SUFFICES ASSUME NEW k \in DOMAIN u, u[k].item = i PROVE k \in DOMAIN w /\ w[k].item = i
      OBVIOUS
    <3>1. k \in DOMAIN w
      <4> SUFFICES ASSUME k \notin DOMAIN w PROVE FALSE
        OBVIOUS
      <4>1. k - Len(w) \in DOMAIN l /\ u[k].item = l[k - Len(w)]
        BY <1>3, <1>5
      <4> QED BY <1>10, <4>1 DEF ToSet
    <3> QED BY <1>4, <3>1
  <2>2. \A k \in DOMAIN w : w[k].item = i => k \in DOMAIN u /\ u[k].item = i
    BY <1>4
  <2> QED BY <2>1, <2>2 DEF OnceIn
<1> QED BY <1>0, <1>6, <1>8, <1>9, <1>10

-----------------------------------------------------------------------------
\* What the steps do to the variables.

LEMMA OutputGrown ==
  ASSUME OutputTypes, NEW p \in Writers, NEW k \in Folders \cup Items, NEW b \in Seq(Items),
         output' = [output EXCEPT ![k] = @ \o Written(p, b)]
  PROVE  /\ output' \in [Folders \cup Items -> Seq(Records)] /\ output'[k] = output[k] \o Written(p, b)
         /\ \A f \in Folders \cup Items : f # k => output'[f] = output[f]
<1>1. output \in [Folders \cup Items -> Seq(Records)]
  BY DEF OutputTypes
<1>2. output[k] \o Written(p, b) \in Seq(Records)
  BY <1>1, FileGrown
<1>3. PICK w : w = output[k] \o Written(p, b)
  OBVIOUS
<1>4. output' = [output EXCEPT ![k] = w]
  BY <1>3
<1> QED BY ONLY <1>1, <1>2, <1>3, <1>4, k \in Folders \cup Items

LEMMA StackSet ==
  ASSUME OutputTypes, NEW p \in Writers, NEW u \in Seq(OutputFrames), stack' = [stack EXCEPT ![p] = u]
  PROVE  /\ stack' \in [Writers -> Seq(OutputFrames)] /\ stack'[p] = u
         /\ \A q \in Writers : q # p => stack'[q] = stack[q]
BY DEF OutputTypes

\* The stack of a process that goes on, with buffer b of the innermost stream.
LEMMA TopMoved ==
  ASSUME OutputTypes, WritersKnown, NEW p \in Writers, HasEntry(p), NEW b \in Seq(Items)
  PROVE  /\ MovedOn(p) \in Seq(OutputFrames) /\ Advanced(stack[p], MovedOn(p))
         /\ \A d \in DOMAIN stack[p] : MovedOn(p)[d].buffer = stack[p][d].buffer
         /\ [MovedOn(p) EXCEPT ![Len(stack[p])].buffer = b] \in Seq(OutputFrames)
         /\ Advanced(stack[p], [MovedOn(p) EXCEPT ![Len(stack[p])].buffer = b])
         /\ \A d \in DOMAIN stack[p] :
              [MovedOn(p) EXCEPT ![Len(stack[p])].buffer = b][d].buffer = IF d = Len(stack[p]) THEN b ELSE stack[p][d].buffer
<1>1. PICK s : s = stack[p]
  OBVIOUS
<1>2. s \in Seq(OutputFrames) /\ s # <<>>
  BY <1>1, AtWorkFrames
<1>3. PICK t, u : /\ t = [s EXCEPT ![Len(s)].next = @ + 1] /\ u = [t EXCEPT ![Len(s)].buffer = b]
                  /\ t \in Seq(OutputFrames) /\ Advanced(s, t) /\ \A d \in DOMAIN s : t[d].buffer = s[d].buffer
                  /\ u \in Seq(OutputFrames) /\ Advanced(s, u)
                  /\ \A d \in DOMAIN s : u[d].buffer = IF d = Len(s) THEN b ELSE s[d].buffer
  BY ONLY <1>2, b \in Seq(Items), MovedFrames, Zenon
<1>4. t = MovedOn(p) /\ u = [MovedOn(p) EXCEPT ![Len(stack[p])].buffer = b]
  BY <1>1, <1>3 DEF MovedOn
<1> QED BY ONLY <1>1, <1>3, <1>4

LEMMA AppendSet ==
  ASSUME NEW b \in Seq(Items), NEW i \in Items
  PROVE  ToSet(Append(b, i)) = ToSet(b) \cup {i}
<1>1. PICK a : a = Append(b, i)
  OBVIOUS
<1>2. /\ DOMAIN a = 1 .. Len(b) + 1 /\ a[Len(b) + 1] = i /\ Len(b) \in Nat
      /\ DOMAIN b = 1 .. Len(b) /\ \A j \in DOMAIN b : a[j] = b[j] /\ j \in DOMAIN a
  BY <1>1
<1>3. \A j \in DOMAIN a : j = Len(b) + 1 \/ j \in DOMAIN b
  BY <1>2
<1>4. ToSet(a) = ToSet(b) \cup {i}
  BY <1>2, <1>3 DEF ToSet
<1> QED BY <1>1, <1>4

LEMMA NothingWritten ==
  ASSUME NEW w \in Seq(Records), NEW p
  PROVE  w \o Written(p, <<>>) = w
<1>1. Written(p, <<>>) = <<>>
  BY DEF Written
<1> QED BY <1>1

\* What p has to write to the file of folder f.
LEMMA UnwrittenOf ==
  ASSUME OutputTypes, WritersKnown, NEW p \in Writers, NEW f
  PROVE  /\ \/ Unwritten(p, f) = <<>> /\ \A d \in DOMAIN stack[p] : stack[p][d].folder # f
            \/ \E d \in DOMAIN stack[p] : stack[p][d].folder = f /\ Unwritten(p, f) = stack[p][d].buffer
         /\ Unwritten(p, f) \in Seq(Items)
<1> DEFINE open == {d \in DOMAIN stack[p] : stack[p][d].folder = f}
<1>1. CASE open = {}
  BY <1>1 DEF Unwritten
<1>2. CASE open # {}
  <2>1. PICK d : d = CHOOSE c \in open : TRUE
    OBVIOUS
  <2>2. d \in open
    BY <1>2, <2>1
  <2>3. Unwritten(p, f) = stack[p][d].buffer
    BY <1>2, <2>1 DEF Unwritten
  <2>4. stack[p][d].buffer \in Seq(Items)
    BY <2>2, FramesTyped DEF OutputTypes
  <2> QED BY <2>2, <2>3, <2>4
<1> QED BY <1>1, <1>2

\* What is in a buffer is of the folder of the activation, so in one buffer of a
\* process.
LEMMA BufferHome ==
  ASSUME NEW E, Shape(E), Together(E), NEW p \in Writers, NEW d \in DOMAIN stack[p], NEW i, InBuffer(p, d, i)
  PROVE  /\ \E x \in DOMAIN Entries[stack[p][d].folder] : Entries[stack[p][d].folder][x] = i
         /\ stack[p][d].folder \in Folders
         /\ \A c \in DOMAIN stack[p] : InBuffer(p, c, i) => c = d
<1>1. ASSUME NEW c \in DOMAIN stack[p], InBuffer(p, c, i)
      PROVE  stack[p][c].folder \in Folders /\ \E x \in DOMAIN Entries[stack[p][c].folder] : Entries[stack[p][c].folder][x] = i
  <2>1. PICK j \in DOMAIN stack[p][c].buffer : stack[p][c].buffer[j] = i
    BY <1>1 DEF InBuffer, ToSet
  <2>2. PICK x \in 1 .. stack[p][c].next - 1 : Entries[stack[p][c].folder][x] = i
    BY <2>1 DEF Together, BufferFor
  <2>3. stack[p][c].folder \in Folders /\ stack[p][c].next \in Nat /\ stack[p][c].next <= Len(Entries[stack[p][c].folder]) + 1
    BY FramesTyped DEF Shape, OutputTypes, WritersKnown, NestedIn
  <2>4. x \in DOMAIN Entries[stack[p][c].folder]
    BY <2>3, EntriesTyped
  <2> QED BY <2>2, <2>3, <2>4
<1>2. ASSUME NEW c \in DOMAIN stack[p], InBuffer(p, c, i) PROVE c = d
  <2>1. stack[p][c].folder = stack[p][d].folder
    BY <1>1, <1>2, OnePlace
  <2>2. stack[p] \in Seq(OutputFrames) /\ NestedIn(stack[p])
    BY DEF Shape, OutputTypes, WritersKnown
  <2> QED BY <2>1, <2>2, NestedApart
<1> QED BY <1>1, <1>2

\* An item is kept when it stays where it is, or goes from a buffer to the file.
LEMMA KeptMoves ==
  ASSUME NEW f, NEW i, NEW passed, NEW after, Kept(f, i, passed), passed <=> after, copied' = copied,
         \A q \in Writers : \A d \in DOMAIN stack'[q] : InBuffer(q, d, i)' => d \in DOMAIN stack[q] /\ InBuffer(q, d, i),
         \/ /\ InFile(f, i)' <=> InFile(f, i)
            /\ OnceIn(output'[f], i) <=> OnceIn(output[f], i)
            /\ \A q \in Writers : \A d \in DOMAIN stack[q] : InBuffer(q, d, i) => d \in DOMAIN stack'[q] /\ InBuffer(q, d, i)'
         \/ /\ InFile(f, i)'
            /\ ~InFile(f, i) => OnceIn(output'[f], i)
            /\ \E p \in Writers : /\ \E d \in DOMAIN stack[p] : InBuffer(p, d, i)
                                  /\ \A d \in DOMAIN stack'[p] : ~InBuffer(p, d, i)'
  PROVE  Kept(f, i, after)'
<1>1. ASSUME ~after
      PROVE  /\ i \notin copied' /\ ~InFile(f, i)'
             /\ \A p \in Writers : \A d \in DOMAIN stack'[p] : ~InBuffer(p, d, i)'
  BY <1>1 DEF Kept
<1>2. ASSUME after
      PROVE  InFile(f, i)' \/ \E p \in Writers : \E d \in DOMAIN stack'[p] : InBuffer(p, d, i)'
  BY <1>2 DEF Kept
<1>3. ASSUME i \notin copied'
      PROVE  /\ OnceIn(output'[f], i)
             /\ \A p \in Writers : \A d \in DOMAIN stack'[p] : InBuffer(p, d, i)' =>
                  /\ ~InFile(f, i)'
                  /\ \A q \in Writers : \A e \in DOMAIN stack'[q] : InBuffer(q, e, i)' => p = q
  <2>1. /\ OnceIn(output[f], i)
        /\ \A p \in Writers : \A d \in DOMAIN stack[p] : InBuffer(p, d, i) =>
             /\ ~InFile(f, i)
             /\ \A q \in Writers : \A e \in DOMAIN stack[q] : InBuffer(q, e, i) => p = q
    BY <1>3 DEF Kept
  <2> QED BY <2>1
<1> QED BY <1>1, <1>2, <1>3 DEF Kept

\* An item is kept when process p forks c.
LEMMA KeptCopied ==
  ASSUME NEW f, NEW i, NEW passed, NEW after, Kept(f, i, passed), passed <=> after, output' = output,
         NEW p \in Writers, NEW c \in Writers,
         i \in copied' <=> i \in copied \/ \E d \in DOMAIN stack[p] : InBuffer(p, d, i),
         \A q \in Writers : \A d \in DOMAIN stack[q] : InBuffer(q, d, i) => d \in DOMAIN stack'[q] /\ InBuffer(q, d, i)',
         \A q \in Writers : \A d \in DOMAIN stack'[q] : InBuffer(q, d, i)' =>
           \/ d \in DOMAIN stack[q] /\ InBuffer(q, d, i)
           \/ \E e \in DOMAIN stack[p] : InBuffer(p, e, i)
  PROVE  Kept(f, i, after)'
<1>0. output'[f] = output[f] /\ (InFile(f, i)' <=> InFile(f, i))
  BY DEF InFile
<1>1. ASSUME ~after
      PROVE  /\ i \notin copied' /\ ~InFile(f, i)'
             /\ \A q \in Writers : \A d \in DOMAIN stack'[q] : ~InBuffer(q, d, i)'
  BY <1>0, <1>1 DEF Kept
<1>2. ASSUME after
      PROVE  InFile(f, i)' \/ \E q \in Writers : \E d \in DOMAIN stack'[q] : InBuffer(q, d, i)'
  BY <1>0, <1>2 DEF Kept
<1>3. ASSUME i \notin copied'
      PROVE  /\ OnceIn(output'[f], i)
             /\ \A q \in Writers : \A d \in DOMAIN stack'[q] : InBuffer(q, d, i)' =>
                  /\ ~InFile(f, i)'
                  /\ \A r \in Writers : \A e \in DOMAIN stack'[r] : InBuffer(r, e, i)' => q = r
  <2>1. /\ OnceIn(output[f], i)
        /\ \A q \in Writers : \A d \in DOMAIN stack[q] : InBuffer(q, d, i) =>
             /\ ~InFile(f, i)
             /\ \A r \in Writers : \A e \in DOMAIN stack[r] : InBuffer(r, e, i) => q = r
    BY <1>3 DEF Kept
  <2>2. \A d \in DOMAIN stack[p] : ~InBuffer(p, d, i)
    BY <1>3
  <2> QED BY <1>0, <2>1, <2>2
<1> QED BY <1>1, <1>2, <1>3 DEF Kept

LEMMA ApartSame ==
  ASSUME NEW i, NEW passed, NEW after, KeptApart(i, passed), passed <=> after, output'[i] = output[i],
         \A p \in Writers : Writing(p, i)' <=> Writing(p, i)
  PROVE  KeptApart(i, after)'
BY DEF KeptApart

-----------------------------------------------------------------------------
\* Every step keeps the invariant.

LEMMA WriteItemStep ==
  ASSUME NEW E, WritersInv(E), NEW p \in Writers, WriteItem(p)
  PROVE  WritersInv(E)'
<1>0. PICK f, n, b, i, a, m : /\ f = Top(p).folder /\ n = Top(p).next /\ b = Top(p).buffer /\ i = Entry(p)
                              /\ a = Append(b, i) /\ m = Len(stack[p])
  OBVIOUS
<1>1. PICK k \in 0 .. Len(a) :
        /\ output' = [output EXCEPT ![f] = @ \o Written(p, SubSeq(a, 1, k))]
        /\ stack' = [stack EXCEPT ![p] = [MovedOn(p) EXCEPT ![Len(stack[p])].buffer = SubSeq(a, k + 1, Len(a))]]
  BY <1>0 DEF WriteItem
<1>2. PICK l, r, u : /\ l = SubSeq(a, 1, k) /\ r = SubSeq(a, k + 1, Len(a))
                     /\ u = [MovedOn(p) EXCEPT ![Len(stack[p])].buffer = r]
  OBVIOUS
<1>3. /\ HasEntry(p) /\ i \in Items /\ ~separate /\ UNCHANGED <<separate, state, job, elder, copied>>
  BY <1>0 DEF WriteItem
<1>4. Shape(E) /\ Together(E) /\ OutputTypes /\ WritersKnown
  BY <1>3 DEF WritersInv, Shape
<1>5. /\ stack[p] \in Seq(OutputFrames) /\ NestedIn(stack[p]) /\ state[p] = "running"
      /\ m \in DOMAIN stack[p] /\ stack[p] # <<>> /\ Top(p) = stack[p][m]
      /\ f \in Folders /\ n \in Nat /\ b \in Seq(Items) /\ n \in DOMAIN Entries[f] /\ Entries[f][n] = i
      /\ n <= Len(Entries[f]) /\ f = stack[p][m].folder /\ n = stack[p][m].next /\ b = stack[p][m].buffer
  BY <1>0, <1>3, <1>4, AtWorkFrames
<1>6. i \notin Folders
  BY <1>3, ItemsApart
<1>7. /\ a \in Seq(Items) /\ l \in Seq(Items) /\ Len(l) = k /\ \A j \in 1 .. k : l[j] = a[j]
      /\ r \in Seq(Items) /\ k <= Len(a)
  <2>1. a \in Seq(Items) /\ Len(a) \in Nat
    BY <1>0, <1>3, <1>5
  <2>2. k <= Len(a)
    BY <2>1
  <2> QED BY <1>2, <2>1, <2>2, BufferParts
<1>8. /\ u \in Seq(OutputFrames) /\ Advanced(stack[p], u)
      /\ \A d \in DOMAIN stack[p] : u[d].buffer = IF d = m THEN r ELSE stack[p][d].buffer
  <2>1. /\ [MovedOn(p) EXCEPT ![Len(stack[p])].buffer = r] \in Seq(OutputFrames)
        /\ Advanced(stack[p], [MovedOn(p) EXCEPT ![Len(stack[p])].buffer = r])
        /\ \A d \in DOMAIN stack[p] :
             [MovedOn(p) EXCEPT ![Len(stack[p])].buffer = r][d].buffer = IF d = Len(stack[p]) THEN r ELSE stack[p][d].buffer
    BY ONLY <1>3, <1>4, <1>7, p \in Writers, TopMoved, Zenon
  <2> QED BY ONLY <1>0, <1>2, <2>1
<1>9. /\ stack' \in [Writers -> Seq(OutputFrames)] /\ stack'[p] = u
      /\ \A q \in Writers : q # p => stack'[q] = stack[q]
  <2>1. stack' = [stack EXCEPT ![p] = u]
    BY <1>1, <1>2
  <2> QED BY ONLY <1>4, <1>8, <2>1, p \in Writers, StackSet
<1>10. /\ output' \in [Folders \cup Items -> Seq(Records)] /\ output'[f] = output[f] \o Written(p, l)
       /\ \A g \in Folders \cup Items : g # f => output'[g] = output[g]
  <2>1. output' = [output EXCEPT ![f] = @ \o Written(p, l)] /\ f \in Folders \cup Items
    BY <1>1, <1>2, <1>5
  <2> QED BY ONLY <1>4, <1>7, <2>1, p \in Writers, OutputGrown
<1>11. OutputTypes'
  BY <1>3, <1>4, <1>9, <1>10 DEF OutputTypes
<1>12. /\ Shape(E)' /\ ~PassedIn(AllPlaces, E, f, n)
       /\ AlsoPassed(AllPlaces, AllPlaces', E, f, n)
  <2>1. /\ stack'[p] = u /\ state'[p] = state[p] /\ job'[p] = job[p] /\ separate' = separate
        /\ \A q \in Writers \ {p} : state'[q] = state[q] /\ stack'[q] = stack[q] /\ job'[q] = job[q]
        /\ Entry(p) \notin Folders
    BY <1>0, <1>3, <1>6, <1>9
  <2>2. /\ Shape(E)' /\ ~PassedIn(AllPlaces, E, Top(p).folder, Top(p).next)
        /\ AlsoPassed(AllPlaces, AllPlaces', E, Top(p).folder, Top(p).next)
    BY <1>3, <1>4, <1>8, <1>11, <2>1, AdvanceShape
  <2> QED BY <1>0, <2>2
\* The buffer with the item, and the file with the beginning of it.
<1> DEFINE w == output[f]
           F == ItemsIn(w)
           s1 == [folder |-> f, next |-> n + 1, buffer |-> a]
<1>13. w \in Seq(Records) /\ TextOf(f, w) /\ BufferFor(stack[p][m], F)
  <2>1. w \in Seq(Records)
    BY <1>4, <1>5 DEF OutputTypes
  <2>2. BufferFor(stack[p][m], ItemsIn(output[stack[p][m].folder]))
    BY <1>4, <1>5 DEF Together
  <2> QED BY <1>4, <1>5, <2>1, <2>2 DEF Together
<1>14. BufferFor(s1, F)
  <2>1. PICK s : s = stack[p][m]
    OBVIOUS
  <2>2. /\ s \in OutputFrames /\ BufferFor(s, F) /\ s.next \in DOMAIN Entries[s.folder] /\ Entries[s.folder][s.next] = i
        /\ s1.folder = s.folder /\ s1.next = s.next + 1 /\ s1.buffer = Append(s.buffer, i)
    <3>1. s \in OutputFrames
      BY <1>5, <2>1, FramesTyped
    <3> QED BY <1>0, <1>5, <1>13, <2>1, <3>1
  <2>3. PICK t, G : t = s1 /\ G = F
    OBVIOUS
  <2>4. /\ BufferFor(s, G) /\ t.folder = s.folder /\ t.next = s.next + 1 /\ t.buffer = Append(s.buffer, i)
    BY <2>2, <2>3
  <2>5. BufferFor(t, G)
    BY ONLY <1>3, <2>2, <2>4, BufferAppended
  <2> QED BY <2>3, <2>5
<1>15. /\ s1.folder = f /\ s1.next = n + 1 /\ s1.buffer = a
  OBVIOUS
<1> HIDE DEF s1
<1>16. /\ BufferFor(u[m], F \cup ToSet(l)) /\ ToSet(a) = ToSet(r) \cup ToSet(l) /\ ToSet(r) \cap ToSet(l) = {}
  <2>1. PICK t, G : t = u[m] /\ G = F
    OBVIOUS
  <2>2. t.folder = f /\ t.next = n + 1 /\ t.buffer = r
    BY <1>0, <1>5, <1>8, <2>1 DEF Advanced
  <2>3. BufferFor(s1, G) /\ s1.buffer \in Seq(Items) /\ k \in 0 .. Len(s1.buffer)
    BY <1>7, <1>14, <1>15, <2>1
  <2>4. t.folder = s1.folder /\ t.next = s1.next /\ t.buffer = SubSeq(s1.buffer, k + 1, Len(s1.buffer))
    BY <1>2, <1>15, <2>2
  <2>5. /\ BufferFor(t, G \cup ToSet(SubSeq(s1.buffer, 1, k)))
        /\ ToSet(s1.buffer) = ToSet(t.buffer) \cup ToSet(SubSeq(s1.buffer, 1, k))
        /\ ToSet(t.buffer) \cap ToSet(SubSeq(s1.buffer, 1, k)) = {}
    BY ONLY <2>3, <2>4, BufferSpilled
  <2> QED BY <1>2, <1>15, <2>1, <2>2, <2>5
<1>17. /\ TextOf(f, output'[f]) /\ ItemsIn(output'[f]) = F \cup ToSet(l)
       /\ \A e \in ToSet(l) : e \notin F => OnceIn(output'[f], e)
       /\ \A e : e \notin ToSet(l) => (OnceIn(output'[f], e) <=> OnceIn(w, e))
  <2>1. PICK v : v = w
    OBVIOUS
  <2>2. /\ v \in Seq(Records) /\ TextOf(f, v) /\ BufferFor(s1, ItemsIn(v)) /\ s1.folder = f /\ s1.buffer \in Seq(Items)
        /\ s1.next <= Len(Entries[f]) + 1 /\ s1.next \in Nat /\ Len(l) <= Len(s1.buffer)
        /\ \A j \in 1 .. Len(l) : l[j] = s1.buffer[j]
    <3>1. s1.next <= Len(Entries[f]) + 1 /\ s1.next \in Nat
      BY <1>5, <1>15, EntriesTyped
    <3> QED BY <1>7, <1>13, <1>14, <1>15, <2>1, <3>1
  <2>3. f \in Folders /\ l \in Seq(Items)
    BY <1>5, <1>7
  <2>4. /\ TextOf(f, v \o Written(p, l)) /\ ItemsIn(v \o Written(p, l)) = ItemsIn(v) \cup ToSet(l)
        /\ \A e \in ToSet(l) : e \notin ItemsIn(v) => OnceIn(v \o Written(p, l), e)
        /\ \A e : e \notin ToSet(l) => (OnceIn(v \o Written(p, l), e) <=> OnceIn(v, e))
    BY ONLY <2>2, <2>3, p \in Writers, TextGrown
  <2>5. output'[f] = v \o Written(p, l)
    BY <1>10, <2>1
  <2> QED BY <2>1, <2>4, <2>5
<1>18. ToSet(a) = ToSet(b) \cup {i}
  <2>1. a = Append(b, i)
    BY <1>0
  <2> QED BY <1>3, <1>5, <2>1, AppendSet
<1>19. \A g \in Folders : g # f => output'[g] = output[g]
  BY <1>10
<1> HIDE DEF w, F
<1>20. \A g \in Folders : ItemsIn(output[g]) \subseteq ItemsIn(output'[g])
  BY <1>17, <1>19 DEF w, F
<1>21. ASSUME NEW q \in Writers, NEW d \in DOMAIN stack'[q]
       PROVE  BufferFor(stack'[q][d], ItemsIn(output'[stack'[q][d].folder]))
  <2>1. CASE q = p /\ d = m
    BY <1>5, <1>8, <1>9, <1>16, <1>17, <2>1 DEF Advanced
  <2>2. CASE ~(q = p /\ d = m)
    <3>1. PICK s, t : s = stack[q][d] /\ t = stack'[q][d]
      OBVIOUS
    <3>2. d \in DOMAIN stack[q] /\ t.folder = s.folder /\ t.next = s.next /\ t.buffer = s.buffer
      <4>1. CASE q = p
        <5>1. d \in DOMAIN stack[p]
          BY <1>5, <1>8, <1>9, <4>1, FramesTyped DEF Advanced
        <5> QED BY <1>0, <1>8, <1>9, <2>2, <3>1, <4>1, <5>1 DEF Advanced
      <4>2. CASE q # p
        BY <1>9, <3>1, <4>2
      <4> QED BY <4>1, <4>2
    <3>3. s \in OutputFrames /\ s.folder \in Folders
      BY <1>4, <3>1, <3>2, FramesTyped DEF OutputTypes
    <3>4. BufferFor(s, ItemsIn(output[s.folder]))
      BY <1>4, <3>1, <3>2 DEF Together
    <3>5. BufferFor(t, ItemsIn(output'[s.folder]))
      BY <1>20, <3>2, <3>3, <3>4, BufferStays
    <3> QED BY <3>1, <3>2, <3>5
  <2> QED BY <2>1, <2>2
<1>22. \A g \in Folders : TextOf(g, output'[g])
  BY <1>4, <1>17, <1>19 DEF Together
<1>23. \A q \in Writers : \A d \in DOMAIN stack'[q] : \A e : e # i =>
         (InBuffer(q, d, e)' => d \in DOMAIN stack[q] /\ InBuffer(q, d, e))
  <2> SUFFICES ASSUME NEW q \in Writers, NEW d \in DOMAIN stack'[q], NEW e, e # i, InBuffer(q, d, e)'
               PROVE  d \in DOMAIN stack[q] /\ InBuffer(q, d, e)
    OBVIOUS
  <2>1. CASE q # p
    BY <1>9, <2>1 DEF InBuffer
  <2>2. CASE q = p
    <3>1. d \in DOMAIN stack[p] /\ e \in ToSet(u[d].buffer)
      <4>1. d \in DOMAIN stack[p]
        BY <1>5, <1>8, <1>9, <2>2, FramesTyped DEF Advanced
      <4> QED BY <1>9, <2>2, <4>1 DEF InBuffer
    <3>2. e \in ToSet(stack[p][d].buffer)
      BY <1>5, <1>8, <1>16, <1>18, <3>1
    <3> QED BY <2>2, <3>1, <3>2 DEF InBuffer
  <2> QED BY <2>1, <2>2
<1>24. \A q \in Writers : \A d \in DOMAIN stack[q] : \A e : InBuffer(q, d, e) =>
         \/ d \in DOMAIN stack'[q] /\ InBuffer(q, d, e)'
         \/ q = p /\ d = m /\ e \in ToSet(l)
  <2> SUFFICES ASSUME NEW q \in Writers, NEW d \in DOMAIN stack[q], NEW e, InBuffer(q, d, e), ~(q = p /\ d = m /\ e \in ToSet(l))
               PROVE  d \in DOMAIN stack'[q] /\ InBuffer(q, d, e)'
    OBVIOUS
  <2>1. CASE q # p
    BY <1>9, <2>1 DEF InBuffer
  <2>2. CASE q = p
    <3>1. d \in DOMAIN u /\ stack'[q] = u
      BY <1>5, <1>8, <1>9, <2>2, FramesTyped DEF Advanced
    <3>2. e \in ToSet(stack[p][d].buffer)
      BY <2>2 DEF InBuffer
    <3>3. e \in ToSet(u[d].buffer)
      BY <1>5, <1>8, <1>16, <1>18, <2>2, <3>2
    <3> QED BY <3>1, <3>3 DEF InBuffer
  <2> QED BY <2>1, <2>2
<1>25. \A q \in Writers : \A d \in DOMAIN stack'[q] : InBuffer(q, d, i)' => InBuffer(q, d, i) \/ (q = p /\ d = m /\ i \in ToSet(r))
  <2> SUFFICES ASSUME NEW q \in Writers, NEW d \in DOMAIN stack'[q], InBuffer(q, d, i)'
               PROVE  InBuffer(q, d, i) \/ (q = p /\ d = m /\ i \in ToSet(r))
    OBVIOUS
  <2>1. CASE q # p
    BY <1>9, <2>1 DEF InBuffer
  <2>2. CASE q = p
    <3>1. d \in DOMAIN stack[p] /\ i \in ToSet(u[d].buffer)
      <4>1. d \in DOMAIN stack[p]
        BY <1>5, <1>8, <1>9, <2>2, FramesTyped DEF Advanced
      <4> QED BY <1>9, <2>2, <4>1 DEF InBuffer
    <3> QED BY <1>8, <2>2, <3>1 DEF InBuffer
  <2> QED BY <2>1, <2>2
\* The item itself: it was nowhere.
<1>26. ASSUME NEW after, after PROVE Kept(f, i, after)'
  <2>1. Kept(f, i, PassedIn(AllPlaces, E, f, n))
    BY <1>3, <1>4, <1>5 DEF Together
  <2>2. /\ i \notin copied /\ ~InFile(f, i) /\ OnceIn(output[f], i)
        /\ \A q \in Writers : \A d \in DOMAIN stack[q] : ~InBuffer(q, d, i)
    BY <1>12, <2>1 DEF Kept
  <2>3. \A q \in Writers : \A d \in DOMAIN stack'[q] : InBuffer(q, d, i)' => q = p /\ d = m /\ i \in ToSet(r)
    <3> SUFFICES ASSUME NEW q \in Writers, NEW d \in DOMAIN stack'[q], InBuffer(q, d, i)'
                 PROVE  q = p /\ d = m /\ i \in ToSet(r)
      OBVIOUS
    <3>1. CASE d \in DOMAIN stack[q]
      BY <1>25, <2>2, <3>1
    <3>2. CASE d \notin DOMAIN stack[q]
      <4>1. q = p => DOMAIN stack'[q] = DOMAIN stack[q]
        BY <1>5, <1>8, <1>9, FramesTyped DEF Advanced
      <4>2. q # p => stack'[q] = stack[q]
        BY <1>9
      <4> QED BY <3>2, <4>1, <4>2
    <3> QED BY <3>1, <3>2
  <2>4. CASE i \in ToSet(l)
    <3>1. i \notin ToSet(r) /\ InFile(f, i)' /\ OnceIn(output'[f], i)
      BY <1>16, <1>17, <2>2, <2>4 DEF InFile, F, w
    <3> QED BY <1>3, <1>26, <2>2, <2>3, <3>1 DEF Kept
  <2>5. CASE i \notin ToSet(l)
    <3>1. i \in ToSet(r)
      BY <1>16, <1>18, <2>5
    <3>2. ~InFile(f, i)' /\ OnceIn(output'[f], i)
      BY <1>17, <2>2, <2>5 DEF InFile, F, w
    <3>3. m \in DOMAIN stack'[p] /\ InBuffer(p, m, i)'
      BY <1>5, <1>8, <1>9, <3>1, FramesTyped DEF Advanced, InBuffer
    <3> QED BY <1>3, <1>26, <2>2, <2>3, <3>2, <3>3 DEF Kept
  <2> QED BY <2>4, <2>5
\* The others.
<1>27. ASSUME NEW g \in Folders, NEW x \in DOMAIN Entries[g], Entries[g][x] \in Items
       PROVE  Kept(g, Entries[g][x], PassedIn(AllPlaces, E, g, x))'
  <2>1. PICK e, passed, after : e = Entries[g][x] /\ passed = PassedIn(AllPlaces, E, g, x) /\ after = PassedIn(AllPlaces', E, g, x)
    OBVIOUS
  <2>2. Kept(g, e, passed)
    BY <1>4, <1>27, <2>1 DEF Together
  <2>3. after <=> passed \/ (g = f /\ x = n)
    BY <1>12, <2>1 DEF AlsoPassed
  <2>4. CASE g = f /\ x = n
    <3>1. Kept(f, i, after)'
      BY <1>26, <2>3, <2>4
    <3> QED BY <1>5, <2>1, <2>4, <3>1
  <2>5. CASE ~(g = f /\ x = n)
    <3>1. (passed <=> after) /\ e # i
      BY <1>5, <2>1, <2>3, <2>5, OnePlace
    <3>2. copied' = copied /\ \A q \in Writers : \A d \in DOMAIN stack'[q] : InBuffer(q, d, e)' => d \in DOMAIN stack[q] /\ InBuffer(q, d, e)
      BY <1>3, <1>23, <3>1
    <3>3. CASE e \in ToSet(l)
      <4>1. InBuffer(p, m, e)
        BY <1>5, <1>16, <1>18, <3>1, <3>3 DEF InBuffer
      <4>2. /\ \E y \in DOMAIN Entries[f] : Entries[f][y] = e
            /\ \A d \in DOMAIN stack[p] : InBuffer(p, d, e) => d = m
        BY <1>4, <1>5, <4>1, BufferHome
      <4>3. g = f
        BY <1>5, <2>1, <4>2, OnePlace
      <4>4. InFile(g, e)' /\ (~InFile(g, e) => OnceIn(output'[g], e))
        BY <1>17, <3>3, <4>3 DEF InFile, F, w
      <4>5. \A d \in DOMAIN stack'[p] : ~InBuffer(p, d, e)'
        <5> SUFFICES ASSUME NEW d \in DOMAIN stack'[p], InBuffer(p, d, e)' PROVE FALSE
          OBVIOUS
        <5>1. d = m
          BY <3>2, <4>2
        <5>2. e \in ToSet(r)
          BY <1>5, <1>8, <1>9, <5>1 DEF InBuffer
        <5> QED BY <1>16, <3>3, <5>2
      <4>6. Kept(g, e, after)'
        BY <1>5, <2>2, <3>1, <3>2, <4>1, <4>4, <4>5, KeptMoves
      <4> QED BY <2>1, <4>6
    <3>4. CASE e \notin ToSet(l)
      <4>1. (InFile(g, e)' <=> InFile(g, e)) /\ (OnceIn(output'[g], e) <=> OnceIn(output[g], e))
        BY <1>17, <1>19, <3>4 DEF InFile, F, w
      <4>2. \A q \in Writers : \A d \in DOMAIN stack[q] : InBuffer(q, d, e) => d \in DOMAIN stack'[q] /\ InBuffer(q, d, e)'
        BY <1>24, <3>4
      <4>3. Kept(g, e, after)'
        BY <2>2, <3>1, <3>2, <4>1, <4>2, KeptMoves
      <4> QED BY <2>1, <4>3
    <3> QED BY <3>3, <3>4
  <2> QED BY <2>4, <2>5
<1>28. Together(E)'
  BY <1>21, <1>22, <1>27 DEF Together
<1> QED BY <1>3, <1>12, <1>28 DEF WritersInv, Shape

\* In separate mode.

LEMMA FirstWritten ==
  ASSUME NEW p \in Writers, NEW i \in Items, NEW w, w = <<>>
  PROVE  Len(w \o Written(p, <<i>>)) = 1 /\ (w \o Written(p, <<i>>))[1].item = i
<1>1. w \in Seq(Records) /\ Len(w) = 0 /\ <<i>> \in Seq(Items) /\ Len(<<i>>) = 1 /\ <<i>>[1] = i
  OBVIOUS
<1>2. /\ Len(w \o Written(p, <<i>>)) = Len(w) + Len(<<i>>)
      /\ \A j \in 1 .. Len(<<i>>) : (w \o Written(p, <<i>>))[Len(w) + j].item = <<i>>[j]
  BY <1>1, FileGrown
<1>3. PICK u : u = w \o Written(p, <<i>>)
  OBVIOUS
<1>4. Len(u) = 1 /\ \A j \in 1 .. 1 : u[0 + j].item = <<i>>[j]
  BY <1>1, <1>2, <1>3
<1>5. u[1].item = i
  <2>1. 1 \in 1 .. 1 /\ 0 + 1 = 1
    OBVIOUS
  <2> QED BY <1>1, <1>4, <2>1
<1> QED BY <1>3, <1>4, <1>5

LEMMA WriteSeparateStep ==
  ASSUME NEW E, WritersInv(E), NEW p \in Writers, WriteSeparate(p)
  PROVE  WritersInv(E)'
<1>0. PICK f, n, i, u : f = Top(p).folder /\ n = Top(p).next /\ i = Entry(p) /\ u = MovedOn(p)
  OBVIOUS
<1>1. /\ HasEntry(p) /\ i \in Items /\ separate /\ UNCHANGED <<separate, state, job, elder, copied>>
      /\ output' = [output EXCEPT ![i] = @ \o Written(p, <<i>>)] /\ stack' = [stack EXCEPT ![p] = u]
  BY <1>0 DEF WriteSeparate
<1>2. Shape(E) /\ Apart(E) /\ OutputTypes /\ WritersKnown
  BY <1>1 DEF WritersInv, Shape
<1>3. f \in Folders /\ n \in DOMAIN Entries[f] /\ Entries[f][n] = i
  BY <1>0, <1>1, <1>2, AtWorkFrames
<1>4. i \notin Folders /\ <<i>> \in Seq(Items)
  BY <1>1, ItemsApart
<1>5. /\ u \in Seq(OutputFrames) /\ Advanced(stack[p], u)
      /\ \A d \in DOMAIN stack[p] : u[d].buffer = stack[p][d].buffer
  <2>1. <<>> \in Seq(Items)
    OBVIOUS
  <2> QED BY <1>0, <1>1, <1>2, <2>1, TopMoved
<1>6. /\ stack' \in [Writers -> Seq(OutputFrames)] /\ stack'[p] = u
      /\ \A q \in Writers : q # p => stack'[q] = stack[q]
  BY ONLY <1>1, <1>2, <1>5, p \in Writers, StackSet
<1>7. /\ output' \in [Folders \cup Items -> Seq(Records)] /\ output'[i] = output[i] \o Written(p, <<i>>)
      /\ \A g \in Folders \cup Items : g # i => output'[g] = output[g]
  BY ONLY <1>1, <1>2, <1>4, p \in Writers, OutputGrown
<1>8. OutputTypes'
  BY <1>1, <1>2, <1>6, <1>7 DEF OutputTypes
<1>9. /\ Shape(E)' /\ ~PassedIn(AllPlaces, E, f, n)
      /\ AlsoPassed(AllPlaces, AllPlaces', E, f, n)
  <2>1. /\ stack'[p] = u /\ state'[p] = state[p] /\ job'[p] = job[p] /\ separate' = separate
        /\ \A q \in Writers \ {p} : state'[q] = state[q] /\ stack'[q] = stack[q] /\ job'[q] = job[q]
        /\ Entry(p) \notin Folders
    BY <1>0, <1>1, <1>4, <1>6
  <2>2. /\ Shape(E)' /\ ~PassedIn(AllPlaces, E, Top(p).folder, Top(p).next)
        /\ AlsoPassed(AllPlaces, AllPlaces', E, Top(p).folder, Top(p).next)
    BY <1>1, <1>2, <1>5, <1>8, <2>1, AdvanceShape
  <2> QED BY <1>0, <2>2
<1>10. ASSUME NEW q \in Writers, NEW d \in DOMAIN stack'[q] PROVE stack'[q][d].buffer = <<>>
  <2>1. DOMAIN u = DOMAIN stack[p]
    BY <1>2, <1>5, FramesTyped DEF Advanced, OutputTypes
  <2> QED BY <1>2, <1>5, <1>6, <2>1 DEF Apart
<1>11. \A g \in Folders : output'[g] = <<>>
  BY <1>2, <1>4, <1>7 DEF Apart
<1>12. \A e : \A q \in Writers : Writing(q, e)' <=> Writing(q, e)
  BY <1>1 DEF Writing
<1>13. ASSUME NEW g \in Folders, NEW x \in DOMAIN Entries[g], Entries[g][x] \in Items
       PROVE  KeptApart(Entries[g][x], PassedIn(AllPlaces, E, g, x))'
  <2>1. PICK e, passed, after : e = Entries[g][x] /\ passed = PassedIn(AllPlaces, E, g, x) /\ after = PassedIn(AllPlaces', E, g, x)
    OBVIOUS
  <2>2. KeptApart(e, passed)
    BY <1>2, <1>13, <2>1 DEF Apart
  <2>3. after <=> passed \/ (g = f /\ x = n)
    BY <1>9, <2>1 DEF AlsoPassed
  <2>4. CASE g = f /\ x = n
    <3>1. e = i /\ ~passed /\ after
      BY <1>3, <1>9, <2>1, <2>3, <2>4
    <3>2. output[i] = <<>> /\ \A q \in Writers : ~Writing(q, i)
      BY <2>2, <3>1 DEF KeptApart
    <3>3. <<>> \in Seq(Records) /\ Len(<<i>>) = 1 /\ <<i>>[1] = i
      OBVIOUS
    <3>4. Len(output'[i]) = 1 /\ output'[i][1].item = i
      BY <1>1, <1>7, <3>2, FirstWritten
    <3>5. KeptApart(i, after)'
      BY <1>12, <3>1, <3>2, <3>4 DEF KeptApart
    <3> QED BY <2>1, <3>1, <3>5
  <2>5. CASE ~(g = f /\ x = n)
    <3>1. (passed <=> after) /\ e # i
      BY <1>3, <2>1, <2>3, <2>5, OnePlace
    <3>2. output'[e] = output[e]
      BY <1>7, <1>13, <2>1, <3>1
    <3>3. KeptApart(e, after)'
      BY <1>12, <2>2, <3>1, <3>2, ApartSame
    <3> QED BY <2>1, <3>3
  <2> QED BY <2>4, <2>5
<1>14. Apart(E)'
  BY <1>1, <1>2, <1>10, <1>11, <1>13 DEF Apart
<1> QED BY <1>1, <1>9, <1>14 DEF WritersInv, Shape

\* What CopyTo does.
LEMMA Copies ==
  ASSUME OutputTypes, NEW p \in Writers, NEW a, NEW v \in Seq(OutputFrames), CopyTo(p, a, v), a \in WriterStates,
         state[p] = "running", MovedOn(p) \in Seq(OutputFrames), Entry(p) \in Folders \cup Items
  PROVE  \E c \in Writers :
           /\ c # p /\ state[c] = "none" /\ state'[c] = a /\ stack'[c] = v /\ stack'[p] = MovedOn(p) /\ job'[c] = Entry(p)
           /\ \A q \in Writers \ {c} : state'[q] = state[q] /\ job'[q] = job[q] /\ (q # p => stack'[q] = stack[q])
           /\ copied' = copied \cup UNION {ToSet(stack[p][d].buffer) : d \in DOMAIN stack[p]}
           /\ separate' = separate /\ output' = output /\ OutputTypes'
<1>1. PICK c \in Writers :
        /\ state[c] = "none"
        /\ state' = [state EXCEPT ![c] = a]
        /\ stack' = [stack EXCEPT ![c] = v, ![p] = MovedOn(p)]
        /\ job' = [job EXCEPT ![c] = Entry(p)]
        /\ copied' = copied \cup UNION {ToSet(stack[p][d].buffer) : d \in DOMAIN stack[p]}
        /\ UNCHANGED <<separate, output>>
  BY DEF CopyTo
<1>2. c # p
  BY <1>1
<1>3. PICK t, i : t = MovedOn(p) /\ i = Entry(p)
  OBVIOUS
<1>4. /\ stack \in [Writers -> Seq(OutputFrames)] /\ state \in [Writers -> WriterStates]
      /\ job \in [Writers -> Folders \cup Items]
  BY DEF OutputTypes
<1>5. /\ stack' \in [Writers -> Seq(OutputFrames)] /\ stack'[c] = v /\ stack'[p] = t
      /\ \A q \in Writers \ {c} : q # p => stack'[q] = stack[q]
  <2>1. stack' = [stack EXCEPT ![c] = v, ![p] = t] /\ t \in Seq(OutputFrames)
    BY <1>1, <1>3
  <2> QED BY ONLY <1>2, <1>4, <2>1, v \in Seq(OutputFrames), p \in Writers, c \in Writers
<1>6. state' \in [Writers -> WriterStates] /\ state'[c] = a /\ \A q \in Writers \ {c} : state'[q] = state[q]
  BY <1>1, <1>4
<1>7. job' \in [Writers -> Folders \cup Items] /\ job'[c] = i /\ \A q \in Writers \ {c} : job'[q] = job[q]
  BY <1>1, <1>3, <1>4
<1>8. copied' \in SUBSET Items
  <2>1. \A d \in DOMAIN stack[p] : stack[p][d].buffer \in Seq(Items)
    BY <1>4, FramesTyped
  <2>2. \A d \in DOMAIN stack[p] : ToSet(stack[p][d].buffer) \subseteq Items
    BY <2>1 DEF ToSet
  <2> QED BY <1>1, <2>2 DEF OutputTypes
<1>9. OutputTypes'
  BY <1>1, <1>5, <1>6, <1>7, <1>8 DEF OutputTypes
<1> QED BY <1>1, <1>2, <1>3, <1>5, <1>6, <1>7, <1>9

LEMMA ForkItemStep ==
  ASSUME NEW E, WritersInv(E), NEW p \in Writers, ForkItem(p)
  PROVE  WritersInv(E)'
<1>0. PICK f, n, i, u : f = Top(p).folder /\ n = Top(p).next /\ i = Entry(p) /\ u = MovedOn(p)
  OBVIOUS
<1>1. HasEntry(p) /\ i \in Items /\ separate /\ CopyTo(p, "item", stack[p])
  BY <1>0 DEF ForkItem
<1>2. Shape(E) /\ Apart(E) /\ OutputTypes /\ WritersKnown
  BY <1>1 DEF WritersInv, Shape
<1>3. /\ f \in Folders /\ n \in DOMAIN Entries[f] /\ Entries[f][n] = i /\ state[p] = "running"
      /\ stack[p] \in Seq(OutputFrames)
  BY <1>0, <1>1, <1>2, AtWorkFrames
<1>4. i \notin Folders /\ "item" \in WriterStates
  BY <1>1, ItemsApart DEF WriterStates
<1>5. /\ u \in Seq(OutputFrames) /\ Advanced(stack[p], u) /\ DOMAIN u = DOMAIN stack[p]
      /\ \A d \in DOMAIN stack[p] : u[d].buffer = stack[p][d].buffer
  <2>1. <<>> \in Seq(Items)
    OBVIOUS
  <2>2. /\ u \in Seq(OutputFrames) /\ Advanced(stack[p], u)
        /\ \A d \in DOMAIN stack[p] : u[d].buffer = stack[p][d].buffer
    BY <1>0, <1>1, <1>2, <2>1, TopMoved
  <2> QED BY <1>3, <2>2, FramesTyped DEF Advanced
<1>6. PICK c \in Writers :
           /\ c # p /\ state[c] = "none" /\ state'[c] = "item" /\ stack'[c] = stack[p] /\ stack'[p] = u /\ job'[c] = i
           /\ \A q \in Writers \ {c} : state'[q] = state[q] /\ job'[q] = job[q] /\ (q # p => stack'[q] = stack[q])
           /\ copied' = copied \cup UNION {ToSet(stack[p][d].buffer) : d \in DOMAIN stack[p]}
           /\ separate' = separate /\ output' = output /\ OutputTypes'
  <2>1. MovedOn(p) \in Seq(OutputFrames) /\ Entry(p) \in Folders \cup Items
    BY <1>0, <1>1, <1>5
  <2>2. PICK s : s = stack[p]
    OBVIOUS
  <2>3. CopyTo(p, "item", s) /\ s \in Seq(OutputFrames)
    BY <1>1, <1>3, <2>2
  <2>4. \E c \in Writers :
           /\ c # p /\ state[c] = "none" /\ state'[c] = "item" /\ stack'[c] = s /\ stack'[p] = MovedOn(p) /\ job'[c] = Entry(p)
           /\ \A q \in Writers \ {c} : state'[q] = state[q] /\ job'[q] = job[q] /\ (q # p => stack'[q] = stack[q])
           /\ copied' = copied \cup UNION {ToSet(stack[p][d].buffer) : d \in DOMAIN stack[p]}
           /\ separate' = separate /\ output' = output /\ OutputTypes'
    BY <1>2, <1>3, <1>4, <2>1, <2>3, Copies
  <2> QED BY ONLY <1>0, <2>2, <2>4
<1>7. /\ Shape(E)' /\ ~PassedIn(AllPlaces, E, f, n)
      /\ AlsoPassed(AllPlaces, AllPlaces', E, f, n)
  <2>1. /\ stack'[p] = u /\ state'[p] = state[p] /\ job'[p] = job[p]
        /\ \A q \in Writers \ {p} : \/ state'[q] = state[q] /\ stack'[q] = stack[q] /\ job'[q] = job[q]
                                    \/ /\ state[q] = "none" /\ state'[q] = "item" /\ separate' /\ Entry(p) \in Items
                                       /\ stack'[q] = stack[p] /\ job'[q] = Entry(p)
        /\ Entry(p) \notin Folders
    BY <1>0, <1>1, <1>4, <1>6
  <2>2. /\ Shape(E)' /\ ~PassedIn(AllPlaces, E, Top(p).folder, Top(p).next)
        /\ AlsoPassed(AllPlaces, AllPlaces', E, Top(p).folder, Top(p).next)
    BY <1>1, <1>2, <1>5, <1>6, <2>1, AdvanceShape
  <2> QED BY <1>0, <2>2
<1>8. ASSUME NEW q \in Writers, NEW d \in DOMAIN stack'[q] PROVE stack'[q][d].buffer = <<>>
  BY <1>2, <1>5, <1>6 DEF Apart
<1>9. copied' = {}
  <2>1. \A d \in DOMAIN stack[p] : ToSet(stack[p][d].buffer) = {}
    BY <1>2 DEF Apart, ToSet
  <2> QED BY <1>2, <1>6, <2>1 DEF Apart
<1>10. \A e : \A q \in Writers : Writing(q, e)' <=> Writing(q, e) \/ (q = c /\ e = i)
  BY <1>6 DEF Writing
<1>11. ASSUME NEW g \in Folders, NEW x \in DOMAIN Entries[g], Entries[g][x] \in Items
       PROVE  KeptApart(Entries[g][x], PassedIn(AllPlaces, E, g, x))'
  <2>1. PICK e, passed, after : e = Entries[g][x] /\ passed = PassedIn(AllPlaces, E, g, x) /\ after = PassedIn(AllPlaces', E, g, x)
    OBVIOUS
  <2>2. KeptApart(e, passed)
    BY <1>2, <1>11, <2>1 DEF Apart
  <2>3. after <=> passed \/ (g = f /\ x = n)
    BY <1>7, <2>1 DEF AlsoPassed
  <2>4. CASE g = f /\ x = n
    <3>1. e = i /\ ~passed /\ after
      BY <1>3, <1>7, <2>1, <2>3, <2>4
    <3>2. output[i] = <<>> /\ \A q \in Writers : ~Writing(q, i)
      BY <2>2, <3>1 DEF KeptApart
    <3>3. KeptApart(i, after)'
      BY <1>6, <1>10, <3>1, <3>2 DEF KeptApart
    <3> QED BY <2>1, <3>1, <3>3
  <2>5. CASE ~(g = f /\ x = n)
    <3>1. (passed <=> after) /\ e # i
      BY <1>3, <2>1, <2>3, <2>5, OnePlace
    <3>2. \A q \in Writers : Writing(q, e)' <=> Writing(q, e)
      BY <1>10, <3>1
    <3>3. KeptApart(e, after)'
      BY <1>6, <2>2, <3>1, <3>2, ApartSame
    <3> QED BY <2>1, <3>3
  <2> QED BY <2>4, <2>5
<1>12. Apart(E)'
  BY <1>2, <1>6, <1>8, <1>9, <1>11 DEF Apart
<1> QED BY <1>1, <1>6, <1>7, <1>12 DEF WritersInv, Shape

LEMMA ChildWritesStep ==
  ASSUME NEW E, WritersInv(E), NEW p \in Writers, ChildWrites(p)
  PROVE  WritersInv(E)'
<1>0. PICK i : i = Entry(p)
  OBVIOUS
<1>1. /\ state[p] = "item" /\ output' = [output EXCEPT ![i] = @ \o Written(p, <<i>>)]
      /\ state' = [state EXCEPT ![p] = "ending"] /\ UNCHANGED <<separate, stack, job, elder, copied>>
  BY <1>0 DEF ChildWrites
<1>2. separate /\ i \in Items /\ i = job[p]
  BY <1>0, <1>1 DEF WritersInv, WritersKnown
<1>3. Shape(E) /\ Apart(E) /\ OutputTypes /\ WritersKnown
  BY <1>2 DEF WritersInv, Shape
<1>4. i \notin Folders /\ <<i>> \in Seq(Items) /\ i \in Folders \cup Items
  BY <1>2, ItemsApart
<1>5. /\ output' \in [Folders \cup Items -> Seq(Records)] /\ output'[i] = output[i] \o Written(p, <<i>>)
      /\ \A g \in Folders \cup Items : g # i => output'[g] = output[g]
  BY ONLY <1>1, <1>3, <1>4, p \in Writers, OutputGrown
<1>6. state' \in [Writers -> WriterStates] /\ state'[p] = "ending" /\ \A q \in Writers : q # p => state'[q] = state[q]
  BY <1>1, <1>3 DEF OutputTypes, WriterStates
<1>7. OutputTypes'
  BY <1>1, <1>3, <1>5, <1>6 DEF OutputTypes
<1>8. Shape(E)' /\ AllPlaces' = AllPlaces
  <2>1. \A q \in Writers : \/ state'[q] = state[q] /\ stack'[q] = stack[q]
                           \/ state[q] = "item" /\ state'[q] = "ending" /\ stack'[q] = stack[q]
    BY <1>1, <1>6
  <2> QED BY <1>1, <1>3, <1>7, <2>1, EndingShape
<1>9. \A e : \A q \in Writers : Writing(q, e)' <=> Writing(q, e) /\ q # p
  BY <1>1, <1>6 DEF Writing
<1>10. Writing(p, i) /\ \A e : Writing(p, e) => e = i
  BY <1>1, <1>2 DEF Writing
<1>11. ASSUME NEW g \in Folders, NEW x \in DOMAIN Entries[g], Entries[g][x] \in Items
       PROVE  KeptApart(Entries[g][x], PassedIn(AllPlaces, E, g, x))'
  <2>1. PICK e, passed, after : e = Entries[g][x] /\ passed = PassedIn(AllPlaces, E, g, x) /\ after = PassedIn(AllPlaces', E, g, x)
    OBVIOUS
  <2>2. KeptApart(e, passed)
    BY <1>3, <1>11, <2>1 DEF Apart
  <2>3. after <=> passed
    BY <1>8, <2>1
  <2>4. CASE e = i
    <3>1. passed /\ output[i] = <<>> /\ \A q \in Writers : Writing(q, i) => q = p
      BY <1>10, <2>2, <2>4 DEF KeptApart
    <3>3. Len(output'[i]) = 1 /\ output'[i][1].item = i
      BY <1>2, <1>5, <3>1, FirstWritten
    <3>4. KeptApart(i, after)'
      BY <1>9, <2>3, <3>1, <3>3 DEF KeptApart
    <3> QED BY <2>1, <2>4, <3>4
  <2>5. CASE e # i
    <3>1. output'[e] = output[e]
      BY <1>5, <1>11, <2>1, <2>5
    <3>2. \A q \in Writers : Writing(q, e)' <=> Writing(q, e)
      BY <1>9, <1>10, <2>5
    <3>3. KeptApart(e, after)'
      BY <2>2, <2>3, <3>1, <3>2, ApartSame
    <3> QED BY <2>1, <3>3
  <2> QED BY <2>4, <2>5
<1>12. Apart(E)'
  <2>1. \A g \in Folders : output'[g] = <<>>
    BY <1>3, <1>4, <1>5 DEF Apart
  <2> QED BY <1>1, <1>3, <1>11, <2>1 DEF Apart
<1> QED BY <1>1, <1>2, <1>8, <1>12 DEF WritersInv, Shape

\* Folders are entered.

\* The buffers of the activations around, and the one of the new activation.
LEMMA BuffersEntered ==
  ASSUME NEW E, Shape(E), Together(E), NEW p \in Writers, HasEntry(p), Entry(p) \in Folders,
         NEW t \in Seq(OutputFrames), Advanced(stack[p], t), \A d \in DOMAIN stack[p] : t[d].buffer = stack[p][d].buffer,
         NEW g \in Folders, NEW v, v = Append(t, NewFrame(g)), NEW d \in DOMAIN v
  PROVE  BufferFor(v[d], ItemsIn(output[v[d].folder]))
<1>0. /\ DOMAIN t = DOMAIN stack[p] /\ DOMAIN v = DOMAIN t \cup {Len(t) + 1}
      /\ \A e \in DOMAIN t : v[e] = t[e]
      /\ v[Len(t) + 1].next = 1 /\ v[Len(t) + 1].buffer = <<>>
  BY AppendFrame, FramesTyped DEF Shape, OutputTypes, Advanced
<1>1. CASE d \in DOMAIN t
  <2>1. PICK s, u, F : s = stack[p][d] /\ u = t[d] /\ F = ItemsIn(output[s.folder])
    OBVIOUS
  <2>2. s \in OutputFrames /\ BufferFor(s, F) /\ d \in DOMAIN stack[p]
    BY <1>0, <1>1, <2>1, FramesTyped DEF Shape, OutputTypes, Together
  <2>3. u.folder = s.folder /\ u.buffer = s.buffer
    BY <2>1, <2>2 DEF Advanced
  <2>4. u.next = s.next \/ (u.next = s.next + 1 /\ Entries[s.folder][s.next] \notin Items)
    <3>1. CASE d = Len(stack[p])
      <4>1. Entries[s.folder][s.next] \in Folders
        BY <2>1, <3>1 DEF Entry, Top, Last
      <4> QED BY <2>1, <2>2, <3>1, <4>1, ItemsApart DEF Advanced
    <3>2. CASE d # Len(stack[p])
      BY <2>1, <2>2, <3>2 DEF Advanced
    <3> QED BY <3>1, <3>2
  <2>5. BufferFor(u, F)
    BY ONLY <2>2, <2>3, <2>4, BufferStays
  <2> QED BY <1>0, <1>1, <2>1, <2>3, <2>5
<1>2. CASE d = Len(t) + 1
  BY <1>0, <1>2 DEF BufferFor
<1> QED BY <1>0, <1>1, <1>2

LEMMA EnterFolderStep ==
  ASSUME NEW E, WritersInv(E), NEW p \in Writers, EnterFolder(p)
  PROVE  \E D \in SUBSET Folders : WritersInv(D)'
<1>0. PICK g, t, v : g = Entry(p) /\ t = MovedOn(p) /\ v = Append(t, NewFrame(g))
  OBVIOUS
<1>1. /\ HasEntry(p) /\ g \in Folders /\ UNCHANGED <<separate, state, job, elder, output, copied>>
      /\ stack' = [stack EXCEPT ![p] = v]
  BY <1>0 DEF EnterFolder
<1>2. Shape(E) /\ OutputTypes /\ WritersKnown /\ E \in SUBSET Folders
  BY DEF WritersInv, Shape
<1>3. stack[p] \in Seq(OutputFrames)
  BY <1>2 DEF OutputTypes
<1>4. /\ t \in Seq(OutputFrames) /\ Advanced(stack[p], t) /\ DOMAIN t = DOMAIN stack[p]
      /\ \A d \in DOMAIN stack[p] : t[d].buffer = stack[p][d].buffer
  <2>1. <<>> \in Seq(Items)
    OBVIOUS
  <2>2. /\ t \in Seq(OutputFrames) /\ Advanced(stack[p], t)
        /\ \A d \in DOMAIN stack[p] : t[d].buffer = stack[p][d].buffer
    BY <1>0, <1>1, <1>2, <2>1, TopMoved
  <2> QED BY <1>3, <2>2, FramesTyped DEF Advanced
<1>5. /\ v \in Seq(OutputFrames) /\ DOMAIN v = DOMAIN t \cup {Len(t) + 1} /\ \A d \in DOMAIN t : v[d] = t[d]
      /\ v[Len(t) + 1].buffer = <<>>
  BY <1>0, <1>1, <1>4, AppendFrame
<1>6. /\ stack' \in [Writers -> Seq(OutputFrames)] /\ stack'[p] = v
      /\ \A q \in Writers : q # p => stack'[q] = stack[q]
  BY ONLY <1>1, <1>2, <1>5, p \in Writers, StackSet
<1>7. OutputTypes'
  BY <1>1, <1>2, <1>6 DEF OutputTypes
<1>8. Shape(E \cup {g})' /\ SamePassed(AllPlaces, AllPlaces', E, E \cup {g})
  <2>1. stack'[p] = Append(t, NewFrame(g)) /\ \A q \in Writers \ {p} : stack'[q] = stack[q]
    BY <1>0, <1>6
  <2> QED BY <1>0, <1>1, <1>2, <1>4, <1>7, <2>1, EnterShape
<1>9. CASE ~separate
  <2>0. Together(E)
    BY <1>9 DEF WritersInv
  <2>1. ASSUME NEW q \in Writers, NEW d \in DOMAIN stack'[q]
        PROVE  BufferFor(stack'[q][d], ItemsIn(output[stack'[q][d].folder]))
    <3>1. CASE q = p
      <4>1. d \in DOMAIN v
        BY <1>6, <3>1
      <4>2. BufferFor(v[d], ItemsIn(output[v[d].folder]))
        BY <1>0, <1>1, <1>2, <1>4, <2>0, <4>1, BuffersEntered
      <4> QED BY <1>6, <3>1, <4>2
    <3>2. CASE q # p
      BY <1>6, <2>0, <3>2 DEF Together
    <3> QED BY <3>1, <3>2
  <2>2. \A q \in Writers : \A d \in DOMAIN stack'[q] : \A e : InBuffer(q, d, e)' => d \in DOMAIN stack[q] /\ InBuffer(q, d, e)
    <3> SUFFICES ASSUME NEW q \in Writers, NEW d \in DOMAIN stack'[q], NEW e, InBuffer(q, d, e)'
                 PROVE  d \in DOMAIN stack[q] /\ InBuffer(q, d, e)
      OBVIOUS
    <3>1. CASE q = p
      <4>1. d # Len(t) + 1
        BY <1>5, <1>6, <3>1 DEF InBuffer, ToSet
      <4> QED BY <1>4, <1>5, <1>6, <3>1, <4>1 DEF InBuffer
    <3>2. CASE q # p
      BY <1>6, <3>2 DEF InBuffer
    <3> QED BY <3>1, <3>2
  <2>3. \A q \in Writers : \A d \in DOMAIN stack[q] : \A e : InBuffer(q, d, e) => d \in DOMAIN stack'[q] /\ InBuffer(q, d, e)'
    <3> SUFFICES ASSUME NEW q \in Writers, NEW d \in DOMAIN stack[q], NEW e, InBuffer(q, d, e)
                 PROVE  d \in DOMAIN stack'[q] /\ InBuffer(q, d, e)'
      OBVIOUS
    <3>1. CASE q = p
      BY <1>4, <1>5, <1>6, <3>1 DEF InBuffer
    <3>2. CASE q # p
      BY <1>6, <3>2 DEF InBuffer
    <3> QED BY <3>1, <3>2
  <2>4. ASSUME NEW h \in Folders, NEW x \in DOMAIN Entries[h], Entries[h][x] \in Items
        PROVE  Kept(h, Entries[h][x], PassedIn(AllPlaces, E \cup {g}, h, x))'
    <3>1. PICK e, passed, after : e = Entries[h][x] /\ passed = PassedIn(AllPlaces, E, h, x) /\ after = PassedIn(AllPlaces', E \cup {g}, h, x)
      OBVIOUS
    <3>2. Kept(h, e, passed)
      BY <2>0, <2>4, <3>1 DEF Together
    <3>3. passed <=> after
      BY <1>8, <2>4, <3>1 DEF SamePassed
    <3>4. (InFile(h, e)' <=> InFile(h, e)) /\ (OnceIn(output'[h], e) <=> OnceIn(output[h], e)) /\ copied' = copied
      BY <1>1 DEF InFile
    <3>5. Kept(h, e, after)'
      BY <2>2, <2>3, <3>2, <3>3, <3>4, KeptMoves
    <3> QED BY <3>1, <3>5
  <2>5. Together(E \cup {g})'
    BY <1>1, <2>0, <2>1, <2>4 DEF Together
  <2> QED BY <1>1, <1>2, <1>8, <1>9, <2>5 DEF WritersInv, Shape
<1>10. CASE separate
  <2>0. Apart(E)
    BY <1>10 DEF WritersInv
  <2>1. ASSUME NEW q \in Writers, NEW d \in DOMAIN stack'[q] PROVE stack'[q][d].buffer = <<>>
    <3>1. CASE q = p
      BY <1>4, <1>5, <1>6, <2>0, <3>1 DEF Apart
    <3>2. CASE q # p
      BY <1>6, <2>0, <3>2 DEF Apart
    <3> QED BY <3>1, <3>2
  <2>2. ASSUME NEW h \in Folders, NEW x \in DOMAIN Entries[h], Entries[h][x] \in Items
        PROVE  KeptApart(Entries[h][x], PassedIn(AllPlaces, E \cup {g}, h, x))'
    <3>1. PICK e, passed, after : e = Entries[h][x] /\ passed = PassedIn(AllPlaces, E, h, x) /\ after = PassedIn(AllPlaces', E \cup {g}, h, x)
      OBVIOUS
    <3>2. KeptApart(e, passed)
      BY <2>0, <2>2, <3>1 DEF Apart
    <3>3. passed <=> after
      BY <1>8, <2>2, <3>1 DEF SamePassed
    <3>4. output'[e] = output[e] /\ \A q \in Writers : Writing(q, e)' <=> Writing(q, e)
      BY <1>1 DEF Writing
    <3>5. KeptApart(e, after)'
      BY <3>2, <3>3, <3>4, ApartSame
    <3> QED BY <3>1, <3>5
  <2>3. Apart(E \cup {g})'
    BY <1>1, <2>0, <2>1, <2>2 DEF Apart
  <2> QED BY <1>1, <1>2, <1>8, <1>10, <2>3 DEF WritersInv, Shape
<1> QED BY <1>9, <1>10

LEMMA ForkFolderStep ==
  ASSUME NEW E, WritersInv(E), NEW p \in Writers, ForkFolder(p)
  PROVE  \E D \in SUBSET Folders : WritersInv(D)'
<1>0. PICK g, t, v : g = Entry(p) /\ t = MovedOn(p) /\ v = Append(t, NewFrame(g))
  OBVIOUS
<1>1. HasEntry(p) /\ g \in Folders /\ CopyTo(p, "running", v)
  BY <1>0 DEF ForkFolder
<1>2. Shape(E) /\ OutputTypes /\ WritersKnown /\ E \in SUBSET Folders
  BY DEF WritersInv, Shape
<1>3. stack[p] \in Seq(OutputFrames) /\ state[p] = "running"
  BY <1>1, <1>2 DEF OutputTypes, HasEntry
<1>4. /\ t \in Seq(OutputFrames) /\ Advanced(stack[p], t) /\ DOMAIN t = DOMAIN stack[p]
      /\ \A d \in DOMAIN stack[p] : t[d].buffer = stack[p][d].buffer
  <2>1. <<>> \in Seq(Items)
    OBVIOUS
  <2>2. /\ t \in Seq(OutputFrames) /\ Advanced(stack[p], t)
        /\ \A d \in DOMAIN stack[p] : t[d].buffer = stack[p][d].buffer
    BY <1>0, <1>1, <1>2, <2>1, TopMoved
  <2> QED BY <1>3, <2>2, FramesTyped DEF Advanced
<1>5. /\ v \in Seq(OutputFrames) /\ DOMAIN v = DOMAIN t \cup {Len(t) + 1} /\ \A d \in DOMAIN t : v[d] = t[d]
      /\ v[Len(t) + 1].buffer = <<>>
  BY <1>0, <1>1, <1>4, AppendFrame
<1>6. PICK c \in Writers :
           /\ c # p /\ state[c] = "none" /\ state'[c] = "running" /\ stack'[c] = v /\ stack'[p] = t /\ job'[c] = g
           /\ \A q \in Writers \ {c} : state'[q] = state[q] /\ job'[q] = job[q] /\ (q # p => stack'[q] = stack[q])
           /\ copied' = copied \cup UNION {ToSet(stack[p][d].buffer) : d \in DOMAIN stack[p]}
           /\ separate' = separate /\ output' = output /\ OutputTypes'
  <2>1. MovedOn(p) \in Seq(OutputFrames) /\ Entry(p) \in Folders \cup Items /\ "running" \in WriterStates
    BY <1>0, <1>1, <1>4 DEF WriterStates
  <2>2. \E c \in Writers :
           /\ c # p /\ state[c] = "none" /\ state'[c] = "running" /\ stack'[c] = v /\ stack'[p] = MovedOn(p) /\ job'[c] = Entry(p)
           /\ \A q \in Writers \ {c} : state'[q] = state[q] /\ job'[q] = job[q] /\ (q # p => stack'[q] = stack[q])
           /\ copied' = copied \cup UNION {ToSet(stack[p][d].buffer) : d \in DOMAIN stack[p]}
           /\ separate' = separate /\ output' = output /\ OutputTypes'
    BY <1>1, <1>2, <1>3, <1>5, <2>1, Copies
  <2> QED BY ONLY <1>0, <2>2
<1>7. stack[c] = <<>>
  BY <1>2, <1>6 DEF WritersKnown
<1>8. Shape(E \cup {g})' /\ SamePassed(AllPlaces, AllPlaces', E, E \cup {g})
  <2>1. stack'[c] = Append(t, NewFrame(g))
    BY <1>0, <1>6
  <2> QED BY <1>0, <1>1, <1>2, <1>4, <1>6, <2>1, ForkShape
<1>9. CASE ~separate
  <2>0. Together(E)
    BY <1>9 DEF WritersInv
  <2>1. ASSUME NEW q \in Writers, NEW d \in DOMAIN stack'[q]
        PROVE  BufferFor(stack'[q][d], ItemsIn(output[stack'[q][d].folder]))
    <3>1. CASE q = p \/ q = c
      <4>1. d \in DOMAIN v /\ stack'[q][d] = v[d]
        BY <1>5, <1>6, <3>1
      <4>2. BufferFor(v[d], ItemsIn(output[v[d].folder]))
        BY <1>0, <1>1, <1>2, <1>4, <2>0, <4>1, BuffersEntered
      <4> QED BY <4>1, <4>2
    <3>2. CASE q # p /\ q # c
      BY <1>6, <2>0, <3>2 DEF Together
    <3> QED BY <3>1, <3>2
  <2>2. \A e : \A q \in Writers : \A d \in DOMAIN stack'[q] : InBuffer(q, d, e)' =>
           \/ d \in DOMAIN stack[q] /\ InBuffer(q, d, e)
           \/ \E h \in DOMAIN stack[p] : InBuffer(p, h, e)
    <3> SUFFICES ASSUME NEW q \in Writers, NEW d \in DOMAIN stack'[q], NEW e, InBuffer(q, d, e)'
                 PROVE  \/ d \in DOMAIN stack[q] /\ InBuffer(q, d, e)
                        \/ \E h \in DOMAIN stack[p] : InBuffer(p, h, e)
      OBVIOUS
    <3>1. CASE q = p \/ q = c
      <4>1. d \in DOMAIN v /\ e \in ToSet(v[d].buffer)
        BY <1>5, <1>6, <3>1 DEF InBuffer
      <4>2. d # Len(t) + 1
        BY <1>5, <4>1 DEF ToSet
      <4>3. d \in DOMAIN stack[p] /\ InBuffer(p, d, e)
        BY <1>4, <1>5, <4>1, <4>2 DEF InBuffer
      <4> QED BY <4>3
    <3>2. CASE q # p /\ q # c
      BY <1>6, <3>2 DEF InBuffer
    <3> QED BY <3>1, <3>2
  <2>3. \A e : \A q \in Writers : \A d \in DOMAIN stack[q] : InBuffer(q, d, e) => d \in DOMAIN stack'[q] /\ InBuffer(q, d, e)'
    <3> SUFFICES ASSUME NEW q \in Writers, NEW d \in DOMAIN stack[q], NEW e, InBuffer(q, d, e)
                 PROVE  d \in DOMAIN stack'[q] /\ InBuffer(q, d, e)'
      OBVIOUS
    <3>1. CASE q = p
      BY <1>4, <1>6, <3>1 DEF InBuffer
    <3>2. CASE q # p
      BY <1>6, <1>7, <3>2 DEF InBuffer
    <3> QED BY <3>1, <3>2
  <2>4. ASSUME NEW h \in Folders, NEW x \in DOMAIN Entries[h], Entries[h][x] \in Items
        PROVE  Kept(h, Entries[h][x], PassedIn(AllPlaces, E \cup {g}, h, x))'
    <3>1. PICK e, passed, after : e = Entries[h][x] /\ passed = PassedIn(AllPlaces, E, h, x) /\ after = PassedIn(AllPlaces', E \cup {g}, h, x)
      OBVIOUS
    <3>2. Kept(h, e, passed)
      BY <2>0, <2>4, <3>1 DEF Together
    <3>3. passed <=> after
      BY <1>8, <2>4, <3>1 DEF SamePassed
    <3>4. e \in copied' <=> e \in copied \/ \E d \in DOMAIN stack[p] : InBuffer(p, d, e)
      BY <1>6 DEF InBuffer
    <3>5. Kept(h, e, after)'
      BY <1>6, <2>2, <2>3, <3>2, <3>3, <3>4, KeptCopied
    <3> QED BY <3>1, <3>5
  <2>5. Together(E \cup {g})'
    BY <1>6, <2>0, <2>1, <2>4 DEF Together
  <2> QED BY <1>1, <1>2, <1>6, <1>8, <1>9, <2>5 DEF WritersInv, Shape
<1>10. CASE separate
  <2>0. Apart(E)
    BY <1>10 DEF WritersInv
  <2>1. ASSUME NEW q \in Writers, NEW d \in DOMAIN stack'[q] PROVE stack'[q][d].buffer = <<>>
    <3>1. CASE q = p \/ q = c
      <4>1. d \in DOMAIN v /\ stack'[q][d] = v[d]
        BY <1>5, <1>6, <3>1
      <4> QED BY <1>4, <1>5, <2>0, <4>1 DEF Apart
    <3>2. CASE q # p /\ q # c
      BY <1>6, <2>0, <3>2 DEF Apart
    <3> QED BY <3>1, <3>2
  <2>2. copied' = {}
    <3>1. \A d \in DOMAIN stack[p] : ToSet(stack[p][d].buffer) = {}
      BY <2>0 DEF Apart, ToSet
    <3> QED BY <1>6, <2>0, <3>1 DEF Apart
  <2>3. ASSUME NEW h \in Folders, NEW x \in DOMAIN Entries[h], Entries[h][x] \in Items
        PROVE  KeptApart(Entries[h][x], PassedIn(AllPlaces, E \cup {g}, h, x))'
    <3>1. PICK e, passed, after : e = Entries[h][x] /\ passed = PassedIn(AllPlaces, E, h, x) /\ after = PassedIn(AllPlaces', E \cup {g}, h, x)
      OBVIOUS
    <3>2. KeptApart(e, passed)
      BY <2>0, <2>3, <3>1 DEF Apart
    <3>3. passed <=> after
      BY <1>8, <2>3, <3>1 DEF SamePassed
    <3>4. output'[e] = output[e] /\ \A q \in Writers : Writing(q, e)' <=> Writing(q, e)
      BY <1>6 DEF Writing
    <3>5. KeptApart(e, after)'
      BY <3>2, <3>3, <3>4, ApartSame
    <3> QED BY <3>1, <3>5
  <2>4. Apart(E \cup {g})'
    BY <1>6, <2>0, <2>1, <2>2, <2>3 DEF Apart
  <2> QED BY <1>1, <1>2, <1>6, <1>8, <1>10, <2>4 DEF WritersInv, Shape
<1> QED BY <1>9, <1>10

LEMMA LeaveFolderStep ==
  ASSUME NEW E, WritersInv(E), NEW p \in Writers, LeaveFolder(p)
  PROVE  WritersInv(E)'
<1>0. PICK f, b, m, t : f = Top(p).folder /\ b = Top(p).buffer /\ m = Len(stack[p]) /\ t = Front(stack[p])
  OBVIOUS
<1>1. /\ state[p] = "running" /\ ~HasEntry(p) /\ output' = [output EXCEPT ![f] = @ \o Written(p, b)]
      /\ stack' = [stack EXCEPT ![p] = t] /\ state' = [state EXCEPT ![p] = IF f = job[p] THEN "ending" ELSE "running"]
      /\ UNCHANGED <<separate, job, elder, copied>>
  BY <1>0 DEF LeaveFolder
<1>2. Shape(E) /\ OutputTypes /\ WritersKnown /\ E \in SUBSET Folders
  BY DEF WritersInv, Shape
<1>3. /\ stack[p] \in Seq(OutputFrames) /\ NestedIn(stack[p]) /\ stack[p] # <<>> /\ m \in DOMAIN stack[p]
      /\ f \in Folders /\ b \in Seq(Items) /\ f = stack[p][m].folder /\ b = stack[p][m].buffer
      /\ f \in Folders \cup Items
  BY <1>0, <1>1, <1>2, AtWorkFrames
<1>4. t \in Seq(OutputFrames) /\ DOMAIN t = DOMAIN stack[p] \ {m} /\ \A d \in DOMAIN t : t[d] = stack[p][d]
  BY <1>0, <1>3, FrontFrames
<1>5. /\ stack' \in [Writers -> Seq(OutputFrames)] /\ stack'[p] = t
      /\ \A q \in Writers : q # p => stack'[q] = stack[q]
  BY ONLY <1>1, <1>2, <1>4, p \in Writers, StackSet
<1>6. /\ output' \in [Folders \cup Items -> Seq(Records)] /\ output'[f] = output[f] \o Written(p, b)
      /\ \A g \in Folders \cup Items : g # f => output'[g] = output[g]
  BY ONLY <1>1, <1>2, <1>3, p \in Writers, OutputGrown
<1>7. /\ state' \in [Writers -> WriterStates] /\ state'[p] \in {"ending", "running"}
      /\ \A q \in Writers : q # p => state'[q] = state[q]
  <2>1. state \in [Writers -> WriterStates] /\ "ending" \in WriterStates /\ "running" \in WriterStates
    BY <1>2 DEF OutputTypes, WriterStates
  <2> QED BY ONLY <1>1, <2>1, p \in Writers
<1>8. OutputTypes'
  BY <1>1, <1>2, <1>5, <1>6, <1>7 DEF OutputTypes
<1>9. Shape(E)' /\ SamePassed(AllPlaces, AllPlaces', E, E)
  BY <1>2, <1>8, LeaveShape
<1>10. CASE ~separate
  <2>0. Together(E)
    BY <1>10 DEF WritersInv
  <2>1. /\ TextOf(f, output'[f]) /\ ItemsIn(output'[f]) = ItemsIn(output[f]) \cup ToSet(b)
        /\ \A e \in ToSet(b) : e \notin ItemsIn(output[f]) => OnceIn(output'[f], e)
        /\ \A e : e \notin ToSet(b) => (OnceIn(output'[f], e) <=> OnceIn(output[f], e))
    <3>1. PICK w, s : w = output[f] /\ s = stack[p][m]
      OBVIOUS
    <3>2. /\ w \in Seq(Records) /\ TextOf(f, w) /\ BufferFor(s, ItemsIn(w)) /\ s.folder = f /\ s.buffer = b
      <4>1. w \in Seq(Records)
        BY <1>2, <1>3, <3>1 DEF OutputTypes
      <4> QED BY <1>3, <2>0, <3>1, <4>1 DEF Together
    <3>3. /\ s.next <= Len(Entries[f]) + 1 /\ s.next \in Nat
      BY <1>3, <3>1, FramesTyped DEF NestedIn
    <3>4. Len(b) <= Len(s.buffer) /\ s.buffer \in Seq(Items) /\ \A j \in 1 .. Len(b) : b[j] = s.buffer[j]
      <4>1. Len(b) \in Nat
        BY <1>3
      <4> QED BY <1>3, <3>2, <4>1
    <3>5. f \in Folders /\ b \in Seq(Items)
      BY <1>3
    <3>6. /\ TextOf(f, w \o Written(p, b)) /\ ItemsIn(w \o Written(p, b)) = ItemsIn(w) \cup ToSet(b)
          /\ \A e \in ToSet(b) : e \notin ItemsIn(w) => OnceIn(w \o Written(p, b), e)
          /\ \A e : e \notin ToSet(b) => (OnceIn(w \o Written(p, b), e) <=> OnceIn(w, e))
      BY ONLY <3>2, <3>3, <3>4, <3>5, p \in Writers, TextGrown
    <3> QED BY <1>6, <3>1, <3>6
  <2>2. \A g \in Folders : g # f => output'[g] = output[g]
    BY <1>6
  <2>3. \A q \in Writers : \A d \in DOMAIN stack'[q] : d \in DOMAIN stack[q] /\ stack'[q][d] = stack[q][d] /\ ~(q = p /\ d = m)
    BY <1>4, <1>5
  <2>4. ASSUME NEW q \in Writers, NEW d \in DOMAIN stack'[q]
        PROVE  BufferFor(stack'[q][d], ItemsIn(output'[stack'[q][d].folder]))
    <3>1. PICK s, F, G : s = stack'[q][d] /\ F = ItemsIn(output[s.folder]) /\ G = ItemsIn(output'[s.folder])
      OBVIOUS
    <3>2. s \in OutputFrames /\ s.folder \in Folders /\ BufferFor(s, F)
      BY <1>2, <2>0, <2>3, <3>1, FramesTyped DEF OutputTypes, Together
    <3>3. F \subseteq G
      BY <2>1, <2>2, <3>1, <3>2
    <3>4. BufferFor(s, G)
      BY ONLY <3>2, <3>3, BufferStays
    <3> QED BY <3>1, <3>4
  <2>5. \A g \in Folders : TextOf(g, output'[g])
    BY <2>0, <2>1, <2>2 DEF Together
  <2>6. \A q \in Writers : \A d \in DOMAIN stack'[q] : \A e : InBuffer(q, d, e)' => d \in DOMAIN stack[q] /\ InBuffer(q, d, e)
    BY <2>3 DEF InBuffer
  <2>7. \A q \in Writers : \A d \in DOMAIN stack[q] : \A e : InBuffer(q, d, e) =>
          \/ d \in DOMAIN stack'[q] /\ InBuffer(q, d, e)'
          \/ q = p /\ d = m
    BY <1>4, <1>5 DEF InBuffer
  <2>8. ASSUME NEW g \in Folders, NEW x \in DOMAIN Entries[g], Entries[g][x] \in Items
        PROVE  Kept(g, Entries[g][x], PassedIn(AllPlaces, E, g, x))'
    <3>1. PICK e, passed, after : e = Entries[g][x] /\ passed = PassedIn(AllPlaces, E, g, x) /\ after = PassedIn(AllPlaces', E, g, x)
      OBVIOUS
    <3>2. Kept(g, e, passed)
      BY <2>0, <2>8, <3>1 DEF Together
    <3>3. (passed <=> after) /\ copied' = copied
      BY <1>1, <1>9, <2>8, <3>1 DEF SamePassed
    <3>4. CASE e \in ToSet(b)
      <4>1. InBuffer(p, m, e)
        BY <1>3, <3>4 DEF InBuffer
      <4>2. /\ \E y \in DOMAIN Entries[f] : Entries[f][y] = e
            /\ \A d \in DOMAIN stack[p] : InBuffer(p, d, e) => d = m
        BY <1>2, <1>3, <2>0, <4>1, BufferHome
      <4>3. g = f
        BY <1>3, <3>1, <4>2, OnePlace
      <4>4. InFile(g, e)' /\ (~InFile(g, e) => OnceIn(output'[g], e))
        BY <2>1, <3>4, <4>3 DEF InFile
      <4>5. \A d \in DOMAIN stack'[p] : ~InBuffer(p, d, e)'
        BY <2>3, <2>6, <4>2
      <4>6. Kept(g, e, after)'
        BY <1>3, <2>6, <3>2, <3>3, <4>1, <4>4, <4>5, KeptMoves
      <4> QED BY <3>1, <4>6
    <3>5. CASE e \notin ToSet(b)
      <4>1. (InFile(g, e)' <=> InFile(g, e)) /\ (OnceIn(output'[g], e) <=> OnceIn(output[g], e))
        BY <2>1, <2>2, <3>5 DEF InFile
      <4>2. \A q \in Writers : \A d \in DOMAIN stack[q] : InBuffer(q, d, e) => d \in DOMAIN stack'[q] /\ InBuffer(q, d, e)'
        BY <1>3, <2>7, <3>5 DEF InBuffer
      <4>3. Kept(g, e, after)'
        BY <2>6, <3>2, <3>3, <4>1, <4>2, KeptMoves
      <4> QED BY <3>1, <4>3
    <3> QED BY <3>4, <3>5
  <2>9. Together(E)'
    BY <2>4, <2>5, <2>8 DEF Together
  <2> QED BY <1>1, <1>9, <1>10, <2>9 DEF WritersInv, Shape
<1>11. CASE separate
  <2>0. Apart(E)
    BY <1>11 DEF WritersInv
  <2>1. b = <<>> /\ output[f] = <<>> /\ <<>> \in Seq(Records)
    BY <1>3, <2>0 DEF Apart
  <2>2. output'[f] = <<>>
    BY <1>6, <2>1, NothingWritten
  <2>3. ASSUME NEW h \in Folders, NEW x \in DOMAIN Entries[h], Entries[h][x] \in Items
        PROVE  KeptApart(Entries[h][x], PassedIn(AllPlaces, E, h, x))'
    <3>1. PICK e, passed, after : e = Entries[h][x] /\ passed = PassedIn(AllPlaces, E, h, x) /\ after = PassedIn(AllPlaces', E, h, x)
      OBVIOUS
    <3>2. KeptApart(e, passed)
      BY <2>0, <2>3, <3>1 DEF Apart
    <3>3. passed <=> after
      BY <1>9, <2>3, <3>1 DEF SamePassed
    <3>4. output'[e] = output[e]
      BY <1>6, <1>3, <2>3, <3>1, ItemsApart
    <3>5. \A q \in Writers : Writing(q, e)' <=> Writing(q, e)
      BY <1>1, <1>7 DEF Writing
    <3>6. KeptApart(e, after)'
      BY <3>2, <3>3, <3>4, <3>5, ApartSame
    <3> QED BY <3>1, <3>6
  <2>4. \A h \in Folders : output'[h] = <<>>
    BY <1>6, <2>0, <2>2 DEF Apart
  <2>5. \A q \in Writers : \A d \in DOMAIN stack'[q] : stack'[q][d].buffer = <<>>
    BY <1>4, <1>5, <2>0 DEF Apart
  <2>6. Apart(E)'
    BY <1>1, <2>0, <2>3, <2>4, <2>5 DEF Apart
  <2> QED BY <1>1, <1>9, <1>11, <2>6 DEF WritersInv, Shape
<1> QED BY <1>10, <1>11

\* exit(0) writes the buffers of all streams that are open.
LEMMA ExitProcessStep ==
  ASSUME NEW E, WritersInv(E), NEW p \in Writers, ExitProcess(p)
  PROVE  WritersInv(E)'
<1>1. /\ state[p] = "ending"
      /\ output' = [f \in DOMAIN output |-> output[f] \o Written(p, Unwritten(p, f))]
      /\ state' = [state EXCEPT ![p] = "exited"] /\ stack' = [stack EXCEPT ![p] = <<>>]
      /\ UNCHANGED <<separate, job, elder, copied>>
  BY DEF ExitProcess
<1>2. Shape(E) /\ OutputTypes /\ WritersKnown /\ E \in SUBSET Folders
  BY DEF WritersInv, Shape
<1>3. stack[p] \in Seq(OutputFrames) /\ NestedIn(stack[p]) /\ <<>> \in Seq(OutputFrames)
  BY <1>2 DEF OutputTypes, WritersKnown
<1>4. /\ stack' \in [Writers -> Seq(OutputFrames)] /\ stack'[p] = <<>>
      /\ \A q \in Writers : q # p => stack'[q] = stack[q]
  BY ONLY <1>1, <1>2, <1>3, p \in Writers, StackSet
<1>5. /\ state' \in [Writers -> WriterStates] /\ state'[p] = "exited"
      /\ \A q \in Writers : q # p => state'[q] = state[q]
  <2>1. state \in [Writers -> WriterStates] /\ "exited" \in WriterStates
    BY <1>2 DEF OutputTypes, WriterStates
  <2> QED BY ONLY <1>1, <2>1, p \in Writers
<1>6. \A f \in Folders \cup Items : output[f] \in Seq(Records) /\ output'[f] = output[f] \o Written(p, Unwritten(p, f))
  BY <1>1, <1>2 DEF OutputTypes
<1>7. output' \in [Folders \cup Items -> Seq(Records)]
  <2>1. \A f \in Folders \cup Items : output[f] \o Written(p, Unwritten(p, f)) \in Seq(Records)
    BY <1>2, <1>6, UnwrittenOf, FileGrown
  <2>2. DOMAIN output = Folders \cup Items
    BY <1>2 DEF OutputTypes
  <2> QED BY <1>1, <2>1, <2>2
<1>8. OutputTypes'
  BY <1>1, <1>2, <1>4, <1>5, <1>7 DEF OutputTypes
<1>9. Shape(E)' /\ AllPlaces' = AllPlaces
  <2>1. \A q \in Writers : \/ state'[q] = state[q] /\ stack'[q] = stack[q]
                           \/ state[q] = "ending" /\ state'[q] = "exited" /\ stack'[q] = <<>>
    BY <1>1, <1>4, <1>5
  <2> QED BY <1>1, <1>2, <1>8, <2>1, EndingShape
<1>10. CASE ~separate
  <2>0. Together(E)
    BY <1>10 DEF WritersInv
  <2>1. ASSUME NEW f \in Folders
        PROVE  /\ TextOf(f, output'[f]) /\ ItemsIn(output'[f]) = ItemsIn(output[f]) \cup ToSet(Unwritten(p, f))
               /\ \A e \in ToSet(Unwritten(p, f)) : e \notin ItemsIn(output[f]) => OnceIn(output'[f], e)
               /\ \A e : e \notin ToSet(Unwritten(p, f)) => (OnceIn(output'[f], e) <=> OnceIn(output[f], e))
    <3>0. PICK w, b : w = output[f] /\ b = Unwritten(p, f)
      OBVIOUS
    <3>1. w \in Seq(Records) /\ output'[f] = w \o Written(p, b) /\ TextOf(f, w) /\ b \in Seq(Items)
      BY <1>2, <1>6, <2>0, <3>0, UnwrittenOf DEF Together
    <3>2. CASE b = <<>>
      <4>1. output'[f] = w
        BY <3>1, <3>2, NothingWritten
      <4>2. ToSet(b) = {}
        BY <3>2 DEF ToSet
      <4> QED BY <3>0, <3>1, <4>1, <4>2
    <3>3. ASSUME NEW d \in DOMAIN stack[p], stack[p][d].folder = f, b = stack[p][d].buffer
          PROVE  /\ TextOf(f, output'[f]) /\ ItemsIn(output'[f]) = ItemsIn(w) \cup ToSet(b)
                 /\ \A e \in ToSet(b) : e \notin ItemsIn(w) => OnceIn(output'[f], e)
                 /\ \A e : e \notin ToSet(b) => (OnceIn(output'[f], e) <=> OnceIn(w, e))
      <4>1. PICK s : s = stack[p][d]
        OBVIOUS
      <4>2. BufferFor(s, ItemsIn(w)) /\ s.folder = f /\ s.buffer = b
        BY <2>0, <3>0, <3>3, <4>1 DEF Together
      <4>3. /\ s.next <= Len(Entries[f]) + 1 /\ s.next \in Nat
        BY <1>3, <3>3, <4>1, FramesTyped DEF NestedIn
      <4>4. Len(b) <= Len(s.buffer) /\ s.buffer \in Seq(Items) /\ \A j \in 1 .. Len(b) : b[j] = s.buffer[j]
        <5>1. Len(b) \in Nat
          BY <3>1
        <5> QED BY <3>1, <4>2, <5>1
      <4>5. /\ TextOf(f, w \o Written(p, b)) /\ ItemsIn(w \o Written(p, b)) = ItemsIn(w) \cup ToSet(b)
            /\ \A e \in ToSet(b) : e \notin ItemsIn(w) => OnceIn(w \o Written(p, b), e)
            /\ \A e : e \notin ToSet(b) => (OnceIn(w \o Written(p, b), e) <=> OnceIn(w, e))
        BY ONLY <3>1, <4>2, <4>3, <4>4, p \in Writers, f \in Folders, TextGrown
      <4> QED BY <3>1, <4>5
    <3>4. b = <<>> \/ \E d \in DOMAIN stack[p] : stack[p][d].folder = f /\ b = stack[p][d].buffer
      BY <1>2, <3>0, UnwrittenOf
    <3> QED BY <3>0, <3>2, <3>3, <3>4
  <2>2. \A q \in Writers : \A d \in DOMAIN stack'[q] : d \in DOMAIN stack[q] /\ stack'[q][d] = stack[q][d] /\ q # p
    BY <1>4
  <2>3. ASSUME NEW q \in Writers, NEW d \in DOMAIN stack'[q]
        PROVE  BufferFor(stack'[q][d], ItemsIn(output'[stack'[q][d].folder]))
    <3>1. PICK s, F, G : s = stack'[q][d] /\ F = ItemsIn(output[s.folder]) /\ G = ItemsIn(output'[s.folder])
      OBVIOUS
    <3>2. s \in OutputFrames /\ s.folder \in Folders /\ BufferFor(s, F)
      BY <1>2, <2>0, <2>2, <3>1, FramesTyped DEF OutputTypes, Together
    <3>3. F \subseteq G
      BY <2>1, <3>1, <3>2
    <3>4. BufferFor(s, G)
      BY ONLY <3>2, <3>3, BufferStays
    <3> QED BY <3>1, <3>4
  <2>4. \A q \in Writers : \A d \in DOMAIN stack'[q] : \A e : InBuffer(q, d, e)' => d \in DOMAIN stack[q] /\ InBuffer(q, d, e)
    BY <2>2 DEF InBuffer
  <2>5. \A q \in Writers : \A d \in DOMAIN stack[q] : \A e : InBuffer(q, d, e) /\ q # p =>
          d \in DOMAIN stack'[q] /\ InBuffer(q, d, e)'
    BY <1>4 DEF InBuffer
  <2>6. ASSUME NEW g \in Folders, NEW x \in DOMAIN Entries[g], Entries[g][x] \in Items
        PROVE  Kept(g, Entries[g][x], PassedIn(AllPlaces, E, g, x))'
    <3>1. PICK e, passed, after : e = Entries[g][x] /\ passed = PassedIn(AllPlaces, E, g, x) /\ after = PassedIn(AllPlaces', E, g, x)
      OBVIOUS
    <3>2. Kept(g, e, passed)
      BY <2>0, <2>6, <3>1 DEF Together
    <3>3. (passed <=> after) /\ copied' = copied
      BY <1>1, <1>9, <3>1
    <3>4. ASSUME NEW d \in DOMAIN stack[p], InBuffer(p, d, e) PROVE Kept(g, e, after)'
      <4>1. stack[p][d].folder \in Folders /\ \E y \in DOMAIN Entries[stack[p][d].folder] : Entries[stack[p][d].folder][y] = e
        BY <1>2, <2>0, <3>4, BufferHome
      <4>2. stack[p][d].folder = g
        BY <3>1, <4>1, OnePlace
      <4>3. e \in ToSet(Unwritten(p, g))
        <5>1. PICK c \in DOMAIN stack[p] : stack[p][c].folder = g /\ Unwritten(p, g) = stack[p][c].buffer
          BY <1>2, <4>2, UnwrittenOf
        <5>2. c = d
          BY <1>3, <4>2, <5>1, NestedApart
        <5> QED BY <3>4, <5>1, <5>2 DEF InBuffer
      <4>4. InFile(g, e)' /\ (~InFile(g, e) => OnceIn(output'[g], e))
        BY <2>1, <4>3 DEF InFile
      <4>5. \A c \in DOMAIN stack'[p] : ~InBuffer(p, c, e)'
        BY <2>2
      <4> QED BY <2>4, <3>2, <3>3, <3>4, <4>4, <4>5, KeptMoves
    <3>5. ASSUME \A d \in DOMAIN stack[p] : ~InBuffer(p, d, e) PROVE Kept(g, e, after)'
      <4>1. e \notin ToSet(Unwritten(p, g))
        <5>1. CASE Unwritten(p, g) = <<>>
          BY <5>1 DEF ToSet
        <5>2. CASE \E d \in DOMAIN stack[p] : Unwritten(p, g) = stack[p][d].buffer
          BY <3>5, <5>2 DEF InBuffer
        <5> QED BY <1>2, <5>1, <5>2, UnwrittenOf
      <4>2. (InFile(g, e)' <=> InFile(g, e)) /\ (OnceIn(output'[g], e) <=> OnceIn(output[g], e))
        BY <2>1, <4>1 DEF InFile
      <4>3. \A q \in Writers : \A d \in DOMAIN stack[q] : InBuffer(q, d, e) => d \in DOMAIN stack'[q] /\ InBuffer(q, d, e)'
        BY <2>5, <3>5
      <4> QED BY <2>4, <3>2, <3>3, <4>2, <4>3, KeptMoves
    <3>6. Kept(g, e, after)'
      BY <3>4, <3>5
    <3> QED BY <3>1, <3>6
  <2>7. Together(E)'
    BY <2>1, <2>3, <2>6 DEF Together
  <2> QED BY <1>1, <1>9, <1>10, <2>7 DEF WritersInv, Shape
<1>11. CASE separate
  <2>0. Apart(E)
    BY <1>11 DEF WritersInv
  <2>1. \A f \in Folders \cup Items : output'[f] = output[f]
    <3> TAKE f \in Folders \cup Items
    <3>1. Unwritten(p, f) = <<>>
      BY <1>2, <2>0, UnwrittenOf DEF Apart
    <3>2. output[f] \o Written(p, <<>>) = output[f]
      BY <1>6, NothingWritten
    <3> QED BY <1>6, <3>1, <3>2
  <2>2. ASSUME NEW h \in Folders, NEW x \in DOMAIN Entries[h], Entries[h][x] \in Items
        PROVE  KeptApart(Entries[h][x], PassedIn(AllPlaces, E, h, x))'
    <3>1. PICK e, passed, after : e = Entries[h][x] /\ passed = PassedIn(AllPlaces, E, h, x) /\ after = PassedIn(AllPlaces', E, h, x)
      OBVIOUS
    <3>2. KeptApart(e, passed) /\ (passed <=> after)
      BY <1>9, <2>0, <2>2, <3>1 DEF Apart
    <3>3. output'[e] = output[e]
      BY <2>1, <2>2, <3>1
    <3>4. \A q \in Writers : Writing(q, e)' <=> Writing(q, e)
      BY <1>1, <1>5 DEF Writing
    <3>5. KeptApart(e, after)'
      BY <3>2, <3>3, <3>4, ApartSame
    <3> QED BY <3>1, <3>5
  <2>3. \A q \in Writers : \A d \in DOMAIN stack'[q] : stack'[q][d].buffer = <<>>
    BY <1>4, <2>0 DEF Apart
  <2>4. Apart(E)'
    BY <1>1, <2>0, <2>1, <2>2, <2>3 DEF Apart
  <2> QED BY <1>1, <1>9, <1>11, <2>4 DEF WritersInv, Shape
<1> QED BY <1>10, <1>11

LEMMA OutputStart ==
  ASSUME OutputInit
  PROVE  WritersInv({Root})
<1>1. /\ separate \in BOOLEAN /\ copied = {} /\ Root \in Folders
      /\ \A p \in Writers : /\ state[p] = IF p = 1 THEN "running" ELSE "none"
                            /\ stack[p] = IF p = 1 THEN <<NewFrame(Root)>> ELSE <<>>
                            /\ job[p] = Root
      /\ \A f \in Folders \cup Items : output[f] = <<>>
  BY EntriesTyped DEF OutputInit
<1>2. /\ NewFrame(Root) \in OutputFrames /\ NewFrame(Root).folder = Root /\ NewFrame(Root).next = 1
      /\ NewFrame(Root).buffer = <<>>
  <2>1. <<>> \in Seq(OutputFrames)
    OBVIOUS
  <2> QED BY <1>1, <2>1, AppendFrame
<1>3. PICK a : a = NewFrame(Root)
  OBVIOUS
<1>4. <<a>> \in Seq(OutputFrames) /\ DOMAIN <<a>> = {1} /\ <<a>>[1] = a /\ <<>> \in Seq(OutputFrames) /\ <<a>> # <<>>
  BY <1>2, <1>3
<1>5. OutputTypes
  <2>1. stack = [p \in Writers |-> IF p = 1 THEN <<a>> ELSE <<>>] /\ job = [p \in Writers |-> Root]
    BY <1>3 DEF OutputInit
  <2>2. stack \in [Writers -> Seq(OutputFrames)] /\ job \in [Writers -> Folders \cup Items]
    BY ONLY <1>1, <1>4, <2>1
  <2>3. state \in [Writers -> WriterStates]
    BY DEF OutputInit, WriterStates
  <2>4. output \in [Folders \cup Items -> Seq(Records)]
    <3>1. <<>> \in Seq(Records)
      OBVIOUS
    <3> QED BY <3>1 DEF OutputInit
  <2> QED BY <1>1, <2>2, <2>3, <2>4 DEF OutputTypes
<1>6. \A p \in Writers : /\ p = 1 => stack[p] = <<a>>
                         /\ p # 1 => stack[p] = <<>>
  BY <1>1, <1>3
<1>7. NestedIn(<<a>>) /\ NestedIn(<<>>)
  <2>1. a.folder = Root /\ a.next <= Len(Entries[Root]) + 1
    BY <1>1, <1>2, <1>3, EntriesTyped
  <2> QED BY <1>4, <2>1 DEF NestedIn
<1>8. WritersKnown
  <2>1. \A p \in Writers : NestedIn(stack[p]) /\ state[p] # "item" /\ state[p] # "exited"
    BY <1>1, <1>6, <1>7
  <2>2. \A p \in Writers : state[p] = "none" => stack[p] = <<>>
    BY <1>1
  <2>3. \A p \in Writers : state[p] = "running" => \E d \in DOMAIN stack[p] : stack[p][d].folder = job[p]
    <3>1. \E d \in DOMAIN <<a>> : <<a>>[d].folder = Root
      BY <1>2, <1>3, <1>4
    <3> QED BY <1>1, <1>6, <3>1
  <2> QED BY <2>1, <2>2, <2>3 DEF WritersKnown
<1>9. \A p \in Writers, f \in Folders, n \in Nat : <<f, n>> \in AllPlaces[p] => f = Root /\ n = 1 /\ p = 1
  <2> SUFFICES ASSUME NEW p \in Writers, NEW f \in Folders, NEW n \in Nat, <<f, n>> \in AllPlaces[p]
               PROVE  f = Root /\ n = 1 /\ p = 1
    OBVIOUS
  <2>1. p = 1 /\ <<f, n>> \in PlacesIn(<<a>>, Root)
    BY <1>1, <1>6 DEF AllPlaces
  <2>2. \E d \in DOMAIN <<a>> : <<f, n>> = <<<<a>>[d].folder, <<a>>[d].next>>
    BY <2>1 DEF PlacesIn
  <2>3. <<f, n>> = <<a.folder, a.next>>
    BY <1>4, <2>2
  <2> QED BY <1>2, <1>3, <2>1, <2>3
<1>10. 1 \in Writers /\ <<Root, 1>> \in AllPlaces[1]
  <2>1. 1 \in Writers
    BY EntriesAssumption DEF Writers
  <2>2. AllPlaces[1] = PlacesIn(<<a>>, Root)
    BY <1>1, <1>6, <2>1 DEF AllPlaces
  <2>3. 1 \in DOMAIN <<a>> /\ 1 \in 1 .. 1 /\ <<a>>[1].folder = Root /\ <<a>>[1].next = 1
    BY <1>2, <1>3, <1>4
  <2>4. <<Root, 1>> \in PlacesIn(<<a>>, Root)
    <3> DEFINE Own == {c \in DOMAIN <<a>> : \E e \in 1 .. c : <<a>>[e].folder = Root}
    <3>1. 1 \in Own
      BY <2>3
    <3> HIDE DEF Own
    <3>2. <<<<a>>[1].folder, <<a>>[1].next>> \in {<<<<a>>[d].folder, <<a>>[d].next>> : d \in Own}
      BY <3>1
    <3> QED BY <2>3, <3>2 DEF PlacesIn, Own
  <2> QED BY <2>1, <2>2, <2>4
<1>11. \A f \in Folders : \A x \in DOMAIN Entries[f] : ~PassedIn(AllPlaces, {Root}, f, x)
  <2> SUFFICES ASSUME NEW f \in Folders, NEW x \in DOMAIN Entries[f], PassedIn(AllPlaces, {Root}, f, x) PROVE FALSE
    OBVIOUS
  <2>1. f = Root
    BY DEF PassedIn
  <2>2. x < 1
    BY <1>10, <2>1 DEF PassedIn
  <2> QED BY <2>2, EntriesTyped
<1>12. \A f \in Folders : \A x \in DOMAIN Entries[f] : Entries[f][x] # Root
  BY <1>1, EntriesTyped
<1>13. ProgressIn(AllPlaces, {Root})
  BY <1>9, <1>11, <1>12 DEF ProgressIn
<1>14. \A p \in Writers : \A d \in DOMAIN stack[p] :
         /\ stack[p][d].buffer = <<>> /\ stack[p][d].next = 1 /\ \A i : ~InBuffer(p, d, i)
  <2>1. \A p \in Writers : \A d \in DOMAIN stack[p] : stack[p][d].buffer = <<>> /\ stack[p][d].next = 1
    BY <1>2, <1>3, <1>4, <1>6
  <2> QED BY <2>1 DEF InBuffer, ToSet
<1>15. \A f \in Folders : output[f] = <<>> /\ TextOf(f, output[f]) /\ \A i : ~InFile(f, i) /\ OnceIn(output[f], i)
  BY <1>1 DEF TextOf, InFile, ItemsIn, OnceIn
<1>16. Together({Root})
  <2>1. \A p \in Writers : \A d \in DOMAIN stack[p] : BufferFor(stack[p][d], ItemsIn(output[stack[p][d].folder]))
    BY <1>14 DEF BufferFor
  <2>2. \A f \in Folders : \A x \in DOMAIN Entries[f] :
       Entries[f][x] \in Items => Kept(f, Entries[f][x], PassedIn(AllPlaces, {Root}, f, x))
    BY <1>1, <1>11, <1>14, <1>15 DEF Kept
  <2> QED BY <1>15, <2>1, <2>2 DEF Together
<1>17. Apart({Root})
  <2>1. \A i : \A p \in Writers : ~Writing(p, i)
    BY <1>1 DEF Writing
  <2>2. \A f \in Folders : \A x \in DOMAIN Entries[f] :
       Entries[f][x] \in Items => KeptApart(Entries[f][x], PassedIn(AllPlaces, {Root}, f, x))
    BY <1>1, <1>11, <2>1 DEF KeptApart
  <2> QED BY <1>1, <1>14, <1>15, <2>2 DEF Apart
<1> QED BY <1>1, <1>5, <1>8, <1>13, <1>16, <1>17 DEF WritersInv

LEMMA OutputSteps ==
  ASSUME NEW E \in SUBSET Folders, WritersInv(E), [OutputNext]_outputVars
  PROVE  \E D \in SUBSET Folders : WritersInv(D)'
<1>1. ASSUME NEW p \in Writers, WriteItem(p) PROVE WritersInv(E)'
  BY <1>1, WriteItemStep
<1>2. ASSUME NEW p \in Writers, WriteSeparate(p) PROVE WritersInv(E)'
  BY <1>2, WriteSeparateStep
<1>3. ASSUME NEW p \in Writers, ForkItem(p) PROVE WritersInv(E)'
  BY <1>3, ForkItemStep
<1>4. ASSUME NEW p \in Writers, ChildWrites(p) PROVE WritersInv(E)'
  BY <1>4, ChildWritesStep
<1>5. ASSUME NEW p \in Writers, ForkFolder(p) PROVE \E D \in SUBSET Folders : WritersInv(D)'
  BY <1>5, ForkFolderStep
<1>6. ASSUME NEW p \in Writers, EnterFolder(p) PROVE \E D \in SUBSET Folders : WritersInv(D)'
  BY <1>6, EnterFolderStep
<1>7. ASSUME NEW p \in Writers, LeaveFolder(p) PROVE WritersInv(E)'
  BY <1>7, LeaveFolderStep
<1>8. ASSUME NEW p \in Writers, ExitProcess(p) PROVE WritersInv(E)'
  BY <1>8, ExitProcessStep
<1>9. CASE UNCHANGED outputVars
  <2>1. /\ separate' = separate /\ state' = state /\ stack' = stack /\ job' = job /\ output' = output /\ copied' = copied
    BY <1>9 DEF outputVars
  <2>2. OutputTypes' /\ AllPlaces' = AllPlaces
    BY <2>1 DEF WritersInv, OutputTypes, AllPlaces
  <2>3. WritersKnown'
    BY <2>1 DEF WritersInv, WritersKnown, Top, Entry
  <2>4. Together(E) => Together(E)'
    BY <2>1, <2>2 DEF Together, Kept, InFile, InBuffer
  <2>5. Apart(E) => Apart(E)'
    BY <2>1, <2>2 DEF Apart, KeptApart, Writing
  <2> QED BY <2>1, <2>2, <2>3, <2>4, <2>5 DEF WritersInv
<1> QED BY <1>1, <1>2, <1>3, <1>4, <1>5, <1>6, <1>7, <1>8, <1>9 DEF OutputNext

\* An item is in a file as often as the text has it.
LEMMA CountedOnce ==
  ASSUME NEW w \in Seq(Records), NEW i
  PROVE  /\ i \notin ItemsIn(w) => Cardinality({k \in DOMAIN w : w[k].item = i}) = 0
         /\ i \in ItemsIn(w) => Cardinality({k \in DOMAIN w : w[k].item = i}) >= 1
         /\ i \in ItemsIn(w) /\ OnceIn(w, i) => Cardinality({k \in DOMAIN w : w[k].item = i}) = 1
<1> DEFINE S == {k \in DOMAIN w : w[k].item = i}
<1>1. IsFiniteSet(S) /\ Cardinality(S) \in Nat
  <2>1. DOMAIN w = 1 .. Len(w) /\ Len(w) \in Nat
    OBVIOUS
  <2>2. IsFiniteSet(DOMAIN w)
    BY <2>1, FS_Interval
  <2>3. IsFiniteSet(S)
    BY <2>2, FS_Subset
  <2> QED BY <2>3, FS_CardinalityType
<1>2. i \in ItemsIn(w) <=> S # {}
  BY DEF ItemsIn
<1>3. Cardinality(S) = 0 <=> S = {}
  BY <1>1, FS_EmptySet
<1>4. ASSUME S # {}, OnceIn(w, i) PROVE Cardinality(S) = 1
  <2>1. PICK k \in S : TRUE
    BY <1>4
  <2>2. S = {k}
    BY <1>4, <2>1 DEF OnceIn
  <2> QED BY <2>2, FS_Singleton
<1> HIDE DEF S
<1>5. /\ i \notin ItemsIn(w) => Cardinality(S) = 0
      /\ i \in ItemsIn(w) => Cardinality(S) >= 1
      /\ i \in ItemsIn(w) /\ OnceIn(w, i) => Cardinality(S) = 1
  BY <1>1, <1>2, <1>3, <1>4
<1> QED BY <1>5 DEF S

\* Every folder is entered when all processes have ended, and every item is passed.
LEMMA AllPassed ==
  ASSUME NEW E \in SUBSET Folders, Shape(E), Finished, NEW f \in Folders, NEW x \in DOMAIN Entries[f]
  PROVE  PassedIn(AllPlaces, E, f, x) /\ \A p \in Writers : stack[p] = <<>> /\ state[p] \in {"none", "exited"}
<1>1. \A p \in Writers : state[p] \in {"none", "exited"} /\ stack[p] = <<>>
  BY DEF Finished, Ended, Shape, WritersKnown
<1>2. \A p \in Writers : AllPlaces[p] = {}
  BY <1>1 DEF AllPlaces
<1>3. \A g \in Folders : \A y \in DOMAIN Entries[g] : PassedIn(AllPlaces, E, g, y) <=> g \in E
  BY <1>2 DEF PassedIn
<1>4. Root \in E /\ \A g \in E : ToSet(Entries[g]) \cap Folders \subseteq E
  <2>1. Root \in E
    BY DEF Shape, ProgressIn
  <2>2. ASSUME NEW g \in E, NEW y \in DOMAIN Entries[g], Entries[g][y] \in Folders PROVE Entries[g][y] \in E
    BY <1>3, <2>2 DEF Shape, ProgressIn
  <2> QED BY <2>1, <2>2 DEF ToSet
<1>5. E = Folders
  BY <1>4, EntriesAssumption
<1> QED BY <1>1, <1>3, <1>5

LEMMA WrittenWhenFinished ==
  ASSUME NEW E \in SUBSET Folders, WritersInv(E)
  PROVE  ItemsWritten
<1>1. Shape(E) /\ OutputTypes
  BY DEF WritersInv, Shape
<1>2. ASSUME NEW i \in Items PROVE \E f \in Folders : \E x \in DOMAIN Entries[f] : Entries[f][x] = i
  BY ItemPlaced
<1>3. ASSUME NEW f \in Folders, NEW i \in ToSet(Entries[f]), i \in Items
      PROVE  (CHOOSE g \in Folders : i \in ToSet(Entries[g])) = f
  <2>1. \A g \in Folders : i \in ToSet(Entries[g]) => g = f
    BY <1>3, OnePlace DEF ToSet
  <2> QED BY <2>1
<1>4. CASE separate
  <2>0. Apart(E)
    BY <1>4 DEF WritersInv
  <2>1. ASSUME NEW i \in Items
        PROVE  Times(i) <= 1 /\ (Finished => Times(i) = 1)
    <3>1. PICK f \in Folders : \E x \in DOMAIN Entries[f] : Entries[f][x] = i
      BY <1>2
    <3>0. PICK x \in DOMAIN Entries[f] : Entries[f][x] = i
      BY <3>1
    <3>2. KeptApart(i, PassedIn(AllPlaces, E, f, x))
      BY <2>0, <3>0 DEF Apart
    <3>3. PICK w : w = output[i]
      OBVIOUS
    <3>4. w \in Seq(Records) /\ Times(i) = Cardinality({k \in DOMAIN w : w[k].item = i})
      BY <1>1, <1>4, <3>3 DEF OutputTypes, Times, Home
    <3>5. w = <<>> \/ (Len(w) = 1 /\ w[1].item = i)
      BY <3>2, <3>3 DEF KeptApart
    <3>6. OnceIn(w, i)
      BY <3>4, <3>5 DEF OnceIn
    <3>7. Times(i) <= 1
      <4>1. CASE i \in ItemsIn(w)
        BY <3>4, <3>6, <4>1, CountedOnce
      <4>2. CASE i \notin ItemsIn(w)
        <5>1. Cardinality({k \in DOMAIN w : w[k].item = i}) = 0
          BY <3>4, <4>2, CountedOnce
        <5>2. Times(i) = 0
          BY <3>4, <5>1
        <5> QED BY <5>2
      <4> QED BY <4>1, <4>2
    <3>8. ASSUME Finished PROVE Times(i) = 1
      <4>1. PassedIn(AllPlaces, E, f, x) /\ \A p \in Writers : state[p] \in {"none", "exited"}
        BY <1>1, <3>8, AllPassed
      <4>2. \A p \in Writers : ~Writing(p, i)
        BY <4>1 DEF Writing
      <4>3. Len(w) = 1 /\ w[1].item = i
        BY <3>2, <3>3, <4>1, <4>2 DEF KeptApart
      <4>4. i \in ItemsIn(w)
        BY <3>4, <4>3 DEF ItemsIn
      <4> QED BY <3>4, <3>6, <4>4, CountedOnce
    <3> QED BY <3>7, <3>8
  <2>2. copied = {}
    BY <2>0 DEF Apart
  <2>3. ItemsInOrder
    BY <2>0 DEF Apart, ItemsInOrder
  <2> QED BY <2>1, <2>2, <2>3 DEF ItemsWritten, SeparateOnce
<1>5. CASE ~separate
  <2>0. Together(E)
    BY <1>5 DEF WritersInv
  <2>1. ASSUME NEW i \in Items, Finished
        PROVE  IF i \in copied THEN Times(i) >= 1 ELSE Times(i) = 1
    <3>1. PICK f \in Folders : \E x \in DOMAIN Entries[f] : Entries[f][x] = i
      BY <1>2
    <3>0. PICK x \in DOMAIN Entries[f] : Entries[f][x] = i
      BY <3>1
    <3>2. Kept(f, i, PassedIn(AllPlaces, E, f, x))
      BY <2>0, <3>0 DEF Together
    <3>3. PICK w : w = output[f]
      OBVIOUS
    <3>4. w \in Seq(Records) /\ Times(i) = Cardinality({k \in DOMAIN w : w[k].item = i})
      <4>1. i \in ToSet(Entries[f])
        BY <3>0 DEF ToSet
      <4>2. Home(i) = f
        BY <1>3, <1>5, <4>1 DEF Home
      <4> QED BY <1>1, <3>3, <4>2 DEF OutputTypes, Times
    <3>5. PassedIn(AllPlaces, E, f, x) /\ \A p \in Writers : stack[p] = <<>>
      BY <1>1, <2>1, AllPassed
    <3>6. i \in ItemsIn(w)
      BY <3>2, <3>3, <3>5 DEF Kept, InFile
    <3>7. i \notin copied => OnceIn(w, i)
      BY <3>2, <3>3 DEF Kept
    <3> QED BY <3>4, <3>6, <3>7, CountedOnce
  <2>2. ItemsInOrder
    BY <2>0 DEF Together, TextOf, ItemsInOrder
  <2> QED BY <1>5, <2>1, <2>2 DEF ItemsWritten, SeparateOnce
<1> QED BY <1>4, <1>5

\* Whatever is forked, by whom and in which order, and however much of a buffer
\* goes to the file before it is full: when readpst has ended every item is in
\* the file of its folder, once unless its text was copied by a fork; the
\* file has the items in the order of the folder; and in separate mode no item
\* is ever written twice (readpst.c 286-296 and 441-578).
THEOREM ItemsNeverLost == OutputSpec => []ItemsWritten
<1> DEFINE Inv == \E E \in SUBSET Folders : WritersInv(E)
<1>1. OutputInit => Inv
  <2>1. {Root} \in SUBSET Folders
    BY EntriesTyped
  <2> QED BY <2>1, OutputStart
<1>2. Inv /\ [OutputNext]_outputVars => Inv'
  <2> SUFFICES ASSUME NEW E \in SUBSET Folders, WritersInv(E), [OutputNext]_outputVars
               PROVE  \E D \in SUBSET Folders : WritersInv(D)'
    OBVIOUS
  <2> QED BY OutputSteps
<1>3. Inv => ItemsWritten
  BY WrittenWhenFinished
<1> HIDE DEF Inv
<1> QED BY <1>1, <1>2, <1>3, PTL DEF OutputSpec
=============================================================================
