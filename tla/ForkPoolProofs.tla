--------------------------- MODULE ForkPoolProofs ---------------------------
(***************************************************************************)
(* Safety of the process pool for every folder tree, every number of slots *)
(* and every number of failures; no folder is processed twice, and without *)
(* failures none is left out.                                              *)
(***************************************************************************)
EXTENDS ForkPool, FiniteSetTheorems, SequenceTheorems, TLAPS

-----------------------------------------------------------------------------
\* Facts about the operators on activations and on the list of children.

LEMMA ResumedType ==
  ASSUME VariableTypes, NEW p \in Procs, stack[p] # <<>>
  PROVE  /\ Resumed(p) \in Seq(Frame)
         /\ Len(Resumed(p)) = Len(stack[p])
         /\ Resumed(p) # <<>>
<1>1. stack[p] \in Seq(Frame) /\ Len(stack[p]) \in 1 .. Len(stack[p])
  BY DEF VariableTypes
<1>2. stack[p][Len(stack[p])] \in Frame
  BY <1>1
<1>3. Resumed(p) \in Seq(Frame) /\ Len(Resumed(p)) = Len(stack[p])
  BY <1>1, <1>2 DEF Resumed, Frame
<1>4. QED
  BY <1>1, <1>3

\* A new activation is an activation.
LEMMA NewFrameType ==
  ASSUME NEW j \in Jobs
  PROVE  NewFrame(j) \in Frame /\ <<NewFrame(j)>> \in Seq(Frame)
<1>1. NewFrame(j) \in Frame
  BY DEF NewFrame, Frame
<1>2. QED
  BY <1>1

\* The candidate of a process inside try_fork is a job.
LEMMA CandidateType ==
  ASSUME TypeOK, NEW p \in Procs, pc[p] \in InTryFork
  PROVE  Candidate(p) \in Jobs /\ stack[p] # <<>>
<1>1. stack[p] \in Seq(Frame) /\ stack[p] # <<>>
  BY DEF TypeOK, VariableTypes, HasFrame
<1>2. TopFrame(p) \in Frame
  BY <1>1 DEF TopFrame
<1>3. Candidates(p) \in Seq(Jobs)
  BY <1>2, JobsAssumption DEF Candidates, Frame
<1>4. TopFrame(p).next \in DOMAIN Candidates(p)
  BY DEF TypeOK, HasCandidate
<1>5. QED
  BY <1>1, <1>3, <1>4 DEF Candidate

\* Taking one entry out of a list keeps its elements' type and shortens it.
LEMMA RemoveChildType ==
  ASSUME NEW S, NEW s \in Seq(S), NEW i \in 1 .. Len(s)
  PROVE  /\ RemoveChild(s, i) \in Seq(S)
         /\ Len(RemoveChild(s, i)) = Len(s) - 1
<1>1. \A k \in 1 .. Len(s) : s[k] \in S
  OBVIOUS
<1>2. /\ SubSeq(s, 1, i - 1) \in Seq(S)
      /\ Len(SubSeq(s, 1, i - 1)) = i - 1
  BY <1>1, SubSeqProperties
<1>3. /\ SubSeq(s, i + 1, Len(s)) \in Seq(S)
      /\ Len(SubSeq(s, i + 1, Len(s))) = Len(s) - i
  BY <1>1, SubSeqProperties
<1>4. ASSUME NEW t \in Seq(S), NEW u \in Seq(S)
      PROVE  t \o u \in Seq(S) /\ Len(t \o u) = Len(t) + Len(u)
  OBVIOUS
<1>5. Len(s) \in Nat
  OBVIOUS
<1>6. (i - 1) + (Len(s) - i) = Len(s) - 1
  BY <1>5
<1>7. QED
  BY <1>2, <1>3, <1>4, <1>6 DEF RemoveChild

\* A step that leaves the activations of q and its place in the code alone
\* leaves its place among the candidates alone.
LEMMA PlaceUnchanged ==
  ASSUME TypeOK, NEW q \in Procs, stack'[q] = stack[q],
         pc'[q] = pc[q] \/ pc'[q] \notin {"walk"} \cup InTryFork
  PROVE  HasFrame(q)' /\ HasCandidate(q)'
BY DEF TypeOK, HasFrame, HasCandidate, InTryFork, TopFrame, Candidates

-----------------------------------------------------------------------------
\* The initial state is well typed.
LEMMA InitTypeOK == Init => TypeOK
<1> SUFFICES ASSUME Init PROVE TypeOK
  OBVIOUS
<1>1. <<NewFrame(Top)>> \in Seq(Frame) /\ <<>> \in Seq(Frame)
  BY JobsAssumption, NewFrameType
<1>2. stack \in [Procs -> Seq(Frame)]
  BY <1>1 DEF Init
<1>3. VariableTypes
  BY <1>2, JobsAssumption, ProcsAssumption, MaxAssumption
     DEF Init, VariableTypes, States, Working
<1>4. \A p \in Procs : HasFrame(p) /\ HasCandidate(p)
  <2> TAKE p \in Procs
  <2>1. pc[p] \notin InTryFork
    BY DEF Init, InTryFork
  <2>2. pc[p] = "walk" => stack[p] # <<>>
    BY DEF Init
  <2>3. QED
    BY <2>1, <2>2 DEF HasFrame, HasCandidate
<1>5. QED
  BY <1>3, <1>4, ProcsAssumption DEF TypeOK, Init

\* The end of a process keeps the types.
LEMMA EndWithTypeOK ==
  ASSUME TypeOK, NEW p \in Procs, NEW st \in Nat, EndWith(p, st), faults' \in Nat
  PROVE  TypeOK'
<1>1. SlotsOf(p) \in Nat
  BY DEF SlotsOf
<1>2. VariableTypes'
  <2>1. pc' \in [Procs -> States]
    BY DEF EndWith, TypeOK, VariableTypes, States
  <2>2. wstatus' \in [Procs -> Nat]
    BY DEF EndWith, TypeOK, VariableTypes
  <2>3. leaked' \in Nat
    BY <1>1 DEF EndWith, TypeOK, VariableTypes
  <2>4. UNCHANGED <<stack, children, ri, slots, parent, runs>>
    BY DEF EndWith
  <2>5. QED
    BY <2>1, <2>2, <2>3, <2>4 DEF TypeOK, VariableTypes
<1>3. \A q \in Procs : HasFrame(q)' /\ HasCandidate(q)'
  <2> TAKE q \in Procs
  <2>1. stack'[q] = stack[q] /\ (pc'[q] = pc[q] \/ pc'[q] = "zombie")
    BY DEF EndWith, TypeOK, VariableTypes
  <2>2. QED
    BY <2>1, PlaceUnchanged DEF InTryFork
<1>4. QED
  BY <1>2, <1>3, ProcsAssumption DEF EndWith, TypeOK, VariableTypes

\* The recursive call of process() keeps the types.
LEMMA CallProcessTypeOK ==
  ASSUME TypeOK, NEW p \in Procs, pc[p] \in InTryFork, CallProcess(p),
         UNCHANGED <<children, ri, slots, wstatus, parent>>,
         leaked' \in Nat, faults' \in Nat
  PROVE  TypeOK'
<1>1. Candidate(p) \in Jobs /\ stack[p] # <<>>
  BY CandidateType
<1>2. Resumed(p) \in Seq(Frame) /\ NewFrame(Candidate(p)) \in Frame
  BY <1>1, ResumedType, NewFrameType DEF TypeOK
<1>3. /\ Append(Resumed(p), NewFrame(Candidate(p))) \in Seq(Frame)
      /\ Append(Resumed(p), NewFrame(Candidate(p))) # <<>>
  BY <1>2, AppendProperties
<1>4. VariableTypes'
  <2>1. stack' \in [Procs -> Seq(Frame)]
    BY <1>3 DEF CallProcess, TypeOK, VariableTypes
  <2>2. runs' \in [Jobs -> Nat]
    BY <1>1 DEF CallProcess, TypeOK, VariableTypes
  <2>3. pc' \in [Procs -> States]
    BY DEF CallProcess, TypeOK, VariableTypes, States, Working
  <2>4. QED
    BY <2>1, <2>2, <2>3 DEF TypeOK, VariableTypes
<1>5. \A q \in Procs : HasFrame(q)' /\ HasCandidate(q)'
  <2> TAKE q \in Procs
  <2>1. CASE q = p
    BY <1>3, <2>1 DEF CallProcess, TypeOK, VariableTypes, HasFrame, HasCandidate, InTryFork
  <2>2. CASE q # p
    BY <2>2, PlaceUnchanged DEF CallProcess, TypeOK, VariableTypes
  <2>3. QED
    BY <2>1, <2>2
<1>6. QED
  BY <1>4, <1>5, ProcsAssumption DEF CallProcess, TypeOK, VariableTypes

\* A successful fork() keeps the types, in the parent and in the child.
LEMMA ForkChildTypeOK ==
  ASSUME TypeOK, NEW p \in Procs, ForkChild(p)
  PROVE  TypeOK'
<1>1. PICK c \in FreshPids :
        /\ pc' = [pc EXCEPT ![p] = "walk", ![c] = "walk"]
        /\ stack' = [stack EXCEPT ![p] = Resumed(p), ![c] = <<NewFrame(Candidate(p))>>]
        /\ children' = [children EXCEPT ![p] = Append(@, c), ![c] = <<>>]
        /\ parent' = [parent EXCEPT ![c] = p]
  BY DEF ForkChild
<1>2. pc[p] = "fork" /\ pc[p] \in InTryFork
  BY DEF ForkChild, InTryFork
<1>3. c \in Procs \ {Main} /\ c # p
  BY <1>2 DEF FreshPids
<1>4. Candidate(p) \in Jobs /\ stack[p] # <<>>
  BY <1>2, CandidateType
<1>5. /\ Resumed(p) \in Seq(Frame) /\ Resumed(p) # <<>>
      /\ <<NewFrame(Candidate(p))>> \in Seq(Frame) /\ <<NewFrame(Candidate(p))>> # <<>>
  BY <1>4, ResumedType, NewFrameType DEF TypeOK
<1>6. VariableTypes'
  <2>1. stack' \in [Procs -> Seq(Frame)]
    BY <1>1, <1>5 DEF TypeOK, VariableTypes
  <2>2. children' \in [Procs -> Seq(Procs \ {Main})]
    <3>1. Append(children[p], c) \in Seq(Procs \ {Main}) /\ <<>> \in Seq(Procs \ {Main})
      BY <1>3, AppendProperties DEF TypeOK, VariableTypes
    <3>2. QED
      BY <1>1, <3>1, <1>3 DEF TypeOK, VariableTypes
  <2>3. pc' \in [Procs -> States] /\ parent' \in [Procs -> Procs]
    BY <1>1, <1>3 DEF TypeOK, VariableTypes, States, Working
  <2>4. runs' \in [Jobs -> Nat]
    BY <1>4 DEF ForkChild, TypeOK, VariableTypes
  <2>5. QED
    BY <2>1, <2>2, <2>3, <2>4 DEF ForkChild, TypeOK, VariableTypes
<1>7. \A q \in Procs : HasFrame(q)' /\ HasCandidate(q)'
  <2> TAKE q \in Procs
  <2>1. CASE q \in {p, c}
    BY <1>1, <1>3, <1>5, <2>1 DEF TypeOK, VariableTypes, HasFrame, HasCandidate, InTryFork
  <2>2. CASE q \notin {p, c}
    BY <1>1, <2>2, PlaceUnchanged DEF TypeOK, VariableTypes
  <2>3. QED
    BY <2>1, <2>2
<1>8. pc'[Main] \notin {"free", "post"}
  BY <1>1, <1>3, ProcsAssumption DEF TypeOK, VariableTypes
<1>9. QED
  BY <1>6, <1>7, <1>8 DEF TypeOK

\* Removing a terminated child from the list keeps the types.
LEMMA ReapTypeOK ==
  ASSUME TypeOK, NEW p \in Procs, Reap(p)
  PROVE  TypeOK'
<1>1. ri[p] \in 1 .. Len(children[p]) /\ children[p] \in Seq(Procs \ {Main})
  <2>1. children[p] \in Seq(Procs \ {Main}) /\ ri[p] \in Nat \ {0}
    BY DEF TypeOK, VariableTypes
  <2>2. ri[p] <= Len(children[p]) /\ Len(children[p]) \in Nat
    BY <2>1 DEF Reap, TakeOut
  <2>3. QED
    BY <2>1, <2>2
<1>2. RemoveChild(children[p], ri[p]) \in Seq(Procs \ {Main})
  BY <1>1, RemoveChildType
<1>3. children[p][ri[p]] \in Procs \ {Main}
  BY <1>1
<1>4. VariableTypes'
  <2>1. pc' \in [Procs -> States]
    BY <1>3 DEF Reap, TakeOut, TypeOK, VariableTypes, States
  <2>2. children' \in [Procs -> Seq(Procs \ {Main})]
    BY <1>2 DEF Reap, TakeOut, TypeOK, VariableTypes
  <2>3. UNCHANGED <<stack, ri, slots, wstatus, parent, runs, leaked, faults>>
    BY DEF Reap, TakeOut
  <2>4. QED
    BY <2>1, <2>2, <2>3 DEF TypeOK, VariableTypes
<1>5. \A q \in Procs : HasFrame(q)' /\ HasCandidate(q)'
  <2> TAKE q \in Procs
  <2>1. stack'[q] = stack[q] /\ (pc'[q] = pc[q] \/ pc'[q] = "free")
    BY <1>3 DEF Reap, TakeOut, TypeOK, VariableTypes
  <2>2. QED
    BY <2>1, PlaceUnchanged DEF InTryFork
<1>6. QED
  BY <1>3, <1>4, <1>5, ProcsAssumption DEF Reap, TakeOut, TypeOK, VariableTypes

\* The return of process() keeps the types; an inner return leaves an activation.
LEMMA ReturnTypeOK ==
  ASSUME TypeOK, NEW p \in Procs, Return(p)
  PROVE  TypeOK'
<1> DEFINE rest == SubSeq(stack[p], 1, Len(stack[p]) - 1)
<1>1. rest \in Seq(Frame)
  BY DEF TypeOK, VariableTypes
<1>2. VariableTypes'
  <2>1. pc' \in [Procs -> States]
    BY DEF Return, LeaveProcess, TypeOK, VariableTypes, States, Working
  <2>2. stack' \in [Procs -> Seq(Frame)] /\ ri' \in [Procs -> Nat \ {0}]
    BY <1>1 DEF Return, LeaveProcess, TypeOK, VariableTypes
  <2>3. UNCHANGED <<children, slots, wstatus, parent, runs, leaked, faults>>
    BY DEF Return, LeaveProcess
  <2>4. QED
    BY <2>1, <2>2, <2>3 DEF TypeOK, VariableTypes
<1>3. \A q \in Procs : HasFrame(q)' /\ HasCandidate(q)'
  <2> TAKE q \in Procs
  <2>1. CASE q = p
    BY <2>1 DEF Return, LeaveProcess, TypeOK, VariableTypes, HasFrame, HasCandidate,
                InTryFork
  <2>2. CASE q # p
    BY <2>2, PlaceUnchanged DEF Return, LeaveProcess, TypeOK, VariableTypes
  <2>3. QED
    BY <2>1, <2>2
<1>4. QED
  BY <1>2, <1>3, ProcsAssumption DEF Return, LeaveProcess, TypeOK, VariableTypes

\* The steps that only move the process on, its loop index or the semaphore.
LEMMA MoveTypeOK ==
  ASSUME TypeOK, NEW p \in Procs,
         NextItem(p) \/ Skip(p) \/ DecideFork(p) \/ SemWait(p) \/ Post(p)
  PROVE  TypeOK'
<1>1. VariableTypes'
  <2>1. CASE NextItem(p) \/ DecideFork(p)
    <3>1. pc' \in [Procs -> States]
      BY <2>1 DEF NextItem, DecideFork, Scanned, EnterSemWait, TypeOK, VariableTypes,
                  States, Working
    <3>2. ri' \in [Procs -> Nat \ {0}]
      <4>1. ri' = ri \/ ri' = [ri EXCEPT ![p] = 1]
        BY <2>1 DEF NextItem, DecideFork, Scanned, EnterSemWait
      <4>2. ri \in [Procs -> Nat \ {0}]
        BY DEF TypeOK, VariableTypes
      <4>3. QED
        BY <4>1, <4>2
    <3>3. UNCHANGED <<stack, children, slots, wstatus, parent, runs, leaked, faults>>
      BY <2>1 DEF NextItem, DecideFork, Scanned, EnterSemWait
    <3>4. QED
      BY <3>1, <3>2, <3>3 DEF TypeOK, VariableTypes
  <2>2. CASE Skip(p)
    <3>1. ri' \in [Procs -> Nat \ {0}]
      <4>1. ri \in [Procs -> Nat \ {0}] /\ ri' = [ri EXCEPT ![p] = ri[p] + 1]
        BY <2>2 DEF Skip, TypeOK, VariableTypes
      <4>2. ri[p] + 1 \in Nat \ {0}
        BY <4>1
      <4>3. QED
        BY <4>1, <4>2
    <3>2. QED
      BY <2>2, <3>1 DEF Skip, TypeOK, VariableTypes
  <2>3. CASE SemWait(p) \/ Post(p)
    <3>1. slots' \in Nat
      BY <2>3 DEF SemWait, Post, TypeOK, VariableTypes
    <3>2. QED
      <4>1. pc' \in [Procs -> States]
        BY <2>3 DEF SemWait, Post, TypeOK, VariableTypes, States, Working
      <4>2. UNCHANGED <<stack, children, ri, wstatus, parent, runs, leaked, faults>>
        BY <2>3 DEF SemWait, Post
      <4>3. QED
        BY <3>1, <4>1, <4>2 DEF TypeOK, VariableTypes
  <2>4. QED
    BY <2>1, <2>2, <2>3
<1>2. \A q \in Procs : HasFrame(q)' /\ HasCandidate(q)'
  <2> TAKE q \in Procs
  <2>1. stack'[q] = stack[q]
    BY DEF NextItem, Skip, DecideFork, Scanned, EnterSemWait, SemWait, Post
  <2>2. CASE q # p \/ Skip(p) \/ Post(p)
    <3>1. pc'[q] = pc[q] \/ pc'[q] = "drain"
      BY <2>2 DEF NextItem, Skip, DecideFork, Scanned, EnterSemWait, SemWait, Post,
                  TypeOK, VariableTypes
    <3>2. QED
      BY <2>1, <3>1, PlaceUnchanged DEF InTryFork
  <2>3. CASE q = p /\ ~Skip(p) /\ ~Post(p)
    BY <2>1, <2>3 DEF NextItem, DecideFork, Scanned, EnterSemWait, SemWait, TypeOK,
                      VariableTypes,
                      HasFrame, HasCandidate, InTryFork, TopFrame, Candidates
  <2>4. QED
    BY <2>2, <2>3
<1>3. QED
  BY <1>1, <1>2, ProcsAssumption
     DEF NextItem, Skip, DecideFork, Scanned, EnterSemWait, SemWait, Post, TypeOK,
         VariableTypes

\* Every step of a process keeps the types.
LEMMA StepTypeOK ==
  ASSUME TypeOK, NEW p \in Procs, Run(p) \/ Die(p) \/ Kill(p)
  PROVE  TypeOK'
<1>1. CASE ReapFailed(p)
  <2>1. PICK c \in Procs : EndWith(p, ExitStatus(wstatus[c]))
    <3>1. children[p] \in Seq(Procs) /\ ri[p] \in 1 .. Len(children[p])
      <4>1. children[p] \in Seq(Procs \ {Main}) /\ ri[p] \in Nat \ {0}
        BY DEF TypeOK, VariableTypes
      <4>2. QED
        BY <1>1, <4>1 DEF ReapFailed
    <3>2. children[p][ri[p]] \in Procs
      BY <3>1
    <3>3. QED
      BY <1>1, <3>2 DEF ReapFailed
  <2>2. ExitStatus(wstatus[c]) \in Nat
    BY DEF ExitStatus, TypeOK, VariableTypes
  <2>3. QED
    BY <1>1, <2>1, <2>2, EndWithTypeOK DEF ReapFailed, TypeOK, VariableTypes
<1>2. CASE Exit(p) \/ Die(p) \/ Kill(p)
  <2>1. ExitStatus(0) \in Nat /\ ExitStatus(1) \in Nat /\ SIGKILL \in Nat
    BY DEF ExitStatus, SIGKILL
  <2>2. PICK st \in Nat : EndWith(p, st)
    BY <1>2, <2>1 DEF Exit, Die, Kill
  <2>3. faults' \in Nat
    BY <1>2 DEF Exit, Die, Kill, TypeOK, VariableTypes
  <2>4. QED
    BY <2>2, <2>3, EndWithTypeOK
<1>3. CASE DecideAlone(p) \/ ForkFails(p)
  <2>1. pc[p] \in InTryFork /\ CallProcess(p)
    BY <1>3 DEF DecideAlone, Scanned, ForkFails, InTryFork
  <2>2. leaked' \in Nat /\ faults' \in Nat
        /\ UNCHANGED <<children, ri, slots, wstatus, parent>>
    BY <1>3 DEF DecideAlone, Scanned, ForkFails, TypeOK, VariableTypes
  <2>3. QED
    BY <2>1, <2>2, CallProcessTypeOK
<1>4. QED
  BY <1>1, <1>2, <1>3, MoveTypeOK, ReturnTypeOK, ReapTypeOK, ForkChildTypeOK DEF Run

\* So does a step that changes nothing.
LEMMA StutterTypeOK == TypeOK /\ UNCHANGED vars => TypeOK'
BY DEF vars, TypeOK, VariableTypes, HasFrame, HasCandidate, TopFrame, Candidates

\* Every state of the pool is well typed: a process inside try_fork has a
\* candidate, and main() never posts a slot.
THEOREM PoolTypeOK == Spec => []TypeOK
<1>1. TypeOK /\ [Next]_vars => TypeOK'
  BY StepTypeOK, StutterTypeOK DEF Next
<1>2. QED
  BY <1>1, InitTypeOK, PTL DEF Spec

-----------------------------------------------------------------------------
\* Where the slots of the semaphore are.

LEMMA HolderSetsFinite ==
  /\ IsFiniteSet(Holding)
  /\ IsFiniteSet(Claiming)
  /\ Cardinality(Holding) \in Nat
  /\ Cardinality(Claiming) \in Nat
<1>1. Holding \subseteq Procs /\ Claiming \subseteq Procs
  BY DEF Holding, Claiming
<1>2. QED
  BY <1>1, ProcsAssumption, FS_Subset, FS_CardinalityType

\* At the start all slots are in the semaphore.
LEMMA InitSlotsConserved == Init => SlotsConserved
<1> SUFFICES ASSUME Init PROVE SlotsConserved
  OBVIOUS
<1>1. Holding = {} /\ Claiming = {}
  BY DEF Init, Holding, Claiming, Working
<1>2. QED
  BY <1>1, FS_EmptySet, MaxAssumption DEF Init, SlotsConserved

\* A process that ends loses exactly the slots that SlotsOf counts.
LEMMA EndWithSlots ==
  ASSUME TypeOK, SlotsConserved, NEW p \in Procs, NEW st, EndWith(p, st)
  PROVE  SlotsConserved'
<1>1. Holding' = Holding \ {p} /\ Claiming' = Claiming \ {p}
  BY DEF EndWith, TypeOK, VariableTypes, Holding, Claiming, Working
<1>2. /\ Cardinality(Holding') = IF p \in Holding THEN Cardinality(Holding) - 1
                                                 ELSE Cardinality(Holding)
      /\ Cardinality(Claiming') = IF p \in Claiming THEN Cardinality(Claiming) - 1
                                                   ELSE Cardinality(Claiming)
  BY <1>1, HolderSetsFinite, FS_RemoveElement
<1>3. slots' = slots /\ leaked' = leaked + SlotsOf(p)
  BY DEF EndWith
<1>4. Cardinality(Holding') + Cardinality(Claiming') + SlotsOf(p)
        = Cardinality(Holding) + Cardinality(Claiming)
  BY <1>2, HolderSetsFinite DEF SlotsOf
<1>5. SlotsOf(p) \in Nat /\ Cardinality(Holding') \in Nat /\ Cardinality(Claiming') \in Nat
  BY <1>1, HolderSetsFinite, FS_RemoveElement, FS_CardinalityType DEF SlotsOf
<1>6. slots \in Nat /\ leaked \in Nat
  BY DEF TypeOK, VariableTypes
<1>7. slots' + Cardinality(Holding') + Cardinality(Claiming') + leaked'
        = slots + Cardinality(Holding) + Cardinality(Claiming) + leaked
  BY <1>3, <1>4, <1>5, <1>6, HolderSetsFinite
<1>8. QED
  BY <1>7 DEF SlotsConserved

\* Steps inside the sets of workers and outside of fork() move no slot.
LEMMA KeepsSlots ==
  ASSUME SlotsConserved, Holding' = Holding, Claiming' = Claiming,
         slots' = slots, leaked' = leaked
  PROVE  SlotsConserved'
BY DEF SlotsConserved

\* Every step of a process keeps the sum of the slots.
LEMMA StepSlotsConserved ==
  ASSUME TypeOK, SlotsConserved, NEW p \in Procs, Run(p) \/ Die(p) \/ Kill(p)
  PROVE  SlotsConserved'
<1>1. CASE NextItem(p) \/ Return(p) \/ Skip(p) \/ DecideFork(p)
  <2>1. slots' = slots /\ leaked' = leaked
    BY <1>1 DEF NextItem, Return, LeaveProcess, Skip, DecideFork, Scanned, EnterSemWait
  <2>2. Holding' = Holding /\ Claiming' = Claiming
    <3>1. CASE Return(p)
      BY <3>1 DEF Return, LeaveProcess, TypeOK, VariableTypes, Holding, Claiming, Working
    <3>2. CASE NextItem(p) \/ Skip(p) \/ DecideFork(p)
      BY <3>2 DEF NextItem, Skip, DecideFork, Scanned, EnterSemWait, TypeOK, VariableTypes,
                  Holding, Claiming, Working
    <3>3. QED
      BY <1>1, <3>1, <3>2
  <2>3. QED
    BY <2>1, <2>2, KeepsSlots
<1>2. CASE Reap(p)
  <2>1. slots' = slots /\ leaked' = leaked
    BY <1>2 DEF Reap, TakeOut
  <2>2. PICK c : pc[c] = "zombie" /\ pc' = [pc EXCEPT ![c] = "free"]
    BY <1>2 DEF Reap, TakeOut
  <2>3. Holding' = Holding /\ Claiming' = Claiming
    BY <2>2 DEF TypeOK, VariableTypes, Holding, Claiming, Working
  <2>4. QED
    BY <2>1, <2>3, KeepsSlots
<1>3. CASE DecideAlone(p)
  <2>1. slots' = slots /\ leaked' = leaked
    BY <1>3 DEF DecideAlone, Scanned
  <2>2. Holding' = Holding /\ Claiming' = Claiming
    BY <1>3 DEF DecideAlone, Scanned, CallProcess, TypeOK, VariableTypes, Holding,
                Claiming, Working
  <2>3. QED
    BY <2>1, <2>2, KeepsSlots
<1>4. CASE SemWait(p)
  <2>1. slots' = slots - 1 /\ leaked' = leaked
    BY <1>4 DEF SemWait
  <2>2. Holding' = Holding /\ Claiming' = Claiming \cup {p} /\ p \notin Claiming
    BY <1>4 DEF SemWait, TypeOK, VariableTypes, Holding, Claiming, Working
  <2>3. Cardinality(Claiming') = Cardinality(Claiming) + 1
    BY <2>2, HolderSetsFinite, FS_AddElement
  <2>4. QED
    BY <2>1, <2>2, <2>3, HolderSetsFinite DEF SlotsConserved, TypeOK, VariableTypes
<1>5. CASE ForkChild(p)
  <2>1. slots' = slots /\ leaked' = leaked /\ p \in Claiming
    BY <1>5 DEF ForkChild, Claiming
  <2>2. PICK c \in Procs \ {Main} :
          pc[c] = "free" /\ pc[p] = "fork" /\ pc' = [pc EXCEPT ![p] = "walk", ![c] = "walk"]
    BY <1>5 DEF ForkChild, FreshPids
  <2>3. Holding' = Holding \cup {c} /\ c \notin Holding /\ Claiming' = Claiming \ {p}
    BY <2>2 DEF TypeOK, VariableTypes, Holding, Claiming, Working
  <2>4. /\ Cardinality(Holding') = Cardinality(Holding) + 1
        /\ Cardinality(Claiming') = Cardinality(Claiming) - 1
    BY <2>1, <2>3, HolderSetsFinite, FS_AddElement, FS_RemoveElement
  <2>5. slots \in Nat /\ leaked \in Nat /\ Cardinality(Holding) \in Nat
        /\ Cardinality(Claiming) \in Nat
    BY HolderSetsFinite DEF TypeOK, VariableTypes
  <2>6. QED
    BY <2>1, <2>4, <2>5 DEF SlotsConserved
<1>6. CASE ForkFails(p)
  <2>1. slots' = slots /\ leaked' = leaked + 1 /\ p \in Claiming
    BY <1>6 DEF ForkFails, Claiming
  <2>2. Holding' = Holding /\ Claiming' = Claiming \ {p}
    BY <1>6 DEF ForkFails, CallProcess, TypeOK, VariableTypes, Holding, Claiming, Working
  <2>3. Cardinality(Claiming') = Cardinality(Claiming) - 1
    BY <2>1, <2>2, HolderSetsFinite, FS_RemoveElement
  <2>4. slots \in Nat /\ leaked \in Nat /\ Cardinality(Holding') = Cardinality(Holding)
    BY <2>2 DEF TypeOK, VariableTypes
  <2>5. slots' + Cardinality(Holding') + Cardinality(Claiming') + leaked'
          = slots + Cardinality(Holding) + Cardinality(Claiming) + leaked
    BY <2>1, <2>3, <2>4, HolderSetsFinite
  <2>6. QED
    BY <2>5 DEF SlotsConserved
<1>7. CASE Post(p)
  <2>1. slots' = slots + 1 /\ leaked' = leaked
    BY <1>7 DEF Post
  <2>2. p \in Holding /\ Holding' = Holding \ {p} /\ Claiming' = Claiming
    BY <1>7 DEF Post, TypeOK, VariableTypes, Holding, Claiming, Working
  <2>3. Cardinality(Holding') = Cardinality(Holding) - 1
    BY <2>2, HolderSetsFinite, FS_RemoveElement
  <2>4. Cardinality(Claiming') = Cardinality(Claiming)
    BY <2>2
  <2>5. slots \in Nat /\ leaked \in Nat
    BY DEF TypeOK, VariableTypes
  <2>6. slots' + Cardinality(Holding') + Cardinality(Claiming') + leaked'
          = slots + Cardinality(Holding) + Cardinality(Claiming) + leaked
    BY <2>1, <2>3, <2>4, <2>5, HolderSetsFinite
  <2>7. QED
    BY <2>6 DEF SlotsConserved
<1>8. CASE ReapFailed(p) \/ Exit(p) \/ Die(p) \/ Kill(p)
  BY <1>8, EndWithSlots DEF ReapFailed, Exit, Die, Kill
<1>9. QED
  BY <1>1, <1>2, <1>3, <1>4, <1>5, <1>6, <1>7, <1>8 DEF Run

\* Every slot is in the semaphore, with one process, or lost to a failure.
THEOREM PoolSlotsConserved == Spec => []SlotsConserved
<1>1. TypeOK /\ SlotsConserved /\ [Next]_vars => SlotsConserved'
  <2>1. SlotsConserved /\ UNCHANGED vars => SlotsConserved'
    BY DEF vars, SlotsConserved, Holding, Claiming
  <2>2. QED
    BY <2>1, StepSlotsConserved DEF Next
<1>2. QED
  BY <1>1, InitSlotsConserved, PoolTypeOK, PTL DEF Spec

\* At most MaxChildren processes besides main() do work.
THEOREM PoolWorkersBounded == Spec => []WorkersBounded
<1>1. TypeOK /\ SlotsConserved => WorkersBounded
  <2> SUFFICES ASSUME TypeOK, SlotsConserved PROVE WorkersBounded
    OBVIOUS
  <2> DEFINE W == {p \in Procs : pc[p] \in Working}
  <2>1. W \subseteq Holding \cup {Main}
    BY DEF Holding
  <2>2. /\ IsFiniteSet(Holding \cup {Main})
        /\ Cardinality(Holding \cup {Main}) <= Cardinality(Holding) + 1
    BY HolderSetsFinite, FS_AddElement
  <2>3. Cardinality(W) <= Cardinality(Holding \cup {Main}) /\ Cardinality(W) \in Nat
    BY <2>1, <2>2, FS_Subset, FS_CardinalityType
  <2>4. Cardinality(Holding) <= MaxChildren
    BY HolderSetsFinite, MaxAssumption DEF SlotsConserved, TypeOK, VariableTypes
  <2>5. Cardinality(Holding \cup {Main}) \in Nat
    BY <2>2, FS_CardinalityType
  <2>6. QED
    BY <2>2, <2>3, <2>4, <2>5, HolderSetsFinite, MaxAssumption DEF WorkersBounded
<1>2. QED
  BY <1>1, PoolTypeOK, PoolSlotsConserved, PTL

-----------------------------------------------------------------------------
\* No deadlock on the semaphore: a process starts to wait only when it saw a
\* free slot, and whoever takes the last slot is not waiting.

SlotRunner(p) == \/ pc[p] = "fork"
                 \/ p # Main /\ pc[p] \in {"walk", "scan", "post"}

\* Every step keeps a process that runs among those that hold the slots.
LEMMA StepSlotHolderRuns ==
  ASSUME TypeOK, SlotHolderRuns, NEW p \in Procs, Run(p) \/ Die(p) \/ Kill(p)
  PROVE  SlotHolderRuns'
<1> SUFFICES ASSUME slots' = 0, leaked' = 0, MaxChildren > 0
             PROVE  \E q \in Procs : SlotRunner(q)'
  BY DEF SlotHolderRuns, SlotRunner
<1>1. CASE SemWait(p)
  BY <1>1 DEF SemWait, SlotRunner, TypeOK, VariableTypes
<1>2. CASE Post(p)
  <2>1. slots' = slots + 1 /\ slots \in Nat
    BY <1>2 DEF Post, TypeOK, VariableTypes
  <2>2. QED
    BY <2>1
<1>3. CASE ForkFails(p)
  <2>1. leaked' = leaked + 1 /\ leaked \in Nat
    BY <1>3 DEF ForkFails, TypeOK, VariableTypes
  <2>2. QED
    BY <2>1
<1>4. CASE ForkChild(p)
  <2>1. PICK c \in Procs \ {Main} : pc' = [pc EXCEPT ![p] = "walk", ![c] = "walk"]
    BY <1>4 DEF ForkChild, FreshPids
  <2>2. QED
    BY <2>1 DEF SlotRunner, TypeOK, VariableTypes
<1>5. CASE ~SemWait(p) /\ ~Post(p) /\ ~ForkFails(p) /\ ~ForkChild(p)
  <2>1. slots = 0
    BY <1>5 DEF Run, NextItem, Return, LeaveProcess, Reap, TakeOut, ReapFailed, Skip,
                DecideFork, EnterSemWait, DecideAlone, Scanned,
                Exit, Die, Kill, EndWith
  <2>2. leaked = 0
    <3>1. leaked \in Nat /\ SlotsOf(p) \in Nat
      BY DEF SlotsOf, TypeOK, VariableTypes
    <3>2. leaked' = leaked \/ leaked' = leaked + SlotsOf(p)
      BY <1>5 DEF Run, NextItem, Return, LeaveProcess, Reap, TakeOut, ReapFailed, Skip,
                  DecideFork, EnterSemWait, DecideAlone, Scanned,
                  Exit, Die, Kill, EndWith
    <3>3. QED
      BY <3>1, <3>2
  <2>3. PICK w \in Procs : SlotRunner(w)
    BY <2>1, <2>2 DEF SlotHolderRuns, SlotRunner
  <2>4. CASE NextItem(p) \/ Return(p) \/ Skip(p) \/ DecideAlone(p)
    <3>1. SlotRunner(w)'
      BY <2>3, <2>4 DEF NextItem, Return, LeaveProcess, Skip, DecideAlone, Scanned,
                        CallProcess, SlotRunner,
                        TypeOK, VariableTypes
    <3>2. QED
      BY <3>1
  <2>5. CASE Reap(p)
    <3>1. PICK c : pc[c] = "zombie" /\ pc' = [pc EXCEPT ![c] = "free"]
      BY <2>5 DEF Reap, TakeOut
    <3>2. SlotRunner(w)'
      BY <2>3, <3>1 DEF SlotRunner, TypeOK, VariableTypes
    <3>3. QED
      BY <3>2
  <2>6. CASE DecideFork(p)
    BY <2>1, <2>6 DEF DecideFork, Scanned, EnterSemWait
  <2>7. CASE ReapFailed(p) \/ Exit(p) \/ Die(p) \/ Kill(p)
    <3>1. PICK st : EndWith(p, st)
      BY <2>7 DEF ReapFailed, Exit, Die, Kill
    <3>2. leaked' = leaked + SlotsOf(p) /\ SlotsOf(p) \in Nat /\ leaked \in Nat
      BY <3>1 DEF EndWith, SlotsOf, TypeOK, VariableTypes
    <3>3. p \notin Holding /\ p \notin Claiming
      BY <3>2 DEF SlotsOf
    <3>4. w # p
      BY <2>3, <3>3 DEF SlotRunner, Holding, Claiming, Working
    <3>5. SlotRunner(w)'
      BY <2>3, <3>1, <3>4 DEF SlotRunner, EndWith, TypeOK, VariableTypes
    <3>6. QED
      BY <3>5
  <2>8. QED
    BY <1>5, <2>4, <2>5, <2>6, <2>7 DEF Run
<1>6. QED
  BY <1>1, <1>2, <1>3, <1>4, <1>5

\* As long as no slot is lost, processes blocked in sem_wait are never alone.
THEOREM PoolSlotHolderRuns == Spec => []SlotHolderRuns
<1>1. Init => SlotHolderRuns
  BY MaxAssumption DEF Init, SlotHolderRuns
<1>2. TypeOK /\ SlotHolderRuns /\ [Next]_vars => SlotHolderRuns'
  <2>1. SlotHolderRuns /\ UNCHANGED vars => SlotHolderRuns'
    BY DEF vars, SlotHolderRuns
  <2>2. QED
    BY <2>1, StepSlotHolderRuns DEF Next
<1>3. QED
  BY <1>1, <1>2, PoolTypeOK, PTL DEF Spec

-----------------------------------------------------------------------------
\* The list of children.  Inductive: room was seen before sem_wait, and only
\* the process itself appends to its list.
RoomInv == \A p \in Procs :
  /\ Len(children[p]) <= MaxChildren
  /\ pc[p] \in {"semwait", "fork"} => Len(children[p]) < MaxChildren

\* Every step keeps room in the list of a process that is about to fork.
LEMMA StepRoomInv ==
  ASSUME TypeOK, RoomInv, NEW p \in Procs, Run(p) \/ Die(p) \/ Kill(p)
  PROVE  RoomInv'
<1>1. \A q \in Procs : Len(children[q]) \in Nat
  BY DEF TypeOK, VariableTypes
<1>2. CASE DecideFork(p)
  <2>1. children' = children /\ pc' = [pc EXCEPT ![p] = "semwait"] /\ Len(children[p]) < MaxChildren
    BY <1>2 DEF DecideFork, Scanned, EnterSemWait
  <2>2. QED
    BY <2>1 DEF RoomInv, TypeOK, VariableTypes
<1>3. CASE ForkChild(p)
  <2>1. PICK c \in Procs \ {Main} :
          /\ pc[c] = "free" /\ pc[p] = "fork"
          /\ pc' = [pc EXCEPT ![p] = "walk", ![c] = "walk"]
          /\ children' = [children EXCEPT ![p] = Append(@, c), ![c] = <<>>]
    BY <1>3 DEF ForkChild, FreshPids
  <2>2. Len(Append(children[p], c)) = Len(children[p]) + 1
    BY <2>1, AppendProperties DEF TypeOK, VariableTypes
  <2>3. Len(Append(children[p], c)) <= MaxChildren /\ Len(<<>>) <= MaxChildren
    BY <1>1, <2>1, <2>2, MaxAssumption DEF RoomInv
  <2>4. \A q \in Procs : Len(children'[q]) <= MaxChildren
    BY <2>1, <2>3 DEF RoomInv, TypeOK, VariableTypes
  <2>5. \A q \in Procs : pc'[q] \in {"semwait", "fork"}
                         => q \notin {p, c} /\ pc'[q] = pc[q] /\ children'[q] = children[q]
    BY <2>1 DEF TypeOK, VariableTypes
  <2>6. QED
    BY <2>4, <2>5 DEF RoomInv
<1>4. CASE Reap(p)
  <2>1. PICK c : /\ ri[p] <= Len(children[p])
                 /\ pc[p] \in {"scan", "drain"} /\ pc[c] = "zombie"
                 /\ pc' = [pc EXCEPT ![c] = "free"]
                 /\ children' = [children EXCEPT ![p] = RemoveChild(@, ri[p])]
    BY <1>4 DEF Reap, TakeOut
  <2>2. ri[p] \in 1 .. Len(children[p]) /\ children[p] \in Seq(Procs \ {Main})
    <3>1. ri[p] \in Nat \ {0} /\ children[p] \in Seq(Procs \ {Main})
      BY DEF TypeOK, VariableTypes
    <3>2. QED
      BY <1>1, <2>1, <3>1
  <2>3. Len(RemoveChild(children[p], ri[p])) = Len(children[p]) - 1
    BY <2>2, RemoveChildType
  <2>4. \A q \in Procs : Len(children'[q]) <= Len(children[q])
    BY <1>1, <2>1, <2>3 DEF TypeOK, VariableTypes
  <2>5. \A q \in Procs : pc'[q] \in {"semwait", "fork"}
                         => pc'[q] = pc[q] /\ children'[q] = children[q]
    BY <2>1 DEF TypeOK, VariableTypes
  <2>6. \A q \in Procs : Len(children'[q]) \in Nat
    <3>1. TypeOK'
      BY <1>4, ReapTypeOK
    <3>2. children' \in [Procs -> Seq(Procs \ {Main})]
      BY <3>1 DEF TypeOK, VariableTypes
    <3>3. QED
      BY <3>2
  <2>7. \A q \in Procs : Len(children'[q]) <= MaxChildren
    <3>1. \A q \in Procs : Len(children[q]) <= MaxChildren
      BY DEF RoomInv
    <3>2. QED
      BY <1>1, <2>4, <2>6, <3>1, MaxAssumption
  <2>8. QED
    BY <2>5, <2>7 DEF RoomInv
<1>5. CASE SemWait(p)
  BY <1>5 DEF SemWait, RoomInv, TypeOK, VariableTypes
<1>6. CASE ~DecideFork(p) /\ ~ForkChild(p) /\ ~Reap(p) /\ ~SemWait(p)
  <2>1. children' = children
    BY <1>6 DEF Run, NextItem, Return, LeaveProcess, ReapFailed, Skip, DecideAlone,
                Scanned, ForkFails, Post,
                Exit, Die, Kill, EndWith
  <2>2. \A q \in Procs : pc'[q] \in {"semwait", "fork"} => pc'[q] = pc[q]
    BY <1>6 DEF Run, NextItem, Return, LeaveProcess, ReapFailed, Skip, DecideAlone,
                Scanned, ForkFails, Post,
                Exit, Die, Kill, EndWith, CallProcess, TypeOK, VariableTypes
  <2>3. QED
    BY <2>1, <2>2 DEF RoomInv
<1>7. QED
  BY <1>2, <1>3, <1>4, <1>5, <1>6

\* child_processes is never overrun.
THEOREM PoolChildrenBounded == Spec => []ActiveChildrenBounded
<1>1. Init => RoomInv
  BY MaxAssumption DEF Init, RoomInv
<1>2. TypeOK /\ RoomInv /\ [Next]_vars => RoomInv'
  <2>1. RoomInv /\ UNCHANGED vars => RoomInv'
    BY DEF vars, RoomInv
  <2>2. QED
    BY <2>1, StepRoomInv DEF Next
<1>3. RoomInv => ActiveChildrenBounded
  BY DEF RoomInv, ActiveChildrenBounded
<1>4. QED
  BY <1>1, <1>2, <1>3, PoolTypeOK, PTL DEF Spec

-----------------------------------------------------------------------------
\* Parents and children.  Inductive: without a failure the parent of a process
\* that has not been reaped is alive and has it in its list; what has ended has
\* ended well; and a process that waits for its children does so from the
\* beginning of its list, so that it can only leave with an empty one.
Listed(q, list) == \E i \in 1 .. Len(list) : list[i] = q

Family ==
  /\ \A q \in Procs \ {Main} : pc[q] # "free"
       => Alive(parent[q]) /\ Listed(q, children[parent[q]])
  /\ \A q \in Procs : pc[q] = "zombie" => wstatus[q] = 0
  /\ \A q \in Procs : pc[q] \in {"post", "drain"} => ri[q] = 1

FamilyInv == faults = 0 => Family

\* Whoever is in the list and not taken out of it is still in it.
LEMMA StillListed ==
  ASSUME NEW S, NEW s \in Seq(S), NEW i \in 1 .. Len(s), NEW q, q # s[i], Listed(q, s)
  PROVE  Listed(q, RemoveChild(s, i))
<1>1. PICK k \in 1 .. Len(s) : s[k] = q
  BY DEF Listed
<1>2. Len(s) \in Nat /\ k # i
  BY <1>1
<1>3. /\ SubSeq(s, 1, i - 1) \in Seq(S)
      /\ Len(SubSeq(s, 1, i - 1)) = i - 1
      /\ \A j \in 1 .. i - 1 : SubSeq(s, 1, i - 1)[j] = s[j]
  BY <1>2, SubSeqProperties
<1>4. /\ SubSeq(s, i + 1, Len(s)) \in Seq(S)
      /\ Len(SubSeq(s, i + 1, Len(s))) = Len(s) - i
      /\ \A j \in 1 .. Len(s) - i : SubSeq(s, i + 1, Len(s))[j] = s[i + j]
  BY <1>2, SubSeqProperties
<1>5. ASSUME NEW t \in Seq(S), NEW u \in Seq(S), NEW m \in Nat, NEW n \in Nat,
             Len(t) = m, Len(u) = n
      PROVE  /\ Len(t \o u) = m + n
             /\ \A j \in 1 .. m : (t \o u)[j] = t[j]
             /\ \A j \in 1 .. n : (t \o u)[m + j] = u[j]
  <2>1. /\ Len(t \o u) = m + n
        /\ \A j \in 1 .. m + n : (t \o u)[j] = IF j <= m THEN t[j] ELSE u[j - m]
    BY <1>5, ConcatProperties
  <2>2. \A j \in 1 .. n : m + j \in 1 .. m + n /\ ~(m + j <= m) /\ (m + j) - m = j
    BY <1>5
  <2>3. \A j \in 1 .. m : j \in 1 .. m + n /\ j <= m
    BY <1>5
  <2>4. QED
    BY <2>1, <2>2, <2>3
<1>6. i - 1 \in Nat /\ Len(s) - i \in Nat
  BY <1>2
<1>7. /\ Len(RemoveChild(s, i)) = (i - 1) + (Len(s) - i)
      /\ \A j \in 1 .. i - 1 : RemoveChild(s, i)[j] = SubSeq(s, 1, i - 1)[j]
      /\ \A j \in 1 .. Len(s) - i :
           RemoveChild(s, i)[(i - 1) + j] = SubSeq(s, i + 1, Len(s))[j]
  BY <1>3, <1>4, <1>5, <1>6 DEF RemoveChild
<1>8. CASE k < i
  <2>1. k \in 1 .. i - 1 /\ k \in 1 .. (i - 1) + (Len(s) - i)
    BY <1>2, <1>8
  <2>2. RemoveChild(s, i)[k] = q
    BY <1>1, <1>3, <1>7, <2>1
  <2>3. QED
    BY <1>7, <2>1, <2>2 DEF Listed
<1>9. CASE k > i
  <2>1. k - i \in 1 .. Len(s) - i /\ (i - 1) + (k - i) \in 1 .. (i - 1) + (Len(s) - i)
    BY <1>2, <1>9
  <2>2. i + (k - i) = k
    BY <1>2
  <2>3. RemoveChild(s, i)[(i - 1) + (k - i)] = q
    BY <1>1, <1>4, <1>7, <2>1, <2>2
  <2>4. QED
    BY <1>7, <2>1, <2>3 DEF Listed
<1>10. QED
  BY <1>2, <1>8, <1>9

\* A child is entered in the list of its parent when it is forked.
LEMMA ForkChildFamily ==
  ASSUME TypeOK, Family, NEW p \in Procs, ForkChild(p)
  PROVE  Family'
<1>1. PICK c \in Procs \ {Main} :
        /\ pc[c] = "free" /\ pc[p] = "fork" /\ c # p
        /\ pc' = [pc EXCEPT ![p] = "walk", ![c] = "walk"]
        /\ children' = [children EXCEPT ![p] = Append(@, c), ![c] = <<>>]
        /\ parent' = [parent EXCEPT ![c] = p]
        /\ ri' = ri /\ wstatus' = wstatus
  BY DEF ForkChild, FreshPids
<1>2. /\ children[p] \in Seq(Procs \ {Main}) /\ children'[p] = Append(children[p], c)
      /\ \A q \in Procs \ {p, c} : children'[q] = children[q] /\ pc'[q] = pc[q]
      /\ pc'[p] = "walk" /\ pc'[c] = "walk" /\ parent'[c] = p
      /\ \A q \in Procs \ {c} : parent'[q] = parent[q] /\ parent[q] \in Procs
  BY <1>1 DEF TypeOK, VariableTypes
<1>3. \A q : Listed(q, children[p]) => Listed(q, Append(children[p], c))
  BY <1>2, AppendProperties DEF Listed
<1>4. Listed(c, Append(children[p], c))
  BY <1>2, AppendProperties DEF Listed
<1>5. ASSUME NEW q \in Procs \ {Main}, pc'[q] # "free"
      PROVE  Alive(parent[q])' /\ Listed(q, children'[parent'[q]])
  <2>1. CASE q = c
    BY <1>2, <1>4, <2>1 DEF Alive
  <2>2. CASE q # c
    <3>1. pc[q] # "free" /\ parent'[q] = parent[q] /\ parent[q] \in Procs
      BY <1>1, <1>2, <1>5, <2>2
    <3>2. Alive(parent[q]) /\ Listed(q, children[parent[q]])
      BY <3>1 DEF Family
    <3>3. parent[q] # c
      BY <1>1, <3>2 DEF Alive
    <3>4. QED
      BY <1>2, <1>3, <3>1, <3>2, <3>3 DEF Alive
  <2>3. QED
    BY <2>1, <2>2
<1>6. \A q \in Procs : pc'[q] \in {"zombie", "post", "drain"} => pc'[q] = pc[q]
  BY <1>1, <1>2
<1>7. QED
  BY <1>1, <1>5, <1>6 DEF Family

\* Only an ended child is taken out of a list, and nobody has an ended parent.
LEMMA ReapFamily ==
  ASSUME TypeOK, Family, NEW p \in Procs, Reap(p)
  PROVE  Family'
<1> DEFINE c == children[p][ri[p]]
<1>1. /\ pc[p] \in {"scan", "drain"} /\ pc[c] = "zombie"
      /\ ri[p] <= Len(children[p])
      /\ pc' = [pc EXCEPT ![c] = "free"]
      /\ children' = [children EXCEPT ![p] = RemoveChild(@, ri[p])]
      /\ parent' = parent /\ ri' = ri /\ wstatus' = wstatus
  BY DEF Reap, TakeOut
<1>2. children[p] \in Seq(Procs \ {Main}) /\ ri[p] \in Nat \ {0}
  BY DEF TypeOK, VariableTypes
<1>3. ri[p] \in 1 .. Len(children[p]) /\ c \in Procs \ {Main}
  BY <1>1, <1>2
<1> HIDE DEF c
<1>4. /\ pc'[c] = "free" /\ \A q \in Procs \ {c} : pc'[q] = pc[q]
      /\ children'[p] = RemoveChild(children[p], ri[p])
      /\ \A q \in Procs \ {p} : children'[q] = children[q]
  BY <1>1, <1>3 DEF TypeOK, VariableTypes
<1>5. ASSUME NEW q \in Procs \ {Main}, pc'[q] # "free"
      PROVE  Alive(parent[q])' /\ Listed(q, children'[parent'[q]])
  <2>1. q # c /\ pc[q] # "free"
    BY <1>4, <1>5
  <2>2. Alive(parent[q]) /\ Listed(q, children[parent[q]])
    BY <2>1 DEF Family
  <2>3. parent[q] \in Procs /\ parent'[q] = parent[q]
    BY <1>1 DEF TypeOK, VariableTypes
  <2>4. parent[q] # c
    BY <1>1, <2>2 DEF Alive
  <2>5. Alive(parent[q])'
    BY <1>4, <2>2, <2>3, <2>4 DEF Alive
  <2>6. q # children[p][ri[p]]
    BY <2>1 DEF c
  <2>7. Listed(q, children'[parent[q]])
    <3>1. CASE parent[q] = p
      BY <1>2, <1>3, <1>4, <2>2, <2>6, <3>1, StillListed
    <3>2. CASE parent[q] # p
      BY <1>4, <2>2, <2>3, <3>2
    <3>3. QED
      BY <3>1, <3>2
  <2>8. QED
    BY <2>3, <2>5, <2>7
<1>6. \A q \in Procs : pc'[q] \in {"zombie", "post", "drain"} => pc'[q] = pc[q]
  BY <1>4
<1>7. QED
  BY <1>1, <1>5, <1>6 DEF Family

\* A process leaves grim_reaper(1) with an empty list, so it has no children.
LEMMA ExitFamily ==
  ASSUME TypeOK, Family, NEW p \in Procs, Exit(p)
  PROVE  Family'
<1>1. /\ pc[p] = "drain" /\ ri[p] > Len(children[p])
      /\ pc' = [pc EXCEPT ![p] = "zombie"]
      /\ wstatus' = [wstatus EXCEPT ![p] = ExitStatus(0)]
      /\ UNCHANGED <<children, ri, parent>>
  BY DEF Exit, EndWith
<1>2. Len(children[p]) = 0
  <2>1. Len(children[p]) \in Nat /\ ri[p] = 1
    BY <1>1 DEF Family, TypeOK, VariableTypes
  <2>2. QED
    BY <1>1, <2>1
<1>3. \A q \in Procs \ {Main} : pc[q] # "free" => parent[q] # p
  BY <1>2 DEF Family, Listed
<1>4. /\ pc'[p] = "zombie" /\ wstatus'[p] = 0
      /\ \A q \in Procs \ {p} : pc'[q] = pc[q] /\ wstatus'[q] = wstatus[q]
  BY <1>1 DEF ExitStatus, TypeOK, VariableTypes
<1>5. \A q \in Procs \ {Main} : pc'[q] # "free"
        => Alive(parent[q])' /\ Listed(q, children'[parent'[q]])
  <2>1. \A q \in Procs \ {Main} : pc'[q] # "free" => pc[q] # "free"
    BY <1>1, <1>4
  <2>2. \A q \in Procs : parent[q] \in Procs
    BY DEF TypeOK, VariableTypes
  <2>3. QED
    BY <1>1, <1>3, <1>4, <2>1, <2>2 DEF Family, Alive
<1>6. QED
  BY <1>1, <1>4, <1>5 DEF Family

\* Every step without a failure keeps the family together.
LEMMA StepFamilyInv ==
  ASSUME TypeOK, FamilyInv, NEW p \in Procs, Run(p) \/ Die(p) \/ Kill(p)
  PROVE  FamilyInv'
<1> SUFFICES ASSUME faults' = 0 PROVE Family'
  BY DEF FamilyInv
<1>1. faults \in Nat
  BY DEF TypeOK, VariableTypes
<1>2. ~ForkFails(p) /\ ~Die(p) /\ ~Kill(p) /\ faults = 0
  BY <1>1 DEF ForkFails, Die, Kill, Run, NextItem, Return, LeaveProcess, Reap, TakeOut,
              ReapFailed, Skip, DecideFork, EnterSemWait, DecideAlone, SemWait, ForkChild,
              Post, Exit
<1>3. Family
  BY <1>2 DEF FamilyInv
<1>4. ~ReapFailed(p)
  <2>1. SUFFICES ASSUME ReapFailed(p) PROVE FALSE
    OBVIOUS
  <2>2. children[p] \in Seq(Procs \ {Main}) /\ ri[p] \in Nat \ {0}
    BY DEF TypeOK, VariableTypes
  <2>3. children[p][ri[p]] \in Procs
    BY <2>1, <2>2 DEF ReapFailed
  <2>4. QED
    BY <1>3, <2>1, <2>3 DEF ReapFailed, Family
<1>5. CASE Return(p)
  <2>1. /\ ri' = [ri EXCEPT ![p] = 1]
        /\ UNCHANGED <<children, parent, wstatus>> /\ pc[p] = "walk"
        /\ \E s \in {"walk", "drain", "post"} : pc' = [pc EXCEPT ![p] = s]
    BY <1>5 DEF Return, LeaveProcess
  <2>2. ri'[p] = 1 /\ \A q \in Procs \ {p} : ri'[q] = ri[q] /\ pc'[q] = pc[q]
    BY <2>1 DEF TypeOK, VariableTypes
  <2>3. \A q \in Procs : (pc'[q] = "free" <=> pc[q] = "free")
                         /\ (pc'[q] = "zombie" <=> pc[q] = "zombie")
    BY <2>1 DEF TypeOK, VariableTypes
  <2>4. QED
    BY <1>3, <2>1, <2>2, <2>3 DEF Family, Alive, TypeOK, VariableTypes
<1>6. CASE NextItem(p) \/ Skip(p) \/ DecideFork(p) \/ DecideAlone(p) \/ SemWait(p)
  <2>1. /\ UNCHANGED <<children, parent, wstatus>>
        /\ pc[p] \in {"walk", "scan", "semwait"}
        /\ pc'[p] \in {"walk", "scan", "semwait", "fork"}
        /\ \A q \in Procs \ {p} : ri'[q] = ri[q] /\ pc'[q] = pc[q]
    BY <1>6 DEF NextItem, Skip, DecideFork, Scanned, EnterSemWait, DecideAlone, CallProcess,
                SemWait, TypeOK, VariableTypes
  <2>2. QED
    BY <1>3, <2>1 DEF Family, Alive, TypeOK, VariableTypes
<1>7. CASE Post(p)
  <2>1. /\ UNCHANGED <<children, parent, wstatus, ri>> /\ pc[p] = "post" /\ pc'[p] = "drain"
        /\ \A q \in Procs \ {p} : pc'[q] = pc[q]
    BY <1>7 DEF Post, TypeOK, VariableTypes
  <2>2. QED
    BY <1>3, <2>1 DEF Family, Alive, TypeOK, VariableTypes
<1>8. QED
  BY <1>2, <1>3, <1>4, <1>5, <1>6, <1>7, ForkChildFamily, ReapFamily, ExitFamily DEF Run

\* grim_reaper(1) misses no child: whoever lives has a living parent.
THEOREM PoolChildrenOutlived == Spec => []ChildrenOutlived
<1>1. Init => FamilyInv
  BY DEF Init, FamilyInv, Family
<1>2. TypeOK /\ FamilyInv /\ [Next]_vars => FamilyInv'
  <2>1. FamilyInv /\ UNCHANGED vars => FamilyInv'
    BY DEF vars, FamilyInv, Family, Alive
  <2>2. QED
    BY <2>1, StepFamilyInv DEF Next
<1>3. FamilyInv => ChildrenOutlived
  BY DEF FamilyInv, Family, ChildrenOutlived, Alive
<1>4. QED
  BY <1>1, <1>2, <1>3, PoolTypeOK, PTL DEF Spec

-----------------------------------------------------------------------------
\* Also with failures: what is on a stack was entered, what is behind it on
\* its list was not, and no job is on two stacks or twice on one.
Entered ==
  /\ \A j \in Jobs : runs[j] \in {0, 1}
  /\ \A j \in Jobs : runs[j] = 0 => \A y \in DOMAIN Kids[j] : runs[Kids[j][y]] = 0
FramesOpen ==
  \A p \in Procs : \A x \in DOMAIN stack[p] :
    /\ runs[stack[p][x].job] = 1 /\ stack[p][x].next >= 1
    /\ \A y \in DOMAIN Kids[stack[p][x].job] :
         y >= stack[p][x].next => runs[Kids[stack[p][x].job][y]] = 0
FramesApart ==
  \A p, q \in Procs : \A x \in DOMAIN stack[p], y \in DOMAIN stack[q] :
    stack[p][x].job = stack[q][y].job => p = q /\ x = y
Once == Entered /\ FramesOpen /\ FramesApart

\* Without failures: who has left its activations has none, and what was not
\* entered although its folder was is still ahead of the folder's activation.
Ahead(j, y) == \E p \in Procs : \E x \in DOMAIN stack[p] :
                 stack[p][x].job = j /\ stack[p][x].next <= y
Work ==
  /\ \A p \in Procs : pc[p] \notin {"walk"} \cup InTryFork => stack[p] = <<>>
  /\ runs[Top] = 1
  /\ \A j \in Jobs : \A y \in DOMAIN Kids[j] :
       runs[j] = 1 /\ runs[Kids[j][y]] = 0 => Ahead(j, y)

\* Without failures every process comes from main(): no set of them has all its
\* parents in itself.
Forked == {q \in Procs \ {Main} : pc[q] # "free"}
Ancestry == \A A \in SUBSET Forked : A # {} => \E q \in A : parent[q] \notin A

OnceInv == TypeOK /\ FamilyInv /\ Once /\ (faults = 0 => Work /\ Ancestry)

-----------------------------------------------------------------------------
\* At the start only Top is entered, by main().
LEMMA InitOnce == Init => OnceInv
<1> SUFFICES ASSUME Init PROVE OnceInv
  OBVIOUS
<1>1. TypeOK /\ FamilyInv
  BY InitTypeOK DEF Init, FamilyInv, Family
<1>2. /\ stack[Main] = <<NewFrame(Top)>> /\ \A p \in Procs \ {Main} : stack[p] = <<>>
      /\ Main \in Procs /\ Top \in Jobs
      /\ runs = [j \in Jobs |-> IF j = Top THEN 1 ELSE 0]
  BY ProcsAssumption, JobsAssumption DEF Init
<1>3. /\ DOMAIN stack[Main] = {1} /\ stack[Main][1].job = Top /\ stack[Main][1].next = 1
      /\ \A p \in Procs \ {Main} : DOMAIN stack[p] = {}
  BY <1>2 DEF NewFrame
<1>4. \A j \in Jobs : \A y \in DOMAIN Kids[j] :
        Kids[j][y] \in Jobs /\ Kids[j][y] # Top /\ y \in Nat /\ y >= 1
  BY JobsAssumption, TreeAssumption
<1>5. Entered
  BY <1>2, <1>4 DEF Entered
<1>6. FramesOpen
  BY <1>2, <1>3, <1>4 DEF FramesOpen
<1>7. FramesApart
  BY <1>3 DEF FramesApart
<1>8. Work
  <2>1. \A p \in Procs : pc[p] \notin {"walk"} \cup InTryFork => stack[p] = <<>>
    BY <1>2 DEF Init
  <2>2. \A y \in DOMAIN Kids[Top] : Ahead(Top, y)
    BY <1>2, <1>3, <1>4 DEF Ahead
  <2> QED BY <1>2, <2>1, <2>2 DEF Work
<1>9. Ancestry
  <2>1. Forked = {}
    BY DEF Init, Forked
  <2> QED BY <2>1 DEF Ancestry
<1> QED BY <1>1, <1>5, <1>6, <1>7, <1>8, <1>9 DEF OnceInv, Once

\* The activation that has a candidate, and the stack behind it.
LEMMA TopFacts ==
  ASSUME TypeOK, NEW p \in Procs, pc[p] \in InTryFork
  PROVE  LET n == Len(stack[p])
             f == stack[p][n]
             r == Resumed(p)
         IN  /\ n \in DOMAIN stack[p] /\ DOMAIN stack[p] = 1 .. n /\ n \in Nat \ {0}
             /\ f.job \in Jobs /\ f.next \in DOMAIN Kids[f.job] /\ f.next \in Nat
             /\ Candidate(p) = Kids[f.job][f.next] /\ Candidate(p) \in Jobs
             /\ DOMAIN r = DOMAIN stack[p] /\ Len(r) = n
             /\ r[n].job = f.job /\ r[n].next = f.next + 1
             /\ \A x \in DOMAIN stack[p] : x # n => r[x] = stack[p][x]
<1> DEFINE n == Len(stack[p])
           f == stack[p][n]
<1>1. stack[p] \in Seq(Frame) /\ stack[p] # <<>> /\ f.next \in DOMAIN Kids[f.job]
  BY DEF TypeOK, VariableTypes, HasFrame, HasCandidate, TopFrame, Candidates
<1>2. n \in DOMAIN stack[p] /\ DOMAIN stack[p] = 1 .. n /\ n \in Nat \ {0} /\ f \in Frame
  BY <1>1
<1>3. f.job \in Jobs /\ f.next \in Nat
  BY <1>2 DEF Frame
<1>4. Candidate(p) = Kids[f.job][f.next] /\ Candidate(p) \in Jobs
  BY CandidateType DEF Candidate, Candidates, TopFrame
<1>5. /\ DOMAIN Resumed(p) = DOMAIN stack[p] /\ Len(Resumed(p)) = n
      /\ Resumed(p)[n].job = f.job /\ Resumed(p)[n].next = f.next + 1
      /\ \A x \in DOMAIN stack[p] : x # n => Resumed(p)[x] = stack[p][x]
  BY <1>1, <1>2, <1>3, ResumedType DEF Resumed, Frame, TypeOK
<1> QED BY <1>1, <1>2, <1>3, <1>4, <1>5

\* What entering a candidate does to the activations: the one it was found in
\* goes on behind it, one is new, the others stay.
Goes(p, q, x) ==
  /\ x \in DOMAIN stack[q] /\ x \in DOMAIN stack'[q]
  /\ stack'[q][x].job = stack[q][x].job
  /\ stack'[q][x].next =
       IF q = p /\ x = Len(stack[p]) THEN stack[q][x].next + 1 ELSE stack[q][x].next
Opens(p, q, x) ==
  x \in DOMAIN stack'[q] /\ stack'[q][x] = NewFrame(Candidate(p))
Enters(p, c, z) ==
  /\ runs' = [runs EXCEPT ![Candidate(p)] = @ + 1]
  /\ Opens(p, c, z)
  /\ \A q \in Procs : \A x \in DOMAIN stack'[q] : Goes(p, q, x) \/ (q = c /\ x = z)

\* The candidate that is entered is new, and its own candidates are open.
LEMMA EnterOnce ==
  ASSUME TypeOK, Once, NEW p \in Procs, pc[p] \in InTryFork, NEW c \in Procs, NEW z, Enters(p, c, z)
  PROVE  Once'
<1>0. PICK k, n, j, i : /\ k = Candidate(p) /\ n = Len(stack[p])
                        /\ j = stack[p][n].job /\ i = stack[p][n].next
  OBVIOUS
<1>1. /\ n \in DOMAIN stack[p] /\ j \in Jobs /\ i \in DOMAIN Kids[j] /\ i \in Nat
      /\ k = Kids[j][i] /\ k \in Jobs
  BY <1>0, TopFacts
<1>2. /\ runs[j] = 1 /\ runs[k] = 0
      /\ \A y \in DOMAIN Kids[k] : runs[Kids[k][y]] = 0
  <2>1. /\ runs[j] = 1
        /\ \A y \in DOMAIN Kids[j] : y >= i => runs[Kids[j][y]] = 0
    BY <1>0, <1>1 DEF Once, FramesOpen
  <2>2. runs[k] = 0
    BY <1>1, <2>1
  <2> QED BY <1>1, <2>1, <2>2 DEF Once, Entered
<1>3. /\ runs'[k] = 1 /\ \A m \in Jobs : m # k => runs'[m] = runs[m]
      /\ stack'[c][z] = NewFrame(k) /\ z \in DOMAIN stack'[c]
      /\ \A q \in Procs : \A x \in DOMAIN stack'[q] : Goes(p, q, x) \/ (q = c /\ x = z)
  <2>1. runs \in [Jobs -> Nat] /\ runs' = [runs EXCEPT ![k] = @ + 1]
    BY <1>0 DEF Enters, TypeOK, VariableTypes
  <2>2. runs'[k] = 1 /\ \A m \in Jobs : m # k => runs'[m] = runs[m]
    BY <1>1, <1>2, <2>1
  <2> QED BY <1>0, <2>2 DEF Enters, Opens
<1>4. /\ \A m \in Jobs : \A y \in DOMAIN Kids[m] : Kids[m][y] \in Jobs /\ y \in Nat /\ y >= 1
      /\ \A m \in Jobs : \A y \in DOMAIN Kids[m] : Kids[m][y] = k => m = j /\ y = i
  BY <1>1, JobsAssumption, TreeAssumption
<1>5. Entered'
  <2>1. \A m \in Jobs : runs'[m] \in {0, 1}
    BY <1>3 DEF Once, Entered
  <2>2. ASSUME NEW m \in Jobs, runs'[m] = 0, NEW y \in DOMAIN Kids[m] PROVE runs'[Kids[m][y]] = 0
    <3>1. m # k /\ m # j /\ runs[m] = 0
      BY <1>1, <1>2, <1>3, <2>2
    <3>2. Kids[m][y] # k /\ Kids[m][y] \in Jobs
      BY <1>4, <3>1
    <3> QED BY <1>3, <3>1, <3>2 DEF Once, Entered
  <2> QED BY <2>1, <2>2 DEF Entered
<1>6. ASSUME NEW q \in Procs, NEW x \in DOMAIN stack'[q]
      PROVE  /\ runs'[stack'[q][x].job] = 1 /\ stack'[q][x].next >= 1
             /\ \A y \in DOMAIN Kids[stack'[q][x].job] :
                  y >= stack'[q][x].next => runs'[Kids[stack'[q][x].job][y]] = 0
  <2>0. PICK m : m = stack'[q][x].job
    OBVIOUS
  <2>1. CASE q = c /\ x = z
    <3>1. m = k /\ stack'[q][x].next = 1
      BY <1>3, <2>0, <2>1 DEF NewFrame
    <3>2. \A y \in DOMAIN Kids[k] : Kids[k][y] # k /\ Kids[k][y] \in Jobs
      BY <1>1, <1>2, <1>4
    <3> QED BY <1>2, <1>3, <2>0, <3>1, <3>2
  <2>2. CASE Goes(p, q, x)
    <3>1. /\ x \in DOMAIN stack[q] /\ m = stack[q][x].job
          /\ stack'[q][x].next = IF q = p /\ x = n THEN stack[q][x].next + 1 ELSE stack[q][x].next
      BY <1>0, <2>0, <2>2 DEF Goes
    <3>2. /\ stack[q][x] \in Frame /\ m \in Jobs /\ stack[q][x].next \in Nat
      <4>1. stack[q] \in Seq(Frame)
        BY DEF TypeOK, VariableTypes
      <4>2. stack[q][x] \in Frame
        BY <3>1, <4>1
      <4> QED BY <3>1, <4>2 DEF Frame
    <3>3. /\ runs[m] = 1 /\ stack[q][x].next >= 1
          /\ \A y \in DOMAIN Kids[m] : y >= stack[q][x].next => runs[Kids[m][y]] = 0
      BY <3>1 DEF Once, FramesOpen
    <3>4. m # k
      BY <1>2, <3>3
    <3>5. ASSUME NEW y \in DOMAIN Kids[m], y >= stack'[q][x].next PROVE runs'[Kids[m][y]] = 0
      <4>1. y >= stack[q][x].next /\ y \in Nat /\ Kids[m][y] \in Jobs
        BY <1>4, <3>1, <3>2, <3>5
      <4>2. CASE Kids[m][y] # k
        BY <1>3, <3>3, <4>1, <4>2
      <4>3. CASE Kids[m][y] = k
        <5>1. m = j /\ y = i
          BY <1>4, <3>2, <4>3
        <5>2. q = p /\ x = n
          <6>1. stack[q][x].job = stack[p][n].job /\ x \in DOMAIN stack[q] /\ n \in DOMAIN stack[p]
            BY <1>0, <1>1, <3>1, <5>1
          <6> QED BY <6>1 DEF Once, FramesApart
        <5> QED BY <1>0, <1>1, <3>1, <3>5, <5>1, <5>2
      <4> QED BY <4>2, <4>3
    <3>6. stack'[q][x].next >= 1
      BY <3>1, <3>2, <3>3
    <3> QED BY <1>3, <2>0, <3>2, <3>3, <3>4, <3>5, <3>6
  <2> QED BY <1>3, <2>1, <2>2
<1>7. FramesApart'
  <2> SUFFICES ASSUME NEW q \in Procs, NEW r \in Procs,
                      NEW x \in DOMAIN stack'[q], NEW y \in DOMAIN stack'[r],
                      stack'[q][x].job = stack'[r][y].job
               PROVE  q = r /\ x = y
    BY DEF FramesApart
  <2>1. \A s \in Procs : \A w \in DOMAIN stack[s] : stack[s][w].job # k
    BY <1>2 DEF Once, FramesOpen
  <2>2. \A s \in Procs : \A w \in DOMAIN stack'[s] :
          IF s = c /\ w = z THEN stack'[s][w].job = k
          ELSE w \in DOMAIN stack[s] /\ stack'[s][w].job = stack[s][w].job /\ stack'[s][w].job # k
    BY <1>3, <2>1 DEF Goes, NewFrame
  <2> QED BY <2>2 DEF Once, FramesApart
<1> QED BY <1>5, <1>6, <1>7 DEF Once, FramesOpen

\* What was entered is found ahead of an activation that stays or opens.
LEMMA EnterWork ==
  ASSUME TypeOK, Once, Work, NEW p \in Procs, pc[p] \in InTryFork, NEW c \in Procs, NEW z,
         Enters(p, c, z), \A q \in Procs : \A x \in DOMAIN stack[q] : Goes(p, q, x),
         \A q \in Procs : pc'[q] \notin {"walk"} \cup InTryFork => stack'[q] = <<>>
  PROVE  Work'
<1>0. PICK k, n, j, i : /\ k = Candidate(p) /\ n = Len(stack[p])
                        /\ j = stack[p][n].job /\ i = stack[p][n].next
  OBVIOUS
<1>1. /\ n \in DOMAIN stack[p] /\ j \in Jobs /\ i \in DOMAIN Kids[j] /\ i \in Nat
      /\ k = Kids[j][i] /\ k \in Jobs
  BY <1>0, TopFacts
<1>2. runs[k] = 0
  <2>1. \A y \in DOMAIN Kids[j] : y >= i => runs[Kids[j][y]] = 0
    BY <1>0, <1>1 DEF Once, FramesOpen
  <2> QED BY <1>1, <2>1
<1>3. /\ runs'[k] = 1 /\ \A m \in Jobs : m # k => runs'[m] = runs[m]
      /\ stack'[c][z] = NewFrame(k) /\ z \in DOMAIN stack'[c]
  <2>1. runs \in [Jobs -> Nat] /\ runs' = [runs EXCEPT ![k] = @ + 1]
    BY <1>0 DEF Enters, TypeOK, VariableTypes
  <2>2. runs'[k] = 1 /\ \A m \in Jobs : m # k => runs'[m] = runs[m]
    BY <1>1, <1>2, <2>1
  <2> QED BY <1>0, <2>2 DEF Enters, Opens
<1>4. /\ \A m \in Jobs : \A y \in DOMAIN Kids[m] : Kids[m][y] \in Jobs /\ y \in Nat /\ y >= 1
      /\ Top \in Jobs /\ k # Top
  BY <1>1, JobsAssumption, TreeAssumption
<1>5. ASSUME NEW m \in Jobs, NEW y \in DOMAIN Kids[m], runs'[m] = 1, runs'[Kids[m][y]] = 0
      PROVE  Ahead(m, y)'
  <2>1. CASE m = k
    <3>1. stack'[c][z].job = m /\ stack'[c][z].next <= y
      BY <1>3, <1>4, <2>1 DEF NewFrame
    <3> QED BY <1>3, <3>1 DEF Ahead
  <2>2. CASE m # k
    <3>1. runs[m] = 1 /\ runs[Kids[m][y]] = 0 /\ Kids[m][y] # k
      BY <1>3, <1>4, <1>5, <2>2
    <3>0. PICK q \in Procs : \E x \in DOMAIN stack[q] : stack[q][x].job = m /\ stack[q][x].next <= y
      BY <3>1 DEF Work, Ahead
    <3>2. PICK x \in DOMAIN stack[q] : stack[q][x].job = m /\ stack[q][x].next <= y
      BY <3>0
    <3>3. stack[q][x].next \in Nat
      <4>1. stack[q] \in Seq(Frame)
        BY DEF TypeOK, VariableTypes
      <4>2. stack[q][x] \in Frame
        BY <3>2, <4>1
      <4> QED BY <4>2 DEF Frame
    <3>4. q = p /\ x = n => stack[q][x].next # y
      BY <1>0, <1>1, <3>1, <3>2
    <3>5. /\ x \in DOMAIN stack'[q] /\ stack'[q][x].job = m
          /\ stack'[q][x].next = IF q = p /\ x = n THEN stack[q][x].next + 1 ELSE stack[q][x].next
      BY <1>0, <3>2 DEF Goes
    <3>6. stack'[q][x].next <= y
      BY <1>4, <3>2, <3>3, <3>4, <3>5
    <3> QED BY <3>5, <3>6 DEF Ahead
  <2> QED BY <2>1, <2>2
<1>6. runs'[Top] = 1
  BY <1>3, <1>4 DEF Work
<1> QED BY <1>5, <1>6 DEF Work

\* The call by the process itself puts the new activation on its own stack.
LEMMA CallEnters ==
  ASSUME TypeOK, NEW p \in Procs, pc[p] \in InTryFork, CallProcess(p)
  PROVE  /\ Enters(p, p, Len(stack[p]) + 1)
         /\ \A q \in Procs : \A x \in DOMAIN stack[q] : Goes(p, q, x)
<1>0. PICK n, k, r : n = Len(stack[p]) /\ k = Candidate(p) /\ r = Resumed(p)
  OBVIOUS
<1>1. /\ DOMAIN stack[p] = 1 .. n /\ n \in Nat \ {0} /\ Len(r) = n /\ DOMAIN r = 1 .. n
      /\ r[n].job = stack[p][n].job /\ r[n].next = stack[p][n].next + 1
      /\ \A x \in 1 .. n : x # n => r[x] = stack[p][x]
  BY <1>0, TopFacts
<1>2. r \in Seq(Frame) /\ NewFrame(k) \in Frame
  BY <1>0, ResumedType, CandidateType, NewFrameType DEF TypeOK
<1>3. /\ stack' = [stack EXCEPT ![p] = Append(r, NewFrame(k))]
      /\ runs' = [runs EXCEPT ![k] = @ + 1]
  BY <1>0 DEF CallProcess
<1>4. stack'[p] = Append(r, NewFrame(k)) /\ \A q \in Procs : q # p => stack'[q] = stack[q]
  BY <1>3 DEF TypeOK, VariableTypes
<1>5. /\ DOMAIN stack'[p] = 1 .. n + 1 /\ stack'[p][n + 1] = NewFrame(k)
      /\ \A x \in 1 .. n : stack'[p][x] = r[x]
  BY <1>1, <1>2, <1>4
<1>6. ASSUME NEW q \in Procs, NEW x \in DOMAIN stack[q] PROVE Goes(p, q, x)
  <2>1. CASE q = p
    <3>1. x \in 1 .. n /\ x \in DOMAIN stack'[p]
      BY <1>1, <1>5, <1>6, <2>1
    <3>2. CASE x = n
      BY <1>0, <1>1, <1>5, <2>1, <3>1, <3>2 DEF Goes
    <3>3. CASE x # n
      BY <1>0, <1>1, <1>5, <2>1, <3>1, <3>3 DEF Goes
    <3> QED BY <3>2, <3>3
  <2>2. CASE q # p
    BY <1>4, <1>6, <2>2 DEF Goes
  <2> QED BY <2>1, <2>2
<1>7. \A q \in Procs : \A x \in DOMAIN stack'[q] : x \in DOMAIN stack[q] \/ (q = p /\ x = n + 1)
  BY <1>1, <1>4, <1>5
<1>8. Opens(p, p, n + 1)
  BY <1>0, <1>1, <1>5 DEF Opens
<1> QED BY <1>0, <1>3, <1>6, <1>7, <1>8 DEF Enters

\* A fork puts it on the stack of a process that had none.
LEMMA ForkEnters ==
  ASSUME TypeOK, NEW p \in Procs, ForkChild(p)
  PROVE  \E c \in Procs \ {Main, p} :
           /\ pc[c] = "free" /\ pc' = [pc EXCEPT ![p] = "walk", ![c] = "walk"]
           /\ parent' = [parent EXCEPT ![c] = p]
           /\ Enters(p, c, 1)
           /\ \A q \in Procs \ {c} : \A x \in DOMAIN stack[q] : Goes(p, q, x)
           /\ \A q \in Procs \ {p, c} : stack'[q] = stack[q]
<1>0. PICK n, k, r : n = Len(stack[p]) /\ k = Candidate(p) /\ r = Resumed(p)
  OBVIOUS
<1>1. PICK c \in Procs \ {Main, p} :
        /\ pc[c] = "free" /\ pc' = [pc EXCEPT ![p] = "walk", ![c] = "walk"]
        /\ parent' = [parent EXCEPT ![c] = p]
        /\ stack' = [stack EXCEPT ![p] = r, ![c] = <<NewFrame(k)>>]
        /\ runs' = [runs EXCEPT ![k] = @ + 1]
  BY <1>0 DEF ForkChild, FreshPids
<1>2. pc[p] \in InTryFork
  BY DEF ForkChild, InTryFork
<1>3. /\ DOMAIN stack[p] = 1 .. n /\ n \in Nat \ {0} /\ DOMAIN r = 1 .. n
      /\ r[n].job = stack[p][n].job /\ r[n].next = stack[p][n].next + 1
      /\ \A x \in 1 .. n : x # n => r[x] = stack[p][x]
  BY <1>0, <1>2, TopFacts
<1>4. /\ stack'[p] = r /\ stack'[c] = <<NewFrame(k)>>
      /\ \A q \in Procs : q # p /\ q # c => stack'[q] = stack[q]
  BY <1>1 DEF TypeOK, VariableTypes
<1>5. ASSUME NEW q \in Procs \ {c}, NEW x \in DOMAIN stack[q] PROVE Goes(p, q, x)
  <2>1. CASE q = p
    <3>1. x \in 1 .. n /\ x \in DOMAIN stack'[p]
      BY <1>3, <1>4, <1>5, <2>1
    <3>2. CASE x = n
      BY <1>0, <1>3, <1>4, <2>1, <3>1, <3>2 DEF Goes
    <3>3. CASE x # n
      BY <1>0, <1>3, <1>4, <2>1, <3>1, <3>3 DEF Goes
    <3> QED BY <3>2, <3>3
  <2>2. CASE q # p
    BY <1>4, <1>5, <2>2 DEF Goes
  <2> QED BY <2>1, <2>2
<1>6. \A q \in Procs : \A x \in DOMAIN stack'[q] :
        (q # c /\ x \in DOMAIN stack[q]) \/ (q = c /\ x = 1)
  <2>1. DOMAIN stack'[c] = {1}
    BY <1>4
  <2> QED BY <1>3, <1>4, <2>1
<1>7. Opens(p, c, 1)
  BY <1>0, <1>4 DEF Opens
<1>8. Enters(p, c, 1)
  BY <1>0, <1>1, <1>5, <1>6, <1>7 DEF Enters
<1> QED BY <1>1, <1>4, <1>5, <1>8

\* An activation that ends has nothing ahead of it.
LEMMA ReturnOnce ==
  ASSUME TypeOK, Once, NEW p \in Procs, Return(p)
  PROVE  Once' /\ (Work => Work')
<1> DEFINE n == Len(stack[p])
           rest == SubSeq(stack[p], 1, n - 1)
<1>1. /\ stack[p] \in Seq(Frame) /\ stack[p] # <<>> /\ runs' = runs
      /\ stack' = [stack EXCEPT ![p] = rest]
      /\ pc' = [pc EXCEPT ![p] = IF rest # <<>> THEN "walk" ELSE IF p = Main THEN "drain" ELSE "post"]
      /\ stack[p][n].next \notin DOMAIN Kids[stack[p][n].job]
  BY DEF Return, LeaveProcess, TopFrame, Candidates, TypeOK, VariableTypes, HasFrame
<1>2. /\ n \in Nat \ {0} /\ DOMAIN stack[p] = 1 .. n
      /\ stack[p][n].job \in Jobs /\ stack[p][n].next \in Nat
  <2>1. n \in Nat \ {0} /\ DOMAIN stack[p] = 1 .. n /\ n \in 1 .. n
    BY <1>1
  <2>2. stack[p][n] \in Frame
    BY <1>1, <2>1
  <2> QED BY <2>1, <2>2 DEF Frame
<1>3. DOMAIN rest = 1 .. n - 1 /\ \A x \in 1 .. n - 1 : rest[x] = stack[p][x]
  BY <1>1, <1>2
<1>4. stack'[p] = rest /\ \A q \in Procs : q # p => stack'[q] = stack[q]
  BY <1>1 DEF TypeOK, VariableTypes
<1>5. \A q \in Procs : \A x \in DOMAIN stack'[q] : x \in DOMAIN stack[q] /\ stack'[q][x] = stack[q][x]
  <2> HIDE DEF rest
  <2>1. \A x \in 1 .. n - 1 : x \in 1 .. n
    BY <1>2
  <2> HIDE DEF n
  <2> QED BY <1>2, <1>3, <1>4, <2>1
<1>6. Once'
  <2>1. Entered'
    BY <1>1 DEF Once, Entered
  <2>2. FramesOpen'
    BY <1>1, <1>5 DEF Once, FramesOpen
  <2>3. FramesApart'
    BY <1>5 DEF Once, FramesApart
  <2> QED BY <2>1, <2>2, <2>3 DEF Once
<1>7. ASSUME Work PROVE Work'
  <2>1. ASSUME NEW q \in Procs, pc'[q] \notin {"walk"} \cup InTryFork PROVE stack'[q] = <<>>
    <3>1. CASE q = p
      BY <1>1, <1>4, <2>1, <3>1 DEF TypeOK, VariableTypes
    <3>2. CASE q # p
      BY <1>1, <1>4, <1>7, <2>1, <3>2 DEF TypeOK, VariableTypes, Work
    <3> QED BY <3>1, <3>2
  <2>2. ASSUME NEW j \in Jobs, NEW y \in DOMAIN Kids[j], runs[j] = 1, runs[Kids[j][y]] = 0
        PROVE  Ahead(j, y)'
    <3>0. PICK q \in Procs : \E x \in DOMAIN stack[q] : stack[q][x].job = j /\ stack[q][x].next <= y
      BY <1>7, <2>2 DEF Work, Ahead
    <3>1. PICK x \in DOMAIN stack[q] : stack[q][x].job = j /\ stack[q][x].next <= y
      BY <3>0
    <3>2. ~ (q = p /\ x = n)
      <4> SUFFICES ASSUME q = p, x = n PROVE FALSE
        OBVIOUS
      <4>1. stack[p][n].job = j /\ stack[p][n].next <= y /\ stack[p][n].next >= 1
        BY <1>2, <3>1 DEF Once, FramesOpen
      <4>2. DOMAIN Kids[j] = 1 .. Len(Kids[j]) /\ Len(Kids[j]) \in Nat
        BY JobsAssumption
      <4>3. y \in 1 .. Len(Kids[j])
        BY <4>2
      <4>4. stack[p][n].next \in 1 .. Len(Kids[j])
        BY <1>2, <4>1, <4>2, <4>3
      <4> QED BY <1>1, <4>1, <4>2, <4>4
    <3>3. x \in DOMAIN stack'[q] /\ stack'[q][x] = stack[q][x]
      <4>1. CASE q = p
        <5>1. x \in 1 .. n - 1
          BY <1>2, <3>1, <3>2, <4>1
        <5> QED BY <1>3, <1>4, <4>1, <5>1
      <4>2. CASE q # p
        BY <1>4, <3>1, <4>2
      <4> QED BY <4>1, <4>2
    <3> QED BY <3>1, <3>3 DEF Ahead
  <2> QED BY <1>1, <1>7, <2>1, <2>2 DEF Work
<1> QED BY <1>6, <1>7

\* A step that enters and leaves no job keeps both.
LEMMA KeepOnce ==
  ASSUME Once, UNCHANGED <<stack, runs>>
  PROVE  Once'
BY DEF Once, Entered, FramesOpen, FramesApart

\* The same for the open work, unless a process leaves its activations.
LEMMA KeepWork ==
  ASSUME Work, UNCHANGED <<stack, runs>>,
         \A q \in Procs : pc'[q] \notin {"walk"} \cup InTryFork => pc[q] \notin {"walk"} \cup InTryFork
  PROVE  Work'
BY DEF Work, Ahead

\* Every step, a failure too, enters only what was not entered.
LEMMA StepOnce ==
  ASSUME TypeOK, Once, NEW p \in Procs, Run(p) \/ Die(p) \/ Kill(p)
  PROVE  Once'
<1>1. CASE DecideAlone(p) \/ ForkFails(p)
  <2>1. pc[p] \in InTryFork /\ CallProcess(p)
    BY <1>1 DEF DecideAlone, Scanned, ForkFails, InTryFork
  <2> QED BY <2>1, CallEnters, EnterOnce
<1>2. CASE ForkChild(p)
  <2>1. pc[p] \in InTryFork
    BY <1>2 DEF ForkChild, InTryFork
  <2>2. \E c \in Procs : Enters(p, c, 1)
    BY <1>2, ForkEnters
  <2> QED BY <2>1, <2>2, EnterOnce
<1>3. CASE ~DecideAlone(p) /\ ~ForkFails(p) /\ ~ForkChild(p) /\ ~Return(p)
  <2>1. UNCHANGED <<stack, runs>>
    BY <1>3 DEF Run, NextItem, Reap, TakeOut, ReapFailed, Skip, DecideFork, EnterSemWait,
                SemWait, Post, Exit, Die, Kill, EndWith
  <2> QED BY <2>1, KeepOnce
<1> QED BY <1>1, <1>2, <1>3, ReturnOnce

\* A step without a failure keeps the open work in reach of an activation.
LEMMA StepWork ==
  ASSUME TypeOK, Once, Work, NEW p \in Procs, Run(p), ~ForkFails(p), ~ReapFailed(p)
  PROVE  Work'
<1>0. pc \in [Procs -> States] /\ stack \in [Procs -> Seq(Frame)]
  BY DEF TypeOK, VariableTypes
<1>1. CASE DecideAlone(p)
  <2>1. pc[p] \in InTryFork /\ CallProcess(p)
    BY <1>1 DEF DecideAlone, Scanned, InTryFork
  <2>2. ASSUME NEW q \in Procs, pc'[q] \notin {"walk"} \cup InTryFork PROVE stack'[q] = <<>>
    <3>1. q # p /\ pc'[q] = pc[q] /\ stack'[q] = stack[q]
      BY <1>0, <2>1, <2>2 DEF CallProcess
    <3> QED BY <2>2, <3>1 DEF Work
  <2> QED BY <2>1, <2>2, CallEnters, EnterWork
<1>2. CASE ForkChild(p)
  <2>1. pc[p] \in InTryFork
    BY <1>2 DEF ForkChild, InTryFork
  <2>2. PICK c \in Procs \ {Main, p} :
           /\ pc[c] = "free" /\ pc' = [pc EXCEPT ![p] = "walk", ![c] = "walk"]
           /\ Enters(p, c, 1)
           /\ \A q \in Procs \ {c} : \A x \in DOMAIN stack[q] : Goes(p, q, x)
           /\ \A q \in Procs \ {p, c} : stack'[q] = stack[q]
    BY <1>2, ForkEnters
  <2>3. stack[c] = <<>>
    BY <2>2 DEF Work, InTryFork
  <2>4. \A q \in Procs : \A x \in DOMAIN stack[q] : Goes(p, q, x)
    <3>1. DOMAIN stack[c] = {}
      BY <2>3
    <3> QED BY <2>2, <3>1
  <2>5. ASSUME NEW q \in Procs, pc'[q] \notin {"walk"} \cup InTryFork PROVE stack'[q] = <<>>
    <3>1. q \notin {p, c} /\ pc'[q] = pc[q]
      BY <1>0, <2>2, <2>5
    <3> QED BY <2>2, <2>5, <3>1 DEF Work
  <2> QED BY <2>1, <2>2, <2>4, <2>5, EnterWork
<1>3. CASE Reap(p)
  <2>1. PICK c : pc[c] = "zombie" /\ pc' = [pc EXCEPT ![c] = "free"] /\ UNCHANGED <<stack, runs>>
    BY <1>3 DEF Reap, TakeOut
  <2>2. \A q \in Procs : pc'[q] \notin {"walk"} \cup InTryFork => pc[q] \notin {"walk"} \cup InTryFork
    BY <1>0, <2>1 DEF InTryFork
  <2> QED BY <2>1, <2>2, KeepWork
<1>4. CASE NextItem(p) \/ Skip(p) \/ DecideFork(p) \/ SemWait(p) \/ Post(p) \/ Exit(p)
  <2>1. UNCHANGED <<stack, runs>>
    BY <1>4 DEF NextItem, Skip, DecideFork, EnterSemWait, SemWait, Post, Exit, EndWith
  <2>2. \A q \in Procs : pc'[q] \notin {"walk"} \cup InTryFork => pc[q] \notin {"walk"} \cup InTryFork
    BY <1>0, <1>4 DEF NextItem, Skip, DecideFork, EnterSemWait, SemWait, Post, Exit, EndWith, InTryFork
  <2> QED BY <2>1, <2>2, KeepWork
<1> QED BY <1>1, <1>2, <1>3, <1>4, ReturnOnce DEF Run

\* A new process is nobody's parent yet; a step that is not a fork makes none.
LEMMA StepAncestry ==
  ASSUME TypeOK, Family, Ancestry, NEW p \in Procs, Run(p) \/ Die(p) \/ Kill(p)
  PROVE  Ancestry'
<1>0. pc \in [Procs -> States] /\ parent \in [Procs -> Procs]
  BY DEF TypeOK, VariableTypes
<1>1. CASE ForkChild(p)
  <2>1. PICK c \in Procs \ {Main, p} :
           /\ pc[c] = "free" /\ pc' = [pc EXCEPT ![p] = "walk", ![c] = "walk"]
           /\ parent' = [parent EXCEPT ![c] = p]
    BY <1>1, ForkEnters
  <2>2. \A q \in Procs : pc'[q] # "free" => q = c \/ pc[q] # "free"
    <3>1. p # Main => pc[p] # "free"
      BY <1>1 DEF ForkChild
    <3>2. pc[p] # "free"
      BY <1>1 DEF ForkChild
    <3> QED BY <1>0, <2>1, <3>2
  <2>3. ASSUME NEW A \in SUBSET Forked', A # {} PROVE \E q \in A : parent'[q] \notin A
    <3> DEFINE B == A \ {c}
    <3>1. B \in SUBSET Forked
      BY <2>2, <2>3 DEF Forked
    <3>2. CASE B = {}
      <4>1. A = {c}
        BY <2>3, <3>2
      <4> QED BY <1>0, <2>1, <4>1
    <3>3. CASE B # {}
      <4>1. PICK q \in B : parent[q] \notin B
        BY <3>1, <3>3 DEF Ancestry
      <4>2. q \in A /\ q # c /\ q \in Procs \ {Main} /\ pc[q] # "free"
        BY <3>1, <4>1 DEF Forked
      <4>3. Alive(parent[q])
        BY <4>2 DEF Family
      <4>4. parent[q] # c
        BY <2>1, <4>3 DEF Alive
      <4>5. parent'[q] = parent[q]
        BY <1>0, <2>1, <4>2
      <4> QED BY <4>1, <4>2, <4>4, <4>5
    <3> QED BY <3>2, <3>3
  <2> QED BY <2>3 DEF Ancestry
<1>2. CASE ~ForkChild(p)
  <2>1. parent' = parent /\ \A q \in Procs : pc'[q] # "free" => pc[q] # "free"
    BY <1>0, <1>2 DEF Run, NextItem, Return, LeaveProcess, Reap, TakeOut, ReapFailed, Skip, DecideFork,
           Scanned, EnterSemWait, DecideAlone, CallProcess, SemWait, ForkFails, Post, Exit,
           Die, Kill, EndWith, Working
  <2>2. Forked' \subseteq Forked
    BY <2>1 DEF Forked
  <2> QED BY <2>1, <2>2 DEF Ancestry
<1> QED BY <1>1, <1>2

\* Every step keeps the whole invariant.
LEMMA StepOnceInv ==
  ASSUME OnceInv, NEW p \in Procs, Run(p) \/ Die(p) \/ Kill(p)
  PROVE  OnceInv'
<1>1. TypeOK /\ FamilyInv /\ Once /\ (faults = 0 => Work /\ Ancestry)
  BY DEF OnceInv
<1>2. TypeOK' /\ FamilyInv' /\ Once'
  BY <1>1, StepTypeOK, StepFamilyInv, StepOnce
<1>3. ASSUME faults' = 0 PROVE Work' /\ Ancestry'
  <2>1. faults \in Nat
    BY <1>1 DEF TypeOK, VariableTypes
  <2>2. ~ForkFails(p) /\ ~Die(p) /\ ~Kill(p) /\ faults = 0
    BY <1>3, <2>1 DEF ForkFails, Die, Kill, Run, NextItem, Return, LeaveProcess, Reap, TakeOut,
              ReapFailed, Skip, DecideFork, EnterSemWait, DecideAlone, SemWait, ForkChild,
              Post, Exit
  <2>3. Family /\ Work /\ Ancestry
    BY <1>1, <2>2 DEF FamilyInv
  <2>4. ~ReapFailed(p)
    <3>1. SUFFICES ASSUME ReapFailed(p) PROVE FALSE
      OBVIOUS
    <3>2. children[p] \in Seq(Procs \ {Main}) /\ ri[p] \in Nat \ {0}
      BY <1>1 DEF TypeOK, VariableTypes
    <3>3. children[p][ri[p]] \in Procs
      BY <3>1, <3>2 DEF ReapFailed
    <3> QED BY <2>3, <3>1, <3>3 DEF ReapFailed, Family
  <2>5. Work'
    BY <1>1, <2>2, <2>3, <2>4, StepWork
  <2>6. Ancestry'
    BY <1>1, <2>3, StepAncestry
  <2> QED BY <2>5, <2>6
<1> QED BY <1>2, <1>3 DEF OnceInv

\* When main() is through, nobody is left and so nothing is ahead of anybody.
LEMMA OnceEnough == OnceInv => EachFolderOnce
<1> SUFFICES ASSUME OnceInv PROVE EachFolderOnce
  OBVIOUS
<1>0. TypeOK /\ Once /\ FamilyInv /\ (faults = 0 => Work /\ Ancestry)
  BY DEF OnceInv
<1>1. \A j \in Jobs : runs[j] \in {0, 1}
  BY <1>0 DEF Once, Entered
<1>2. ASSUME faults = 0, pc[Main] = "zombie"
      PROVE  (\A j \in Jobs : runs[j] = 1) /\ (\A p \in Procs : ~Alive(p))
  <2>1. Family /\ Work /\ Ancestry
    BY <1>0, <1>2 DEF FamilyInv
  <2>2. Forked = {}
    <3> SUFFICES ASSUME Forked # {} PROVE FALSE
      OBVIOUS
    <3>1. PICK q \in Forked : parent[q] \notin Forked
      BY <2>1 DEF Ancestry
    <3>2. Alive(parent[q]) /\ parent[q] \in Procs
      BY <1>0, <2>1, <3>1 DEF Family, Forked, TypeOK, VariableTypes
    <3> QED BY <1>2, <3>1, <3>2 DEF Forked, Alive
  <2>3. \A p \in Procs : pc[p] \in {"free", "zombie"}
    BY <1>2, <2>2 DEF Forked
  <2>4. \A p \in Procs : stack[p] = <<>>
    BY <2>1, <2>3 DEF Work, InTryFork
  <2>5. \A p \in Procs : DOMAIN stack[p] = {}
    BY <2>4
  <2> DEFINE A == {j \in Jobs : runs[j] = 1}
  <2>6. Top \in A /\ A \in SUBSET Jobs
    BY <2>1, JobsAssumption DEF Work
  <2>7. \A j \in A : \A x \in DOMAIN Kids[j] : Kids[j][x] \in A
    <3> SUFFICES ASSUME NEW j \in A, NEW x \in DOMAIN Kids[j] PROVE Kids[j][x] \in A
      OBVIOUS
    <3>1. Kids[j][x] \in Jobs /\ j \in Jobs /\ runs[j] = 1
      BY JobsAssumption
    <3>2. ~Ahead(j, x)
      BY <2>5 DEF Ahead
    <3> QED BY <1>1, <2>1, <3>1, <3>2 DEF Work
  <2>8. A = Jobs
    <3> HIDE DEF A
    <3> QED BY <2>6, <2>7, TreeAssumption
  <2> QED BY <2>3, <2>8 DEF Alive
<1> QED BY <1>1, <1>2 DEF EachFolderOnce

-----------------------------------------------------------------------------
\* No folder is ever written twice; and when main() returns after a run in which
\* nothing failed, every folder was written and no process is left.
THEOREM PoolFoldersOnce == Spec => []EachFolderOnce
<1>1. OnceInv /\ [Next]_vars => OnceInv'
  <2>1. OnceInv /\ UNCHANGED vars => OnceInv'
    <3> SUFFICES ASSUME OnceInv, UNCHANGED vars PROVE OnceInv'
      OBVIOUS
    <3>1. TypeOK'
      BY StutterTypeOK DEF OnceInv
    <3>2. FamilyInv'
      BY DEF OnceInv, vars, FamilyInv, Family, Alive
    <3>3. Once'
      BY KeepOnce DEF OnceInv, vars
    <3>4. faults' = 0 => Work' /\ Ancestry'
      <4>1. Work => Work'
        BY KeepWork DEF vars
      <4>2. Ancestry => Ancestry'
        BY DEF vars, Ancestry, Forked
      <4> QED BY <4>1, <4>2 DEF OnceInv, vars
    <3> QED BY <3>1, <3>2, <3>3, <3>4 DEF OnceInv
  <2> QED BY <2>1, StepOnceInv DEF Next
<1> QED BY <1>1, InitOnce, OnceEnough, PTL DEF Spec
=============================================================================
