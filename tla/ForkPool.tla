------------------------------ MODULE ForkPool ------------------------------
(***************************************************************************)
(* The process pool of readpst: process(), try_fork() and grim_reaper() of *)
(* readpst.c.  A process walks the items of a folder; for every non-empty  *)
(* subfolder (and, in the separate modes, for every email) it calls        *)
(* try_fork.  When a slot of the shared semaphore global_children is free, *)
(* the candidate is handled by a forked child, otherwise by the process    *)
(* itself, one recursive call of process() deeper.                         *)
(*                                                                         *)
(* A "job" is a folder or message that try_fork is called for; Kids gives  *)
(* the candidates found while walking a job, in file order.  Items that    *)
(* never fork are part of the "walk" state.                                *)
(***************************************************************************)
EXTENDS Integers, Sequences, FiniteSets

CONSTANTS Jobs,         \* folders and messages that are candidates for a fork
          Top,          \* the job of main(): the children of the top of folders
          Kids,         \* Kids[j]: the candidates met while walking job j
          Procs,        \* process identifiers
          Main,         \* the process that runs main()
          MaxChildren,  \* max_children: -j, or four times the processor count
          FaultKinds,   \* which failures may happen: "fork", "crash"
          MaxFaults     \* bound on the number of failures of a behaviour

ASSUME JobsAssumption == /\ Top \in Jobs
                         /\ Kids \in [Jobs -> Seq(Jobs)]
\* The jobs are a tree: each is a candidate in one place, Top in none, and all
\* are reached from Top.  EveryNodeOnce of DescTree is about this.
ASSUME TreeAssumption ==
  /\ \A j, k \in Jobs : \A x \in DOMAIN Kids[j], y \in DOMAIN Kids[k] :
       Kids[j][x] = Kids[k][y] => j = k /\ x = y
  /\ \A j \in Jobs : \A x \in DOMAIN Kids[j] : Kids[j][x] # Top
  /\ \A A \in SUBSET Jobs :
       Top \in A /\ (\A j \in A : \A x \in DOMAIN Kids[j] : Kids[j][x] \in A) => A = Jobs
ASSUME ProcsAssumption == IsFiniteSet(Procs) /\ Main \in Procs
ASSUME MaxAssumption == MaxChildren \in Nat /\ MaxFaults \in Nat
ASSUME FaultAssumption == FaultKinds \subseteq {"fork", "crash"}

VARIABLES
  pc,        \* where each process is; "free" when the identifier is unused
  stack,     \* the activations of process(): the job and its next candidate
  children,  \* child_processes[0 .. active_children-1] of each process
  ri,        \* the loop index i of grim_reaper (counted from 1)
  slots,     \* the value of the semaphore global_children
  wstatus,   \* the wait status of a terminated process
  parent,    \* history: the process that forked this one
  runs,      \* history: how often process() was entered for a job
  leaked,    \* history: slots that no process will ever give back
  faults     \* history: failures so far

vars == <<pc, stack, children, ri, slots, wstatus, parent, runs, leaked, faults>>

-----------------------------------------------------------------------------
Frame == [job : Jobs, next : Nat]

\* The states in which a process still has, or may get, work to do.
Working == {"walk", "scan", "semwait", "fork", "post"}
InTryFork == {"scan", "semwait", "fork"}
States == Working \cup {"free", "drain", "zombie"}

\* exit(n) as waitpid() reports it; a process killed by signal s reports s.
ExitStatus(n) == (n % 256) * 256
SIGKILL == 9

TopFrame(p) == stack[p][Len(stack[p])]
Candidates(p) == Kids[TopFrame(p).job]
Candidate(p) == Candidates(p)[TopFrame(p).next]

\* The activation goes on behind the candidate it has just dealt with.
Resumed(p) == [stack[p] EXCEPT ![Len(stack[p])].next = @ + 1]
NewFrame(j) == [job |-> j, next |-> 1]

RemoveChild(s, i) == SubSeq(s, 1, i - 1) \o SubSeq(s, i + 1, Len(s))

\* Identifiers the operating system may hand out.
FreshPids == {c \in Procs \ {Main} : pc[c] = "free"}

\* Forked processes that have not given their slot back, and processes that
\* took a slot for a child that does not exist yet.
Holding == {p \in Procs \ {Main} : pc[p] \in Working}
Claiming == {p \in Procs : pc[p] = "fork"}
SlotsOf(p) == (IF p \in Holding THEN 1 ELSE 0) + (IF p \in Claiming THEN 1 ELSE 0)

MayFault(kind) == kind \in FaultKinds /\ faults < MaxFaults

\* p ends with wait status st; whatever it holds of the semaphore is lost.
EndWith(p, st) ==
  /\ pc' = [pc EXCEPT ![p] = "zombie"]
  /\ wstatus' = [wstatus EXCEPT ![p] = st]
  /\ leaked' = leaked + SlotsOf(p)
  /\ UNCHANGED <<stack, children, ri, slots, parent, runs>>

\* process(item, d_ptr->child) called by p itself for its current candidate.
CallProcess(p) ==
  /\ pc' = [pc EXCEPT ![p] = "walk"]
  /\ stack' = [stack EXCEPT ![p] = Append(Resumed(p), NewFrame(Candidate(p)))]
  /\ runs' = [runs EXCEPT ![Candidate(p)] = @ + 1]

-----------------------------------------------------------------------------
Init ==
  /\ pc = [p \in Procs |-> IF p = Main THEN "walk" ELSE "free"]
  /\ stack = [p \in Procs |-> IF p = Main THEN <<NewFrame(Top)>> ELSE <<>>]
  /\ children = [p \in Procs |-> <<>>]
  /\ ri = [p \in Procs |-> 1]
  /\ slots = MaxChildren
  /\ wstatus = [p \in Procs |-> 0]
  /\ parent = [p \in Procs |-> Main]
  /\ runs = [j \in Jobs |-> IF j = Top THEN 1 ELSE 0]
  /\ leaked = 0
  /\ faults = 0

\* The loop of process() reaches the next candidate: try_fork is entered and
\* calls grim_reaper(0).
NextItem(p) ==
  /\ pc[p] = "walk"
  /\ TopFrame(p).next \in DOMAIN Candidates(p)
  /\ pc' = [pc EXCEPT ![p] = "scan"]
  /\ ri' = [ri EXCEPT ![p] = 1]
  /\ UNCHANGED <<stack, children, slots, wstatus, parent, runs, leaked, faults>>

\* process() returns to an outer activation, or for the last time.
LeaveProcess(p, atEnd) ==
  /\ pc[p] = "walk"
  /\ TopFrame(p).next \notin DOMAIN Candidates(p)
  /\ LET rest == SubSeq(stack[p], 1, Len(stack[p]) - 1)
     IN  /\ stack' = [stack EXCEPT ![p] = rest]
         /\ pc' = [pc EXCEPT ![p] = IF rest # <<>> THEN "walk" ELSE atEnd]
  /\ ri' = [ri EXCEPT ![p] = 1]
  /\ UNCHANGED <<children, slots, wstatus, parent, runs, leaked, faults>>

\* Mutant of Return: it exits without sem_post.
ReturnWithoutPost(p) == LeaveProcess(p, "drain")

\* Out of main()'s call: grim_reaper(1).  In the process that was forked for
\* this job: sem_post first.
Return(p) == LeaveProcess(p, IF p = Main THEN "drain" ELSE "post")

\* One waitpid() of grim_reaper that finds the child terminated with status 0:
\* it is taken out of the list.
TakeOut(p) ==
  /\ pc[p] \in {"scan", "drain"}
  /\ ri[p] <= Len(children[p])
  /\ LET c == children[p][ri[p]]
     IN  /\ pc[c] = "zombie"
         /\ wstatus[c] = 0
         /\ pc' = [pc EXCEPT ![c] = "free"]
         /\ children' = [children EXCEPT ![p] = RemoveChild(@, ri[p])]
  /\ UNCHANGED <<stack, slots, wstatus, parent, runs, leaked, faults>>

\* Mutant of Reap: without the i-- the entry after the removed one is missed.
ReapSkipsNext(p) == TakeOut(p) /\ ri' = [ri EXCEPT ![p] = @ + 1]

\* The loop index stays: the next entry has moved to it.
Reap(p) == TakeOut(p) /\ UNCHANGED ri

\* The same waitpid() reports a failed child: exit(status), whatever the
\* process still had to do.
ReapFailed(p) ==
  /\ pc[p] \in {"scan", "drain"}
  /\ ri[p] <= Len(children[p])
  /\ LET c == children[p][ri[p]]
     IN  /\ pc[c] = "zombie"
         /\ wstatus[c] # 0
         /\ EndWith(p, ExitStatus(wstatus[c]))
  /\ UNCHANGED faults

\* With WNOHANG a child that still runs is passed over; without, waitpid blocks.
Skip(p) ==
  /\ pc[p] = "scan"
  /\ ri[p] <= Len(children[p])
  /\ pc[children[p][ri[p]]] # "zombie"
  /\ ri' = [ri EXCEPT ![p] = @ + 1]
  /\ UNCHANGED <<pc, stack, children, slots, wstatus, parent, runs, leaked, faults>>

Scanned(p) == pc[p] = "scan" /\ ri[p] > Len(children[p])
EnterSemWait(p) ==
  /\ pc' = [pc EXCEPT ![p] = "semwait"]
  /\ UNCHANGED <<stack, children, ri, slots, wstatus, parent, runs, leaked, faults>>

\* Mutants of DecideFork: one of the two tests of try_fork is missing.
DecideForkUnlimited(p) == Scanned(p) /\ slots > 0 /\ EnterSemWait(p)
DecideForkUntested(p) == Scanned(p) /\ Len(children[p]) < MaxChildren /\ EnterSemWait(p)

\* The end of grim_reaper(0) and the test of try_fork: sem_getvalue is read
\* here, the slot is taken by a later step.
DecideFork(p) ==
  /\ Scanned(p)
  /\ slots > 0
  /\ Len(children[p]) < MaxChildren
  /\ EnterSemWait(p)

\* No slot, or no room in the list of children: p does the job itself.
DecideAlone(p) ==
  /\ Scanned(p)
  /\ slots = 0 \/ Len(children[p]) >= MaxChildren
  /\ CallProcess(p)
  /\ UNCHANGED <<children, ri, slots, wstatus, parent, leaked, faults>>

\* sem_wait(global_children): blocks while the value is 0.
SemWait(p) ==
  /\ pc[p] = "semwait"
  /\ slots > 0
  /\ slots' = slots - 1
  /\ pc' = [pc EXCEPT ![p] = "fork"]
  /\ UNCHANGED <<stack, children, ri, wstatus, parent, runs, leaked, faults>>

\* Mutant of ForkChild: the child goes on with the activations of its parent.
ForkWithStack(p) ==
  /\ pc[p] = "fork"
  /\ FreshPids # {}
  /\ LET c == CHOOSE q \in FreshPids : TRUE
     IN  /\ pc' = [pc EXCEPT ![p] = "walk", ![c] = "walk"]
         /\ stack' = [stack EXCEPT ![p] = Resumed(p),
                                   ![c] = Append(Resumed(p), NewFrame(Candidate(p)))]
         /\ children' = [children EXCEPT ![p] = Append(@, c), ![c] = <<>>]
         /\ parent' = [parent EXCEPT ![c] = p]
  /\ runs' = [runs EXCEPT ![Candidate(p)] = @ + 1]
  /\ UNCHANGED <<ri, slots, wstatus, leaked, faults>>

\* fork() succeeds.  The child starts with an empty list of children and has
\* the candidate as its only work: it exits when this activation returns.
ForkChild(p) ==
  /\ pc[p] = "fork"
  /\ FreshPids # {}
  /\ LET c == CHOOSE q \in FreshPids : TRUE
     IN  /\ pc' = [pc EXCEPT ![p] = "walk", ![c] = "walk"]
         /\ stack' = [stack EXCEPT ![p] = Resumed(p), ![c] = <<NewFrame(Candidate(p))>>]
         /\ children' = [children EXCEPT ![p] = Append(@, c), ![c] = <<>>]
         /\ parent' = [parent EXCEPT ![c] = p]
  /\ runs' = [runs EXCEPT ![Candidate(p)] = @ + 1]
  /\ UNCHANGED <<ri, slots, wstatus, leaked, faults>>

\* fork() fails: "pretend it worked and we are the child".  Because the caller
\* is still its own parent, the slot taken by sem_wait is never posted.
ForkFails(p) ==
  /\ pc[p] = "fork"
  /\ MayFault("fork") \/ FreshPids = {}
  /\ CallProcess(p)
  /\ leaked' = leaked + 1
  /\ faults' = faults + 1
  /\ UNCHANGED <<children, ri, slots, wstatus, parent>>

\* A forked process gives its slot back before it waits for its own children.
Post(p) ==
  /\ pc[p] = "post"
  /\ slots' = slots + 1
  /\ pc' = [pc EXCEPT ![p] = "drain"]
  /\ UNCHANGED <<stack, children, ri, wstatus, parent, runs, leaked, faults>>

\* grim_reaper(1) is through its list: exit(0), or the return of main().
Exit(p) ==
  /\ pc[p] = "drain"
  /\ ri[p] > Len(children[p])
  /\ EndWith(p, ExitStatus(0))
  /\ UNCHANGED faults

\* DIE() while an item is processed: exit(1).
Die(p) ==
  /\ pc[p] = "walk"
  /\ MayFault("crash")
  /\ EndWith(p, ExitStatus(1))
  /\ faults' = faults + 1

\* The process is terminated by a signal.
Kill(p) ==
  /\ pc[p] \in Working \cup {"drain"}
  /\ MayFault("crash")
  /\ EndWith(p, SIGKILL)
  /\ faults' = faults + 1

Run(p) == \/ NextItem(p)   \/ Return(p)      \/ Reap(p)    \/ ReapFailed(p)
          \/ Skip(p)       \/ DecideFork(p)  \/ DecideAlone(p)
          \/ SemWait(p)    \/ ForkChild(p)   \/ ForkFails(p)
          \/ Post(p)       \/ Exit(p)

Next == \E p \in Procs : Run(p) \/ Die(p) \/ Kill(p)

\* The operating system schedules every runnable process; nothing makes a
\* process fail.
Spec == Init /\ [][Next]_vars
FairSpec == Spec /\ \A p \in Procs : WF_vars(Run(p))

-----------------------------------------------------------------------------
VariableTypes ==
  /\ pc \in [Procs -> States]
  /\ stack \in [Procs -> Seq(Frame)]
  /\ children \in [Procs -> Seq(Procs \ {Main})]
  /\ ri \in [Procs -> Nat \ {0}]
  /\ slots \in Nat
  /\ wstatus \in [Procs -> Nat]
  /\ parent \in [Procs -> Procs]
  /\ runs \in [Jobs -> Nat]
  /\ leaked \in Nat
  /\ faults \in Nat

\* A process that works has an activation, one inside try_fork has a candidate.
HasFrame(p) == pc[p] \in {"walk"} \cup InTryFork => stack[p] # <<>>
HasCandidate(p) == pc[p] \in InTryFork => TopFrame(p).next \in DOMAIN Candidates(p)

\* The type invariant; main() is never in the code of a forked process that
\* posts its slot.
TypeOK ==
  /\ VariableTypes
  /\ \A p \in Procs : HasFrame(p) /\ HasCandidate(p)
  /\ pc[Main] \notin {"free", "post"}

\* active_children never exceeds max_children, the size of child_processes
\* (readpst.c:143): try_fork appends without a check of its own after it has
\* blocked in sem_wait.
ActiveChildrenBounded == \A p \in Procs : Len(children[p]) <= MaxChildren

\* Every slot is in the semaphore, held by a forked process that has not
\* called sem_post, claimed by a process inside try_fork, or lost to a failure:
\* no slot is created, freed twice or silently dropped.
SlotsConserved ==
  slots + Cardinality(Holding) + Cardinality(Claiming) + leaked = MaxChildren

\* Besides main() at most MaxChildren processes do work at any time, although
\* children that only wait for their own children are not counted.
WorkersBounded ==
  Cardinality({p \in Procs : pc[p] \in Working}) <= MaxChildren + 1

\* try_fork reads the semaphore and only later waits for it, so it can block.
\* When it does, and no slot was lost, some process that will give a slot back
\* is not blocked itself: the pool cannot deadlock on its semaphore.
SlotHolderRuns ==
  slots = 0 /\ leaked = 0 /\ MaxChildren > 0
    => \E p \in Procs : \/ pc[p] = "fork"
                        \/ p # Main /\ pc[p] \in {"walk", "scan", "post"}

Alive(p) == pc[p] \notin {"free", "zombie"}

\* No folder is written twice, by a parent and its child say; and when main()
\* returns after a run without failures every folder was processed and no
\* process is still at work.
EachFolderOnce ==
  /\ \A j \in Jobs : runs[j] <= 1
  /\ faults = 0 /\ pc[Main] = "zombie"
       => /\ \A j \in Jobs : runs[j] = 1
          /\ \A p \in Procs : ~Alive(p)

\* Without failures a process outlives its children: grim_reaper(1) misses no
\* entry of a list that shrinks while it is scanned.
ChildrenOutlived ==
  faults = 0 => \A p, q \in Procs : Alive(q) /\ q # Main /\ parent[q] = p => Alive(p)

\* A run without failures ends, whatever the interleaving.
Terminates == <>(faults > 0 \/ \A p \in Procs : ~Alive(p))

-----------------------------------------------------------------------------
\* Claims of comments that the code does not keep; each is refuted
\* by a run of its own.

\* readpst.c:212, "fork failed, pretend it worked and we are the child": the
\* job is still done and the run ends.
ForkFailureHarmless == <>(\A p \in Procs : ~Alive(p))

\* readpst.c:664, "wait for all child processes": a run that reports success
\* has processed every folder and left no process behind.
SuccessMeansComplete ==
  pc[Main] = "zombie" /\ wstatus[Main] = 0
    => /\ \A j \in Jobs : runs[j] = 1
       /\ \A p \in Procs : ~Alive(p)
=============================================================================
