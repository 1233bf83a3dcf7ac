------------------------------ MODULE DebugLock ------------------------------
(***************************************************************************)
(* The output lock.  The processes of readpst share the debug log and      *)
(* standard output; pst_debug, WARN, DIE and the progress messages of      *)
(* process() write to them between pst_debug_lock and pst_debug_unlock, a  *)
(* semaphore in shared memory, and flush before they unlock, so that a     *)
(* child never inherits text.  A message is written in two pieces, of      *)
(* which stdio may let some go to the file at any time.  The one message   *)
(* that main() prints without the lock is not here (see the README).       *)
(***************************************************************************)
EXTENDS ForkedProcesses, Integers, Sequences, FiniteSets, FiniteSetsExt, SequencesExt

CONSTANTS MaxMessages,  \* bounds on a run: messages, after which none begins,
          MaxKills      \* and processes that are killed

ASSUME LockAssumption == MaxMessages \in Nat /\ MaxKills \in Nat

Streams == {"log", "stdout"}

VARIABLES
  debugging, \* debug_fp: there is a debug log
  mutex,     \* value of output_mutex
  step,      \* "none", "idle", "head", "text", "flush", "unlock", "ended"
  todo,      \* the streams the macro at work still has to write, then "exit"
  sent,      \* number of messages each process has begun
  buffer,    \* text of a process that has not left its stdio buffers
  file,      \* text in the file of each stream
  parent,
  killed     \* history: the processes that were killed, with their step

vars == <<debugging, mutex, step, todo, sent, buffer, file, parent, killed>>

NoText == [s \in Streams |-> <<>>]

Init ==
  /\ debugging \in BOOLEAN
  /\ mutex = 1
  /\ step = [p \in Processes |-> IF p = 1 THEN "idle" ELSE "none"]
  /\ todo = [p \in Processes |-> <<>>]
  /\ sent = [p \in Processes |-> 0]
  /\ buffer = [p \in Processes |-> NoText]
  /\ file = NoText
  /\ parent = [p \in Processes |-> p]
  /\ killed = {}

Live(p) == step[p] \notin {"none", "ended"}
Idle(p) == step[p] = "idle" /\ todo[p] = <<>>
To(p, next) == step' = [step EXCEPT ![p] = next]

(* What the macros write to: DEBUG_INFO, the messages of process(), WARN   *)
(* and DIE.  pst_debug does nothing without a log.                         *)
Macros == {<<"log">>, <<"stdout">>, <<"log", "stdout">>, <<"log", "stdout", "exit">>}

Begin(p) ==
  /\ Idle(p) /\ MapThenSumSet(LAMBDA q : sent[q] + Len(todo[q]), Processes) < MaxMessages
  /\ \E m \in Macros :
       todo' = [todo EXCEPT ![p] = IF Head(m) = "log" /\ ~debugging THEN Tail(m) ELSE m]
  /\ UNCHANGED <<debugging, mutex, step, sent, buffer, file, parent, killed>>

\* Variant: the value is only tested.
LockNot(p) ==
  /\ step[p] = "idle" /\ todo[p] # <<>> /\ Head(todo[p]) \in Streams
  /\ mutex > 0 /\ UNCHANGED mutex
  /\ To(p, "head")
  /\ sent' = [sent EXCEPT ![p] = @ + 1]
  /\ UNCHANGED <<debugging, todo, buffer, file, parent, killed>>

\* pst_debug_lock
Lock(p) ==
  /\ step[p] = "idle" /\ todo[p] # <<>> /\ Head(todo[p]) \in Streams
  /\ mutex > 0 /\ mutex' = mutex - 1
  /\ To(p, "head")
  /\ sent' = [sent EXCEPT ![p] = @ + 1]
  /\ UNCHANGED <<debugging, todo, buffer, file, parent, killed>>

\* The first k pieces of all go to the file, the others wait.
Spill(p, s, all, k) ==
  /\ file' = [file EXCEPT ![s] = @ \o SubSeq(all, 1, k)]
  /\ buffer' = [buffer EXCEPT ![p][s] = SubSeq(all, k + 1, Len(all))]

\* fprintf, vfprintf: the head and the text of the message.
Put(p) ==
  /\ step[p] \in {"head", "text"}
  /\ LET s == Head(todo[p])
         all == Append(buffer[p][s], [by |-> p, message |-> sent[p], piece |-> step[p]])
     IN \E k \in 0 .. Len(all) : Spill(p, s, all, k)
  /\ To(p, IF step[p] = "head" THEN "text" ELSE "flush")
  /\ UNCHANGED <<debugging, mutex, todo, sent, parent, killed>>

\* Variant: the text stays in the buffer.
FlushNot(p) ==
  /\ step[p] = "flush" /\ To(p, "unlock")
  /\ UNCHANGED <<debugging, mutex, todo, sent, buffer, file, parent, killed>>

\* Variant: it logs what it does, and so takes the lock again.
FlushNested(p) ==
  /\ step[p] = "flush" /\ To(p, "unlock") /\ mutex > 0
  /\ LET s == Head(todo[p]) IN Spill(p, s, buffer[p][s], Len(buffer[p][s]))
  /\ UNCHANGED <<debugging, mutex, todo, sent, parent, killed>>

\* fflush
Flush(p) ==
  /\ step[p] = "flush" /\ To(p, "unlock")
  /\ LET s == Head(todo[p]) IN Spill(p, s, buffer[p][s], Len(buffer[p][s]))
  /\ UNCHANGED <<debugging, mutex, todo, sent, parent, killed>>

\* pst_debug_unlock
Unlock(p) ==
  /\ step[p] = "unlock" /\ To(p, "idle")
  /\ mutex' = mutex + 1
  /\ todo' = [todo EXCEPT ![p] = Tail(@)]
  /\ UNCHANGED <<debugging, sent, buffer, file, parent, killed>>

\* A child has a copy of all buffers.
Fork(p) ==
  /\ Idle(p)
  /\ \E c \in Processes :
       /\ step[c] = "none" /\ \A q \in 1 .. c - 1 : step[q] # "none"
       /\ To(c, "idle")
       /\ buffer' = [buffer EXCEPT ![c] = buffer[p]]
       /\ parent' = [parent EXCEPT ![c] = p]
  /\ UNCHANGED <<debugging, mutex, todo, sent, file, killed>>

(* exit, which flushes what is left: after DIE at once, otherwise when the *)
(* children have ended.                                                    *)
Exit(p) ==
  /\ step[p] = "idle" /\ todo[p] \in {<<>>, <<"exit">>}
  /\ todo[p] = <<>> => \A c \in Processes \ {p} : parent[c] = p => ~Live(c)
  /\ file' = [s \in Streams |-> file[s] \o buffer[p][s]]
  /\ buffer' = [buffer EXCEPT ![p] = NoText]
  /\ todo' = [todo EXCEPT ![p] = <<>>]
  /\ To(p, "ended")
  /\ UNCHANGED <<debugging, mutex, sent, parent, killed>>

\* A signal ends a process wherever it is.
Kill(p) ==
  /\ Live(p) /\ Cardinality(killed) < MaxKills
  /\ killed' = killed \cup {<<p, step[p]>>}
  /\ To(p, "ended")
  /\ buffer' = [buffer EXCEPT ![p] = NoText]
  /\ todo' = [todo EXCEPT ![p] = <<>>]
  /\ UNCHANGED <<debugging, mutex, sent, file, parent>>

Work(p) ==
  Begin(p) \/ Lock(p) \/ Put(p) \/ Flush(p) \/ Unlock(p) \/ Fork(p) \/ Exit(p)

Next == \E p \in Processes : Work(p) \/ Kill(p)

\* The system schedules every process.
Spec == Init /\ [][Next]_vars /\ \A p \in Processes : WF_vars(Work(p))

-----------------------------------------------------------------------------
Locked == {"head", "text", "flush", "unlock"}

\* Killed inside a message: nobody will post the semaphore for it.
Lost == {k \in killed : k[2] \in Locked}

(* In both files the pieces of a message that is written under the lock    *)
(* are together, in order, and there once, whoever forks or is killed;     *)
(* only the last text of a file can be half a message.                     *)
MessagesWhole ==
  \A s \in Streams : \A k \in DOMAIN file[s] :
    /\ \A j \in DOMAIN file[s] : file[s][j] = file[s][k] => j = k
    /\ IF file[s][k].piece = "head"
       THEN k < Len(file[s]) => file[s][k + 1] = [file[s][k] EXCEPT !.piece = "text"]
       ELSE k > 1 /\ file[s][k - 1] = [file[s][k] EXCEPT !.piece = "head"]

(* The lock is free, or one live process has it, or a process was killed   *)
(* with it: only a kill can lose it, and no failure makes a second one.    *)
LockAccounted ==
  mutex + Cardinality({p \in Processes : step[p] \in Locked}) + Cardinality(Lost) = 1

(* No process waits for ever for the lock, or for a child that does,       *)
(* unless one was killed inside a message; then all may.                   *)
AllEnd == <>(Lost # {} \/ \A p \in Processes : ~Live(p))
=============================================================================
