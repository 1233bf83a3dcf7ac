---------------------------- MODULE OutputBuffers ----------------------------
(***************************************************************************)
(* The stdio buffers of the output files of readpst across fork and exit.  *)
(* process() keeps the files of its folder open, and writes to them        *)
(* without fflush, while it forks children for subfolders.  A child        *)
(* inherits the streams of all folders it is in, with what is not written  *)
(* yet, and exit(0) writes it.                                             *)
(*                                                                         *)
(* Slots and failures are in ForkPool: here a process may fork whenever    *)
(* there is a process left.  One output file per folder stands for four.   *)
(***************************************************************************)
EXTENDS Integers, Sequences, FiniteSets, SequencesExt

CONSTANTS Folders,
          Root,
          Entries,    \* what a folder holds, in order: folders and items
          MaxWriters  \* bound on the processes of a run

Writers == 1 .. MaxWriters

Items == (UNION {ToSet(Entries[f]) : f \in Folders}) \ Folders

\* Every folder but the first and every item is in one place, and every folder
\* is below the first.
ASSUME EntriesAssumption ==
  /\ Root \in Folders /\ MaxWriters \in Nat \ {0}
  /\ Entries \in [Folders -> Seq(Items \cup (Folders \ {Root}))]
  /\ \A f, g \in Folders : \A i \in DOMAIN Entries[f], j \in DOMAIN Entries[g] :
       Entries[f][i] = Entries[g][j] => f = g /\ i = j
  /\ \A S \in SUBSET Folders :
       Root \in S /\ (\A f \in S : ToSet(Entries[f]) \cap Folders \subseteq S) => S = Folders

VARIABLES
  separate, \* mode == MODE_SEPARATE: a file for each item, open only while it is written
  state,    \* "none", "running", "item", "ending", "exited"
  stack,    \* the activations of process(): folder, next entry, buffer of its stream
  job,      \* the folder or item a process was forked for
  elder,    \* the process that forked each process
  output,   \* what is in the file of a folder or item: items and who wrote them
  copied    \* history: the items that were in a buffer when it was copied by a fork

outputVars == <<separate, state, stack, job, elder, output, copied>>

NewFrame(f) == [folder |-> f, next |-> 1, buffer |-> <<>>]

\* main() calls process() for the top of folders.
OutputInit ==
  /\ separate \in BOOLEAN
  /\ state = [p \in Writers |-> IF p = 1 THEN "running" ELSE "none"]
  /\ stack = [p \in Writers |-> IF p = 1 THEN <<NewFrame(Root)>> ELSE <<>>]
  /\ job = [p \in Writers |-> Root]
  /\ elder = [p \in Writers |-> p]
  /\ output = [f \in Folders \cup Items |-> <<>>]
  /\ copied = {}

Top(p) == Last(stack[p])
HasEntry(p) == state[p] = "running" /\ Top(p).next <= Len(Entries[Top(p).folder])
Entry(p) == Entries[Top(p).folder][Top(p).next]

\* The stack with the loop of the innermost activation moved on.
MovedOn(p) == [stack[p] EXCEPT ![Len(stack[p])].next = @ + 1]

Written(p, items) == [i \in DOMAIN items |-> [item |-> items[i], by |-> p]]

-----------------------------------------------------------------------------
(* An item is written to the stream of the folder.  When the buffer is     *)
(* full, some of it goes to the file.                                      *)
WriteItem(p) ==
  /\ HasEntry(p) /\ Entry(p) \in Items /\ ~separate
  /\ LET folder == Top(p).folder
         all == Append(Top(p).buffer, Entry(p))
     IN \E k \in 0 .. Len(all) :
          /\ output' = [output EXCEPT ![folder] = @ \o Written(p, SubSeq(all, 1, k))]
          /\ stack' = [stack EXCEPT ![p] = [MovedOn(p) EXCEPT ![Len(stack[p])].buffer = SubSeq(all, k + 1, Len(all))]]
  /\ UNCHANGED <<separate, state, job, elder, copied>>

\* In separate mode the file of an item is opened, written and closed.
WriteSeparate(p) ==
  /\ HasEntry(p) /\ Entry(p) \in Items /\ separate
  /\ output' = [output EXCEPT ![Entry(p)] = @ \o Written(p, <<Entry(p)>>)]
  /\ stack' = [stack EXCEPT ![p] = MovedOn(p)]
  /\ UNCHANGED <<separate, state, job, elder, copied>>

\* fork: the child gets a copy of the parent, buffers included.
CopyTo(p, childState, childStack) ==
  \E c \in Writers :
    /\ state[c] = "none" /\ \A q \in 1 .. c - 1 : state[q] # "none"
    /\ state' = [state EXCEPT ![c] = childState]
    /\ stack' = [stack EXCEPT ![c] = childStack, ![p] = MovedOn(p)]
    /\ job' = [job EXCEPT ![c] = Entry(p)]
    /\ elder' = [elder EXCEPT ![c] = p]
    /\ copied' = copied \cup UNION {ToSet(stack[p][d].buffer) : d \in DOMAIN stack[p]}
    /\ UNCHANGED <<separate, output>>

\* A mail is left to a child, in separate mode only.
ForkItem(p) ==
  /\ HasEntry(p) /\ Entry(p) \in Items /\ separate
  /\ CopyTo(p, "item", stack[p])

\* The child writes the mail, and then has nothing else to do.
ChildWrites(p) ==
  /\ state[p] = "item"
  /\ output' = [output EXCEPT ![Entry(p)] = @ \o Written(p, <<Entry(p)>>)]
  /\ state' = [state EXCEPT ![p] = "ending"]
  /\ UNCHANGED <<separate, stack, job, elder, copied>>

\* A subfolder is left to a child, or entered.
ForkFolder(p) ==
  /\ HasEntry(p) /\ Entry(p) \in Folders
  /\ CopyTo(p, "running", Append(MovedOn(p), NewFrame(Entry(p))))

EnterFolder(p) ==
  /\ HasEntry(p) /\ Entry(p) \in Folders
  /\ stack' = [stack EXCEPT ![p] = Append(MovedOn(p), NewFrame(Entry(p)))]
  /\ UNCHANGED <<separate, state, job, elder, output, copied>>

\* Variant: the stream is not closed.
LeaveFolderOpen(p) ==
  /\ state[p] = "running" /\ ~HasEntry(p)
  /\ stack' = [stack EXCEPT ![p] = Front(@)]
  /\ state' = [state EXCEPT ![p] = IF Top(p).folder = job[p] THEN "ending" ELSE "running"]
  /\ UNCHANGED <<separate, output, job, elder, copied>>

\* close_enter_dir, and the end of the activation.  A child was forked for
\* one activation and goes to its exit.
LeaveFolder(p) ==
  /\ state[p] = "running" /\ ~HasEntry(p)
  /\ output' = [output EXCEPT ![Top(p).folder] = @ \o Written(p, Top(p).buffer)]
  /\ stack' = [stack EXCEPT ![p] = Front(@)]
  /\ state' = [state EXCEPT ![p] = IF Top(p).folder = job[p] THEN "ending" ELSE "running"]
  /\ UNCHANGED <<separate, job, elder, copied>>

Ended(p) == state[p] \in {"none", "exited"}

\* What a process still has to write to the file of folder f; it has one stream
\* for it at most, as no folder is inside itself.
Unwritten(p, f) ==
  LET open == {d \in DOMAIN stack[p] : stack[p][d].folder = f}
  IN IF open = {} THEN <<>> ELSE stack[p][CHOOSE d \in open : TRUE].buffer

(* grim_reaper(1), then exit: every stream that is still open is flushed,  *)
(* those of the folders around the one that was processed included.        *)
ExitProcess(p) ==
  /\ state[p] = "ending"
  /\ \A c \in Writers \ {p} : elder[c] = p => Ended(c)
  /\ output' = [f \in DOMAIN output |-> output[f] \o Written(p, Unwritten(p, f))]
  /\ state' = [state EXCEPT ![p] = "exited"]
  /\ stack' = [stack EXCEPT ![p] = <<>>]
  /\ UNCHANGED <<separate, job, elder, copied>>

OutputNext == \E p \in Writers :
  \/ WriteItem(p) \/ WriteSeparate(p) \/ ForkItem(p) \/ ChildWrites(p)
  \/ ForkFolder(p) \/ EnterFolder(p) \/ LeaveFolder(p) \/ ExitProcess(p)

OutputSpec == OutputInit /\ [][OutputNext]_outputVars

-----------------------------------------------------------------------------
Finished == \A p \in Writers : Ended(p)

\* The file an item belongs to, and how often it is there.
Home(i) == IF separate THEN i ELSE CHOOSE f \in Folders : i \in ToSet(Entries[f])
Times(i) == Cardinality({k \in DOMAIN output[Home(i)] : output[Home(i)][k].item = i})

(* In separate mode no stream is open at a fork: whichever process writes  *)
(* an item, it is written once, also in the middle of the run.             *)
SeparateOnce == separate => copied = {} /\ \A i \in Items : Times(i) <= 1

\* The items a folder holds before item i.
Earlier(f, i) ==
  {e \in Items : \E x, y \in DOMAIN Entries[f] : x < y /\ Entries[f][x] = e /\ Entries[f][y] = i}

(* Copies never come before the first text: the items of a file, each      *)
(* where it is first found, are in the order of the folder, without a gap. *)
ItemsInOrder ==
  \A f \in Folders : \A k \in DOMAIN output[f] :
    /\ output[f][k].item \in ToSet(Entries[f])
    /\ Earlier(f, output[f][k].item) \subseteq {output[f][j].item : j \in 1 .. k - 1}

(* When all processes have ended every item is in its file, and it is      *)
(* there once unless it was waiting in a buffer when its process, or a     *)
(* child that had inherited the buffer, forked: exit(0) at readpst.c:294   *)
(* then writes it to the file of a folder around the one the child was     *)
(* "forked for the sole purpose of processing" (289).                      *)
ItemsWritten ==
  /\ Finished => \A i \in Items : IF i \in copied THEN Times(i) >= 1 ELSE Times(i) = 1
  /\ SeparateOnce
  /\ ItemsInOrder
=============================================================================
