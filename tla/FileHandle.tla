----------------------------- MODULE FileHandle -----------------------------
(***************************************************************************)
(* The open pst file of each process: pst_open, pst_reopen, pst_close and  *)
(* the two steps of pst_getAtPos, with what fork makes of them.  A child   *)
(* starts with the stream of its parent: both are on one open file         *)
(* description and share its offset, until the child has closed its copy   *)
(* and opened the file again by its name, which is relative to the         *)
(* directory pst_open was called in.                                       *)
(*                                                                         *)
(* A directory is its depth below that directory: readpst enters and       *)
(* leaves folders one at a time.  Slots and waiting are in ForkPool.       *)
(***************************************************************************)
EXTENDS ForkedProcesses, Integers, FiniteSets

CONSTANTS MaxDepth,     \* bound on the folders entered
          Positions     \* the places of the file that are told apart

ASSUME HandleAssumption ==
  MaxDepth \in Nat \ {0} /\ Positions # {}

Depths == -MaxDepth .. MaxDepth
Closed == 0
Start == 0
Unknown == MaxDepth + 1   \* pf->cwd when getcwd failed: no directory

VARIABLES
  pc,       \* "none", "start", "work", "read", "ended", or a step of pst_reopen
  fp,       \* the description a process reads; each is named for who opened it
  offset,   \* of each description
  cwd,      \* pf->cwd
  dir,      \* the working directory
  saved,    \* cwd of pst_reopen
  should,   \* history: the directory the walk of the folders is in
  failed,   \* history: the call that made pst_reopen return -1
  read,     \* the read under way: its position, and whether (history) the
            \* offset was shared when it began with a process that
            \* still had, or was left with, an inherited stream
  misread   \* history: who got data of another position by a read that was not

handleVars == <<pc, fp, offset, cwd, dir, saved, should, failed, read, misread>>
reading == <<read, misread>>

NoRead == [pos |-> Start, exposed |-> FALSE]

HandleInit ==
  /\ pc = [p \in Processes |-> IF p = 1 THEN "start" ELSE "none"]
  /\ fp = [p \in Processes |-> Closed]
  /\ \E first \in Positions : offset = [d \in Processes |-> first]
  /\ cwd = Unknown
  /\ dir = [p \in Processes |-> Start] /\ saved = dir /\ should = dir
  /\ failed = [p \in Processes |-> "no"]
  /\ read = [p \in Processes |-> NoRead]
  /\ misread = {}

\* fopen by p: its own description, positioned at the start.
Opened(p) ==
  /\ fp' = [fp EXCEPT ![p] = p]
  /\ \E first \in Positions : offset' = [offset EXCEPT ![p] = first]

\* pst_open: fopen, the signature and the type of the file, and then the
\* working directory.  When it fails readpst ends.
Open ==
  /\ pc[1] = "start"
  /\ \/ Opened(1) /\ pc' = [pc EXCEPT ![1] = "work"] /\ cwd' \in {Start, Unknown}
     \/ pc' = [pc EXCEPT ![1] = "ended"] /\ UNCHANGED <<fp, offset, cwd>>
  /\ UNCHANGED <<dir, saved, should, failed, reading>>

\* A folder is entered, or left.
EnterDir(p) ==
  /\ pc[p] = "work"
  /\ \E step \in {-1, 1} :
       /\ should[p] + step \in 0 .. MaxDepth /\ dir[p] + step \in Depths
       /\ dir' = [dir EXCEPT ![p] = @ + step]
       /\ should' = [should EXCEPT ![p] = @ + step]
  /\ UNCHANGED <<pc, fp, offset, cwd, saved, failed, reading>>

-----------------------------------------------------------------------------
(* pst_getAtPos: fseeko, then fread.  The file offset may be anywhere      *)
(* after it, since stdio reads ahead.  What a read through a closed stream *)
(* gives is undefined.                                                     *)
Sharing(p) == {q \in Processes \ {p} : fp[q] = fp[p] /\ pc[q] \notin {"none", "ended"}}

\* A process that still has the stream it was forked with.
Inherited(p) == pc[p] \in {"getcwd", "chdir", "fclose"} \/ failed[p] \in {"getcwd", "chdir"}

\* The C library leaves the offset of p's description anywhere.
Moved(p) ==
  IF fp[p] = Closed THEN UNCHANGED offset
  ELSE \E pos \in Positions : offset' = [offset EXCEPT ![fp[p]] = pos]

Seek(p) ==
  /\ pc[p] = "work"
  /\ pc' = [pc EXCEPT ![p] = "read"]
  /\ \E pos \in Positions :
       /\ read' = [read EXCEPT ![p] =
                     [pos |-> pos,
                      exposed |-> fp[p] = Closed \/ \E q \in Sharing(p) : Inherited(p) \/ Inherited(q)]]
       /\ offset' = IF fp[p] = Closed THEN offset ELSE [offset EXCEPT ![fp[p]] = pos]
  /\ UNCHANGED <<fp, cwd, dir, saved, should, failed, misread>>

Read(p) ==
  /\ pc[p] = "read"
  /\ pc' = [pc EXCEPT ![p] = "work"]
  /\ Moved(p)
  /\ misread' = IF ~read[p].exposed /\ offset[fp[p]] # read[p].pos
                THEN misread \cup {p} ELSE misread
  /\ read' = [read EXCEPT ![p] = NoRead]
  /\ UNCHANGED <<fp, cwd, dir, saved, should, failed>>

-----------------------------------------------------------------------------
\* Variant: the child goes on with the stream it has.
ForkShared(p) ==
  \E c \in Processes :
    /\ pc[p] = "work"
    /\ pc[c] = "none" /\ \A q \in 1 .. c - 1 : pc[q] # "none"
    /\ pc' = [pc EXCEPT ![c] = "work"]
    /\ fp' = [fp EXCEPT ![c] = fp[p]]
    /\ dir' = [dir EXCEPT ![c] = dir[p]]
    /\ should' = [should EXCEPT ![c] = dir[p]]
    /\ UNCHANGED <<offset, cwd, saved, failed, reading>>

(* try_fork: the child calls pst_reopen before anything else and does not  *)
(* look at what it returns.                                                *)
ForkReader(p) ==
  \E c \in Processes :
    /\ pc[p] = "work"
    /\ pc[c] = "none" /\ \A q \in 1 .. c - 1 : pc[q] # "none"
    /\ pc' = [pc EXCEPT ![c] = "getcwd"]
    /\ fp' = [fp EXCEPT ![c] = fp[p]]
    /\ dir' = [dir EXCEPT ![c] = dir[p]]
    /\ should' = [should EXCEPT ![c] = dir[p]]
    /\ UNCHANGED <<offset, cwd, saved, failed, reading>>

\* return -1 after the named call, or the next step.
Fails(p, call) ==
  /\ pc' = [pc EXCEPT ![p] = "work"]
  /\ failed' = [failed EXCEPT ![p] = call]
Goes(p, next) ==
  /\ pc' = [pc EXCEPT ![p] = next]
  /\ UNCHANGED failed

GetCwd(p) ==
  /\ pc[p] = "getcwd"
  /\ \/ Goes(p, "chdir") /\ saved' = [saved EXCEPT ![p] = dir[p]]
     \/ Fails(p, "getcwd") /\ UNCHANGED saved
  /\ UNCHANGED <<fp, offset, cwd, dir, should, reading>>

ChDir(p) ==
  /\ pc[p] = "chdir"
  /\ \/ cwd # Unknown /\ Goes(p, "fclose") /\ dir' = [dir EXCEPT ![p] = cwd]
     \/ Fails(p, "chdir") /\ UNCHANGED dir
  /\ UNCHANGED <<fp, offset, cwd, saved, should, reading>>

(* fclose gives the shared offset the position of the stream, or leaves it:*)
(* the library may do either.                                              *)
FClose(p) ==
  /\ pc[p] = "fclose" /\ Goes(p, "fopen")
  /\ fp' = [fp EXCEPT ![p] = Closed]
  /\ Moved(p)
  /\ UNCHANGED <<cwd, dir, saved, should, reading>>

\* A relative name is found in the directory of pst_open only.
FOpen(p) ==
  /\ pc[p] = "fopen"
  /\ \/ dir[p] = Start /\ Goes(p, "back") /\ Opened(p)
     \/ Fails(p, "fopen") /\ UNCHANGED <<fp, offset>>
  /\ UNCHANGED <<cwd, dir, saved, should, reading>>

\* Variant: the process stays where the file was opened.
BackNot(p) ==
  /\ pc[p] = "back" /\ Goes(p, "work")
  /\ UNCHANGED <<fp, offset, cwd, dir, saved, should, reading>>

Back(p) ==
  /\ pc[p] = "back"
  /\ \/ Goes(p, "work") /\ dir' = [dir EXCEPT ![p] = saved[p]]
     \/ Fails(p, "back") /\ UNCHANGED dir
  /\ saved' = [saved EXCEPT ![p] = Start]
  /\ UNCHANGED <<fp, offset, cwd, should, reading>>

(* exit, or pst_close by main(): every open stream is closed, with what    *)
(* that does to an offset that is shared.                                  *)
CloseAndExit(p) ==
  /\ pc[p] = "work"
  /\ pc' = [pc EXCEPT ![p] = "ended"]
  /\ fp' = [fp EXCEPT ![p] = Closed]
  /\ Moved(p)
  /\ dir' = [dir EXCEPT ![p] = Start] /\ should' = [should EXCEPT ![p] = Start]
  /\ UNCHANGED <<cwd, saved, failed, reading>>

HandleNext ==
  \/ Open
  \/ \E p \in Processes :
       \/ EnterDir(p) \/ Seek(p) \/ Read(p) \/ ForkReader(p) \/ CloseAndExit(p)
       \/ GetCwd(p) \/ ChDir(p) \/ FClose(p) \/ FOpen(p) \/ Back(p)

HandleSpec == HandleInit /\ [][HandleNext]_handleVars

-----------------------------------------------------------------------------
(* The offset is not shared for longer than that: a process that works and *)
(* has reopened the file is only disturbed by a child that is about to,    *)
(* or by one of its descendants that could not.                            *)
SharedBriefly ==
  \A p, q \in Processes :
    p # q /\ {pc[p], pc[q]} \subseteq {"work", "read"} /\ fp[p] = fp[q] /\ fp[p] # Closed
      => failed[p] \in {"getcwd", "chdir"} \/ failed[q] \in {"getcwd", "chdir"}

(* try_fork: the file is closed and reopened "to get an independent file   *)
(* position pointer".  A read gets the data of its own position, unless    *)
(* when it began a child had not closed its copy of the stream yet, or the *)
(* reader or another process was left with such a copy by a pst_reopen     *)
(* that failed before fclose: try_fork goes on after it.                   *)
ReadsRight == misread = {} /\ SharedBriefly

(* No process reads from, or closes, a stream that is closed, unless the   *)
(* file could not be opened again there or in the process it comes from.   *)
StreamOpen ==
  \A p \in Processes :
    pc[p] \in {"work", "read", "fclose"} /\ fp[p] = Closed
      => \E q \in 1 .. p : failed[q] = "fopen"

(* A process writes its output where its folders are, unless pst_reopen    *)
(* failed after its first chdir.  A child of a process that was lost       *)
(* starts from where that one is.                                          *)
DirectoryKept ==
  \A p \in Processes :
    pc[p] \in {"work", "read"} /\ dir[p] # should[p] => failed[p] \in {"fopen", "back"}

(* After a pst_reopen that nobody looked at a process may be without its   *)
(* file or in the wrong directory, and it is so in no other way.           *)
HandleKept == StreamOpen /\ DirectoryKept
=============================================================================
