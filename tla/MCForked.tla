------------------------------ MODULE MCForked ------------------------------
(* What the processes of readpst share besides the pool: the output lock    *)
(* with the streams of the log, the streams of the output files, and the    *)
(* position of the pst file.  A behaviour takes the steps of one of them.   *)
EXTENDS DebugLock, FileHandle, OutputBuffers

VARIABLE part

\* Four folders, nested and side by side, with items before, between and after
\* the folders they hold.
MCFolders == {"top", "inbox", "work", "sent"}
MCEntries == [top   |-> <<"t1", "inbox", "t2", "sent">>,
              inbox |-> <<"i1", "work", "i2">>,
              work  |-> <<"w1", "w2">>,
              sent  |-> <<"s1">>]

allVars == <<part, vars, outputVars, handleVars>>

MCInit ==
  /\ part \in {"log", "output", "handle"}
  /\ Init /\ OutputInit /\ HandleInit
  /\ part # "log" => debugging
  /\ part # "output" => separate
  /\ part # "handle" => offset[1] = 0

InLog(p) == part = "log" /\ Work(p) /\ UNCHANGED <<part, outputVars, handleVars>>
InLogKilled == part = "log" /\ (\E p \in Processes : Kill(p)) /\ UNCHANGED <<part, outputVars, handleVars>>
InOutput == part = "output" /\ OutputNext /\ UNCHANGED <<part, vars, handleVars>>
InHandle == part = "handle" /\ HandleNext /\ UNCHANGED <<part, vars, outputVars>>

MCNext == (\E p \in Processes : InLog(p)) \/ InLogKilled \/ InOutput \/ InHandle

\* The system schedules every process.
MCSpec == MCInit /\ [][MCNext]_allVars /\ \A p \in Processes : WF_allVars(InLog(p))

-----------------------------------------------------------------------------
(* All processes end, unless one was killed inside a message (DebugLock).  *)
LogEnds == part = "log" => AllEnd
=============================================================================
