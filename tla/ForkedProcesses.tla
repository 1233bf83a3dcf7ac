--------------------------- MODULE ForkedProcesses ---------------------------
(***************************************************************************)
(* The processes of a run of readpst: 1 is main(), each fork makes the     *)
(* next.                                                                   *)
(***************************************************************************)
EXTENDS Integers

CONSTANT MaxProcesses  \* bound on the processes of a run

ASSUME ProcessesAssumption == MaxProcesses \in Nat \ {0}

Processes == 1 .. MaxProcesses
=============================================================================
