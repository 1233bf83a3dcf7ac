----------------------------- MODULE MCForkPool -----------------------------
(***************************************************************************)
(* Instances of ForkPool: a small folder tree and its processes.           *)
(***************************************************************************)
EXTENDS ForkPool

\* Top holds the folders a, b and f; a holds c and d, b holds e.
MCJobs == {"top", "a", "b", "c", "d", "e", "f"}
MCKids == [j \in MCJobs |-> CASE j = "top" -> <<"a", "b", "f">>
                              [] j = "a"   -> <<"c", "d">>
                              [] j = "b"   -> <<"e">>
                              [] OTHER     -> <<>>]
MCProcs == 0 .. 5
=============================================================================
