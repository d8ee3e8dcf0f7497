---------------------------- MODULE MCProcManager -----------------------------
(* Bounds and symmetry under which TLC checks ProcManager. *)
EXTENDS ProcManager, TLC

\* No action tells two requests, processes or process ids apart (Deaf is empty
\* in the configurations that use this).
Symmetry == Permutations(Req) \union Permutations(Proc) \union Permutations(Pid)

===============================================================================
