-------------------------------- MODULE MCExec --------------------------------
(***************************************************************************)
(* Bounds under which TLC checks Exec.  A Duration of 6 bits with 4 units  *)
(* to the second holds timeouts up to 7 s; the cap is 4 s, or none, or     *)
(* turns negative; the default is below it, above it, or negative itself.  *)
(***************************************************************************)
EXTENDS Exec, TLC

\* None, one below the cap, one above it, the first that a Duration of 6 bits
\* cannot hold, and one whose product wraps to zero.
SomeTimeouts == {-1, 1, 7, 8, 16}

SomeDefaults == {2, 5, -1}
SomeCaps     == {4, 0, 8}

===============================================================================
