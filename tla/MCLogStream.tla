----------------------------- MODULE MCLogStream ------------------------------
(* LogStream as TLC checks it; the bounds are in the configurations. *)
EXTENDS LogStream

===============================================================================
