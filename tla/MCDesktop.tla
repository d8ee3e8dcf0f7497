------------------------------- MODULE MCDesktop -------------------------------
(* Desktop with the bounds of its cfg: 5 and 6 tries, 2 seconds, 2 containers. *)
EXTENDS Desktop

===============================================================================
