------------------------------- MODULE MCBrowse -------------------------------
(***************************************************************************)
(* A root of one name and one of two, whose names also occur below it.     *)
(***************************************************************************)
EXTENDS Browse

DeepRoots == {<<"a">>, <<"opt", "a">>}

===============================================================================
