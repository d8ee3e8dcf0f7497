------------------------------- MODULE MCServer -------------------------------
(***************************************************************************)
(* What the callers ask for when TLC checks Server: one whatever there is, *)
(* the other what has to do with the trail, and a stream.                  *)
(***************************************************************************)
EXTENDS Server

CONSTANTS c1, c2

Ask(p, op) == [NoReq EXCEPT !.path = p, !.op = op, !.header = "key"]
Api == <<"api", "v1">>

Write == Ask(Api, "write")
Run   == Ask(Api, "exec")
Misc == {Ask(Api, "mkdir"), Ask(Api, "follow"), [Write EXCEPT !.query = "old"],
         [Run EXCEPT !.query = "key", !.header = "old"],
         Ask(<<"healthz">>, "get"), Ask(<<"vnc">>, "get"),
         Ask(<<"">>, "get")}
Keyless == {[NoReq EXCEPT !.path = <<"vnc", f>>, !.op = "get"] : f \in {"", "vnc.html", "websockify"}}

Trail == {Write, Run, Ask(<<"mcp">>, "exec")}

SomeAsks == c1 :> Trail \cup Misc \cup Keyless @@ c2 :> Trail \cup {Ask(Api, "follow")}

===============================================================================
