-------------------------------- MODULE Server --------------------------------
(***************************************************************************)
(* cmd/api: the server as a whole.  A request comes through the middleware *)
(* (Recover, then Logging, then APIKey) and the mux to a REST handler, an  *)
(* MCP tool, a stream of a log or the proxy in front of noVNC; handlers    *)
(* call a service and, some of them, the audit recorder.  main waits for a *)
(* signal and then shuts the server down; it may also be killed at any     *)
(* time, and is started again.                                             *)
(*                                                                         *)
(* What a service does is the business of FsApi, ProcManager, LogStream    *)
(* and Exec; here it takes effect or not.  The access log is left out.     *)
(***************************************************************************)
EXTENDS Audit, SequencesExt

CONSTANTS
  Asks,     \* [Caller -> the requests it may send]: records of path, op, query, header
  HasKey,   \* API_KEY is set
  MaxBoots  \* bound: how often the server is started

VARIABLES
  main,       \* "serving" | "stopping" | "closing" | "leaving" | "exited"
  exit,       \* how Shutdown returned: "none" | "drained" | "late"
  boots,      \* how often it was started
  req,        \* the request of each caller
  pc,         \* where it is
  answer,     \* what its caller was sent: "none" | "ok" | "moved" | "error"
  done,       \* the service has had an effect
  before,     \* (history) the callers whose success was to be in the trail when it came
  unwritten   \* (history) the entries whose write to the file failed

reqVars == <<req, before>>
mainVars == <<main, exit, boots>>
vars == <<auditVars, mainVars, reqVars, pc, answer, done, unwritten>>

NoReq == [path |-> <<"">>, op |-> "none", query |-> "", header |-> ""]

Init ==
  /\ AuditInit
  /\ main = "serving" /\ exit = "none" /\ boots = 1
  /\ req = [c \in Caller |-> NoReq] /\ pc = [c \in Caller |-> "idle"]
  /\ answer = [c \in Caller |-> "none"] /\ done = [c \in Caller |-> FALSE]
  /\ before = [c \in Caller |-> {}] /\ unwritten = {}

Goto(c, l) == pc' = [pc EXCEPT ![c] = l]
Send(c, s) == answer' = [answer EXCEPT ![c] = s]
Reply(c, s) == Send(c, s) /\ Goto(c, "answered")

-------------------------------------------------------------------------------
(* The middleware and the mux.  A path is what stands between its slashes: *)
(* "/vnc/" is <<"vnc", "">>.                                                *)

Public == {<<"healthz">>, <<"docs">>, <<"openapi.json">>}
AllowList == Public \cup {<<"vnc", "">>}

\* an entry that ends in a slash allows everything below it
Allowed(p) == \E a \in AllowList :
  p = a \/ (Last(a) = "" /\ Len(p) >= Len(a) /\ IsPrefix(Front(a), p))

\* the key in the query goes before the one in the header
Given(r) == IF r.query # "" THEN r.query ELSE r.header

Passes(r) == ~HasKey \/ Allowed(r.path) \/ Given(r) = "key"

Route(p) ==
  IF p \in Public THEN "public"
  ELSE IF p = <<"vnc">> THEN "moved"
  ELSE IF p[1] \in {"api", "mcp", "vnc"} THEN p[1] ELSE "unknown"

Via(c) == Route(req[c].path)

\* when a handler or a tool records: REST runs a command that is in the trail already; no
\* other entry is made for what has failed.  mkdir, copy, chmod, upload, the end of
\* a process and its removal are not recorded, nor is what only reads.
When(c) ==
  IF Via(c) \notin {"api", "mcp"} THEN "never"
  ELSE IF Via(c) = "api" /\ req[c].op = "exec" THEN "before"
  ELSE IF req[c].op \in {"write", "delete", "move", "patch", "procStart", "exec"} THEN "after"
  ELSE "never"

\* (mutant) what is to be recorded is recorded when it is asked for
EntryRecorded(c) ==
  IF Via(c) \notin {"api", "mcp"} THEN Via(c)
  ELSE IF req[c].op = "follow" THEN "follow"
  ELSE IF When(c) # "never" THEN "record" ELSE "act"

\* where a request goes that passes the key, the mux and the decoding of its body
Entry(c) ==
  IF Via(c) \notin {"api", "mcp"} THEN Via(c)
  ELSE IF req[c].op = "follow" THEN "follow"
  ELSE IF When(c) = "before" THEN "record" ELSE "act"

\* A connection that is open when Shutdown begins, and one that it has given up on,
\* may still send its request.  Up to the handler nothing is touched that others
\* see: all of that is one step.
Arrive(c, r) ==
  /\ main \in {"serving", "stopping"} \/ (main # "exited" /\ exit = "late")
  /\ pc[c] = "idle" /\ r \in Asks[c]
  /\ req' = [req EXCEPT ![c] = r]
  /\ before' = [before EXCEPT ![c] = {d \in Caller : answer[d] = "ok" /\ When(d) # "never"}]
  /\ \/ Passes(r) /\ Goto(c, Entry(c)') /\ UNCHANGED answer
     \/ ~Passes(r) /\ Reply(c, "error")
     \/ Passes(r) /\ Route(r.path) \in {"api", "mcp"} /\ Reply(c, "error")
  /\ UNCHANGED <<auditVars, mainVars, done, unwritten>>

\* Recover: http.Error, which is no answer any more if one was begun
Recover(c) ==
  /\ pc[c] = "panic"
  /\ Reply(c, IF answer[c] = "none" THEN "error" ELSE answer[c])
  /\ UNCHANGED <<auditVars, mainVars, reqVars, done, unwritten>>

-------------------------------------------------------------------------------
(* The handlers ("api") and the tools ("mcp") *)

\* (mutants) a tool that forgets the recorder; a handler that answers first
ActForgetful(c) ==
  /\ pc[c] = "act"
  /\ done' = [done EXCEPT ![c] = TRUE]
  /\ IF When(c) = "after" /\ Via(c) = "api" THEN Goto(c, "record") /\ UNCHANGED answer ELSE Reply(c, "ok")
  /\ UNCHANGED <<auditVars, mainVars, reqVars, unwritten>>

ActAnswering(c) ==
  /\ pc[c] = "act"
  /\ done' = [done EXCEPT ![c] = TRUE]
  /\ Send(c, "ok") /\ Goto(c, IF When(c) = "after" THEN "record" ELSE "answered")
  /\ UNCHANGED <<auditVars, mainVars, reqVars, unwritten>>

\* The service succeeds, fails (and may have done some of it), or panics.
Act(c) ==
  /\ pc[c] = "act"
  /\ \/ /\ done' = [done EXCEPT ![c] = TRUE]
        /\ IF When(c) = "after" THEN Goto(c, "record") /\ UNCHANGED answer ELSE Reply(c, "ok")
     \/ /\ \E b \in BOOLEAN : done' = [done EXCEPT ![c] = b]
        /\ \/ Reply(c, "error")
           \/ Via(c) = "api" /\ Goto(c, "panic") /\ UNCHANGED answer
  /\ UNCHANGED <<auditVars, mainVars, reqVars, unwritten>>

\* audit.Record, in its two steps.  Nothing is written to a file that is closed.
Record(c) ==
  /\ pc[c] = "record"
  /\ \/ Stamp(c) /\ UNCHANGED <<pc, unwritten>>
     \/ /\ AppendEntry(c)
        /\ main = "leaving" => file' = file
        /\ unwritten' = IF file' = file THEN unwritten \cup {c} ELSE unwritten
        /\ Goto(c, IF When(c) = "before" THEN "act" ELSE "reply")
  /\ UNCHANGED <<mainVars, reqVars, answer, done>>

WriteJSON(c) ==
  /\ \/ pc[c] \in {"reply", "public"} /\ Reply(c, "ok")
     \/ pc[c] = "moved" /\ Reply(c, "moved")
     \/ pc[c] = "unknown" /\ Reply(c, "error")
  /\ UNCHANGED <<auditVars, mainVars, reqVars, done, unwritten>>

\* the log of a process as a stream: answered at once, ended by the process or the
\* client, if at all
Follow(c) ==
  /\ pc[c] = "follow"
  /\ \/ Reply(c, "error")
     \/ Send(c, "ok") /\ Goto(c, "streaming")
  /\ UNCHANGED <<auditVars, mainVars, reqVars, done, unwritten>>

\* The end of a stream, or of a websocket, which net/http has given away.
End(c) ==
  /\ pc[c] \in {"streaming", "tunnel"}
  /\ Goto(c, "answered")
  /\ UNCHANGED <<auditVars, mainVars, reqVars, answer, done, unwritten>>

\* "/vnc/" itself leads to the viewer.  All else goes to websockify, which may be
\* down, answer, take the connection over, or die while it answers.
Proxy(c) ==
  /\ pc[c] = "vnc"
  /\ LET p == req[c].path
     IN IF p = <<"vnc", "">> THEN Reply(c, "moved")
        ELSE \/ \E s \in {"ok", "error"} : Reply(c, s)
             \/ Send(c, "ok") /\ Goto(c, IF Last(p) = "websockify" THEN "tunnel" ELSE "panic")
  /\ UNCHANGED <<auditVars, mainVars, reqVars, done, unwritten>>

-------------------------------------------------------------------------------
(* main *)

Over == {"idle", "answered", "lost"}
InFlight == {c \in Caller : pc[c] \notin Over \cup {"tunnel"}}

Signal ==
  /\ main = "serving" /\ main' = "stopping"
  /\ UNCHANGED <<auditVars, exit, boots, reqVars, pc, answer, done, unwritten>>

ShutdownReturns(how) ==
  /\ main = "stopping" /\ main' = "closing" /\ exit' = how
  /\ UNCHANGED <<auditVars, boots, reqVars, pc, answer, done, unwritten>>

\* (mutants) Close in the place of Shutdown; Shutdown without a deadline
DrainedAtOnce == ShutdownReturns("drained")
LateNever == InFlight = {} /\ ShutdownReturns("late")

Drained == InFlight = {} /\ ShutdownReturns("drained")
Late == ShutdownReturns("late")

\* the deferred call; handlers that are still running go on meanwhile
CloseTrail ==
  /\ main = "closing" /\ main' = "leaving"
  /\ UNCHANGED <<auditVars, exit, boots, reqVars, pc, answer, done, unwritten>>

Die ==
  /\ main' = "exited"
  /\ pc' = [c \in Caller |-> IF pc[c] \in Over THEN pc[c] ELSE "lost"]
  /\ UNCHANGED <<auditVars, exit, boots, reqVars, answer, done, unwritten>>

Exit == main = "leaving" /\ Die

\* SIGKILL, or a fatal error
Crash == main # "exited" /\ Die

Start ==
  /\ main = "exited" /\ boots < MaxBoots
  /\ main' = "serving" /\ exit' = "none" /\ boots' = boots + 1
  /\ Restart
  /\ UNCHANGED <<reqVars, pc, answer, done, unwritten>>

-------------------------------------------------------------------------------
Serve(c) ==
  \/ Recover(c) \/ Act(c) \/ Record(c)
  \/ WriteJSON(c) \/ Follow(c) \/ End(c) \/ Proxy(c)

Shutdown == Drained \/ Late \/ CloseTrail \/ Exit

Next ==
  \/ \E c \in Caller : Serve(c) \/ \E r \in Asks[c] : Arrive(c, r)
  \/ Signal \/ Shutdown \/ Crash \/ Start

Spec == Init /\ [][Next]_vars

(***************************************************************************)
(* main goes on, and the timer of Shutdown fires.  Handlers need not end.  *)
(***************************************************************************)
FairSpec == Spec /\ WF_vars(Shutdown)

-------------------------------------------------------------------------------
(* Properties *)

InTrail(c) == \E i \in 1 .. Len(appended) : appended[i] = c

\* The trail tells of what was done, and of nothing else but commands that are about
\* to run, or were; and over REST no command runs that is not in the trail, so that
\* one that hangs or takes the server down with it can be found there.
TrailTellsWhatRan ==
  \A c \in Caller : /\ InTrail(c) => done[c] \/ When(c) = "before"
                    /\ When(c) = "before" /\ done[c] => InTrail(c)

\* Who was told of a success has an entry, whatever happens to the server then.
AnsweredIsInTrail ==
  \A c \in Caller : answer[c] = "ok" /\ When(c) # "never" => InTrail(c)

\* The trail has causes before effects: what was answered before another request
\* came stands before it, with a time that is not later.
PlaceOf(c) == CHOOSE i \in 1 .. Len(appended) : appended[i] = c

TrailFollowsAnswers ==
  \A c \in Caller : \A d \in before[c] :
    InTrail(c) => InTrail(d) /\ PlaceOf(d) < PlaceOf(c) /\ at[d] <= at[c]

\* Ring and file tell the same story, over restarts: the file has all entries, each
\* once and in the order in which the ring got them, less those whose write failed.
FileKeepsTrail ==
  HasFile =>
    /\ \A c \in Caller :
         (\E i \in 1 .. Len(file) : file[i] = c) <=> InTrail(c) /\ c \notin unwritten
    /\ \A i, j \in 1 .. Len(file) : i < j => PlaceOf(file[i]) < PlaceOf(file[j])

\* An exit that Shutdown did not cut short leaves no request unanswered.
DrainedIsAnswered ==
  [][main' = "exited" /\ exit = "drained" => InFlight = {}]_vars

\* A signal ends the server, although streams may never end.
StopsInTime == main = "stopping" ~> main = "exited"

===============================================================================
