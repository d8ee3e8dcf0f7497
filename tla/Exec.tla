--------------------------------- MODULE Exec ---------------------------------
(***************************************************************************)
(* internal/execapi: a command that is run while its caller waits, through *)
(* REST (POST /exec) or the MCP tool "exec", with the entry it leaves in   *)
(* the audit trail: REST records it before the run, MCP after a run that   *)
(* returned no error.                                                      *)
(*                                                                         *)
(* cmd.Run, external to this repository, is modelled as os/exec does it    *)
(* with a context and no WaitDelay: a goroutine watches the context and    *)
(* kills the leader alone; Run waits for the leader, then for what copies  *)
(* its output, and that ends when the last holder of the pipes is gone.    *)
(***************************************************************************)
EXTENDS Integers, Sequences

CONSTANTS
  Req,             \* the requests
  Durations,       \* how many values a time.Duration has (2^64)
  Second,          \* time.Second in the unit of a Duration (10^9)
  DefaultSecs,     \* the values that EXEC_TIMEOUT_SEC may have
  MaxSecs,         \* and those of EXEC_MAX_TIMEOUT_SEC
  Timeouts,        \* the values of timeout_sec that clients send
  MaxOutput,       \* bound: lines a command and its descendants write
  MaxRing, HasFile \* of the audit trail

ASSUME ExecAssumption ==
  /\ Durations \in Nat \ {0} /\ Second \in Nat \ {0}
  /\ DefaultSecs \subseteq Int /\ MaxSecs \subseteq Int
  /\ Timeouts \subseteq Int /\ MaxOutput \in Nat
  /\ MaxRing \in Nat \ {0} /\ HasFile \in BOOLEAN

VARIABLES
  now, step, at, ring, file, appended,  \* the audit trail
  conf,     \* the two timeouts of the configuration, in seconds
  via,      \* "REST" | "MCP"
  pc,       \* the next step of the handler and of Run
  timeout,  \* the timeout of the context, as a Duration
  ctx,      \* "live" | "DeadlineExceeded" | "Canceled": ctx.Err()
  cmd,      \* "none" | "running" | "zombie" | "reaped": the leader
  how,      \* "ok" | "fail" | "killed": how it ended
  heirs,    \* a descendant holds the write ends of the pipes
  output,   \* lines written to the pipes
  copied,   \* lines copied from there into the buffers of the result
  watch,    \* "off" | "watching" | "killed" | "late": the watching goroutine
  err,      \* "none" | "exit" | "Canceled" | "DeadlineExceeded" | "start"
  result    \* what the caller is answered

trailVars == <<now, step, at, ring, file, appended>>
osVars    == <<cmd, how, heirs, output>>
runVars   == <<timeout, ctx, copied, watch, err>>
vars == <<trailVars, conf, via, pc, osVars, runVars, result>>

Trail == INSTANCE Audit WITH Caller <- Req, boot <- 0   \* it is not restarted here

NoResult == [kind |-> "none", timedOut |-> FALSE, exit |-> "none"]

Init ==
  /\ Trail!AuditInit
  /\ conf \in [default : DefaultSecs, max : MaxSecs]
  /\ via = [r \in Req |-> "REST"] /\ pc = [r \in Req |-> "idle"]
  /\ timeout = [r \in Req |-> 0] /\ ctx = [r \in Req |-> "live"]
  /\ cmd = [r \in Req |-> "none"] /\ how = [r \in Req |-> "ok"]
  /\ heirs = [r \in Req |-> FALSE]
  /\ output = [r \in Req |-> 0] /\ copied = [r \in Req |-> 0]
  /\ watch = [r \in Req |-> "off"] /\ err = [r \in Req |-> "none"]
  /\ result = [r \in Req |-> NoResult]

Goto(r, l) == pc' = [pc EXCEPT ![r] = l]

-------------------------------------------------------------------------------
(* Arithmetic of Duration: two's complement *)

Wrap(n) == LET m == n % Durations IN IF 2 * m < Durations THEN m ELSE m - Durations

\* config.secs: an integer of seconds
Secs(n) == Wrap(n * Second)

\* (mutant) the cap counts only for a request that names no timeout
TimeoutUnclamped(secs) ==
  IF secs > 0 THEN Secs(secs)
  ELSE IF conf.max > 0 /\ conf.default > conf.max THEN Secs(conf.max) ELSE Secs(conf.default)

Timeout(secs) ==
  LET asked == IF secs > 0 THEN Secs(secs) ELSE Secs(conf.default)
      cap == Secs(conf.max)
  IN IF cap > 0 /\ asked > cap THEN cap ELSE asked

-------------------------------------------------------------------------------
(* The handlers *)

Arrive(r, v, secs) ==
  /\ pc[r] = "idle"
  /\ via' = [via EXCEPT ![r] = v]
  /\ timeout' = [timeout EXCEPT ![r] = Timeout(secs)]
  /\ Goto(r, IF v = "REST" THEN "record" ELSE "run")
  /\ UNCHANGED <<trailVars, conf, osVars, ctx, copied, watch, err, result>>

Answer(r, kind, timedOut, exit) ==
  result' = [result EXCEPT ![r] = [kind |-> kind, timedOut |-> timedOut, exit |-> exit]]

\* audit.Record, in the two steps of the recorder
Record(r) ==
  /\ pc[r] = "record"
  /\ \/ Trail!Stamp(r) /\ UNCHANGED pc
     \/ Trail!AppendEntry(r) /\ Goto(r, IF via[r] = "REST" THEN "run" ELSE "answered")
  /\ UNCHANGED <<conf, via, osVars, runVars, result>>

-------------------------------------------------------------------------------
(* Run *)

\* (mutant) the command is started and not waited for
BeginOnly(r) ==
  /\ pc[r] = "run"
  /\ cmd' = [cmd EXCEPT ![r] = "running"]
  /\ Goto(r, "check")
  /\ UNCHANGED <<trailVars, conf, via, how, heirs, output, runVars, result>>

\* WithTimeout and cmd.Start.  A context that is done, or runs out at once,
\* starts nothing; nor does an empty or unknown command.
Begin(r) ==
  /\ pc[r] = "run"
  /\ LET done == IF ctx[r] = "live" /\ timeout[r] <= 0
                   THEN "DeadlineExceeded" ELSE ctx[r]
     IN /\ ctx' = [ctx EXCEPT ![r] = done]
        /\ \/ /\ done = "live"
              /\ cmd' = [cmd EXCEPT ![r] = "running"]
              /\ watch' = [watch EXCEPT ![r] = "watching"]
              /\ Goto(r, "wait")
              /\ UNCHANGED err
           \/ /\ err' = [err EXCEPT ![r] = IF done = "live" THEN "start" ELSE done]
              /\ Goto(r, "check")
              /\ UNCHANGED <<cmd, watch>>
  /\ UNCHANGED <<trailVars, conf, via, how, heirs, output, timeout, copied, result>>

\* cmd.Wait: the leader is reaped, then the watching goroutine tells what it did
Reap(r) ==
  /\ pc[r] = "wait" /\ cmd[r] = "zombie"
  /\ cmd' = [cmd EXCEPT ![r] = "reaped"]
  /\ Goto(r, "collect")
  /\ UNCHANGED <<trailVars, conf, via, how, heirs, output, runVars, result>>

Collect(r) ==
  /\ pc[r] = "collect"
  /\ watch' = [watch EXCEPT ![r] = "off"]
  /\ err' = [err EXCEPT ![r] =
               CASE how[r] # "ok" -> "exit"
                 [] how[r] = "ok" /\ watch[r] = "killed" -> ctx[r]
                 [] OTHER -> "none"]
  /\ Goto(r, "copy")
  /\ UNCHANGED <<trailVars, conf, via, osVars, timeout, ctx, copied, result>>

\* (mutant) Run does not wait for the copying of the output
RunReturnsEarly(r) ==
  /\ pc[r] = "copy"
  /\ Goto(r, "check")
  /\ UNCHANGED <<trailVars, conf, via, osVars, runVars, result>>

\* the copying goroutines have met the end of both pipes: cmd.Run returns
RunReturns(r) ==
  /\ pc[r] = "copy" /\ ~heirs[r] /\ copied[r] = output[r]
  /\ Goto(r, "check")
  /\ UNCHANGED <<trailVars, conf, via, osVars, runVars, result>>

\* (mutant) a deadline counts only when the command gave an error of its own
CheckErrFirst(r) ==
  /\ pc[r] = "check"
  /\ Answer(r, IF err[r] \in {"none", "exit"} THEN "result" ELSE "error", FALSE,
            IF err[r] = "exit" THEN how[r] ELSE "ok")
  /\ Goto(r, IF via[r] = "MCP" /\ err[r] \in {"none", "exit"} THEN "record" ELSE "answered")
  /\ UNCHANGED <<trailVars, conf, via, osVars, runVars>>

\* what Run and then the handler make of ctx.Err() and err
Check(r) ==
  /\ pc[r] = "check"
  /\ \/ /\ ctx[r] = "DeadlineExceeded"
        /\ Answer(r, "result", TRUE, "none")
     \/ /\ ctx[r] # "DeadlineExceeded" /\ err[r] = "exit"
        /\ Answer(r, "result", FALSE, how[r])
     \/ /\ ctx[r] # "DeadlineExceeded" /\ err[r] = "none"
        /\ Answer(r, "result", FALSE, "ok")
     \/ /\ ctx[r] # "DeadlineExceeded" /\ err[r] \notin {"exit", "none"}
        /\ Answer(r, "error", FALSE, "none")
  /\ Goto(r, IF via[r] = "MCP" /\ result'[r].kind = "result" THEN "record" ELSE "answered")
  /\ UNCHANGED <<trailVars, conf, via, osVars, runVars>>

-------------------------------------------------------------------------------
(* What goes on beside Run: the context, its watching goroutine, the       *)
(* copying of the output, the command and its descendants.                 *)

InRun(r) == pc[r] \in {"wait", "collect", "copy", "check"}

Deadline(r) ==
  /\ InRun(r) /\ ctx[r] = "live"
  /\ ctx' = [ctx EXCEPT ![r] = "DeadlineExceeded"]
  /\ UNCHANGED <<trailVars, conf, via, pc, osVars, timeout, copied, watch, err, result>>

\* the client goes away: the context of the request is canceled
Disconnect(r) ==
  /\ \/ InRun(r)
     \/ pc[r] \in {"record", "run"} /\ result[r].kind = "none"
  /\ ctx[r] = "live"
  /\ ctx' = [ctx EXCEPT ![r] = "Canceled"]
  /\ UNCHANGED <<trailVars, conf, via, pc, osVars, timeout, copied, watch, err, result>>

\* (mutant) the command is not bound to the context
WatchNothing(r) ==
  /\ watch[r] = "watching" /\ cmd[r] = "reaped"
  /\ watch' = [watch EXCEPT ![r] = "late"]
  /\ UNCHANGED <<trailVars, conf, via, pc, osVars, timeout, ctx, copied, err, result>>

\* Kill finds a leader, be it a zombie, until Wait has reaped it
Watch(r) ==
  /\ watch[r] = "watching" /\ ctx[r] # "live"
  /\ watch' = [watch EXCEPT ![r] = IF cmd[r] = "reaped" THEN "late" ELSE "killed"]
  /\ UNCHANGED <<trailVars, conf, via, pc, osVars, timeout, ctx, copied, err, result>>

\* (mutant) a buffer of one line that nobody empties
CopyOneLine(r) ==
  /\ InRun(r) /\ copied[r] < output[r] /\ copied[r] = 0
  /\ copied' = [copied EXCEPT ![r] = @ + 1]
  /\ UNCHANGED <<trailVars, conf, via, pc, osVars, timeout, ctx, watch, err, result>>

\* (mutant) the end of the pipe is not noticed
CopyPastEnd(r) ==
  /\ InRun(r) /\ copied[r] <= output[r]
  /\ copied' = [copied EXCEPT ![r] = @ + 1]
  /\ UNCHANGED <<trailVars, conf, via, pc, osVars, timeout, ctx, watch, err, result>>

Copy(r) ==
  /\ InRun(r) /\ copied[r] < output[r]
  /\ copied' = [copied EXCEPT ![r] = @ + 1]
  /\ UNCHANGED <<trailVars, conf, via, pc, osVars, timeout, ctx, watch, err, result>>

Write(r) ==
  /\ cmd[r] = "running" \/ heirs[r]
  /\ InRun(r) /\ output[r] < MaxOutput
  /\ output' = [output EXCEPT ![r] = @ + 1]
  /\ UNCHANGED <<trailVars, conf, via, pc, cmd, how, heirs, runVars, result>>

Spawn(r) ==
  /\ cmd[r] = "running" /\ ~heirs[r]
  /\ heirs' = [heirs EXCEPT ![r] = TRUE]
  /\ UNCHANGED <<trailVars, conf, via, pc, cmd, how, output, runVars, result>>

HeirsExit(r) ==
  /\ heirs[r]
  /\ heirs' = [heirs EXCEPT ![r] = FALSE]
  /\ UNCHANGED <<trailVars, conf, via, pc, cmd, how, output, runVars, result>>

\* SIGKILL cannot be ignored, but may come too late to matter
Exit(r, h) ==
  /\ cmd[r] = "running"
  /\ h = "killed" => watch[r] = "killed"
  /\ cmd' = [cmd EXCEPT ![r] = "zombie"]
  /\ how' = [how EXCEPT ![r] = h]
  /\ UNCHANGED <<trailVars, conf, via, pc, heirs, output, runVars, result>>

-------------------------------------------------------------------------------
Serve(r) == Record(r) \/ Begin(r) \/ Reap(r) \/ Collect(r) \/ RunReturns(r) \/ Check(r)

Next == \E r \in Req :
  \/ \E v \in {"REST", "MCP"}, secs \in Timeouts : Arrive(r, v, secs)
  \/ Serve(r)
  \/ Deadline(r) \/ Disconnect(r) \/ Watch(r) \/ Copy(r)
  \/ Write(r) \/ Spawn(r) \/ HeirsExit(r)
  \/ \E h \in {"ok", "fail", "killed"} : Exit(r, h)

Spec == Init /\ [][Next]_vars

(***************************************************************************)
(* Goroutines that can run do, a timer that is set fires, and a process    *)
(* that was sent SIGKILL ends.  A command may run for ever otherwise, and  *)
(* so may its descendants.                                                 *)
(***************************************************************************)
FairSpec == Spec /\ \A r \in Req :
  /\ WF_vars(Serve(r)) /\ WF_vars(Watch(r)) /\ WF_vars(Copy(r))
  /\ WF_vars(Deadline(r)) /\ WF_vars(Exit(r, "killed"))

-------------------------------------------------------------------------------
(* Properties *)

TypeOK ==
  /\ Trail!AuditTypeOK
  /\ conf \in [default : DefaultSecs, max : MaxSecs]
  /\ via \in [Req -> {"REST", "MCP"}]
  /\ pc \in [Req -> {"idle", "record", "run", "wait", "collect", "copy", "check", "answered"}]
  /\ timeout \in [Req -> Int]
  /\ ctx \in [Req -> {"live", "DeadlineExceeded", "Canceled"}]
  /\ cmd \in [Req -> {"none", "running", "zombie", "reaped"}]
  /\ how \in [Req -> {"ok", "fail", "killed"}]
  /\ heirs \in [Req -> BOOLEAN]
  /\ output \in [Req -> 0 .. MaxOutput] /\ copied \in [Req -> 0 .. MaxOutput]
  /\ watch \in [Req -> {"off", "watching", "killed", "late"}]
  /\ err \in [Req -> {"none", "exit", "Canceled", "DeadlineExceeded", "start"}]
  /\ result \in [Req -> [kind : {"none", "result", "error"}, timedOut : BOOLEAN,
                         exit : {"none", "ok", "fail", "killed"}]]

\* README: EXEC_MAX_TIMEOUT_SEC is a "hard cap" on the timeout.  Whatever a
\* client asks for, whatever the default is and however the products wrap, no
\* timeout exceeds it, as long as the cap itself is a Duration.
TimeoutIsCapped ==
  \A r \in Req : conf.max > 0 /\ Secs(conf.max) = conf.max * Second =>
                 timeout[r] <= conf.max * Second

\* A result that is not marked as timed out tells how the command ended by
\* itself: what Run killed is not passed off as the command's own exit, unless
\* it was the caller who gave up.
KillIsReported ==
  \A r \in Req :
    result[r].exit = "killed" => ctx[r] = "Canceled" /\ ~result[r].timedOut

\* A result that is not timed out has all of the output, including what was
\* still in the pipes when the command ended (unlike a background process).
ResultHasAllOutput ==
  \A r \in Req : result[r].kind = "result" => copied[r] = output[r]

\* When a request has its answer, no process of its own is left unreaped and
\* nothing watches its context any more.
NothingLeftBehind ==
  \A r \in Req : result[r].kind # "none" =>
    cmd[r] \in {"none", "reaped"} /\ watch[r] = "off"

\* No command outlives its deadline, or the request that started it.
LeaderIsBounded ==
  \A r \in Req : cmd[r] = "running" ~> cmd[r] = "reaped"

\* A request is answered, unless a descendant of its command keeps the pipes.
RunEndsOrPipesAreHeld ==
  \A r \in Req : InRun(r) ~> (pc[r] \in {"record", "answered"} \/ heirs[r])

-------------------------------------------------------------------------------
(* What the repository says and the code does not do *)

\* README: "Timeout-bounded"; openapi.json: "(synchronous, timeout-bounded)".
\* Every request to run a command is answered.
RunIsBounded == \A r \in Req : InRun(r) ~> ~InRun(r)

===============================================================================
