------------------------------ MODULE ExecProofs -------------------------------
(***************************************************************************)
(* Theorems about Exec, for any number of requests, any timeouts asked for *)
(* or configured and any width of a Duration.  Fairness is not needed:     *)
(* each theorem is about Spec.                                             *)
(***************************************************************************)
EXTENDS Exec, TLAPS

-------------------------------------------------------------------------------
(* The timeout of a run *)

LEMMA SecsIsInt == ASSUME NEW n \in Int PROVE Secs(n) \in Int
<1>1. n * Second \in Int  BY ExecAssumption
<1>. DEFINE k == n * Second
<1>2. k % Durations \in Int  BY <1>1, ExecAssumption
<1>. QED  BY <1>1, <1>2, ExecAssumption DEF Secs, Wrap

\* The cap holds for what is asked for and for the default, as long as it is a
\* Duration itself.
LEMMA TimeoutIsBelowCap ==
  ASSUME NEW secs \in Int, conf \in [default : DefaultSecs, max : MaxSecs]
  PROVE  /\ Timeout(secs) \in Int
         /\ conf.max > 0 /\ Secs(conf.max) = conf.max * Second => Timeout(secs) <= conf.max * Second
<1>1. conf.default \in Int /\ conf.max \in Int  BY ExecAssumption
<1>2. Secs(secs) \in Int /\ Secs(conf.default) \in Int /\ Secs(conf.max) \in Int
  BY <1>1, SecsIsInt
<1>3. conf.max > 0 => conf.max * Second > 0  BY <1>1, ExecAssumption
<1>. QED  BY <1>1, <1>2, <1>3 DEF Timeout

-------------------------------------------------------------------------------
(* Types *)

\* What TypeOK says of everything but the trail.
RunTypeOK ==
  /\ conf \in [default : DefaultSecs, max : MaxSecs]
  /\ via \in [Req -> {"REST", "MCP"}]
  /\ pc \in [Req -> {"idle", "record", "run", "wait", "collect", "copy", "check", "answered"}]
  /\ timeout \in [Req -> Int]
  /\ ctx \in [Req -> {"live", "DeadlineExceeded", "Canceled"}]
  /\ cmd \in [Req -> {"none", "running", "zombie", "reaped"}]
  /\ how \in [Req -> {"ok", "fail", "killed"}]
  /\ heirs \in [Req -> BOOLEAN]
  /\ output \in [Req -> 0 .. MaxOutput] /\ copied \in [Req -> 0 .. MaxOutput]
  /\ watch \in [Req -> {"off", "watching", "killed", "late"}]
  /\ err \in [Req -> {"none", "exit", "Canceled", "DeadlineExceeded", "start"}]
  /\ result \in [Req -> [kind : {"none", "result", "error"}, timedOut : BOOLEAN,
                         exit : {"none", "ok", "fail", "killed"}]]

\* A run that has not begun, one that goes on, and one that is over.
Fresh(r) ==
  cmd[r] = "none" /\ watch[r] = "off" /\ ~heirs[r] /\ output[r] = 0 /\ copied[r] = 0
Over(r) ==
  cmd[r] \in {"none", "reaped"} /\ watch[r] = "off" /\ ~heirs[r] /\ copied[r] = output[r]

\* What the place of a request says about its command, its output and its result.
RunOK(r) ==
  /\ result[r].kind = "none" => result[r] = NoResult
  /\ result[r].kind # "none" => pc[r] \in {"record", "answered"} /\ Over(r)
  /\ pc[r] \in {"idle", "run"} => Fresh(r) /\ result[r].kind = "none"
  /\ pc[r] = "record" => IF via[r] = "REST" THEN Fresh(r) /\ result[r].kind = "none"
                         ELSE result[r].kind = "result"
  /\ pc[r] = "wait" => cmd[r] \in {"running", "zombie"}
  /\ pc[r] \in {"collect", "copy"} => cmd[r] = "reaped"
  /\ pc[r] = "copy" => watch[r] = "off"
  /\ pc[r] = "check" => Over(r)
  /\ pc[r] = "answered" => Over(r)
  /\ watch[r] = "killed" => ctx[r] # "live"
  /\ how[r] = "killed" => ctx[r] # "live"
  /\ result[r].exit = "killed" => ctx[r] = "Canceled" /\ ~result[r].timedOut

\* No timeout is above a cap that is a Duration.
CapOK(r) == conf.max > 0 /\ Secs(conf.max) = conf.max * Second => timeout[r] <= conf.max * Second

ExecInv == TypeOK /\ \A r \in Req : RunOK(r) /\ CapOK(r)

LEMMA TypeParts == TypeOK <=> Trail!AuditTypeOK /\ RunTypeOK
BY DEF TypeOK, RunTypeOK

\* The recorder keeps its types.
LEMMA RecordKeepsTypes ==
  ASSUME Trail!AuditTypeOK, NEW r \in Req, Trail!Stamp(r) \/ Trail!AppendEntry(r)
  PROVE  Trail!AuditTypeOK'
<1>. USE ExecAssumption DEF Trail!AuditTypeOK
<1>1. CASE Trail!Stamp(r)  BY <1>1 DEF Trail!Stamp
<1>2. CASE Trail!AppendEntry(r)
  <2>1. file' = Append(file, r) \/ file' = file  BY <1>2, Zenon DEF Trail!AppendEntry
  <2>2. file' \in Seq(Req)
    <3>1. file \in Seq(Req)  OBVIOUS
    <3>2. Append(file, r) \in Seq(Req)  BY <3>1
    <3>. QED  BY <2>1, <3>1, <3>2
  <2>3. appended' = Append(appended, r) /\ ring' = Trail!Cap(Append(ring, r))
        /\ now' = now /\ at' = at /\ step' = [step EXCEPT ![r] = "recorded"]
    BY <1>2 DEF Trail!AppendEntry
  <2>. DEFINE es == Append(ring, r)
  <2>4. es \in Seq(Req) /\ Len(es) = Len(ring) + 1 /\ \A i \in 1 .. Len(es) : es[i] \in Req
    BY SMTT(40)
  <2>5. Trail!Cap(es) \in Seq(Req) /\ Len(Trail!Cap(es)) <= MaxRing
    <3>. HIDE DEF es
    <3>1. CASE Len(es) > MaxRing
      <4>1. Trail!Cap(es) = SubSeq(es, Len(es) - MaxRing + 1, Len(es))  BY <3>1 DEF Trail!Cap
      <4>. QED  BY <2>4, <3>1, <4>1
    <3>2. CASE ~ (Len(es) > MaxRing)  BY <2>4, <3>2 DEF Trail!Cap
    <3>. QED  BY <3>1, <3>2
  <2>. QED  BY <2>2, <2>3, <2>5
<1>. QED  BY <1>1, <1>2

-------------------------------------------------------------------------------
(* The invariant *)

LEMMA ExecInitInv == Init => ExecInv
<1>. SUFFICES ASSUME Init PROVE ExecInv  OBVIOUS
<1>. USE ExecAssumption DEF Init
<1>1. Trail!AuditTypeOK  BY DEF Trail!AuditTypeOK, Trail!AuditInit
<1>2. RunTypeOK  BY DEF RunTypeOK, NoResult
<1>3. ASSUME NEW r \in Req PROVE RunOK(r) /\ CapOK(r)
  <2>1. RunOK(r)  BY DEF RunOK, Fresh, NoResult
  <2>2. conf.max > 0 => 0 <= conf.max * Second
    <3>1. conf.max \in Int  OBVIOUS
    <3>. QED  BY <3>1
  <2>. QED  BY <2>1, <2>2 DEF CapOK
<1>. QED  BY <1>1, <1>2, <1>3, TypeParts DEF ExecInv

\* A request that nothing happens to stays as it is.
LEMMA OthersStay ==
  ASSUME NEW d \in Req, RunOK(d), CapOK(d), conf' = conf,
         via'[d] = via[d], pc'[d] = pc[d], timeout'[d] = timeout[d], ctx'[d] = ctx[d],
         cmd'[d] = cmd[d], how'[d] = how[d], heirs'[d] = heirs[d], output'[d] = output[d],
         copied'[d] = copied[d], watch'[d] = watch[d], result'[d] = result[d]
  PROVE  RunOK(d)' /\ CapOK(d)'
<1>1. RunOK(d)'  BY DEF RunOK, Fresh, Over
<1>2. CapOK(d)'  BY DEF CapOK, Secs, Wrap
<1>. QED  BY <1>1, <1>2

\* The types are kept, step by step.
LEMMA TypeStep ==
  ASSUME ExecInv, [Next]_vars PROVE TypeOK'
<1>1. Trail!AuditTypeOK /\ RunTypeOK  BY TypeParts DEF ExecInv
<1>2. CASE UNCHANGED vars
  BY <1>1, <1>2, TypeParts DEF vars, trailVars, osVars, runVars, RunTypeOK, Trail!AuditTypeOK, TypeOK
<1>3. ASSUME NEW r \in Req, NEW v \in {"REST", "MCP"}, NEW secs \in Timeouts, Arrive(r, v, secs)
      PROVE TypeOK'
  <2>1. secs \in Int  BY ExecAssumption
  <2>2. Timeout(secs) \in Int  BY <1>1, <2>1, TimeoutIsBelowCap DEF RunTypeOK
  <2>3. RunTypeOK'  BY <1>1, <1>3, <2>2 DEF Arrive, Goto, RunTypeOK, osVars
  <2>4. Trail!AuditTypeOK'  BY <1>1, <1>3 DEF Arrive, trailVars, Trail!AuditTypeOK
  <2>. QED  BY <2>3, <2>4 DEF TypeOK, RunTypeOK
<1>4. ASSUME NEW r \in Req, Record(r) PROVE TypeOK'
  <2>1. RunTypeOK'  BY <1>1, <1>4 DEF Record, Goto, RunTypeOK, osVars, runVars
  <2>2. Trail!AuditTypeOK'  BY <1>1, <1>4, RecordKeepsTypes DEF Record
  <2>. QED  BY <2>1, <2>2 DEF TypeOK, RunTypeOK
<1>5. ASSUME NEW r \in Req, UNCHANGED trailVars, RunTypeOK' PROVE TypeOK'
  BY <1>1, <1>5 DEF trailVars, Trail!AuditTypeOK, TypeOK, RunTypeOK
<1>6. ASSUME NEW r \in Req,
             Begin(r) \/ Reap(r) \/ Collect(r) \/ RunReturns(r) \/ Check(r)
      PROVE UNCHANGED trailVars /\ RunTypeOK'
  <2>. USE <1>1 DEF RunTypeOK, Goto, osVars, runVars
  <2>1. CASE Begin(r)
    <3>1. PICK d \in {"live", "DeadlineExceeded", "Canceled"} :
            /\ ctx' = [ctx EXCEPT ![r] = d]
            /\ \/ /\ cmd' = [cmd EXCEPT ![r] = "running"]
                  /\ watch' = [watch EXCEPT ![r] = "watching"]
                  /\ pc' = [pc EXCEPT ![r] = "wait"] /\ err' = err
               \/ /\ err' = [err EXCEPT ![r] = IF d = "live" THEN "start" ELSE d]
                  /\ pc' = [pc EXCEPT ![r] = "check"]
                  /\ cmd' = cmd /\ watch' = watch
      BY <2>1 DEF Begin
    <3>2. UNCHANGED <<trailVars, conf, via, how, heirs, output, timeout, copied, result>>
      BY <2>1 DEF Begin
    <3>3. ctx' \in [Req -> {"live", "DeadlineExceeded", "Canceled"}]  BY <3>1
    <3>4. /\ cmd' \in [Req -> {"none", "running", "zombie", "reaped"}]
          /\ watch' \in [Req -> {"off", "watching", "killed", "late"}]
      BY <3>1, SMTT(40)
    <3>5. /\ pc' \in [Req -> {"idle", "record", "run", "wait", "collect", "copy", "check", "answered"}]
          /\ err' \in [Req -> {"none", "exit", "Canceled", "DeadlineExceeded", "start"}]
      <4>. DEFINE e == IF d = "live" THEN "start" ELSE d
      <4>1. e \in {"Canceled", "DeadlineExceeded", "start"}  OBVIOUS
      <4>2. \/ pc' = [pc EXCEPT ![r] = "wait"] /\ err' = err
            \/ pc' = [pc EXCEPT ![r] = "check"] /\ err' = [err EXCEPT ![r] = e]
        BY <3>1
      <4>. HIDE DEF e
      <4>3. CASE pc' = [pc EXCEPT ![r] = "wait"] /\ err' = err  BY <4>3
      <4>4. CASE pc' = [pc EXCEPT ![r] = "check"] /\ err' = [err EXCEPT ![r] = e]
        <5>1. pc' \in [Req -> {"idle", "record", "run", "wait", "collect", "copy", "check", "answered"}]
          BY <4>4
        <5>2. err' \in [Req -> {"none", "exit", "Canceled", "DeadlineExceeded", "start"}]
          BY <4>1, <4>4
        <5>. QED  BY <5>1, <5>2
      <4>. QED  BY <4>2, <4>3, <4>4
    <3>. QED  BY <3>2, <3>3, <3>4, <3>5
  <2>2. CASE Reap(r)  BY <2>2 DEF Reap
  <2>3. CASE Collect(r)
    <3>1. watch[r] = "killed" => ctx[r] \in {"Canceled", "DeadlineExceeded"}  BY DEF ExecInv, RunOK
    <3>2. PICK e \in {"none", "exit", "Canceled", "DeadlineExceeded"} :
            err' = [err EXCEPT ![r] = e]
      <4>1. CASE how[r] # "ok"  BY <2>3, <4>1 DEF Collect
      <4>2. CASE how[r] = "ok" /\ watch[r] = "killed"  BY <2>3, <3>1, <4>2 DEF Collect
      <4>3. CASE how[r] = "ok" /\ watch[r] # "killed"  BY <2>3, <4>3 DEF Collect
      <4>. QED  BY <4>1, <4>2, <4>3
    <3>. QED  BY <2>3, <3>2 DEF Collect
  <2>4. CASE RunReturns(r)  BY <2>4 DEF RunReturns
  <2>5. CASE Check(r)
    <3>1. PICK a \in [kind : {"none", "result", "error"}, timedOut : BOOLEAN,
                      exit : {"none", "ok", "fail", "killed"}] :
            result' = [result EXCEPT ![r] = a]
      BY <2>5 DEF Check, Answer
    <3>2. PICK l \in {"record", "answered"} : pc' = [pc EXCEPT ![r] = l]
      BY <2>5 DEF Check
    <3>. QED  BY <2>5, <3>1, <3>2 DEF Check
  <2>. QED  BY <1>6, <2>1, <2>2, <2>3, <2>4, <2>5
<1>7. ASSUME NEW r \in Req,
             Deadline(r) \/ Disconnect(r) \/ Watch(r) \/ Copy(r) \/ Write(r) \/ Spawn(r)
             \/ HeirsExit(r) \/ \E h \in {"ok", "fail", "killed"} : Exit(r, h)
      PROVE UNCHANGED trailVars /\ RunTypeOK'
  <2>. USE <1>1, ExecAssumption DEF RunTypeOK, osVars, runVars
  <2>1. CASE Deadline(r) \/ Disconnect(r) \/ Watch(r)  BY <2>1, SMTT(40) DEF Deadline, Disconnect, Watch
  <2>2. CASE Copy(r)  BY <2>2 DEF Copy
  <2>3. CASE Write(r)
    <3>1. output[r] \in 0 .. MaxOutput /\ output[r] < MaxOutput /\ output' = [output EXCEPT ![r] = @ + 1]
      BY <2>3 DEF Write
    <3>2. output[r] + 1 \in 0 .. MaxOutput  BY <3>1
    <3>3. output' \in [Req -> 0 .. MaxOutput]  BY <3>1, <3>2
    <3>. QED  BY <2>3, <3>3 DEF Write
  <2>4. CASE Spawn(r) \/ HeirsExit(r)
    <3>1. PICK b \in BOOLEAN : heirs' = [heirs EXCEPT ![r] = b]  BY <2>4 DEF Spawn, HeirsExit
    <3>2. UNCHANGED <<trailVars, conf, via, pc, cmd, how, output, runVars, result>>
      BY <2>4 DEF Spawn, HeirsExit
    <3>. QED  BY <3>1, <3>2
  <2>5. ASSUME NEW h \in {"ok", "fail", "killed"}, Exit(r, h)
        PROVE UNCHANGED trailVars /\ RunTypeOK'
    BY <2>5 DEF Exit
  <2>. QED  BY <1>7, <2>1, <2>2, <2>3, <2>4, <2>5
<1>. QED  BY <1>2, <1>3, <1>4, <1>5, <1>6, <1>7 DEF Next, Serve

\* A timeout once set is not set again, nor is the configuration.
LEMMA CapStays ==
  ASSUME NEW r \in Req, CapOK(r), timeout' = timeout, conf' = conf
  PROVE  CapOK(r)'
BY DEF CapOK, Secs, Wrap

\* Each step of a request keeps what RunOK says of it.
LEMMA ServeKeepsRun ==
  ASSUME RunTypeOK, NEW r \in Req, RunOK(r), Serve(r)
  PROVE  RunOK(r)'
<1>. USE DEF RunOK, Fresh, Over, Goto, RunTypeOK, osVars, runVars, NoResult
<1>1. CASE Record(r)  BY <1>1 DEF Record
<1>2. CASE Begin(r)  BY <1>2 DEF Begin
<1>3. CASE Reap(r)  BY <1>3 DEF Reap
<1>4. CASE Collect(r)  BY <1>4 DEF Collect
<1>5. CASE RunReturns(r)  BY <1>5 DEF RunReturns
<1>6. CASE Check(r)  BY <1>6 DEF Check, Answer
<1>. QED  BY <1>1, <1>2, <1>3, <1>4, <1>5, <1>6 DEF Serve

\* So does what goes on beside it.
Beside(r) ==
  \/ Deadline(r) \/ Disconnect(r) \/ Watch(r) \/ Copy(r) \/ Write(r) \/ Spawn(r) \/ HeirsExit(r)
  \/ \E h \in {"ok", "fail", "killed"} : Exit(r, h)

LEMMA BesideKeepsRun ==
  ASSUME RunTypeOK, NEW r \in Req, RunOK(r), Beside(r)
  PROVE  RunOK(r)'
<1>. USE DEF RunOK, Fresh, Over, RunTypeOK, osVars, runVars, NoResult
<1>1. CASE Deadline(r)  BY <1>1 DEF Deadline, InRun
<1>2. CASE Disconnect(r)  BY <1>2 DEF Disconnect, InRun
<1>3. CASE Watch(r)  BY <1>3 DEF Watch
<1>4. CASE Copy(r)  BY <1>4 DEF Copy, InRun
<1>5. CASE Write(r)  BY <1>5 DEF Write, InRun
<1>6. CASE Spawn(r)  BY <1>6 DEF Spawn
<1>7. CASE HeirsExit(r)  BY <1>7 DEF HeirsExit
<1>8. ASSUME NEW h \in {"ok", "fail", "killed"}, Exit(r, h) PROVE RunOK(r)'
  BY <1>8 DEF Exit
<1>. QED  BY <1>1, <1>2, <1>3, <1>4, <1>5, <1>6, <1>7, <1>8 DEF Beside

\* Nothing is known of a request before it comes but that it has not begun.
LEMMA ArriveKeepsRun ==
  ASSUME RunTypeOK, NEW r \in Req, NEW v \in {"REST", "MCP"}, NEW secs \in Timeouts,
         Arrive(r, v, secs), RunOK(r)
  PROVE  RunOK(r)' /\ CapOK(r)'
<1>. USE DEF RunTypeOK
<1>1. RunOK(r)'  BY DEF Arrive, Goto, RunOK, Fresh, Over, osVars
<1>2. secs \in Int  BY ExecAssumption
<1>3. conf' = conf /\ timeout'[r] = Timeout(secs)  BY DEF Arrive
<1>4. CapOK(r)'  BY <1>2, <1>3, TimeoutIsBelowCap DEF CapOK, Secs, Wrap
<1>. QED  BY <1>1, <1>4

\* Requests do not touch each other.
LEMMA RunsAreApart ==
  ASSUME RunTypeOK, NEW r \in Req, NEW d \in Req, d # r, RunOK(d), CapOK(d),
         \/ Serve(r) \/ Beside(r)
         \/ \E v \in {"REST", "MCP"}, secs \in Timeouts : Arrive(r, v, secs)
  PROVE  RunOK(d)' /\ CapOK(d)'
<1>. DEFINE Apart ==
       /\ conf' = conf /\ via'[d] = via[d] /\ pc'[d] = pc[d] /\ timeout'[d] = timeout[d]
       /\ ctx'[d] = ctx[d] /\ cmd'[d] = cmd[d] /\ how'[d] = how[d] /\ heirs'[d] = heirs[d]
       /\ output'[d] = output[d] /\ copied'[d] = copied[d] /\ watch'[d] = watch[d]
       /\ result'[d] = result[d]
<1>1. CASE Serve(r)
  <2>. USE DEF RunTypeOK, osVars, runVars, Goto
  <2>1. CASE Record(r)  BY <2>1, OthersStay DEF Record
  <2>2. CASE Begin(r)
    <3>1. Apart  BY <2>2 DEF Begin
    <3>. QED  BY <3>1, OthersStay
  <2>3. CASE Reap(r) \/ RunReturns(r)  BY <2>3, OthersStay DEF Reap, RunReturns
  <2>4. CASE Collect(r)  BY <2>4, OthersStay DEF Collect
  <2>5. CASE Check(r)
    <3>1. Apart  BY <2>5 DEF Check, Answer
    <3>. QED  BY <3>1, OthersStay
  <2>. QED  BY <1>1, <2>1, <2>2, <2>3, <2>4, <2>5 DEF Serve
<1>2. CASE Beside(r)
  <2>1. Apart
    BY <1>2 DEF Beside, Deadline, Disconnect, Watch, Copy, Write, Spawn, HeirsExit, Exit,
                RunTypeOK, osVars, runVars
  <2>. QED  BY <2>1, OthersStay
<1>3. ASSUME NEW v \in {"REST", "MCP"}, NEW secs \in Timeouts, Arrive(r, v, secs)
      PROVE RunOK(d)' /\ CapOK(d)'
  BY <1>3, OthersStay DEF Arrive, Goto, RunTypeOK, osVars
<1>. QED  BY <1>1, <1>2, <1>3

LEMMA ExecStep == ExecInv /\ [Next]_vars => ExecInv'
<1>. SUFFICES ASSUME ExecInv, [Next]_vars PROVE ExecInv'  OBVIOUS
<1>1. RunTypeOK /\ \A r \in Req : RunOK(r) /\ CapOK(r)  BY TypeParts DEF ExecInv
<1>2. TypeOK'  BY TypeStep
<1>3. ASSUME NEW r \in Req, Serve(r) PROVE \A d \in Req : RunOK(d)' /\ CapOK(d)'
  <2>1. RunOK(r)'  BY <1>1, <1>3, ServeKeepsRun
  <2>2. conf' = conf /\ timeout' = timeout
    BY <1>3 DEF Serve, Record, Begin, Reap, Collect, RunReturns, Check, runVars
  <2>3. CapOK(r)'  BY <1>1, <2>2, CapStays
  <2>. QED  BY <1>1, <1>3, <2>1, <2>3, RunsAreApart
<1>4. ASSUME NEW r \in Req, Beside(r) PROVE \A d \in Req : RunOK(d)' /\ CapOK(d)'
  <2>1. RunOK(r)'  BY <1>1, <1>4, BesideKeepsRun
  <2>2. conf' = conf /\ timeout' = timeout
    BY <1>4 DEF Beside, Deadline, Disconnect, Watch, Copy, Write, Spawn, HeirsExit, Exit, runVars
  <2>3. CapOK(r)'  BY <1>1, <2>2, CapStays
  <2>. QED  BY <1>1, <1>4, <2>1, <2>3, RunsAreApart
<1>5. ASSUME NEW r \in Req, NEW v \in {"REST", "MCP"}, NEW secs \in Timeouts, Arrive(r, v, secs)
      PROVE \A d \in Req : RunOK(d)' /\ CapOK(d)'
  <2>1. RunOK(r)' /\ CapOK(r)'  BY <1>1, <1>5, ArriveKeepsRun
  <2>. QED  BY <1>1, <1>5, <2>1, RunsAreApart
<1>6. CASE UNCHANGED vars
  <2>1. ASSUME NEW d \in Req PROVE RunOK(d)' /\ CapOK(d)'
    BY <1>1, <1>6, OthersStay DEF vars, osVars, runVars
  <2>. QED  BY <1>2, <2>1 DEF ExecInv
<1>. QED  BY <1>2, <1>3, <1>4, <1>5, <1>6 DEF Next, Beside, ExecInv

LEMMA ExecAlways == Spec => []ExecInv
BY ExecInitInv, ExecStep, PTL DEF Spec

-------------------------------------------------------------------------------
(* The theorems *)

\* Types, for any number of requests and any size of the ring.
THEOREM TypeCorrect == Spec => []TypeOK
<1>1. ExecInv => TypeOK  BY DEF ExecInv
<1>. QED  BY <1>1, ExecAlways, PTL

\* The cap holds whatever is asked for or configured, however wide a Duration is.
THEOREM CapHolds == Spec => []TimeoutIsCapped
<1>1. ExecInv => TimeoutIsCapped  BY DEF ExecInv, CapOK, TimeoutIsCapped
<1>. QED  BY <1>1, ExecAlways, PTL

\* What Run killed is not passed off as the command's own exit.
THEOREM KillsAreTold == Spec => []KillIsReported
<1>1. ExecInv => KillIsReported  BY DEF ExecInv, RunOK, KillIsReported
<1>. QED  BY <1>1, ExecAlways, PTL

\* A result has all of the output.
THEOREM OutputIsWhole == Spec => []ResultHasAllOutput
<1>1. ExecInv => ResultHasAllOutput  BY DEF ExecInv, RunOK, Over, ResultHasAllOutput
<1>. QED  BY <1>1, ExecAlways, PTL

\* No answer leaves a process unreaped or a context watched.
THEOREM NoLeftovers == Spec => []NothingLeftBehind
<1>1. ExecInv => NothingLeftBehind  BY DEF ExecInv, RunOK, Over, NothingLeftBehind
<1>. QED  BY <1>1, ExecAlways, PTL

===============================================================================
