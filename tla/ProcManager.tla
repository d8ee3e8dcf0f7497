----------------------------- MODULE ProcManager ------------------------------
(***************************************************************************)
(* The process table of internal/procapi: Manager.Start, Stop and Remove   *)
(* as concurrent HTTP requests (POST /procs, POST /procs/{id}/stop, DELETE *)
(* /procs/{id}), the goroutine that waits for each process, and as much of *)
(* Linux as they meet: process groups, zombies, the reuse of process ids.  *)
(*                                                                         *)
(* A request runs once; its steps are the stretches between two points at  *)
(* which another goroutine or the kernel may intervene: Manager.mu held,   *)
(* Process.mu held, one system call.  List, Get and Logs change nothing.   *)
(***************************************************************************)
EXTENDS Integers, FiniteSets

CONSTANTS
  Req,    \* the requests
  Proc,   \* the *Process objects, each with the process group it leads
  Pid,    \* the process ids of the kernel
  Asked,  \* the ids that clients put into /procs/{id}
  Deaf,   \* the processes that ignore SIGTERM
  NoProc, \* no *Process yet (nil)
  NoPid   \* no process id yet

ASSUME ProcManagerAssumption ==
  /\ Asked \subseteq Nat \ {0}
  /\ Deaf \subseteq Proc
  /\ NoProc \notin Proc
  /\ NoPid \notin Pid

VARIABLES
  \* the kernel
  leader,   \* [Proc -> {"none", "running", "zombie", "reaped"}]
  kids,     \* [Proc -> BOOLEAN]: descendants live in the leader's group
  pid,      \* [Proc -> Pid]: of the leader, hence of its group
  termed,   \* [Proc -> BOOLEAN]: SIGTERM was delivered to the group
  \* each *Process
  id,       \* [Proc -> Nat]: 0 until it is registered
  state,    \* [Proc -> {StateRunning, StateExited}]
  waiter,   \* [Proc -> {"none", "Wait", "setState", "returned"}]: the next
            \* call of the goroutine that waits for it
  \* Manager
  procs, seq,
  \* each request
  op, arg,  \* what it asks for
  pc,       \* the next step of its handler
  obj,      \* the *Process it has in hand
  ans       \* the HTTP status it was answered with, 0 before

osVars   == <<leader, kids, pid, termed>>
procVars == <<id, state, waiter>>
mgrVars  == <<procs, seq>>
reqVars  == <<op, arg, pc, obj, ans>>
vars == <<osVars, procVars, mgrVars, reqVars>>

StateRunning == "running"
StateExited  == "exited"

Init ==
  /\ leader = [p \in Proc |-> "none"] /\ kids = [p \in Proc |-> FALSE]
  /\ pid = [p \in Proc |-> NoPid] /\ termed = [p \in Proc |-> FALSE]
  /\ id = [p \in Proc |-> 0] /\ state = [p \in Proc |-> StateRunning]
  /\ waiter = [p \in Proc |-> "none"]
  /\ procs = [i \in {} |-> NoProc] /\ seq = 0
  /\ op = [r \in Req |-> "none"] /\ arg = [r \in Req |-> 0]
  /\ pc = [r \in Req |-> "idle"] /\ obj = [r \in Req |-> NoProc]
  /\ ans = [r \in Req |-> 0]

-------------------------------------------------------------------------------
(* The kernel *)

\* A group lives as long as a process is in it, a zombie included, and its id
\* is not given to a new process meanwhile.
GroupLives(p) == leader[p] \in {"running", "zombie"} \/ kids[p]

Free(n) == \A p \in Proc : GroupLives(p) => pid[p] # n

Spawn(p) ==
  /\ leader[p] = "running" /\ ~kids[p]
  /\ kids' = [kids EXCEPT ![p] = TRUE]
  /\ UNCHANGED <<leader, pid, termed, procVars, mgrVars, reqVars>>

KidsExit(p) ==
  /\ kids[p]
  /\ kids' = [kids EXCEPT ![p] = FALSE]
  /\ UNCHANGED <<leader, pid, termed, procVars, mgrVars, reqVars>>

Exit(p) ==
  /\ leader[p] = "running"
  /\ leader' = [leader EXCEPT ![p] = "zombie"]
  /\ UNCHANGED <<kids, pid, termed, procVars, mgrVars, reqVars>>

-------------------------------------------------------------------------------
(* The goroutine that waits: cmd.Wait, then setState (it returns after     *)
(* closeSubs, which LogStream models).                                     *)

Reap(p) ==
  /\ waiter[p] = "Wait" /\ leader[p] = "zombie"
  /\ leader' = [leader EXCEPT ![p] = "reaped"]
  /\ waiter' = [waiter EXCEPT ![p] = "setState"]
  /\ UNCHANGED <<kids, pid, termed, id, state, mgrVars, reqVars>>

SetState(p) ==
  /\ waiter[p] = "setState"
  /\ state' = [state EXCEPT ![p] = StateExited]
  /\ waiter' = [waiter EXCEPT ![p] = "returned"]
  /\ UNCHANGED <<osVars, id, mgrVars, reqVars>>

-------------------------------------------------------------------------------
(* Start: fork, register under Manager.mu, launch the goroutines.  (A      *)
(* request whose command is empty or cannot be started changes nothing.)   *)

Fork(r, p, n) ==
  /\ pc[r] = "idle" /\ leader[p] = "none" /\ Free(n)
  /\ leader' = [leader EXCEPT ![p] = "running"]
  /\ pid' = [pid EXCEPT ![p] = n]
  /\ op' = [op EXCEPT ![r] = "Start"]
  /\ obj' = [obj EXCEPT ![r] = p]
  /\ pc' = [pc EXCEPT ![r] = "register"]
  /\ UNCHANGED <<kids, termed, procVars, mgrVars, arg, ans>>

\* (mutants) the counter is incremented after use; ids are counted from the table
staleID == seq

countedID == Cardinality(DOMAIN procs) + 1

nextID == seq + 1

Register(r) ==
  /\ pc[r] = "register"
  /\ id' = [id EXCEPT ![obj[r]] = nextID]
  /\ procs' = [i \in DOMAIN procs \union {nextID} |->
                 IF i = nextID THEN obj[r] ELSE procs[i]]
  /\ seq' = seq + 1
  /\ pc' = [pc EXCEPT ![r] = "launch"]
  /\ UNCHANGED <<osVars, state, waiter, op, arg, obj, ans>>

\* (mutant) nobody waits for a process that was removed meanwhile
LaunchIfListed(r) ==
  /\ pc[r] = "launch"
  /\ waiter' = [waiter EXCEPT ![obj[r]] =
                  IF id[obj[r]] \in DOMAIN procs THEN "Wait" ELSE "none"]
  /\ pc' = [pc EXCEPT ![r] = "over"]
  /\ ans' = [ans EXCEPT ![r] = 201]
  /\ UNCHANGED <<osVars, id, state, mgrVars, op, arg, obj>>

Launch(r) ==
  /\ pc[r] = "launch"
  /\ waiter' = [waiter EXCEPT ![obj[r]] = "Wait"]
  /\ pc' = [pc EXCEPT ![r] = "over"]
  /\ ans' = [ans EXCEPT ![r] = 201]
  /\ UNCHANGED <<osVars, id, state, mgrVars, op, arg, obj>>

-------------------------------------------------------------------------------
(* Stop, alone and as the first half of Remove, which ignores its errors. *)

Answer(r, status) ==
  /\ pc' = [pc EXCEPT ![r] = "over"]
  /\ ans' = [ans EXCEPT ![r] = status]

\* Stop returns err: the end of a Stop request, and nothing to a Remove
StopReturns(r, status) ==
  \/ op'[r] = "Stop" /\ Answer(r, status)
  \/ op'[r] = "Remove" /\ pc' = [pc EXCEPT ![r] = "drop"] /\ UNCHANGED ans

Find(r, what, i) ==
  /\ pc[r] = "idle"
  /\ op' = [op EXCEPT ![r] = what]
  /\ arg' = [arg EXCEPT ![r] = i]
  /\ \/ /\ i \in DOMAIN procs
        /\ obj' = [obj EXCEPT ![r] = procs[i]]
        /\ pc' = [pc EXCEPT ![r] = "check"]
        /\ UNCHANGED ans
     \/ /\ i \notin DOMAIN procs
        /\ StopReturns(r, 404)
        /\ UNCHANGED obj
  /\ UNCHANGED <<osVars, procVars, mgrVars>>

\* (mutant) the test of the state is inverted
CheckInverted(r) ==
  /\ pc[r] = "check"
  /\ UNCHANGED op
  /\ \/ /\ state[obj[r]] # StateRunning
        /\ pc' = [pc EXCEPT ![r] = "kill"]
        /\ UNCHANGED ans
     \/ /\ state[obj[r]] = StateRunning
        /\ StopReturns(r, 200)
  /\ UNCHANGED <<osVars, procVars, mgrVars, arg, obj>>

\* p.view() under Process.mu; the kill follows after it is released
Check(r) ==
  /\ pc[r] = "check"
  /\ UNCHANGED op
  /\ \/ /\ state[obj[r]] = StateRunning
        /\ pc' = [pc EXCEPT ![r] = "kill"]
        /\ UNCHANGED ans
     \/ /\ state[obj[r]] # StateRunning
        /\ StopReturns(r, 200)
  /\ UNCHANGED <<osVars, procVars, mgrVars, arg, obj>>

\* (mutant) kill with a pid of -1
AllGroups(n) == { p \in Proc : GroupLives(p) }

\* whom kill(-pid) finds: whoever is the group of that number by now
Group(n) == { p \in Proc : GroupLives(p) /\ pid[p] = n }

Kill(r) ==
  /\ pc[r] = "kill"
  /\ UNCHANGED op
  /\ LET hit == Group(pid[obj[r]]) IN
       /\ termed' = [p \in Proc |-> termed[p] \/ p \in hit]
       /\ StopReturns(r, IF hit = {} THEN 500 ELSE 200)   \* ESRCH
  /\ UNCHANGED <<leader, kids, pid, procVars, mgrVars, arg, obj>>

\* (mutant) Remove deletes the id without looking it up again
DropUnchecked(r) ==
  /\ pc[r] = "drop"
  /\ procs' = [i \in DOMAIN procs \ {arg[r]} |-> procs[i]]
  /\ Answer(r, 200)
  /\ UNCHANGED <<osVars, procVars, seq, op, arg, obj>>

\* the second half of Remove looks the id up again
Drop(r) ==
  /\ pc[r] = "drop"
  /\ procs' = [i \in DOMAIN procs \ {arg[r]} |-> procs[i]]
  /\ Answer(r, IF arg[r] \in DOMAIN procs THEN 200 ELSE 404)
  /\ UNCHANGED <<osVars, procVars, seq, op, arg, obj>>

-------------------------------------------------------------------------------
Kernel(p) == Spawn(p) \/ KidsExit(p) \/ Exit(p)

Waiter(p) == Reap(p) \/ SetState(p)

Arrive(r) ==
  \/ \E p \in Proc, n \in Pid : Fork(r, p, n)
  \/ \E what \in {"Stop", "Remove"}, i \in Asked : Find(r, what, i)

Serve(r) == Register(r) \/ Launch(r) \/ Check(r) \/ Kill(r) \/ Drop(r)

Next ==
  \/ \E p \in Proc : Kernel(p) \/ Waiter(p)
  \/ \E r \in Req : Arrive(r) \/ Serve(r)

Spec == Init /\ [][Next]_vars

(***************************************************************************)
(* Every goroutine that can run does, and a process that was sent SIGTERM  *)
(* ends, unless it ignores the signal.  A process that was not signalled,  *)
(* and its descendants, may run for ever.                                  *)
(***************************************************************************)
Die(p) == termed[p] /\ Exit(p)

FairSpec ==
  /\ Spec
  /\ \A r \in Req : WF_vars(Serve(r))
  /\ \A p \in Proc : WF_vars(Waiter(p))
  /\ \A p \in Proc \ Deaf : WF_vars(Die(p))

-------------------------------------------------------------------------------
(* Properties *)

TypeOK ==
  /\ leader \in [Proc -> {"none", "running", "zombie", "reaped"}]
  /\ kids \in [Proc -> BOOLEAN]
  /\ pid \in [Proc -> Pid \union {NoPid}]
  /\ termed \in [Proc -> BOOLEAN]
  /\ id \in [Proc -> 0 .. seq]
  /\ state \in [Proc -> {StateRunning, StateExited}]
  /\ waiter \in [Proc -> {"none", "Wait", "setState", "returned"}]
  /\ seq \in Nat
  /\ DOMAIN procs \subseteq 1 .. seq /\ \A i \in DOMAIN procs : procs[i] \in Proc
  /\ op \in [Req -> {"none", "Start", "Stop", "Remove"}]
  /\ arg \in [Req -> Asked \union {0}]
  /\ pc \in [Req -> {"idle", "register", "launch", "check", "kill", "drop", "over"}]
  /\ obj \in [Req -> Proc \union {NoProc}]
  /\ ans \in [Req -> {0, 200, 201, 404, 500}]

\* The table and the processes agree on their names, however starts and removals
\* overlap: an id stands for the process that carries it, and for no other.
TableIsCoherent ==
  /\ \A i \in DOMAIN procs : id[procs[i]] = i
  /\ \A p, q \in Proc : id[p] = id[q] /\ id[p] # 0 => p = q

\* nextID: "monotonic, collision-free".  An id that was given out and removed
\* never comes back, so that a client cannot stop a process it does not know.
IdsAreNotReused ==
  [][\A i \in 1 .. seq : i \in DOMAIN procs' => i \in DOMAIN procs /\ procs'[i] = procs[i]]_vars

\* Of several requests that remove the same process one is told that it did so
\* and the others 404 (Remove looks the id up again before it deletes).
OneRemoveWins ==
  \A r, q \in Req :
    /\ op[r] = "Remove" /\ op[q] = "Remove" /\ arg[r] = arg[q]
    /\ ans[r] = 200 /\ ans[q] = 200
    => r = q

\* A process is reported as exited only when it is gone for good, so that Stop,
\* which then does nothing, leaves no live leader behind.
ExitedIsReaped ==
  \A p \in Proc : state[p] = StateExited => leader[p] = "reaped"

\* Whatever is in the table or was removed from it, every process that has not
\* been reaped has someone who will: its waiting goroutine, or the one Start
\* that is about to launch it.
EveryoneIsWaitedFor ==
  \A p \in Proc : leader[p] \in {"running", "zombie"} =>
    \/ waiter[p] = "Wait"
    \/ \E r \in Req : pc[r] \in {"register", "launch"} /\ obj[r] = p

\* SIGTERM reaches a group only on behalf of a request that asked for it, or
\* for a process that had this number before and has been reaped since.
SignalsAreAskedFor ==
  \A q \in Proc : termed[q] =>
    \E r \in Req :
      /\ op[r] \in {"Stop", "Remove"} /\ obj[r] \in Proc
      /\ pid[obj[r]] = pid[q]
      /\ obj[r] = q \/ leader[obj[r]] = "reaped"

\* A stop that is answered with success comes to something: the process, unless
\* it ignores SIGTERM, is reported as exited in the end.
StopTakesEffect ==
  \A r \in Req, p \in Proc \ Deaf :
    (op[r] = "Stop" /\ ans[r] = 200 /\ obj[r] = p) ~> state[p] = StateExited

\* No zombie stays: each is reaped, also when it was removed from the table
\* before it ended, or before its Start had returned.
ZombiesAreReaped ==
  \A p \in Proc : leader[p] = "zombie" ~> state[p] = StateExited

-------------------------------------------------------------------------------
(* What the repository says and the code does not do *)

\* README: "SIGTERM the process group".  After a stop that was answered with
\* success, what is left of the group has been sent the signal.
StopReachesGroup ==
  \A r \in Req : op[r] = "Stop" /\ ans[r] = 200 => termed[obj[r]] \/ ~GroupLives(obj[r])

===============================================================================
