-------------------------- MODULE ProcManagerProofs ---------------------------
(***************************************************************************)
(* Machine-checked proofs about ProcManager, for any number of requests,   *)
(* processes and process ids.                                              *)
(***************************************************************************)
EXTENDS ProcManager, TLAPS

-------------------------------------------------------------------------------
(* The inductive invariant *)

\* What a request has in hand at each of its steps.
RequestsInOrder ==
  \A r \in Req :
    /\ pc[r] = "idle" => op[r] = "none" /\ ans[r] = 0 /\ obj[r] = NoProc
    /\ pc[r] \in {"register", "launch"} => op[r] = "Start"
    /\ pc[r] \in {"check", "kill"} => op[r] \in {"Stop", "Remove"}
    /\ pc[r] = "drop" => op[r] = "Remove"
    /\ pc[r] \in {"register", "launch", "check", "kill"} => obj[r] \in Proc
    /\ obj[r] \in Proc => leader[obj[r]] # "none"

\* A request between fork and launch is alone in charge of its process.
StartsInOrder ==
  \A r \in Req :
    /\ pc[r] = "register" => id[obj[r]] = 0
    /\ pc[r] \in {"register", "launch"} =>
         /\ waiter[obj[r]] = "none"
         /\ \A q \in Req :
              pc[q] \in {"register", "launch"} /\ obj[q] = obj[r] => q = r

\* How far the waiting goroutine of a process has come, against the process.
ProcsInOrder ==
  \A p \in Proc :
    /\ leader[p] = "none" =>
         id[p] = 0 /\ waiter[p] = "none" /\ ~kids[p] /\ ~termed[p]
    /\ waiter[p] = "Wait" => leader[p] \in {"running", "zombie"}
    /\ waiter[p] \in {"setState", "returned"} <=> leader[p] = "reaped"
    /\ state[p] = StateExited => waiter[p] = "returned"

\* An id that a request was told it removed is out of the table for good.
RemovedIsGone ==
  \A r \in Req : op[r] = "Remove" /\ ans[r] = 200 =>
    arg[r] \in 1 .. seq /\ arg[r] \notin DOMAIN procs

\* Two groups that live at the same time have different numbers.
LivePidsDiffer ==
  \A p, q \in Proc : GroupLives(p) /\ GroupLives(q) /\ pid[p] = pid[q] => p = q

IndInv ==
  /\ TypeOK
  /\ RequestsInOrder
  /\ StartsInOrder
  /\ ProcsInOrder
  /\ EveryoneIsWaitedFor
  /\ TableIsCoherent
  /\ RemovedIsGone
  /\ OneRemoveWins
  /\ LivePidsDiffer
  /\ SignalsAreAskedFor

LEMMA IndInit == Init => IndInv
<1> SUFFICES ASSUME Init PROVE IndInv
  OBVIOUS
<1>1. TypeOK
  <2>1. DOMAIN procs = {}
    BY DEF Init
  <2> QED  BY <2>1 DEF Init, TypeOK, StateRunning, StateExited
<1>2. RequestsInOrder /\ StartsInOrder /\ RemovedIsGone /\ OneRemoveWins
  BY ProcManagerAssumption DEF Init, RequestsInOrder, StartsInOrder, RemovedIsGone, OneRemoveWins
<1>3. ProcsInOrder /\ EveryoneIsWaitedFor /\ LivePidsDiffer /\ SignalsAreAskedFor
  BY DEF Init, ProcsInOrder, EveryoneIsWaitedFor, LivePidsDiffer, GroupLives,
    SignalsAreAskedFor, StateRunning, StateExited
<1>4. TableIsCoherent
  BY DEF Init, TableIsCoherent
<1> QED  BY <1>1, <1>2, <1>3, <1>4 DEF IndInv

-------------------------------------------------------------------------------
(* What a step can be, with the requests and processes it is about. *)
LEMMA Steps ==
  ASSUME [Next]_vars
  PROVE  \/ \E p \in Proc : \/ Spawn(p) \/ KidsExit(p) \/ Exit(p)
                            \/ Reap(p) \/ SetState(p)
         \/ \E r \in Req : \/ \E p \in Proc, n \in Pid : Fork(r, p, n)
                           \/ Register(r) \/ Launch(r)
                           \/ \E what \in {"Stop", "Remove"}, i \in Asked : Find(r, what, i)
                           \/ Check(r) \/ Kill(r) \/ Drop(r)
         \/ UNCHANGED vars
BY DEF Next, Kernel, Waiter, Arrive, Serve

LEMMA TypeStep == IndInv /\ [Next]_vars => TypeOK'
<1> SUFFICES ASSUME IndInv, [Next]_vars PROVE TypeOK'
  OBVIOUS
<1> USE DEF TypeOK
<1>0. TypeOK /\ RequestsInOrder
  BY DEF IndInv
<1>1. ASSUME NEW p \in Proc, Spawn(p) \/ KidsExit(p) \/ Exit(p) PROVE TypeOK'
  <2>1. CASE Spawn(p)
    BY <1>0, <2>1 DEF Spawn, procVars, mgrVars, reqVars
  <2>2. CASE KidsExit(p)
    BY <1>0, <2>2 DEF KidsExit, procVars, mgrVars, reqVars
  <2>3. CASE Exit(p)
    BY <1>0, <2>3 DEF Exit, procVars, mgrVars, reqVars
  <2> QED  BY <1>1, <2>1, <2>2, <2>3
<1>2. ASSUME NEW p \in Proc, Reap(p) \/ SetState(p) PROVE TypeOK'
  BY <1>0, <1>2 DEF Reap, SetState, osVars, mgrVars, reqVars
<1>3. ASSUME NEW r \in Req, NEW p \in Proc, NEW n \in Pid, Fork(r, p, n) PROVE TypeOK'
  BY <1>0, <1>3 DEF Fork, procVars, mgrVars
<1>4. ASSUME NEW r \in Req, Register(r) PROVE TypeOK'
  <2>1. obj[r] \in Proc /\ seq \in Nat
    BY <1>0, <1>4 DEF Register, RequestsInOrder
  <2>2. id' \in [Proc -> 0 .. seq'] /\ seq' \in Nat
    BY <1>0, <1>4, <2>1 DEF Register, nextID
  <2>3. DOMAIN procs' \subseteq 1 .. seq'
    BY <1>0, <1>4, <2>1 DEF Register, nextID
  <2>4. \A i \in DOMAIN procs' : procs'[i] \in Proc
    BY <1>0, <1>4, <2>1 DEF Register
  <2> QED  BY <1>0, <1>4, <2>2, <2>3, <2>4 DEF Register, osVars
<1>5. ASSUME NEW r \in Req, Launch(r) PROVE TypeOK'
  BY <1>0, <1>5, ZenonT(60) DEF Launch, osVars, mgrVars
<1>6. ASSUME NEW r \in Req, NEW what \in {"Stop", "Remove"}, NEW i \in Asked,
             Find(r, what, i)
      PROVE  TypeOK'
  BY <1>0, <1>6 DEF Find, StopReturns, Answer, osVars, procVars, mgrVars
<1>7. ASSUME NEW r \in Req, Check(r) PROVE TypeOK'
  BY <1>0, <1>7 DEF Check, StopReturns, Answer, osVars, procVars, mgrVars
<1>8. ASSUME NEW r \in Req, Kill(r) PROVE TypeOK'
  BY <1>0, <1>8 DEF Kill, StopReturns, Answer, procVars, mgrVars
<1>9. ASSUME NEW r \in Req, Drop(r) PROVE TypeOK'
  BY <1>0, <1>9 DEF Drop, Answer, osVars, procVars
<1>10. CASE UNCHANGED vars
  BY <1>0, <1>10 DEF vars, osVars, procVars, mgrVars, reqVars
<1> QED
  BY <1>1, <1>2, <1>3, <1>4, <1>5, <1>6, <1>7, <1>8, <1>9, <1>10, Steps

LEMMA RequestsStep == IndInv /\ [Next]_vars => RequestsInOrder'
<1> SUFFICES ASSUME IndInv, [Next]_vars PROVE RequestsInOrder'
  OBVIOUS
<1> USE DEF RequestsInOrder
<1>0. TypeOK /\ RequestsInOrder
  BY DEF IndInv
<1>1. ASSUME NEW p \in Proc, Spawn(p) \/ KidsExit(p) \/ Exit(p) \/ Reap(p) \/ SetState(p)
      PROVE  RequestsInOrder'
  BY <1>0, <1>1 DEF Spawn, KidsExit, Exit, Reap, SetState, osVars, reqVars, TypeOK
<1>2. ASSUME NEW r \in Req, NEW p \in Proc, NEW n \in Pid, Fork(r, p, n)
      PROVE  RequestsInOrder'
  BY <1>0, <1>2, ProcManagerAssumption DEF Fork, TypeOK
<1>3. ASSUME NEW r \in Req, Register(r) \/ Launch(r) \/ Drop(r) PROVE RequestsInOrder'
  BY <1>0, <1>3 DEF Register, Launch, Drop, Answer, osVars, TypeOK
<1>4. ASSUME NEW r \in Req, NEW what \in {"Stop", "Remove"}, NEW i \in Asked,
             Find(r, what, i)
      PROVE  RequestsInOrder'
  <2>1. i \in DOMAIN procs => leader[procs[i]] # "none"
    BY <1>0 DEF IndInv, TableIsCoherent, ProcsInOrder, TypeOK
  <2> QED
    BY <1>0, <1>4, <2>1, ProcManagerAssumption
      DEF Find, StopReturns, Answer, osVars, TypeOK
<1>5. ASSUME NEW r \in Req, Check(r) \/ Kill(r) PROVE RequestsInOrder'
  BY <1>0, <1>5 DEF Check, Kill, StopReturns, Answer, osVars, TypeOK
<1>6. CASE UNCHANGED vars
  BY <1>0, <1>6 DEF vars, osVars, reqVars
<1> QED  BY <1>1, <1>2, <1>3, <1>4, <1>5, <1>6, Steps
LEMMA StartsStep == IndInv /\ [Next]_vars => StartsInOrder'
<1> SUFFICES ASSUME IndInv, [Next]_vars PROVE StartsInOrder'
  OBVIOUS
<1> USE DEF StartsInOrder
<1>0. TypeOK /\ RequestsInOrder /\ StartsInOrder /\ ProcsInOrder
  BY DEF IndInv
<1>1. ASSUME NEW p \in Proc, Spawn(p) \/ KidsExit(p) \/ Exit(p) PROVE StartsInOrder'
  BY <1>0, <1>1 DEF Spawn, KidsExit, Exit, procVars, reqVars
<1>2. ASSUME NEW p \in Proc, Reap(p) \/ SetState(p) PROVE StartsInOrder'
  <2>1. waiter[p] # "none" /\ \A q \in Proc : q # p => waiter'[q] = waiter[q]
    BY <1>0, <1>2 DEF Reap, SetState, TypeOK
  <2>2. UNCHANGED <<id, pc, obj>>
    BY <1>2 DEF Reap, SetState, osVars, reqVars
  <2> QED  BY <1>0, <2>1, <2>2 DEF RequestsInOrder
<1>3. ASSUME NEW r \in Req, NEW p \in Proc, NEW n \in Pid, Fork(r, p, n)
      PROVE  StartsInOrder'
  <2>1. id[p] = 0 /\ waiter[p] = "none"
    BY <1>0, <1>3 DEF Fork, ProcsInOrder
  <2>2. \A q \in Req : pc[q] \in {"register", "launch"} => obj[q] # p
    BY <1>0, <1>3 DEF Fork, RequestsInOrder
  <2> QED  BY <1>0, <1>3, <2>1, <2>2 DEF Fork, procVars, TypeOK
<1>4. ASSUME NEW r \in Req, Register(r) PROVE StartsInOrder'
  <2>1. \A q \in Req : pc[q] = "register" /\ q # r => obj[q] # obj[r]
    BY <1>0, <1>4 DEF Register
  <2> QED  BY <1>0, <1>4, <2>1 DEF Register, RequestsInOrder, TypeOK
<1>5. ASSUME NEW r \in Req, Launch(r) PROVE StartsInOrder'
  <2>1. \A q \in Req : pc[q] \in {"register", "launch"} /\ q # r => obj[q] # obj[r]
    BY <1>0, <1>5 DEF Launch
  <2> QED  BY <1>0, <1>5, <2>1 DEF Launch, RequestsInOrder, TypeOK
<1>6. ASSUME NEW r \in Req, NEW what \in {"Stop", "Remove"}, NEW i \in Asked,
             Find(r, what, i)
      PROVE  StartsInOrder'
  BY <1>0, <1>6 DEF Find, StopReturns, Answer, procVars, TypeOK
<1>7. ASSUME NEW r \in Req, Check(r) \/ Kill(r) PROVE StartsInOrder'
  BY <1>0, <1>7 DEF Check, Kill, StopReturns, Answer, procVars, TypeOK
<1>8. ASSUME NEW r \in Req, Drop(r) PROVE StartsInOrder'
  BY <1>0, <1>8 DEF Drop, Answer, procVars, TypeOK
<1>9. CASE UNCHANGED vars
  BY <1>0, <1>9 DEF vars, procVars, reqVars
<1> QED  BY <1>1, <1>2, <1>3, <1>4, <1>5, <1>6, <1>7, <1>8, <1>9, Steps

LEMMA ProcsStep == IndInv /\ [Next]_vars => ProcsInOrder'
<1> SUFFICES ASSUME IndInv, [Next]_vars PROVE ProcsInOrder'
  OBVIOUS
<1> USE DEF ProcsInOrder
<1>0. TypeOK /\ RequestsInOrder /\ StartsInOrder /\ ProcsInOrder
  BY DEF IndInv
<1>1. ASSUME NEW p \in Proc, Spawn(p) \/ KidsExit(p) \/ Exit(p) PROVE ProcsInOrder'
  BY <1>0, <1>1 DEF Spawn, KidsExit, Exit, procVars, TypeOK
<1>2. ASSUME NEW p \in Proc, Reap(p) PROVE ProcsInOrder'
  BY <1>0, <1>2 DEF Reap, TypeOK
<1>3. ASSUME NEW p \in Proc, SetState(p) PROVE ProcsInOrder'
  BY <1>0, <1>3 DEF SetState, osVars, TypeOK
<1>4. ASSUME NEW r \in Req, NEW p \in Proc, NEW n \in Pid, Fork(r, p, n)
      PROVE  ProcsInOrder'
  BY <1>0, <1>4 DEF Fork, procVars, TypeOK
<1>5. ASSUME NEW r \in Req, Register(r) PROVE ProcsInOrder'
  BY <1>0, <1>5 DEF Register, RequestsInOrder, osVars, TypeOK
<1>6. ASSUME NEW r \in Req, Launch(r) PROVE ProcsInOrder'
  <2>1. waiter[obj[r]] = "none" /\ obj[r] \in Proc /\ leader[obj[r]] # "none"
    BY <1>0, <1>6 DEF Launch, RequestsInOrder, StartsInOrder
  <2>2. leader[obj[r]] \in {"running", "zombie"} /\ state[obj[r]] # StateExited
    BY <1>0, <2>1 DEF TypeOK
  <2> QED  BY <1>0, <1>6, <2>1, <2>2 DEF Launch, osVars, TypeOK
<1>7. ASSUME NEW r \in Req, Kill(r) PROVE ProcsInOrder'
  <2>1. \A p \in Proc : termed'[p] => termed[p] \/ GroupLives(p)
    BY <1>7 DEF Kill, Group
  <2>2. UNCHANGED <<leader, kids, id, waiter, state>>
    BY <1>7 DEF Kill, procVars
  <2> QED  BY <1>0, <2>1, <2>2 DEF GroupLives
<1>8. ASSUME UNCHANGED <<osVars, procVars>> PROVE ProcsInOrder'
  BY <1>0, <1>8 DEF osVars, procVars
<1>9. \/ \E p \in Proc : Spawn(p) \/ KidsExit(p) \/ Exit(p) \/ Reap(p) \/ SetState(p)
      \/ \E r \in Req : \/ \E p \in Proc, n \in Pid : Fork(r, p, n)
                        \/ Register(r) \/ Launch(r) \/ Kill(r)
      \/ UNCHANGED <<osVars, procVars>>
  BY Steps DEF Find, Check, Drop, vars
<1> QED  BY <1>1, <1>2, <1>3, <1>4, <1>5, <1>6, <1>7, <1>8, <1>9

LEMMA WaitedForStep == IndInv /\ [Next]_vars => EveryoneIsWaitedFor'
<1> SUFFICES ASSUME IndInv, [Next]_vars PROVE EveryoneIsWaitedFor'
  OBVIOUS
<1> USE DEF EveryoneIsWaitedFor
<1>0. TypeOK /\ RequestsInOrder /\ EveryoneIsWaitedFor /\ ProcsInOrder
  BY DEF IndInv
<1>1. ASSUME NEW p \in Proc,
             Spawn(p) \/ KidsExit(p) \/ Exit(p) \/ Reap(p) \/ SetState(p)
      PROVE  EveryoneIsWaitedFor'
  <2>1. /\ UNCHANGED <<pc, obj>>
        /\ \A q \in Proc : waiter'[q] = waiter[q] \/ leader'[q] \notin {"running", "zombie"}
        /\ \A q \in Proc : leader'[q] \in {"running", "zombie"}
                             => leader[q] \in {"running", "zombie"}
    BY <1>0, <1>1 DEF Spawn, KidsExit, Exit, Reap, SetState, ProcsInOrder,
      osVars, procVars, reqVars, TypeOK
  <2> QED  BY <1>0, <2>1
<1>2. ASSUME NEW r \in Req, NEW p \in Proc, NEW n \in Pid, Fork(r, p, n)
      PROVE  EveryoneIsWaitedFor'
  <2>1. pc'[r] = "register" /\ obj'[r] = p /\ waiter' = waiter
    BY <1>0, <1>2 DEF Fork, procVars, TypeOK
  <2>2. \A q \in Proc : q # p => leader'[q] = leader[q]
    BY <1>0, <1>2 DEF Fork, TypeOK
  <2>3. \A t \in Req : t # r => pc'[t] = pc[t] /\ obj'[t] = obj[t]
    BY <1>0, <1>2 DEF Fork, TypeOK
  <2>4. pc[r] \notin {"register", "launch"}
    BY <1>2 DEF Fork
  <2> QED  BY <1>0, <2>1, <2>2, <2>3, <2>4
<1>3. ASSUME NEW r \in Req, Register(r) PROVE EveryoneIsWaitedFor'
  BY <1>0, <1>3 DEF Register, osVars, TypeOK
<1>4. ASSUME NEW r \in Req, Launch(r) PROVE EveryoneIsWaitedFor'
  BY <1>0, <1>4 DEF Launch, osVars, RequestsInOrder, TypeOK
<1>5. ASSUME NEW r \in Req,
             UNCHANGED <<leader, waiter>>, pc[r] \notin {"register", "launch"},
             \A t \in Req : t # r => pc'[t] = pc[t] /\ obj'[t] = obj[t]
      PROVE  EveryoneIsWaitedFor'
  BY <1>0, <1>5
<1>6. ASSUME NEW r \in Req, NEW what \in {"Stop", "Remove"}, NEW i \in Asked,
             Find(r, what, i)
      PROVE  EveryoneIsWaitedFor'
  BY <1>0, <1>5, <1>6 DEF Find, StopReturns, Answer, osVars, procVars, TypeOK
<1>7. ASSUME NEW r \in Req, Check(r) \/ Kill(r) \/ Drop(r) PROVE EveryoneIsWaitedFor'
  BY <1>0, <1>5, <1>7 DEF Check, Kill, Drop, StopReturns, Answer, osVars, procVars, TypeOK
<1>8. CASE UNCHANGED vars
  BY <1>0, <1>8 DEF vars, osVars, procVars, reqVars
<1> QED  BY <1>1, <1>2, <1>3, <1>4, <1>6, <1>7, <1>8, Steps
LEMMA TableStep == IndInv /\ [Next]_vars => TableIsCoherent'
<1> SUFFICES ASSUME IndInv, [Next]_vars PROVE TableIsCoherent'
  OBVIOUS
<1> USE DEF TableIsCoherent
<1>0. TypeOK /\ RequestsInOrder /\ StartsInOrder /\ TableIsCoherent
  BY DEF IndInv
<1>1. ASSUME NEW r \in Req, Register(r) PROVE TableIsCoherent'
  <2>1. /\ obj[r] \in Proc /\ id[obj[r]] = 0 /\ seq \in Nat
        /\ id' = [id EXCEPT ![obj[r]] = seq + 1]
        /\ procs' = [i \in DOMAIN procs \union {seq + 1} |->
                       IF i = seq + 1 THEN obj[r] ELSE procs[i]]
    BY <1>0, <1>1 DEF Register, nextID, RequestsInOrder, StartsInOrder, TypeOK
  <2>2. /\ \A p \in Proc : id[p] \in 0 .. seq /\ id[p] # seq + 1
        /\ \A i \in DOMAIN procs : i \in 1 .. seq /\ i # seq + 1 /\ procs[i] \in Proc
    BY <1>0, <2>1 DEF TypeOK
  <2>3. ASSUME NEW i \in DOMAIN procs' PROVE id'[procs'[i]] = i
    <3>1. CASE i = seq + 1
      BY <1>0, <2>1, <3>1 DEF TypeOK
    <3>2. CASE i # seq + 1
      <4>1. i \in DOMAIN procs /\ procs'[i] = procs[i]
        BY <2>1, <3>2
      <4>2. id[procs[i]] = i /\ procs[i] # obj[r]
        BY <1>0, <2>1, <2>2, <4>1
      <4> QED  BY <1>0, <2>1, <2>2, <4>1, <4>2 DEF TypeOK
    <3> QED  BY <3>1, <3>2
  <2>4. ASSUME NEW p \in Proc, NEW q \in Proc, id'[p] = id'[q], id'[p] # 0
        PROVE  p = q
    BY <1>0, <2>1, <2>2, <2>4 DEF TypeOK
  <2> QED  BY <2>3, <2>4
<1>2. ASSUME NEW r \in Req, Drop(r) PROVE TableIsCoherent'
  BY <1>0, <1>2 DEF Drop, procVars
<1>3. ASSUME UNCHANGED <<id, procs>> PROVE TableIsCoherent'
  BY <1>0, <1>3
<1>4. (\E r \in Req : Register(r) \/ Drop(r)) \/ UNCHANGED <<id, procs>>
  BY Steps DEF Spawn, KidsExit, Exit, Reap, SetState, Fork, Launch, Find, Check,
    Kill, vars, procVars, mgrVars
<1> QED  BY <1>1, <1>2, <1>3, <1>4

LEMMA RemovalsStep == IndInv /\ [Next]_vars => RemovedIsGone' /\ OneRemoveWins'
<1> SUFFICES ASSUME IndInv, [Next]_vars PROVE RemovedIsGone' /\ OneRemoveWins'
  OBVIOUS
<1> USE DEF RemovedIsGone, OneRemoveWins
<1>0. TypeOK /\ RequestsInOrder /\ RemovedIsGone /\ OneRemoveWins
  BY DEF IndInv
<1>1. ASSUME NEW r \in Req, Register(r) PROVE RemovedIsGone' /\ OneRemoveWins'
  <2>1. UNCHANGED <<op, arg, ans>> /\ seq' = seq + 1 /\ DOMAIN procs' = DOMAIN procs \union {seq + 1}
    BY <1>1 DEF Register, nextID
  <2> QED  BY <1>0, <2>1 DEF TypeOK
<1>2. ASSUME NEW r \in Req, Drop(r) PROVE RemovedIsGone' /\ OneRemoveWins'
  <2>1. /\ UNCHANGED <<op, arg, seq>>
        /\ DOMAIN procs' = DOMAIN procs \ {arg[r]}
        /\ ans' = [ans EXCEPT ![r] = IF arg[r] \in DOMAIN procs THEN 200 ELSE 404]
    BY <1>2 DEF Drop, Answer
  <2>2. ans'[r] = 200 => arg[r] \in DOMAIN procs
    BY <1>0, <2>1 DEF TypeOK
  <2>3. \A q \in Req : q # r => ans'[q] = ans[q]
    BY <1>0, <2>1 DEF TypeOK
  <2>4. RemovedIsGone'
    BY <1>0, <2>1, <2>2, <2>3 DEF TypeOK
  <2>5. OneRemoveWins'
    BY <1>0, <2>1, <2>2, <2>3
  <2> QED  BY <2>4, <2>5
<1>3. ASSUME UNCHANGED <<seq, procs>>,
             \A r \in Req : op'[r] = "Remove" /\ ans'[r] = 200 =>
               op[r] = "Remove" /\ ans[r] = 200 /\ arg'[r] = arg[r]
      PROVE  RemovedIsGone' /\ OneRemoveWins'
  BY <1>0, <1>3
<1>4. ASSUME NEW r \in Req, NEW p \in Proc, NEW n \in Pid, Fork(r, p, n)
      PROVE  RemovedIsGone' /\ OneRemoveWins'
  BY <1>0, <1>3, <1>4 DEF Fork, mgrVars, TypeOK
<1>5. ASSUME NEW r \in Req, Launch(r) PROVE RemovedIsGone' /\ OneRemoveWins'
  BY <1>0, <1>3, <1>5 DEF Launch, mgrVars, TypeOK
<1>6. ASSUME NEW r \in Req, NEW what \in {"Stop", "Remove"}, NEW i \in Asked,
             Find(r, what, i)
      PROVE  RemovedIsGone' /\ OneRemoveWins'
  <2>1. /\ UNCHANGED <<seq, procs>> /\ ans[r] = 0
        /\ \A q \in Req : q # r => op'[q] = op[q] /\ ans'[q] = ans[q] /\ arg'[q] = arg[q]
    BY <1>0, <1>6 DEF Find, StopReturns, Answer, mgrVars, RequestsInOrder, TypeOK
  <2>2. ans'[r] \in {0, 404}
    BY <1>0, <1>6, <2>1 DEF Find, StopReturns, Answer, TypeOK
  <2> QED  BY <1>3, <2>1, <2>2
<1>7. ASSUME NEW r \in Req, Check(r) \/ Kill(r) PROVE RemovedIsGone' /\ OneRemoveWins'
  <2>1. /\ UNCHANGED <<seq, procs, op, arg>>
        /\ \A q \in Req : op[q] = "Remove" => ans'[q] = ans[q]
    BY <1>0, <1>7 DEF Check, Kill, StopReturns, Answer, mgrVars, TypeOK
  <2> QED  BY <1>3, <2>1
<1>8. ASSUME UNCHANGED <<seq, procs, op, arg, ans>> PROVE RemovedIsGone' /\ OneRemoveWins'
  BY <1>3, <1>8
<1>9. \/ \E r \in Req : \/ \E p \in Proc, n \in Pid : Fork(r, p, n)
                        \/ Register(r) \/ Launch(r)
                        \/ \E what \in {"Stop", "Remove"}, i \in Asked : Find(r, what, i)
                        \/ Check(r) \/ Kill(r) \/ Drop(r)
      \/ UNCHANGED <<seq, procs, op, arg, ans>>
  BY Steps DEF Spawn, KidsExit, Exit, Reap, SetState, vars, mgrVars, reqVars
<1> QED  BY <1>1, <1>2, <1>4, <1>5, <1>6, <1>7, <1>8, <1>9

LEMMA PidsStep == IndInv /\ [Next]_vars => LivePidsDiffer'
<1> SUFFICES ASSUME IndInv, [Next]_vars PROVE LivePidsDiffer'
  OBVIOUS
<1> USE DEF LivePidsDiffer, GroupLives
<1>0. TypeOK /\ LivePidsDiffer /\ ProcsInOrder
  BY DEF IndInv
<1>1. ASSUME pid' = pid, \A p \in Proc : GroupLives(p)' => GroupLives(p)
      PROVE  LivePidsDiffer'
  BY <1>0, <1>1
<1>2. ASSUME NEW p \in Proc,
             Spawn(p) \/ KidsExit(p) \/ Exit(p) \/ Reap(p) \/ SetState(p)
      PROVE  LivePidsDiffer'
  <2>1. pid' = pid
    BY <1>2 DEF Spawn, KidsExit, Exit, Reap, SetState, osVars
  <2>2. \A q \in Proc : GroupLives(q)' => GroupLives(q)
    BY <1>0, <1>2 DEF Spawn, KidsExit, Exit, Reap, SetState, osVars, TypeOK
  <2> QED  BY <1>1, <2>1, <2>2
<1>3. ASSUME NEW r \in Req, NEW p \in Proc, NEW n \in Pid, Fork(r, p, n)
      PROVE  LivePidsDiffer'
  <2>1. /\ pid' = [pid EXCEPT ![p] = n] /\ kids' = kids
        /\ leader' = [leader EXCEPT ![p] = "running"]
        /\ \A q \in Proc : GroupLives(q) => pid[q] # n
    BY <1>3 DEF Fork, Free
  <2>2. \A q \in Proc : q # p /\ GroupLives(q)' => GroupLives(q) /\ pid'[q] # n
    BY <1>0, <2>1 DEF TypeOK
  <2> QED  BY <1>0, <2>1, <2>2 DEF TypeOK
<1>4. ASSUME UNCHANGED <<leader, kids, pid>> PROVE LivePidsDiffer'
  BY <1>0, <1>4
<1>5. \/ \E p \in Proc : Spawn(p) \/ KidsExit(p) \/ Exit(p) \/ Reap(p) \/ SetState(p)
      \/ \E r \in Req, p \in Proc, n \in Pid : Fork(r, p, n)
      \/ UNCHANGED <<leader, kids, pid>>
  BY Steps, ZenonT(60) DEF Register, Launch, Find, Check, Kill, Drop, vars, osVars
<1> QED  BY <1>2, <1>3, <1>4, <1>5

LEMMA SignalsStep == IndInv /\ [Next]_vars => SignalsAreAskedFor'
<1> SUFFICES ASSUME IndInv, [Next]_vars PROVE SignalsAreAskedFor'
  OBVIOUS
<1> DEFINE Asker(r, q) == /\ op[r] \in {"Stop", "Remove"} /\ obj[r] \in Proc
                          /\ pid[obj[r]] = pid[q]
                          /\ obj[r] = q \/ leader[obj[r]] = "reaped"
<1>0. /\ TypeOK /\ RequestsInOrder /\ ProcsInOrder /\ LivePidsDiffer
      /\ \A q \in Proc : termed[q] => \E r \in Req : Asker(r, q)
  BY DEF IndInv, SignalsAreAskedFor
<1> SUFFICES \A q \in Proc : termed'[q] => \E r \in Req : Asker(r, q)'
  BY DEF SignalsAreAskedFor
<1>1. ASSUME termed' = termed, pid' = pid,
             \A p \in Proc : leader[p] = "reaped" => leader'[p] = "reaped",
             \A r \in Req : op[r] \in {"Stop", "Remove"} => op'[r] = op[r] /\ obj'[r] = obj[r]
      PROVE  \A q \in Proc : termed'[q] => \E r \in Req : Asker(r, q)'
  BY <1>0, <1>1
<1>2. ASSUME NEW p \in Proc,
             Spawn(p) \/ KidsExit(p) \/ Exit(p) \/ Reap(p) \/ SetState(p)
      PROVE  \A q \in Proc : termed'[q] => \E r \in Req : Asker(r, q)'
  <2>1. /\ termed' = termed /\ pid' = pid /\ op' = op /\ obj' = obj
        /\ \A q \in Proc : leader[q] = "reaped" => leader'[q] = "reaped"
    BY <1>0, <1>2 DEF Spawn, KidsExit, Exit, Reap, SetState, osVars, reqVars, TypeOK
  <2> QED  BY <1>1, <2>1
<1>3. ASSUME NEW r \in Req, NEW p \in Proc, NEW n \in Pid, Fork(r, p, n)
      PROVE  \A q \in Proc : termed'[q] => \E t \in Req : Asker(t, q)'
  <2>1. /\ termed' = termed /\ ~termed[p] /\ op[r] = "none" /\ leader[p] = "none"
        /\ \A q \in Proc : q # p => pid'[q] = pid[q] /\ leader'[q] = leader[q]
        /\ \A t \in Req : t # r => op'[t] = op[t] /\ obj'[t] = obj[t]
    BY <1>0, <1>3 DEF Fork, RequestsInOrder, ProcsInOrder, TypeOK
  <2>2. \A t \in Req : obj[t] \in Proc => obj[t] # p
    BY <1>0, <2>1 DEF RequestsInOrder
  <2>3. ASSUME NEW q \in Proc, termed'[q] PROVE \E t \in Req : Asker(t, q)'
    <3>1. PICK t \in Req : Asker(t, q)
      BY <1>0, <2>1, <2>3
    <3>2. t # r /\ q # p /\ obj[t] # p
      BY <2>1, <2>2, <2>3, <3>1
    <3>3. Asker(t, q)'
      BY <2>1, <3>1, <3>2
    <3> QED  BY <3>3
  <2> QED  BY <2>3
<1>4. ASSUME NEW r \in Req,
             \/ Register(r) \/ Launch(r) \/ Check(r) \/ Drop(r)
             \/ \E what \in {"Stop", "Remove"}, i \in Asked : Find(r, what, i)
      PROVE  \A q \in Proc : termed'[q] => \E t \in Req : Asker(t, q)'
  <2>1. UNCHANGED osVars
    BY <1>4 DEF Register, Launch, Check, Drop, Find
  <2>2. \A t \in Req : op[t] \in {"Stop", "Remove"} => op'[t] = op[t] /\ obj'[t] = obj[t]
    BY <1>0, <1>4 DEF Register, Launch, Check, Drop, Find, RequestsInOrder, TypeOK
  <2> QED  BY <1>1, <2>1, <2>2 DEF osVars
<1>5. ASSUME NEW r \in Req, Kill(r)
      PROVE  \A q \in Proc : termed'[q] => \E t \in Req : Asker(t, q)'
  <2>1. /\ UNCHANGED <<leader, kids, pid, op, obj>>
        /\ \A q \in Proc : termed'[q] => termed[q] \/ q \in Group(pid[obj[r]])
    BY <1>5 DEF Kill
  <2>2. /\ op[r] \in {"Stop", "Remove"} /\ obj[r] \in Proc
        /\ leader[obj[r]] \in {"running", "zombie", "reaped"}
    BY <1>0, <1>5 DEF Kill, RequestsInOrder, TypeOK
  <2>3. ASSUME NEW q \in Group(pid[obj[r]]) PROVE Asker(r, q)
    <3>1. q \in Proc /\ GroupLives(q) /\ pid[q] = pid[obj[r]]
      BY DEF Group
    <3>2. CASE leader[obj[r]] = "reaped"
      BY <2>2, <3>1, <3>2
    <3>3. CASE leader[obj[r]] # "reaped"
      <4>1. GroupLives(obj[r])
        BY <2>2, <3>3 DEF GroupLives
      <4>2. obj[r] = q
        BY <1>0, <2>2, <3>1, <4>1 DEF LivePidsDiffer
      <4> QED  BY <2>2, <3>1, <4>2
    <3> QED  BY <3>2, <3>3
  <2>4. \A t \in Req, q \in Proc : Asker(t, q)' <=> Asker(t, q)
    BY <2>1
  <2> QED  BY <1>0, <2>1, <2>3, <2>4
<1>6. CASE UNCHANGED vars
  BY <1>1, <1>6 DEF vars, osVars, reqVars
<1> QED  BY <1>2, <1>3, <1>4, <1>5, <1>6, Steps

LEMMA IndInvariant == Spec => []IndInv
<1>1. IndInv /\ [Next]_vars => IndInv'
  BY TypeStep, RequestsStep, StartsStep, ProcsStep, WaitedForStep, TableStep,
    RemovalsStep, PidsStep, SignalsStep DEF IndInv
<1> QED  BY <1>1, IndInit, PTL DEF Spec

-------------------------------------------------------------------------------
(* The theorems *)

\* Every variable of the process table keeps its type.
THEOREM TypeCorrect == Spec => []TypeOK
<1>1. IndInv => TypeOK
  BY DEF IndInv
<1> QED  BY <1>1, IndInvariant, PTL

\* An id stands for one process, and a process is in the table under its id.
THEOREM Coherent == Spec => []TableIsCoherent
<1>1. IndInv => TableIsCoherent
  BY DEF IndInv
<1> QED  BY <1>1, IndInvariant, PTL

\* No id comes back after its process was removed.
THEOREM FreshIds == Spec => IdsAreNotReused
<1> DEFINE Fresh == \A i \in 1 .. seq :
              i \in DOMAIN procs' => i \in DOMAIN procs /\ procs'[i] = procs[i]
<1>1. IndInv /\ [Next]_vars => Fresh
  <2> SUFFICES ASSUME IndInv, [Next]_vars PROVE Fresh
    OBVIOUS
  <2>0. seq \in Nat
    BY DEF IndInv, TypeOK
  <2>1. ASSUME NEW r \in Req, Register(r) PROVE Fresh
    BY <2>0, <2>1 DEF Register, nextID
  <2>2. ASSUME NEW r \in Req, Drop(r) PROVE Fresh
    BY <2>2 DEF Drop
  <2>3. ASSUME procs' = procs PROVE Fresh
    BY <2>3
  <2>4. (\E r \in Req : Register(r) \/ Drop(r)) \/ procs' = procs
    BY Steps DEF Spawn, KidsExit, Exit, Reap, SetState, Fork, Launch, Find,
      Check, Kill, vars, mgrVars
  <2> QED  BY <2>1, <2>2, <2>3, <2>4
<1>2. IndInv /\ [Next]_vars => [Fresh]_vars
  BY <1>1
<1> QED  BY <1>2, IndInvariant, PTL DEF Spec, IdsAreNotReused

\* Of several removals of one process exactly one is answered with success.
THEOREM RemoveOnce == Spec => []OneRemoveWins
<1>1. IndInv => OneRemoveWins
  BY DEF IndInv
<1> QED  BY <1>1, IndInvariant, PTL

\* A process that is reported as exited has been reaped.
THEOREM ExitIsFinal == Spec => []ExitedIsReaped
<1>1. IndInv => ExitedIsReaped
  BY DEF IndInv, ProcsInOrder, ExitedIsReaped
<1> QED  BY <1>1, IndInvariant, PTL

\* No process is left without someone who waits for it, removed or not.
THEOREM NobodyIsForgotten == Spec => []EveryoneIsWaitedFor
<1>1. IndInv => EveryoneIsWaitedFor
  BY DEF IndInv
<1> QED  BY <1>1, IndInvariant, PTL

\* A signal that hits a process nobody asked to stop was meant for one that had
\* its number before and has been reaped since: the only way it can go astray.
THEOREM OnlyStaleSignalsStray == Spec => []SignalsAreAskedFor
<1>1. IndInv => SignalsAreAskedFor
  BY DEF IndInv
<1> QED  BY <1>1, IndInvariant, PTL

===============================================================================
