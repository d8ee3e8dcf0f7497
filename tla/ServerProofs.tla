----------------------------- MODULE ServerProofs -----------------------------
(***************************************************************************)
(* Theorems about the trail of a server, for any number of callers, any    *)
(* requests they may send and any number of restarts.  Fairness is not     *)
(* needed: each theorem is about Spec.                                     *)
(***************************************************************************)
EXTENDS Server, SequenceTheorems, TLAPS

-------------------------------------------------------------------------------
(* The recorder alone, as Audit has it *)

Bounded(n) == IF n <= MaxRing THEN n ELSE MaxRing

\* The ring is the end of the trail since the last start.
RingIsTail ==
  /\ Len(ring) = Bounded(Len(appended) - boot)
  /\ \A i \in 1 .. Len(ring) : ring[i] = appended[Len(appended) - Len(ring) + i]

InAppended(c) == \E i \in 1 .. Len(appended) : appended[i] = c

\* A caller has an entry when it has gone through Record, and no more than one; no
\* entry is of a time to come.
OneEntryEach ==
  /\ \A c \in Caller : step[c] = "recorded" <=> InAppended(c)
  /\ \A i, j \in 1 .. Len(appended) : appended[i] = appended[j] => i = j
  /\ \A c \in Caller : at[c] <= now

AuditInv == AuditTypeOK /\ RingIsTail /\ OneEntryEach

\* Cap keeps the end of a sequence, as long as the ring can be.
LEMMA CapIsTail ==
  ASSUME NEW es \in Seq(Caller)
  PROVE  /\ Cap(es) \in Seq(Caller)
         /\ Len(Cap(es)) = Bounded(Len(es))
         /\ \A i \in 1 .. Len(Cap(es)) : Cap(es)[i] = es[Len(es) - Len(Cap(es)) + i]
<1>. MaxRing \in Nat \ {0}  BY AuditAssumption
<1>1. CASE Len(es) > MaxRing
  <2>1. Cap(es) = SubSeq(es, Len(es) - MaxRing + 1, Len(es))  BY <1>1 DEF Cap
  <2>2. Len(es) \in Nat /\ \A k \in 1 .. Len(es) : es[k] \in Caller  OBVIOUS
  <2>. QED  BY <1>1, <2>1, <2>2 DEF Bounded
<1>2. CASE ~(Len(es) > MaxRing)
  BY <1>2 DEF Cap, Bounded
<1>. QED  BY <1>1, <1>2

LEMMA AuditInitInv == AuditInit => AuditInv
<1>. SUFFICES ASSUME AuditInit PROVE AuditInv  OBVIOUS
<1>. USE AuditAssumption DEF AuditInit
<1>1. AuditTypeOK  BY DEF AuditTypeOK
<1>2. RingIsTail  BY DEF RingIsTail, Bounded
<1>3. OneEntryEach  BY DEF OneEntryEach, InAppended
<1>. QED  BY <1>1, <1>2, <1>3 DEF AuditInv

LEMMA AuditStep == AuditInv /\ [AuditNext]_auditVars => AuditInv'
<1>. SUFFICES ASSUME AuditInv, [AuditNext]_auditVars PROVE AuditInv'  OBVIOUS
<1>. MaxRing \in Nat \ {0}  BY AuditAssumption
<1>. AuditTypeOK /\ RingIsTail /\ OneEntryEach  BY DEF AuditInv
<1>1. CASE Restart
  <2>1. AuditTypeOK'  BY <1>1 DEF Restart, AuditTypeOK
  <2>2. RingIsTail'  BY <1>1 DEF Restart, AuditTypeOK, RingIsTail, Bounded
  <2>3. OneEntryEach'  BY <1>1 DEF Restart, OneEntryEach, InAppended
  <2>. QED  BY <2>1, <2>2, <2>3 DEF AuditInv
<1>2. ASSUME NEW c \in Caller, Stamp(c) PROVE AuditInv'
  <2>1. AuditTypeOK'  BY <1>2 DEF Stamp, AuditTypeOK
  <2>2. RingIsTail'  BY <1>2 DEF Stamp, RingIsTail, Bounded
  <2>3. OneEntryEach'  BY <1>2 DEF Stamp, AuditTypeOK, OneEntryEach, InAppended
  <2>. QED  BY <2>1, <2>2, <2>3 DEF AuditInv
<1>3. ASSUME NEW c \in Caller, AppendEntry(c) PROVE AuditInv'
  <2>. ring \in Seq(Caller) /\ appended \in Seq(Caller) /\ boot \in 0 .. Len(appended)
    BY DEF AuditTypeOK
  <2>. DEFINE r == Append(ring, c)
  <2>1. /\ appended' = Append(appended, c) /\ appended' \in Seq(Caller)
        /\ Len(appended') = Len(appended) + 1
        /\ appended'[Len(appended) + 1] = c
        /\ \A i \in 1 .. Len(appended) : appended'[i] = appended[i]
    BY <1>3 DEF AppendEntry
  <2>2. /\ r \in Seq(Caller) /\ Len(r) = Len(ring) + 1
        /\ r[Len(ring) + 1] = c
        /\ \A i \in 1 .. Len(ring) : r[i] = ring[i]
    OBVIOUS
  <2>3. ring' = Cap(r) /\ boot' = boot  BY <1>3 DEF AppendEntry
  <2>4. /\ ring' \in Seq(Caller) /\ Len(ring') = Bounded(Len(r))
        /\ \A i \in 1 .. Len(ring') : ring'[i] = r[Len(r) - Len(ring') + i]
    BY <2>2, <2>3, CapIsTail
  <2>5. AuditTypeOK'
    <3>1. Len(ring') <= MaxRing  BY <2>2, <2>4 DEF Bounded
    <3>2. file' \in Seq(Caller)
      <4>1. file' = Append(file, c) \/ file' = file  BY <1>3, Zenon DEF AppendEntry
      <4>2. file \in Seq(Caller)  BY DEF AuditTypeOK
      <4>3. Append(file, c) \in Seq(Caller)  BY <4>2
      <4>. QED  BY <4>1, <4>2, <4>3
    <3>3. boot' \in 0 .. Len(appended')  BY <2>1, <2>3
    <3>4. step' \in [Caller -> {"out", "stamped", "recorded"}] /\ now' \in Nat /\ at' \in [Caller -> Nat]
      BY <1>3 DEF AppendEntry, AuditTypeOK
    <3>. QED  BY <2>1, <2>4, <3>1, <3>2, <3>3, <3>4 DEF AuditTypeOK
  <2>6. RingIsTail'
    <3>1. Len(ring') = Bounded(Len(appended') - boot')
      BY <2>1, <2>2, <2>3, <2>4 DEF RingIsTail, Bounded
    <3>2. Len(ring') <= Len(r)  BY <2>2, <2>4 DEF Bounded
    <3>3. \A j \in 1 .. Len(r) : r[j] = appended'[Len(appended') - Len(r) + j]
      <4>. SUFFICES ASSUME NEW j \in 1 .. Len(r)
           PROVE r[j] = appended'[Len(appended') - Len(r) + j]
        OBVIOUS
      <4>1. Len(ring) \in Nat /\ Len(ring) <= Len(appended)  BY DEF RingIsTail, Bounded
      <4>2. CASE j = Len(ring) + 1
        <5>1. Len(appended') - Len(r) + j = Len(appended) + 1  BY <2>1, <2>2, <4>1, <4>2
        <5>. QED  BY <2>1, <2>2, <4>2, <5>1
      <4>3. CASE j \in 1 .. Len(ring)
        <5>1. r[j] = appended[Len(appended) - Len(ring) + j]  BY <2>2, <4>3 DEF RingIsTail
        <5>2. Len(appended') - Len(r) + j = Len(appended) - Len(ring) + j  BY <2>1, <2>2, <4>1
        <5>3. Len(appended) - Len(ring) + j \in 1 .. Len(appended)  BY <4>1, <4>3
        <5>. QED  BY <2>1, <5>1, <5>2, <5>3
      <4>. QED  BY <2>2, <4>1, <4>2, <4>3
    <3>4. ASSUME NEW i \in 1 .. Len(ring')
          PROVE  ring'[i] = appended'[Len(appended') - Len(ring') + i]
      <4>. DEFINE j == Len(r) - Len(ring') + i
      <4>1. ring'[i] = r[j] /\ j \in 1 .. Len(r)  BY <2>2, <2>4, <3>2
      <4>2. Len(appended') - Len(r) + j = Len(appended') - Len(ring') + i  BY <2>1, <2>2, <2>4
      <4>. QED  BY <3>3, <4>1, <4>2
    <3>. QED  BY <3>1, <3>4 DEF RingIsTail
  <2>7. OneEntryEach'
    <3>1. ~ InAppended(c)  BY <1>3 DEF AppendEntry, OneEntryEach
    <3>2. step' = [step EXCEPT ![c] = "recorded"] /\ at' = at /\ now' = now  BY <1>3 DEF AppendEntry
    <3>3. \A d \in Caller : step'[d] = "recorded" <=> InAppended(d)'
      BY <2>1, <3>2 DEF OneEntryEach, InAppended, AuditTypeOK
    <3>4. \A i, j \in 1 .. Len(appended') : appended'[i] = appended'[j] => i = j
      BY <2>1, <3>1 DEF OneEntryEach, InAppended
    <3>. QED  BY <3>2, <3>3, <3>4 DEF OneEntryEach
  <2>. QED  BY <2>5, <2>6, <2>7 DEF AuditInv
<1>4. CASE UNCHANGED auditVars
  <2>1. AuditTypeOK'  BY <1>4 DEF auditVars, AuditTypeOK
  <2>2. RingIsTail'  BY <1>4 DEF auditVars, RingIsTail, Bounded
  <2>3. OneEntryEach'  BY <1>4 DEF auditVars, OneEntryEach, InAppended
  <2>. QED  BY <2>1, <2>2, <2>3 DEF AuditInv
<1>. QED  BY <1>1, <1>2, <1>3, <1>4 DEF AuditNext

LEMMA AuditAlways == AuditSpec => []AuditInv
BY AuditInitInv, AuditStep, PTL DEF AuditSpec

\* Recent answers from the ring, and the ring is the end of the trail.
LEMMA TailIsLatest == AuditInv => RecentIsLatest
<1>. SUFFICES ASSUME AuditInv, NEW limit \in -1 .. MaxRing + 1
     PROVE  LET out == Recent(limit)
                wanted == IF limit <= 0 \/ limit > MaxRing THEN MaxRing ELSE limit
                there == Len(appended) - boot
            IN /\ Len(out) = IF wanted <= there THEN wanted ELSE there
               /\ \A i \in 1 .. Len(out) : out[i] = appended[Len(appended) - Len(out) + i]
  BY DEF RecentIsLatest
<1>. DEFINE n == IF limit <= 0 \/ limit > Len(ring) THEN Len(ring) ELSE limit
            out == Recent(limit)
<1>. MaxRing \in Nat \ {0}  BY AuditAssumption
<1>1. /\ ring \in Seq(Caller) /\ appended \in Seq(Caller) /\ boot \in 0 .. Len(appended)
      /\ Len(ring) = Bounded(Len(appended) - boot)
      /\ \A i \in 1 .. Len(ring) : ring[i] = appended[Len(appended) - Len(ring) + i]
  BY DEF AuditInv, AuditTypeOK, RingIsTail
<1>2. n \in 0 .. Len(ring)  BY <1>1
<1>3. /\ Len(out) = n
      /\ \A i \in 1 .. n : out[i] = ring[Len(ring) - n + i]
  <2>1. out = SubSeq(ring, Len(ring) - n + 1, Len(ring))  BY DEF Recent
  <2>2. \A k \in 1 .. Len(ring) : ring[k] \in Caller  BY <1>1
  <2>. HIDE DEF n, out
  <2>3. Len(ring) \in Nat /\ \A k \in Len(ring) - n + 1 .. Len(ring) : ring[k] \in Caller
    BY <1>1, <1>2, <2>2
  <2>4. /\ Len(out) = IF Len(ring) - n + 1 <= Len(ring) THEN Len(ring) - (Len(ring) - n + 1) + 1 ELSE 0
        /\ \A i \in 1 .. Len(ring) - (Len(ring) - n + 1) + 1 : out[i] = ring[Len(ring) - n + 1 + i - 1]
    BY <1>2, <2>1, <2>3, SubSeqProperties
  <2>. QED  BY <1>2, <2>3, <2>4
<1>4. \A i \in 1 .. n : Len(ring) - n + i \in 1 .. Len(ring)  BY <1>1, <1>2
<1>5. \A i \in 1 .. n : out[i] = appended[Len(appended) - n + i]
  BY <1>1, <1>2, <1>3, <1>4, SMTT(40)
<1>6. n = IF (IF limit <= 0 \/ limit > MaxRing THEN MaxRing ELSE limit) <= Len(appended) - boot
          THEN (IF limit <= 0 \/ limit > MaxRing THEN MaxRing ELSE limit)
          ELSE Len(appended) - boot
  BY <1>1 DEF Bounded
<1>. HIDE DEF n
<1>. QED  BY <1>3, <1>5, <1>6

-------------------------------------------------------------------------------
(* The recorder of a server, and its callers *)

Places == {"idle", "record", "act", "reply", "public", "moved", "unknown", "vnc", "follow",
           "streaming", "tunnel", "panic", "answered", "lost"}

Answers == {"none", "ok", "moved", "error"}

Asked == {NoReq} \cup UNION {Asks[c] : c \in Caller}

TypeOK ==
  /\ main \in {"serving", "stopping", "closing", "leaving", "exited"}
  /\ exit \in {"none", "drained", "late"}
  /\ req \in [Caller -> Asked] /\ before \in [Caller -> SUBSET Caller]
  /\ pc \in [Caller -> Places] /\ answer \in [Caller -> Answers]
  /\ done \in [Caller -> BOOLEAN]

\* What the place of a caller says about its entry, its effect and its answer.
CallerOK(c) ==
  /\ pc[c] = "idle" => step[c] = "out" /\ ~done[c] /\ answer[c] = "none"
  /\ pc[c] = "record" => (When(c) = "after" /\ done[c]) \/ (When(c) = "before" /\ ~done[c])
  /\ pc[c] = "act" => IF When(c) = "before" THEN step[c] = "recorded" ELSE step[c] = "out"
  /\ pc[c] = "reply" => step[c] = "recorded"
  /\ pc[c] \in {"public", "moved", "unknown", "vnc", "follow"} => When(c) = "never"
  /\ answer[c] = "ok" /\ When(c) # "never" => step[c] = "recorded"
  /\ step[c] = "recorded" => done[c] \/ When(c) = "before"
  /\ When(c) = "before" /\ done[c] => step[c] = "recorded"

\* What came before a request stands before it.
BeforeOK(c) ==
  \A d \in before[c] :
    /\ step[d] = "recorded"
    /\ step[c] # "out" => at[d] <= at[c]
    /\ \A i, j \in 1 .. Len(appended) : appended[i] = d /\ appended[j] = c => i < j

\* No request comes once Shutdown has seen the last of them.
ExitOK == exit = "drained" => main \notin {"serving", "stopping"} /\ InFlight = {}

ServerInv ==
  /\ TypeOK
  /\ \A c \in Caller : CallerOK(c) /\ BeforeOK(c)
  /\ ExitOK

-------------------------------------------------------------------------------
(* The recorder of a server is a recorder. *)

\* The trail is touched by Start and by Record only, and as Audit has it.
LEMMA ServerStepAudits == [Next]_vars => [AuditNext]_auditVars
<1>. SUFFICES ASSUME [Next]_vars PROVE [AuditNext]_auditVars  OBVIOUS
<1>1. ASSUME NEW c \in Caller, Serve(c) PROVE [AuditNext]_auditVars
  <2>1. CASE Record(c)  BY <2>1 DEF Record, AuditNext
  <2>2. CASE Recover(c) \/ Act(c) \/ WriteJSON(c) \/ Follow(c) \/ End(c) \/ Proxy(c)
    BY <2>2 DEF Recover, Act, WriteJSON, Follow, End, Proxy
  <2>. QED  BY <1>1, <2>1, <2>2 DEF Serve
<1>2. ASSUME NEW c \in Caller, NEW r \in Asks[c], Arrive(c, r) PROVE [AuditNext]_auditVars
  BY <1>2 DEF Arrive
<1>3. CASE Signal \/ Shutdown \/ Crash
  BY <1>3 DEF Signal, Shutdown, Drained, Late, ShutdownReturns, CloseTrail, Exit, Crash, Die
<1>4. CASE Start  BY <1>4 DEF Start, AuditNext
<1>5. CASE UNCHANGED vars  BY <1>5 DEF vars
<1>. QED  BY <1>1, <1>2, <1>3, <1>4, <1>5 DEF Next

\* Whatever the callers and main do, their recorder does what Audit says.
THEOREM ServerAudits == Spec => AuditSpec
<1>1. Init => AuditInit  BY DEF Init
<1>. QED  BY <1>1, ServerStepAudits, PTL DEF Spec, AuditSpec

-------------------------------------------------------------------------------
(* The invariant of a server *)

LEMMA WhenIs == \A c \in Caller : When(c) \in {"never", "before", "after"}
BY DEF When

\* When a request is recorded depends on the request alone.
LEMMA WhenKept ==
  ASSUME NEW c \in Caller, req'[c] = req[c]
  PROVE  When(c)' = When(c) /\ Via(c)' = Via(c)
BY DEF When, Via

LEMMA ServerInitInv == Init => ServerInv
<1>. SUFFICES ASSUME Init PROVE ServerInv  OBVIOUS
<1>1. TypeOK  BY DEF Init, TypeOK, Asked, Places, Answers
<1>2. ASSUME NEW c \in Caller PROVE CallerOK(c) /\ BeforeOK(c)
  <2>1. step[c] = "out" /\ pc[c] = "idle" /\ ~done[c] /\ answer[c] = "none" /\ before[c] = {}
    BY DEF Init, AuditInit
  <2>. QED  BY <2>1 DEF CallerOK, BeforeOK
<1>3. ExitOK  BY DEF Init, ExitOK
<1>. QED  BY <1>1, <1>2, <1>3 DEF ServerInv

\* A caller that does nothing, and has nothing done to it, stays as it should be.
LEMMA OthersKeep ==
  ASSUME NEW d \in Caller, CallerOK(d),
         req'[d] = req[d], pc'[d] = pc[d], answer'[d] = answer[d], done'[d] = done[d],
         step'[d] = step[d]
  PROVE  CallerOK(d)'
<1>1. When(d)' = When(d)  BY WhenKept
<1>. QED  BY <1>1 DEF CallerOK

\* What came before a request does not change while nothing is recorded.
LEMMA BeforeKept ==
  ASSUME \A d \in Caller : BeforeOK(d), UNCHANGED <<step, at, appended, before>>
  PROVE  \A d \in Caller : BeforeOK(d)'
BY DEF BeforeOK

\* Serving a request takes nobody back into flight.
LEMMA ServeExits ==
  ASSUME TypeOK, ExitOK, NEW c \in Caller, NEW l \in Places, UNCHANGED <<main, exit>>,
         pc[c] # "idle", pc[c] \in {"answered", "lost", "tunnel"} => l \in Over,
         pc' = [pc EXCEPT ![c] = l]
  PROVE  ExitOK'
<1>1. ASSUME NEW d \in Caller, d \notin InFlight, InFlight = {} PROVE d \notin InFlight'
  BY <1>1 DEF InFlight, Over, TypeOK, Places
<1>2. InFlight = {} => InFlight' = {}  BY <1>1 DEF InFlight
<1>. QED  BY <1>2 DEF ExitOK

LEMMA TypeStep == TypeOK /\ [Next]_vars => TypeOK'
<1>. SUFFICES ASSUME TypeOK, [Next]_vars PROVE TypeOK'  OBVIOUS
<1>. USE DEF TypeOK, Places, Answers
<1>1. ASSUME NEW c \in Caller, Serve(c) PROVE TypeOK'
  <2>1. CASE Recover(c)  BY <2>1 DEF Recover, Reply, Send, Goto, mainVars, reqVars
  <2>2. CASE Act(c)  BY <2>2 DEF Act, Reply, Send, Goto, mainVars, reqVars
  <2>3. CASE Record(c)  BY <2>3 DEF Record, Goto, mainVars, reqVars
  <2>4. CASE WriteJSON(c)  BY <2>4 DEF WriteJSON, Reply, Send, Goto, mainVars, reqVars
  <2>5. CASE Follow(c)  BY <2>5 DEF Follow, Reply, Send, Goto, mainVars, reqVars
  <2>6. CASE End(c)  BY <2>6 DEF End, Goto, mainVars, reqVars
  <2>7. CASE Proxy(c)  BY <2>7 DEF Proxy, Reply, Send, Goto, mainVars, reqVars
  <2>. QED  BY <1>1, <2>1, <2>2, <2>3, <2>4, <2>5, <2>6, <2>7 DEF Serve
<1>2. ASSUME NEW c \in Caller, NEW r \in Asks[c], Arrive(c, r) PROVE TypeOK'
  <2>1. req' \in [Caller -> Asked]  BY <1>2 DEF Arrive, Asked
  <2>2. before' \in [Caller -> SUBSET Caller]  BY <1>2 DEF Arrive
  <2>3. Entry(c)' \in Places  BY DEF Entry, Via, Route, When
  <2>4. pc' \in [Caller -> Places] /\ answer' \in [Caller -> Answers]
    BY <1>2, <2>3 DEF Arrive, Reply, Send, Goto
  <2>. QED  BY <1>2, <2>1, <2>2, <2>4 DEF Arrive, mainVars
<1>3. CASE Signal \/ Shutdown \/ Crash \/ Start
  BY <1>3 DEF Signal, Shutdown, Drained, Late, ShutdownReturns, CloseTrail, Exit, Crash, Die, Start, reqVars
<1>5. CASE UNCHANGED vars  BY <1>5 DEF vars, mainVars, reqVars
<1>. QED  BY <1>1, <1>2, <1>3, <1>5 DEF Next

-------------------------------------------------------------------------------
(* One lemma per action: what it leaves of CallerOK, BeforeOK and ExitOK *)

Rest == (\A c \in Caller : CallerOK(c) /\ BeforeOK(c)) /\ ExitOK

\* What a step of one caller that records nothing must show.
LEMMA StepOfOne ==
  ASSUME TypeOK, Rest, NEW c \in Caller, NEW l \in Places, NEW s \in Answers, NEW b \in BOOLEAN,
         UNCHANGED <<auditVars, mainVars, reqVars>>,
         pc[c] # "idle", pc[c] \in {"answered", "lost", "tunnel"} => l \in Over,
         pc' = [pc EXCEPT ![c] = l], answer' = [answer EXCEPT ![c] = s],
         done' = [done EXCEPT ![c] = b],
         CallerOK(c)'
  PROVE  Rest'
<1>1. ASSUME NEW d \in Caller, d # c PROVE CallerOK(d)'
  BY <1>1, OthersKeep DEF Rest, TypeOK, auditVars, reqVars
<1>2. \A d \in Caller : BeforeOK(d)'
  BY BeforeKept DEF Rest, reqVars, auditVars
<1>3. ExitOK'  BY ServeExits DEF Rest, mainVars
<1>. QED  BY <1>1, <1>2, <1>3 DEF Rest

LEMMA RecoverStep ==
  ASSUME TypeOK, Rest, NEW c \in Caller, Recover(c) PROVE Rest'
<1>. DEFINE s == IF answer[c] = "none" THEN "error" ELSE answer[c]
<1>1. /\ pc[c] = "panic" /\ pc' = [pc EXCEPT ![c] = "answered"]
      /\ answer' = [answer EXCEPT ![c] = s] /\ done' = [done EXCEPT ![c] = done[c]]
      /\ UNCHANGED <<auditVars, mainVars, reqVars>>
  BY DEF Recover, Reply, Send, Goto, TypeOK
<1>2. s \in Answers /\ "answered" \in Places /\ done[c] \in BOOLEAN  BY DEF TypeOK, Answers, Places
<1>3. When(c)' = When(c)  BY <1>1, WhenKept DEF reqVars
<1>4. CallerOK(c)'
  BY <1>1, <1>3 DEF Rest, CallerOK, TypeOK, auditVars
<1>. QED  BY <1>1, <1>2, <1>4, StepOfOne DEF Over

LEMMA ActStep ==
  ASSUME TypeOK, Rest, NEW c \in Caller, Act(c) PROVE Rest'
<1>1. pc[c] = "act" /\ UNCHANGED <<auditVars, mainVars, reqVars>>  BY DEF Act
<1>2. When(c)' = When(c)  BY <1>1, WhenKept DEF reqVars
<1>3. PICK b \in BOOLEAN : done' = [done EXCEPT ![c] = b]  BY DEF Act
<1>4. CASE b /\ When(c) = "after" /\ Goto(c, "record") /\ UNCHANGED answer
  <2>1. CallerOK(c)'
    BY <1>1, <1>2, <1>3, <1>4 DEF Goto, Rest, CallerOK, TypeOK, auditVars
  <2>2. answer' = [answer EXCEPT ![c] = answer[c]] /\ answer[c] \in Answers  BY <1>4 DEF TypeOK
  <2>3. pc' = [pc EXCEPT ![c] = "record"] /\ "record" \in Places  BY <1>4 DEF Goto, Places
  <2>. QED  BY <1>1, <1>3, <2>1, <2>2, <2>3, StepOfOne
<1>5. CASE b /\ When(c) # "after" /\ Reply(c, "ok")
  <2>1. CallerOK(c)'
    BY <1>1, <1>2, <1>3, <1>5, WhenIs DEF Reply, Send, Goto, Rest, CallerOK, TypeOK, auditVars
  <2>. QED  BY <1>1, <1>3, <1>5, <2>1, StepOfOne DEF Reply, Send, Goto, Places, Answers, Over
<1>6. CASE Reply(c, "error")
  <2>1. CallerOK(c)'
    BY <1>1, <1>2, <1>3, <1>6 DEF Reply, Send, Goto, Rest, CallerOK, TypeOK, auditVars
  <2>. QED  BY <1>1, <1>3, <1>6, <2>1, StepOfOne DEF Reply, Send, Goto, Places, Answers, Over
<1>7. CASE Goto(c, "panic") /\ UNCHANGED answer
  <2>1. CallerOK(c)'
    BY <1>1, <1>2, <1>3, <1>7 DEF Goto, Rest, CallerOK, TypeOK, auditVars
  <2>2. answer' = [answer EXCEPT ![c] = answer[c]] /\ answer[c] \in Answers  BY <1>7 DEF TypeOK
  <2>3. pc' = [pc EXCEPT ![c] = "panic"] /\ "panic" \in Places  BY <1>7 DEF Goto, Places
  <2>. QED  BY <1>1, <1>3, <2>1, <2>2, <2>3, StepOfOne
<1>. QED  BY <1>3, <1>4, <1>5, <1>6, <1>7 DEF Act, TypeOK

LEMMA WriteJSONStep ==
  ASSUME TypeOK, Rest, NEW c \in Caller, WriteJSON(c) PROVE Rest'
<1>1. /\ pc[c] \in {"reply", "public", "moved", "unknown"}
      /\ UNCHANGED <<auditVars, mainVars, reqVars, done>>
  BY DEF WriteJSON
<1>2. PICK s \in Answers : Reply(c, s)  BY DEF WriteJSON, Answers
<1>3. When(c)' = When(c)  BY <1>1, WhenKept DEF reqVars
<1>4. CallerOK(c)'
  BY <1>1, <1>2, <1>3 DEF Reply, Send, Goto, Rest, CallerOK, TypeOK, auditVars
<1>5. done' = [done EXCEPT ![c] = done[c]] /\ done[c] \in BOOLEAN  BY <1>1 DEF TypeOK
<1>6. pc' = [pc EXCEPT ![c] = "answered"] /\ "answered" \in Places \cap Over
  BY <1>2 DEF Reply, Goto, Places, Over
<1>7. answer' = [answer EXCEPT ![c] = s]  BY <1>2 DEF Reply, Send
<1>. QED  BY <1>1, <1>4, <1>5, <1>6, <1>7, StepOfOne

LEMMA FollowStep ==
  ASSUME TypeOK, Rest, NEW c \in Caller, Follow(c) PROVE Rest'
<1>1. pc[c] = "follow" /\ UNCHANGED <<auditVars, mainVars, reqVars, done>>  BY DEF Follow
<1>2. PICK s \in Answers, l \in {"answered", "streaming"} : Send(c, s) /\ Goto(c, l)
  BY DEF Follow, Reply, Answers
<1>3. When(c)' = When(c)  BY <1>1, WhenKept DEF reqVars
<1>4. CallerOK(c)'
  BY <1>1, <1>2, <1>3 DEF Send, Goto, Rest, CallerOK, TypeOK, auditVars
<1>5. done' = [done EXCEPT ![c] = done[c]] /\ done[c] \in BOOLEAN  BY <1>1 DEF TypeOK
<1>6. pc' = [pc EXCEPT ![c] = l] /\ l \in Places  BY <1>2 DEF Goto, Places
<1>7. answer' = [answer EXCEPT ![c] = s]  BY <1>2 DEF Send
<1>. QED  BY <1>1, <1>4, <1>5, <1>6, <1>7, StepOfOne

LEMMA EndStep ==
  ASSUME TypeOK, Rest, NEW c \in Caller, End(c) PROVE Rest'
<1>1. /\ pc[c] \in {"streaming", "tunnel"} /\ Goto(c, "answered")
      /\ UNCHANGED <<auditVars, mainVars, reqVars, answer, done>>
  BY DEF End
<1>2. When(c)' = When(c)  BY <1>1, WhenKept DEF reqVars
<1>3. CallerOK(c)'
  BY <1>1, <1>2 DEF Goto, Rest, CallerOK, TypeOK, auditVars
<1>4. done' = [done EXCEPT ![c] = done[c]] /\ done[c] \in BOOLEAN  BY <1>1 DEF TypeOK
<1>5. answer' = [answer EXCEPT ![c] = answer[c]] /\ answer[c] \in Answers  BY <1>1 DEF TypeOK
<1>6. pc' = [pc EXCEPT ![c] = "answered"] /\ "answered" \in Places \cap Over
  BY <1>1 DEF Goto, Places, Over
<1>. QED  BY <1>1, <1>3, <1>4, <1>5, <1>6, StepOfOne

LEMMA ProxyStep ==
  ASSUME TypeOK, Rest, NEW c \in Caller, Proxy(c) PROVE Rest'
<1>1. pc[c] = "vnc" /\ UNCHANGED <<auditVars, mainVars, reqVars, done>>  BY DEF Proxy
<1>2. PICK s \in Answers, l \in {"answered", "tunnel", "panic"} : Send(c, s) /\ Goto(c, l)
  BY DEF Proxy, Reply, Answers
<1>3. When(c)' = When(c)  BY <1>1, WhenKept DEF reqVars
<1>4. CallerOK(c)'
  BY <1>1, <1>2, <1>3 DEF Send, Goto, Rest, CallerOK, TypeOK, auditVars
<1>5. done' = [done EXCEPT ![c] = done[c]] /\ done[c] \in BOOLEAN  BY <1>1 DEF TypeOK
<1>6. pc' = [pc EXCEPT ![c] = l] /\ l \in Places  BY <1>2 DEF Goto, Places
<1>7. answer' = [answer EXCEPT ![c] = s]  BY <1>2 DEF Send
<1>. QED  BY <1>1, <1>4, <1>5, <1>6, <1>7, StepOfOne

\* The time of an entry is taken: nothing that came before it is later.
LEMMA StampStep ==
  ASSUME TypeOK, AuditInv, Rest, NEW c \in Caller, pc[c] = "record", Stamp(c),
         UNCHANGED <<mainVars, reqVars, pc, answer, done>>
  PROVE  Rest'
<1>1. /\ step[c] = "out" /\ step' = [step EXCEPT ![c] = "stamped"]
      /\ now' \in {now, now + 1} /\ at' = [at EXCEPT ![c] = now'] /\ appended' = appended
  BY DEF Stamp
<1>2. /\ step \in [Caller -> {"out", "stamped", "recorded"}]
      /\ now \in Nat /\ at \in [Caller -> Nat] /\ \A d \in Caller : at[d] <= now
  BY DEF AuditInv, AuditTypeOK, OneEntryEach
<1>3. ASSUME NEW d \in Caller PROVE CallerOK(d)'
  <2>1. When(d)' = When(d)  BY WhenKept DEF reqVars
  <2>2. CASE d = c  BY <1>1, <1>2, <2>1, <2>2 DEF Rest, CallerOK
  <2>3. CASE d # c  BY <1>1, <1>2, <2>3, OthersKeep DEF Rest, reqVars
  <2>. QED  BY <2>2, <2>3
<1>4. ASSUME NEW d \in Caller, NEW e \in before[d]
      PROVE  /\ step'[e] = "recorded"
             /\ step'[d] # "out" => at'[e] <= at'[d]
             /\ \A i, j \in 1 .. Len(appended) : appended[i] = e /\ appended[j] = d => i < j
  <2>1. e \in Caller  BY DEF TypeOK
  <2>2. step[e] = "recorded" /\ e # c
        /\ (step[d] # "out" => at[e] <= at[d])
        /\ \A i, j \in 1 .. Len(appended) : appended[i] = e /\ appended[j] = d => i < j
    BY <1>1 DEF Rest, BeforeOK
  <2>3. at'[e] = at[e] /\ step'[e] = step[e]  BY <1>1, <1>2, <2>1, <2>2
  <2>4. CASE d = c  BY <1>1, <1>2, <2>1, <2>2, <2>3, <2>4
  <2>5. CASE d # c  BY <1>1, <1>2, <2>1, <2>2, <2>3, <2>5
  <2>. QED  BY <2>4, <2>5
<1>5. \A d \in Caller : BeforeOK(d)'  BY <1>1, <1>4 DEF BeforeOK, reqVars
<1>6. ExitOK'  BY DEF Rest, ExitOK, InFlight, mainVars
<1>. QED  BY <1>3, <1>5, <1>6 DEF Rest

\* The entry is made: it stands behind all that came before it.
LEMMA EntryStep ==
  ASSUME TypeOK, AuditInv, Rest, NEW c \in Caller, pc[c] = "record", AppendEntry(c),
         Goto(c, IF When(c) = "before" THEN "act" ELSE "reply"),
         UNCHANGED <<mainVars, reqVars, answer, done>>
  PROVE  Rest'
<1>1. /\ step[c] = "stamped" /\ step' = [step EXCEPT ![c] = "recorded"]
      /\ at' = at /\ appended' = Append(appended, c)
  BY DEF AppendEntry
<1>2. /\ step \in [Caller -> {"out", "stamped", "recorded"}]
      /\ at \in [Caller -> Nat] /\ appended \in Seq(Caller)
      /\ \A d \in Caller : step[d] = "recorded" <=> InAppended(d)
  BY DEF AuditInv, AuditTypeOK, OneEntryEach
<1>3. ASSUME NEW d \in Caller PROVE CallerOK(d)'
  <2>1. When(d)' = When(d)  BY WhenKept DEF reqVars
  <2>2. CASE d = c  BY <1>1, <1>2, <2>1, <2>2 DEF Rest, CallerOK, Goto, TypeOK
  <2>3. CASE d # c  BY <1>1, <1>2, <2>3, OthersKeep DEF Rest, reqVars, Goto, TypeOK
  <2>. QED  BY <2>2, <2>3
<1>4. /\ Len(appended') = Len(appended) + 1 /\ Len(appended) \in Nat
      /\ appended'[Len(appended) + 1] = c
      /\ \A i \in 1 .. Len(appended) : appended'[i] = appended[i]
  BY <1>1, <1>2
<1>5. ASSUME NEW d \in Caller, NEW e \in before[d]
      PROVE  /\ step'[e] = "recorded"
             /\ step'[d] # "out" => at'[e] <= at'[d]
             /\ \A i, j \in 1 .. Len(appended') : appended'[i] = e /\ appended'[j] = d => i < j
  <2>1. e \in Caller  BY DEF TypeOK
  <2>2. step[e] = "recorded" /\ e # c
        /\ (step[d] # "out" => at[e] <= at[d])
        /\ \A i, j \in 1 .. Len(appended) : appended[i] = e /\ appended[j] = d => i < j
    BY <1>1 DEF Rest, BeforeOK
  <2>3. step'[e] = "recorded"  BY <1>1, <1>2, <2>1, <2>2
  <2>4. step'[d] # "out" => at'[e] <= at'[d]  BY <1>1, <1>2, <2>2
  <2>5. ASSUME NEW i \in 1 .. Len(appended'), NEW j \in 1 .. Len(appended'),
               appended'[i] = e, appended'[j] = d
        PROVE  i < j
    <3>1. i \in 1 .. Len(appended)  BY <1>4, <2>2, <2>5
    <3>2. CASE j = Len(appended) + 1  BY <1>4, <3>1, <3>2
    <3>3. CASE j \in 1 .. Len(appended)  BY <1>4, <2>2, <2>5, <3>1, <3>3
    <3>. QED  BY <1>4, <3>2, <3>3
  <2>. QED  BY <2>3, <2>4, <2>5
<1>6. \A d \in Caller : BeforeOK(d)'  BY <1>5 DEF BeforeOK, reqVars
<1>7. PICK l \in {"act", "reply"} : pc' = [pc EXCEPT ![c] = l]  BY DEF Goto
<1>8. ExitOK'  BY <1>7, ServeExits DEF Rest, mainVars, Places
<1>. QED  BY <1>3, <1>6, <1>8 DEF Rest

LEMMA RecordStep ==
  ASSUME TypeOK, AuditInv, Rest, NEW c \in Caller, Record(c) PROVE Rest'
BY StampStep, EntryStep DEF Record

\* Where a request goes tells when it is recorded.
LEMMA EntryIs ==
  ASSUME NEW c \in Caller
  PROVE  /\ Entry(c)' \in {"public", "moved", "unknown", "vnc", "follow", "record", "act"}
         /\ Entry(c)' = "record" => When(c)' = "before"
         /\ Entry(c)' = "act" => When(c)' # "before"
         /\ Entry(c)' \notin {"record", "act"} => When(c)' = "never"
BY DEF Entry, Via, Route, When

LEMMA ArriveStep ==
  ASSUME TypeOK, AuditInv, Rest, NEW c \in Caller, NEW r \in Asks[c], Arrive(c, r) PROVE Rest'
<1>1. /\ pc[c] = "idle" /\ req' = [req EXCEPT ![c] = r]
      /\ before' = [before EXCEPT ![c] = {d \in Caller : answer[d] = "ok" /\ When(d) # "never"}]
      /\ UNCHANGED <<auditVars, mainVars, done>>
      /\ main \in {"serving", "stopping"} \/ exit = "late"
  BY DEF Arrive
<1>2. step[c] = "out" /\ ~done[c] /\ answer[c] = "none" /\ UNCHANGED <<step, at, appended>>
  BY <1>1 DEF Rest, CallerOK, auditVars
<1>3. PICK l \in {Entry(c)', "answered"}, s \in {"none", "error"} :
        pc' = [pc EXCEPT ![c] = l] /\ answer' = [answer EXCEPT ![c] = s]
  BY <1>2 DEF Arrive, Reply, Send, Goto, TypeOK
<1>4. CallerOK(c)'  BY <1>1, <1>2, <1>3, EntryIs DEF CallerOK, TypeOK
<1>5. ASSUME NEW d \in Caller, d # c PROVE CallerOK(d)'
  BY <1>1, <1>2, <1>3, <1>5, OthersKeep DEF Rest, TypeOK
<1>6. BeforeOK(c)'
  <2>1. ASSUME NEW d \in before'[c] PROVE step[d] = "recorded"
    BY <1>1 DEF Rest, CallerOK, TypeOK
  <2>2. ~ InAppended(c)  BY <1>2 DEF AuditInv, OneEntryEach
  <2>. QED  BY <1>2, <2>1, <2>2 DEF BeforeOK, InAppended
<1>7. ASSUME NEW d \in Caller, d # c PROVE BeforeOK(d)'
  <2>1. before'[d] = before[d]  BY <1>1, <1>7 DEF TypeOK
  <2>. QED  BY <1>2, <2>1 DEF Rest, BeforeOK
<1>8. ExitOK'  BY <1>1 DEF Rest, ExitOK, mainVars
<1>. QED  BY <1>4, <1>5, <1>6, <1>7, <1>8 DEF Rest

\* What main does leaves the callers where they are, or lost.
LEMMA MainStep ==
  ASSUME TypeOK, Rest, Signal \/ Shutdown \/ Crash \/ Start PROVE Rest'
<1>1. UNCHANGED <<step, at, appended, reqVars, answer, done>>
  BY DEF Signal, Shutdown, Drained, Late, ShutdownReturns, CloseTrail, Exit, Crash, Die, Start,
         Restart, auditVars
<1>2. \A d \in Caller : pc'[d] = pc[d] \/ pc'[d] = "lost"
  BY DEF Signal, Shutdown, Drained, Late, ShutdownReturns, CloseTrail, Exit, Crash, Die, Start
<1>3. ASSUME NEW d \in Caller PROVE CallerOK(d)'
  <2>1. When(d)' = When(d)  BY <1>1, WhenKept DEF reqVars
  <2>. QED  BY <1>1, <1>2, <2>1 DEF Rest, CallerOK
<1>4. \A d \in Caller : BeforeOK(d)'  BY <1>1, BeforeKept DEF Rest, reqVars
<1>5. InFlight' \subseteq InFlight
  <2>1. pc' = pc \/ pc' = [c \in Caller |-> IF pc[c] \in Over THEN pc[c] ELSE "lost"]
    BY DEF Signal, Shutdown, Drained, Late, ShutdownReturns, CloseTrail, Exit, Crash, Die, Start
  <2>. QED  BY <2>1 DEF InFlight, Over
<1>6. ExitOK'
  <2>1. CASE Signal  BY <1>5, <2>1 DEF Signal, Rest, ExitOK
  <2>2. CASE Drained  BY <1>5, <2>2 DEF Drained, ShutdownReturns, ExitOK
  <2>3. CASE Late  BY <2>3 DEF Late, ShutdownReturns, ExitOK
  <2>4. CASE CloseTrail  BY <1>5, <2>4 DEF CloseTrail, Rest, ExitOK
  <2>5. CASE Exit \/ Crash  BY <1>5, <2>5 DEF Exit, Crash, Die, Rest, ExitOK
  <2>6. CASE Start  BY <2>6 DEF Start, ExitOK
  <2>. QED  BY <2>1, <2>2, <2>3, <2>4, <2>5, <2>6 DEF Shutdown
<1>. QED  BY <1>3, <1>4, <1>6 DEF Rest

-------------------------------------------------------------------------------
(* The theorems *)

LEMMA ServerStep == ServerInv /\ AuditInv /\ [Next]_vars => ServerInv'
<1>. SUFFICES ASSUME ServerInv, AuditInv, [Next]_vars PROVE ServerInv'  OBVIOUS
<1>1. TypeOK /\ Rest  BY DEF ServerInv, Rest
<1>2. TypeOK'  BY <1>1, TypeStep
<1>3. Rest'
  <2>1. ASSUME NEW c \in Caller, Serve(c) PROVE Rest'
    BY <1>1, <2>1, RecoverStep, ActStep, RecordStep, WriteJSONStep, FollowStep, EndStep, ProxyStep
    DEF Serve
  <2>2. ASSUME NEW c \in Caller, NEW r \in Asks[c], Arrive(c, r) PROVE Rest'
    BY <1>1, <2>2, ArriveStep
  <2>3. CASE Signal \/ Shutdown \/ Crash \/ Start  BY <1>1, <2>3, MainStep
  <2>4. CASE UNCHANGED vars
    <3>1. \A d \in Caller : CallerOK(d)'
      BY <1>1, <2>4, OthersKeep DEF Rest, vars, auditVars, reqVars
    <3>2. \A d \in Caller : BeforeOK(d)'
      BY <1>1, <2>4, BeforeKept DEF Rest, vars, auditVars, reqVars
    <3>3. ExitOK'  BY <1>1, <2>4 DEF Rest, ExitOK, InFlight, vars, mainVars
    <3>. QED  BY <3>1, <3>2, <3>3 DEF Rest
  <2>. QED  BY <2>1, <2>2, <2>3, <2>4 DEF Next
<1>. QED  BY <1>2, <1>3 DEF ServerInv, Rest

LEMMA ServerAlways == Spec => [](ServerInv /\ AuditInv)
<1>1. Spec => []AuditInv  BY ServerAudits, AuditAlways, PTL
<1>. QED  BY <1>1, ServerInitInv, ServerStep, PTL DEF Spec

\* GET /audit returns the latest entries since the start, for any size of the ring and
\* any number of callers and restarts.
THEOREM RecentAnswers == Spec => []RecentIsLatest
BY ServerAudits, AuditAlways, TailIsLatest, PTL

\* The trail tells of what was done or is about to run, whatever fails or crashes.
THEOREM TrailIsTrue == Spec => []TrailTellsWhatRan
<1>1. ServerInv /\ AuditInv => TrailTellsWhatRan
  BY DEF ServerInv, CallerOK, AuditInv, OneEntryEach, InAppended, InTrail, TrailTellsWhatRan
<1>. QED  BY <1>1, ServerAlways, PTL

\* Who was told of a success has an entry, for any number of callers and restarts.
THEOREM AnswersAreInTrail == Spec => []AnsweredIsInTrail
<1>1. ServerInv /\ AuditInv => AnsweredIsInTrail
  BY DEF ServerInv, CallerOK, AuditInv, OneEntryEach, InAppended, InTrail, AnsweredIsInTrail
<1>. QED  BY <1>1, ServerAlways, PTL

\* Causes stand before their effects in the trail, at no later a time.
THEOREM TrailIsInOrder == Spec => []TrailFollowsAnswers
<1>1. ASSUME ServerInv, AuditInv PROVE TrailFollowsAnswers
  <2>. SUFFICES ASSUME NEW c \in Caller, NEW d \in before[c], InTrail(c)
       PROVE  InTrail(d) /\ PlaceOf(d) < PlaceOf(c) /\ at[d] <= at[c]
    BY DEF TrailFollowsAnswers
  <2>1. d \in Caller /\ BeforeOK(c)  BY <1>1 DEF ServerInv, TypeOK
  <2>2. step[c] = "recorded" /\ step[d] = "recorded"
    BY <1>1, <2>1 DEF AuditInv, OneEntryEach, InAppended, InTrail, BeforeOK
  <2>3. InTrail(d)  BY <1>1, <2>1, <2>2 DEF AuditInv, OneEntryEach, InAppended, InTrail
  <2>4. /\ PlaceOf(c) \in 1 .. Len(appended) /\ appended[PlaceOf(c)] = c
        /\ PlaceOf(d) \in 1 .. Len(appended) /\ appended[PlaceOf(d)] = d
    BY <2>3 DEF InTrail, PlaceOf
  <2>. QED  BY <2>1, <2>2, <2>3, <2>4 DEF BeforeOK
<1>. QED  BY <1>1, ServerAlways, PTL

\* No request is left unanswered by an exit that Shutdown did not cut short.
THEOREM DrainAnswersAll == Spec => DrainedIsAnswered
<1>1. ServerInv /\ [Next]_vars => [main' = "exited" /\ exit = "drained" => InFlight = {}]_vars
  BY DEF ServerInv, ExitOK
<1>. QED  BY <1>1, ServerAlways, PTL DEF Spec, DrainedIsAnswered

-------------------------------------------------------------------------------
(***************************************************************************)
(* The file.  Its entries are looked up in the trail: that the next one    *)
(* stands behind them all there needs that a caller whose write failed has *)
(* been through the critical section, and will not be again.               *)
(***************************************************************************)

InFile(c) == \E i \in 1 .. Len(file) : file[i] = c

FileInv ==
  /\ \A c \in Caller : InFile(c) <=> InAppended(c) /\ c \notin unwritten
  /\ \A i, j \in 1 .. Len(file) : \A k, l \in 1 .. Len(appended) :
       i < j /\ appended[k] = file[i] /\ appended[l] = file[j] => k < l
  /\ \A c \in Caller \cap unwritten : InAppended(c)

LEMMA FileInit == Init => FileInv
BY DEF Init, AuditInit, FileInv, InFile, InAppended

LEMMA FileEntry ==
  ASSUME HasFile, AuditInv, FileInv, NEW c \in Caller, AppendEntry(c),
         unwritten' = IF file' = file THEN unwritten \cup {c} ELSE unwritten
  PROVE  FileInv'
<1>1. /\ appended \in Seq(Caller) /\ file \in Seq(Caller) /\ ~InAppended(c)
      /\ \A i, j \in 1 .. Len(appended) : appended[i] = appended[j] => i = j
  BY DEF AuditInv, AuditTypeOK, OneEntryEach, AppendEntry
<1>2. /\ Len(appended) \in Nat /\ Len(appended') = Len(appended) + 1
      /\ appended'[Len(appended) + 1] = c
      /\ \A i \in 1 .. Len(appended) : appended'[i] = appended[i]
  BY <1>1 DEF AppendEntry
<1>3. \A d \in Caller : InAppended(d)' <=> InAppended(d) \/ d = c
  <2>1. \A i \in 1 .. Len(appended') : i \in 1 .. Len(appended) \/ i = Len(appended) + 1
    BY <1>2
  <2>2. \A i \in 1 .. Len(appended) : i \in 1 .. Len(appended')
    BY <1>2
  <2>3. Len(appended) + 1 \in 1 .. Len(appended')
    BY <1>2
  <2>. QED  BY <1>2, <2>1, <2>2, <2>3 DEF InAppended
<1>4. /\ \A d \in Caller : InFile(d) <=> InAppended(d) /\ d \notin unwritten
      /\ \A i, j \in 1 .. Len(file) : \A k, l \in 1 .. Len(appended) :
           i < j /\ appended[k] = file[i] /\ appended[l] = file[j] => k < l
      /\ \A d \in Caller \cap unwritten : InAppended(d)
  BY DEF FileInv
<1>5. \A i \in 1 .. Len(file) : file[i] # c
  BY <1>1, <1>4 DEF InFile
<1>6. \A i \in 1 .. Len(file) : \A k \in 1 .. Len(appended') :
        appended'[k] = file[i] => k \in 1 .. Len(appended)
  BY <1>2, <1>5
<1>7. CASE file' = file
  <2>1. unwritten' = unwritten \cup {c}  BY <1>7
  <2>2. \A d \in Caller : InFile(d)' <=> InAppended(d)' /\ d \notin unwritten'
    BY <1>1, <1>3, <1>4, <1>7, <2>1 DEF InFile
  <2>3. \A i, j \in 1 .. Len(file') : \A k, l \in 1 .. Len(appended') :
          i < j /\ appended'[k] = file'[i] /\ appended'[l] = file'[j] => k < l
    BY <1>2, <1>4, <1>6, <1>7
  <2>4. \A d \in Caller \cap unwritten' : InAppended(d)'  BY <1>3, <1>4, <2>1
  <2>. QED  BY <2>2, <2>3, <2>4 DEF FileInv
<1>8. CASE file' # file
  <2>1. unwritten' = unwritten /\ file' = Append(file, c)
    BY <1>8, Zenon DEF AppendEntry
  <2>2. /\ Len(file) \in Nat /\ Len(file') = Len(file) + 1
        /\ file'[Len(file) + 1] = c
        /\ \A i \in 1 .. Len(file) : file'[i] = file[i]
    BY <1>1, <2>1
  <2>3. \A i \in 1 .. Len(file') : i \in 1 .. Len(file) \/ i = Len(file) + 1
    BY <2>2
  <2>4. \A d \in Caller : InFile(d)' <=> InFile(d) \/ d = c
    <3>1. \A i \in 1 .. Len(file) : i \in 1 .. Len(file')
      BY <2>2
    <3>2. Len(file) + 1 \in 1 .. Len(file')
      BY <2>2
    <3>. QED  BY <2>2, <2>3, <3>1, <3>2 DEF InFile
  <2>5. c \notin unwritten  BY <1>1, <1>4
  <2>6. \A d \in Caller : InFile(d)' <=> InAppended(d)' /\ d \notin unwritten'
    BY <1>3, <1>4, <2>1, <2>4, <2>5
  <2>7. ASSUME NEW i \in 1 .. Len(file'), NEW j \in 1 .. Len(file'),
               NEW k \in 1 .. Len(appended'), NEW l \in 1 .. Len(appended'),
               i < j, appended'[k] = file'[i], appended'[l] = file'[j]
        PROVE  k < l
    <3>1. i \in 1 .. Len(file) /\ file'[i] = file[i]  BY <2>2, <2>7
    <3>2. k \in 1 .. Len(appended) /\ appended[k] = file[i]  BY <1>2, <1>6, <2>7, <3>1
    <3>3. CASE j = Len(file) + 1
      <4>1. l = Len(appended) + 1
        <5>1. \A n \in 1 .. Len(appended) : appended'[n] # c  BY <1>1, <1>2 DEF InAppended
        <5>2. appended'[l] = c  BY <2>2, <2>7, <3>3
        <5>. QED  BY <1>2, <5>1, <5>2
      <4>. QED  BY <1>2, <3>2, <4>1
    <3>4. CASE j \in 1 .. Len(file)
      <4>1. file'[j] = file[j]  BY <2>2, <3>4
      <4>2. l \in 1 .. Len(appended) /\ appended[l] = file[j]  BY <1>2, <1>6, <2>7, <3>4, <4>1
      <4>. QED  BY <1>4, <2>7, <3>1, <3>2, <3>4, <4>2
    <3>. QED  BY <2>3, <3>3, <3>4
  <2>8. \A d \in Caller \cap unwritten' : InAppended(d)'  BY <1>3, <1>4, <2>1
  <2>. QED  BY <2>6, <2>7, <2>8 DEF FileInv
<1>. QED  BY <1>7, <1>8

LEMMA FileStep == HasFile /\ AuditInv /\ FileInv /\ [Next]_vars => FileInv'
<1>. SUFFICES ASSUME HasFile, AuditInv, FileInv, [Next]_vars PROVE FileInv'  OBVIOUS
<1>1. ASSUME UNCHANGED <<file, appended, unwritten>> PROVE FileInv'
  BY <1>1 DEF FileInv, InFile, InAppended
<1>2. ASSUME NEW c \in Caller, Record(c) PROVE FileInv'
  <2>1. CASE Stamp(c) /\ UNCHANGED <<pc, unwritten>>
    BY <1>1, <2>1 DEF Stamp
  <2>2. CASE AppendEntry(c) /\ unwritten' = IF file' = file THEN unwritten \cup {c} ELSE unwritten
    BY <2>2, FileEntry
  <2>. QED  BY <1>2, <2>1, <2>2 DEF Record
<1>3. ASSUME NEW c \in Caller, Serve(c) PROVE FileInv'
  <2>1. CASE Recover(c) \/ Act(c) \/ WriteJSON(c) \/ Follow(c) \/ End(c) \/ Proxy(c)
    BY <1>1, <2>1 DEF Recover, Act, WriteJSON, Follow, End, Proxy, auditVars
  <2>. QED  BY <1>2, <1>3, <2>1 DEF Serve
<1>4. ASSUME NEW c \in Caller, NEW r \in Asks[c], Arrive(c, r) PROVE FileInv'
  BY <1>1, <1>4 DEF Arrive, auditVars
<1>5. CASE Signal \/ Shutdown \/ Crash \/ Start \/ UNCHANGED vars
  BY <1>1, <1>5 DEF Signal, Shutdown, Drained, Late, ShutdownReturns, CloseTrail, Exit, Crash,
     Die, Start, Restart, auditVars, vars
<1>. QED  BY <1>3, <1>4, <1>5 DEF Next

\* The file tells what the ring told, in its order, less the writes that failed: for
\* any number of callers, restarts and failed writes.
THEOREM FileIsTrail == Spec => []FileKeepsTrail
<1>1. ASSUME AuditInv, HasFile => FileInv PROVE FileKeepsTrail
  <2>. SUFFICES ASSUME HasFile PROVE
         /\ \A c \in Caller : InFile(c) <=> InTrail(c) /\ c \notin unwritten
         /\ \A i, j \in 1 .. Len(file) : i < j => PlaceOf(file[i]) < PlaceOf(file[j])
    BY DEF FileKeepsTrail, InFile
  <2>1. \A c \in Caller : InFile(c) <=> InTrail(c) /\ c \notin unwritten
    BY <1>1 DEF FileInv, InTrail, InAppended
  <2>2. ASSUME NEW i \in 1 .. Len(file)
        PROVE  PlaceOf(file[i]) \in 1 .. Len(appended) /\ appended[PlaceOf(file[i])] = file[i]
    <3>1. file[i] \in Caller  BY <1>1 DEF AuditInv, AuditTypeOK
    <3>2. InTrail(file[i])  BY <2>1, <3>1 DEF InFile
    <3>. QED  BY <3>2 DEF InTrail, PlaceOf
  <2>3. \A i, j \in 1 .. Len(file) : i < j => PlaceOf(file[i]) < PlaceOf(file[j])
    BY <1>1, <2>2 DEF FileInv
  <2>. QED  BY <2>1, <2>3
<1>2. Init => (HasFile => FileInv)  BY FileInit
<1>3. AuditInv /\ (HasFile => FileInv) /\ [Next]_vars => (HasFile => FileInv)'
  BY FileStep
<1>. QED  BY <1>1, <1>2, <1>3, ServerAlways, PTL DEF Spec

===============================================================================
