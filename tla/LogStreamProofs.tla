--------------------------- MODULE LogStreamProofs ----------------------------
(***************************************************************************)
(* Machine-checked proofs about LogStream, for any number of streams,      *)
(* clients and lines and any capacities.  Fairness is not needed: each     *)
(* theorem is about Spec.  First the ring, the channels and the streams;   *)
(* then all the way from what the process writes to what a follower is     *)
(* sent: what is captured of a stream is a beginning of it                 *)
(* (CapturedIsPrefix), and the log followed over SSE implements LineFeed   *)
(* (Feed!Spec, the safety part of FeedPromise).                            *)
(***************************************************************************)
EXTENDS LogStream, SequenceTheorems, TLAPS

-------------------------------------------------------------------------------
(* What KeepLast computes: the last MaxLines elements, or all of them. *)
LEMMA KeepLastIs ==
  ASSUME NEW S, NEW ls \in Seq(S)
  PROVE  /\ KeepLast(ls) \in Seq(S)
         /\ Len(KeepLast(ls)) <= MaxLines
         /\ Len(KeepLast(ls)) = IF Len(ls) < MaxLines THEN Len(ls) ELSE MaxLines
         /\ \A i \in 1 .. Len(KeepLast(ls)) :
              KeepLast(ls)[i] = ls[Len(ls) - Len(KeepLast(ls)) + i]
<1>1. MaxLines \in Nat \ {0}
  BY LogStreamAssumption
<1>2. CASE Len(ls) > MaxLines
  <2>1. KeepLast(ls) = SubSeq(ls, Len(ls) - MaxLines + 1, Len(ls))
    BY <1>2 DEF KeepLast
  <2>2. /\ SubSeq(ls, Len(ls) - MaxLines + 1, Len(ls)) \in Seq(S)
        /\ Len(SubSeq(ls, Len(ls) - MaxLines + 1, Len(ls))) = MaxLines
        /\ \A i \in 1 .. MaxLines :
             SubSeq(ls, Len(ls) - MaxLines + 1, Len(ls))[i]
               = ls[Len(ls) - MaxLines + i]
    BY <1>1, <1>2
  <2> QED  BY <1>1, <1>2, <2>1, <2>2
<1>3. CASE ~(Len(ls) > MaxLines)
  <2>1. KeepLast(ls) = ls
    BY <1>3 DEF KeepLast
  <2> QED  BY <1>1, <1>3, <2>1
<1> QED  BY <1>2, <1>3

-------------------------------------------------------------------------------
(* Type correctness *)

LEMMA TypeInit == Init => TypeOK
<1> SUFFICES ASSUME Init PROVE TypeOK
  OBVIOUS
<1> USE LogStreamAssumption DEF Init
<1>1. <<>> \in Seq(Line) /\ Len(<<>>) = 0
  OBVIOUS
<1>2. /\ pipe \in [Stream -> Seq(Line)] /\ scan \in [Stream -> Seq(Line)]
      /\ \A s \in Stream : Len(pipe[s]) <= PipeCap
      /\ written \in [Stream -> 0 .. MaxOut]
      /\ pump \in [Stream -> {"scanning", "returned"}]
  BY <1>1
<1>3. /\ ch \in [Client -> Seq(Line)]
      /\ snapshot \in [Client -> Seq(Line)] /\ sent \in [Client -> Seq(Line)]
      /\ \A c \in Client : Len(ch[c]) <= ChanCap
  BY <1>1
<1>4. /\ lines \in Seq(Line) /\ Len(lines) <= MaxLines /\ added \in Seq(Line)
  BY <1>1
<1>5. /\ chOpen \in [Client -> BOOLEAN]
      /\ pc \in [Client -> {"idle", "replay", "select", "cancel", "over"}]
      /\ ended \in [Client -> BOOLEAN] /\ gone \in [Client -> BOOLEAN]
      /\ from \in [Client -> Nat] /\ missed \in [Client -> Nat]
  OBVIOUS
<1> QED  BY <1>2, <1>3, <1>4, <1>5 DEF TypeOK, StateRunning, StateExited

LEMMA TypeStep == TypeOK /\ RingHoldsLatest /\ [Next]_vars => TypeOK'
<1> SUFFICES ASSUME TypeOK, RingHoldsLatest, [Next]_vars PROVE TypeOK'
  OBVIOUS
<1> USE LogStreamAssumption DEF TypeOK
<1>1. ASSUME NEW s \in Stream, NEW fits \in Fits, Write(s, fits) PROVE TypeOK'
  <2>1. [stream |-> s, n |-> written[s] + 1, fits |-> fits] \in Line
    BY <1>1 DEF Write, Line
  <2>2. /\ pipe' \in [Stream -> Seq(Line)]
        /\ \A t \in Stream : Len(pipe'[t]) <= PipeCap
    BY <1>1, <2>1 DEF Write
  <2> QED  BY <1>1, <2>2, SMTT(40) DEF Write, pumpVars, waitVars, ringVars, chanVars, reqVars, history
<1>2. CASE Fork
  BY <1>2 DEF Fork, pumpVars, waitVars, ringVars, chanVars, reqVars, history
<1>3. CASE HeirsExit
  BY <1>3 DEF HeirsExit, pumpVars, waitVars, ringVars, chanVars, reqVars, history
<1>4. CASE Exit
  BY <1>4 DEF Exit, pumpVars, waitVars, ringVars, chanVars, reqVars, history
<1>5. ASSUME NEW s \in Stream, Fill(s) PROVE TypeOK'
  <2>1. PICK k \in 1 .. Len(pipe[s]) :
          /\ scan' = [scan EXCEPT ![s] = SubSeq(pipe[s], 1, k)]
          /\ pipe' = [pipe EXCEPT ![s] = SubSeq(@, k + 1, Len(@))]
    BY <1>5 DEF Fill
  <2>2. /\ SubSeq(pipe[s], 1, k) \in Seq(Line)
        /\ SubSeq(pipe[s], k + 1, Len(pipe[s])) \in Seq(Line)
        /\ Len(SubSeq(pipe[s], k + 1, Len(pipe[s]))) = Len(pipe[s]) - k
    <3>1. pipe[s] \in Seq(Line)
      OBVIOUS
    <3> QED  BY <3>1
  <2>3. /\ scan' \in [Stream -> Seq(Line)] /\ pipe' \in [Stream -> Seq(Line)]
        /\ \A t \in Stream : Len(pipe'[t]) <= PipeCap
    BY <2>1, <2>2
  <2> QED  BY <1>5, <2>3 DEF Fill, waitVars, ringVars, chanVars, reqVars, history
<1>6. ASSUME NEW s \in Stream, Add(s) PROVE TypeOK'
  <2> DEFINE ln == Head(scan[s])
  <2>1. ln \in Line /\ Tail(scan[s]) \in Seq(Line)
    BY <1>6 DEF Add
  <2>2. lines' \in Seq(Line) /\ Len(lines') <= MaxLines
    <3>1. Append(lines, ln) \in Seq(Line)
      BY <2>1
    <3>2. lines' = KeepLast(Append(lines, ln))
      BY <1>6 DEF Add
    <3>3. /\ KeepLast(Append(lines, ln)) \in Seq(Line)
          /\ Len(KeepLast(Append(lines, ln))) <= MaxLines
      <4> HIDE DEF TypeOK, ln
      <4> QED  BY <3>1, KeepLastIs
    <3> QED  BY <3>2, <3>3
  <2>3. added' \in Seq(Line)
    BY <1>6, <2>1 DEF Add
  <2>4. ch' \in [Client -> Seq(Line)] /\ \A c \in Client : Len(ch'[c]) <= ChanCap
    BY <1>6, <2>1, SMTT(40) DEF Add, HasRoom
  <2>5. missed' \in [Client -> Nat]
    <3>1. missed' = [c \in Client |->
             IF c \in subs /\ ~HasRoom(c) THEN missed[c] + 1 ELSE missed[c]]
      BY <1>6 DEF Add
    <3> QED  BY <3>1, SMTT(40)
  <2>6. scan' \in [Stream -> Seq(Line)]
    BY <1>6, <2>1 DEF Add
  <2> QED  BY <1>6, <2>2, <2>3, <2>4, <2>5, <2>6 DEF Add, osVars, waitVars, reqVars
<1>7. ASSUME NEW s \in Stream, GiveUp(s) PROVE TypeOK'
  <2>1. scan' \in [Stream -> Seq(Line)] /\ pump' \in [Stream -> {"scanning", "returned"}]
    BY <1>7 DEF GiveUp
  <2> QED  BY <1>7, <2>1 DEF GiveUp, osVars, waitVars, ringVars, chanVars, reqVars, history
<1>8. ASSUME NEW s \in Stream, Eof(s) PROVE TypeOK'
  BY <1>8 DEF Eof, osVars, waitVars, ringVars, chanVars, reqVars, history
<1>9. CASE WaitReturns
  <2>1. /\ pipe' \in [Stream -> Seq(Line)]
        /\ \A t \in Stream : Len(pipe'[t]) <= PipeCap
    BY <1>9 DEF WaitReturns
  <2> QED  BY <1>9, <2>1 DEF WaitReturns, pumpVars, ringVars, chanVars, reqVars, history
<1>10. CASE SetState
  BY <1>10 DEF SetState, osVars, pumpVars, ringVars, chanVars, reqVars, history
<1>11. CASE CloseSubs
  BY <1>11 DEF CloseSubs, osVars, pumpVars, reqVars, history
<1>12. ASSUME NEW c \in Client, Subscribe(c) PROVE TypeOK'
  <2>1. Len(added) - Len(lines) \in Nat
    BY DEF RingHoldsLatest
  <2> QED
    BY <1>12, <2>1 DEF Subscribe, osVars, pumpVars, waitVars
<1>13. ASSUME NEW c \in Client, Replay(c) PROVE TypeOK'
  <2>1. CASE snapshot[c] = <<>>
    BY <1>13, <2>1 DEF Replay, osVars, pumpVars, waitVars, ringVars, chanVars, history
  <2>2. CASE snapshot[c] # <<>>
    <3>1. Head(snapshot[c]) \in Line /\ Tail(snapshot[c]) \in Seq(Line)
      BY <2>2
    <3>2. sent' \in [Client -> Seq(Line)]
      <4>1. sent' = [sent EXCEPT ![c] = Append(@, Head(snapshot[c]))]
        BY <1>13, <2>2 DEF Replay
      <4>2. Append(sent[c], Head(snapshot[c])) \in Seq(Line)
        BY <3>1
      <4> QED  BY <4>1, <4>2
    <3>3. snapshot' \in [Client -> Seq(Line)]
      BY <1>13, <2>2, <3>1 DEF Replay
    <3> QED
      BY <1>13, <2>2, <3>2, <3>3 DEF Replay, osVars, pumpVars, waitVars, ringVars, chanVars, history
  <2> QED  BY <2>1, <2>2
<1>14. ASSUME NEW c \in Client, Receive(c) PROVE TypeOK'
  BY <1>14, SMTT(40) DEF Receive, osVars, pumpVars, waitVars, ringVars, history
<1>15. ASSUME NEW c \in Client, ReceiveClosed(c) PROVE TypeOK'
  BY <1>15 DEF ReceiveClosed, osVars, pumpVars, waitVars, ringVars, chanVars, history
<1>16. ASSUME NEW c \in Client, ContextDone(c) PROVE TypeOK'
  BY <1>16 DEF ContextDone, osVars, pumpVars, waitVars, ringVars, chanVars, history
<1>17. ASSUME NEW c \in Client, Unsubscribe(c) PROVE TypeOK'
  BY <1>17 DEF Unsubscribe, osVars, pumpVars, waitVars, history
<1>18. ASSUME NEW c \in Client, Disconnect(c) PROVE TypeOK'
  BY <1>18 DEF Disconnect, osVars, pumpVars, waitVars, ringVars, chanVars, history
<1>19. CASE UNCHANGED vars
  BY <1>19 DEF vars, osVars, pumpVars, waitVars, ringVars, chanVars, reqVars, history
<1> QED
  BY <1>1, <1>2, <1>3, <1>4, <1>5, <1>6, <1>7, <1>8, <1>9, <1>10, <1>11, <1>12,
     <1>13, <1>14, <1>15, <1>16, <1>17, <1>18, <1>19 DEF Next, Pump, Waiter, Serve

-------------------------------------------------------------------------------
(* The ring *)

LEMMA RingStep == TypeOK /\ RingHoldsLatest /\ [Next]_vars => RingHoldsLatest'
<1> SUFFICES ASSUME TypeOK, RingHoldsLatest, [Next]_vars PROVE RingHoldsLatest'
  OBVIOUS
<1>1. ASSUME NEW s \in Stream, Add(s) PROVE RingHoldsLatest'
  <2> DEFINE ln == Head(scan[s])
             old == Append(lines, ln)
  <2>1. /\ lines \in Seq(Line) /\ added \in Seq(Line) /\ ln \in Line
        /\ MaxLines \in Nat \ {0}
    BY <1>1, LogStreamAssumption DEF TypeOK, Add
  <2>2. lines' = KeepLast(old) /\ added' = Append(added, ln)
    BY <1>1 DEF Add
  <2>3. /\ old \in Seq(Line) /\ Len(old) = Len(lines) + 1
        /\ \A i \in 1 .. Len(lines) : old[i] = lines[i]
        /\ old[Len(lines) + 1] = ln
    BY <2>1
  <2>4. /\ Len(added') = Len(added) + 1
        /\ \A i \in 1 .. Len(added) : added'[i] = added[i]
        /\ added'[Len(added) + 1] = ln
    BY <2>1, <2>2
  <2> HIDE DEF ln, old
  <2>5. /\ Len(lines) = IF Len(added) < MaxLines THEN Len(added) ELSE MaxLines
        /\ \A i \in 1 .. Len(lines) : lines[i] = added[Len(added) - Len(lines) + i]
    BY DEF RingHoldsLatest
  <2>6. /\ Len(lines') = IF Len(old) < MaxLines THEN Len(old) ELSE MaxLines
        /\ \A i \in 1 .. Len(lines') : lines'[i] = old[Len(old) - Len(lines') + i]
    BY <2>2, <2>3, KeepLastIs
  <2>7. Len(lines) \in Nat /\ Len(added) \in Nat /\ Len(lines') \in Nat
    BY <2>1, <2>3, <2>2, <2>6
  <2>8. Len(lines') = IF Len(added') < MaxLines THEN Len(added') ELSE MaxLines
    BY <2>1, <2>3, <2>4, <2>5, <2>6, <2>7
  <2>9. ASSUME NEW i \in 1 .. Len(lines')
        PROVE  lines'[i] = added'[Len(added') - Len(lines') + i]
    <3>1. lines'[i] = old[Len(old) - Len(lines') + i]
      BY <2>6
    <3>2. CASE Len(old) - Len(lines') + i = Len(lines) + 1
      BY <3>1, <3>2, <2>1, <2>3, <2>4, <2>7
    <3>3. CASE Len(old) - Len(lines') + i # Len(lines) + 1
      <4> DEFINE j == Len(old) - Len(lines') + i
      <4>0. Len(lines') <= Len(old) /\ Len(old) = Len(lines) + 1
        BY <2>1, <2>3, <2>6, <2>7
      <4>1. j \in 1 .. Len(lines)
        BY <3>3, <4>0, <2>7
      <4>2. old[j] = added[Len(added) - Len(lines) + j]
        BY <4>1, <2>3, <2>5
      <4>3. Len(added) - Len(lines) + j = Len(added') - Len(lines') + i
        BY <4>0, <2>4, <2>7
      <4>4. Len(lines) <= Len(added)
        BY <2>1, <2>5, <2>7
      <4>5. Len(added) - Len(lines) + j \in 1 .. Len(added)
        BY <4>1, <4>4, <2>7
      <4> QED  BY <3>1, <4>2, <4>3, <4>5, <2>4
    <3> QED  BY <3>2, <3>3
  <2> QED  BY <2>8, <2>9 DEF RingHoldsLatest
<1>2. ASSUME UNCHANGED <<lines, added>> PROVE RingHoldsLatest'
  BY <1>2 DEF RingHoldsLatest
<1>3. (\E s \in Stream : Add(s)) \/ UNCHANGED <<lines, added>>
  BY DEF Next, Pump, Waiter, Serve, Write, Fork, HeirsExit, Exit, Fill, GiveUp,
    Eof, WaitReturns, SetState, CloseSubs, Subscribe, Replay, Receive,
    ReceiveClosed, ContextDone, Unsubscribe, Disconnect, vars, ringVars, history
<1> QED  BY <1>1, <1>2, <1>3

LEMMA RingInit == Init => RingHoldsLatest
<1>1. Len(<<>>) = 0
  OBVIOUS
<1> QED  BY <1>1, LogStreamAssumption DEF Init, RingHoldsLatest

LEMMA TypeAndRing == Spec => [](TypeOK /\ RingHoldsLatest)
<1>1. Init => TypeOK /\ RingHoldsLatest
  BY TypeInit, RingInit
<1>2. TypeOK /\ RingHoldsLatest /\ [Next]_vars => (TypeOK /\ RingHoldsLatest)'
  BY TypeStep, RingStep
<1> QED  BY <1>1, <1>2, PTL DEF Spec

\* Every variable keeps its type; the rings, pipes and channels their capacity.
THEOREM TypeCorrect == Spec => []TypeOK
BY TypeAndRing, PTL

\* GET /procs/{id}/logs returns the latest lines, whatever the number of pumps
\* that add to the ring, the length of the log and the capacity of the ring.
THEOREM RingIsLatest == Spec => []RingHoldsLatest
BY TypeAndRing, PTL

-------------------------------------------------------------------------------
(***************************************************************************)
(* Channels.  SubscribersAreOpen and EndMeansExited are not inductive: why *)
(* a channel that a request still reads is closed only after setState is   *)
(* visible in what the waiting goroutine has done so far (WaiterInOrder)   *)
(* and in where a channel stands before its request cancels it             *)
(* (ChannelsInOrder).                                                      *)
(***************************************************************************)

WaiterInOrder ==
  /\ waiter # "Wait" => leader = "exited"
  /\ waiter \in {"closeSubs", "returned"} <=> state = StateExited
  /\ closed <=> waiter = "returned"

ChannelsInOrder ==
  \A c \in Client :
    /\ pc[c] = "idle" => c \notin subs
    /\ pc[c] \in {"replay", "select"} /\ c \notin subs => closed
    /\ pc[c] \in {"replay", "select"} /\ ~chOpen[c] => closed

ChannelInv ==
  /\ WaiterInOrder
  /\ ChannelsInOrder
  /\ SubscribersAreOpen
  /\ EndMeansExited

LEMMA ChannelInit == Init => ChannelInv
BY DEF Init, ChannelInv, WaiterInOrder, ChannelsInOrder, SubscribersAreOpen,
  EndMeansExited, StateRunning, StateExited

\* ChannelInv reads these variables and no others.
LEMMA ChannelFrame ==
  ASSUME ChannelInv, UNCHANGED <<leader, waitVars, subs, closed, chOpen, pc, ended>>
  PROVE  ChannelInv'
BY DEF ChannelInv, WaiterInOrder, ChannelsInOrder, SubscribersAreOpen,
  EndMeansExited, waitVars

LEMMA ChannelStep == TypeOK /\ ChannelInv /\ [Next]_vars => ChannelInv'
<1> SUFFICES ASSUME TypeOK, ChannelInv, [Next]_vars PROVE ChannelInv'
  OBVIOUS
<1> USE DEF ChannelInv, WaiterInOrder, ChannelsInOrder, SubscribersAreOpen,
      EndMeansExited, StateRunning, StateExited
<1>1. CASE Exit
  BY <1>1 DEF Exit, waitVars, ringVars, chanVars, reqVars
<1>2. CASE WaitReturns
  BY <1>2 DEF WaitReturns, ringVars, chanVars, reqVars
<1>3. CASE SetState
  BY <1>3 DEF SetState, osVars, ringVars, chanVars, reqVars
<1>4. CASE CloseSubs
  BY <1>4 DEF CloseSubs, osVars, reqVars, TypeOK
<1>5. ASSUME NEW c \in Client, Subscribe(c) PROVE ChannelInv'
  <2>1. /\ pc[c] = "idle" /\ pc' = [pc EXCEPT ![c] = "replay"]
        /\ subs' = IF closed THEN subs ELSE subs \union {c}
        /\ chOpen' = [chOpen EXCEPT ![c] = ~closed]
        /\ UNCHANGED <<leader, waiter, state, closed, ended>>
    BY <1>5 DEF Subscribe, osVars, waitVars
  <2>2. WaiterInOrder' /\ EndMeansExited'
    BY <2>1
  <2>3. SubscribersAreOpen'
    <3>1. CASE closed
      BY <2>1, <3>1 DEF TypeOK
    <3>2. CASE ~closed
      <4>1. ASSUME NEW d \in subs'
            PROVE  chOpen'[d] /\ pc'[d] \in {"replay", "select", "cancel"}
        <5>1. CASE d = c
          BY <2>1, <3>2, <5>1 DEF TypeOK
        <5>2. CASE d # c
          BY <2>1, <3>2, <4>1, <5>2 DEF TypeOK
        <5> QED  BY <5>1, <5>2
      <4> QED  BY <4>1, <2>1, <3>2
    <3> QED  BY <3>1, <3>2
  <2>4. ChannelsInOrder'
    BY <2>1 DEF TypeOK
  <2> QED  BY <2>2, <2>3, <2>4
<1>6. ASSUME NEW c \in Client, Replay(c) PROVE ChannelInv'
  <2>1. /\ pc[c] = "replay"
        /\ pc' = pc \/ pc' = [pc EXCEPT ![c] = "select"]
        /\ UNCHANGED <<leader, waiter, state, closed, subs, chOpen, ended>>
    BY <1>6 DEF Replay, osVars, waitVars, ringVars, chanVars
  <2> QED  BY <2>1 DEF TypeOK
<1>7. ASSUME NEW c \in Client, ReceiveClosed(c) PROVE ChannelInv'
  <2>1. /\ pc[c] = "select" /\ pc' = [pc EXCEPT ![c] = "cancel"]
        /\ ~chOpen[c] /\ ended' = [ended EXCEPT ![c] = TRUE]
        /\ UNCHANGED <<leader, waiter, state, closed, subs, chOpen>>
    BY <1>7 DEF ReceiveClosed, osVars, waitVars, ringVars, chanVars
  <2> QED  BY <2>1 DEF TypeOK
<1>8. ASSUME NEW c \in Client, ContextDone(c) PROVE ChannelInv'
  <2>1. /\ pc[c] = "select" /\ pc' = [pc EXCEPT ![c] = "cancel"]
        /\ UNCHANGED <<leader, waiter, state, closed, subs, chOpen, ended>>
    BY <1>8 DEF ContextDone, osVars, waitVars, ringVars, chanVars
  <2> QED  BY <2>1 DEF TypeOK
<1>9. ASSUME NEW c \in Client, Unsubscribe(c) PROVE ChannelInv'
  <2>1. /\ pc[c] = "cancel" /\ pc' = [pc EXCEPT ![c] = "over"]
        /\ subs' = subs \ {c}
        /\ chOpen' = [chOpen EXCEPT ![c] = @ /\ c \notin subs]
        /\ UNCHANGED <<leader, waiter, state, closed, ended>>
    BY <1>9 DEF Unsubscribe, osVars, waitVars
  <2> QED  BY <2>1 DEF TypeOK
<1>10. ASSUME UNCHANGED <<leader, waitVars, subs, closed, chOpen, pc, ended>>
       PROVE  ChannelInv'
  BY <1>10, ChannelFrame
<1>11. \/ Exit \/ WaitReturns \/ SetState \/ CloseSubs
       \/ \E c \in Client : \/ Subscribe(c) \/ Replay(c) \/ ReceiveClosed(c)
                            \/ ContextDone(c) \/ Unsubscribe(c)
       \/ UNCHANGED <<leader, waitVars, subs, closed, chOpen, pc, ended>>
  BY DEF Next, Pump, Waiter, Serve, Write, Fork, HeirsExit, Fill, Add, GiveUp,
    Eof, Receive, Disconnect, vars, osVars, waitVars, ringVars, chanVars, reqVars
<1> QED
  BY <1>1, <1>2, <1>3, <1>4, <1>5, <1>6, <1>7, <1>8, <1>9, <1>10, <1>11

LEMMA ChannelsCorrect == Spec => []ChannelInv
<1>1. Init => ChannelInv
  BY ChannelInit
<1>2. TypeOK /\ ChannelInv /\ [Next]_vars => ChannelInv'
  BY ChannelStep
<1> QED  BY <1>1, <1>2, TypeCorrect, PTL DEF Spec

\* add never sends on a closed channel and no channel is closed twice, however
\* subscribe, unsubscribe, add and closeSubs follow upon each other.
THEOREM NoSendOnClosed == Spec => []SubscribersAreOpen
<1>1. ChannelInv => SubscribersAreOpen
  BY DEF ChannelInv
<1> QED  BY <1>1, ChannelsCorrect, PTL

\* The "end" event is sent only when a client that then asks for the process is
\* told that it has exited.
THEOREM EndIsAfterExit == Spec => []EndMeansExited
<1>1. ChannelInv => EndMeansExited
  BY DEF ChannelInv
<1> QED  BY <1>1, ChannelsCorrect, PTL

-------------------------------------------------------------------------------
(* Three facts about sequences, which the next proof rests on. *)

LEMMA AppendHead ==
  ASSUME NEW S, NEW s \in Seq(S), NEW t \in Seq(S), t # <<>>
  PROVE  Append(s, Head(t)) \o Tail(t) = s \o t
<1>1. /\ Head(t) \in S /\ Tail(t) \in Seq(S) /\ <<Head(t)>> \in Seq(S)
      /\ Len(t) \in Nat \ {0}
  BY HeadTailProperties, EmptySeq
<1>2. Append(s, Head(t)) = s \o <<Head(t)>>
  BY <1>1, AppendIsConcat
<1>3. (s \o <<Head(t)>>) \o Tail(t) = s \o (<<Head(t)>> \o Tail(t))
  BY <1>1, ConcatAssociative
<1>4. <<Head(t)>> \o Tail(t) = t
  <2>1. t = SubSeq(t, 1, Len(t)) /\ Tail(t) = SubSeq(t, 2, Len(t))
    BY SubSeqFull, TailIsSubSeq
  <2>2. Head(t) = t[1]
    BY <1>1
  <2>3. SubSeq(t, 1, Len(t)) = <<t[1]>> \o SubSeq(t, 1 + 1, Len(t))
    BY <1>1, SubSeqRecursiveFirst
  <2> QED  BY <2>1, <2>2, <2>3
<1> QED  BY <1>2, <1>3, <1>4

LEMMA ConcatAppend ==
  ASSUME NEW S, NEW s \in Seq(S), NEW t \in Seq(S), NEW e \in S
  PROVE  s \o Append(t, e) = Append(s \o t, e)
<1>1. <<e>> \in Seq(S) /\ s \o t \in Seq(S)
  BY ConcatProperties
<1>2. Append(t, e) = t \o <<e>> /\ Append(s \o t, e) = (s \o t) \o <<e>>
  BY <1>1, AppendIsConcat
<1>3. (s \o t) \o <<e>> = s \o (t \o <<e>>)
  BY <1>1, ConcatAssociative
<1> QED  BY <1>2, <1>3

LEMMA SuffixOfAppend ==
  ASSUME NEW S, NEW s \in Seq(S), NEW e \in S, NEW k \in 0 .. Len(s)
  PROVE  SubSeq(Append(s, e), k + 1, Len(s) + 1) = Append(SubSeq(s, k + 1, Len(s)), e)
<1> DEFINE a == SubSeq(Append(s, e), k + 1, Len(s) + 1)
           b == SubSeq(s, k + 1, Len(s))
<1>1. Len(s) \in Nat /\ k \in Nat
  BY LenProperties
<1>2. /\ Append(s, e) \in Seq(S) /\ Len(Append(s, e)) = Len(s) + 1
      /\ \A i \in 1 .. Len(s) : Append(s, e)[i] = s[i]
      /\ Append(s, e)[Len(s) + 1] = e
  BY AppendProperties
<1>3. /\ a \in Seq(S) /\ Len(a) = Len(s) - k + 1
      /\ \A i \in 1 .. Len(s) - k + 1 : a[i] = Append(s, e)[k + i]
  BY <1>1, <1>2
<1>4. /\ b \in Seq(S) /\ Len(b) = Len(s) - k
      /\ \A i \in 1 .. Len(s) - k : b[i] = s[k + i]
  BY <1>1
<1>5. /\ Append(b, e) \in Seq(S) /\ Len(Append(b, e)) = Len(s) - k + 1
      /\ \A i \in 1 .. Len(s) - k : Append(b, e)[i] = b[i]
      /\ Append(b, e)[Len(s) - k + 1] = e
  BY <1>4, AppendProperties
<1> HIDE DEF a, b
<1>6. ASSUME NEW i \in 1 .. Len(a) PROVE a[i] = Append(b, e)[i]
  <2>1. CASE i = Len(s) - k + 1
    <3>1. k + i = Len(s) + 1
      BY <1>1, <2>1
    <3> QED  BY <1>1, <1>2, <1>3, <1>5, <2>1, <3>1
  <2>2. CASE i # Len(s) - k + 1
    <3>1. i \in Nat /\ 1 <= i /\ i <= Len(s) - k + 1
      BY <1>1, <1>3
    <3>2. i \in 1 .. Len(s) - k /\ k + i \in 1 .. Len(s) /\ i \in 1 .. Len(s) - k + 1
      BY <1>1, <2>2, <3>1
    <3> QED  BY <1>2, <1>3, <1>4, <1>5, <3>2
  <2> QED  BY <2>1, <2>2
<1>7. a = Append(b, e)
  BY <1>3, <1>5, <1>6, SeqEqual
<1> QED  BY <1>7 DEF a, b

-------------------------------------------------------------------------------
(***************************************************************************)
(* The join of snapshot and channel.  StreamHasNoGap speaks of Carried, in *)
(* which the snapshot comes before the channel; that a line taken from the *)
(* channel may nevertheless be put right behind sent needs that a request  *)
(* that has reached its select loop has sent all of its snapshot.          *)
(***************************************************************************)

RequestsInOrder ==
  \A c \in Client :
    /\ pc[c] = "idle" => sent[c] = <<>> /\ ch[c] = <<>> /\ missed[c] = 0
    /\ pc[c] \in {"select", "cancel", "over"} => snapshot[c] = <<>>

JoinInv == RequestsInOrder /\ StreamHasNoGap

LEMMA JoinInit == Init => JoinInv
BY DEF Init, JoinInv, RequestsInOrder, StreamHasNoGap

\* A step that adds no line and leaves what each subscriber carries as it is.
LEMMA JoinFrame ==
  ASSUME StreamHasNoGap, UNCHANGED <<added, from, missed>>, subs' \subseteq subs,
         \A c \in subs : Carried(c)' = Carried(c)
  PROVE  StreamHasNoGap'
<1> SUFFICES ASSUME NEW c \in subs'
             PROVE  /\ from[c] + Len(Carried(c)) + missed[c] = Len(added)
                    /\ missed[c] = 0 => Carried(c) = SubSeq(added, from[c] + 1, Len(added))
  BY DEF StreamHasNoGap
<1> QED  BY DEF StreamHasNoGap

\* A subscriber's place in the log, and what it carries, have these types.
LEMMA CarriedType ==
  ASSUME TypeOK, NEW c \in Client
  PROVE  /\ Carried(c) \in Seq(Line) /\ Len(Carried(c)) \in Nat
         /\ sent[c] \in Seq(Line) /\ snapshot[c] \in Seq(Line) /\ ch[c] \in Seq(Line)
         /\ sent[c] \o snapshot[c] \in Seq(Line)
         /\ added \in Seq(Line) /\ Len(added) \in Nat
         /\ from[c] \in Nat /\ missed[c] \in Nat
<1>1. /\ sent[c] \in Seq(Line) /\ snapshot[c] \in Seq(Line) /\ ch[c] \in Seq(Line)
      /\ added \in Seq(Line) /\ from[c] \in Nat /\ missed[c] \in Nat
  BY DEF TypeOK
<1>2. sent[c] \o snapshot[c] \in Seq(Line) /\ Carried(c) \in Seq(Line)
  BY <1>1, ConcatProperties DEF Carried
<1> QED  BY <1>1, <1>2, LenProperties

LEMMA JoinStep ==
  TypeOK /\ RingHoldsLatest /\ ChannelInv /\ JoinInv /\ [Next]_vars => JoinInv'
<1> SUFFICES ASSUME TypeOK, RingHoldsLatest, ChannelInv, JoinInv, [Next]_vars
             PROVE  JoinInv'
  OBVIOUS
<1>0. /\ RequestsInOrder /\ StreamHasNoGap
      /\ \A c \in subs : c \in Client /\ pc[c] \in {"replay", "select", "cancel"}
  BY DEF JoinInv, ChannelInv, SubscribersAreOpen, TypeOK
<1>1. ASSUME NEW s \in Stream, Add(s) PROVE JoinInv'
  <2> DEFINE ln == Head(scan[s])
  <2>1. /\ scan[s] # <<>> /\ added' = Append(added, ln)
        /\ ch' = [c \in Client |->
                    IF c \in subs /\ HasRoom(c) THEN Append(ch[c], ln) ELSE ch[c]]
        /\ missed' = [c \in Client |->
                    IF c \in subs /\ ~HasRoom(c) THEN missed[c] + 1 ELSE missed[c]]
        /\ UNCHANGED <<subs, pc, snapshot, sent, from>>
    BY <1>1 DEF Add, reqVars
  <2>2. ln \in Line
    BY <2>1, HeadTailProperties DEF TypeOK
  <2> HIDE DEF ln
  <2>3. RequestsInOrder'
    BY <1>0, <2>1 DEF RequestsInOrder
  <2>4. ASSUME NEW c \in subs'
        PROVE  (/\ from[c] + Len(Carried(c)) + missed[c] = Len(added)
                /\ missed[c] = 0 => Carried(c) = SubSeq(added, from[c] + 1, Len(added)))'
    <3>1. c \in Client /\ c \in subs
      BY <1>0, <2>1
    <3>2. /\ from[c] + Len(Carried(c)) + missed[c] = Len(added)
          /\ missed[c] = 0 => Carried(c) = SubSeq(added, from[c] + 1, Len(added))
      BY <3>1, <1>0 DEF StreamHasNoGap
    <3>3. /\ Carried(c) \in Seq(Line) /\ Len(Carried(c)) \in Nat
          /\ ch[c] \in Seq(Line) /\ sent[c] \o snapshot[c] \in Seq(Line)
          /\ added \in Seq(Line) /\ Len(added) \in Nat
          /\ from[c] \in Nat /\ missed[c] \in Nat
      BY <3>1, CarriedType
    <3>4. Len(added') = Len(added) + 1
      BY <2>1, <2>2, <3>3, AppendProperties
    <3>7. /\ from[c] + Len(Carried(c)) + missed[c] = Len(added)
          /\ from[c] \in Nat /\ missed[c] \in Nat
          /\ Len(Carried(c)) \in Nat /\ Len(added) \in Nat
      BY <3>2, <3>3
    <3>5. CASE HasRoom(c)
      <4>1. ch'[c] = Append(ch[c], ln) /\ missed'[c] = missed[c] /\ from' = from
        BY <2>1, <3>1, <3>5
      <4>2. Carried(c)' = Append(Carried(c), ln)
        <5>1. Carried(c)' = (sent[c] \o snapshot[c]) \o Append(ch[c], ln)
          BY <4>1, <2>1 DEF Carried
        <5>2. (sent[c] \o snapshot[c]) \o Append(ch[c], ln)
                = Append((sent[c] \o snapshot[c]) \o ch[c], ln)
          <6> DEFINE u == sent[c] \o snapshot[c]
          <6>1. u \in Seq(Line) /\ ch[c] \in Seq(Line)
            BY <3>3
          <6> HIDE DEF u
          <6>2. u \o Append(ch[c], ln) = Append(u \o ch[c], ln)
            BY <2>2, <6>1, ConcatAppend
          <6> QED  BY <6>2 DEF u
        <5> QED  BY <5>1, <5>2 DEF Carried
      <4>3. Len(Carried(c)') = Len(Carried(c)) + 1
        BY <4>2, <2>2, <3>3, AppendProperties
      <4>4. ASSUME missed[c] = 0
            PROVE  Append(Carried(c), ln) = SubSeq(added', from[c] + 1, Len(added'))
        <5>1. from[c] \in 0 .. Len(added)
          BY <3>2, <3>3
        <5> QED  BY <5>1, <4>4, <2>1, <2>2, <3>2, <3>3, <3>4, SuffixOfAppend, ZenonT(60)
      <4>5. from'[c] + Len(Carried(c)') + missed'[c] = Len(added')
        <5>1. from'[c] = from[c] /\ missed'[c] = missed[c]
          BY <4>1
        <5>2. Len(Carried(c)') = Len(Carried(c)) + 1
          BY <4>3
        <5>3. from[c] + (Len(Carried(c)) + 1) + missed[c] = Len(added) + 1
          BY <3>7
        <5> QED  BY <5>1, <5>2, <5>3, <3>4
      <4>6. missed'[c] = 0 => Carried(c)' = SubSeq(added', from'[c] + 1, Len(added'))
        BY <4>1, <4>2, <4>4
      <4> QED  BY <4>5, <4>6
    <3>6. CASE ~HasRoom(c)
      <4>1. ch'[c] = ch[c] /\ missed'[c] = missed[c] + 1 /\ from' = from
        BY <2>1, <3>1, <3>6
      <4>2. Carried(c)' = Carried(c)
        BY <4>1, <2>1 DEF Carried
      <4>3. from'[c] + Len(Carried(c)') + missed'[c] = Len(added')
        <5>1. Len(Carried(c)') = Len(Carried(c))
          BY <4>2
        <5>2. from'[c] = from[c] /\ missed'[c] = missed[c] + 1
          BY <4>1
        <5>3. from[c] + Len(Carried(c)) + (missed[c] + 1) = Len(added) + 1
          BY <3>7
        <5> QED  BY <5>1, <5>2, <5>3, <3>4
      <4>4. missed'[c] # 0
        BY <4>1, <3>3
      <4> QED  BY <4>3, <4>4
    <3> QED  BY <3>5, <3>6
  <2> QED  BY <2>3, <2>4 DEF JoinInv, StreamHasNoGap
<1>2. ASSUME NEW c \in Client, Subscribe(c) PROVE JoinInv'
  <2>1. /\ pc[c] = "idle" /\ pc' = [pc EXCEPT ![c] = "replay"]
        /\ snapshot' = [snapshot EXCEPT ![c] = lines]
        /\ subs' = IF closed THEN subs ELSE subs \union {c}
        /\ from' = [from EXCEPT ![c] = Len(added) - Len(lines)]
        /\ UNCHANGED <<ch, sent, added, missed>>
    BY <1>2 DEF Subscribe
  <2>2. sent[c] = <<>> /\ ch[c] = <<>> /\ missed[c] = 0
    BY <1>0, <2>1 DEF RequestsInOrder
  <2>3. RequestsInOrder'
    BY <1>0, <2>1 DEF RequestsInOrder, TypeOK
  <2>4. ASSUME NEW d \in subs'
        PROVE  (/\ from[d] + Len(Carried(d)) + missed[d] = Len(added)
                /\ missed[d] = 0 => Carried(d) = SubSeq(added, from[d] + 1, Len(added)))'
    <3>1. CASE d # c
      <4>1. d \in subs /\ d \in Client
        BY <2>1, <3>1, <1>0
      <4>2. from'[d] = from[d] /\ Carried(d)' = Carried(d)
        BY <4>1, <2>1, <3>1 DEF Carried, TypeOK
      <4> QED  BY <4>1, <4>2, <2>1, <1>0 DEF StreamHasNoGap
    <3>2. CASE d = c
      <4>1. /\ lines \in Seq(Line) /\ added \in Seq(Line)
            /\ Len(lines) \in Nat /\ Len(added) \in Nat
        BY LenProperties DEF TypeOK
      <4>2. snapshot'[c] = lines /\ from'[c] = Len(added) - Len(lines)
        BY <2>1 DEF TypeOK
      <4>3. Carried(c)' = lines
        BY <4>1, <4>2, <2>1, <2>2, ConcatEmptySeq DEF Carried
      <4>4. /\ Len(lines) <= Len(added)
            /\ \A i \in 1 .. Len(lines) : lines[i] = added[Len(added) - Len(lines) + i]
        <5>1. /\ Len(lines) = IF Len(added) < MaxLines THEN Len(added) ELSE MaxLines
              /\ \A i \in 1 .. Len(lines) : lines[i] = added[Len(added) - Len(lines) + i]
          BY DEF RingHoldsLatest
        <5>2. MaxLines \in Nat
          BY LogStreamAssumption
        <5>3. Len(lines) <= Len(added)
          BY <5>1, <5>2, <4>1
        <5> QED  BY <5>1, <5>3
      <4>5. lines = SubSeq(added, from'[c] + 1, Len(added))
        <5> DEFINE k == Len(added) - Len(lines)
                   b == SubSeq(added, k + 1, Len(added))
        <5>1. /\ b \in Seq(Line) /\ Len(b) = Len(lines)
              /\ \A i \in 1 .. Len(lines) : b[i] = added[k + i]
          BY <4>1, <4>4
        <5> HIDE DEF b
        <5>2. lines = b
          BY <5>1, <4>1, <4>4, SeqEqual
        <5> QED  BY <5>2, <4>2 DEF b
      <4>6. Len(Carried(c)') = Len(lines) /\ missed'[c] = 0 /\ added' = added
        BY <4>3, <2>1, <2>2
      <4>7. from'[c] + Len(Carried(c)') + missed'[c] = Len(added')
        BY <4>1, <4>2, <4>4, <4>6
      <4>8. Carried(c)' = SubSeq(added', from'[c] + 1, Len(added'))
        BY <4>3, <4>5, <4>6
      <4> QED  BY <3>2, <4>7, <4>8
    <3> QED  BY <3>1, <3>2
  <2> QED  BY <2>3, <2>4 DEF JoinInv, StreamHasNoGap
<1>3. ASSUME NEW c \in Client, Replay(c) PROVE JoinInv'
  <2>1. /\ pc[c] = "replay" /\ UNCHANGED <<subs, ch, added, from, missed>>
    BY <1>3 DEF Replay, ringVars, chanVars, history
  <2>2. CASE snapshot[c] = <<>>
    <3>1. pc' = [pc EXCEPT ![c] = "select"] /\ UNCHANGED <<snapshot, sent>>
      BY <1>3, <2>2 DEF Replay
    <3>2. RequestsInOrder'
      BY <1>0, <2>1, <2>2, <3>1 DEF RequestsInOrder, TypeOK
    <3>3. \A d \in subs : Carried(d)' = Carried(d)
      BY <2>1, <3>1 DEF Carried
    <3> QED  BY <1>0, <2>1, <3>2, <3>3, JoinFrame DEF JoinInv
  <2>3. CASE snapshot[c] # <<>>
    <3>1. /\ pc' = pc
          /\ sent' = [sent EXCEPT ![c] = Append(@, Head(snapshot[c]))]
          /\ snapshot' = [snapshot EXCEPT ![c] = Tail(@)]
      BY <1>3, <2>3 DEF Replay
    <3>2. RequestsInOrder'
      BY <1>0, <2>1, <3>1 DEF RequestsInOrder, TypeOK
    <3>3. ASSUME NEW d \in subs PROVE Carried(d)' = Carried(d)
      <4>1. CASE d = c
        <5>1. sent[c] \in Seq(Line) /\ snapshot[c] \in Seq(Line)
          BY DEF TypeOK
        <5>2. /\ sent'[c] = Append(sent[c], Head(snapshot[c]))
              /\ snapshot'[c] = Tail(snapshot[c])
          BY <3>1 DEF TypeOK
        <5>3. sent'[c] \o snapshot'[c] = sent[c] \o snapshot[c]
          BY <5>1, <5>2, <2>3, AppendHead
        <5> QED  BY <5>3, <4>1, <2>1 DEF Carried
      <4>2. CASE d # c
        BY <4>2, <3>1, <2>1, <1>0 DEF Carried, TypeOK
      <4> QED  BY <4>1, <4>2
    <3> QED  BY <1>0, <2>1, <3>2, <3>3, JoinFrame DEF JoinInv
  <2> QED  BY <2>2, <2>3
<1>4. ASSUME NEW c \in Client, Receive(c) PROVE JoinInv'
  <2>1. /\ pc[c] = "select" /\ ch[c] # <<>>
        /\ sent' = [sent EXCEPT ![c] = Append(@, Head(ch[c]))]
        /\ ch' = [ch EXCEPT ![c] = Tail(@)]
        /\ UNCHANGED <<subs, added, from, missed, pc, snapshot>>
    BY <1>4 DEF Receive, ringVars, history
  <2>2. RequestsInOrder'
    BY <1>0, <2>1 DEF RequestsInOrder, TypeOK
  <2>3. ASSUME NEW d \in subs PROVE Carried(d)' = Carried(d)
    <3>1. CASE d = c
      <4>1. sent[c] \in Seq(Line) /\ ch[c] \in Seq(Line) /\ snapshot[c] = <<>>
        BY <1>0, <2>1 DEF RequestsInOrder, TypeOK
      <4>2. /\ sent'[c] = Append(sent[c], Head(ch[c]))
            /\ ch'[c] = Tail(ch[c]) /\ snapshot'[c] = <<>>
        BY <2>1, <4>1 DEF TypeOK
      <4>3. sent'[c] \in Seq(Line)
        BY <4>1, <4>2, <2>1, HeadTailProperties, AppendProperties
      <4>4. Carried(c) = sent[c] \o ch[c] /\ Carried(c)' = sent'[c] \o ch'[c]
        BY <4>1, <4>2, <4>3, ConcatEmptySeq DEF Carried
      <4> QED  BY <3>1, <4>1, <4>2, <4>4, <2>1, AppendHead, ZenonT(60)
    <3>2. CASE d # c
      BY <3>2, <2>1, <1>0 DEF Carried, TypeOK
    <3> QED  BY <3>1, <3>2
  <2> QED  BY <1>0, <2>1, <2>2, <2>3, JoinFrame DEF JoinInv
<1>5. ASSUME NEW c \in Client,
             ReceiveClosed(c) \/ ContextDone(c) \/ Unsubscribe(c)
      PROVE  JoinInv'
  <2>1. /\ pc[c] \in {"select", "cancel"}
        /\ \E l \in {"cancel", "over"} : pc' = [pc EXCEPT ![c] = l]
        /\ subs' \subseteq subs
        /\ UNCHANGED <<ch, added, from, missed, snapshot, sent>>
    BY <1>5 DEF ReceiveClosed, ContextDone, Unsubscribe, ringVars, chanVars, history
  <2>2. RequestsInOrder'
    BY <1>0, <2>1 DEF RequestsInOrder, TypeOK
  <2>3. \A d \in subs : Carried(d)' = Carried(d)
    BY <2>1 DEF Carried
  <2> QED  BY <1>0, <2>1, <2>2, <2>3, JoinFrame DEF JoinInv
<1>6. ASSUME UNCHANGED <<ch, added, from, missed, snapshot, sent, pc>>, subs' \subseteq subs
      PROVE  JoinInv'
  <2>1. RequestsInOrder'
    BY <1>0, <1>6 DEF RequestsInOrder
  <2>2. \A d \in subs : Carried(d)' = Carried(d)
    BY <1>6 DEF Carried
  <2> QED  BY <1>0, <1>6, <2>1, <2>2, JoinFrame DEF JoinInv
<1>7. \/ \E s \in Stream : Add(s)
      \/ \E c \in Client : \/ Subscribe(c) \/ Replay(c) \/ Receive(c)
                           \/ ReceiveClosed(c) \/ ContextDone(c) \/ Unsubscribe(c)
      \/ UNCHANGED <<ch, added, from, missed, snapshot, sent, pc>> /\ subs' \subseteq subs
  BY DEF Next, Pump, Waiter, Serve, Write, Fork, HeirsExit, Exit, Fill, GiveUp,
    Eof, WaitReturns, SetState, CloseSubs, Disconnect, vars, ringVars, chanVars,
    reqVars, history
<1> QED  BY <1>1, <1>2, <1>3, <1>4, <1>5, <1>6, <1>7

LEMMA JoinCorrect == Spec => []JoinInv
<1>1. Init => JoinInv
  BY JoinInit
<1>2. TypeOK /\ RingHoldsLatest /\ ChannelInv /\ JoinInv /\ [Next]_vars => JoinInv'
  BY JoinStep
<1> QED  BY <1>1, <1>2, TypeAndRing, ChannelsCorrect, PTL DEF Spec

\* A follower has, in order and once, every line added since the oldest line of
\* its snapshot, except those that found its channel full: whatever the
\* capacities, the number of followers and the interleaving of the pumps.
THEOREM NoGap == Spec => []StreamHasNoGap
<1>1. JoinInv => StreamHasNoGap
  BY DEF JoinInv
<1> QED  BY <1>1, JoinCorrect, PTL

-------------------------------------------------------------------------------
(***************************************************************************)
(* CapturedIsPrefix is not inductive: that the next line a pump adds is    *)
(* the one after those captured of its stream needs that the scanner's     *)
(* buffer and the pipe behind it hold the lines that follow, in order, up  *)
(* to the last one written.  k is the number of lines captured of s.       *)
(***************************************************************************)

Flow(s, k) ==
  /\ \A j \in 1 .. Len(added) : added[j].stream = s => added[j].n \in 1 .. k
  /\ \A m \in 1 .. k : Captured(s, m)
  /\ pump[s] = "returned" => scan[s] = <<>>
  /\ pump[s] = "scanning" =>
       /\ \A i \in 1 .. Len(scan[s]) : scan[s][i].stream = s /\ scan[s][i].n = k + i
       /\ \A i \in 1 .. Len(pipe[s]) :
            pipe[s][i].stream = s /\ pipe[s][i].n = k + Len(scan[s]) + i
       /\ PipesOpen => written[s] = k + Len(scan[s]) + Len(pipe[s])

\* The lines of one stream lie in the log in the order in which they were written.
AddedInOrder ==
  \A i, j \in 1 .. Len(added) :
    i < j /\ added[i].stream = added[j].stream => added[i].n < added[j].n

FlowInv ==
  /\ \A s \in Stream : \E k \in Nat : Flow(s, k)
  /\ AddedInOrder

LEMMA FlowInit == Init => FlowInv
<1> SUFFICES ASSUME Init PROVE FlowInv
  OBVIOUS
<1>1. added = <<>> /\ Len(added) = 0
  BY DEF Init
<1>2. ASSUME NEW s \in Stream PROVE Flow(s, 0)
  <2>1. /\ scan[s] = <<>> /\ pipe[s] = <<>> /\ written[s] = 0
        /\ Len(scan[s]) = 0 /\ Len(pipe[s]) = 0 /\ pump[s] = "scanning"
    BY <1>2 DEF Init
  <2> QED  BY <1>1, <2>1 DEF Flow
<1> QED  BY <1>1, <1>2 DEF FlowInv, AddedInOrder

\* What is captured stays where it is; a stream nobody works on keeps its k.
LEMMA FlowFrame ==
  ASSUME NEW s, NEW k, Flow(s, k), UNCHANGED added,
         scan'[s] = scan[s], pipe'[s] = pipe[s], pump'[s] = pump[s],
         written'[s] = written[s], PipesOpen' => PipesOpen
  PROVE  Flow(s, k)'
BY DEF Flow, Captured

LEMMA FlowStep == TypeOK /\ FlowInv /\ [Next]_vars => FlowInv'
<1> SUFFICES ASSUME TypeOK, FlowInv, [Next]_vars PROVE FlowInv'
  OBVIOUS
<1>0. /\ added \in Seq(Line) /\ Len(added) \in Nat
      /\ scan \in [Stream -> Seq(Line)] /\ pipe \in [Stream -> Seq(Line)]
      /\ written \in [Stream -> Nat] /\ pump \in [Stream -> {"scanning", "returned"}]
      /\ \A s \in Stream : Len(scan[s]) \in Nat /\ Len(pipe[s]) \in Nat
      /\ \A j \in 1 .. Len(added) : added[j].n \in Nat
  <2>1. /\ added \in Seq(Line) /\ scan \in [Stream -> Seq(Line)]
        /\ pipe \in [Stream -> Seq(Line)] /\ written \in [Stream -> 0 .. MaxOut]
        /\ pump \in [Stream -> {"scanning", "returned"}]
    BY DEF TypeOK
  <2>2. \A j \in 1 .. Len(added) : added[j] \in Line
    BY <2>1, ElementOfSeq
  <2>3. /\ Len(added) \in Nat
        /\ \A s \in Stream : Len(scan[s]) \in Nat /\ Len(pipe[s]) \in Nat
    BY <2>1, LenProperties
  <2>4. \A j \in 1 .. Len(added) : added[j].n \in Nat
    BY <2>2, LogStreamAssumption DEF Line
  <2>5. written \in [Stream -> Nat]
    BY <2>1, LogStreamAssumption
  <2> QED  BY <2>1, <2>3, <2>4, <2>5
<1>a. AddedInOrder /\ \A s \in Stream : \E k \in Nat : Flow(s, k)
  BY DEF FlowInv
<1>1. ASSUME NEW s \in Stream, NEW fits \in Fits, Write(s, fits) PROVE FlowInv'
  <2> DEFINE ln == [stream |-> s, n |-> written[s] + 1, fits |-> fits]
  <2>1. /\ PipesOpen /\ UNCHANGED <<added, scan, pump, waiter>>
        /\ written' = [written EXCEPT ![s] = @ + 1]
        /\ pipe' = [pipe EXCEPT ![s] = Append(@, ln)]
        /\ ln \in Line
    BY <1>1, LogStreamAssumption DEF Write, pumpVars, waitVars, history, TypeOK, Line
  <2>2. ASSUME NEW t \in Stream PROVE \E k \in Nat : Flow(t, k)'
    <3>1. PICK k \in Nat : Flow(t, k)
      BY <1>a
    <3>2. CASE t # s
      <4>1. Flow(t, k)'
        BY <3>1, <3>2, <2>1, <1>0, FlowFrame DEF PipesOpen
      <4> QED  BY <4>1
    <3>3. CASE t = s
      <4>1. pipe'[s] = Append(pipe[s], ln) /\ written'[s] = written[s] + 1
        BY <2>1, <1>0
      <4>2. /\ Len(pipe'[s]) = Len(pipe[s]) + 1
            /\ \A i \in 1 .. Len(pipe[s]) : pipe'[s][i] = pipe[s][i]
            /\ pipe'[s][Len(pipe[s]) + 1] = ln
        <5> HIDE DEF ln
        <5> QED  BY <4>1, <2>1, <1>0, AppendProperties
      <4>3. ASSUME pump'[s] = "scanning", NEW i \in 1 .. Len(pipe'[s])
            PROVE  pipe'[s][i].stream = s /\ pipe'[s][i].n = k + Len(scan[s]) + i
        <5>0. /\ written[s] = k + Len(scan[s]) + Len(pipe[s])
              /\ \A j \in 1 .. Len(pipe[s]) :
                   pipe[s][j].stream = s /\ pipe[s][j].n = k + Len(scan[s]) + j
          BY <4>3, <3>1, <3>3, <2>1 DEF Flow
        <5>1. CASE i = Len(pipe[s]) + 1
          <6>1. ln.stream = s /\ ln.n = written[s] + 1
            OBVIOUS
          <6>2. written[s] + 1 = k + Len(scan[s]) + i
            BY <5>0, <5>1, <1>0
          <6> QED  BY <6>1, <6>2, <4>2, <5>1
        <5>2. CASE i # Len(pipe[s]) + 1
          <6>1. i \in 1 .. Len(pipe[s])
            BY <5>2, <4>2, <1>0
          <6> QED  BY <5>0, <6>1, <4>2
        <5> QED  BY <5>1, <5>2
      <4>4. ASSUME pump'[s] = "scanning"
            PROVE  written'[s] = k + Len(scan'[s]) + Len(pipe'[s])
        <5>1. written[s] = k + Len(scan[s]) + Len(pipe[s])
          BY <4>4, <3>1, <3>3, <2>1 DEF Flow
        <5> QED  BY <5>1, <4>1, <4>2, <2>1, <1>0
      <4>5. Flow(s, k)'
        BY <3>1, <3>3, <2>1, <4>3, <4>4 DEF Flow, Captured
      <4> QED  BY <3>3, <4>5
    <3> QED  BY <3>2, <3>3
  <2> QED  BY <1>a, <2>1, <2>2 DEF FlowInv, AddedInOrder
<1>2. ASSUME NEW s \in Stream, Fill(s) PROVE FlowInv'
  <2>1. /\ pump[s] = "scanning" /\ scan[s] = <<>> /\ UNCHANGED <<added, written, pump, waiter>>
    BY <1>2 DEF Fill, waitVars, history
  <2>2. PICK r \in 1 .. Len(pipe[s]) :
          /\ scan' = [scan EXCEPT ![s] = SubSeq(pipe[s], 1, r)]
          /\ pipe' = [pipe EXCEPT ![s] = SubSeq(@, r + 1, Len(@))]
    BY <1>2 DEF Fill
  <2>3. ASSUME NEW t \in Stream PROVE \E k \in Nat : Flow(t, k)'
    <3>1. PICK k \in Nat : Flow(t, k)
      BY <1>a
    <3>2. CASE t # s
      <4>1. Flow(t, k)'
        BY <3>1, <3>2, <2>1, <2>2, <1>0, FlowFrame DEF PipesOpen
      <4> QED  BY <4>1
    <3>3. CASE t = s
      <4>1. scan'[s] = SubSeq(pipe[s], 1, r) /\ pipe'[s] = SubSeq(pipe[s], r + 1, Len(pipe[s]))
        BY <2>2, <1>0
      <4>2. /\ r \in Nat /\ r <= Len(pipe[s]) /\ Len(pipe[s]) \in Nat
            /\ pipe[s] \in Seq(Line) /\ Len(scan[s]) = 0
        BY <1>0, <2>1
      <4>3. /\ Len(scan'[s]) = r
            /\ \A i \in 1 .. r : scan'[s][i] = pipe[s][i]
            /\ Len(pipe'[s]) = Len(pipe[s]) - r
            /\ \A i \in 1 .. Len(pipe[s]) - r : pipe'[s][i] = pipe[s][r + i]
        BY <4>1, <4>2
      <4>4. /\ \A i \in 1 .. Len(pipe[s]) :
                 pipe[s][i].stream = s /\ pipe[s][i].n = k + i
            /\ PipesOpen => written[s] = k + Len(pipe[s])
        BY <3>1, <3>3, <2>1, <4>2 DEF Flow
      <4>5. ASSUME NEW i \in 1 .. r
            PROVE  scan'[s][i].stream = s /\ scan'[s][i].n = k + i
        <5>1. i \in 1 .. Len(pipe[s])
          BY <4>2
        <5> QED  BY <5>1, <4>3, <4>4
      <4>6. ASSUME NEW i \in 1 .. Len(pipe[s]) - r
            PROVE  pipe'[s][i].stream = s /\ pipe'[s][i].n = k + r + i
        <5>1. r + i \in 1 .. Len(pipe[s])
          BY <4>2
        <5> QED  BY <5>1, <4>3, <4>4, <4>2, SMTT(40)
      <4>7. PipesOpen' => written'[s] = k + Len(scan'[s]) + Len(pipe'[s])
        <5>1. \A a, b \in Nat : k + a = k + b + (a - b)
          OBVIOUS
        <5>2. k + Len(pipe[s]) = k + Len(scan'[s]) + Len(pipe'[s])
          BY <5>1, <4>2, <4>3, ZenonT(60)
        <5> QED  BY <5>2, <4>4, <2>1 DEF PipesOpen
      <4>8. Flow(s, k)'
        BY <3>1, <3>3, <2>1, <4>3, <4>5, <4>6, <4>7 DEF Flow, Captured
      <4> QED  BY <3>3, <4>8
    <3> QED  BY <3>2, <3>3
  <2> QED  BY <1>a, <2>1, <2>3 DEF FlowInv, AddedInOrder
<1>3. ASSUME NEW s \in Stream, Add(s) PROVE FlowInv'
  <2> DEFINE ln == Head(scan[s])
  <2>1. /\ pump[s] = "scanning" /\ scan[s] # <<>>
        /\ added' = Append(added, ln)
        /\ scan' = [scan EXCEPT ![s] = Tail(@)]
        /\ UNCHANGED <<pipe, written, pump, waiter>>
    BY <1>3 DEF Add, osVars, waitVars
  <2>2. /\ scan[s] \in Seq(Line) /\ ln = scan[s][1] /\ ln \in Line /\ Len(scan[s]) >= 1
        /\ Len(Tail(scan[s])) = Len(scan[s]) - 1
        /\ \A i \in 1 .. Len(scan[s]) - 1 : Tail(scan[s])[i] = scan[s][i + 1]
    <3>1. scan[s] \in Seq(Line)
      BY <1>0
    <3> QED  BY <3>1, <2>1, HeadTailProperties
  <2>3. PICK k \in Nat : Flow(s, k)
    BY <1>a
  <2>4. ln.stream = s /\ ln.n = k + 1
    BY <2>1, <2>2, <2>3 DEF Flow
  <2> HIDE DEF ln
  <2>5. /\ Len(added') = Len(added) + 1
        /\ \A i \in 1 .. Len(added) : added'[i] = added[i]
        /\ added'[Len(added) + 1] = ln
    BY <2>1, <2>2, <1>0, AppendProperties
  <2>6. scan'[s] = Tail(scan[s]) /\ \A t \in Stream \ {s} : scan'[t] = scan[t]
    BY <2>1, <1>0
  <2>7. \A j \in 1 .. Len(added') : j \in 1 .. Len(added) \/ j = Len(added) + 1
    BY <2>5, <1>0
  <2>8. /\ \A j \in 1 .. Len(added) : added[j].stream = s => added[j].n \in 1 .. k
        /\ \A m \in 1 .. k : Captured(s, m)
    BY <2>3 DEF Flow
  <2>9. Flow(s, k + 1)'
    <3>1. \A j \in 1 .. Len(added') : added'[j].stream = s => added'[j].n \in 1 .. k + 1
      BY <2>3, <2>4, <2>5, <2>7, <2>8
    <3>2. ASSUME NEW m \in 1 .. k + 1 PROVE Captured(s, m)'
      <4>1. CASE m = k + 1
        <5>1. Len(added) + 1 \in 1 .. Len(added')
          BY <2>5, <1>0
        <5> QED  BY <5>1, <4>1, <2>4, <2>5 DEF Captured
      <4>2. CASE m # k + 1
        <5>1. m \in 1 .. k
          BY <4>2, <2>3
        <5>2. PICK i \in 1 .. Len(added) : added[i].stream = s /\ added[i].n = m
          BY <5>1, <2>8 DEF Captured
        <5>3. i \in 1 .. Len(added') /\ added'[i] = added[i]
          BY <2>5, <1>0
        <5> QED  BY <5>2, <5>3 DEF Captured
      <4> QED  BY <4>1, <4>2
    <3>3. ASSUME NEW i \in 1 .. Len(scan'[s])
          PROVE  scan'[s][i].stream = s /\ scan'[s][i].n = k + 1 + i
      <4>1. i \in 1 .. Len(scan[s]) - 1 /\ i + 1 \in 1 .. Len(scan[s])
        BY <2>2, <2>6, <1>0
      <4>2. scan'[s][i] = scan[s][i + 1]
        BY <4>1, <2>2, <2>6
      <4>3. scan[s][i + 1].stream = s /\ scan[s][i + 1].n = k + (i + 1)
        BY <4>1, <2>1, <2>3 DEF Flow
      <4> QED  BY <4>2, <4>3, <2>3
    <3>4. /\ \A i \in 1 .. Len(pipe[s]) :
               pipe[s][i].stream = s /\ pipe[s][i].n = k + Len(scan[s]) + i
          /\ PipesOpen => written[s] = k + Len(scan[s]) + Len(pipe[s])
      BY <2>1, <2>3 DEF Flow
    <3>5. Len(scan'[s]) = Len(scan[s]) - 1 /\ Len(scan[s]) \in Nat /\ Len(pipe[s]) \in Nat
      BY <2>2, <2>6, <1>0
    <3>6. k + Len(scan[s]) = k + 1 + Len(scan'[s])
      <4>1. \A a \in Nat : k + a = k + 1 + (a - 1)
        OBVIOUS
      <4>2. k + Len(scan[s]) = k + 1 + (Len(scan[s]) - 1)
        BY <4>1, <3>5
      <4> QED  BY <4>2, <3>5
    <3>7. /\ \A i \in 1 .. Len(pipe'[s]) :
               pipe'[s][i].stream = s /\ pipe'[s][i].n = k + 1 + Len(scan'[s]) + i
          /\ PipesOpen' => written'[s] = k + 1 + Len(scan'[s]) + Len(pipe'[s])
      BY <3>4, <3>6, <2>1 DEF PipesOpen
    <3> QED  BY <3>1, <3>2, <3>3, <3>7, <2>1 DEF Flow
  <2>10. ASSUME NEW t \in Stream, t # s PROVE \E l \in Nat : Flow(t, l)'
    <3>1. PICK l \in Nat : Flow(t, l)
      BY <1>a
    <3>2. \A j \in 1 .. Len(added') : added'[j].stream = t => added'[j].n \in 1 .. l
      BY <3>1, <2>10, <2>4, <2>5, <2>7 DEF Flow
    <3>3. ASSUME NEW m \in 1 .. l PROVE Captured(t, m)'
      <4>1. PICK i \in 1 .. Len(added) : added[i].stream = t /\ added[i].n = m
        BY <3>1 DEF Flow, Captured
      <4>2. i \in 1 .. Len(added') /\ added'[i] = added[i]
        BY <2>5, <1>0
      <4> QED  BY <4>1, <4>2 DEF Captured
    <3>4. Flow(t, l)'
      BY <3>1, <3>2, <3>3, <2>1, <2>6, <2>10 DEF Flow, PipesOpen
    <3> QED  BY <3>4
  <2>11. AddedInOrder'
    <3> SUFFICES ASSUME NEW i \in 1 .. Len(added'), NEW j \in 1 .. Len(added'), i < j,
                        added'[i].stream = added'[j].stream
                 PROVE  added'[i].n < added'[j].n
      BY DEF AddedInOrder
    <3>0. i \in 1 .. Len(added) + 1 /\ j \in 1 .. Len(added) + 1 /\ Len(added) \in Nat
      BY <2>5, <1>0
    <3>1. CASE j = Len(added) + 1
      <4>0. i \in 1 .. Len(added)
        BY <3>0, <3>1
      <4>1. i \in 1 .. Len(added) /\ added'[i] = added[i] /\ added'[j] = ln
        BY <3>1, <4>0, <2>5
      <4>2. added[i].stream = s
        BY <4>1, <2>4
      <4>3. added[i].n \in 1 .. k
        BY <4>1, <4>2, <2>8
      <4> QED  BY <4>1, <4>3, <2>3, <2>4
    <3>2. CASE j # Len(added) + 1
      <4>1. i \in 1 .. Len(added) /\ j \in 1 .. Len(added)
        BY <3>0, <3>2
      <4> QED  BY <4>1, <2>5, <1>a DEF AddedInOrder
    <3> QED  BY <3>1, <3>2
  <2>12. k + 1 \in Nat
    BY <2>3
  <2> QED  BY <2>9, <2>10, <2>11, <2>12 DEF FlowInv
<1>4. ASSUME NEW s \in Stream, GiveUp(s) \/ Eof(s) PROVE FlowInv'
  <2>1. /\ UNCHANGED <<added, written, waiter, pipe>>
        /\ pump' = [pump EXCEPT ![s] = "returned"]
        /\ scan'[s] = <<>> /\ \A t \in Stream \ {s} : scan'[t] = scan[t]
    BY <1>4, <1>0 DEF GiveUp, Eof, osVars, waitVars, history
  <2>2. ASSUME NEW t \in Stream PROVE \E k \in Nat : Flow(t, k)'
    <3>1. PICK k \in Nat : Flow(t, k)
      BY <1>a
    <3>2. CASE t # s
      <4>1. Flow(t, k)'
        BY <3>1, <3>2, <2>1, <1>0, FlowFrame DEF PipesOpen
      <4> QED  BY <4>1
    <3>3. CASE t = s
      <4>1. pump'[s] = "returned" /\ scan'[s] = <<>>
        BY <2>1, <1>0
      <4>2. Flow(s, k)'
        BY <3>1, <3>3, <2>1, <4>1 DEF Flow, Captured
      <4> QED  BY <3>3, <4>2
    <3> QED  BY <3>2, <3>3
  <2> QED  BY <1>a, <2>1, <2>2 DEF FlowInv, AddedInOrder
<1>5. CASE WaitReturns
  <2>1. /\ UNCHANGED <<added, written, scan, pump>>
        /\ pipe' = [s \in Stream |-> <<>>] /\ ~PipesOpen'
    BY <1>5 DEF WaitReturns, pumpVars, history, PipesOpen
  <2>2. ASSUME NEW t \in Stream PROVE \E k \in Nat : Flow(t, k)'
    <3>1. PICK k \in Nat : Flow(t, k)
      BY <1>a
    <3>2. pipe'[t] = <<>> /\ Len(pipe'[t]) = 0
      BY <2>1
    <3>3. \A i \in 1 .. Len(pipe'[t]) : FALSE
      BY <3>2
    <3>4. Flow(t, k)'
      BY <3>1, <3>3, <2>1 DEF Flow, Captured
    <3> QED  BY <3>4
  <2> QED  BY <1>a, <2>1, <2>2 DEF FlowInv, AddedInOrder
<1>6. ASSUME UNCHANGED <<added, written, scan, pipe, pump>>, PipesOpen' => PipesOpen
      PROVE  FlowInv'
  <2>1. ASSUME NEW t \in Stream PROVE \E k \in Nat : Flow(t, k)'
    <3>1. PICK k \in Nat : Flow(t, k)
      BY <1>a
    <3>2. Flow(t, k)'
      BY <3>1, <1>6, FlowFrame
    <3> QED  BY <3>2
  <2> QED  BY <1>a, <1>6, <2>1 DEF FlowInv, AddedInOrder
<1>7. \/ \E s \in Stream, fits \in Fits : Write(s, fits)
      \/ \E s \in Stream : Fill(s) \/ Add(s) \/ GiveUp(s) \/ Eof(s)
      \/ WaitReturns
      \/ UNCHANGED <<added, written, scan, pipe, pump>> /\ (PipesOpen' => PipesOpen)
  BY DEF Next, Pump, Waiter, Serve, Fork, HeirsExit, Exit, SetState, CloseSubs,
    Subscribe, Replay, Receive, ReceiveClosed, ContextDone, Unsubscribe,
    Disconnect, PipesOpen, vars, osVars, pumpVars, waitVars, history
<1> QED  BY <1>1, <1>2, <1>3, <1>4, <1>5, <1>6, <1>7

LEMMA FlowCorrect == Spec => []FlowInv
<1>1. Init => FlowInv
  BY FlowInit
<1>2. TypeOK /\ FlowInv /\ [Next]_vars => FlowInv'
  BY FlowStep
<1> QED  BY <1>1, <1>2, TypeCorrect, PTL DEF Spec

\* Neither pump reorders, repeats or leaves out a line of its stream, however
\* the pumps, the process and the goroutine that waits for it interleave, and
\* wherever cmd.Wait or an over-long line cuts the stream off.
THEOREM CapturedInOrder == Spec => []CapturedIsPrefix
<1>1. TypeOK /\ FlowInv => CapturedIsPrefix
  <2> SUFFICES ASSUME TypeOK, FlowInv,
                      NEW j \in 1 .. Len(added), NEW m \in 1 .. added[j].n - 1
               PROVE  \E i \in 1 .. j - 1 : added[i].stream = added[j].stream /\ added[i].n = m
    BY DEF CapturedIsPrefix
  <2>1. added[j].stream \in Stream /\ added[j].n \in Nat
    <3>1. added[j] \in Line
      BY ElementOfSeq DEF TypeOK
    <3> QED  BY <3>1, LogStreamAssumption DEF Line
  <2>2. PICK k \in Nat : Flow(added[j].stream, k)
    BY <2>1 DEF FlowInv
  <2>3. added[j].n \in 1 .. k
    BY <2>2 DEF Flow
  <2>4. m \in 1 .. k /\ m < added[j].n
    BY <2>1, <2>3
  <2>5. PICK i \in 1 .. Len(added) : added[i].stream = added[j].stream /\ added[i].n = m
    BY <2>2, <2>4 DEF Flow, Captured
  <2>6. Len(added) \in Nat
    BY LenProperties DEF TypeOK
  <2>7. ~(j < i) /\ i # j
    BY <2>4, <2>5, <2>1 DEF FlowInv, AddedInOrder
  <2>8. i \in 1 .. j - 1
    BY <2>6, <2>7
  <2> QED  BY <2>5, <2>8
<1> QED  BY <1>1, TypeCorrect, FlowCorrect, PTL

-------------------------------------------------------------------------------
(***************************************************************************)
(* What a client carries lies in the log at places that go up, all behind  *)
(* the place where its snapshot started: p is where.                       *)
(***************************************************************************)

At(q, a, f, p) ==
  /\ \A i \in 1 .. Len(q) : q[i] = a[p[i]]
  /\ \A i, j \in 1 .. Len(q) : i < j => p[i] < p[j]

Placed(q, a, f) == \E p \in [1 .. Len(q) -> f + 1 .. Len(a)] : At(q, a, f, p)

PlacesInv ==
  \A c \in Client :
    /\ Placed(Carried(c), added, from[c])
    /\ from[c] <= Len(added)
    /\ pc[c] \in {"idle", "replay", "select"} => ~ended[c]

\* A line that joins the log stands behind everything that is placed in it.
LEMMA PlacedAppend ==
  ASSUME NEW S, NEW q \in Seq(S), NEW a \in Seq(S), NEW e \in S, NEW f \in Nat,
         f <= Len(a), Placed(q, a, f)
  PROVE  Placed(q, Append(a, e), f) /\ Placed(Append(q, e), Append(a, e), f)
<1>1. PICK p \in [1 .. Len(q) -> f + 1 .. Len(a)] : At(q, a, f, p)
  BY DEF Placed
<1>2. /\ Len(q) \in Nat /\ Len(a) \in Nat
      /\ Len(Append(a, e)) = Len(a) + 1 /\ Len(Append(q, e)) = Len(q) + 1
      /\ \A i \in 1 .. Len(a) : Append(a, e)[i] = a[i]
      /\ \A i \in 1 .. Len(q) : Append(q, e)[i] = q[i]
      /\ Append(a, e)[Len(a) + 1] = e /\ Append(q, e)[Len(q) + 1] = e
  BY AppendProperties, LenProperties
<1>3. \A i \in 1 .. Len(q) : p[i] \in f + 1 .. Len(a) /\ p[i] \in 1 .. Len(a)
  BY <1>1, <1>2
<1>4. Placed(q, Append(a, e), f)
  <2>1. p \in [1 .. Len(q) -> f + 1 .. Len(Append(a, e))]
    BY <1>1, <1>2
  <2>2. At(q, Append(a, e), f, p)
    BY <1>1, <1>2, <1>3 DEF At
  <2> QED  BY <2>1, <2>2 DEF Placed
<1>5. Placed(Append(q, e), Append(a, e), f)
  <2> DEFINE r == [i \in 1 .. Len(q) + 1 |-> IF i = Len(q) + 1 THEN Len(a) + 1 ELSE p[i]]
  <2>1. /\ \A i \in 1 .. Len(q) : r[i] = p[i]
        /\ r[Len(q) + 1] = Len(a) + 1
        /\ r \in [1 .. Len(q) + 1 -> f + 1 .. Len(a) + 1]
    <3>1. ASSUME NEW i \in 1 .. Len(q) + 1, i # Len(q) + 1 PROVE i \in 1 .. Len(q)
      BY <3>1, <1>2
    <3> QED  BY <1>2, <1>3, <3>1
  <2> HIDE DEF r
  <2>2. \A i \in 1 .. Len(q) + 1 : i \in 1 .. Len(q) \/ i = Len(q) + 1
    BY <1>2
  <2>3. \A i \in 1 .. Len(q) + 1 : Append(q, e)[i] = Append(a, e)[r[i]]
    BY <1>1, <1>2, <1>3, <2>1, <2>2 DEF At
  <2>4. ASSUME NEW i \in 1 .. Len(q) + 1, NEW j \in 1 .. Len(q) + 1, i < j
        PROVE  r[i] < r[j]
    <3>1. i \in 1 .. Len(q) /\ r[i] = p[i]
      BY <2>1, <2>4, <1>2
    <3>2. CASE j = Len(q) + 1
      BY <3>1, <3>2, <2>1, <1>2, <1>3
    <3>3. CASE j # Len(q) + 1
      BY <3>1, <3>3, <2>1, <2>2, <2>4, <1>1 DEF At
    <3> QED  BY <3>2, <3>3
  <2> QED  BY <1>2, <2>1, <2>3, <2>4, ZenonT(60) DEF Placed, At
<1> QED  BY <1>4, <1>5

\* A request that takes a line from its snapshot carries what it carried.
LEMMA ReplayKeeps ==
  ASSUME TypeOK, NEW c \in Client, snapshot[c] # <<>>,
         sent' = [sent EXCEPT ![c] = Append(@, Head(snapshot[c]))],
         snapshot' = [snapshot EXCEPT ![c] = Tail(@)], ch' = ch
  PROVE  \A d \in Client : Carried(d)' = Carried(d)
<1> SUFFICES ASSUME NEW d \in Client PROVE Carried(d)' = Carried(d)
  OBVIOUS
<1>1. CASE d = c
  <2>1. sent[c] \in Seq(Line) /\ snapshot[c] \in Seq(Line)
    BY DEF TypeOK
  <2>2. sent'[c] = Append(sent[c], Head(snapshot[c])) /\ snapshot'[c] = Tail(snapshot[c])
    BY DEF TypeOK
  <2>3. sent'[c] \o snapshot'[c] = sent[c] \o snapshot[c]
    BY <2>1, <2>2, AppendHead
  <2> QED  BY <2>3, <1>1 DEF Carried
<1>2. CASE d # c
  BY <1>2 DEF Carried, TypeOK
<1> QED  BY <1>1, <1>2

\* So does one that takes a line from its channel, its snapshot being empty.
LEMMA ReceiveKeeps ==
  ASSUME TypeOK, NEW c \in Client, snapshot[c] = <<>>, ch[c] # <<>>,
         sent' = [sent EXCEPT ![c] = Append(@, Head(ch[c]))],
         ch' = [ch EXCEPT ![c] = Tail(@)], snapshot' = snapshot
  PROVE  \A d \in Client : Carried(d)' = Carried(d)
<1> SUFFICES ASSUME NEW d \in Client PROVE Carried(d)' = Carried(d)
  OBVIOUS
<1>1. CASE d = c
  <2>1. sent[c] \in Seq(Line) /\ ch[c] \in Seq(Line)
    BY DEF TypeOK
  <2>2. sent'[c] = Append(sent[c], Head(ch[c])) /\ ch'[c] = Tail(ch[c])
    BY DEF TypeOK
  <2>3. sent'[c] \in Seq(Line)
    BY <2>1, <2>2, HeadTailProperties, AppendProperties
  <2>4. Carried(c) = sent[c] \o ch[c] /\ Carried(c)' = sent'[c] \o ch'[c]
    BY <2>1, <2>3, ConcatEmptySeq DEF Carried
  <2> QED  BY <1>1, <2>1, <2>2, <2>4, AppendHead, ZenonT(60)
<1>2. CASE d # c
  BY <1>2 DEF Carried, TypeOK
<1> QED  BY <1>1, <1>2

LEMMA PlacesInit == Init => PlacesInv
<1> SUFFICES ASSUME Init, NEW c \in Client
             PROVE  Placed(Carried(c), added, from[c]) /\ from[c] <= Len(added) /\ ~ended[c]
  BY DEF PlacesInv
<1>1. Carried(c) = <<>> /\ Len(Carried(c)) = 0 /\ from[c] = 0 /\ Len(added) = 0 /\ ~ended[c]
  BY DEF Init, Carried
<1>2. [i \in 1 .. 0 |-> 1] \in [1 .. 0 -> 0 + 1 .. 0]
  OBVIOUS
<1>3. Placed(Carried(c), added, from[c])
  <2>1. At(Carried(c), added, from[c], [i \in 1 .. 0 |-> 1])
    BY <1>1 DEF At
  <2> QED  BY <1>1, <1>2, <2>1 DEF Placed
<1> QED  BY <1>1, <1>3

LEMMA PlacesStep ==
  TypeOK /\ RingHoldsLatest /\ RequestsInOrder /\ PlacesInv /\ [Next]_vars => PlacesInv'
<1> SUFFICES ASSUME TypeOK, RingHoldsLatest, RequestsInOrder, PlacesInv, [Next]_vars
             PROVE  PlacesInv'
  OBVIOUS
<1>0. \A c \in Client :
        /\ Placed(Carried(c), added, from[c]) /\ from[c] <= Len(added)
        /\ pc[c] \in {"idle", "replay", "select"} => ~ended[c]
  BY DEF PlacesInv
<1>1. ASSUME NEW s \in Stream, Add(s) PROVE PlacesInv'
  <2> DEFINE ln == Head(scan[s])
  <2>1. /\ scan[s] # <<>> /\ added' = Append(added, ln)
        /\ ch' = [c \in Client |->
                    IF c \in subs /\ HasRoom(c) THEN Append(ch[c], ln) ELSE ch[c]]
        /\ UNCHANGED <<subs, pc, snapshot, sent, from, ended>>
    BY <1>1 DEF Add, reqVars
  <2>2. ln \in Line
    BY <2>1, HeadTailProperties DEF TypeOK
  <2> HIDE DEF ln
  <2>3. ASSUME NEW c \in Client
        PROVE  Placed(Carried(c)', added', from'[c]) /\ from'[c] <= Len(added')
    <3>1. /\ Carried(c) \in Seq(Line) /\ ch[c] \in Seq(Line)
          /\ sent[c] \o snapshot[c] \in Seq(Line)
          /\ added \in Seq(Line) /\ Len(added) \in Nat /\ from[c] \in Nat
      BY CarriedType
    <3>2. /\ Placed(Carried(c), added', from[c])
          /\ Placed(Append(Carried(c), ln), added', from[c])
      BY <1>0, <2>1, <2>2, <3>1, PlacedAppend
    <3>3. from'[c] = from[c] /\ Len(added') = Len(added) + 1
      BY <2>1, <2>2, <3>1, AppendProperties
    <3>4. Carried(c)' = Carried(c) \/ Carried(c)' = Append(Carried(c), ln)
      <4>1. CASE c \in subs /\ HasRoom(c)
        <5>1. Carried(c)' = (sent[c] \o snapshot[c]) \o Append(ch[c], ln)
          BY <4>1, <2>1 DEF Carried
        <5>2. (sent[c] \o snapshot[c]) \o Append(ch[c], ln)
                = Append((sent[c] \o snapshot[c]) \o ch[c], ln)
          <6> DEFINE u == sent[c] \o snapshot[c]
          <6>1. u \in Seq(Line)
            BY <3>1
          <6> HIDE DEF u
          <6>2. u \o Append(ch[c], ln) = Append(u \o ch[c], ln)
            BY <2>2, <3>1, <6>1, ConcatAppend, SMTT(40)
          <6> QED  BY <6>2 DEF u
        <5> QED  BY <5>1, <5>2 DEF Carried
      <4>2. CASE ~(c \in subs /\ HasRoom(c))
        BY <4>2, <2>1 DEF Carried
      <4> QED  BY <4>1, <4>2
    <3>5. from[c] <= Len(added) + 1
      BY <1>0, <3>1
    <3> QED  BY <3>2, <3>3, <3>4, <3>5
  <2> QED  BY <1>0, <2>1, <2>3 DEF PlacesInv
<1>2. ASSUME NEW c \in Client, Subscribe(c) PROVE PlacesInv'
  <2>1. /\ pc[c] = "idle" /\ pc' = [pc EXCEPT ![c] = "replay"]
        /\ snapshot' = [snapshot EXCEPT ![c] = lines]
        /\ from' = [from EXCEPT ![c] = Len(added) - Len(lines)]
        /\ UNCHANGED <<ch, sent, added, ended>>
    BY <1>2 DEF Subscribe
  <2>2. sent[c] = <<>> /\ ch[c] = <<>> /\ ~ended[c]
    BY <1>0, <2>1 DEF RequestsInOrder
  <2>3. /\ lines \in Seq(Line) /\ added \in Seq(Line)
        /\ Len(lines) \in Nat /\ Len(added) \in Nat
    BY LenProperties DEF TypeOK
  <2>4. snapshot'[c] = lines /\ from'[c] = Len(added) - Len(lines)
    BY <2>1 DEF TypeOK
  <2>5. Carried(c)' = lines
    BY <2>1, <2>2, <2>3, <2>4, ConcatEmptySeq DEF Carried
  <2> DEFINE k == Len(added) - Len(lines)
             p == [i \in 1 .. Len(lines) |-> k + i]
  <2>6. /\ Len(lines) <= Len(added)
        /\ \A i \in 1 .. Len(lines) : lines[i] = added[Len(added) - Len(lines) + i]
    <3>1. /\ Len(lines) = IF Len(added) < MaxLines THEN Len(added) ELSE MaxLines
          /\ \A i \in 1 .. Len(lines) : lines[i] = added[Len(added) - Len(lines) + i]
      BY DEF RingHoldsLatest
    <3>2. Len(lines) <= Len(added)
      BY <3>1, <2>3, LogStreamAssumption
    <3> QED  BY <3>1, <3>2
  <2>7. /\ k \in Nat /\ k <= Len(added)
        /\ p \in [1 .. Len(lines) -> k + 1 .. Len(added)]
        /\ \A i \in 1 .. Len(lines) : p[i] = k + i
    BY <2>3, <2>6
  <2>8. Placed(lines, added, k)
    <3>1. At(lines, added, k, p)
      BY <2>3, <2>6, <2>7 DEF At
    <3> HIDE DEF k, p
    <3> QED  BY <2>7, <3>1 DEF Placed
  <2>9. ASSUME NEW d \in Client
        PROVE  /\ Placed(Carried(d)', added', from'[d]) /\ from'[d] <= Len(added')
               /\ pc'[d] \in {"idle", "replay", "select"} => ~ended'[d]
    <3>1. CASE d = c
      BY <3>1, <2>1, <2>2, <2>4, <2>5, <2>7, <2>8
    <3>2. CASE d # c
      <4>1. Carried(d)' = Carried(d) /\ from'[d] = from[d] /\ pc'[d] = pc[d]
        BY <3>2, <2>1 DEF Carried, TypeOK
      <4> QED  BY <4>1, <2>1, <1>0
    <3> QED  BY <3>1, <3>2
  <2> QED  BY <2>9 DEF PlacesInv
<1>3. ASSUME UNCHANGED <<added, from>>,
             \A c \in Client : Carried(c)' = Carried(c),
             \A c \in Client : pc'[c] \in {"idle", "replay", "select"} =>
               pc[c] \in {"idle", "replay", "select"} /\ ended'[c] = ended[c]
      PROVE  PlacesInv'
  BY <1>0, <1>3 DEF PlacesInv
<1>4. ASSUME NEW c \in Client, Replay(c) PROVE PlacesInv'
  <2>1. /\ pc[c] = "replay" /\ UNCHANGED <<ch, added, from, ended>>
        /\ pc' = pc \/ pc' = [pc EXCEPT ![c] = "select"]
    BY <1>4 DEF Replay, chanVars, history
  <2>2. \A d \in Client : Carried(d)' = Carried(d)
    <3>1. CASE snapshot[c] = <<>>
      BY <1>4, <2>1, <3>1 DEF Replay, Carried
    <3>2. CASE snapshot[c] # <<>>
      <4>1. /\ sent' = [sent EXCEPT ![c] = Append(@, Head(snapshot[c]))]
            /\ snapshot' = [snapshot EXCEPT ![c] = Tail(@)]
        BY <1>4, <3>2 DEF Replay
      <4> QED  BY <4>1, <2>1, <3>2, ReplayKeeps
    <3> QED  BY <3>1, <3>2
  <2>3. \A d \in Client : pc'[d] \in {"idle", "replay", "select"} =>
          pc[d] \in {"idle", "replay", "select"}
    BY <2>1 DEF TypeOK
  <2> QED  BY <1>3, <2>1, <2>2, <2>3
<1>5. ASSUME NEW c \in Client, Receive(c) PROVE PlacesInv'
  <2>1. /\ pc[c] = "select" /\ ch[c] # <<>>
        /\ sent' = [sent EXCEPT ![c] = Append(@, Head(ch[c]))]
        /\ ch' = [ch EXCEPT ![c] = Tail(@)]
        /\ UNCHANGED <<added, from, pc, snapshot, ended>>
    BY <1>5 DEF Receive, history
  <2>2. snapshot[c] = <<>>
    BY <2>1 DEF RequestsInOrder
  <2>3. \A d \in Client : Carried(d)' = Carried(d)
    BY <2>1, <2>2, ReceiveKeeps
  <2> QED  BY <1>3, <2>1, <2>3
<1>6. ASSUME NEW c \in Client, ReceiveClosed(c) \/ ContextDone(c) \/ Unsubscribe(c)
      PROVE  PlacesInv'
  <2>1. /\ \E l \in {"cancel", "over"} : pc' = [pc EXCEPT ![c] = l]
        /\ ended' = ended \/ ended' = [ended EXCEPT ![c] = TRUE]
        /\ UNCHANGED <<ch, added, from, snapshot, sent>>
    BY <1>6 DEF ReceiveClosed, ContextDone, Unsubscribe, chanVars, history
  <2>2. \A d \in Client : Carried(d)' = Carried(d)
    BY <2>1 DEF Carried
  <2>3. \A d \in Client : pc'[d] \in {"idle", "replay", "select"} =>
          pc[d] \in {"idle", "replay", "select"} /\ ended'[d] = ended[d]
    BY <2>1 DEF TypeOK
  <2> QED  BY <1>3, <2>1, <2>2, <2>3
<1>7. ASSUME UNCHANGED <<ch, added, from, snapshot, sent, pc, ended>> PROVE PlacesInv'
  <2>1. \A d \in Client : Carried(d)' = Carried(d)
    BY <1>7 DEF Carried
  <2> QED  BY <1>3, <1>7, <2>1
<1>8. \/ \E s \in Stream : Add(s)
      \/ \E c \in Client : \/ Subscribe(c) \/ Replay(c) \/ Receive(c)
                           \/ ReceiveClosed(c) \/ ContextDone(c) \/ Unsubscribe(c)
      \/ UNCHANGED <<ch, added, from, snapshot, sent, pc, ended>>
  BY DEF Next, Pump, Waiter, Serve, Write, Fork, HeirsExit, Exit, Fill, GiveUp,
    Eof, WaitReturns, SetState, CloseSubs, Disconnect, vars, chanVars,
    reqVars, history
<1> QED  BY <1>1, <1>2, <1>4, <1>5, <1>6, <1>7, <1>8

LEMMA PlacesCorrect == Spec => []PlacesInv
<1>1. Init => PlacesInv
  BY PlacesInit
<1>2. TypeOK /\ RingHoldsLatest /\ JoinInv /\ PlacesInv /\ [Next]_vars => PlacesInv'
  BY PlacesStep DEF JoinInv
<1> QED  BY <1>1, <1>2, TypeAndRing, JoinCorrect, PTL DEF Spec

-------------------------------------------------------------------------------
(***************************************************************************)
(* The refinement.  LastSentAt looks a line up in the log: it finds the    *)
(* place PlacesInv speaks of because no line is in the log twice, which    *)
(* AddedInOrder implies.                                                   *)
(***************************************************************************)

Distinct(a) == \A i, j \in 1 .. Len(a) : a[i] = a[j] => i = j

PlaceIn(a, e) == CHOOSE i \in 1 .. Len(a) : a[i] = e

LEMMA PlaceInIs ==
  ASSUME NEW a, Distinct(a), NEW i \in 1 .. Len(a)
  PROVE  PlaceIn(a, a[i]) = i
<1> DEFINE j == PlaceIn(a, a[i])
<1>1. j \in 1 .. Len(a) /\ a[j] = a[i]
  BY DEF PlaceIn
<1> QED  BY <1>1 DEF Distinct

LEMMA AddedDistinct == TypeOK /\ AddedInOrder => Distinct(added)
<1> SUFFICES ASSUME TypeOK, AddedInOrder, NEW i \in 1 .. Len(added), NEW j \in 1 .. Len(added),
                    added[i] = added[j], i # j
             PROVE  FALSE
  BY DEF Distinct
<1>1. Len(added) \in Nat
  BY LenProperties DEF TypeOK
<1>2. added[i].n \in Nat
  <2>1. added[i] \in Line
    BY ElementOfSeq DEF TypeOK
  <2> QED  BY <2>1, LogStreamAssumption DEF Line
<1>3. i < j \/ j < i
  BY <1>1
<1>4. added[i].n < added[j].n \/ added[j].n < added[i].n
  BY <1>3 DEF AddedInOrder
<1> QED  BY <1>2, <1>4

\* Where a reader has got to: the place of the last line it was sent.
LEMMA LastSentAtIs ==
  ASSUME NEW c
  PROVE  LastSentAt(c) = IF sent[c] = <<>> THEN from[c]
                         ELSE PlaceIn(added, sent[c][Len(sent[c])])
BY DEF LastSentAt, PlaceIn

FeedInv ==
  /\ TypeOK /\ WaiterInOrder /\ ChannelsInOrder /\ RequestsInOrder
  /\ PlacesInv /\ Distinct(added)

LEMMA FeedInvCorrect == Spec => []FeedInv
<1>1. TypeOK /\ FlowInv => Distinct(added)
  BY AddedDistinct DEF FlowInv
<1>2. TypeOK /\ FlowInv /\ ChannelInv /\ JoinInv /\ PlacesInv => FeedInv
  BY <1>1 DEF FeedInv, ChannelInv, JoinInv
<1> QED  BY <1>2, TypeCorrect, FlowCorrect, ChannelsCorrect, JoinCorrect, PlacesCorrect, PTL

\* The front of a concatenation.
LEMMA ConcatFront ==
  ASSUME NEW S, NEW s \in Seq(S), NEW t \in Seq(S)
  PROVE  /\ Len(s \o t) = Len(s) + Len(t)
         /\ \A i \in 1 .. Len(s) : (s \o t)[i] = s[i]
<1>1. /\ Len(s \o t) = Len(s) + Len(t)
      /\ \A i \in 1 .. Len(s) + Len(t) : (s \o t)[i] =
                     IF i <= Len(s) THEN s[i] ELSE t[i - Len(s)]
  BY ConcatProperties
<1>2. Len(s) \in Nat /\ Len(t) \in Nat
  BY LenProperties
<1>3. \A i \in 1 .. Len(s) : i \in 1 .. Len(s) + Len(t) /\ i <= Len(s)
  BY <1>2
<1> QED  BY <1>1, <1>3

\* The last line sent is in the log, behind the place where the snapshot started.
LEMMA LastSentIn ==
  ASSUME FeedInv, NEW c \in Client, sent[c] # <<>>
  PROVE  \E i \in 1 .. Len(added) : added[i] = sent[c][Len(sent[c])]
<1>1. /\ sent[c] \in Seq(Line) /\ snapshot[c] \in Seq(Line) /\ ch[c] \in Seq(Line)
      /\ sent[c] \o snapshot[c] \in Seq(Line)
      /\ Len(added) \in Nat /\ from[c] \in Nat
  BY CarriedType DEF FeedInv
<1>2. PICK p \in [1 .. Len(Carried(c)) -> from[c] + 1 .. Len(added)] :
        At(Carried(c), added, from[c], p)
  BY DEF FeedInv, PlacesInv, Placed
<1> DEFINE k == Len(sent[c])
<1>3. k \in Nat \ {0}
  BY <1>1, EmptySeq
<1>4. k \in 1 .. Len(Carried(c)) /\ Carried(c)[k] = sent[c][k]
  <2> DEFINE u == sent[c] \o snapshot[c]
  <2>1. /\ Len(u) = k + Len(snapshot[c]) /\ \A i \in 1 .. k : u[i] = sent[c][i]
    BY <1>1, ConcatFront
  <2>2. u \in Seq(Line) /\ Carried(c) = u \o ch[c]
    BY <1>1 DEF Carried
  <2> HIDE DEF u, k
  <2>3. /\ Len(Carried(c)) = Len(u) + Len(ch[c])
        /\ \A i \in 1 .. Len(u) : Carried(c)[i] = u[i]
    BY <1>1, <2>2, ConcatFront
  <2>4. Len(snapshot[c]) \in Nat /\ Len(ch[c]) \in Nat
    BY <1>1, LenProperties
  <2>5. k \in 1 .. k /\ k \in 1 .. Len(u) /\ k \in 1 .. Len(Carried(c))
    <3>1. \A a, b \in Nat : k \in 1 .. k /\ k \in 1 .. k + a /\ k \in 1 .. (k + a) + b
      BY <1>3
    <3>2. k \in 1 .. k /\ k \in 1 .. k + Len(snapshot[c])
          /\ k \in 1 .. (k + Len(snapshot[c])) + Len(ch[c])
      BY <3>1, <2>4
    <3> QED  BY <3>2, <2>1, <2>3
  <2> QED  BY <2>1, <2>3, <2>5
<1> HIDE DEF k
<1>5. p[k] \in from[c] + 1 .. Len(added) /\ added[p[k]] = sent[c][k]
  BY <1>2, <1>4 DEF At
<1>6. p[k] \in 1 .. Len(added)
  BY <1>1, <1>5
<1> QED  BY <1>5, <1>6 DEF k

LEMMA LastSentAtNat ==
  ASSUME FeedInv, NEW c \in Client
  PROVE  LastSentAt(c) \in Nat
<1>1. from[c] \in Nat /\ Len(added) \in Nat
  BY CarriedType DEF FeedInv
<1>2. CASE sent[c] = <<>>
  BY <1>1, <1>2 DEF LastSentAt
<1>3. CASE sent[c] # <<>>
  <2>1. PICK i \in 1 .. Len(added) : added[i] = sent[c][Len(sent[c])]
    BY <1>3, LastSentIn
  <2>2. PlaceIn(added, added[i]) = i
    BY PlaceInIs DEF FeedInv
  <2>3. LastSentAt(c) = i
    BY <1>3, <2>1, <2>2, LastSentAtIs
  <2> QED  BY <2>3, <1>1
<1> QED  BY <1>2, <1>3

\* A place in the log that a reader has got to, and that of its next line.
LEMMA NextPlace ==
  ASSUME FeedInv, NEW c \in Client, NEW h, NEW q, q \in Seq(Line), q # <<>>,
         h = Head(q),
         \/ q = snapshot[c]
         \/ snapshot[c] = <<>> /\ q = ch[c]
  PROVE  \E i \in LastSentAt(c) + 1 .. Len(added) : added[i] = h
<1>1. /\ sent[c] \in Seq(Line) /\ snapshot[c] \in Seq(Line) /\ ch[c] \in Seq(Line)
      /\ added \in Seq(Line) /\ Len(added) \in Nat /\ from[c] \in Nat
  BY CarriedType DEF FeedInv
<1>2. PICK p \in [1 .. Len(Carried(c)) -> from[c] + 1 .. Len(added)] :
        At(Carried(c), added, from[c], p)
  BY DEF FeedInv, PlacesInv, Placed
<1> DEFINE k == Len(sent[c])
<1>3. /\ k \in Nat /\ k + 1 \in 1 .. Len(Carried(c))
      /\ \A i \in 1 .. k : i \in 1 .. Len(Carried(c)) /\ Carried(c)[i] = sent[c][i]
      /\ Carried(c)[k + 1] = h
  <2>1. \E r \in Seq(Line) : Carried(c) = (sent[c] \o q) \o r
    <3>1. CASE q = snapshot[c]
      BY <3>1, <1>1 DEF Carried
    <3>2. CASE snapshot[c] = <<>> /\ q = ch[c]
      <4>1. Carried(c) = sent[c] \o q
        BY <3>2, <1>1, ConcatEmptySeq DEF Carried
      <4>2. sent[c] \o q = (sent[c] \o q) \o <<>> /\ <<>> \in Seq(Line)
        BY <1>1, ConcatProperties, ConcatEmptySeq, EmptySeq
      <4> QED  BY <4>1, <4>2
    <3> QED  BY <3>1, <3>2
  <2>2. PICK r \in Seq(Line) : Carried(c) = (sent[c] \o q) \o r
    BY <2>1
  <2>3. /\ sent[c] \o q \in Seq(Line)
        /\ Len(sent[c] \o q) = k + Len(q)
        /\ \A i \in 1 .. k + Len(q) :
             (sent[c] \o q)[i] = IF i <= k THEN sent[c][i] ELSE q[i - k]
    BY <1>1, ConcatProperties
  <2>4. /\ Len(Carried(c)) = k + Len(q) + Len(r)
        /\ \A i \in 1 .. k + Len(q) : Carried(c)[i] = (sent[c] \o q)[i]
    <3> DEFINE u == sent[c] \o q
    <3>0. r \in Seq(Line)
      BY <2>2
    <3>1. u \in Seq(Line) /\ Len(u) = k + Len(q) /\ k + Len(q) \in Nat /\ Len(r) \in Nat
      BY <2>3, <1>1, LenProperties
    <3> HIDE DEF u, k
    <3>2. Len(u \o r) = Len(u) + Len(r) /\ \A i \in 1 .. Len(u) : (u \o r)[i] = u[i]
      BY <3>0, <3>1, ConcatFront
    <3> QED  BY <2>2, <3>1, <3>2 DEF u
  <2>5. Len(q) \in Nat \ {0} /\ h = q[1] /\ k \in Nat /\ Len(r) \in Nat
    BY <1>1, HeadTailProperties, LenProperties
  <2> HIDE DEF k
  <2>6. k + 1 \in 1 .. k + Len(q) /\ (\A i \in 1 .. k : i \in 1 .. k + Len(q))
        /\ \A i \in 1 .. k + Len(q) : i \in 1 .. k + Len(q) + Len(r)
    BY <2>5
  <2>7. \A i \in 1 .. k : Carried(c)[i] = sent[c][i]
    <3>1. \A i \in 1 .. k : i <= k
      OBVIOUS
    <3> QED  BY <3>1, <2>3, <2>4, <2>6
  <2>8. Carried(c)[k + 1] = h
    <3>1. ~(k + 1 <= k) /\ k + 1 - k = 1
      BY <2>5
    <3> QED  BY <3>1, <2>3, <2>4, <2>5, <2>6
  <2>9. k + 1 \in 1 .. Len(Carried(c)) /\ \A i \in 1 .. k : i \in 1 .. Len(Carried(c))
    BY <2>4, <2>6
  <2> QED  BY <2>5, <2>7, <2>8, <2>9
<1> HIDE DEF k
<1>4. p[k + 1] \in from[c] + 1 .. Len(added) /\ added[p[k + 1]] = h
  BY <1>2, <1>3 DEF At
<1>5. LastSentAt(c) \in Nat /\ LastSentAt(c) < p[k + 1]
  <2>1. CASE sent[c] = <<>>
    <3>1. LastSentAt(c) = from[c]
      BY <2>1, LastSentAtIs
    <3> QED  BY <3>1, <1>1, <1>4
  <2>2. CASE sent[c] # <<>>
    <3>1. k \in 1 .. k /\ k < k + 1
      BY <2>2, <1>1, <1>3, EmptySeq DEF k
    <3>2. p[k] \in from[c] + 1 .. Len(added) /\ p[k] < p[k + 1] /\ sent[c][k] = added[p[k]]
      BY <1>2, <1>3, <3>1 DEF At
    <3>3. p[k] \in 1 .. Len(added)
      BY <1>1, <3>2
    <3>4. PlaceIn(added, added[p[k]]) = p[k]
      BY <3>3, PlaceInIs DEF FeedInv
    <3>5. LastSentAt(c) = p[k]
      BY <2>2, <3>2, <3>4, LastSentAtIs DEF k
    <3> QED  BY <3>2, <3>3, <3>5
  <2> QED  BY <2>1, <2>2
<1>6. p[k + 1] \in LastSentAt(c) + 1 .. Len(added)
  BY <1>1, <1>4, <1>5
<1> QED  BY <1>4, <1>6

\* A line that has been sent determines the place.
LEMMA SentPlace ==
  ASSUME FeedInv', NEW c \in Client, NEW i \in 1 .. Len(added), NEW u \in Seq(Line),
         added[i] \in Line,
         added' = added, sent'[c] = Append(u, added[i])
  PROVE  LastSentAt(c)' = i
<1>1. /\ sent'[c] # <<>> /\ Len(sent'[c]) = Len(u) + 1
      /\ sent'[c][Len(u) + 1] = added[i]
  BY AppendProperties
<1>2. LastSentAt(c)' = PlaceIn(added, added[i])
  BY <1>1 DEF LastSentAt, PlaceIn
<1>3. Distinct(added)
  BY DEF FeedInv
<1> QED  BY <1>2, <1>3, PlaceInIs

LEMMA FeedInit == Init => Feed!Init
<1> SUFFICES ASSUME Init PROVE Feed!Init
  OBVIOUS
<1>1. \A c \in Client : ReaderOf(c) = "out" /\ LastSentAt(c) = 0 /\ sent[c] = <<>>
  BY DEF Init, ReaderOf, LastSentAt
<1>2. sent = [c \in Client |-> <<>>]
  BY DEF Init
<1> QED  BY <1>1, <1>2 DEF Init, Feed!Init

\* Every step is a step of LineFeed or leaves what LineFeed speaks of as it is.
LEMMA FeedStep ==
  FeedInv /\ FeedInv' /\ [Next]_vars => [Feed!Next]_(Feed!feedVars)
<1> SUFFICES ASSUME FeedInv, FeedInv', [Next]_vars
             PROVE  Feed!Next \/ UNCHANGED Feed!feedVars
  OBVIOUS
<1> DEFINE R == [c \in Client |-> ReaderOf(c)]
           P == [c \in Client |-> LastSentAt(c)]
<1>0. /\ TypeOK /\ WaiterInOrder /\ ChannelsInOrder /\ RequestsInOrder /\ PlacesInv
      /\ pc \in [Client -> {"idle", "replay", "select", "cancel", "over"}]
      /\ ended \in [Client -> BOOLEAN] /\ from \in [Client -> Nat]
      /\ added \in Seq(Line) /\ Len(added) \in Nat
      /\ sent \in [Client -> Seq(Line)]
  BY LenProperties DEF FeedInv, TypeOK
<1>1. ASSUME UNCHANGED <<added, closed, sent, from>>,
             \A c \in Client : ReaderOf(c)' = ReaderOf(c)
      PROVE  UNCHANGED Feed!feedVars
  <2>1. \A c \in Client : LastSentAt(c)' = LastSentAt(c)
    BY <1>1, <1>0, LastSentAtIs DEF LastSentAt, PlaceIn
  <2> QED  BY <1>1, <2>1 DEF Feed!feedVars
<1>2. ASSUME NEW s \in Stream, Add(s) PROVE Feed!Next
  <2> DEFINE ln == Head(scan[s])
  <2>1. /\ scan[s] # <<>> /\ added' = Append(added, ln)
        /\ UNCHANGED <<closed, pc, sent, from, ended>>
    BY <1>2 DEF Add, reqVars
  <2>2. ln \in Line
    BY <2>1, <1>0, HeadTailProperties DEF TypeOK
  <2> HIDE DEF ln
  <2>3. ASSUME NEW c \in Client PROVE LastSentAt(c)' = LastSentAt(c)
    <3>1. CASE sent[c] = <<>>
      BY <3>1, <2>1 DEF LastSentAt
    <3>2. CASE sent[c] # <<>>
      <4> DEFINE e == sent[c][Len(sent[c])]
      <4>1. PICK i \in 1 .. Len(added) : added[i] = e
        BY <3>2, LastSentIn
      <4>2. i \in 1 .. Len(added') /\ added'[i] = e
        BY <4>1, <2>1, <2>2, <1>0, AppendProperties
      <4> HIDE DEF e
      <4>3. PlaceIn(added, e) = i /\ PlaceIn(added', e) = i
        BY <4>1, <4>2, PlaceInIs DEF FeedInv
      <4>4. LastSentAt(c) = PlaceIn(added, e) /\ LastSentAt(c)' = PlaceIn(added', e)
        BY <3>2, <2>1 DEF LastSentAt, PlaceIn, e
      <4> QED  BY <4>3, <4>4
    <3> QED  BY <3>1, <3>2
  <2>4. \A c \in Client : ReaderOf(c)' = ReaderOf(c)
    BY <2>1 DEF ReaderOf
  <2>5. Feed!AppendLine(ln)
    BY <2>1, <2>3, <2>4 DEF Feed!AppendLine
  <2> QED  BY <2>2, <2>5 DEF Feed!Next
<1>3. CASE CloseSubs
  <2>1. /\ closed' = TRUE /\ waiter = "closeSubs"
        /\ UNCHANGED <<added, pc, sent, from, ended>>
    BY <1>3 DEF CloseSubs, reqVars, history
  <2>2. closed = FALSE
    BY <2>1, <1>0 DEF WaiterInOrder, TypeOK
  <2>3. \A c \in Client : ReaderOf(c)' = ReaderOf(c) /\ LastSentAt(c)' = LastSentAt(c)
    BY <2>1 DEF ReaderOf, LastSentAt
  <2>4. Feed!Finish
    BY <2>1, <2>2, <2>3 DEF Feed!Finish
  <2> QED  BY <2>4 DEF Feed!Next
<1>4. ASSUME NEW c \in Client, Subscribe(c) PROVE Feed!Next
  <2>1. /\ pc[c] = "idle" /\ pc' = [pc EXCEPT ![c] = "replay"]
        /\ from' = [from EXCEPT ![c] = Len(added) - Len(lines)]
        /\ UNCHANGED <<added, closed, sent, ended>>
    BY <1>4 DEF Subscribe
  <2>2. from'[c] \in 0 .. Len(added) /\ sent[c] = <<>>
    <3>1. from'[c] \in Nat /\ from'[c] <= Len(added') /\ sent[c] = <<>>
      BY <2>1, <1>0 DEF FeedInv, PlacesInv, TypeOK, RequestsInOrder
    <3> QED  BY <3>1, <2>1, <1>0
  <2>3. LastSentAt(c)' = from'[c]
    BY <2>1, <2>2 DEF LastSentAt
  <2>4. ReaderOf(c) = "out" /\ ReaderOf(c)' = "reading"
    BY <2>1, <1>0 DEF ReaderOf
  <2>5. \A d \in Client \ {c} : ReaderOf(d)' = ReaderOf(d) /\ LastSentAt(d)' = LastSentAt(d)
    BY <2>1, <1>0 DEF ReaderOf, LastSentAt
  <2>6. /\ R' = [R EXCEPT ![c] = "reading"] /\ P' = [P EXCEPT ![c] = from'[c]]
        /\ R[c] = "out"
    BY <2>3, <2>4, <2>5
  <2>7. Feed!Open(c)
    BY <2>1, <2>2, <2>6 DEF Feed!Open
  <2> QED  BY <2>7 DEF Feed!Next
\* A request sends the next line it carries.
<1>5. ASSUME NEW c \in Client, NEW q, q \in Seq(Line), q # <<>>,
             q = snapshot[c] \/ (snapshot[c] = <<>> /\ q = ch[c]),
             sent' = [sent EXCEPT ![c] = Append(@, Head(q))],
             pc[c] \in {"replay", "select"},
             UNCHANGED <<added, closed, from, pc, ended>>
      PROVE  Feed!Next
  <2>1. PICK i \in LastSentAt(c) + 1 .. Len(added) : added[i] = Head(q)
    BY <1>5, NextPlace
  <2>2. LastSentAt(c) \in Nat
    BY LastSentAtNat
  <2>3. i \in 1 .. Len(added) /\ Head(q) \in Line
    BY <2>1, <2>2, <1>0, <1>5, HeadTailProperties
  <2>4. sent'[c] = Append(sent[c], added[i]) /\ sent[c] \in Seq(Line)
    BY <1>5, <2>1, <1>0
  <2>5. LastSentAt(c)' = i
    BY <1>5, <2>1, <2>3, <2>4, SentPlace
  <2>6. \A d \in Client \ {c} : LastSentAt(d)' = LastSentAt(d)
    BY <1>5, <1>0 DEF LastSentAt
  <2>7. \A d \in Client : ReaderOf(d)' = ReaderOf(d)
    BY <1>5 DEF ReaderOf
  <2>8. R' = R /\ R[c] = "reading" /\ P' = [P EXCEPT ![c] = i] /\ P[c] = LastSentAt(c)
    BY <1>5, <2>5, <2>6, <2>7 DEF ReaderOf
  <2>9. sent' = [sent EXCEPT ![c] = Append(@, added[i])]
    BY <1>5, <2>1
  <2>10. Feed!Give(c)
    BY <1>5, <2>1, <2>8, <2>9 DEF Feed!Give
  <2> QED  BY <2>10 DEF Feed!Next
<1>6. ASSUME NEW c \in Client, Replay(c) PROVE Feed!Next \/ UNCHANGED Feed!feedVars
  <2>1. pc[c] = "replay" /\ UNCHANGED <<added, closed, from, ended>>
    BY <1>6 DEF Replay, ringVars, history
  <2>2. CASE snapshot[c] = <<>>
    <3>1. pc' = [pc EXCEPT ![c] = "select"] /\ UNCHANGED sent
      BY <1>6, <2>2 DEF Replay
    <3>2. \A d \in Client : ReaderOf(d)' = ReaderOf(d)
      BY <2>1, <3>1, <1>0 DEF ReaderOf
    <3> QED  BY <2>1, <3>1, <3>2, <1>1
  <2>3. CASE snapshot[c] # <<>>
    <3>1. sent' = [sent EXCEPT ![c] = Append(@, Head(snapshot[c]))] /\ UNCHANGED pc
      BY <1>6, <2>3 DEF Replay
    <3>2. snapshot[c] \in Seq(Line)
      BY <1>0 DEF TypeOK
    <3> QED  BY <2>1, <2>3, <3>1, <3>2, <1>5
  <2> QED  BY <2>2, <2>3
<1>7. ASSUME NEW c \in Client, Receive(c) PROVE Feed!Next
  <2>1. /\ pc[c] = "select" /\ ch[c] # <<>>
        /\ sent' = [sent EXCEPT ![c] = Append(@, Head(ch[c]))]
        /\ UNCHANGED <<added, closed, from, pc, ended>>
    BY <1>7 DEF Receive, ringVars, history
  <2>2. snapshot[c] = <<>> /\ ch[c] \in Seq(Line)
    BY <2>1, <1>0 DEF RequestsInOrder, TypeOK
  <2> QED  BY <2>1, <2>2, <1>5
<1>8. ASSUME NEW c \in Client, ReceiveClosed(c) \/ ContextDone(c) PROVE Feed!Next
  <2>1. /\ pc[c] = "select" /\ pc' = [pc EXCEPT ![c] = "cancel"] /\ ~ended[c]
        /\ UNCHANGED <<added, closed, sent, from>>
        /\ \/ ended' = [ended EXCEPT ![c] = TRUE] /\ closed
           \/ ended' = ended
    BY <1>8, <1>0 DEF ReceiveClosed, ContextDone, ringVars, history, ChannelsInOrder, PlacesInv
  <2>2. \A d \in Client \ {c} : ReaderOf(d)' = ReaderOf(d)
    BY <2>1, <1>0 DEF ReaderOf
  <2>3. P' = P
    BY <2>1 DEF LastSentAt
  <2>4. R[c] = "reading"
    BY <2>1 DEF ReaderOf
  <2>5. CASE ended' = [ended EXCEPT ![c] = TRUE] /\ closed
    <3>1. ReaderOf(c)' = "ended"
      BY <2>1, <2>5, <1>0 DEF ReaderOf
    <3>2. R' = [R EXCEPT ![c] = "ended"]
      BY <2>2, <3>1
    <3>3. Feed!End(c)
      BY <2>1, <2>3, <2>4, <2>5, <3>2 DEF Feed!End
    <3> QED  BY <3>3 DEF Feed!Next
  <2>6. CASE ended' = ended
    <3>1. ReaderOf(c)' = "left"
      BY <2>1, <2>6, <1>0 DEF ReaderOf
    <3>2. R' = [R EXCEPT ![c] = "left"]
      BY <2>2, <3>1
    <3>3. Feed!Leave(c)
      BY <2>1, <2>3, <2>4, <3>2 DEF Feed!Leave
    <3> QED  BY <3>3 DEF Feed!Next
  <2> QED  BY <2>1, <2>5, <2>6
<1>9. ASSUME NEW c \in Client, Unsubscribe(c) PROVE UNCHANGED Feed!feedVars
  <2>1. /\ pc[c] = "cancel" /\ pc' = [pc EXCEPT ![c] = "over"]
        /\ UNCHANGED <<added, closed, sent, from, ended>>
    BY <1>9 DEF Unsubscribe, history
  <2>2. \A d \in Client : ReaderOf(d)' = ReaderOf(d)
    BY <2>1, <1>0 DEF ReaderOf
  <2> QED  BY <2>1, <2>2, <1>1
<1>10. ASSUME UNCHANGED <<added, closed, sent, from, pc, ended>>
       PROVE  UNCHANGED Feed!feedVars
  <2>1. \A c \in Client : ReaderOf(c)' = ReaderOf(c)
    BY <1>10 DEF ReaderOf
  <2> QED  BY <1>10, <2>1, <1>1
<1>11. \/ \E s \in Stream : Add(s)
       \/ CloseSubs
       \/ \E c \in Client : \/ Subscribe(c) \/ Replay(c) \/ Receive(c)
                            \/ ReceiveClosed(c) \/ ContextDone(c) \/ Unsubscribe(c)
       \/ UNCHANGED <<added, closed, sent, from, pc, ended>>
  BY DEF Next, Pump, Waiter, Serve, Write, Fork, HeirsExit, Exit, Fill, GiveUp,
    Eof, WaitReturns, SetState, Disconnect, vars, ringVars, reqVars, history
<1> QED
  BY <1>2, <1>3, <1>4, <1>6, <1>7, <1>8, <1>9, <1>10, <1>11

\* The log followed over SSE implements the feed of LineFeed: a reader is given
\* lines in log order and none twice, and is told that the feed has ended only
\* when it has, although each line comes out of a ring that forgets, through a
\* snapshot and a channel that drops, to a request that outlives its channel.
THEOREM FeedImplemented == Spec => Feed!Spec
<1>1. Init => Feed!Init
  BY FeedInit
<1>2. FeedInv /\ FeedInv' /\ [Next]_vars => [Feed!Next]_(Feed!feedVars)
  BY FeedStep
<1> QED  BY <1>1, <1>2, FeedInvCorrect, PTL DEF Spec, Feed!Spec

===============================================================================
