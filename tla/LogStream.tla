------------------------------ MODULE LogStream -------------------------------
(***************************************************************************)
(* The output of ONE background process of internal/procapi: the two pipes *)
(* it writes to, the pump goroutines that scan them, the ring buffer they  *)
(* add lines to, the goroutine that waits for the process, and the clients *)
(* that follow the log as Server-Sent Events (GET /procs/{id}/logs with    *)
(* follow set).                                                            *)
(*                                                                         *)
(* ringBuffer.mu makes add, subscribe, unsubscribe and closeSubs atomic:   *)
(* each is (part of) one action.  Everything else interleaves.             *)
(***************************************************************************)
EXTENDS Integers, Sequences

CONSTANTS
  Stream,    \* the output streams of a process: stdout and stderr
  Client,    \* the requests that follow the log, one stream each
  MaxLines,  \* ringBuffer.max (1000 in Start)
  ChanCap,   \* capacity of a subscriber's channel (256 in subscribe)
  PipeCap,   \* lines a kernel pipe holds before its writer blocks
  Fits,      \* the kinds of line written: TRUE fits the scanner's 1 MiB
             \* buffer, FALSE is longer
  MaxOut     \* bound: lines the process writes on one stream

ASSUME LogStreamAssumption ==
  /\ MaxLines \in Nat \ {0}
  /\ ChanCap \in Nat \ {0}
  /\ PipeCap \in Nat \ {0}
  /\ Fits \subseteq BOOLEAN
  /\ MaxOut \in Nat

\* A line is known by its stream and its place among the lines written there.
Line == [stream : Stream, n : 1 .. MaxOut, fits : BOOLEAN]

VARIABLES
  \* the operating system
  leader,    \* "running" | "exited": the process that cmd.Start created
  heirs,     \* a descendant still holds the write ends of the pipes
  written,   \* [Stream -> Nat]: lines written to each pipe
  pipe,      \* [Stream -> Seq(Line)]: lines written and not yet read
  \* the pump goroutines
  scan,      \* [Stream -> Seq(Line)]: lines read into the scanner's buffer
  pump,      \* [Stream -> {"scanning", "returned"}]
  \* the waiting goroutine of Start, and Process.state
  waiter,    \* "Wait" | "setState" | "closeSubs" | "returned": its next call
  state,     \* StateRunning | StateExited
  \* ringBuffer
  lines, subs, closed,
  \* each client's channel
  ch, chOpen,
  \* each client's request: procLogsStream
  pc,        \* "idle" | "replay" | "select" | "cancel" | "over"
  snapshot,  \* lines of the snapshot still to be sent
  sent,      \* the "log" events written to the response
  ended,     \* the "end" event was written
  gone,      \* r.Context() is done: the client disconnected
  \* history, read by the properties only
  added,     \* every line ever added to the ring
  from,      \* [Client -> Nat]: lines already out of the ring at subscribe
  missed     \* [Client -> Nat]: lines dropped because the channel was full

osVars    == <<leader, heirs, written, pipe>>
pumpVars  == <<scan, pump>>
waitVars  == <<waiter, state>>
ringVars  == <<lines, subs, closed>>
chanVars  == <<ch, chOpen>>
reqVars   == <<pc, snapshot, sent, ended, gone>>
history   == <<added, from, missed>>
vars == <<osVars, pumpVars, waitVars, ringVars, chanVars, reqVars, history>>

StateRunning == "running"
StateExited  == "exited"

\* cmd.Wait closes the read ends of StdoutPipe and StderrPipe as it returns.
PipesOpen == waiter = "Wait"

-------------------------------------------------------------------------------
(* Start has launched the command and its three goroutines. *)
Init ==
  /\ leader = "running" /\ heirs = FALSE
  /\ written = [s \in Stream |-> 0]
  /\ pipe = [s \in Stream |-> <<>>]
  /\ scan = [s \in Stream |-> <<>>]
  /\ pump = [s \in Stream |-> "scanning"]
  /\ waiter = "Wait" /\ state = StateRunning
  /\ lines = <<>> /\ subs = {} /\ closed = FALSE
  /\ ch = [c \in Client |-> <<>>] /\ chOpen = [c \in Client |-> TRUE]
  /\ pc = [c \in Client |-> "idle"]
  /\ snapshot = [c \in Client |-> <<>>] /\ sent = [c \in Client |-> <<>>]
  /\ ended = [c \in Client |-> FALSE] /\ gone = [c \in Client |-> FALSE]
  /\ added = <<>>
  /\ from = [c \in Client |-> 0] /\ missed = [c \in Client |-> 0]

-------------------------------------------------------------------------------
(* The process.  A writer blocks while its pipe is full; writing to a pipe *)
(* whose read end is closed fails and leaves nothing behind.               *)

Write(s, fits) ==
  /\ leader = "running" \/ heirs
  /\ PipesOpen
  /\ Len(pipe[s]) < PipeCap
  /\ written[s] < MaxOut
  /\ written' = [written EXCEPT ![s] = @ + 1]
  /\ pipe' = [pipe EXCEPT
       ![s] = Append(@, [stream |-> s, n |-> written[s] + 1, fits |-> fits])]
  /\ UNCHANGED <<leader, heirs, pumpVars, waitVars, ringVars, chanVars, reqVars, history>>

Fork ==
  /\ leader = "running" /\ ~heirs
  /\ heirs' = TRUE
  /\ UNCHANGED <<leader, written, pipe, pumpVars, waitVars, ringVars, chanVars, reqVars, history>>

HeirsExit ==
  /\ heirs
  /\ heirs' = FALSE
  /\ UNCHANGED <<leader, written, pipe, pumpVars, waitVars, ringVars, chanVars, reqVars, history>>

Exit ==
  /\ leader = "running"
  /\ leader' = "exited"
  /\ UNCHANGED <<heirs, written, pipe, pumpVars, waitVars, ringVars, chanVars, reqVars, history>>

-------------------------------------------------------------------------------
(* pump: the loop over bufio.Scanner.  The scanner reads when it holds no  *)
(* complete line, and one read may bring several.  A line that exceeds the *)
(* scanner's buffer, like the end of input, ends the loop for good; lines  *)
(* already in the buffer are still delivered after the pipe is closed.     *)

Fill(s) ==
  /\ pump[s] = "scanning" /\ scan[s] = <<>>
  /\ PipesOpen
  /\ \E k \in 1 .. Len(pipe[s]) :
       /\ scan' = [scan EXCEPT ![s] = SubSeq(pipe[s], 1, k)]
       /\ pipe' = [pipe EXCEPT ![s] = SubSeq(@, k + 1, Len(@))]
  /\ UNCHANGED <<leader, heirs, written, pump, waitVars, ringVars, chanVars, reqVars, history>>

\* (mutant) the channel takes one line too many
HasRoomForOneMore(c) == Len(ch[c]) <= ChanCap

\* ringBuffer.add's cap
KeepLast(ls) ==
  IF Len(ls) > MaxLines THEN SubSeq(ls, Len(ls) - MaxLines + 1, Len(ls)) ELSE ls

HasRoom(c) == Len(ch[c]) < ChanCap

\* (mutant) a send without the default case: a full subscriber holds up the pump
AddOrBlock(s) ==
  /\ \A c \in subs : HasRoom(c)
  /\ pump[s] = "scanning" /\ scan[s] # <<>> /\ Head(scan[s]).fits
  /\ lines' = KeepLast(Append(lines, Head(scan[s])))
  /\ added' = Append(added, Head(scan[s]))
  /\ ch' = [c \in Client |->
              IF c \in subs THEN Append(ch[c], Head(scan[s])) ELSE ch[c]]
  /\ scan' = [scan EXCEPT ![s] = Tail(@)]
  /\ UNCHANGED <<osVars, pump, waitVars, subs, closed, chOpen, reqVars, from, missed>>

\* ringBuffer.add: keep the line, offer it to every subscriber, drop it for
\* one whose channel is full
Add(s) ==
  /\ pump[s] = "scanning" /\ scan[s] # <<>> /\ Head(scan[s]).fits
  /\ LET ln == Head(scan[s]) IN
       /\ lines' = KeepLast(Append(lines, ln))
       /\ added' = Append(added, ln)
       /\ ch' = [c \in Client |->
                   IF c \in subs /\ HasRoom(c) THEN Append(ch[c], ln) ELSE ch[c]]
  /\ missed' = [c \in Client |->
                  IF c \in subs /\ ~HasRoom(c) THEN missed[c] + 1 ELSE missed[c]]
  /\ scan' = [scan EXCEPT ![s] = Tail(@)]
  /\ UNCHANGED <<osVars, pump, waitVars, subs, closed, chOpen, reqVars, from>>

\* (mutant) the over-long line is skipped and the scan goes on
SkipLongLine(s) ==
  /\ pump[s] = "scanning" /\ scan[s] # <<>> /\ ~Head(scan[s]).fits
  /\ scan' = [scan EXCEPT ![s] = Tail(@)]
  /\ UNCHANGED <<osVars, pump, waitVars, ringVars, chanVars, reqVars, history>>

GiveUp(s) ==   \* bufio.ErrTooLong: sc.Scan() returns false
  /\ pump[s] = "scanning" /\ scan[s] # <<>> /\ ~Head(scan[s]).fits
  /\ pump' = [pump EXCEPT ![s] = "returned"]
  /\ scan' = [scan EXCEPT ![s] = <<>>]
  /\ UNCHANGED <<osVars, waitVars, ringVars, chanVars, reqVars, history>>

Eof(s) ==
  /\ pump[s] = "scanning" /\ scan[s] = <<>>
  /\ \/ ~PipesOpen
     \/ pipe[s] = <<>> /\ leader = "exited" /\ ~heirs
  /\ pump' = [pump EXCEPT ![s] = "returned"]
  /\ UNCHANGED <<osVars, scan, waitVars, ringVars, chanVars, reqVars, history>>

-------------------------------------------------------------------------------
(* The goroutine that waits: cmd.Wait, setState, closeSubs.  What is left  *)
(* in a pipe when cmd.Wait closes it is discarded.                         *)

WaitReturns ==
  /\ waiter = "Wait" /\ leader = "exited"
  /\ pipe' = [s \in Stream |-> <<>>]
  /\ waiter' = "setState"
  /\ UNCHANGED <<leader, heirs, written, pumpVars, state, ringVars, chanVars, reqVars, history>>

SetState ==
  /\ waiter = "setState"
  /\ state' = StateExited
  /\ waiter' = "closeSubs"
  /\ UNCHANGED <<osVars, pumpVars, ringVars, chanVars, reqVars, history>>

\* (mutant) the streams are closed before the state is set
CloseSubsFirst ==
  /\ waiter = "setState" /\ ~closed
  /\ closed' = TRUE
  /\ subs' = {}
  /\ chOpen' = [c \in Client |-> chOpen[c] /\ c \notin subs]
  /\ UNCHANGED <<osVars, pumpVars, waitVars, lines, ch, reqVars, history>>

CloseSubs ==
  /\ waiter = "closeSubs"
  /\ closed' = TRUE
  /\ subs' = {}
  /\ chOpen' = [c \in Client |-> chOpen[c] /\ (closed \/ c \notin subs)]
  /\ waiter' = "returned"
  /\ UNCHANGED <<osVars, pumpVars, state, lines, ch, reqVars, history>>

-------------------------------------------------------------------------------
(* procLogsStream *)

\* (mutants) the closed flag is not looked at; the channel is registered in a
\* second critical section, after the copy of the lines, or before it
SubscribeUnchecked(c) ==
  /\ pc[c] = "idle"
  /\ snapshot' = [snapshot EXCEPT ![c] = lines]
  /\ subs' = subs \union {c}
  /\ from' = [from EXCEPT ![c] = Len(added) - Len(lines)]
  /\ pc' = [pc EXCEPT ![c] = "replay"]
  /\ UNCHANGED <<osVars, pumpVars, waitVars, lines, closed, ch, chOpen, sent, ended, gone, added, missed>>

SubscribeCopyFirst(c) ==
  /\ \/ /\ pc[c] = "idle"
        /\ snapshot' = [snapshot EXCEPT ![c] = lines]
        /\ from' = [from EXCEPT ![c] = Len(added) - Len(lines)]
        /\ pc' = [pc EXCEPT ![c] = "replay"]
        /\ UNCHANGED subs
     \/ /\ pc[c] = "replay" /\ c \notin subs /\ ~closed
        /\ subs' = subs \union {c}
        /\ UNCHANGED <<snapshot, from, pc>>
  /\ UNCHANGED <<osVars, pumpVars, waitVars, lines, closed, ch, chOpen, sent, ended, gone, added, missed>>

SubscribeCopyLast(c) ==
  /\ pc[c] = "idle"
  /\ IF c \notin subs /\ ~closed
       THEN /\ subs' = subs \union {c}
            /\ UNCHANGED <<snapshot, from, pc>>
       ELSE /\ snapshot' = [snapshot EXCEPT ![c] = lines]
            /\ from' = [from EXCEPT ![c] = Len(added) - Len(lines)]
            /\ pc' = [pc EXCEPT ![c] = "replay"]
            /\ UNCHANGED subs
  /\ UNCHANGED <<osVars, pumpVars, waitVars, lines, closed, ch, chOpen, sent, ended, gone, added, missed>>

Subscribe(c) ==
  /\ pc[c] = "idle"
  /\ snapshot' = [snapshot EXCEPT ![c] = lines]
  /\ subs' = IF closed THEN subs ELSE subs \union {c}
  /\ chOpen' = [chOpen EXCEPT ![c] = ~closed]
  /\ from' = [from EXCEPT ![c] = Len(added) - Len(lines)]
  /\ pc' = [pc EXCEPT ![c] = "replay"]
  /\ UNCHANGED <<osVars, pumpVars, waitVars, lines, closed, ch, sent, ended, gone, added, missed>>

\* the loop over the snapshot, which does not look at the request's context
Replay(c) ==
  /\ pc[c] = "replay"
  /\ IF snapshot[c] = <<>>
       THEN /\ pc' = [pc EXCEPT ![c] = "select"]
            /\ UNCHANGED <<snapshot, sent>>
       ELSE /\ sent' = [sent EXCEPT ![c] = Append(@, Head(snapshot[c]))]
            /\ snapshot' = [snapshot EXCEPT ![c] = Tail(@)]
            /\ UNCHANGED pc
  /\ UNCHANGED <<osVars, pumpVars, waitVars, ringVars, chanVars, ended, gone, history>>

\* a closed channel still hands out what it holds
Receive(c) ==
  /\ pc[c] = "select" /\ ch[c] # <<>>
  /\ sent' = [sent EXCEPT ![c] = Append(@, Head(ch[c]))]
  /\ ch' = [ch EXCEPT ![c] = Tail(@)]
  /\ UNCHANGED <<osVars, pumpVars, waitVars, ringVars, chOpen, pc, snapshot, ended, gone, history>>

ReceiveClosed(c) ==
  /\ pc[c] = "select" /\ ch[c] = <<>> /\ ~chOpen[c]
  /\ ended' = [ended EXCEPT ![c] = TRUE]
  /\ pc' = [pc EXCEPT ![c] = "cancel"]
  /\ UNCHANGED <<osVars, pumpVars, waitVars, ringVars, chanVars, snapshot, sent, gone, history>>

ContextDone(c) ==
  /\ pc[c] = "select" /\ gone[c]
  /\ pc' = [pc EXCEPT ![c] = "cancel"]
  /\ UNCHANGED <<osVars, pumpVars, waitVars, ringVars, chanVars, snapshot, sent, ended, gone, history>>

\* (mutant) cancel() is not called
ForgetCancel(c) ==
  /\ pc[c] = "cancel"
  /\ pc' = [pc EXCEPT ![c] = "over"]
  /\ UNCHANGED <<osVars, pumpVars, waitVars, ringVars, chanVars, snapshot, sent, ended, gone, history>>

\* the deferred cancel(): unsubscribe closes the channel of a subscriber only
Unsubscribe(c) ==
  /\ pc[c] = "cancel"
  /\ subs' = subs \ {c}
  /\ chOpen' = [chOpen EXCEPT ![c] = @ /\ c \notin subs]
  /\ pc' = [pc EXCEPT ![c] = "over"]
  /\ UNCHANGED <<osVars, pumpVars, waitVars, lines, closed, ch, snapshot, sent, ended, gone, history>>

\* the network: the client of a running request goes away
Disconnect(c) ==
  /\ pc[c] \in {"replay", "select"} /\ ~gone[c]
  /\ gone' = [gone EXCEPT ![c] = TRUE]
  /\ UNCHANGED <<osVars, pumpVars, waitVars, ringVars, chanVars, pc, snapshot, sent, ended, history>>

-------------------------------------------------------------------------------
Pump(s) == Fill(s) \/ Add(s) \/ GiveUp(s) \/ Eof(s)

Waiter == WaitReturns \/ SetState \/ CloseSubs

Serve(c) == Replay(c) \/ Receive(c) \/ ReceiveClosed(c) \/ Unsubscribe(c)

Next ==
  \/ \E s \in Stream, fits \in Fits : Write(s, fits)
  \/ Fork \/ HeirsExit \/ Exit
  \/ \E s \in Stream : Pump(s)
  \/ Waiter
  \/ \E c \in Client :
       Subscribe(c) \/ Serve(c) \/ ContextDone(c) \/ Disconnect(c)

Spec == Init /\ [][Next]_vars

(***************************************************************************)
(* Fairness.  The Go scheduler runs every goroutine that can run.  Nothing *)
(* is assumed of the process, of its descendants or of when clients come   *)
(* and go.  ClientFairness, on which only some properties rely, adds that  *)
(* a request makes progress: its client reads what it is sent, or leaves   *)
(* (the server sets no write timeout), and select, which picks among its   *)
(* ready cases at random, does not pass over a done context for ever.      *)
(***************************************************************************)
PumpFairness == (\A s \in Stream : WF_vars(Pump(s))) /\ WF_vars(Waiter)

ClientFairness == \A c \in Client : WF_vars(Serve(c)) /\ WF_vars(ContextDone(c))

FairSpec == Spec /\ PumpFairness

-------------------------------------------------------------------------------
(* Properties *)

TypeOK ==
  /\ leader \in {"running", "exited"} /\ heirs \in BOOLEAN
  /\ written \in [Stream -> 0 .. MaxOut]
  /\ pipe \in [Stream -> Seq(Line)] /\ scan \in [Stream -> Seq(Line)]
  /\ \A s \in Stream : Len(pipe[s]) <= PipeCap
  /\ pump \in [Stream -> {"scanning", "returned"}]
  /\ waiter \in {"Wait", "setState", "closeSubs", "returned"}
  /\ state \in {StateRunning, StateExited}
  /\ lines \in Seq(Line) /\ Len(lines) <= MaxLines
  /\ subs \subseteq Client /\ closed \in BOOLEAN
  /\ ch \in [Client -> Seq(Line)] /\ chOpen \in [Client -> BOOLEAN]
  /\ \A c \in Client : Len(ch[c]) <= ChanCap
  /\ pc \in [Client -> {"idle", "replay", "select", "cancel", "over"}]
  /\ snapshot \in [Client -> Seq(Line)] /\ sent \in [Client -> Seq(Line)]
  /\ ended \in [Client -> BOOLEAN] /\ gone \in [Client -> BOOLEAN]
  /\ added \in Seq(Line)
  /\ from \in [Client -> Nat] /\ missed \in [Client -> Nat]

\* The buffer that GET /procs/{id}/logs returns holds the most recent lines
\* and nothing else, in the order in which the pumps added them.
RingHoldsLatest ==
  /\ Len(lines) = IF Len(added) < MaxLines THEN Len(added) ELSE MaxLines
  /\ \A i \in 1 .. Len(lines) : lines[i] = added[Len(added) - Len(lines) + i]

\* What was captured of a stream is a beginning of what the process wrote
\* there: pumps of two streams may interleave, but neither reorders, repeats
\* or leaves out a line, whatever is lost is lost at the end.
CapturedIsPrefix ==
  \A j \in 1 .. Len(added) : \A m \in 1 .. added[j].n - 1 :
    \E i \in 1 .. j - 1 : added[i].stream = added[j].stream /\ added[i].n = m

\* What a followed stream carries from subscribe on: sent, about to be sent
\* from the snapshot, waiting in the channel.
Carried(c) == sent[c] \o snapshot[c] \o ch[c]

\* Snapshot and channel join without a gap or an overlap: a subscriber has
\* every line added since the oldest line of its snapshot, less exactly those
\* that found its channel full.  (subscribe copies the lines and registers the
\* channel in one critical section.)
StreamHasNoGap ==
  \A c \in subs :
    /\ from[c] + Len(Carried(c)) + missed[c] = Len(added)
    /\ missed[c] = 0 => Carried(c) = SubSeq(added, from[c] + 1, Len(added))

\* A channel in the subscriber map is open, so that add never sends on a closed
\* channel and neither closeSubs nor unsubscribe closes one twice (each would
\* panic); and nothing subscribes to a ring that is closed, where no one would
\* ever close its channel.
SubscribersAreOpen ==
  /\ \A c \in subs : chOpen[c] /\ pc[c] \in {"replay", "select", "cancel"}
  /\ closed => subs = {}

\* A client that is told "end" finds the process exited when it asks for it:
\* the other way to close a channel, unsubscribe, never ends a live stream.
EndMeansExited ==
  \A c \in Client : ended[c] => state = StateExited /\ leader = "exited"

\* Every stream comes to its end, and gives up its place among the subscribers:
\* once the process has exited, those that were subscribed while it exited, or
\* after, included (TestSubscribeStreamsAndCloses: "stream did not close after
\* process exit"), and when its client has gone, although the process may run for
\* ever.
StreamsEnd ==
  ClientFairness => \A c \in Client :
    ((leader = "exited" /\ pc[c] # "idle") \/ gone[c]) ~> (pc[c] = "over" /\ c \notin subs)

Captured(s, m) == \E i \in 1 .. Len(added) : added[i].stream = s /\ added[i].n = m

\* The pumps do not wait for the readers of the log: whatever the clients do,
\* even if none of them ever receives, each line of a process that stays alive
\* reaches the log, unless an over-long line has ended the scan of its stream
\* (add: "slow subscriber: drop rather than block the pump").
ReadersDoNotBlockPumps ==
  \A s \in Stream, m \in 1 .. MaxOut :
    written[s] >= m
      ~> (leader = "exited" \/ pump[s] = "returned" \/ Captured(s, m))

\* LogStream implements LineFeed.  A reader's position is that of the last line
\* it was sent, or, before that, the place where its snapshot starts.
LastSentAt(c) ==
  IF sent[c] = <<>> THEN from[c]
  ELSE CHOOSE i \in 1 .. Len(added) : added[i] = sent[c][Len(sent[c])]

ReaderOf(c) ==
  CASE pc[c] = "idle" -> "out"
    [] pc[c] \in {"replay", "select"} -> "reading"
    [] OTHER -> IF ended[c] THEN "ended" ELSE "left"

Feed == INSTANCE LineFeed WITH
  log <- added,
  finished <- closed,
  reader <- [c \in Client |-> ReaderOf(c)],
  pos <- [c \in Client |-> LastSentAt(c)],
  given <- sent

\* The log followed over SSE keeps LineFeed's promise: in order, no line twice,
\* one end, only after the process has ended, and for every reader in time.
FeedPromise == Feed!Spec /\ (ClientFairness => Feed!Fairness)

-------------------------------------------------------------------------------
(* What the repository says and the code does not do *)

\* procapi_test.go TestLogsCaptured: once the process has exited and the pumps
\* have finished, every line it wrote is in the log.
ExitedLogIsComplete ==
  (state = StateExited /\ \A s \in Stream : pump[s] = "returned")
    => \A s \in Stream : \A m \in 1 .. written[s] : Captured(s, m)

===============================================================================
