------------------------------- MODULE LineFeed -------------------------------
(***************************************************************************)
(* What following the log of a background process promises to its readers. *)
(* Lines are appended to one growing log.  A reader that opens the feed    *)
(* starts at some position of the log, is given lines in log order and     *)
(* never the same line twice; a line may be skipped (a slow reader loses   *)
(* lines rather than slowing the process down).  The feed is finished once *)
(* and only a finished feed tells its readers that it has ended.           *)
(*                                                                         *)
(* LogStream implements this specification (LogStream!FeedPromise).        *)
(***************************************************************************)
EXTENDS Integers, Sequences

CONSTANTS Line,    \* what may be appended
          Client   \* the readers

VARIABLES log,       \* every line appended so far
          finished,  \* the process has ended
          reader,    \* [Client -> {"out", "reading", "ended", "left"}]
          pos,       \* [Client -> Nat]: where in log the reader has got to
          given      \* [Client -> Seq(Line)]: the lines it was given

feedVars == <<log, finished, reader, pos, given>>

Init ==
  /\ log = <<>>
  /\ finished = FALSE
  /\ reader = [c \in Client |-> "out"]
  /\ pos = [c \in Client |-> 0]
  /\ given = [c \in Client |-> <<>>]

AppendLine(ln) ==
  /\ log' = Append(log, ln)
  /\ UNCHANGED <<finished, reader, pos, given>>

Finish ==
  /\ ~finished
  /\ finished' = TRUE
  /\ UNCHANGED <<log, reader, pos, given>>

\* A reader may start with lines that were appended before it came.
Open(c) ==
  /\ reader[c] = "out"
  /\ reader' = [reader EXCEPT ![c] = "reading"]
  /\ \E i \in 0 .. Len(log) : pos' = [pos EXCEPT ![c] = i]
  /\ UNCHANGED <<log, finished, given>>

\* The next line given lies further on in the log: no reordering, no repeat.
Give(c) ==
  /\ reader[c] = "reading"
  /\ \E i \in pos[c] + 1 .. Len(log) :
       /\ given' = [given EXCEPT ![c] = Append(@, log[i])]
       /\ pos' = [pos EXCEPT ![c] = i]
  /\ UNCHANGED <<log, finished, reader>>

End(c) ==
  /\ reader[c] = "reading"
  /\ finished
  /\ reader' = [reader EXCEPT ![c] = "ended"]
  /\ UNCHANGED <<log, finished, pos, given>>

Leave(c) ==
  /\ reader[c] = "reading"
  /\ reader' = [reader EXCEPT ![c] = "left"]
  /\ UNCHANGED <<log, finished, pos, given>>

Next ==
  \/ \E ln \in Line : AppendLine(ln)
  \/ Finish
  \/ \E c \in Client : Open(c) \/ Give(c) \/ End(c) \/ Leave(c)

Spec == Init /\ [][Next]_feedVars

(* A finished feed lets go of every reader: none waits for a line for ever. *)
LetGo(c) == finished /\ (End(c) \/ Leave(c))

Fairness == \A c \in Client : WF_feedVars(LetGo(c))

===============================================================================
