-------------------------------- MODULE Audit ---------------------------------
(***************************************************************************)
(* internal/audit: the trail of mutating actions.  One Recorder is shared  *)
(* by every REST handler and MCP tool; Record takes the time of an entry   *)
(* before it enters the critical section in which the entry is appended to *)
(* the ring and to the file.  Exec and Server include it.                  *)
(***************************************************************************)
EXTENDS Integers, Sequences

CONSTANTS
  Caller,    \* the goroutines that call Record, each with one action
  MaxRing,   \* Recorder.max (1000 in main)
  HasFile    \* AUDIT_LOG names a file

ASSUME AuditAssumption ==
  /\ MaxRing \in Nat \ {0}
  /\ HasFile \in BOOLEAN

VARIABLES
  now,       \* the clock that nowFn reads
  step,      \* [Caller -> {"out", "stamped", "recorded"}]
  at,        \* [Caller -> Nat]: Entry.Time of the caller's entry
  ring,      \* Recorder.ring: the callers whose entries it holds
  file,      \* the entries in the file
  appended,  \* history: all entries that went through the critical section
  boot       \* history: how many of them when the server was last started

auditVars == <<now, step, at, ring, file, appended, boot>>

AuditInit ==
  /\ now = 0
  /\ step = [c \in Caller |-> "out"] /\ at = [c \in Caller |-> 0]
  /\ ring = <<>> /\ file = <<>> /\ appended = <<>> /\ boot = 0

\* Time goes on; two readings of the clock may also be equal.
Stamp(c) ==
  /\ step[c] = "out"
  /\ now' \in {now, now + 1}
  /\ at' = [at EXCEPT ![c] = now']
  /\ step' = [step EXCEPT ![c] = "stamped"]
  /\ UNCHANGED <<ring, file, appended, boot>>

Cap(es) ==
  IF Len(es) > MaxRing THEN SubSeq(es, Len(es) - MaxRing + 1, Len(es)) ELSE es

\* The critical section.  A failed write to the file is ignored.
AppendEntry(c) ==
  /\ step[c] = "stamped"
  /\ ring' = Cap(Append(ring, c))
  /\ appended' = Append(appended, c)
  /\ \/ HasFile /\ file' = Append(file, c)
     \/ UNCHANGED file
  /\ step' = [step EXCEPT ![c] = "recorded"]
  /\ UNCHANGED <<now, at, boot>>

\* (mutant) O_TRUNC in the place of O_APPEND
RestartTruncates ==
  /\ ring' = <<>> /\ file' = <<>> /\ boot' = Len(appended)
  /\ UNCHANGED <<now, step, at, appended>>

\* New after the process has ended: the ring is empty, the file is appended to.
Restart ==
  /\ ring' = <<>> /\ boot' = Len(appended)
  /\ UNCHANGED <<now, step, at, file, appended>>

AuditNext == Restart \/ \E c \in Caller : Stamp(c) \/ AppendEntry(c)

AuditSpec == AuditInit /\ [][AuditNext]_auditVars

\* (mutant) no limit is taken as a limit of zero
RecentUpTo(limit) ==
  LET n == IF limit > Len(ring) THEN Len(ring) ELSE limit
  IN SubSeq(ring, Len(ring) - n + 1, Len(ring))

\* GET /audit?limit=
Recent(limit) ==
  LET n == IF limit <= 0 \/ limit > Len(ring) THEN Len(ring) ELSE limit
  IN SubSeq(ring, Len(ring) - n + 1, Len(ring))

-------------------------------------------------------------------------------
(* Properties *)

AuditTypeOK ==
  /\ now \in Nat
  /\ step \in [Caller -> {"out", "stamped", "recorded"}]
  /\ at \in [Caller -> Nat]
  /\ ring \in Seq(Caller) /\ Len(ring) <= MaxRing
  /\ file \in Seq(Caller)
  /\ appended \in Seq(Caller) /\ boot \in 0 .. Len(appended)

\* What GET /audit returns, for every limit, is the latest entries since the server
\* was started, and as many as were asked for or there are, up to the size of the
\* ring (TestRecentLimit, TestRingCapAndRecent).
RecentIsLatest ==
  \A limit \in -1 .. MaxRing + 1 :
    LET out == Recent(limit)
        wanted == IF limit <= 0 \/ limit > MaxRing THEN MaxRing ELSE limit
        there == Len(appended) - boot
    IN /\ Len(out) = IF wanted <= there THEN wanted ELSE there
       /\ \A i \in 1 .. Len(out) :
            out[i] = appended[Len(appended) - Len(out) + i]

===============================================================================
