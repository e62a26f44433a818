-------------------------- MODULE RecordAuditEvent --------------------------
(***************************************************************************)
(* RecordAuditEvent.execute and recordAuditEventBatch: append directly to  *)
(* the log, retrying a lost race on the new head.  A recorder is one call  *)
(* after another on one process; concurrent calls, also those of other     *)
(* processes, are other recorders.                                         *)
(***************************************************************************)
EXTENDS AuditLog

CONSTANTS Recorders,
          MaxAttempts,  \* maxAttempts of RecordAuditEvent
          MaxCalls,     \* bound: commands one recorder issues
          BatchLength   \* length of the bursts given to recordAuditEventBatch

ASSUME RecorderAssumption ==
    /\ MaxAttempts \in Nat \ {0}
    /\ MaxCalls \in Nat
    /\ BatchLength \in Nat \ {0}

VARIABLES rec,   \* the call each recorder is in
          calls  \* commands each recorder has issued

recVars == <<rec, calls>>

\* Commands are numbered per recorder, so each names one request to record.
RecorderCommands == { <<r, n>> : r \in Recorders, n \in 1 .. MaxCalls }

Idle == [pc |-> "idle", commands |-> << >>, attempts |-> 0, base |-> NoEntry]

RecordInit ==
    /\ rec = [r \in Recorders |-> Idle]
    /\ calls = [r \in Recorders |-> 0]

\* A call begins with its commands and the attempts it may make.
Begin(r, n, attempts) ==
    /\ rec[r].pc = "idle"
    /\ calls[r] + n <= MaxCalls
    /\ calls' = [calls EXCEPT ![r] = @ + n]
    /\ rec' = [rec EXCEPT ![r] =
                 [pc |-> "read", attempts |-> attempts, base |-> NoEntry,
                  commands |-> [i \in 1 .. n |-> <<r, calls[r] + i>>]]]
    /\ UNCHANGED logVars

\* execute(command)
Execute(r) == Begin(r, 1, MaxAttempts)

\* recordAuditEventBatch(commands): one attempt, no retry.
ExecuteBatch(r) == Begin(r, BatchLength, 1)

CommandsOf(r) == { rec[r].commands[i] : i \in 1 .. Len(rec[r].commands) }
EntriesOf(r)  == BuildChain(rec[r].base, rec[r].commands)

Resolve(r) == rec' = [rec EXCEPT ![r] = Idle]

\* onError, and the call resolves with undefined (or []).
Abandon(r) ==
    /\ reported' = reported \union CommandsOf(r)
    /\ Resolve(r)

\* The call read the head; entries are linked to it at once, before any await.
ReadHead(r) ==
    /\ rec[r].pc = "read"
    /\ \E head \in Latest :
         rec' = [rec EXCEPT ![r].pc = "check", ![r].base = head]
    /\ UNCHANGED <<logVars, calls>>

\* The transaction's own read of the head agrees with the caller's.
CheckHead(r) ==
    /\ rec[r].pc = "check"
    /\ HeadIs(rec[r].base)
    /\ rec' = [rec EXCEPT ![r].pc = "insert"]
    /\ UNCHANGED <<logVars, calls>>

\* ChainConflictError, from the head comparison or from the unique index.
Conflict(r) ==
    \/ rec[r].pc = "check"  /\ ~HeadIs(rec[r].base)
    \/ rec[r].pc = "insert" /\ UniqueViolation(EntriesOf(r))

\* A lost race with attempts left: the loop re-reads the head.
RetryRecord(r) ==
    /\ Conflict(r)
    /\ rec[r].attempts > 1
    /\ rec' = [rec EXCEPT ![r].pc = "read", ![r].attempts = @ - 1]
    /\ UNCHANGED <<logVars, calls>>

\* A lost race on the last attempt.
LoseRecord(r) ==
    /\ Conflict(r)
    /\ rec[r].attempts = 1
    /\ Abandon(r)
    /\ UNCHANGED <<dbVars, written, calls>>

\* appendMany returns ok and the call resolves with the entries.
InsertRecord(r) ==
    /\ rec[r].pc = "insert"
    /\ Insert(EntriesOf(r))
    /\ written' = written \union CommandsOf(r)
    /\ Resolve(r)
    /\ UNCHANGED <<faults, unanswered, reported, calls>>

\* Any thrown error ends the call: the catch reports it and does not retry.
RecordFails(r) ==
    /\ \/ rec[r].pc \in {"read", "check", "insert"} /\ Fault
       \/ rec[r].pc = "insert" /\ LostAnswer(EntriesOf(r))
    /\ Abandon(r)
    /\ UNCHANGED <<written, calls>>

RecordStep(r) ==
    \/ Execute(r)
    \/ ExecuteBatch(r)
    \/ ReadHead(r)
    \/ CheckHead(r)
    \/ RetryRecord(r)
    \/ LoseRecord(r)
    \/ InsertRecord(r)
    \/ RecordFails(r)
=============================================================================
