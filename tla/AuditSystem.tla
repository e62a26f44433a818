----------------------------- MODULE AuditSystem ----------------------------
(***************************************************************************)
(* Direct recorders and batched writers over one audit log: the processes  *)
(* of a deployment in which some replicas batch, some do not, and a writer *)
(* competes with calls that bypass its queue.                              *)
(***************************************************************************)
EXTENDS RecordAuditEvent, BatchedAuditWriter

\* Commands are numbered per process, so that each names one request to record.
ASSUME ApartAssumption == Recorders \intersect Writers = {}

vars == <<logVars, recVars, writerVars>>

Commands == RecorderCommands \union WriterCommands

Init == LogInit /\ RecordInit /\ WriterInit

Next ==
    \/ \E r \in Recorders : RecordStep(r) /\ UNCHANGED writerVars
    \/ \E w \in Writers : WriterStep(w) /\ UNCHANGED recVars

Spec == Init /\ [][Next]_vars

\* What Node and the database guarantee of a writer's process that stays up: a
\* statement is answered, by a result or an error; the interval fires.  Nothing is
\* assumed of the recorders.
Progress ==
    \A w \in Writers :
         /\ WF_vars((DrainRead(w) \/ DrainCheck(w) \/ DrainInsert(w)
                       \/ RetryDrain(w) \/ DropBatch(w)) /\ UNCHANGED recVars)
         /\ WF_vars(Tick(w) /\ UNCHANGED recVars)

FairSpec == Spec /\ Progress

-----------------------------------------------------------------------------
Hashes == Seq(Nat \X Commands)
Entries == [sequence : Nat \ {0}, content : Commands, previousHash : Hashes, hash : Hashes]
Heads == Entries \union {NoEntry}

Calls == [pc : {"idle", "read", "check", "insert"}, commands : Seq(Commands),
          attempts : Nat, base : Heads]
Flushes == [pc : {"idle", "read", "check", "insert"}, batch : Seq(Commands),
            attempt : Nat, base : Heads]
Settlings == [pc : {"running", "pass", "last", "stopped"},
              before : Nat, accepted : Nat]

LogTypeOK ==
    /\ rows \subseteq Entries
    /\ faults \in 0 .. MaxFaults
    /\ unanswered \subseteq Commands
    /\ written \subseteq Commands
    /\ reported \subseteq Commands

RecorderTypeOK ==
    /\ rec \in [Recorders -> Calls]
    /\ calls \in [Recorders -> 0 .. MaxCalls]
    /\ \A r \in Recorders : rec[r].attempts <= MaxAttempts

WriterTypeOK ==
    /\ queue \in [Writers -> Seq(Commands)]
    /\ enqueued \in [Writers -> 0 .. MaxAccepted]
    /\ overflowed \in [Writers -> BOOLEAN]
    /\ flush \in [Writers -> Flushes]
    /\ timer \in [Writers -> BOOLEAN]
    /\ settling \in [Writers -> Settlings]
    /\ \A w \in Writers : Len(queue[w]) <= MaxQueueSize
    /\ \A w \in Writers : flush[w].attempt < MaxFlushAttempts

\* Types, the queue's hard ceiling, and the number of attempts never exceeded.
TypeOK == LogTypeOK /\ RecorderTypeOK /\ WriterTypeOK

Queued(w) == { queue[w][i] : i \in 1 .. Len(queue[w]) }

\* Every command a writer accepted is waiting, stored, or was reported lost: the
\* splice after a batch removes that batch and nothing that arrived meanwhile.
\* "Refused entries are never silently discarded" and its batch counterpart.
NothingLostSilently ==
    \A w \in Writers : \A n \in 1 .. enqueued[w] :
        <<w, n>> \in Queued(w) \union Logged \union reported

\* What a caller was told is true: a command acknowledged as written is stored,
\* and one reported lost is not, unless its commit's own answer was lost.
AnswersAreTrue ==
    /\ written \subseteq Logged
    /\ reported \intersect Logged \subseteq unanswered

\* One request to record makes one entry, also when its batch was re-linked onto
\* a head that moved ("must not be written twice in the process",
\* batched-audit-writer.spec.ts:195).  Only a commit whose answer was lost can be
\* repeated.
NoDuplicates ==
    \A e, f \in rows : (e.content = f.content /\ e.content \notin unanswered) => e = f

\* A writer's entries are stored in the order it accepted them, across batches,
\* retries and competing writers; only within a repeated batch may a later command
\* stand before an earlier one's second copy.
QueueOrderKept ==
    \A w \in Writers : \A e, f \in rows :
        (/\ e.content[1] = w /\ f.content[1] = w
         /\ e.content[2] < f.content[2]
         /\ ~({e.content, f.content} \subseteq unanswered))
            => e.sequence < f.sequence

\* "Stops the timer and writes whatever is still pending" (comment of stop()):
\* when it returns, nothing accepted before the call is still waiting.
StopLeavesNothingPending ==
    \A w \in Writers : settling[w].pc = "stopped" =>
        \A n \in 1 .. settling[w].accepted : <<w, n>> \notin Queued(w)

\* The log refines one append-only trail of whole bursts.
Trail == INSTANCE AuditTrail WITH
    trail <- [i \in 1 .. Cardinality(rows) |-> Stored[i].content],
    Clients <- Recorders \union Writers,
    MaxNumber <- IF MaxCalls >= MaxAccepted THEN MaxCalls ELSE MaxAccepted,
    MaxBurst <- IF BatchLength >= MaxBatchSize THEN BatchLength ELSE MaxBatchSize

RefinesTrail == Trail!TrailSpec

\* While the interval runs, an accepted command leaves the queue: it is stored or
\* reported, whatever competes with its batch.
QueueDrains ==
    \A w \in Writers : \A c \in WriterCommands :
        (c \in Queued(w) /\ timer[w]) ~> (c \notin Queued(w) \/ ~timer[w])

\* stop() returns: settle's loop does not spin on a batch that keeps failing.
StopReturns == \A w \in Writers : stopped(w) ~> settling[w].pc = "stopped"
=============================================================================
