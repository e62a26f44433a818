------------------------- MODULE BatchedAuditWriter -------------------------
(***************************************************************************)
(* BatchedAuditWriter: a bounded in-memory queue of commands, drained to   *)
(* the log one batch at a time.  Each writer lives in one process and its  *)
(* JavaScript runs one piece at a time, so every action is the code        *)
(* between two awaits.  A process that dies is a writer that takes no      *)
(* further step.                                                           *)
(*                                                                         *)
(* flush[w].pc follows drainOnce: read, check and insert are its awaits on *)
(* the database.  What follows the last of them (the splice, the finally   *)
(* callback that clears `flushing`, and stop() going on if it awaits this  *)
(* flush) are microtasks, which run before any other callback of the       *)
(* process, so they are one step with the database's answer; a flush of an *)
(* empty queue is over before anything else runs.                          *)
(***************************************************************************)
EXTENDS AuditLog

CONSTANTS Writers,
          MaxBatchSize,
          MaxQueueSize,
          MaxFlushAttempts,
          MaxAccepted  \* bound: commands one writer accepts

ASSUME WriterAssumption ==
    /\ MaxBatchSize \in Nat \ {0}
    /\ MaxQueueSize \in Nat \ {0}
    /\ MaxFlushAttempts \in Nat \ {0}
    /\ MaxAccepted \in Nat

VARIABLES queue,      \* accepted commands waiting to be written
          enqueued,   \* enqueuedTotal, which also numbers the commands
          overflowed, \* has a command ever been refused?
          flush,      \* the flush in flight
          timer,      \* is the interval running?
          settling    \* where stop() is: pc, `before`, and (for the properties
                      \* only) how many commands had been accepted when it began

writerVars == <<queue, enqueued, overflowed, flush, timer, settling>>

WriterCommands == { <<w, n>> : w \in Writers, n \in 1 .. MaxAccepted }

NoFlush  == [pc |-> "idle", batch |-> << >>, attempt |-> 0, base |-> NoEntry]
Running  == [pc |-> "running", before |-> 0, accepted |-> 0]

WriterInit ==
    /\ queue = [w \in Writers |-> << >>]
    /\ enqueued = [w \in Writers |-> 0]
    /\ overflowed = [w \in Writers |-> FALSE]
    /\ flush = [w \in Writers |-> NoFlush]
    /\ timer = [w \in Writers |-> FALSE]
    /\ settling = [w \in Writers |-> Running]

stopped(w) == settling[w].pc # "running"

\* The first n commands of a queue, and the rest (slice and splice).
Front(q, n) == SubSeq(q, 1, IF n <= Len(q) THEN n ELSE Len(q))

\* Mutants of Splice: the whole queue is cleared; nothing is removed.
SpliceAll(q, n) == << >>
SpliceNothing(q, n) == q

Splice(q, n) == SubSeq(q, n + 1, Len(q))

\* flush() with queue q: join the flush in flight, or start drainOnce, which
\* returns at once when there is nothing to write.
Flushed(f, q) ==
    IF f.pc # "idle" \/ q = << >> THEN f
    ELSE [NoFlush EXCEPT !.pc = "read", !.batch = Front(q, MaxBatchSize)]

\* start()
Start(w) ==
    /\ ~timer[w]
    /\ ~stopped(w)
    /\ timer' = [timer EXCEPT ![w] = TRUE]
    /\ UNCHANGED <<logVars, queue, enqueued, overflowed, flush, settling>>

\* Mutant of Tick: the interval flushes full batches only.
TickWhenFull(w) ==
    /\ timer[w]
    /\ Len(queue[w]) >= MaxBatchSize
    /\ flush' = [flush EXCEPT ![w] = Flushed(@, queue[w])]
    /\ UNCHANGED <<logVars, queue, enqueued, overflowed, timer, settling>>

\* The interval fires.
Tick(w) ==
    /\ timer[w]
    /\ flush' = [flush EXCEPT ![w] = Flushed(@, queue[w])]
    /\ UNCHANGED <<logVars, queue, enqueued, overflowed, timer, settling>>

HasRoom(w) == Len(queue[w]) < MaxQueueSize

\* record(command) with room in the queue.  It does not look at `stopped`.
Record(w) ==
    /\ HasRoom(w)
    /\ enqueued[w] < MaxAccepted
    /\ LET q == Append(queue[w], <<w, enqueued[w] + 1>>)
       IN  /\ queue' = [queue EXCEPT ![w] = q]
           /\ flush' = [flush EXCEPT ![w] =
                          IF Len(q) >= MaxBatchSize THEN Flushed(@, q) ELSE @]
    /\ enqueued' = [enqueued EXCEPT ![w] = @ + 1]
    /\ UNCHANGED <<logVars, overflowed, timer, settling>>

\* record(command) with the queue at its limit: refused and reported.
Refuse(w) ==
    /\ ~HasRoom(w)
    /\ overflowed' = [overflowed EXCEPT ![w] = TRUE]
    /\ UNCHANGED <<logVars, queue, enqueued, flush, timer, settling>>

-----------------------------------------------------------------------------
\* drainOnce
BatchOf(w)   == { flush[w].batch[i] : i \in 1 .. Len(flush[w].batch) }
BatchRows(w) == BuildChain(flush[w].base, flush[w].batch)

\* findLatest, then the chain is built with no await in between.
DrainRead(w) ==
    /\ flush[w].pc = "read"
    /\ \E head \in Latest :
         flush' = [flush EXCEPT ![w].pc = "check", ![w].base = head]
    /\ UNCHANGED <<logVars, queue, enqueued, overflowed, timer, settling>>

DrainCheck(w) ==
    /\ flush[w].pc = "check"
    /\ HeadIs(flush[w].base)
    /\ flush' = [flush EXCEPT ![w].pc = "insert"]
    /\ UNCHANGED <<logVars, queue, enqueued, overflowed, timer, settling>>

\* Mutant of Settled: it waits for a flush also when none is in flight.
SettledOnNextFlush(f, accepted) ==
    [pc |-> "last", before |-> 0, accepted |-> accepted]

\* settle() after its loop: wait for the flush in flight, if there is one.
Settled(f, accepted) ==
    [pc |-> IF f = NoFlush THEN "stopped" ELSE "last", before |-> 0, accepted |-> accepted]

\* settle()'s loop with queue q: a pass while the queue is not empty.
SettleLoop(f, q, accepted) ==
    IF q # << >> THEN [pc |-> "pass", before |-> Len(q), accepted |-> accepted]
    ELSE Settled(f, accepted)

\* A pass is over: loop if the queue is shorter than before it, or the break.
SettleAgain(s, q) ==
    IF Len(q) < s.before THEN SettleLoop(NoFlush, q, s.accepted)
    ELSE Settled(NoFlush, s.accepted)

\* Where stop() is once the flush has ended and left q.
AfterFlush(s, q) ==
    CASE s.pc = "pass" -> SettleAgain(s, q)
      [] s.pc = "last" -> [s EXCEPT !.pc = "stopped"]
      [] OTHER         -> s

\* The batch leaves the queue and what arrived meanwhile stays; `flushing` is
\* cleared, and a stop() that awaits this flush goes on, perhaps with another.
EndFlush(w) ==
    LET q == Splice(queue[w], Len(flush[w].batch))
        s == AfterFlush(settling[w], q)
    IN  /\ queue' = [queue EXCEPT ![w] = q]
        /\ settling' = [settling EXCEPT ![w] = s]
        /\ flush' = [flush EXCEPT ![w] = IF s.pc = "pass" THEN Flushed(NoFlush, q)
                                         ELSE NoFlush]

\* appendMany returned ok.
DrainInsert(w) ==
    /\ flush[w].pc = "insert"
    /\ Insert(BatchRows(w))
    /\ written' = written \union BatchOf(w)
    /\ EndFlush(w)
    /\ UNCHANGED <<faults, unanswered, reported, enqueued, overflowed, timer>>

\* One attempt failed: a conflict, an error, or a commit whose answer was lost.
AttemptFails(w) ==
    \/ /\ \/ flush[w].pc = "check"  /\ ~HeadIs(flush[w].base)
          \/ flush[w].pc = "insert" /\ UniqueViolation(BatchRows(w))
       /\ UNCHANGED dbVars
    \/ flush[w].pc \in {"read", "check", "insert"} /\ Fault
    \/ flush[w].pc = "insert" /\ LostAnswer(BatchRows(w))

\* The next attempt of the loop, on whatever the head is then.
RetryDrain(w) ==
    /\ AttemptFails(w)
    /\ flush[w].attempt + 1 < MaxFlushAttempts
    /\ flush' = [flush EXCEPT ![w].pc = "read", ![w].attempt = @ + 1]
    /\ UNCHANGED <<written, reported, queue, enqueued, overflowed, timer, settling>>

\* The attempts are used up: the batch is dropped and handed to onBatchFailure.
DropBatch(w) ==
    /\ AttemptFails(w)
    /\ flush[w].attempt + 1 >= MaxFlushAttempts
    /\ reported' = reported \union BatchOf(w)
    /\ EndFlush(w)
    /\ UNCHANGED <<written, enqueued, overflowed, timer>>

\* stop(): no more ticks, then settle.
Stop(w) ==
    /\ ~stopped(w)
    /\ timer' = [timer EXCEPT ![w] = FALSE]
    /\ settling' = [settling EXCEPT ![w] = SettleLoop(flush[w], queue[w], enqueued[w])]
    /\ flush' = [flush EXCEPT ![w] = Flushed(@, queue[w])]
    /\ UNCHANGED <<logVars, queue, enqueued, overflowed>>

WriterStep(w) ==
    \/ Start(w)
    \/ Tick(w)
    \/ Record(w)
    \/ Refuse(w)
    \/ DrainRead(w)
    \/ DrainCheck(w)
    \/ DrainInsert(w)
    \/ RetryDrain(w)
    \/ DropBatch(w)
    \/ Stop(w)
=============================================================================
