------------------------------ MODULE AuditLog ------------------------------
(***************************************************************************)
(* The stored audit log, as PrismaAuditLogRepository reads and extends it. *)
(* The table is a set of rows with unique indexes on sequence and on hash; *)
(* appendMany is three steps that other processes may come between: the    *)
(* caller's findLatest, the head re-read inside the transaction, and the   *)
(* insert that commits.  Postgres runs these transactions Read Committed,  *)
(* so the re-read takes no lock: what refuses the loser of a race between  *)
(* re-read and insert is the unique index.                                 *)
(*                                                                         *)
(* validateBatch has no action here: both callers link every entry behind  *)
(* the one before it, so the check passes (theorem BatchIsLinked).         *)
(***************************************************************************)
EXTENDS AuditChain, FiniteSets

CONSTANT MaxFaults  \* bound: database errors in one behaviour

ASSUME FaultAssumption == MaxFaults \in Nat

VARIABLES rows,       \* the audit_log_entries table
          faults,     \* database errors so far
          unanswered, \* commands of commits whose answer was lost (for the properties)
          written,    \* commands whose caller was told they are stored
          reported    \* commands handed to onError or onBatchFailure

dbVars  == <<rows, faults, unanswered>>
logVars == <<dbVars, written, reported>>

LogInit ==
    /\ rows = {}
    /\ faults = 0
    /\ unanswered = {}
    /\ written = {}
    /\ reported = {}

\* findLatest: the row with the highest sequence, as a set with that one member
\* (or NoEntry when the table is empty).
Latest == IF rows = {} THEN {NoEntry}
          ELSE { e \in rows : \A f \in rows : f.sequence <= e.sequence }

\* The comparison inside the transaction: actualPreviousHash = expectedPreviousHash.
HeadIs(previous) == \E head \in Latest : head.hash = previous.hash

\* P2002 from createMany: a row of the batch meets the unique index on sequence
\* or the one on hash.
UniqueViolation(entries) ==
    \E e \in entries, f \in rows : e.sequence = f.sequence \/ e.hash = f.hash

\* Mutants of Insert: upsert by sequence; createMany with skipDuplicates.
Upsert(entries) ==
    rows' = { f \in rows : \A e \in entries : e.sequence # f.sequence } \union entries

InsertSkippingDuplicates(entries) ==
    rows' = rows \union { e \in entries : ~UniqueViolation({e}) }

\* createMany and commit: the whole batch or nothing.
Insert(entries) ==
    /\ ~UniqueViolation(entries)
    /\ rows' = rows \union entries

\* A statement or the connection fails; the transaction rolls back.
Fault ==
    /\ faults < MaxFaults
    /\ faults' = faults + 1
    /\ UNCHANGED <<rows, unanswered>>

\* The commit reaches the database and its answer does not reach the caller,
\* who sees the error a rollback would have given.
LostAnswer(entries) ==
    /\ faults < MaxFaults
    /\ faults' = faults + 1
    /\ Insert(entries)
    /\ unanswered' = unanswered \union { e.content : e \in entries }

\* The commands stored so far.
Logged == { e.content : e \in rows }

-----------------------------------------------------------------------------
\* The table in `ORDER BY sequence`, the order findFrom returns.
Stored ==
    LET Before(e) == Cardinality({ f \in rows : f.sequence < e.sequence })
        UpTo(e)   == Cardinality({ f \in rows : f.sequence <= e.sequence })
    IN  [i \in 1 .. Cardinality(rows) |->
            CHOOSE e \in rows : Before(e) < i /\ i <= UpTo(e)]

\* Every stored entry has a valid hash and follows a stored predecessor (or is
\* the first): what RecordAuditEvent's "Serialization" section promises however
\* the appends of several processes interleave.
ChainIntact ==
    \A e \in rows :
        /\ HasValidHash(e)
        /\ \/ e.sequence = 1 /\ e.previousHash = GENESIS_HASH
           \/ \E p \in rows : /\ p.sequence + 1 = e.sequence
                              /\ p.hash = e.previousHash

\* No two entries claim one sequence: "two entries built from the same
\* predecessor produce two chains" never both land.
NoFork == \A e, f \in rows : e.sequence = f.sequence => e = f

=============================================================================
