-------------------------- MODULE AuditSystem_proof -------------------------
EXTENDS AuditSystem, SequenceTheorems, FiniteSetTheorems, TLAPS

\* Appending behind a concatenation of digests appends to its second part.
LEMMA HashAppend ==
    ASSUME NEW h \in Hashes, NEW t \in Hashes, NEW x \in Nat \X Commands
    PROVE  h \o Append(t, x) = Append(h \o t, x)
<1> DEFINE S == Nat \X Commands
<1>1. h \in Seq(S) /\ t \in Seq(S) /\ x \in S
  BY DEF Hashes
<1> HIDE DEF S
<1> QED  BY <1>1

\* A head, stored or absent, has a sequence and a digest.
LEMMA HeadType ==
    ASSUME NEW p \in Heads
    PROVE  p.hash \in Hashes /\ p.sequence \in Nat
<1>1. CASE p \in Entries
  BY <1>1 DEF Entries
<1>2. CASE p = NoEntry
  <2>1. << >> \in Hashes
    BY EmptySeq DEF Hashes
  <2> QED  BY <1>2, <2>1 DEF NoEntry, GENESIS_HASH
<1> QED  BY <1>1, <1>2 DEF Heads

\* The digest after i entries of a run is a digest.
LEMMA ChainHashType ==
    ASSUME NEW p \in Heads, NEW cs \in Seq(Commands), NEW i \in 0 .. Len(cs)
    PROVE  ChainHash(p, cs, i) \in Hashes
<1>1. p.hash \in Hashes /\ p.sequence \in Nat
  BY HeadType
<1>2. [j \in 1 .. i |-> <<p.sequence + j, cs[j]>>] \in Hashes
  BY <1>1 DEF Hashes
<1> QED  BY <1>1, <1>2 DEF ChainHash, Hashes

\* buildChain makes entries of the log.
LEMMA EntryType ==
    ASSUME NEW p \in Heads, NEW cs \in Seq(Commands)
    PROVE  BuildChain(p, cs) \subseteq Entries
<1> SUFFICES ASSUME NEW i \in 1 .. Len(cs)
             PROVE  AppendAt(p, cs, i) \in Entries
  BY DEF BuildChain
<1>1. p.sequence \in Nat
  BY HeadType
<1>2. ChainHash(p, cs, i) \in Hashes /\ ChainHash(p, cs, i - 1) \in Hashes
  BY ChainHashType
<1>3. cs[i] \in Commands /\ p.sequence + i \in Nat \ {0}
  BY <1>1
<1> QED  BY <1>2, <1>3 DEF AppendAt, Entries

\* The chain hash of no commands is the hash it starts from.
LEMMA ChainHashZero ==
    ASSUME NEW p \in Heads, NEW cs
    PROVE  ChainHash(p, cs, 0) = p.hash
<1>1. p.hash \in Hashes
  BY HeadType
<1>2. [j \in 1 .. 0 |-> <<p.sequence + j, cs[j]>>] = << >>
  OBVIOUS
<1> QED  BY <1>1, <1>2 DEF ChainHash, Hashes

\* The chain hash of i commands extends that of i - 1 by the entry appended.
LEMMA ChainHashStep ==
    ASSUME NEW p \in Heads, NEW cs \in Seq(Commands), NEW i \in 1 .. Len(cs)
    PROVE  ChainHash(p, cs, i)
             = Append(ChainHash(p, cs, i - 1), <<p.sequence + i, cs[i]>>)
<1> DEFINE run(k) == [j \in 1 .. k |-> <<p.sequence + j, cs[j]>>]
           x == <<p.sequence + i, cs[i]>>
<1>1. p.hash \in Hashes /\ p.sequence \in Nat
  BY HeadType
<1>2. run(i - 1) \in Hashes /\ run(i) \in Hashes /\ x \in Nat \X Commands
  BY <1>1 DEF Hashes
<1>3. run(i) = Append(run(i - 1), x)
  BY <1>1
<1>4. p.hash \o Append(run(i - 1), x) = Append(p.hash \o run(i - 1), x)
  <2> HIDE DEF run, x
  <2> QED  BY <1>1, <1>2, HashAppend
<1> QED  BY <1>3, <1>4 DEF ChainHash

\* validateBatch passes for every batch the two callers build: each entry has a
\* valid hash, the first links to the head that was read and every other to the
\* entry before it.
THEOREM BatchIsLinked ==
    ASSUME NEW p \in Heads, NEW cs \in Seq(Commands), NEW i \in 1 .. Len(cs)
    PROVE  /\ HasValidHash(AppendAt(p, cs, i))
           /\ AppendAt(p, cs, i).previousHash
                 = IF i = 1 THEN p.hash ELSE AppendAt(p, cs, i - 1).hash
           /\ AppendAt(p, cs, i).sequence
                 = IF i = 1 THEN p.sequence + 1 ELSE AppendAt(p, cs, i - 1).sequence + 1
<1>1. HasValidHash(AppendAt(p, cs, i))
  BY ChainHashStep DEF AppendAt, HasValidHash, ComputeHash
<1>2. CASE i = 1
  BY <1>1, <1>2, ChainHashZero DEF AppendAt
<1>3. CASE i # 1
  <2>1. p.sequence + i = p.sequence + (i - 1) + 1
    BY HeadType
  <2> QED  BY <1>1, <1>3, <2>1 DEF AppendAt
<1> QED  BY <1>2, <1>3

-----------------------------------------------------------------------------
\* The bases of the appends in progress are stored rows: what makes a conflict-free
\* insert link to the log.
BasesStored ==
    /\ \A r \in Recorders : rec[r].base \in rows \union {NoEntry}
    /\ \A w \in Writers : flush[w].base \in rows \union {NoEntry}

\* The inductive invariant.
IInv == TypeOK /\ BasesStored /\ ChainIntact /\ NoFork

\* The repository's guarantee, whoever calls it: a committed batch behind a stored
\* row (or the absent one) extends an unforked chain to an unforked chain.
LEMMA InsertKeepsChain ==
    ASSUME LogTypeOK, ChainIntact, NoFork,
           NEW p \in rows \union {NoEntry}, NEW cs \in Seq(Commands),
           Insert(BuildChain(p, cs))
    PROVE  ChainIntact' /\ NoFork'
<1>1. p \in Heads
  BY DEF LogTypeOK, Heads
<1>2. rows' = rows \union BuildChain(p, cs)
  BY DEF Insert
<1>3. BuildChain(p, cs) \subseteq Entries
  BY <1>1, EntryType
<1>4. ASSUME NEW e \in rows'
      PROVE  /\ HasValidHash(e)
             /\ \/ e.sequence = 1 /\ e.previousHash = GENESIS_HASH
                \/ \E q \in rows' : /\ q.sequence + 1 = e.sequence
                                    /\ q.hash = e.previousHash
  <2>1. CASE e \in rows
    BY <1>2, <2>1 DEF ChainIntact
  <2>2. CASE e \in BuildChain(p, cs)
    <3>1. PICK i \in 1 .. Len(cs) : e = AppendAt(p, cs, i)
      BY <2>2 DEF BuildChain
    <3>2. CASE i = 1 /\ p = NoEntry
      BY <1>1, <3>1, <3>2, BatchIsLinked DEF NoEntry
    <3>3. CASE i = 1 /\ p \in rows
      BY <1>1, <1>2, <3>1, <3>3, BatchIsLinked
    <3>4. CASE i # 1
      <4>1. i - 1 \in 1 .. Len(cs)
        BY <3>4
      <4>2. AppendAt(p, cs, i - 1) \in rows'
        BY <1>2, <4>1 DEF BuildChain
      <4> QED  BY <1>1, <3>1, <3>4, <4>2, BatchIsLinked
    <3> QED  BY <3>2, <3>3, <3>4
  <2> QED  BY <1>2, <2>1, <2>2
<1>5. ASSUME NEW e \in rows', NEW f \in rows', e.sequence = f.sequence
      PROVE  e = f
  <2>1. CASE e \in rows /\ f \in rows
    BY <1>5, <2>1 DEF NoFork
  <2>2. CASE e \in BuildChain(p, cs) /\ f \in BuildChain(p, cs)
    <3>1. PICK i \in 1 .. Len(cs) : e = AppendAt(p, cs, i)
      BY <2>2 DEF BuildChain
    <3>2. PICK j \in 1 .. Len(cs) : f = AppendAt(p, cs, j)
      BY <2>2 DEF BuildChain
    <3>3. e.sequence = p.sequence + i /\ f.sequence = p.sequence + j
      BY <3>1, <3>2 DEF AppendAt
    <3>4. p.sequence \in Nat
      BY <1>1, HeadType
    <3>5. i = j
      <4>1. p.sequence + i = p.sequence + j
        BY <1>5, <3>3
      <4>2. i \in Nat /\ j \in Nat
        OBVIOUS
      <4> QED  BY <3>4, <4>1, <4>2
    <3> QED  BY <3>1, <3>2, <3>5
  <2>3. CASE e \in BuildChain(p, cs) /\ f \in rows
    BY <1>5, <2>3 DEF Insert, UniqueViolation
  <2>4. CASE e \in rows /\ f \in BuildChain(p, cs)
    BY <1>5, <2>4 DEF Insert, UniqueViolation
  <2> QED  BY <1>2, <2>1, <2>2, <2>3, <2>4
<1> QED  BY <1>4, <1>5 DEF ChainIntact, NoFork

-----------------------------------------------------------------------------
\* A head read from the table is a stored row or the absent one.
LEMMA LatestStored == ASSUME NEW h \in Latest PROVE h \in rows \union {NoEntry}
  BY DEF Latest

\* What a step does to the table, as far as the invariant needs to know.
TableStep ==
    \/ rows' = rows
    \/ \E p \in rows \union {NoEntry}, cs \in Seq(Commands) : Insert(BuildChain(p, cs))

\* A command is noted as unanswered only if its commit stored it.
AnswerStep == unanswered' \subseteq unanswered \union Logged'

\* A statement that inserts a linked batch, or nothing, keeps the chain.
LEMMA TableStepKeepsChain ==
    ASSUME LogTypeOK, ChainIntact, NoFork, TableStep
    PROVE  rows \subseteq rows' /\ rows' \subseteq Entries /\ ChainIntact' /\ NoFork'
<1>1. CASE rows' = rows
  BY <1>1 DEF LogTypeOK, ChainIntact, NoFork
<1>2. ASSUME NEW p \in rows \union {NoEntry}, NEW cs \in Seq(Commands),
             Insert(BuildChain(p, cs))
      PROVE  rows \subseteq rows' /\ rows' \subseteq Entries /\ ChainIntact' /\ NoFork'
  <2>1. p \in Heads
    BY DEF LogTypeOK, Heads
  <2> QED  BY <1>2, <2>1, EntryType, InsertKeepsChain DEF Insert, LogTypeOK
<1> QED  BY <1>1, <1>2 DEF TableStep

\* The first statement of a call leaves the log alone and holds a stored base, or none.
LEMMA BeginType ==
    ASSUME IInv, NEW r \in Recorders, NEW n \in Nat, NEW a \in 0 .. MaxAttempts,
           Begin(r, n, a)
    PROVE  /\ RecorderTypeOK'
           /\ UNCHANGED logVars
           /\ \A q \in Recorders : rec'[q].base \in rows' \union {NoEntry}
<1> DEFINE cs == [i \in 1 .. n |-> <<r, calls[r] + i>>]
           c == [pc |-> "read", commands |-> cs, attempts |-> a, base |-> NoEntry]
<1>1. calls[r] \in 0 .. MaxCalls /\ calls[r] + n <= MaxCalls
  BY DEF IInv, TypeOK, RecorderTypeOK, Begin
<1>2. cs \in Seq(Commands)
  <2>1. \A i \in 1 .. n : calls[r] + i \in 1 .. MaxCalls
    BY <1>1, RecorderAssumption
  <2>2. \A i \in 1 .. n : <<r, calls[r] + i>> \in Commands
    BY <2>1 DEF Commands, RecorderCommands
  <2> QED  BY <2>2
<1>3. c \in Calls
  BY <1>2, RecorderAssumption DEF Calls, Heads
<1>4. rec' = [rec EXCEPT ![r] = c] /\ calls' = [calls EXCEPT ![r] = @ + n]
  BY DEF Begin
<1>5. c.attempts <= MaxAttempts
  BY RecorderAssumption
<1>6. calls[r] + n \in 0 .. MaxCalls
  BY <1>1, RecorderAssumption
<1>7. c.base = NoEntry
  OBVIOUS
<1>8. UNCHANGED logVars /\ rows' = rows
  BY DEF Begin, logVars, dbVars
<1> HIDE DEF c
<1>9. RecorderTypeOK'
  BY <1>3, <1>4, <1>5, <1>6 DEF IInv, TypeOK, RecorderTypeOK
<1>10. \A q \in Recorders : rec'[q].base \in rows' \union {NoEntry}
  BY <1>4, <1>7, <1>8 DEF IInv, TypeOK, RecorderTypeOK, BasesStored
<1> QED  BY <1>8, <1>9, <1>10

\* Each step of a recorder preserves the types, keeps the bases stored and does
\* to the table what TableStep allows.
LEMMA RecordStepTypes ==
    ASSUME IInv, NEW r \in Recorders, RecordStep(r), UNCHANGED writerVars
    PROVE  /\ TableStep
           /\ faults' \in 0 .. MaxFaults /\ AnswerStep
           /\ written' \subseteq Commands
           /\ reported' \subseteq Commands
           /\ RecorderTypeOK'
           /\ \A q \in Recorders : rec'[q].base \in rows' \union {NoEntry}
<1> USE DEF IInv, TypeOK, LogTypeOK, RecorderTypeOK
<1> DEFINE c == rec[r]
<1>0. /\ c \in Calls
      /\ c.commands \in Seq(Commands)
      /\ c.base \in rows \union {NoEntry}
      /\ CommandsOf(r) \subseteq Commands
  <2>1. c \in Calls
    OBVIOUS
  <2>2. c.commands \in Seq(Commands)
    BY <2>1 DEF Calls
  <2> QED  BY <2>1, <2>2 DEF BasesStored, CommandsOf
<1>a. Idle \in Calls /\ Idle.attempts <= MaxAttempts /\ Idle.base = NoEntry
  BY EmptySeq, RecorderAssumption DEF Idle, Calls, Heads
<1>b. ASSUME Resolve(r), UNCHANGED calls, rows \subseteq rows'
      PROVE  /\ RecorderTypeOK'
             /\ \A q \in Recorders : rec'[q].base \in rows' \union {NoEntry}
  BY <1>a, <1>b DEF Resolve, BasesStored
<1>c. \A es : Insert(es) => rows \subseteq rows'
  BY DEF Insert
<1>d. Insert(EntriesOf(r)) => TableStep
  BY <1>0 DEF TableStep, EntriesOf
<1>1. CASE Execute(r) \/ ExecuteBatch(r)
  <2>1. /\ RecorderTypeOK'
        /\ UNCHANGED logVars
        /\ \A q \in Recorders : rec'[q].base \in rows' \union {NoEntry}
    <3>1. MaxAttempts \in 0 .. MaxAttempts /\ 1 \in 0 .. MaxAttempts /\ 1 \in Nat /\ BatchLength \in Nat
      BY RecorderAssumption
    <3> QED  BY <1>1, <3>1, BeginType DEF Execute, ExecuteBatch
  <2> QED  BY <2>1 DEF logVars, dbVars, TableStep, AnswerStep
<1>2. CASE ReadHead(r)
  <2>1. PICK h \in Latest : rec' = [rec EXCEPT ![r].pc = "check", ![r].base = h]
    BY <1>2 DEF ReadHead
  <2>2. h \in rows \union {NoEntry}
    BY LatestStored
  <2>3. UNCHANGED <<logVars, calls>>
    BY <1>2 DEF ReadHead
  <2> QED  BY <1>0, <2>1, <2>2, <2>3 DEF Calls, Heads, TableStep, AnswerStep, BasesStored, logVars, dbVars
<1>3. CASE CheckHead(r)
  BY <1>0, <1>3 DEF CheckHead, Calls, TableStep, AnswerStep, BasesStored, logVars, dbVars
<1>4. CASE RetryRecord(r)
  <2>1. c.attempts \in Nat /\ c.attempts <= MaxAttempts /\ c.attempts > 1
    BY <1>0, <1>4 DEF RetryRecord, Calls
  <2>2. c.attempts - 1 \in Nat /\ c.attempts - 1 <= MaxAttempts
    BY <2>1, RecorderAssumption
  <2> QED  BY <1>0, <1>4, <2>2 DEF RetryRecord, Calls, TableStep, AnswerStep, BasesStored, logVars, dbVars
<1>5. CASE LoseRecord(r)
  BY <1>0, <1>5, <1>b DEF LoseRecord, Abandon, TableStep, AnswerStep, dbVars
<1>6. CASE InsertRecord(r)
  BY <1>0, <1>6, <1>b, <1>c, <1>d DEF InsertRecord, AnswerStep
<1>7. CASE RecordFails(r)
  <2>1. faults' \in 0 .. MaxFaults
    <3>1. faults \in Nat /\ faults < MaxFaults /\ faults' = faults + 1
      BY <1>7, FaultAssumption DEF RecordFails, Fault, LostAnswer
    <3> QED  BY <3>1, FaultAssumption
  <2>2. TableStep /\ rows \subseteq rows'
    BY <1>7, <1>c, <1>d DEF RecordFails, Fault, LostAnswer, TableStep
  <2>3. AnswerStep
    BY <1>7 DEF RecordFails, Fault, LostAnswer, Insert, AnswerStep, Logged
  <2> QED  BY <1>0, <1>7, <1>b, <2>1, <2>2, <2>3 DEF RecordFails, Abandon
<1> QED  BY <1>1, <1>2, <1>3, <1>4, <1>5, <1>6, <1>7 DEF RecordStep

-----------------------------------------------------------------------------
LEMMA SpliceType ==
    ASSUME NEW q \in Seq(Commands), NEW n \in Nat
    PROVE  Splice(q, n) \in Seq(Commands) /\ Len(Splice(q, n)) <= Len(q)
  BY DEF Splice

\* flush() keeps the flush well typed, within its attempts and on a stored base.
FlushOK(f) ==
    /\ f \in Flushes
    /\ f.attempt < MaxFlushAttempts
    /\ f.base \in rows \union {NoEntry}

\* A flush that begins is a flush.
LEMMA FlushedOK ==
    ASSUME NEW f, FlushOK(f), NEW q \in Seq(Commands)
    PROVE  FlushOK(Flushed(f, q))
<1>1. Front(q, MaxBatchSize) \in Seq(Commands)
  BY WriterAssumption DEF Front
<1>2. CASE f.pc # "idle" \/ q = << >>
  BY <1>2 DEF Flushed
<1>3. CASE ~(f.pc # "idle" \/ q = << >>)
  <2> DEFINE g == [pc |-> "read",
                   batch |-> Front(q, MaxBatchSize), attempt |-> 0, base |-> NoEntry]
  <2>1. Flushed(f, q) = g
    BY <1>3 DEF Flushed, NoFlush
  <2>2. g \in Flushes
    BY <1>1 DEF Flushes, Heads
  <2> QED  BY <2>1, <2>2, WriterAssumption DEF FlushOK
<1> QED  BY <1>2, <1>3

\* Replacing one writer's flush by a good one keeps all of them good.
LEMMA FlushUpdate ==
    ASSUME IInv, NEW w \in Writers, NEW f, FlushOK(f), rows \subseteq rows',
           flush' = [flush EXCEPT ![w] = f]
    PROVE  /\ flush' \in [Writers -> Flushes]
           /\ \A x \in Writers : flush'[x].attempt < MaxFlushAttempts
           /\ \A x \in Writers : flush'[x].base \in rows' \union {NoEntry}
  BY DEF IInv, TypeOK, WriterTypeOK, BasesStored, FlushOK

\* No flush is in flight: nothing to check but the attempts.
LEMMA NoFlushOK == FlushOK(NoFlush)
  BY EmptySeq, WriterAssumption DEF FlushOK, Flushes, NoFlush, Heads

\* settle() keeps its own state well typed, in its loop and after each flush.
LEMMA SettleType ==
    ASSUME NEW f, NEW q \in Seq(Commands), NEW a \in Nat
    PROVE  SettleLoop(f, q, a) \in Settlings
<1>1. Len(q) \in Nat
  OBVIOUS
<1> QED  BY <1>1 DEF SettleLoop, Settled, Settlings

LEMMA AfterFlushType ==
    ASSUME NEW s \in Settlings, NEW q \in Seq(Commands)
    PROVE  AfterFlush(s, q) \in Settlings
<1>1. s.accepted \in Nat
  BY DEF Settlings
<1>2. SettleAgain(s, q) \in Settlings
  <2>1. SettleLoop(NoFlush, q, s.accepted) \in Settlings
    BY <1>1, SettleType
  <2>2. Settled(NoFlush, s.accepted) \in Settlings
    BY <1>1 DEF Settled, Settlings
  <2> QED  BY <2>1, <2>2 DEF SettleAgain
<1>3. [s EXCEPT !.pc = "stopped"] \in Settlings
  BY DEF Settlings
<1> QED  BY <1>2, <1>3 DEF AfterFlush

\* Each step of a writer, likewise.
LEMMA WriterStepTypes ==
    ASSUME IInv, NEW w \in Writers, WriterStep(w)
    PROVE  /\ TableStep
           /\ faults' \in 0 .. MaxFaults /\ AnswerStep
           /\ written' \subseteq Commands
           /\ reported' \subseteq Commands
           /\ WriterTypeOK'
           /\ \A x \in Writers : flush'[x].base \in rows' \union {NoEntry}
<1> USE DEF IInv, TypeOK, LogTypeOK, WriterTypeOK
<1> DEFINE f == flush[w]
<1>0. /\ FlushOK(f)
      /\ f.batch \in Seq(Commands)
      /\ BatchOf(w) \subseteq Commands
      /\ queue[w] \in Seq(Commands)
      /\ Len(queue[w]) \in Nat
      /\ enqueued[w] \in 0 .. MaxAccepted
  <2>1. f \in Flushes
    OBVIOUS
  <2>2. f.batch \in Seq(Commands)
    BY <2>1 DEF Flushes
  <2> QED  BY <2>1, <2>2 DEF FlushOK, BasesStored, BatchOf
<1>a. \A es : Insert(es) => rows \subseteq rows'
  BY DEF Insert
<1>b. Insert(BatchRows(w)) => TableStep
  BY <1>0 DEF TableStep, BatchRows, FlushOK
<1>c. ASSUME EndFlush(w), rows \subseteq rows'
      PROVE  /\ queue' \in [Writers -> Seq(Commands)]
             /\ \A x \in Writers : Len(queue'[x]) <= MaxQueueSize
             /\ settling' \in [Writers -> Settlings]
             /\ flush' \in [Writers -> Flushes]
             /\ \A x \in Writers : flush'[x].attempt < MaxFlushAttempts
             /\ \A x \in Writers : flush'[x].base \in rows' \union {NoEntry}
  <2>1. Splice(queue[w], Len(f.batch)) \in Seq(Commands)
    BY <1>0, SpliceType
  <2>2. Len(Splice(queue[w], Len(f.batch))) <= MaxQueueSize
    <3>1. Len(Splice(queue[w], Len(f.batch))) <= Len(queue[w])
      BY <1>0, SpliceType
    <3> QED  BY <1>0, <2>1, <3>1, WriterAssumption
  <2> DEFINE q == Splice(queue[w], Len(f.batch))
             t == AfterFlush(settling[w], q)
             g == IF t.pc = "pass" THEN Flushed(NoFlush, q) ELSE NoFlush
  <2>3. FlushOK(g)
    <3>1. FlushOK(Flushed(NoFlush, q))
      BY <2>1, NoFlushOK, FlushedOK
    <3> QED  BY <3>1, NoFlushOK
  <2>4. t \in Settlings
    BY <2>1, AfterFlushType
  <2>5. /\ queue' = [queue EXCEPT ![w] = q]
        /\ settling' = [settling EXCEPT ![w] = t]
        /\ flush' = [flush EXCEPT ![w] = g]
    BY <1>c DEF EndFlush
  <2> HIDE DEF t, g
  <2>6. /\ queue' \in [Writers -> Seq(Commands)]
        /\ \A x \in Writers : Len(queue'[x]) <= MaxQueueSize
        /\ settling' \in [Writers -> Settlings]
    BY <2>1, <2>2, <2>4, <2>5
  <2> QED  BY <1>c, <2>3, <2>5, <2>6, FlushUpdate
<1>d. ASSUME AttemptFails(w)
      PROVE  TableStep /\ rows \subseteq rows' /\ faults' \in 0 .. MaxFaults /\ AnswerStep
  <2>1. TableStep /\ rows \subseteq rows'
    BY <1>a, <1>b, <1>d DEF AttemptFails, Fault, LostAnswer, TableStep, dbVars
  <2>2. faults' = faults \/ (faults < MaxFaults /\ faults' = faults + 1)
    BY <1>d DEF AttemptFails, Fault, LostAnswer, dbVars
  <2>3. AnswerStep
    BY <1>d DEF AttemptFails, Fault, LostAnswer, Insert, AnswerStep, Logged, dbVars
  <2> QED  BY <2>1, <2>2, <2>3, FaultAssumption
<1>1. CASE Start(w)
  BY <1>1 DEF Start, logVars, dbVars, TableStep, AnswerStep, BasesStored
<1>2. CASE Tick(w)
  <2>1. FlushOK(Flushed(f, queue[w])) /\ rows' = rows
    BY <1>0, <1>2, FlushedOK DEF Tick, logVars, dbVars
  <2> DEFINE g == Flushed(f, queue[w])
  <2>2. flush' = [flush EXCEPT ![w] = g]
    BY <1>2 DEF Tick
  <2> HIDE DEF g
  <2> QED  BY <1>2, <2>1, <2>2, FlushUpdate DEF Tick, logVars, dbVars, TableStep, AnswerStep, g
<1>3. CASE Record(w)
  <2> DEFINE x == <<w, enqueued[w] + 1>>
             q == Append(queue[w], x)
             g == IF Len(q) >= MaxBatchSize THEN Flushed(f, q) ELSE f
  <2>1. x \in Commands
    BY <1>0, <1>3, WriterAssumption DEF Record, Commands, WriterCommands
  <2>2. q \in Seq(Commands) /\ Len(q) = Len(queue[w]) + 1
    BY <1>0, <2>1
  <2>3. Len(q) <= MaxQueueSize
    BY <1>0, <1>3, <2>2, WriterAssumption DEF Record, HasRoom
  <2>4. FlushOK(g)
    BY <1>0, <2>2, FlushedOK
  <2>5. /\ queue' = [queue EXCEPT ![w] = q]
        /\ flush' = [flush EXCEPT ![w] = g]
        /\ enqueued' = [enqueued EXCEPT ![w] = enqueued[w] + 1]
        /\ UNCHANGED <<logVars, overflowed, timer, settling>>
    BY <1>3 DEF Record
  <2>6. enqueued[w] + 1 \in 0 .. MaxAccepted
    BY <1>0, <1>3, WriterAssumption DEF Record
  <2> HIDE DEF q, g
  <2>7. /\ queue' \in [Writers -> Seq(Commands)]
        /\ \A y \in Writers : Len(queue'[y]) <= MaxQueueSize
    BY <2>2, <2>3, <2>5
  <2>8. enqueued' \in [Writers -> 0 .. MaxAccepted]
    BY <2>5, <2>6
  <2>9. rows' = rows
    BY <2>5 DEF logVars, dbVars
  <2> QED  BY <2>4, <2>5, <2>7, <2>8, <2>9, FlushUpdate DEF logVars, dbVars, TableStep, AnswerStep
<1>4. CASE Refuse(w)
  BY <1>4 DEF Refuse, logVars, dbVars, TableStep, AnswerStep, BasesStored
<1>5. CASE DrainRead(w)
  <2>1. PICK h \in Latest : flush' = [flush EXCEPT ![w].pc = "check", ![w].base = h]
    BY <1>5 DEF DrainRead
  <2>2. FlushOK([f EXCEPT !.pc = "check", !.base = h])
    BY <1>0, <2>1, LatestStored DEF FlushOK, Flushes, Heads
  <2>3. flush' = [flush EXCEPT ![w] = [f EXCEPT !.pc = "check", !.base = h]]
    BY <2>1
  <2> QED  BY <1>5, <2>2, <2>3, FlushUpdate DEF DrainRead, logVars, dbVars, TableStep, AnswerStep
<1>6. CASE DrainCheck(w)
  <2>1. FlushOK([f EXCEPT !.pc = "insert"])
    BY <1>0 DEF FlushOK, Flushes
  <2>2. flush' = [flush EXCEPT ![w] = [f EXCEPT !.pc = "insert"]]
    BY <1>6 DEF DrainCheck
  <2> QED  BY <1>6, <2>1, <2>2, FlushUpdate DEF DrainCheck, logVars, dbVars, TableStep, AnswerStep
<1>7. CASE DrainInsert(w)
  BY <1>0, <1>7, <1>a, <1>b, <1>c DEF DrainInsert, AnswerStep
<1>8. CASE RetryDrain(w)
  <2>1. FlushOK([f EXCEPT !.pc = "read", !.attempt = f.attempt + 1])
    <3>1. f.attempt \in Nat /\ f.attempt + 1 < MaxFlushAttempts
      BY <1>0, <1>8 DEF FlushOK, Flushes, RetryDrain
    <3>2. ASSUME NEW n \in Nat, n < MaxFlushAttempts
          PROVE  FlushOK([f EXCEPT !.pc = "read", !.attempt = n])
      BY <1>0, <3>2 DEF FlushOK, Flushes
    <3>3. f.attempt + 1 \in Nat
      BY <3>1
    <3> QED  BY <3>1, <3>2, <3>3
  <2>2. flush' = [flush EXCEPT ![w] = [f EXCEPT !.pc = "read", !.attempt = f.attempt + 1]]
    BY <1>8 DEF RetryDrain
  <2>3. TableStep /\ rows \subseteq rows' /\ faults' \in 0 .. MaxFaults /\ AnswerStep
    BY <1>8, <1>d DEF RetryDrain
  <2> QED  BY <1>8, <2>1, <2>2, <2>3, FlushUpdate DEF RetryDrain
<1>9. CASE DropBatch(w)
  BY <1>0, <1>9, <1>c, <1>d DEF DropBatch
<1>10. CASE Stop(w)
  <2> DEFINE g == Flushed(f, queue[w])
             t == SettleLoop(f, queue[w], enqueued[w])
  <2>1. FlushOK(g)
    BY <1>0, FlushedOK
  <2>2. enqueued[w] \in Nat
    BY <1>0, WriterAssumption
  <2>3. t \in Settlings
    BY <1>0, <2>2, SettleType
  <2>4. /\ flush' = [flush EXCEPT ![w] = g]
        /\ settling' = [settling EXCEPT ![w] = t]
        /\ timer' = [timer EXCEPT ![w] = FALSE]
        /\ UNCHANGED <<logVars, queue, enqueued, overflowed>>
    BY <1>10 DEF Stop
  <2> HIDE DEF g, t
  <2>5. rows' = rows
    BY <2>4 DEF logVars, dbVars
  <2> QED  BY <2>1, <2>3, <2>4, <2>5, FlushUpdate DEF logVars, dbVars, TableStep, AnswerStep
<1> QED  BY <1>1, <1>2, <1>3, <1>4, <1>5, <1>6, <1>7, <1>8, <1>9, <1>10 DEF WriterStep

-----------------------------------------------------------------------------
LEMMA InitIInv == Init => IInv
<1> SUFFICES ASSUME Init PROVE IInv
  OBVIOUS
<1> USE DEF Init, LogInit, RecordInit, WriterInit
<1>1. LogTypeOK
  BY FaultAssumption DEF LogTypeOK
<1>2. Idle \in Calls /\ NoFlush \in Flushes /\ Running \in Settlings
  BY EmptySeq DEF Idle, Calls, NoFlush, Flushes, Running, Settlings, Heads
<1>3. RecorderTypeOK
  BY <1>2, RecorderAssumption DEF RecorderTypeOK, Idle
<1>4. WriterTypeOK
  BY <1>2, EmptySeq, WriterAssumption DEF WriterTypeOK, NoFlush
<1>5. BasesStored
  BY DEF BasesStored, Idle, NoFlush
<1>6. ChainIntact /\ NoFork
  BY DEF ChainIntact, NoFork
<1> QED  BY <1>1, <1>3, <1>4, <1>5, <1>6 DEF IInv, TypeOK

\* Every step keeps the invariant.
LEMMA NextIInv == IInv /\ [Next]_vars => IInv'
<1> SUFFICES ASSUME IInv, [Next]_vars PROVE IInv'
  OBVIOUS
<1>0. LogTypeOK /\ RecorderTypeOK /\ WriterTypeOK /\ BasesStored /\ ChainIntact /\ NoFork
  BY DEF IInv, TypeOK
<1>1. ASSUME NEW r \in Recorders, RecordStep(r), UNCHANGED writerVars
      PROVE  IInv'
  <2>1. /\ TableStep
        /\ faults' \in 0 .. MaxFaults /\ AnswerStep
        /\ written' \subseteq Commands /\ reported' \subseteq Commands
        /\ RecorderTypeOK'
        /\ \A q \in Recorders : rec'[q].base \in rows' \union {NoEntry}
    BY <1>1, RecordStepTypes
  <2>2. rows \subseteq rows' /\ rows' \subseteq Entries /\ ChainIntact' /\ NoFork'
    BY <1>0, <2>1, TableStepKeepsChain
  <2>3. WriterTypeOK'
    BY <1>0, <1>1 DEF WriterTypeOK, writerVars
  <2>4. \A w \in Writers : flush'[w].base \in rows' \union {NoEntry}
    BY <1>0, <1>1, <2>2 DEF BasesStored, writerVars
  <2>5. unanswered' \subseteq Commands
    BY <1>0, <2>1, <2>2 DEF AnswerStep, Logged, LogTypeOK, Entries
  <2> QED  BY <2>1, <2>2, <2>3, <2>4, <2>5 DEF IInv, TypeOK, LogTypeOK, BasesStored
<1>2. ASSUME NEW w \in Writers, WriterStep(w), UNCHANGED recVars
      PROVE  IInv'
  <2>1. /\ TableStep
        /\ faults' \in 0 .. MaxFaults /\ AnswerStep
        /\ written' \subseteq Commands /\ reported' \subseteq Commands
        /\ WriterTypeOK'
        /\ \A x \in Writers : flush'[x].base \in rows' \union {NoEntry}
    BY <1>2, WriterStepTypes
  <2>2. rows \subseteq rows' /\ rows' \subseteq Entries /\ ChainIntact' /\ NoFork'
    BY <1>0, <2>1, TableStepKeepsChain
  <2>3. RecorderTypeOK'
    BY <1>0, <1>2 DEF RecorderTypeOK, recVars
  <2>4. \A r \in Recorders : rec'[r].base \in rows' \union {NoEntry}
    BY <1>0, <1>2, <2>2 DEF BasesStored, recVars
  <2>5. unanswered' \subseteq Commands
    BY <1>0, <2>1, <2>2 DEF AnswerStep, Logged, LogTypeOK, Entries
  <2> QED  BY <2>1, <2>2, <2>3, <2>4, <2>5 DEF IInv, TypeOK, LogTypeOK, BasesStored
<1>3. CASE UNCHANGED vars
  BY <1>0, <1>3 DEF vars, logVars, dbVars, recVars, writerVars, IInv, TypeOK, LogTypeOK,
     RecorderTypeOK, WriterTypeOK, BasesStored, ChainIntact, NoFork
<1> QED  BY <1>1, <1>2, <1>3 DEF Next

\* The invariant holds in every reachable state.
LEMMA SpecIInv == Spec => []IInv
<1> QED  BY InitIInv, NextIInv, PTL DEF Spec

\* The types hold, a queue never passes its ceiling and no loop its attempts.
THEOREM TypeCorrect == Spec => []TypeOK
<1>1. IInv => TypeOK
  BY DEF IInv
<1> QED  BY <1>1, SpecIInv, PTL

\* For every number of recorders, writers and faults, and also when commits go
\* unacknowledged: every stored entry has a valid hash and follows a stored
\* predecessor or genesis.
THEOREM ChainStaysIntact == Spec => []ChainIntact
<1>1. IInv => ChainIntact
  BY DEF IInv
<1> QED  BY <1>1, SpecIInv, PTL

\* The unique index decides every race: no two entries ever share a sequence.
THEOREM LogNeverForks == Spec => []NoFork
<1>1. IInv => NoFork
  BY DEF IInv
<1> QED  BY <1>1, SpecIInv, PTL

-----------------------------------------------------------------------------
(* What becomes of an accepted command. *)

\* Sequence numbers have no gaps.
Contiguous ==
    \A e \in rows : \A n \in 1 .. e.sequence : \E f \in rows : f.sequence = n

\* Commands of r beyond this number are in the call it is in, or to come.
Before(r) == calls[r] - Len(rec[r].commands)

\* A call holds the last commands of its recorder, of which nothing is known yet.
CallAccounted(r) ==
    /\ Len(rec[r].commands) <= calls[r]
    /\ rec[r].pc = "idle" => Len(rec[r].commands) = 0
    /\ \A i \in 1 .. Len(rec[r].commands) : rec[r].commands[i] = <<r, Before(r) + i>>
    /\ \A n \in Nat : n > Before(r) => <<r, n>> \notin Logged \union reported

Flushing(w) == flush[w].pc \in {"read", "check", "insert"}

\* Commands of w up to this number have left its queue.
Gone(w) == enqueued[w] - Len(queue[w])

\* A queue holds the last commands its writer accepted, and a flush the first of them.
QueueNumbered(w) ==
    /\ Len(queue[w]) <= enqueued[w]
    /\ \A i \in 1 .. Len(queue[w]) : queue[w][i] = <<w, Gone(w) + i>>
    /\ Flushing(w) =>
         /\ Len(flush[w].batch) <= Len(queue[w])
         /\ \A i \in 1 .. Len(flush[w].batch) : flush[w].batch[i] = <<w, Gone(w) + i>>

\* What has left the queue is stored or reported; what has not was not reported, and is stored
\* only with all of its batch, by a commit whose answer was lost.
QueueAccounted(w) ==
    /\ \A n \in 1 .. Gone(w) : <<w, n>> \in Logged \union reported
    /\ \A n \in Nat : n > Gone(w) =>
         /\ <<w, n>> \notin reported
         /\ <<w, n>> \in Logged =>
              /\ Flushing(w) /\ n <= Gone(w) + Len(flush[w].batch)
              /\ BatchOf(w) \subseteq unanswered

Accounted ==
    /\ Contiguous
    /\ \A r \in Recorders : CallAccounted(r)
    /\ \A w \in Writers : QueueNumbered(w) /\ QueueAccounted(w)
    /\ AnswersAreTrue /\ NoDuplicates /\ QueueOrderKept

-----------------------------------------------------------------------------
Members(cs) == {cs[i] : i \in 1 .. Len(cs)}

\* A run of commands of x, numbered from lo on.
Numbered(cs, x, lo) ==
    /\ cs \in Seq(Commands)
    /\ lo \in Nat
    /\ \A i \in 1 .. Len(cs) : cs[i] = <<x, lo + i>>

\* The entries buildChain makes hold the commands it was given.
LEMMA ContentsOfBatch ==
    ASSUME NEW p, NEW cs PROVE {e.content : e \in BuildChain(p, cs)} = Members(cs)
<1>1. \A e \in BuildChain(p, cs) : e.content \in Members(cs)
  BY DEF BuildChain, AppendAt, Members
<1>2. \A c \in Members(cs) : \E e \in BuildChain(p, cs) : e.content = c
  <2> SUFFICES ASSUME NEW i \in 1 .. Len(cs)
               PROVE  \E e \in BuildChain(p, cs) : e.content = cs[i]
    BY DEF Members
  <2>1. AppendAt(p, cs, i) \in BuildChain(p, cs) /\ AppendAt(p, cs, i).content = cs[i]
    BY DEF BuildChain, AppendAt
  <2> QED  BY <2>1
<1> QED  BY <1>1, <1>2

\* An accepted insert adds exactly its batch's commands to those logged.
LEMMA InsertGrows ==
    ASSUME NEW p, NEW cs, Insert(BuildChain(p, cs))
    PROVE  Logged' = Logged \union Members(cs)
<1>1. rows' = rows \union BuildChain(p, cs)
  BY DEF Insert
<1> QED  BY <1>1, ContentsOfBatch DEF Logged

\* An insert that meets no row extends the log at its end.
LEMMA InsertBehind ==
    ASSUME IInv, Contiguous, NEW p \in rows \union {NoEntry}, NEW cs \in Seq(Commands),
           Insert(BuildChain(p, cs))
    PROVE  /\ Contiguous'
           /\ \A i \in 1 .. Len(cs) : AppendAt(p, cs, i).sequence = p.sequence + i
           /\ \A i \in 1 .. Len(cs) : \A f \in rows : f.sequence < AppendAt(p, cs, i).sequence
<1>1. p.sequence \in Nat /\ (p = NoEntry => p.sequence = 0) /\ \A e \in rows : e.sequence \in Nat
  BY DEF IInv, TypeOK, LogTypeOK, Entries, NoEntry
<1>2. \A i : AppendAt(p, cs, i).sequence = p.sequence + i
  BY DEF AppendAt
<1>3. rows' = rows \union BuildChain(p, cs)
  BY DEF Insert
<1>4. Contiguous'
  <2> SUFFICES ASSUME NEW e \in rows', NEW n \in 1 .. e.sequence
               PROVE  \E f \in rows' : f.sequence = n
    BY DEF Contiguous
  <2>1. CASE e \in rows
    BY <1>3, <2>1 DEF Contiguous
  <2>2. CASE e \in BuildChain(p, cs)
    <3>1. PICK i \in 1 .. Len(cs) : e = AppendAt(p, cs, i)
      BY <2>2 DEF BuildChain
    <3>2. CASE n <= p.sequence
      <4>1. p \in rows /\ n \in 1 .. p.sequence
        BY <1>1, <3>2
      <4> QED  BY <1>3, <4>1 DEF Contiguous
    <3>3. CASE n > p.sequence
      <4> DEFINE k == n - p.sequence
      <4>1. k \in 1 .. Len(cs) /\ p.sequence + k = n
        BY <1>1, <1>2, <3>1, <3>3
      <4>2. AppendAt(p, cs, k) \in rows' /\ AppendAt(p, cs, k).sequence = n
        BY <1>2, <1>3, <4>1 DEF BuildChain
      <4> QED  BY <4>2
    <3> QED  BY <1>1, <3>2, <3>3
  <2> QED  BY <1>3, <2>1, <2>2
<1>5. ASSUME NEW i \in 1 .. Len(cs), NEW f \in rows PROVE f.sequence < p.sequence + i
  <2> SUFFICES ASSUME f.sequence >= p.sequence + i PROVE FALSE
    BY <1>1
  <2>1. p.sequence + 1 \in 1 .. f.sequence
    BY <1>1
  <2>2. PICK g \in rows : g.sequence = p.sequence + 1
    BY <2>1 DEF Contiguous
  <2>3. 1 \in 1 .. Len(cs)
    OBVIOUS
  <2>4. AppendAt(p, cs, 1) \in BuildChain(p, cs) /\ AppendAt(p, cs, 1).sequence = g.sequence
    BY <1>2, <2>2, <2>3 DEF BuildChain
  <2> QED  BY <2>4 DEF Insert, UniqueViolation
<1> QED  BY <1>2, <1>4, <1>5

\* What a process may know of the commands it still has: none is reported, and if one is stored,
\* then by a commit of the whole run whose answer was lost.
Ahead(cs, x, lo) ==
    \A n \in Nat : n > lo =>
      /\ <<x, n>> \notin reported
      /\ <<x, n>> \in Logged => n <= lo + Len(cs) /\ Members(cs) \subseteq unanswered

\* A run of commands nothing is known of yet, stored behind every row, repeats none and stands in
\* the order of its numbers.
LEMMA InsertKeepsOrder ==
    ASSUME IInv, Contiguous, NoDuplicates, QueueOrderKept,
           NEW p \in rows \union {NoEntry}, NEW cs, NEW x, NEW lo, Numbered(cs, x, lo),
           Ahead(cs, x, lo), Insert(BuildChain(p, cs)), unanswered \subseteq unanswered'
    PROVE  NoDuplicates' /\ QueueOrderKept'
<1>0. cs \in Seq(Commands) /\ lo \in Nat
  BY DEF Numbered
<1>1. p.sequence \in Nat /\ \A e \in rows : e.sequence \in Nat
  BY DEF IInv, TypeOK, LogTypeOK, Entries, NoEntry
<1>2. /\ rows' = rows \union BuildChain(p, cs)
      /\ \A i \in 1 .. Len(cs) : /\ AppendAt(p, cs, i).sequence = p.sequence + i
                                 /\ AppendAt(p, cs, i).content = <<x, lo + i>>
                                 /\ AppendAt(p, cs, i).content \in Members(cs)
                                 /\ \A f \in rows : f.sequence < p.sequence + i
  BY <1>0, InsertBehind DEF Insert, AppendAt, Numbered, Members
<1>3. ASSUME NEW i \in 1 .. Len(cs), NEW f \in rows, NEW n \in Nat, n > lo, f.content = <<x, n>>
      PROVE  /\ n <= lo + Len(cs)
             /\ f.content \in unanswered' /\ AppendAt(p, cs, i).content \in unanswered'
  <2>1. <<x, n>> \in Logged
    BY <1>3 DEF Logged
  <2>2. n <= lo + Len(cs) /\ Members(cs) \subseteq unanswered
    BY <1>3, <2>1 DEF Ahead
  <2>3. n - lo \in 1 .. Len(cs) /\ lo + (n - lo) = n
    BY <1>0, <1>3, <2>2
  <2>4. <<x, n>> \in Members(cs)
    BY <2>3 DEF Members, Numbered
  <2> QED  BY <1>2, <1>3, <2>2, <2>4
<1>4. NoDuplicates'
  <2> SUFFICES ASSUME NEW e \in rows', NEW f \in rows', e.content = f.content,
                      e.content \notin unanswered'
               PROVE  e = f
    BY DEF NoDuplicates
  <2>1. CASE e \in rows /\ f \in rows
    BY <2>1 DEF NoDuplicates
  <2>2. ASSUME NEW i \in 1 .. Len(cs), NEW g \in rows, g.content = AppendAt(p, cs, i).content
        PROVE  g.content \in unanswered'
    <3>1. lo + i \in Nat /\ lo + i > lo /\ g.content = <<x, lo + i>>
      BY <1>0, <1>2, <2>2
    <3> QED  BY <1>3, <3>1
  <2>3. ASSUME NEW i \in 1 .. Len(cs), NEW j \in 1 .. Len(cs),
               AppendAt(p, cs, i).content = AppendAt(p, cs, j).content
        PROVE  i = j
    BY <1>0, <1>2, <2>3
  <2> QED  BY <1>2, <2>1, <2>2, <2>3 DEF BuildChain
<1>5. QueueOrderKept'
  <2> SUFFICES ASSUME NEW w \in Writers, NEW e \in rows', NEW f \in rows',
                      e.content[1] = w, f.content[1] = w, e.content[2] < f.content[2],
                      ~({e.content, f.content} \subseteq unanswered')
               PROVE  e.sequence < f.sequence
    BY DEF QueueOrderKept
  <2>1. CASE e \in rows /\ f \in rows
    BY <2>1 DEF QueueOrderKept
  <2>2. CASE f \in BuildChain(p, cs) /\ e \in rows
    BY <1>2, <2>2 DEF BuildChain
  <2>3. CASE f \in BuildChain(p, cs) /\ e \in BuildChain(p, cs)
    <3>1. PICK i \in 1 .. Len(cs) : e = AppendAt(p, cs, i)
      BY <2>3 DEF BuildChain
    <3>2. PICK j \in 1 .. Len(cs) : f = AppendAt(p, cs, j)
      BY <2>3 DEF BuildChain
    <3>3. i < j
      BY <1>0, <1>2, <3>1, <3>2
    <3> QED  BY <1>0, <1>1, <1>2, <3>1, <3>2, <3>3
  <2>4. CASE f \in rows /\ e \in BuildChain(p, cs)
    <3>1. PICK i \in 1 .. Len(cs) : e = AppendAt(p, cs, i)
      BY <2>4 DEF BuildChain
    <3>2. PICK n \in Nat : f.content = <<x, n>>
      <4>1. f.content \in Commands /\ x = w
        BY <1>2, <2>4, <3>1 DEF IInv, TypeOK, LogTypeOK, Entries
      <4> QED  BY <4>1 DEF Commands, RecorderCommands, WriterCommands
    <3>3. n > lo
      BY <1>0, <1>2, <3>1, <3>2
    <3>4. f.content \in unanswered' /\ e.content \in unanswered'
      BY <1>3, <2>4, <3>1, <3>2, <3>3
    <3> QED  BY <3>4
  <2> QED  BY <1>2, <2>1, <2>2, <2>3, <2>4
<1> QED  BY <1>4, <1>5

\* What a step that is about the commands cs does to the log and to what callers were told.
LogEffect(cs) ==
    \/ UNCHANGED <<rows, unanswered, written, reported>>
    \/ reported' = reported \union Members(cs) /\ UNCHANGED <<rows, unanswered, written>>
    \/ /\ \E p \in rows \union {NoEntry} : Insert(BuildChain(p, cs))
       /\ \/ written' = written \union Members(cs) /\ UNCHANGED <<unanswered, reported>>
          \/ /\ unanswered' = unanswered \union Members(cs) /\ UNCHANGED written
             /\ reported' \in {reported, reported \union Members(cs)}

Answered == Contiguous /\ AnswersAreTrue /\ NoDuplicates /\ QueueOrderKept

\* What a recorder or writer may do with its run keeps the answers true and the log in order.
LEMMA EffectKeepsAnswers ==
    ASSUME IInv, Answered, NEW cs, NEW x, NEW lo, Numbered(cs, x, lo), Ahead(cs, x, lo),
           LogEffect(cs)
    PROVE  /\ Answered'
           /\ Logged \subseteq Logged' /\ Logged' \subseteq Logged \union Members(cs)
           /\ reported \subseteq reported' /\ reported' \subseteq reported \union Members(cs)
           /\ unanswered \subseteq unanswered'
<1> USE DEF Answered
<1>0. /\ Members(cs) \intersect reported = {}
      /\ Members(cs) \intersect Logged \subseteq unanswered
  <2> SUFFICES ASSUME NEW i \in 1 .. Len(cs)
               PROVE  cs[i] \notin reported /\ (cs[i] \in Logged => cs[i] \in unanswered)
    BY DEF Members
  <2>1. cs[i] = <<x, lo + i>> /\ lo + i \in Nat /\ lo + i > lo /\ cs[i] \in Members(cs)
    BY DEF Numbered, Members
  <2> QED  BY <2>1 DEF Ahead
<1>1. CASE rows' = rows /\ UNCHANGED <<unanswered, written>> /\ reported' \in {reported, reported \union Members(cs)}
  <2>1. Logged' = Logged
    BY <1>1 DEF Logged
  <2> QED  BY <1>0, <1>1, <2>1 DEF Contiguous, AnswersAreTrue, NoDuplicates, QueueOrderKept
<1>2. CASE ~(rows' = rows /\ UNCHANGED <<unanswered, written>> /\ reported' \in {reported, reported \union Members(cs)})
  <2>1. PICK p \in rows \union {NoEntry} : Insert(BuildChain(p, cs))
    BY <1>2 DEF LogEffect
  <2>2. \/ written' = written \union Members(cs) /\ UNCHANGED <<unanswered, reported>>
        \/ /\ unanswered' = unanswered \union Members(cs) /\ UNCHANGED written
           /\ reported' \in {reported, reported \union Members(cs)}
    BY <1>2 DEF LogEffect
  <2>3. Logged' = Logged \union Members(cs)
    BY <2>1, InsertGrows
  <2>4. unanswered \subseteq unanswered'
    BY <2>2
  <2>5. Contiguous' /\ NoDuplicates' /\ QueueOrderKept'
    BY <2>1, <2>4, InsertBehind, InsertKeepsOrder DEF Numbered
  <2>6. AnswersAreTrue'
    BY <1>0, <2>2, <2>3 DEF AnswersAreTrue
  <2> QED  BY <2>2, <2>3, <2>4, <2>5, <2>6
<1> QED  BY <1>1, <1>2 DEF LogEffect

\* The commands of the other processes are not concerned.
LEMMA OthersStayAccounted ==
    ASSUME IInv, Accounted, NEW cs, NEW x, NEW lo, Numbered(cs, x, lo),
           Logged \subseteq Logged', Logged' \subseteq Logged \union Members(cs),
           reported \subseteq reported', reported' \subseteq reported \union Members(cs),
           unanswered \subseteq unanswered'
    PROVE  /\ \A r \in Recorders : r # x /\ rec'[r] = rec[r] /\ calls'[r] = calls[r] => CallAccounted(r)'
           /\ \A w \in Writers : w # x /\ queue'[w] = queue[w] /\ enqueued'[w] = enqueued[w]
                                   /\ flush'[w] = flush[w]
                                 => QueueNumbered(w)' /\ QueueAccounted(w)'
<1>1. \A y, n : y # x => <<y, n>> \notin Members(cs)
  BY DEF Members, Numbered
<1>2. ASSUME NEW r \in Recorders, r # x, rec'[r] = rec[r], calls'[r] = calls[r]
      PROVE  CallAccounted(r)'
  <2>1. CallAccounted(r)
    BY DEF Accounted
  <2> QED  BY <1>1, <1>2, <2>1 DEF CallAccounted, Before
<1>3. ASSUME NEW w \in Writers, w # x, queue'[w] = queue[w], enqueued'[w] = enqueued[w],
             flush'[w] = flush[w]
      PROVE  QueueNumbered(w)' /\ QueueAccounted(w)'
  <2>1. QueueNumbered(w) /\ QueueAccounted(w)
    BY DEF Accounted
  <2>2. QueueNumbered(w)'
    BY <1>3, <2>1 DEF QueueNumbered, Gone, Flushing
  <2>3. QueueAccounted(w)'
    BY <1>1, <1>3, <2>1 DEF QueueAccounted, Gone, Flushing, BatchOf
  <2> QED  BY <2>2, <2>3
<1> QED  BY <1>2, <1>3

\* What a call knows of its own commands.
LEMMA CallIsAhead ==
    ASSUME IInv, Accounted, NEW r \in Recorders
    PROVE  /\ Numbered(rec[r].commands, r, Before(r)) /\ Ahead(rec[r].commands, r, Before(r))
           /\ Members(rec[r].commands) = CommandsOf(r)
           /\ rec[r].base \in rows \union {NoEntry}
           /\ calls[r] \in Nat /\ Len(rec[r].commands) \in Nat
<1>1. CallAccounted(r)
  BY DEF Accounted
<1>2. rec[r] \in Calls /\ calls[r] \in Nat
  BY DEF IInv, TypeOK, RecorderTypeOK
<1>3. rec[r].commands \in Seq(Commands)
  BY <1>2 DEF Calls
<1>4. Len(rec[r].commands) \in Nat /\ Before(r) \in Nat
  BY <1>1, <1>2, <1>3 DEF CallAccounted, Before
<1> QED  BY <1>1, <1>2, <1>3, <1>4 DEF CallAccounted, Numbered, Ahead, Members, CommandsOf, IInv, BasesStored

\* What the steps of a call do to the log.
LEMMA RecordEffect ==
    ASSUME IInv, Accounted, NEW r \in Recorders, RecordStep(r)
    PROVE  LogEffect(rec[r].commands)
<1> DEFINE cs == rec[r].commands
<1>0. Members(cs) = CommandsOf(r) /\ rec[r].base \in rows \union {NoEntry}
  BY CallIsAhead
<1>1. CASE Execute(r) \/ ExecuteBatch(r) \/ ReadHead(r) \/ CheckHead(r) \/ RetryRecord(r)
  BY <1>1 DEF Execute, ExecuteBatch, Begin, ReadHead, CheckHead, RetryRecord, logVars, dbVars, LogEffect
<1>2. CASE LoseRecord(r)
  BY <1>0, <1>2 DEF LoseRecord, Abandon, dbVars, LogEffect
<1>3. CASE InsertRecord(r)
  BY <1>0, <1>3 DEF InsertRecord, EntriesOf, LogEffect
<1>4. CASE RecordFails(r)
  <2>1. reported' = reported \union Members(cs) /\ written' = written
    BY <1>0, <1>4 DEF RecordFails, Abandon
  <2>2. CASE Fault
    BY <2>1, <2>2 DEF Fault, LogEffect
  <2>3. CASE LostAnswer(EntriesOf(r))
    <3>1. Insert(BuildChain(rec[r].base, cs))
      BY <2>3 DEF LostAnswer, EntriesOf
    <3>2. {e.content : e \in BuildChain(rec[r].base, cs)} = Members(cs)
      BY ContentsOfBatch
    <3>3. unanswered' = unanswered \union Members(cs)
      BY <2>3, <3>2 DEF LostAnswer, EntriesOf
    <3> QED  BY <1>0, <2>1, <3>1, <3>3 DEF LogEffect
  <2> QED  BY <1>4, <2>2, <2>3 DEF RecordFails
<1> QED  BY <1>1, <1>2, <1>3, <1>4 DEF RecordStep

\* A step of a recorder is about the commands of its call.
LEMMA RecordStepAccounted ==
    ASSUME IInv, Accounted, NEW r \in Recorders, RecordStep(r), UNCHANGED writerVars
    PROVE  Accounted'
<1> DEFINE cs == rec[r].commands
           lo == Before(r)
<1>0. /\ Numbered(cs, r, lo) /\ Ahead(cs, r, lo) /\ Members(cs) = CommandsOf(r)
      /\ rec[r].base \in rows \union {NoEntry}
      /\ calls[r] \in Nat /\ Len(cs) \in Nat
      /\ CallAccounted(r)
      /\ DOMAIN rec = Recorders /\ DOMAIN calls = Recorders
  BY CallIsAhead DEF Accounted, IInv, TypeOK, RecorderTypeOK
<1>1. LogEffect(cs)
  BY RecordEffect
<1>2. /\ Answered'
      /\ Logged \subseteq Logged' /\ Logged' \subseteq Logged \union Members(cs)
      /\ reported \subseteq reported' /\ reported' \subseteq reported \union Members(cs)
      /\ unanswered \subseteq unanswered'
  BY <1>0, <1>1, EffectKeepsAnswers DEF Accounted, Answered
<1>3. \A q \in Recorders : q # r => rec'[q] = rec[q] /\ calls'[q] = calls[q]
  BY <1>0 DEF RecordStep, Execute, ExecuteBatch, Begin, ReadHead, CheckHead, RetryRecord, LoseRecord, InsertRecord,
     RecordFails, Abandon, Resolve
<1>4. CallAccounted(r)'
  <2>1. ASSUME Resolve(r), calls' = calls PROVE CallAccounted(r)'
    <3>1. rec'[r] = Idle /\ Len(Idle.commands) = 0
      BY <1>0, <2>1 DEF Resolve, Idle
    <3>2. \A n \in Nat : n > calls[r] => n > lo /\ <<r, n>> \notin Members(cs)
      BY <1>0 DEF Members, Numbered, Before
    <3>3. \A n \in Nat : n > calls[r] => <<r, n>> \notin Logged' \union reported'
      BY <1>0, <1>2, <3>2 DEF CallAccounted
    <3> QED  BY <1>0, <2>1, <3>1, <3>3 DEF CallAccounted, Before
  <2>2. ASSUME NEW n \in Nat, NEW a, Begin(r, n, a) PROVE CallAccounted(r)'
    <3> DEFINE new == [i \in 1 .. n |-> <<r, calls[r] + i>>]
    <3>1. /\ rec'[r].commands = new /\ rec'[r].pc = "read" /\ calls'[r] = calls[r] + n
          /\ Logged' = Logged /\ reported' = reported /\ Len(cs) = 0
      BY <1>0, <2>2 DEF Begin, logVars, dbVars, Logged, CallAccounted
    <3>2. Len(new) = n /\ \A i \in 1 .. n : new[i] = <<r, calls[r] + i>>
      OBVIOUS
    <3> HIDE DEF new
    <3> QED  BY <1>0, <3>1, <3>2 DEF CallAccounted, Before
  <2>3. CASE Execute(r) \/ ExecuteBatch(r)
    BY <2>2, <2>3, RecorderAssumption DEF Execute, ExecuteBatch
  <2>4. CASE ReadHead(r) \/ CheckHead(r) \/ RetryRecord(r)
    <3>1. rec[r] \in Calls
      BY DEF IInv, TypeOK, RecorderTypeOK
    <3>2. rec'[r].commands = cs /\ rec'[r].pc # "idle" /\ calls' = calls
      BY <1>0, <2>4, <3>1 DEF ReadHead, CheckHead, RetryRecord, Calls
    <3>3. Logged' = Logged /\ reported' = reported
      BY <2>4 DEF ReadHead, CheckHead, RetryRecord, logVars, dbVars, Logged
    <3> QED  BY <1>0, <3>2, <3>3 DEF CallAccounted, Before
  <2>5. CASE LoseRecord(r) \/ InsertRecord(r) \/ RecordFails(r)
    BY <2>1, <2>5 DEF LoseRecord, InsertRecord, RecordFails, Abandon
  <2> QED  BY <2>3, <2>4, <2>5 DEF RecordStep
<1>5. \A q \in Recorders : CallAccounted(q)'
  BY <1>0, <1>2, <1>3, <1>4, OthersStayAccounted
<1>6. \A w \in Writers : QueueNumbered(w)' /\ QueueAccounted(w)'
  BY <1>0, <1>2, OthersStayAccounted, ApartAssumption DEF writerVars
<1> QED  BY <1>2, <1>5, <1>6 DEF Accounted, Answered

\* What a flush knows of its batch.
LEMMA FlushIsAhead ==
    ASSUME IInv, Accounted, NEW w \in Writers, Flushing(w)
    PROVE  /\ Numbered(flush[w].batch, w, Gone(w)) /\ Ahead(flush[w].batch, w, Gone(w))
           /\ Members(flush[w].batch) = BatchOf(w)
           /\ flush[w].base \in rows \union {NoEntry}
<1>1. QueueNumbered(w) /\ QueueAccounted(w)
  BY DEF Accounted
<1>2. flush[w] \in Flushes /\ enqueued[w] \in Nat /\ queue[w] \in Seq(Commands)
  BY DEF IInv, TypeOK, WriterTypeOK
<1>3. flush[w].batch \in Seq(Commands)
  BY <1>2 DEF Flushes
<1>4. Len(queue[w]) \in Nat /\ Gone(w) \in Nat
  BY <1>1, <1>2 DEF QueueNumbered, Gone
<1> QED  BY <1>1, <1>3, <1>4 DEF QueueNumbered, QueueAccounted, Numbered, Ahead, Members, BatchOf, IInv, BasesStored

\* A flush that begins takes the front of the queue.
LEMMA FlushBegins ==
    ASSUME NEW f, NEW q \in Seq(Commands), f.pc = "idle", q # << >>
    PROVE  LET g == Flushed(f, q) IN
           /\ Len(g.batch) <= Len(q)
           /\ \A i \in 1 .. Len(g.batch) : g.batch[i] = q[i]
<1> DEFINE n == IF MaxBatchSize <= Len(q) THEN MaxBatchSize ELSE Len(q)
<1>1. n \in Nat /\ n <= Len(q)
  BY WriterAssumption
<1>2. Len(SubSeq(q, 1, n)) = n /\ \A i \in 1 .. n : SubSeq(q, 1, n)[i] = q[i]
  BY <1>1
<1>3. Flushed(f, q).batch = SubSeq(q, 1, n)
  BY DEF Flushed, NoFlush, Front
<1> HIDE DEF n
<1> QED  BY <1>1, <1>2, <1>3

\* Steps that leave the log alone: the queue may grow, a flush begin or move on.
LEMMA QuietStepAccounted ==
    ASSUME IInv, Accounted, NEW w \in Writers, UNCHANGED logVars,
           queue'[w] \in Seq(Commands), enqueued'[w] \in Nat, Len(queue'[w]) <= enqueued'[w],
           \A i \in 1 .. Len(queue'[w]) : queue'[w][i] = <<w, Gone(w)' + i>>,
           Gone(w)' = Gone(w), Len(queue[w]) <= Len(queue'[w]),
           \/ flush'[w] = Flushed(flush[w], queue'[w])
           \/ /\ flush'[w].batch = flush[w].batch
              /\ flush'[w].pc \in {"read", "check", "insert"} <=> Flushing(w)
    PROVE  QueueNumbered(w)' /\ QueueAccounted(w)'
<1>1. QueueNumbered(w) /\ QueueAccounted(w)
  BY DEF Accounted
<1>2. Logged' = Logged /\ reported' = reported /\ unanswered' = unanswered
  BY DEF logVars, dbVars, Logged
<1>3. flush[w] \in Flushes
  BY DEF IInv, TypeOK, WriterTypeOK
<1>4. CASE flush[w].pc = "idle" /\ queue'[w] # << >> /\ flush'[w] = Flushed(flush[w], queue'[w])
  <2>1. ~Flushing(w)
    BY <1>4 DEF Flushing
  <2>2. /\ Len(flush'[w].batch) <= Len(queue'[w])
        /\ \A i \in 1 .. Len(flush'[w].batch) : flush'[w].batch[i] = queue'[w][i]
    BY <1>4, FlushBegins
  <2>3. QueueNumbered(w)'
    <3> DEFINE b == flush'[w].batch
    <3>1. Len(queue'[w]) \in Nat
      OBVIOUS
    <3>2. flush'[w].batch \in Seq(Commands)
      <4>1. Front(queue'[w], MaxBatchSize) \in Seq(Commands)
        BY WriterAssumption DEF Front
      <4> QED  BY <1>4, <4>1 DEF Flushed, NoFlush
    <3>3. \A i \in 1 .. Len(b) : i \in 1 .. Len(queue'[w])
      BY <2>2, <3>1, <3>2
    <3> QED  BY <2>2, <3>3 DEF QueueNumbered
  <2>4. QueueAccounted(w)'
    BY <1>1, <1>2, <2>1 DEF QueueAccounted
  <2> QED  BY <2>3, <2>4
<1>6. CASE flush'[w].batch = flush[w].batch /\ (flush'[w].pc \in {"read", "check", "insert"} <=> Flushing(w))
  <2>1. Len(flush[w].batch) \in Nat /\ Len(queue[w]) \in Nat /\ Len(queue'[w]) \in Nat
    BY <1>3 DEF Flushes, IInv, TypeOK, WriterTypeOK
  <2>2. Flushing(w)' <=> Flushing(w)
    BY <1>6 DEF Flushing
  <2>3. QueueNumbered(w)'
    BY <1>1, <1>6, <2>1, <2>2 DEF QueueNumbered
  <2>4. QueueAccounted(w)'
    BY <1>1, <1>2, <1>6, <2>2 DEF QueueAccounted, BatchOf
  <2> QED  BY <2>3, <2>4
<1>7. CASE (flush[w].pc # "idle" \/ queue'[w] = << >>) /\ flush'[w] = Flushed(flush[w], queue'[w])
  BY <1>6, <1>7 DEF Flushed, Flushing
<1> QED  BY <1>4, <1>6, <1>7

\* The statements of a flush that may change the log.
LEMMA FlushEffect ==
    ASSUME IInv, Accounted, NEW w \in Writers, DrainInsert(w) \/ RetryDrain(w) \/ DropBatch(w)
    PROVE  Flushing(w) /\ LogEffect(flush[w].batch)
<1> DEFINE cs == flush[w].batch
<1>1. Flushing(w)
  BY DEF DrainInsert, RetryDrain, DropBatch, AttemptFails, Flushing
<1> SUFFICES LogEffect(cs)
  BY <1>1
<1>2. Members(cs) = BatchOf(w) /\ flush[w].base \in rows \union {NoEntry}
  BY <1>1, FlushIsAhead
<1>3. CASE DrainInsert(w)
  BY <1>2, <1>3 DEF DrainInsert, BatchRows, LogEffect
<1>4. CASE RetryDrain(w) \/ DropBatch(w)
  <2>1. written' = written /\ reported' \in {reported, reported \union Members(cs)}
    BY <1>2, <1>4 DEF RetryDrain, DropBatch
  <2>2. CASE UNCHANGED <<rows, unanswered>>
    BY <2>1, <2>2 DEF LogEffect
  <2>3. CASE LostAnswer(BatchRows(w))
    <3>1. Insert(BuildChain(flush[w].base, cs))
      BY <2>3 DEF LostAnswer, BatchRows
    <3>2. {e.content : e \in BuildChain(flush[w].base, cs)} = Members(cs)
      BY ContentsOfBatch
    <3>3. unanswered' = unanswered \union Members(cs)
      BY <2>3, <3>2 DEF LostAnswer, BatchRows
    <3> QED  BY <1>2, <2>1, <3>1, <3>3 DEF LogEffect
  <2>4. UNCHANGED <<rows, unanswered>> \/ LostAnswer(BatchRows(w))
    BY <1>4 DEF RetryDrain, DropBatch, AttemptFails, Fault, dbVars
  <2> QED  BY <2>2, <2>3, <2>4
<1> QED  BY <1>3, <1>4

\* What splice leaves of a queue: the part behind the batch.
LEMMA TailOfSeq ==
    ASSUME NEW S, NEW q \in Seq(S), NEW k \in Nat, k <= Len(q)
    PROVE  /\ Len(SubSeq(q, k + 1, Len(q))) = Len(q) - k
           /\ \A i \in 1 .. Len(q) - k : SubSeq(q, k + 1, Len(q))[i] = q[k + i]
<1>1. Len(q) \in Nat
  OBVIOUS
<1>2. SubSeq(q, k + 1, Len(q)) = [i \in 1 .. Len(q) - k |-> q[k + i]]
  BY <1>1
<1> QED  BY <1>1, <1>2

\* After such a statement the batch is still in front of the queue, or it has left it, and then
\* it is stored or reported.
LEMMA FlushStepAccounted ==
    ASSUME IInv, Accounted, NEW w \in Writers, DrainInsert(w) \/ RetryDrain(w) \/ DropBatch(w)
    PROVE  /\ QueueNumbered(w)' /\ QueueAccounted(w)'
           /\ LogEffect(flush[w].batch) /\ Flushing(w)
<1> DEFINE cs == flush[w].batch
           lo == Gone(w)
           k == Len(cs)
<1>1. Flushing(w) /\ LogEffect(cs)
  BY FlushEffect
<1>2. /\ Numbered(cs, w, lo) /\ Ahead(cs, w, lo) /\ Members(cs) = BatchOf(w)
  BY <1>1, FlushIsAhead
<1>3. QueueNumbered(w) /\ QueueAccounted(w) /\ Answered
  BY DEF Accounted, Answered
<1>4. /\ Logged \subseteq Logged' /\ Logged' \subseteq Logged \union Members(cs)
      /\ reported \subseteq reported' /\ reported' \subseteq reported \union Members(cs)
      /\ unanswered \subseteq unanswered'
  BY <1>1, <1>2, <1>3, EffectKeepsAnswers
<1>5. /\ queue[w] \in Seq(Commands) /\ enqueued[w] \in Nat /\ k \in Nat /\ lo \in Nat
      /\ Len(queue[w]) \in Nat /\ k <= Len(queue[w]) /\ Len(queue[w]) <= enqueued[w]
      /\ DOMAIN queue = Writers /\ DOMAIN flush = Writers
      /\ flush[w] \in Flushes
  BY <1>1, <1>2, <1>3 DEF IInv, TypeOK, WriterTypeOK, Numbered, QueueNumbered
<1>6. enqueued' = enqueued
  BY DEF DrainInsert, RetryDrain, DropBatch
<1>7. CASE RetryDrain(w)
  <2>1. /\ queue' = queue /\ reported' = reported
        /\ flush'[w].batch = cs /\ flush'[w].pc = "read"
    BY <1>5, <1>7 DEF RetryDrain, Flushes
  <2>2. Gone(w)' = lo /\ Flushing(w)' /\ BatchOf(w)' = Members(cs)
    BY <1>2, <1>6, <2>1 DEF Gone, Flushing, BatchOf
  <2>3. QueueNumbered(w)'
    BY <1>1, <1>3, <1>6, <2>1, <2>2 DEF QueueNumbered
  <2>4. \A c \in Logged' : c \in Logged \/ (c \in Members(cs) /\ Members(cs) \subseteq unanswered')
    <3>1. \/ Logged' = Logged
          \/ LostAnswer(BatchRows(w))
      BY <1>7 DEF RetryDrain, AttemptFails, Fault, dbVars, Logged
    <3>2. ASSUME LostAnswer(BatchRows(w)) PROVE Members(cs) \subseteq unanswered'
      <4>1. {e.content : e \in BuildChain(flush[w].base, cs)} = Members(cs)
        BY ContentsOfBatch
      <4> QED  BY <3>2, <4>1 DEF LostAnswer, BatchRows
    <3> QED  BY <1>4, <3>1, <3>2
  <2>5. \A n \in Nat : <<w, n>> \in Members(cs) => n <= lo + k
    BY <1>2, <1>5 DEF Members, Numbered
  <2>6. QueueAccounted(w)'
    BY <1>1, <1>2, <1>3, <1>4, <2>1, <2>2, <2>4, <2>5 DEF QueueAccounted
  <2> QED  BY <1>1, <2>3, <2>6
<1>8. CASE DrainInsert(w) \/ DropBatch(w)
  <2>1. /\ queue'[w] = SubSeq(queue[w], k + 1, Len(queue[w]))
        /\ flush'[w] \in {NoFlush, Flushed(NoFlush, queue'[w])}
    BY <1>5, <1>8 DEF DrainInsert, DropBatch, EndFlush, Splice
  <2>2. /\ Len(queue'[w]) = Len(queue[w]) - k
        /\ \A i \in 1 .. Len(queue'[w]) : queue'[w][i] = queue[w][k + i]
    <3> DEFINE q == queue[w]
    <3>1. Len(SubSeq(q, k + 1, Len(q))) = Len(q) - k
          /\ \A i \in 1 .. Len(q) - k : SubSeq(q, k + 1, Len(q))[i] = q[k + i]
      <4>1. q \in Seq(Commands) /\ k \in Nat /\ k <= Len(q)
        BY <1>5
      <4> HIDE DEF q, k
      <4> QED  BY <4>1, TailOfSeq
    <3> QED  BY <2>1, <3>1
  <2>3. Gone(w)' = lo + k
    BY <1>5, <1>6, <2>2 DEF Gone
  <2>4. ASSUME Flushing(w)'
        PROVE  /\ Len(flush'[w].batch) <= Len(queue'[w])
               /\ \A i \in 1 .. Len(flush'[w].batch) : /\ i \in 1 .. Len(queue'[w])
                                                      /\ flush'[w].batch[i] = queue'[w][i]
    <3> DEFINE q == queue'[w]
               g == Flushed(NoFlush, q)
    <3>1. q \in Seq(Commands) /\ NoFlush.pc = "idle"
      BY <1>5, <2>1 DEF NoFlush
    <3>2. flush'[w] = g /\ q # << >>
      <4>1. flush'[w] # NoFlush
        BY <2>4, <3>1 DEF Flushing
      <4>2. q = << >> => g = NoFlush
        BY DEF Flushed
      <4> HIDE DEF g
      <4>3. flush'[w] \in {NoFlush, g}
        BY <2>1 DEF g
      <4> QED  BY <4>1, <4>2, <4>3
    <3>3. Len(g.batch) <= Len(q) /\ \A i \in 1 .. Len(g.batch) : g.batch[i] = q[i]
      BY <3>1, <3>2, FlushBegins
    <3>4. Len(g.batch) \in Nat /\ Len(q) \in Nat
      <4>1. Front(q, MaxBatchSize) \in Seq(Commands)
        BY <3>1, WriterAssumption DEF Front
      <4> QED  BY <3>1, <3>2, <4>1 DEF Flushed, NoFlush
    <3> HIDE DEF g
    <3> QED  BY <3>2, <3>3, <3>4
  <2>5. QueueNumbered(w)'
    <3>1. ASSUME NEW i \in 1 .. Len(queue'[w]) PROVE queue'[w][i] = <<w, lo + k + i>>
      <4>1. k + i \in 1 .. Len(queue[w])
        BY <1>5, <2>2
      <4>2. queue[w][k + i] = <<w, lo + (k + i)>>
        BY <1>3, <4>1 DEF QueueNumbered
      <4>3. lo + (k + i) = lo + k + i
        <5> HIDE DEF lo, k
        <5> QED  BY <1>5
      <4>4. queue'[w][i] = queue[w][k + i]
        BY <2>2
      <4> QED  BY <4>2, <4>3, <4>4
    <3>2. Len(queue'[w]) <= enqueued'[w]
      BY <1>5, <1>6, <2>2
    <3>3. Flushing(w)' => /\ Len(flush'[w].batch) <= Len(queue'[w])
                          /\ \A i \in 1 .. Len(flush'[w].batch) : flush'[w].batch[i] = <<w, lo + k + i>>
      BY <2>4, <3>1
    <3> QED  BY <2>3, <3>1, <3>2, <3>3 DEF QueueNumbered
  <2>6. Members(cs) \subseteq Logged' \union reported'
    <3>1. CASE DropBatch(w)
      BY <1>2, <3>1 DEF DropBatch
    <3>2. CASE DrainInsert(w)
      BY <3>2, InsertGrows DEF DrainInsert, BatchRows
    <3> QED  BY <1>8, <3>1, <3>2
  <2>7. ASSUME NEW n \in 1 .. lo + k PROVE <<w, n>> \in Logged' \union reported'
    <3>1. CASE n <= lo
      BY <1>3, <1>4, <1>5, <3>1 DEF QueueAccounted
    <3>2. CASE n > lo
      <4>1. n - lo \in 1 .. k /\ cs[n - lo] = <<w, lo + (n - lo)>> /\ lo + (n - lo) = n
        BY <1>2, <1>5, <3>2 DEF Numbered
      <4>2. <<w, n>> \in Members(cs)
        BY <4>1 DEF Members
      <4> QED  BY <2>6, <4>2
    <3> QED  BY <1>5, <3>1, <3>2
  <2>8. ASSUME NEW n \in Nat, n > lo + k PROVE <<w, n>> \notin Logged' \union reported'
    <3>1. <<w, n>> \notin Members(cs)
      BY <1>2, <1>5, <2>8 DEF Members, Numbered
    <3>2. n > lo
      BY <1>5, <2>8
    <3>3. <<w, n>> \notin reported /\ <<w, n>> \notin Logged
      BY <1>2, <1>5, <2>8, <3>2 DEF Ahead
    <3> QED  BY <1>4, <3>1, <3>3
  <2>9. QueueAccounted(w)'
    BY <2>3, <2>7, <2>8 DEF QueueAccounted
  <2> QED  BY <1>1, <2>5, <2>9
<1> QED  BY <1>7, <1>8

\* A step of a writer is about the batch of its flush, or not about the log.
LEMMA WriterStepAccounted ==
    ASSUME IInv, Accounted, NEW w \in Writers, WriterStep(w), UNCHANGED recVars
    PROVE  Accounted'
<1>0. /\ queue[w] \in Seq(Commands) /\ enqueued[w] \in Nat /\ Len(queue[w]) \in Nat
      /\ flush[w] \in Flushes /\ QueueNumbered(w)
      /\ DOMAIN queue = Writers /\ DOMAIN flush = Writers /\ DOMAIN enqueued = Writers
  BY DEF IInv, TypeOK, WriterTypeOK, Accounted
<1>1. \A x \in Writers : x # w => queue'[x] = queue[x] /\ enqueued'[x] = enqueued[x] /\ flush'[x] = flush[x]
  BY <1>0 DEF WriterStep, Start, Tick, Record, Refuse, DrainRead, DrainCheck, DrainInsert, RetryDrain, DropBatch,
     EndFlush, Stop
<1>2. CASE DrainInsert(w) \/ RetryDrain(w) \/ DropBatch(w)
  <2> DEFINE cs == flush[w].batch
  <2>1. /\ QueueNumbered(w)' /\ QueueAccounted(w)' /\ LogEffect(cs)
        /\ Numbered(cs, w, Gone(w)) /\ Ahead(cs, w, Gone(w))
    BY <1>2, FlushStepAccounted, FlushIsAhead
  <2>2. /\ Answered'
        /\ Logged \subseteq Logged' /\ Logged' \subseteq Logged \union Members(cs)
        /\ reported \subseteq reported' /\ reported' \subseteq reported \union Members(cs)
        /\ unanswered \subseteq unanswered'
    BY <2>1, EffectKeepsAnswers DEF Accounted, Answered
  <2>3. \A r \in Recorders : CallAccounted(r)'
    BY <2>1, <2>2, OthersStayAccounted, ApartAssumption DEF recVars
  <2>4. \A x \in Writers : QueueNumbered(x)' /\ QueueAccounted(x)'
    BY <1>1, <2>1, <2>2, OthersStayAccounted
  <2> QED  BY <2>2, <2>3, <2>4 DEF Accounted, Answered
<1>3. CASE ~(DrainInsert(w) \/ RetryDrain(w) \/ DropBatch(w))
  <2>1. UNCHANGED logVars
    BY <1>3 DEF WriterStep, Start, Tick, Record, Refuse, DrainRead, DrainCheck, Stop
  <2>2. /\ Logged' = Logged /\ reported' = reported /\ unanswered' = unanswered /\ Answered'
    BY <2>1 DEF logVars, dbVars, Logged, Accounted, Answered, Contiguous, AnswersAreTrue, NoDuplicates, QueueOrderKept
  <2>3. Numbered(<< >>, w, 0)
    BY EmptySeq DEF Numbered
  <2>4. QueueNumbered(w)' /\ QueueAccounted(w)'
    <3>1. CASE Record(w)
      <4> DEFINE new == Append(queue[w], <<w, enqueued[w] + 1>>)
      <4>1. /\ queue'[w] = new /\ enqueued'[w] = enqueued[w] + 1 /\ enqueued[w] < MaxAccepted
            /\ flush'[w] = IF Len(new) >= MaxBatchSize THEN Flushed(flush[w], new) ELSE flush[w]
        BY <1>0, <3>1 DEF Record
      <4>2. <<w, enqueued[w] + 1>> \in Commands
        BY <1>0, <4>1, WriterAssumption DEF Commands, WriterCommands
      <4>3. /\ new \in Seq(Commands) /\ Len(new) = Len(queue[w]) + 1
            /\ \A i \in 1 .. Len(queue[w]) : new[i] = queue[w][i]
            /\ new[Len(queue[w]) + 1] = <<w, enqueued[w] + 1>>
        BY <1>0, <4>2
      <4> HIDE DEF new
      <4>4. Gone(w)' = Gone(w) /\ Len(queue'[w]) <= enqueued'[w]
        BY <1>0, <4>1, <4>3 DEF Gone, QueueNumbered
      <4>5. \A i \in 1 .. Len(queue'[w]) : queue'[w][i] = <<w, Gone(w)' + i>>
        <5> SUFFICES ASSUME NEW i \in 1 .. Len(new) PROVE new[i] = <<w, Gone(w) + i>>
          BY <4>1, <4>4
        <5>1. CASE i \in 1 .. Len(queue[w])
          BY <1>0, <4>3, <5>1 DEF QueueNumbered
        <5>2. CASE i = Len(queue[w]) + 1
          <6>1. Gone(w) + i = enqueued[w] + 1
            BY <1>0, <5>2 DEF Gone
          <6> QED  BY <4>3, <5>2, <6>1
        <5> QED  BY <1>0, <4>3, <5>1, <5>2
      <4>6. \/ flush'[w] = Flushed(flush[w], queue'[w])
            \/ /\ flush'[w].batch = flush[w].batch
               /\ flush'[w].pc \in {"read", "check", "insert"} <=> Flushing(w)
        BY <4>1 DEF Flushing
      <4> QED  BY <1>0, <2>1, <4>1, <4>3, <4>4, <4>5, <4>6, QuietStepAccounted
    <3>2. CASE ~Record(w)
      <4>1. queue' = queue /\ enqueued' = enqueued
        BY <1>3, <3>2 DEF WriterStep, Start, Tick, Refuse, DrainRead, DrainCheck, Stop
      <4>2. /\ Gone(w)' = Gone(w) /\ Len(queue'[w]) <= enqueued'[w]
            /\ \A i \in 1 .. Len(queue'[w]) : queue'[w][i] = <<w, Gone(w)' + i>>
        BY <1>0, <4>1 DEF Gone, QueueNumbered
      <4>3. \/ flush'[w] = Flushed(flush[w], queue'[w])
            \/ /\ flush'[w].batch = flush[w].batch
               /\ flush'[w].pc \in {"read", "check", "insert"} <=> Flushing(w)
        <5>1. CASE Start(w) \/ Refuse(w)
          BY <5>1 DEF Start, Refuse, Flushing
        <5>2. CASE Tick(w)
          BY <1>0, <4>1, <5>2 DEF Tick
        <5>3. CASE DrainRead(w)
          BY <1>0, <5>3 DEF DrainRead, Flushes, Flushing
        <5>4. CASE DrainCheck(w)
          BY <1>0, <5>4 DEF DrainCheck, Flushes, Flushing
        <5>5. CASE Stop(w)
          BY <1>0, <4>1, <5>5 DEF Stop
        <5> QED  BY <1>3, <3>2, <5>1, <5>2, <5>3, <5>4, <5>5 DEF WriterStep
      <4> QED  BY <1>0, <2>1, <4>1, <4>2, <4>3, QuietStepAccounted
    <3> QED  BY <3>1, <3>2
  <2>5. \A r \in Recorders : CallAccounted(r)'
    <3>1. \A r \in Recorders : rec'[r] = rec[r] /\ calls'[r] = calls[r] /\ CallAccounted(r)
      BY DEF recVars, Accounted
    <3> QED  BY <2>2, <3>1 DEF CallAccounted, Before
  <2>6. \A x \in Writers : QueueNumbered(x)' /\ QueueAccounted(x)'
    BY <1>1, <2>2, <2>3, <2>4, OthersStayAccounted
  <2> QED  BY <2>2, <2>5, <2>6 DEF Accounted, Answered
<1> QED  BY <1>2, <1>3

\* Nothing has been accepted yet.
LEMMA InitAccounted == Init => Accounted
<1> SUFFICES ASSUME Init PROVE Accounted
  OBVIOUS
<1>1. rows = {} /\ Logged = {} /\ reported = {} /\ written = {}
  BY DEF Init, LogInit, Logged
<1>2. \A r \in Recorders : CallAccounted(r)
  BY <1>1 DEF Init, RecordInit, CallAccounted, Before, Idle
<1>3. \A w \in Writers : QueueNumbered(w) /\ QueueAccounted(w)
  BY <1>1 DEF Init, WriterInit, QueueNumbered, QueueAccounted, Gone, Flushing, NoFlush
<1> QED  BY <1>1, <1>2, <1>3 DEF Accounted, Contiguous, AnswersAreTrue, NoDuplicates, QueueOrderKept

\* Every step keeps the account.
LEMMA NextAccounted == IInv /\ Accounted /\ [Next]_vars => Accounted'
<1> SUFFICES ASSUME IInv, Accounted, [Next]_vars PROVE Accounted'
  OBVIOUS
<1>1. CASE UNCHANGED vars
  <2>1. /\ rows' = rows /\ unanswered' = unanswered /\ written' = written /\ reported' = reported
        /\ rec' = rec /\ calls' = calls /\ queue' = queue /\ enqueued' = enqueued /\ flush' = flush
    BY <1>1 DEF vars, logVars, dbVars, recVars, writerVars
  <2>2. Contiguous' /\ AnswersAreTrue' /\ NoDuplicates' /\ QueueOrderKept'
    BY <2>1 DEF Accounted, Contiguous, AnswersAreTrue, NoDuplicates, QueueOrderKept, Logged
  <2>3. \A r \in Recorders : CallAccounted(r)'
    BY <2>1 DEF Accounted, CallAccounted, Before, Logged
  <2>4. \A w \in Writers : QueueNumbered(w)'
    BY <2>1 DEF Accounted, QueueNumbered, Gone, Flushing
  <2>5. \A w \in Writers : QueueAccounted(w)'
    BY <2>1 DEF Accounted, QueueAccounted, Gone, Flushing, BatchOf, Logged
  <2> QED  BY <2>2, <2>3, <2>4, <2>5 DEF Accounted
<1> QED  BY <1>1, RecordStepAccounted, WriterStepAccounted DEF Next

\* The account holds in every reachable state.
LEMMA SpecAccounted == Spec => []Accounted
<1> QED  BY InitAccounted, NextAccounted, SpecIInv, PTL DEF Spec

\* What callers were told is true, for any number of recorders and writers that compete, and also
\* when commits go unacknowledged.
THEOREM CallersAreToldTheTruth == Spec => []AnswersAreTrue
<1>1. Accounted => AnswersAreTrue
  BY DEF Accounted
<1> QED  BY <1>1, SpecAccounted, PTL

\* Every accepted command is waiting, stored or reported.
THEOREM NothingIsLost == Spec => []NothingLostSilently
<1>1. IInv /\ Accounted => NothingLostSilently
  <2> SUFFICES ASSUME IInv, Accounted, NEW w \in Writers, NEW n \in 1 .. enqueued[w]
               PROVE  <<w, n>> \in Queued(w) \union Logged \union reported
    BY DEF NothingLostSilently
  <2>1. /\ QueueNumbered(w) /\ QueueAccounted(w)
        /\ enqueued[w] \in Nat /\ queue[w] \in Seq(Commands)
    BY DEF Accounted, IInv, TypeOK, WriterTypeOK
  <2>2. Len(queue[w]) \in Nat /\ Len(queue[w]) <= enqueued[w] /\ Gone(w) \in Nat
    BY <2>1 DEF QueueNumbered, Gone
  <2>3. CASE n <= Gone(w)
    BY <2>1, <2>2, <2>3 DEF QueueAccounted
  <2>4. CASE n > Gone(w)
    <3> DEFINE i == n - Gone(w)
    <3>1. i \in 1 .. Len(queue[w]) /\ Gone(w) + i = n
      <4>1. Gone(w) = enqueued[w] - Len(queue[w])
        BY DEF Gone
      <4>2. n \in Nat /\ n <= enqueued[w] /\ enqueued[w] \in Nat /\ Len(queue[w]) \in Nat
        BY <2>1, <2>2
      <4>3. \A g, e, l, m \in Nat : g = e - l /\ m <= e /\ m > g => m - g \in 1 .. l /\ g + (m - g) = m
        OBVIOUS
      <4>4. Gone(w) \in Nat
        BY <2>2
      <4> QED  BY <2>4, <4>1, <4>2, <4>3, <4>4
    <3>2. queue[w][i] = <<w, n>>
      BY <2>1, <3>1 DEF QueueNumbered
    <3> QED  BY <3>1, <3>2 DEF Queued
  <2> QED  BY <2>2, <2>3, <2>4
<1> QED  BY <1>1, SpecIInv, SpecAccounted, PTL

\* One request to record makes one entry, unless a commit's answer was lost.
THEOREM RequestsAreLoggedOnce == Spec => []NoDuplicates
<1>1. Accounted => NoDuplicates
  BY DEF Accounted
<1> QED  BY <1>1, SpecAccounted, PTL

\* A writer's entries are stored in the order it accepted them.
THEOREM QueuesKeepTheirOrder == Spec => []QueueOrderKept
<1>1. Accounted => QueueOrderKept
  BY DEF Accounted
<1> QED  BY <1>1, SpecAccounted, PTL

-----------------------------------------------------------------------------
(* The log as one trail. *)

\* The i-th row of a table by sequence, as Stored finds it, and the contents in that order.
Nth(R, i) ==
    CHOOSE e \in R : /\ Cardinality({ f \in R : f.sequence < e.sequence }) < i
                     /\ i <= Cardinality({ f \in R : f.sequence <= e.sequence })

TrailOf(R) == [i \in 1 .. Cardinality(R) |-> Nth(R, i).content]

\* The rows of R have the sequences 1 .. n, each one of them.
Listed(R, n) ==
    /\ \A e \in R : e.sequence \in 1 .. n
    /\ \A m \in 1 .. n : \E e \in R : e.sequence = m
    /\ \A e, f \in R : e.sequence = f.sequence => e = f

\* As many rows stand at sequence k or before it as k says.
LEMMA CountUpTo ==
    ASSUME NEW R, NEW n \in Nat, Listed(R, n), NEW k \in 0 .. n
    PROVE  Cardinality({ f \in R : f.sequence <= k }) = k
<1> DEFINE S == { f \in R : f.sequence <= k }
           row == [m \in 1 .. k |-> CHOOSE e \in R : e.sequence = m]
<1>1. \A m \in 1 .. k : row[m] \in R /\ row[m].sequence = m
  <2> SUFFICES ASSUME NEW m \in 1 .. k PROVE row[m] \in R /\ row[m].sequence = m
    OBVIOUS
  <2>1. \E e \in R : e.sequence = m
    BY DEF Listed
  <2> QED  BY <2>1
<1> HIDE DEF row
<1>2. row \in [1 .. k -> S]
  <2>1. \A m \in 1 .. k : row[m] \in S
    BY <1>1
  <2> QED  BY <2>1 DEF row
<1>3. \A a, b \in 1 .. k : row[a] = row[b] => a = b
  BY <1>1
<1>4. \A e \in S : \E m \in 1 .. k : row[m] = e
  <2> SUFFICES ASSUME NEW e \in S PROVE \E m \in 1 .. k : row[m] = e
    OBVIOUS
  <2>1. e.sequence \in 1 .. k
    BY DEF Listed
  <2>2. row[e.sequence] \in R /\ row[e.sequence].sequence = e.sequence
    BY <1>1, <2>1
  <2>3. row[e.sequence] = e
    BY <2>2 DEF Listed
  <2> QED  BY <2>1, <2>3
<1>5. row \in Bijection(1 .. k, S)
  BY <1>2, <1>3, <1>4 DEF Bijection, Injection, IsInjective, Surjection
<1>6. ExistsBijection(1 .. k, S)
  BY <1>5 DEF ExistsBijection
<1> HIDE DEF S
<1> QED  BY <1>6, FS_CountingElements DEF S

\* So the i-th row is the one with sequence i.
LEMMA TrailByNumber ==
    ASSUME NEW R, NEW n \in Nat, Listed(R, n)
    PROVE  /\ Cardinality(R) = n
           /\ \A e \in R : e.sequence \in 1 .. n /\ TrailOf(R)[e.sequence] = e.content
<1>1. Cardinality(R) = n
  <2>1. { f \in R : f.sequence <= n } = R
    BY DEF Listed
  <2>2. n \in 0 .. n
    OBVIOUS
  <2>3. Cardinality({ f \in R : f.sequence <= n }) = n
    BY <2>2, CountUpTo
  <2> QED  BY <2>1, <2>3
<1>2. \A e \in R : /\ e.sequence \in 1 .. n
                   /\ Cardinality({ f \in R : f.sequence < e.sequence }) = e.sequence - 1
                   /\ Cardinality({ f \in R : f.sequence <= e.sequence }) = e.sequence
  <2> SUFFICES ASSUME NEW e \in R
               PROVE  /\ e.sequence \in 1 .. n
                      /\ Cardinality({ f \in R : f.sequence < e.sequence }) = e.sequence - 1
                      /\ Cardinality({ f \in R : f.sequence <= e.sequence }) = e.sequence
    OBVIOUS
  <2>1. e.sequence \in 1 .. n /\ e.sequence \in 0 .. n /\ e.sequence - 1 \in 0 .. n
    BY DEF Listed
  <2>2. { f \in R : f.sequence < e.sequence } = { f \in R : f.sequence <= e.sequence - 1 }
    BY <2>1 DEF Listed
  <2>3. Cardinality({ f \in R : f.sequence <= e.sequence - 1 }) = e.sequence - 1
    BY <2>1, CountUpTo
  <2>4. Cardinality({ f \in R : f.sequence <= e.sequence }) = e.sequence
    BY <2>1, CountUpTo
  <2> QED  BY <2>1, <2>2, <2>3, <2>4
<1>3. ASSUME NEW e \in R PROVE Nth(R, e.sequence) = e
  <2> DEFINE P(g) == /\ Cardinality({ f \in R : f.sequence < g.sequence }) < e.sequence
                     /\ e.sequence <= Cardinality({ f \in R : f.sequence <= g.sequence })
  <2>1. P(e)
    BY <1>2
  <2>2. ASSUME NEW g \in R, P(g) PROVE g = e
    <3>1. g.sequence - 1 < e.sequence /\ e.sequence <= g.sequence
      BY <1>2, <2>2
    <3>2. g.sequence \in 1 .. n /\ e.sequence \in 1 .. n
      BY <1>2
    <3>3. g.sequence = e.sequence
      BY <3>1, <3>2
    <3> QED  BY <3>3 DEF Listed
  <2>3. Nth(R, e.sequence) = CHOOSE g \in R : P(g)
    BY DEF Nth
  <2> HIDE DEF P
  <2> QED  BY <2>1, <2>2, <2>3
<1> QED  BY <1>1, <1>2, <1>3 DEF TrailOf

\* A concatenation, position by position.
LEMMA Concatenation ==
    ASSUME NEW n \in Nat, NEW k \in Nat,
           NEW t, t = [i \in 1 .. n |-> t[i]], NEW b, b = [i \in 1 .. k |-> b[i]]
    PROVE  t \o b = [i \in 1 .. n + k |-> IF i <= n THEN t[i] ELSE b[i - n]]
<1> DEFINE V == {t[i] : i \in 1 .. n} \union {b[i] : i \in 1 .. k}
<1>1. t \in [1 .. n -> V]
  <2>1. \A i \in 1 .. n : t[i] \in V
    OBVIOUS
  <2> HIDE DEF V
  <2> QED  BY <2>1
<1>2. b \in [1 .. k -> V]
  <2>1. \A i \in 1 .. k : b[i] \in V
    OBVIOUS
  <2> HIDE DEF V
  <2> QED  BY <2>1
<1> HIDE DEF V
<1>3. t \in Seq(V) /\ b \in Seq(V)
  BY <1>1, <1>2
<1>4. Len(t) = n /\ Len(b) = k
  BY <1>1, <1>2, <1>3
<1> QED  BY <1>3, <1>4

\* A batch behind the last row goes to the end of the trail.
LEMMA TrailGrows ==
    ASSUME NEW R, NEW p, p.sequence \in Nat, Listed(R, p.sequence), NEW cs \in Seq(Commands)
    PROVE  /\ Listed(R \union BuildChain(p, cs), p.sequence + Len(cs))
           /\ TrailOf(R \union BuildChain(p, cs)) = TrailOf(R) \o [i \in 1 .. Len(cs) |-> cs[i]]
<1> DEFINE S == R \union BuildChain(p, cs)
           n == p.sequence
           k == Len(cs)
           new(i) == AppendAt(p, cs, i)
<1>n. n \in Nat /\ Listed(R, n)
  OBVIOUS
<1>0. k \in Nat
  OBVIOUS
<1>1. \A i \in 1 .. k : new(i) \in S /\ new(i).sequence = n + i /\ new(i).content = cs[i]
  BY DEF BuildChain, AppendAt
<1>2. \A e \in S : e \in R \/ \E i \in 1 .. k : e = new(i)
  BY DEF BuildChain
<1>r. R \subseteq S
  OBVIOUS
<1> HIDE DEF new, k, n, S
<1>3. Listed(S, n + k)
  <2>1. \A e \in S : e.sequence \in 1 .. n + k
    BY <1>0, <1>n, <1>1, <1>2 DEF Listed
  <2>2. ASSUME NEW m \in 1 .. n + k PROVE \E e \in S : e.sequence = m
    <3>1. CASE m <= n
      BY <1>0, <1>n, <1>r, <3>1 DEF Listed
    <3>2. CASE m > n
      <4>1. m - n \in 1 .. k /\ n + (m - n) = m
        BY <1>0, <1>n, <3>2
      <4> QED  BY <1>1, <4>1
    <3> QED  BY <1>0, <1>n, <3>1, <3>2
  <2>3. ASSUME NEW e \in S, NEW f \in S, e.sequence = f.sequence PROVE e = f
    <3>1. CASE e \in R /\ f \in R
      BY <1>n, <2>3, <3>1 DEF Listed
    <3>2. ASSUME NEW i \in 1 .. k, NEW g \in R PROVE new(i).sequence # g.sequence
      <4>1. new(i).sequence = n + i /\ g.sequence \in 1 .. n
        BY <1>1, <1>n DEF Listed
      <4> QED  BY <1>0, <1>n, <4>1
    <3>3. ASSUME NEW i \in 1 .. k, NEW j \in 1 .. k, new(i).sequence = new(j).sequence PROVE i = j
      <4>1. n + i = n + j
        BY <1>1, <3>3
      <4> QED  BY <1>0, <1>n, <4>1
    <3> QED  BY <1>2, <2>3, <3>1, <3>2, <3>3
  <2> QED  BY <2>1, <2>2, <2>3 DEF Listed
<1>4. /\ Cardinality(R) = n /\ Cardinality(S) = n + k
      /\ \A e \in R : TrailOf(R)[e.sequence] = e.content
      /\ \A e \in S : TrailOf(S)[e.sequence] = e.content
  <2>1. n + k \in Nat
    BY <1>0, <1>n
  <2> QED  BY <1>3, <1>n, <2>1, TrailByNumber
<1> DEFINE b == [i \in 1 .. k |-> cs[i]]
           t == TrailOf(R)
           u == TrailOf(S)
<1>5. DOMAIN t = 1 .. n /\ DOMAIN u = 1 .. n + k /\ DOMAIN b = 1 .. k
  BY <1>4 DEF TrailOf
<1>6. \A i \in 1 .. n : u[i] = t[i]
  <2> SUFFICES ASSUME NEW i \in 1 .. n PROVE u[i] = t[i]
    OBVIOUS
  <2>1. PICK e \in R : e.sequence = i
    BY <1>n DEF Listed
  <2> QED  BY <1>4, <1>r, <2>1
<1>7. \A i \in 1 .. k : u[n + i] = b[i]
  BY <1>1, <1>4
<1>8. t = [i \in 1 .. n |-> t[i]] /\ u = [i \in 1 .. n + k |-> u[i]]
  BY <1>4 DEF TrailOf
<1> HIDE DEF t, u, b
<1>9. \A i \in 1 .. n + k : u[i] = IF i <= n THEN t[i] ELSE b[i - n]
  <2> SUFFICES ASSUME NEW i \in 1 .. n + k PROVE u[i] = IF i <= n THEN t[i] ELSE b[i - n]
    OBVIOUS
  <2>1. CASE i <= n
    BY <1>0, <1>n, <1>6, <2>1
  <2>2. CASE i > n
    <3>1. i - n \in 1 .. k /\ n + (i - n) = i
      BY <1>0, <1>n, <2>2
    <3> QED  BY <1>n, <1>7, <2>2, <3>1
  <2> QED  BY <1>0, <1>n, <2>1, <2>2
<1>10. t \o b = [i \in 1 .. n + k |-> IF i <= n THEN t[i] ELSE b[i - n]]
  <2>1. b = [i \in 1 .. k |-> b[i]]
    BY DEF b
  <2> QED  BY <1>0, <1>n, <1>8, <2>1, Concatenation
<1> QED  BY <1>3, <1>8, <1>9, <1>10 DEF t, u, b, k, n, S

\* What a call or a flush holds fits into one burst.
BurstsFit ==
    /\ \A r \in Recorders : Len(rec[r].commands) <= BatchLength
    /\ \A w \in Writers : Len(flush[w].batch) <= MaxBatchSize

TInv == BurstsFit /\ \E n \in Nat : Listed(rows, n)

\* A step that is about a run of commands leaves the table alone or adds the whole run at its end.
LEMMA EffectGrowsTrail ==
    ASSUME IInv, Contiguous, NEW n \in Nat, Listed(rows, n),
           NEW cs, NEW x, NEW lo, Numbered(cs, x, lo), LogEffect(cs)
    PROVE  \/ rows' = rows
           \/ /\ Len(cs) >= 1
              /\ Listed(rows', n + Len(cs))
              /\ TrailOf(rows') = TrailOf(rows) \o [i \in 1 .. Len(cs) |-> <<x, lo + i>>]
<1> SUFFICES ASSUME rows' # rows
             PROVE  /\ Len(cs) >= 1
                    /\ Listed(rows', n + Len(cs))
                    /\ TrailOf(rows') = TrailOf(rows) \o [i \in 1 .. Len(cs) |-> <<x, lo + i>>]
  OBVIOUS
<1>1. PICK p \in rows \union {NoEntry} : Insert(BuildChain(p, cs))
  BY DEF LogEffect
<1>2. rows' = rows \union BuildChain(p, cs)
  BY <1>1 DEF Insert
<1>3. cs \in Seq(Commands) /\ Len(cs) \in Nat
  BY DEF Numbered
<1>4. Len(cs) >= 1
  <2>1. CASE Len(cs) = 0
    <3>1. BuildChain(p, cs) = {}
      BY <2>1 DEF BuildChain
    <3> QED  BY <1>2, <3>1
  <2> QED  BY <1>3, <2>1
<1>5. p.sequence = n
  <2>1. 1 \in 1 .. Len(cs) /\ \A f \in rows : f.sequence < p.sequence + 1
    <3>1. 1 \in 1 .. Len(cs)
      BY <1>3, <1>4
    <3>2. /\ \A i \in 1 .. Len(cs) : AppendAt(p, cs, i).sequence = p.sequence + i
          /\ \A i \in 1 .. Len(cs) : \A f \in rows : f.sequence < AppendAt(p, cs, i).sequence
      BY <1>1, <1>3, InsertBehind
    <3> QED  BY <3>1, <3>2
  <2>2. CASE p \in rows
    <3>1. p.sequence \in 1 .. n
      BY <2>2 DEF Listed
    <3>2. \E f \in rows : f.sequence = n
      BY <3>1 DEF Listed
    <3> QED  BY <2>1, <3>1, <3>2
  <2>3. CASE p = NoEntry
    <3>1. p.sequence = 0
      BY <2>3 DEF NoEntry
    <3>2. n > 0 => \E f \in rows : f.sequence = n
      BY DEF Listed
    <3> QED  BY <2>1, <3>1, <3>2
  <2> QED  BY <2>2, <2>3
<1>6. /\ Listed(rows', n + Len(cs))
      /\ TrailOf(rows') = TrailOf(rows) \o [i \in 1 .. Len(cs) |-> cs[i]]
  <2>1. p.sequence \in Nat /\ Listed(rows, p.sequence)
    BY <1>5
  <2> QED  BY <1>2, <1>3, <1>5, <2>1, TrailGrows
<1>7. [i \in 1 .. Len(cs) |-> cs[i]] = [i \in 1 .. Len(cs) |-> <<x, lo + i>>]
  BY DEF Numbered
<1> QED  BY <1>4, <1>6, <1>7

-----------------------------------------------------------------------------
MaxFrom == IF MaxCalls >= MaxAccepted THEN MaxCalls ELSE MaxAccepted
MaxRun  == IF BatchLength >= MaxBatchSize THEN BatchLength ELSE MaxBatchSize

\* One commit of the abstract trail, written out.
TrailStep ==
    \E c \in Recorders \union Writers, from \in 0 .. MaxFrom, k \in 1 .. MaxRun :
        TrailOf(rows') = TrailOf(rows) \o [i \in 1 .. k |-> <<c, from + i>>]

\* Every step of the log commits one whole run at the end of the trail, or none.
LEMMA NextGrowsTrail ==
    ASSUME IInv, Accounted, TInv, [Next]_vars
    PROVE  /\ \E n \in Nat : Listed(rows', n)
           /\ rows' = rows \/ TrailStep
<1>1. PICK n \in Nat : Listed(rows, n)
  BY DEF TInv
<1>2. Contiguous
  BY DEF Accounted
<1>3. ASSUME NEW x \in Recorders \union Writers, NEW cs, NEW lo,
             Numbered(cs, x, lo), LogEffect(cs), lo <= MaxFrom, Len(cs) <= MaxRun
      PROVE  /\ \E m \in Nat : Listed(rows', m)
             /\ rows' = rows \/ TrailStep
  <2>1. CASE rows' = rows
    BY <1>1, <2>1
  <2>2. CASE rows' # rows
    <3>1. /\ Len(cs) >= 1
          /\ Listed(rows', n + Len(cs))
          /\ TrailOf(rows') = TrailOf(rows) \o [i \in 1 .. Len(cs) |-> <<x, lo + i>>]
      BY <1>1, <1>2, <1>3, <2>2, EffectGrowsTrail
    <3>2. Len(cs) \in Nat /\ lo \in Nat
      BY <1>3 DEF Numbered
    <3>3. MaxFrom \in Nat /\ MaxRun \in Nat
      BY RecorderAssumption, WriterAssumption DEF MaxFrom, MaxRun
    <3>4. Len(cs) \in 1 .. MaxRun /\ lo \in 0 .. MaxFrom /\ n + Len(cs) \in Nat
      BY <1>3, <3>1, <3>2, <3>3
    <3>5. TrailStep
      BY <3>1, <3>4 DEF TrailStep
    <3> QED  BY <3>1, <3>4, <3>5
  <2> QED  BY <2>1, <2>2
<1>4. ASSUME NEW r \in Recorders, RecordStep(r)
      PROVE  /\ \E m \in Nat : Listed(rows', m)
             /\ rows' = rows \/ TrailStep
  <2>1. /\ Numbered(rec[r].commands, r, Before(r)) /\ LogEffect(rec[r].commands)
        /\ calls[r] \in Nat /\ Len(rec[r].commands) \in Nat
    BY <1>4, CallIsAhead, RecordEffect
  <2>2. calls[r] <= MaxCalls /\ Len(rec[r].commands) <= BatchLength
    BY RecorderAssumption DEF IInv, TypeOK, RecorderTypeOK, TInv, BurstsFit
  <2>3. Before(r) <= MaxFrom /\ Len(rec[r].commands) <= MaxRun
    BY <2>1, <2>2, RecorderAssumption, WriterAssumption DEF Before, MaxFrom, MaxRun
  <2> QED  BY <1>3, <2>1, <2>3
<1>5. ASSUME NEW w \in Writers, WriterStep(w)
      PROVE  /\ \E m \in Nat : Listed(rows', m)
             /\ rows' = rows \/ TrailStep
  <2>1. CASE DrainInsert(w) \/ RetryDrain(w) \/ DropBatch(w)
    <3>1. Numbered(flush[w].batch, w, Gone(w)) /\ LogEffect(flush[w].batch)
      BY <2>1, FlushEffect, FlushIsAhead
    <3>2. /\ enqueued[w] \in Nat /\ enqueued[w] <= MaxAccepted /\ Len(queue[w]) \in Nat
          /\ Len(flush[w].batch) <= MaxBatchSize
      BY WriterAssumption DEF IInv, TypeOK, WriterTypeOK, TInv, BurstsFit
    <3>3. Len(flush[w].batch) \in Nat
      BY <3>1 DEF Numbered
    <3>4. Gone(w) <= MaxFrom /\ Len(flush[w].batch) <= MaxRun
      BY <3>2, <3>3, RecorderAssumption, WriterAssumption DEF Gone, MaxFrom, MaxRun
    <3> QED  BY <1>3, <3>1, <3>4
  <2>2. CASE ~(DrainInsert(w) \/ RetryDrain(w) \/ DropBatch(w))
    <3>1. rows' = rows
      BY <1>5, <2>2 DEF WriterStep, Start, Tick, Record, Refuse, DrainRead, DrainCheck, Stop, logVars, dbVars
    <3> QED  BY <1>1, <3>1
  <2> QED  BY <2>1, <2>2
<1>6. CASE UNCHANGED vars
  <2>1. rows' = rows
    BY <1>6 DEF vars, logVars, dbVars
  <2> QED  BY <1>1, <2>1
<1> QED  BY <1>4, <1>5, <1>6 DEF Next

\* A flush that begins takes no more than a batch.
LEMMA FlushFits ==
    ASSUME NEW f, Len(f.batch) <= MaxBatchSize, NEW q \in Seq(Commands)
    PROVE  Len(Flushed(f, q).batch) <= MaxBatchSize
<1>1. CASE f.pc # "idle" \/ q = << >>
  BY <1>1 DEF Flushed
<1>2. CASE ~(f.pc # "idle" \/ q = << >>)
  <2> DEFINE m == IF MaxBatchSize <= Len(q) THEN MaxBatchSize ELSE Len(q)
  <2>1. m \in Nat /\ m <= Len(q) /\ m <= MaxBatchSize
    BY WriterAssumption
  <2>2. Len(SubSeq(q, 1, m)) = m
    BY <2>1
  <2>3. Flushed(f, q).batch = SubSeq(q, 1, m)
    BY <1>2 DEF Flushed, NoFlush, Front
  <2> HIDE DEF m
  <2> QED  BY <2>1, <2>2, <2>3
<1> QED  BY <1>1, <1>2

\* Every step keeps the bursts within their lengths.
LEMMA NextBurstsFit ==
    ASSUME IInv, BurstsFit, [Next]_vars
    PROVE  BurstsFit'
<1>0. /\ BatchLength \in Nat /\ BatchLength >= 1 /\ MaxBatchSize \in Nat
      /\ DOMAIN rec = Recorders /\ DOMAIN flush = Writers
  BY RecorderAssumption, WriterAssumption DEF IInv, TypeOK, RecorderTypeOK, WriterTypeOK
<1>1. ASSUME NEW r \in Recorders, RecordStep(r), UNCHANGED writerVars PROVE BurstsFit'
  <2>1. rec[r] \in Calls
    BY DEF IInv, TypeOK, RecorderTypeOK
  <2>2. \A q \in Recorders : q # r => rec'[q] = rec[q]
    BY <1>0, <1>1 DEF RecordStep, Execute, ExecuteBatch, Begin, ReadHead, CheckHead, RetryRecord, LoseRecord,
       InsertRecord, RecordFails, Abandon, Resolve
  <2>3. Len(rec'[r].commands) <= BatchLength
    <3>1. ASSUME NEW n \in Nat, n <= BatchLength, NEW a, Begin(r, n, a)
          PROVE  Len(rec'[r].commands) <= BatchLength
      <4>1. rec'[r].commands = [i \in 1 .. n |-> <<r, calls[r] + i>>]
        BY <1>0, <3>1 DEF Begin
      <4>2. Len([i \in 1 .. n |-> <<r, calls[r] + i>>]) = n
        OBVIOUS
      <4> QED  BY <3>1, <4>1, <4>2
    <3>2. CASE Execute(r) \/ ExecuteBatch(r)
      BY <1>0, <3>1, <3>2 DEF Execute, ExecuteBatch
    <3>3. CASE ReadHead(r) \/ CheckHead(r) \/ RetryRecord(r)
      <4>1. rec'[r].commands = rec[r].commands
        BY <1>0, <2>1, <3>3 DEF ReadHead, CheckHead, RetryRecord, Calls
      <4> QED  BY <4>1 DEF BurstsFit
    <3>4. CASE LoseRecord(r) \/ InsertRecord(r) \/ RecordFails(r)
      <4>1. rec'[r] = Idle /\ Len(Idle.commands) = 0
        BY <1>0, <3>4 DEF LoseRecord, InsertRecord, RecordFails, Abandon, Resolve, Idle
      <4> QED  BY <1>0, <4>1
    <3> QED  BY <1>1, <3>2, <3>3, <3>4 DEF RecordStep
  <2> QED  BY <1>1, <2>2, <2>3 DEF BurstsFit, writerVars
<1>2. ASSUME NEW w \in Writers, WriterStep(w), UNCHANGED recVars PROVE BurstsFit'
  <2>1. flush[w] \in Flushes /\ queue[w] \in Seq(Commands) /\ enqueued[w] \in Nat
    BY DEF IInv, TypeOK, WriterTypeOK
  <2>2. \A x \in Writers : x # w => flush'[x] = flush[x]
    BY <1>0, <1>2 DEF WriterStep, Start, Tick, Record, Refuse, DrainRead, DrainCheck, DrainInsert, RetryDrain,
       DropBatch, EndFlush, Stop
  <2>3. \/ flush'[w].batch = flush[w].batch
        \/ flush'[w] = NoFlush
        \/ \E q \in Seq(Commands) : flush'[w] \in {Flushed(flush[w], q), Flushed(NoFlush, q)}
    <3>1. CASE Start(w) \/ Refuse(w)
      BY <3>1 DEF Start, Refuse
    <3>2. CASE Tick(w)
      BY <1>0, <2>1, <3>2 DEF Tick
    <3>3. CASE Record(w)
      <4>1. Append(queue[w], <<w, enqueued[w] + 1>>) \in Seq(Commands)
        <5>1. <<w, enqueued[w] + 1>> \in Commands
          BY <2>1, <3>3, WriterAssumption DEF Record, Commands, WriterCommands
        <5> QED  BY <2>1, <5>1
      <4> DEFINE new == Append(queue[w], <<w, enqueued[w] + 1>>)
      <4>2. flush'[w] = IF Len(new) >= MaxBatchSize THEN Flushed(flush[w], new) ELSE flush[w]
        BY <1>0, <3>3 DEF Record
      <4> HIDE DEF new
      <4> QED  BY <4>1, <4>2 DEF new
    <3>4. CASE DrainRead(w) \/ DrainCheck(w) \/ RetryDrain(w)
      BY <1>0, <2>1, <3>4 DEF DrainRead, DrainCheck, RetryDrain, Flushes
    <3>5. CASE DrainInsert(w) \/ DropBatch(w)
      <4> DEFINE q == Splice(queue[w], Len(flush[w].batch))
      <4>1. flush[w].batch \in Seq(Commands)
        BY <2>1 DEF Flushes
      <4>2. q \in Seq(Commands)
        BY <2>1, <4>1, SpliceType
      <4>3. flush'[w] \in {NoFlush, Flushed(NoFlush, q)}
        BY <1>0, <3>5 DEF DrainInsert, DropBatch, EndFlush
      <4> HIDE DEF q
      <4> QED  BY <4>2, <4>3
    <3>6. CASE Stop(w)
      BY <1>0, <2>1, <3>6 DEF Stop
    <3> QED  BY <1>2, <3>1, <3>2, <3>3, <3>4, <3>5, <3>6 DEF WriterStep
  <2>4. Len(NoFlush.batch) <= MaxBatchSize
    BY <1>0 DEF NoFlush
  <2>5. Len(flush[w].batch) <= MaxBatchSize
    BY DEF BurstsFit
  <2>6. Len(flush'[w].batch) <= MaxBatchSize
    BY <2>3, <2>4, <2>5, FlushFits
  <2> QED  BY <1>2, <2>2, <2>6 DEF BurstsFit, recVars
<1>3. CASE UNCHANGED vars
  BY <1>3 DEF vars, recVars, writerVars, BurstsFit
<1> QED  BY <1>1, <1>2, <1>3 DEF Next

\* The table begins empty.
LEMMA InitTrail == Init => TInv /\ TrailOf(rows) = << >>
<1> SUFFICES ASSUME Init PROVE TInv /\ TrailOf(rows) = << >>
  OBVIOUS
<1>1. rows = {} /\ Cardinality(rows) = 0
  BY FS_EmptySet DEF Init, LogInit
<1>2. Listed(rows, 0)
  BY <1>1 DEF Listed
<1>3. TrailOf(rows) = << >>
  BY <1>1 DEF TrailOf
<1>4. BurstsFit
  BY RecorderAssumption, WriterAssumption DEF Init, RecordInit, WriterInit, Idle, NoFlush, BurstsFit
<1> QED  BY <1>2, <1>3, <1>4 DEF TInv

\* The log refines an append-only trail of whole runs: nothing stored is ever removed, reordered
\* or cut short, whoever writes, and each commit adds consecutive commands of one process.
THEOREM LogRefinesTrail == Spec => RefinesTrail
<1> DEFINE T == [i \in 1 .. Cardinality(rows) |-> Stored[i].content]
<1>1. T = TrailOf(rows) /\ T' = TrailOf(rows')
  BY DEF TrailOf, Nth, Stored
<1>2. Init => T = << >>
  BY <1>1, InitTrail
<1>3. TrailStep => Trail!TrailNext
  <2> SUFFICES ASSUME NEW c \in Recorders \union Writers, NEW from \in 0 .. MaxFrom, NEW k \in 1 .. MaxRun,
                      TrailOf(rows') = TrailOf(rows) \o [i \in 1 .. k |-> <<c, from + i>>]
               PROVE  Trail!TrailNext
    BY DEF TrailStep
  <2> DEFINE run == [i \in 1 .. k |-> <<c, from + i>>]
  <2>1. T' = T \o run
    BY <1>1
  <2>2. Trail!Commit(c, from, k)
    BY <2>1 DEF Trail!Commit
  <2> QED  BY <2>2 DEF Trail!TrailNext, MaxFrom, MaxRun
<1>4. IInv /\ Accounted /\ TInv /\ [Next]_vars => TInv' /\ [Trail!TrailNext]_T
  BY <1>1, <1>3, NextGrowsTrail, NextBurstsFit DEF TInv
<1>5. Init => TInv
  BY InitTrail
<1> QED  BY <1>2, <1>4, <1>5, SpecIInv, SpecAccounted, PTL
         DEF Spec, RefinesTrail, Trail!TrailSpec, Trail!TrailInit
=============================================================================
