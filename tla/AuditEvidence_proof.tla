------------------------- MODULE AuditEvidence_proof -------------------------
(***************************************************************************)
(* What holds of the evidence for any number of processes, entries,       *)
(* transactions, calls and faults.                                         *)
(*                                                                         *)
(* Receipts (NoFalseProof).  Between the ledger's answer and the insert a  *)
(* receipt exists only in its call.  The strengthening says of it what     *)
(* NoFalseProof says of a row: it names a transaction with the hash of the *)
(* head the call read, and no row and no other call has a receipt for it.  *)
(*                                                                         *)
(* The alarm (RefusalIsLoud).  The strengthening relates the kind that the *)
(* next alert is compared with to what the operator heard last.            *)
(*                                                                         *)
(* Reads and verdicts (ReadsAreExact, VerificationIsSound).  EInv says of  *)
(* the log what an edit cannot take from it and, until there is one, that  *)
(* its digests are valid; and of each call what it has read so far.        *)
(***************************************************************************)
EXTENDS AuditEvidence, FiniteSetTheorems, TLAPS

\* The ledger is a sequence, and a call a record with a program counter.
Shapes ==
    /\ Len(ledger) \in Nat
    /\ ledger = [i \in 1 .. Len(ledger) |-> ledger[i]]
    /\ op = [p \in Procs |-> op[p]]
    /\ \A p \in Procs : "pc" \in DOMAIN op[p]

Holds(p) == op[p].pc = "save"

\* What a call that has its receipt and has not stored it knows.
HeldIsTrue ==
    \A p \in Procs : Holds(p) =>
        /\ op[p].ref \in DOMAIN ledger
        /\ ledger[op[p].ref] = op[p].head.hash
        /\ \A r \in records : r.ref # op[p].ref

HeldOnce == \A p, q \in Procs : Holds(p) /\ Holds(q) /\ p # q => op[p].ref # op[q].ref

IInv == Shapes /\ HeldIsTrue /\ HeldOnce /\ NoFalseProof

-----------------------------------------------------------------------------
\* Nothing is anchored and nobody is anchoring when the log is new (Init).
LEMMA InitHolds == Init => IInv
<1> SUFFICES ASSUME Init PROVE IInv
  OBVIOUS
<1>1. Shapes
  BY DEF Init, Shapes, Idle
<1>2. HeldIsTrue /\ HeldOnce
  BY DEF Init, HeldIsTrue, HeldOnce, Holds, Idle
<1>3. NoFalseProof
  BY DEF Init, NoFalseProof
<1> QED
  BY <1>1, <1>2, <1>3 DEF IInv

\* A step that touches neither the ledger nor the receipts, and after which nobody holds a
\* receipt that he did not hold before, keeps the invariant.
LEMMA QuietStepKeeps ==
  ASSUME IInv, UNCHANGED <<records, ledger>>,
         op' = [p \in Procs |-> op'[p]],
         \A p \in Procs : "pc" \in DOMAIN op'[p],
         \A p \in Procs : Holds(p)' => Holds(p) /\ op'[p].ref = op[p].ref /\ op'[p].head = op[p].head
  PROVE  IInv'
<1>1. Shapes'
  BY DEF IInv, Shapes
<1>2. HeldIsTrue' /\ HeldOnce'
  BY DEF IInv, HeldIsTrue, HeldOnce
<1>3. NoFalseProof'
  BY DEF IInv, NoFalseProof
<1> QED
  BY <1>1, <1>2, <1>3 DEF IInv

\* Every handler but two moves one call on, to a step that is not the insert of a receipt.
LEMMA GotoKeeps ==
  ASSUME IInv, NEW p \in Procs, NEW c, Goto(p, c), c.pc # "save", "pc" \in DOMAIN c,
         UNCHANGED <<records, ledger>>
  PROVE  IInv'
<1>1. /\ op' = [q \in Procs |-> op'[q]]
      /\ op'[p] = c
      /\ \A q \in Procs : q # p => op'[q] = op[q]
  BY DEF Goto, IInv, Shapes
<1>2. \A q \in Procs : "pc" \in DOMAIN op'[q]
  BY <1>1 DEF IInv, Shapes
<1>3. \A q \in Procs : Holds(q)' => Holds(q) /\ op'[q].ref = op[q].ref /\ op'[q].head = op[q].head
  BY <1>1 DEF Holds
<1> QED
  BY <1>1, <1>2, <1>3, QuietStepKeeps

\* Between two calls a process holds nothing.
LEMMA ReturnKeeps ==
  ASSUME IInv, NEW p \in Procs, Return(p), UNCHANGED <<records, ledger>> PROVE IInv'
<1>1. Goto(p, Idle) /\ Idle.pc # "save" /\ "pc" \in DOMAIN Idle
  BY DEF Return, Idle
<1> QED
  BY <1>1, GotoKeeps

\* A step that changes neither tables nor calls.
LEMMA NoCallKeeps == ASSUME IInv, UNCHANGED <<records, ledger, op>> PROVE IInv'
<1>1. op' = op /\ op = [p \in Procs |-> op[p]] /\ \A p \in Procs : "pc" \in DOMAIN op[p]
  BY DEF IInv, Shapes
<1>2. op' = [p \in Procs |-> op'[p]] /\ \A p \in Procs : "pc" \in DOMAIN op'[p]
  BY <1>1
<1>3. \A p \in Procs : Holds(p)' => Holds(p) /\ op'[p].ref = op[p].ref /\ op'[p].head = op[p].head
  BY <1>1 DEF Holds
<1> QED
  BY <1>2, <1>3, QuietStepKeeps

\* Every call has a program counter, so an EXCEPT on it takes effect.
LEMMA ProgramCounter ==
  ASSUME IInv, NEW p \in Procs
  PROVE  "pc" \in DOMAIN op[p]
  BY DEF IInv, Shapes

-----------------------------------------------------------------------------
(* AnchorAuditLog                                                          *)

\* The ledger's answer is the only way to a receipt, and its transaction is new: nobody can
\* have a receipt for it yet (StellarHashAnchor.anchor).
LEMMA AcceptedKeeps == ASSUME IInv, NEW p \in Procs, Accepted(p) PROVE IInv'
<1> DEFINE ref == Len(ledger) + 1
           head == op[p].head
<1>1. PICK answered \in BOOLEAN : Goto(p, Receipt(op[p], answered))
  BY DEF Accepted
<1>2. UNCHANGED records /\ ledger' = Append(ledger, head.hash)
  BY DEF Accepted
<1>3. /\ Len(ledger') = ref /\ Len(ledger') \in Nat
      /\ ledger' = [i \in 1 .. Len(ledger') |-> ledger'[i]]
      /\ ledger'[ref] = head.hash
      /\ \A i \in DOMAIN ledger : i \in DOMAIN ledger' /\ ledger'[i] = ledger[i]
      /\ ref \in DOMAIN ledger' /\ ref \notin DOMAIN ledger
  <2> DEFINE S == {ledger[i] : i \in 1 .. Len(ledger)} \union {head.hash}
  <2>1. ledger \in Seq(S) /\ head.hash \in S
    BY DEF IInv, Shapes
  <2> HIDE DEF S
  <2> QED
    BY <1>2, <2>1
<1>4. /\ op' = [q \in Procs |-> op'[q]]
      /\ op'[p] = Receipt(op[p], answered)
      /\ \A q \in Procs : q # p => op'[q] = op[q]
  BY <1>1 DEF Goto, IInv, Shapes
<1>5. /\ "pc" \in DOMAIN op'[p]
      /\ Holds(p)' => op'[p].ref = ref /\ op'[p].head = head
  BY <1>4 DEF Receipt, Idle, Holds
<1>6. Shapes'
  BY <1>3, <1>4, <1>5 DEF IInv, Shapes
<1>7. \A q \in Procs : q # p /\ Holds(q)' => Holds(q) /\ op'[q] = op[q] /\ op[q].ref # ref
  BY <1>3, <1>4 DEF IInv, HeldIsTrue, Holds
<1>8. \A r \in records : r.ref # ref
  BY <1>3 DEF IInv, NoFalseProof
<1>9. HeldIsTrue'
  <2> SUFFICES ASSUME NEW q \in Procs, Holds(q)'
               PROVE  /\ op'[q].ref \in DOMAIN ledger'
                      /\ ledger'[op'[q].ref] = op'[q].head.hash
                      /\ \A r \in records : r.ref # op'[q].ref
    BY <1>2 DEF HeldIsTrue
  <2>1. CASE q = p
    BY <2>1, <1>3, <1>5, <1>8
  <2>2. CASE q # p
    BY <2>2, <1>3, <1>7 DEF IInv, HeldIsTrue
  <2> QED
    BY <2>1, <2>2
<1>10. HeldOnce'
  BY <1>5, <1>7 DEF IInv, HeldOnce
<1>11. NoFalseProof'
  BY <1>2, <1>3 DEF IInv, NoFalseProof
<1> QED
  BY <1>6, <1>9, <1>10, <1>11 DEF IInv

\* The insert hands a receipt over from the call to the table (AnchorAuditLog.execute).
LEMMA SaveRecordKeeps == ASSUME IInv, NEW p \in Procs, SaveRecord(p) PROVE IInv'
<1> DEFINE c == op[p]
           receipt == [sequence |-> c.head.sequence, chainHash |-> c.head.hash, ref |-> c.ref]
<1>1. Holds(p) /\ Return(p) /\ UNCHANGED ledger
  BY DEF SaveRecord, Holds
<1>2. records' = records \/ records' = records \union {receipt}
  BY DEF SaveRecord
<1>3. CASE records' = records
  BY <1>1, <1>3, ReturnKeeps
<1>4. CASE records' = records \union {receipt}
  <2>1. /\ op' = [q \in Procs |-> op'[q]]
        /\ op'[p] = Idle
        /\ \A q \in Procs : q # p => op'[q] = op[q]
    BY <1>1 DEF Return, Goto, IInv, Shapes
  <2>2. ~Holds(p)' /\ "pc" \in DOMAIN op'[p]
    BY <2>1 DEF Holds, Idle
  <2>3. Shapes'
    BY <1>1, <2>1, <2>2 DEF IInv, Shapes
  <2>4. \A q \in Procs : Holds(q)' => q # p /\ Holds(q) /\ op'[q] = op[q]
    BY <2>1, <2>2 DEF Holds
  <2>5. HeldIsTrue'
    BY <1>1, <1>4, <2>4 DEF IInv, HeldIsTrue, HeldOnce
  <2>6. HeldOnce'
    BY <2>4 DEF IInv, HeldOnce
  <2>7. NoFalseProof'
    BY <1>1, <1>4 DEF IInv, NoFalseProof, HeldIsTrue
  <2> QED
    BY <2>3, <2>5, <2>6, <2>7 DEF IInv
<1> QED
  BY <1>2, <1>3, <1>4

\* The steps up to the submission, and those that end without a receipt.
LEMMA AnchoringKeeps ==
  ASSUME IInv, NEW p \in Procs,
         \/ \E guarded \in BOOLEAN : AnchorAuditLog(p, guarded)
         \/ ReadPrevious(p) \/ GuardReads(p) \/ GuardJudges(p)
         \/ SubmitFails(p) \/ Rejected(p) \/ Reported(p)
  PROVE  IInv'
<1>1. ASSUME NEW guarded \in BOOLEAN, AnchorAuditLog(p, guarded) PROVE IInv'
  <2> DEFINE c == IF log = << >> THEN Idle ELSE [pc |-> "previous", head |-> ChainHead, guarded |-> guarded]
  <2>1. Goto(p, c) /\ UNCHANGED <<records, ledger>>
    BY <1>1 DEF AnchorAuditLog, Begin, evidence
  <2>2. c.pc # "save" /\ "pc" \in DOMAIN c
    BY DEF Idle
  <2> HIDE DEF c
  <2> QED
    BY <2>1, <2>2, GotoKeeps
<1>2. CASE ReadPrevious(p)
  <2> DEFINE c == [op[p] EXCEPT !.pc = IF op[p].guarded THEN "guard" ELSE "submit"]
  <2>1. (Return(p) \/ Goto(p, c)) /\ UNCHANGED <<records, ledger>>
    BY <1>2 DEF ReadPrevious, evidence
  <2>2. c.pc # "save" /\ "pc" \in DOMAIN c
    BY ProgramCounter
  <2> HIDE DEF c
  <2> QED
    BY <2>1, <2>2, GotoKeeps, ReturnKeeps
<1>3. CASE GuardReads(p)
  <2>1. PICK reading : Goto(p, [pc |-> "judge", head |-> op[p].head, guarded |-> TRUE, reading |-> reading])
    BY <1>3 DEF GuardReads
  <2>2. UNCHANGED <<records, ledger>>
    BY <1>3 DEF GuardReads, evidence
  <2> QED
    BY <2>1, <2>2, GotoKeeps
<1>4. CASE GuardJudges(p)
  <2>1. /\ \/ Goto(p, [pc |-> "submit", head |-> op[p].head, guarded |-> TRUE])
           \/ Goto(p, [pc |-> "declined"])
        /\ UNCHANGED <<records, ledger>>
    BY <1>4 DEF GuardJudges, evidence
  <2> QED
    BY <2>1, GotoKeeps
<1>5. CASE SubmitFails(p)
  BY <1>5, ReturnKeeps DEF SubmitFails, evidence
<1>6. CASE Rejected(p)
  <2>1. /\ Goto(p, [pc |-> "reported"]) \/ Goto(p, Idle)
        /\ UNCHANGED <<records, ledger>>
    BY <1>6 DEF Rejected, Receipt, evidence
  <2>2. Idle.pc # "save" /\ "pc" \in DOMAIN Idle
    BY DEF Idle
  <2> QED
    BY <2>1, <2>2, GotoKeeps
<1>7. CASE Reported(p)
  BY <1>7, ReturnKeeps DEF Reported, evidence
<1> QED
  BY <1>1, <1>2, <1>3, <1>4, <1>5, <1>6, <1>7

-----------------------------------------------------------------------------
(* Reading and verifying                                                   *)

\* QueryAuditEvents, ExportAuditEvents and ApplyAuditRetentionPolicy know no receipts.
LEMMA ReadingKeeps ==
  ASSUME IInv, NEW p \in Procs,
         \/ \E ask \in Asks : StartRead(p, ask) \/ ApplyAuditRetentionPolicy(p, ask)
         \/ RecordRead(p) \/ ReadPage(p)
  PROVE  IInv'
<1>1. ASSUME NEW ask \in Asks, StartRead(p, ask) \/ ApplyAuditRetentionPolicy(p, ask) PROVE IInv'
  <2>1. /\ Goto(p, NewRead("record", ask)) \/ Goto(p, NewRead("page", ask))
        /\ UNCHANGED <<records, ledger>>
    BY <1>1 DEF StartRead, ApplyAuditRetentionPolicy, Begin, evidence
  <2>2. \A pc \in {"record", "page"} :
          NewRead(pc, ask).pc # "save" /\ "pc" \in DOMAIN NewRead(pc, ask)
    BY DEF NewRead
  <2> QED
    BY <2>1, <2>2, GotoKeeps
<1>2. CASE RecordRead(p)
  <2> DEFINE c == [op[p] EXCEPT !.pc = "page"]
  <2>1. (Goto(p, c) \/ Goto(p, Idle)) /\ UNCHANGED <<records, ledger>>
    BY <1>2 DEF RecordRead, evidence
  <2>2. c.pc # "save" /\ "pc" \in DOMAIN c /\ Idle.pc # "save" /\ "pc" \in DOMAIN Idle
    BY ProgramCounter DEF Idle
  <2> HIDE DEF c
  <2> QED
    BY <2>1, <2>2, GotoKeeps
<1>3. CASE ReadPage(p)
  <2>1. \/ \E got, cursor : Goto(p, [op[p] EXCEPT !.pc = "read", !.got = got, !.cursor = cursor])
        \/ \E pc, got, cursor : /\ pc # "save"
                                /\ Goto(p, [op[p] EXCEPT !.pc = pc, !.got = got, !.cursor = cursor])
    BY <1>3 DEF ReadPage
  <2>2. ASSUME NEW pc, NEW got, NEW cursor, pc # "save",
               Goto(p, [op[p] EXCEPT !.pc = pc, !.got = got, !.cursor = cursor])
        PROVE  IInv'
    <3> DEFINE c == [op[p] EXCEPT !.pc = pc, !.got = got, !.cursor = cursor]
    <3>1. c.pc # "save" /\ "pc" \in DOMAIN c
      BY <2>2, ProgramCounter
    <3>2. Goto(p, c) /\ UNCHANGED <<records, ledger>>
      BY <1>3, <2>2 DEF ReadPage, evidence
    <3> HIDE DEF c
    <3> QED
      BY <3>1, <3>2, GotoKeeps
  <2> QED
    BY <2>1, <2>2
<1> QED
  BY <1>1, <1>2, <1>3

\* Verification reads the receipts and the ledger, and writes neither (VerifyAuditChain).
LEMMA VerifyingKeeps ==
  ASSUME IInv, NEW p \in Procs,
         \/ \E window \in Windows : VerifyAuditChain(p, window)
         \/ WalkBatch(p) \/ CheckAnchor(p) \/ ReportVerification(p)
  PROVE  IInv'
<1>1. ASSUME NEW window \in Windows, VerifyAuditChain(p, window) PROVE IInv'
  <2>1. UNCHANGED <<records, ledger>>
    BY <1>1 DEF VerifyAuditChain, evidence
  <2>2. \E from, batch, cursor, seeded, receipts, previous :
          Goto(p, [pc |-> "walk", from |-> from, batch |-> batch, cursor |-> cursor,
                   quiet |-> TRUE, seeded |-> seeded, receipts |-> receipts,
                   previous |-> previous, break |-> NoBreak, hashes |-> << >>, checks |-> << >>])
    BY <1>1 DEF VerifyAuditChain, Begin
  <2> QED
    BY <2>1, <2>2, GotoKeeps
<1>2. CASE WalkBatch(p)
  <2>1. UNCHANGED <<records, ledger>>
    BY <1>2 DEF WalkBatch, evidence
  <2>2. \/ Goto(p, [op[p] EXCEPT !.pc = "check"])
        \/ \E pc \in {"walk", "check"} : \E previous, cursor, break, hashes :
             Goto(p, [op[p] EXCEPT !.pc = pc, !.previous = previous, !.cursor = cursor,
                                   !.break = break, !.hashes = hashes])
    BY <1>2 DEF WalkBatch
  <2>3. CASE Goto(p, [op[p] EXCEPT !.pc = "check"])
    BY <2>1, <2>3, ProgramCounter, GotoKeeps
  <2>4. ASSUME NEW pc \in {"walk", "check"}, NEW previous, NEW cursor, NEW break, NEW hashes,
               Goto(p, [op[p] EXCEPT !.pc = pc, !.previous = previous, !.cursor = cursor,
                                     !.break = break, !.hashes = hashes])
        PROVE  IInv'
    <3> DEFINE c == [op[p] EXCEPT !.pc = pc, !.previous = previous, !.cursor = cursor,
                                  !.break = break, !.hashes = hashes]
    <3>1. c.pc # "save" /\ "pc" \in DOMAIN c
      BY ProgramCounter
    <3>2. Goto(p, c)
      BY <2>4
    <3> HIDE DEF c
    <3> QED
      BY <2>1, <3>1, <3>2, GotoKeeps
  <2> QED
    BY <2>2, <2>3, <2>4
<1>3. CASE CheckAnchor(p)
  <2>1. UNCHANGED <<records, ledger>> /\ op[p].pc = "check"
    BY <1>3 DEF CheckAnchor, evidence
  <2>2. PICK checks : Goto(p, [op[p] EXCEPT !.checks = checks])
    BY <1>3 DEF CheckAnchor
  <2> QED
    BY <2>1, <2>2, ProgramCounter, GotoKeeps
<1>4. CASE ReportVerification(p)
  <2>1. UNCHANGED <<records, ledger>> /\ Goto(p, [op[p] EXCEPT !.pc = "verified"])
    BY <1>4 DEF ReportVerification, evidence
  <2> QED
    BY <2>1, ProgramCounter, GotoKeeps
<1> QED
  BY <1>1, <1>2, <1>3, <1>4

-----------------------------------------------------------------------------
\* What goes on around the calls: entries, edits behind the application's back, deposits, the
\* monitor's interval, and a crash, which loses a receipt at worst and never makes one up.
LEMMA SurroundingsKeep == ASSUME IInv, Surroundings PROVE IInv'
<1>1. ASSUME NEW e \in Events, RecordEvent(e) PROVE IInv'
  BY <1>1, NoCallKeeps DEF RecordEvent
<1>2. ASSUME NEW i \in DOMAIN log, NEW rederive \in BOOLEAN, Rewrite(i, rederive) PROVE IInv'
  <2>1. /\ UNCHANGED <<records, ledger>>
        /\ op' = [p \in Procs |-> IF "quiet" \in DOMAIN op[p] THEN [op[p] EXCEPT !.quiet = FALSE] ELSE op[p]]
    BY <1>2 DEF Rewrite
  <2>2. \A p \in Procs : /\ "pc" \in DOMAIN op'[p]
                         /\ op'[p].pc = op[p].pc
    BY <2>1 DEF IInv, Shapes
  <2>3. \A p \in Procs : Holds(p)' => Holds(p) /\ op'[p].ref = op[p].ref /\ op'[p].head = op[p].head
    BY <2>1, <2>2 DEF Holds
  <2> QED
    BY <2>1, <2>2, <2>3, QuietStepKeeps
<1>3. ASSUME NEW amount \in Deposits, TopUp(amount) PROVE IInv'
  BY <1>3, NoCallKeeps DEF TopUp, evidence
<1>4. CASE TimerReads \/ TimerJudges
  BY <1>4, NoCallKeeps DEF TimerReads, TimerJudges, evidence
<1>5. CASE Crash
  <2>1. UNCHANGED <<records, ledger>> /\ op' = [p \in Procs |-> Idle]
    BY <1>5 DEF Crash, evidence
  <2>2. \A p \in Procs : ~Holds(p)' /\ "pc" \in DOMAIN op'[p]
    BY <2>1 DEF Holds, Idle
  <2> QED
    BY <2>1, <2>2, QuietStepKeeps
<1> QED
  BY <1>1, <1>2, <1>3, <1>4, <1>5 DEF Surroundings

\* Every step keeps the invariant.
LEMMA StepKeeps == IInv /\ [Next]_vars => IInv'
<1> SUFFICES ASSUME IInv, [Next]_vars PROVE IInv'
  OBVIOUS
<1>1. CASE UNCHANGED vars
  BY <1>1, NoCallKeeps DEF vars, evidence
<1>2. ASSUME NEW p \in Procs, Works(p) PROVE IInv'
  <2>1. CASE Done(p)
    BY <2>1, ReturnKeeps DEF Done, evidence
  <2> QED
    BY <1>2, <2>1, AcceptedKeeps, SaveRecordKeeps, AnchoringKeeps, ReadingKeeps, VerifyingKeeps DEF Works
<1>3. CASE Surroundings
  BY <1>3, SurroundingsKeep
<1> QED
  BY <1>1, <1>2, <1>3 DEF Next

\* Whatever is lost, refused or cut off, and however many calls anchor at once, every stored
\* receipt names a transaction that carries its hash and no two name the same one
\* (AnchorAuditLog.execute, StellarHashAnchor.anchor).
THEOREM ReceiptsAreProof == Spec => []NoFalseProof
<1>1. IInv => NoFalseProof
  BY DEF IInv
<1> QED
  BY <1>1, InitHolds, StepKeeps, PTL DEF Spec

-----------------------------------------------------------------------------
(* The alarm.  Alerts are compared with lastAlertedKind, so the invariant   *)
(* has to say what that kind stands for: unless the monitor is muted, a     *)
(* problem remembered there is one that the operator heard of last.         *)

Voiced == ~muted /\ lastAlertedKind \in Problems => delivered \in Problems

\* Checks by the interval and by the guard, rejections and restarts keep the alarm true.
LEMMA VoicedStays == Voiced /\ [Next]_vars => Voiced'
<1> SUFFICES ASSUME Voiced, [Next]_vars PROVE Voiced'
  OBVIOUS
<1>1. ASSUME UNCHANGED monitor PROVE Voiced'
  BY <1>1 DEF Voiced, monitor
<1>2. ASSUME NEW kind, NEW force, NEW arrives, Raise(kind, force, arrives) PROVE Voiced'
  BY <1>2 DEF Voiced, Raise, Remember
<1>3. ASSUME NEW reading, NEW arrives, Check(reading, arrives) PROVE Voiced'
  BY <1>2, <1>3 DEF Check
<1>4. ASSUME NEW p \in Procs, Works(p) PROVE Voiced'
  <2>1. CASE GuardJudges(p)
    BY <2>1, <1>3 DEF GuardJudges
  <2>2. CASE Rejected(p)
    BY <2>2, <1>1, <1>2 DEF Rejected, ReportRejection, monitor
  <2>3. CASE Reported(p)
    BY <2>3 DEF Reported, SettleRejection, Voiced
  <2>4. CASE UNCHANGED monitor
    BY <2>4, <1>1
  <2> QED
    BY <1>4, <2>1, <2>2, <2>3, <2>4
    DEF Works, account, AnchorAuditLog, ReadPrevious, GuardReads, SubmitFails, Accepted, SaveRecord,
        StartRead, ApplyAuditRetentionPolicy, RecordRead, ReadPage,
        VerifyAuditChain, WalkBatch, CheckAnchor, ReportVerification, Done
<1>5. ASSUME Surroundings PROVE Voiced'
  <2>1. CASE TimerJudges
    BY <2>1, <1>3 DEF TimerJudges
  <2>2. CASE Crash
    BY <2>2 DEF Crash, MonitorRestart, Voiced, Problems
  <2>3. CASE UNCHANGED monitor
    BY <2>3, <1>1
  <2> QED
    BY <1>5, <2>1, <2>2, <2>3 DEF Surroundings, RecordEvent, Rewrite, TopUp, TimerReads, account
<1>6. CASE UNCHANGED vars
  BY <1>6, <1>1 DEF vars, account
<1> QED
  BY <1>4, <1>5, <1>6 DEF Next

\* A check that does not find the account funded has raised a problem, or had raised it
\* already and it is still the last that was heard (AnchorBalanceMonitor.check, #raise).
LEMMA BadNewsIsHeard ==
  ASSUME Voiced, NEW reading, NEW arrives \in BOOLEAN, Check(reading, arrives), ~muted',
         ~(arrives /\ Cleared(Classify(reading)))
  PROVE  delivered' \in Problems
<1> DEFINE status == Classify(reading)
           kind == AlertFor(status)
<1>1. Raise(kind, FALSE, arrives)
  BY DEF Check
<1>2. arrives
  BY <1>1 DEF Raise
<1>3. status \in {"unknown", "unfundable", "below_threshold"}
  BY <1>2 DEF Classify, Cleared
<1>4. kind \in Problems \ {"none"}
  BY <1>3 DEF AlertFor, Problems
<1> HIDE DEF kind
<1>5. CASE lastAlertedKind = kind
  BY <1>1, <1>4, <1>5 DEF Raise, Voiced
<1>6. CASE lastAlertedKind # kind
  BY <1>1, <1>2, <1>4, <1>6 DEF Raise
<1> QED
  BY <1>5, <1>6

\* Only the judgement of a reading declines an anchoring (beforeAnchor).
LEMMA OnlyJudgingDeclines ==
  ASSUME IInv, Next, NEW p \in Procs, op[p].pc = "judge", op'[p].pc = "declined"
  PROVE  GuardJudges(p)
<1>1. ASSUME NEW q \in Procs, NEW c, Goto(q, c) PROVE q = p
  BY <1>1 DEF Goto, IInv, Shapes
<1>2. ASSUME NEW q \in Procs, Works(q) PROVE GuardJudges(p)
  <2>1. q = p
    BY <1>1, <1>2
    DEF Works, Begin, Return, AnchorAuditLog, ReadPrevious, GuardReads, GuardJudges, SubmitFails, Accepted,
        Rejected, Reported, SaveRecord, StartRead, ApplyAuditRetentionPolicy, RecordRead, ReadPage,
        VerifyAuditChain, WalkBatch, CheckAnchor, ReportVerification, Done
  <2> QED
    BY <1>2, <2>1
    DEF Works, Begin, AnchorAuditLog, ReadPrevious, GuardReads, SubmitFails, Accepted,
        Rejected, Reported, SaveRecord, StartRead, ApplyAuditRetentionPolicy, RecordRead, ReadPage,
        VerifyAuditChain, WalkBatch, CheckAnchor, ReportVerification, Done
<1>3. ASSUME Surroundings PROVE FALSE
  <2>1. ASSUME NEW i \in DOMAIN log, NEW rederive \in BOOLEAN, Rewrite(i, rederive) PROVE FALSE
    BY <2>1 DEF Rewrite, IInv, Shapes
  <2>2. CASE Crash
    BY <2>2 DEF Crash, Idle
  <2>3. CASE UNCHANGED op
    BY <2>3
  <2> QED
    BY <1>3, <2>1, <2>2, <2>3 DEF Surroundings, RecordEvent, TopUp, TimerReads, TimerJudges
<1> QED
  BY <1>2, <1>3 DEF Next

\* A guard that declines to anchor has made itself heard: the operator's last news is a
\* problem, however checks by the interval, rejections and restarts interleave with it
\* (AnchorBalanceMonitor.beforeAnchor).
THEOREM RefusalsAreLoud == Spec => RefusalIsLoud
<1>1. Init => IInv /\ Voiced
  BY InitHolds DEF Init, MonitorInit, Voiced, Problems
<1>2. IInv /\ Voiced /\ [Next]_vars => (IInv /\ Voiced)'
  BY StepKeeps, VoicedStays
<1>3. IInv /\ Voiced /\ [Next]_vars =>
        [\A p \in Procs : op[p].pc = "judge" /\ op'[p].pc = "declined" /\ ~muted' => delivered' \in Problems]_vars
  <2> SUFFICES ASSUME IInv, Voiced, Next, NEW p \in Procs, op[p].pc = "judge", op'[p].pc = "declined", ~muted'
               PROVE  delivered' \in Problems
    OBVIOUS
  <2>1. GuardJudges(p)
    BY OnlyJudgingDeclines
  <2>2. PICK arrives \in BOOLEAN :
          /\ Check(op[p].reading, arrives)
          /\ Goto(p, IF arrives /\ Cleared(Classify(op[p].reading))
                     THEN [pc |-> "submit", head |-> op[p].head, guarded |-> TRUE]
                     ELSE [pc |-> "declined"])
    BY <2>1 DEF GuardJudges
  <2>3. ~(arrives /\ Cleared(Classify(op[p].reading)))
    BY <2>2 DEF Goto, IInv, Shapes
  <2> QED
    BY <2>2, <2>3, BadNewsIsHeard
<1> QED
  BY <1>1, <1>2, <1>3, PTL DEF Spec, RefusalIsLoud

-----------------------------------------------------------------------------
(* Facts about sequences that the provers are slow to find.                *)

LEMMA FunctionIsSequence ==
  ASSUME NEW D, NEW n \in Nat, NEW f \in [1 .. n -> D]
  PROVE  f \in Seq(D) /\ Len(f) = n
  OBVIOUS

LEMMA Concatenated ==
  ASSUME NEW D, NEW s \in Seq(D), NEW t \in Seq(D)
  PROVE  /\ s \o t \in Seq(D) /\ Len(s \o t) = Len(s) + Len(t)
         /\ \A k \in 1 .. Len(s) : (s \o t)[k] = s[k]
         /\ \A k \in 1 .. Len(t) : (s \o t)[Len(s) + k] = t[k]
  OBVIOUS

LEMMA AppendedTo ==
  ASSUME NEW D, NEW s \in Seq(D), NEW x \in D
  PROVE  /\ Append(s, x) \in Seq(D) /\ Len(Append(s, x)) = Len(s) + 1
         /\ Append(s, x)[Len(s) + 1] = x
         /\ \A k \in 1 .. Len(s) : Append(s, x)[k] = s[k]
  OBVIOUS

LEMMA SameSequence ==
  ASSUME NEW D, NEW s \in Seq(D), NEW t \in Seq(D), Len(s) = Len(t),
         \A k \in 1 .. Len(s) : s[k] = t[k]
  PROVE  s = t
  OBVIOUS

LEMMA AppendLast ==
  ASSUME NEW D, NEW s \in Seq(D), NEW t \in Seq(D), NEW x \in D
  PROVE  s \o Append(t, x) = Append(s \o t, x)
<1> DEFINE l == s \o Append(t, x)
           r == Append(s \o t, x)
<1>1. Append(t, x) \in Seq(D) /\ Len(Append(t, x)) = Len(t) + 1
  BY AppendedTo
<1>2. l \in Seq(D) /\ Len(l) = Len(s) + (Len(t) + 1)
  BY <1>1, Concatenated
<1>3. s \o t \in Seq(D) /\ Len(s \o t) = Len(s) + Len(t)
  BY Concatenated
<1>4. r \in Seq(D) /\ Len(r) = Len(s) + Len(t) + 1
  BY <1>3, AppendedTo
<1>5. Len(s) \in Nat /\ Len(t) \in Nat
  OBVIOUS
<1>6. ASSUME NEW k \in 1 .. Len(l) PROVE l[k] = r[k]
  <2>1. CASE k \in 1 .. Len(s)
    <3>1. l[k] = s[k]
      BY <1>1, <2>1, Concatenated
    <3>2. (s \o t)[k] = s[k]
      BY <2>1, Concatenated
    <3>3. r[k] = (s \o t)[k]
      BY <1>3, <1>5, <2>1, AppendedTo
    <3> QED
      BY <3>1, <3>2, <3>3
  <2>2. CASE k \in Len(s) + 1 .. Len(s) + Len(t)
    <3>1. PICK j \in 1 .. Len(t) : k = Len(s) + j
      <4>1. k - Len(s) \in 1 .. Len(t) /\ k = Len(s) + (k - Len(s))
        BY <1>5, <2>2
      <4> QED
        BY <4>1
    <3>2. l[Len(s) + j] = Append(t, x)[j]
      BY <1>1, <1>5, <3>1, Concatenated
    <3>3. Append(t, x)[j] = t[j]
      BY AppendedTo
    <3>4. (s \o t)[Len(s) + j] = t[j]
      BY Concatenated
    <3>5. Len(s) + j \in 1 .. Len(s \o t)
      BY <1>3, <1>5
    <3>6. r[Len(s) + j] = (s \o t)[Len(s) + j]
      BY <1>3, <3>5, AppendedTo
    <3> HIDE DEF l, r
    <3> QED
      BY <3>1, <3>2, <3>3, <3>4, <3>6
  <2>3. CASE k = Len(s) + Len(t) + 1
    <3>1. r[Len(s \o t) + 1] = x
      BY <1>3, AppendedTo
    <3>2. Len(t) + 1 \in 1 .. Len(Append(t, x))
      BY <1>1, <1>5
    <3>3. l[Len(s) + (Len(t) + 1)] = Append(t, x)[Len(t) + 1]
      BY <1>1, <3>2, Concatenated
    <3>4. Append(t, x)[Len(t) + 1] = x
      BY AppendedTo
    <3>5. k = Len(s) + (Len(t) + 1) /\ k = Len(s \o t) + 1
      BY <1>3, <1>5, <2>3
    <3> HIDE DEF l, r
    <3> QED
      BY <3>1, <3>3, <3>4, <3>5
  <2> QED
    BY <1>2, <1>5, <2>1, <2>2, <2>3
<1> HIDE DEF l, r
<1>7. Len(l) = Len(r)
  BY <1>2, <1>4, <1>5
<1>8. l = r
  BY <1>2, <1>4, <1>6, <1>7, SameSequence
<1> QED
  BY <1>8 DEF l, r

-----------------------------------------------------------------------------
(* Positions.  A page is rows picked by their positions: the k-th of them   *)
(* is the one that k of them do not exceed.                                 *)

\* A set of numbers that is not empty has a least one.
LEMMA Least == ASSUME NEW T, T \subseteq Nat, T # {} PROVE \E x \in T : \A y \in T : x <= y
<1> DEFINE R == {ss \in Nat \X Nat : ss[1] < ss[2]}
<1>1. IsWellFoundedOn(R, Nat)
  BY NatLessThanWellFounded DEF OpToRel
<1> HIDE DEF R
<1>2. \E x \in T : \A y \in T : ~ (<<y, x>> \in R)
  BY <1>1, WFMin
<1>3. PICK x \in T : \A y \in T : <<y, x>> \notin R
  BY <1>2
<1>4. \A y \in T : ~(y < x)
  BY <1>3 DEF R
<1> QED
  BY <1>4

\* S is a set of positions up to n.
Within(S, n) == S \subseteq 1 .. n

UpTo(S, i) == {j \in S : j <= i}

\* How many positions there are up to one: none of them before the first, all at the last, and one more
\* at each of them.
LEMMA Counting ==
  ASSUME NEW n \in Nat, NEW S, Within(S, n)
  PROVE  /\ IsFiniteSet(S) /\ Cardinality(S) \in Nat
         /\ Cardinality(UpTo(S, n)) = Cardinality(S)
         /\ \A i \in 0 .. n : Cardinality(UpTo(S, i)) \in 0 .. Cardinality(S)
         /\ Cardinality(UpTo(S, 0)) = 0
         /\ \A i \in 1 .. n : Cardinality(UpTo(S, i)) = Cardinality(UpTo(S, i - 1)) + (IF i \in S THEN 1 ELSE 0)
         /\ \A i, j \in 0 .. n : i <= j => Cardinality(UpTo(S, i)) <= Cardinality(UpTo(S, j))
<1>0. \A s \in S : s \in Nat /\ 1 <= s /\ s <= n
  BY DEF Within
<1>1. IsFiniteSet(S) /\ Cardinality(S) \in Nat
  <2>1. \A s \in S : s <= n
    BY <1>0
  <2>2. S \in SUBSET Nat
    BY <1>0
  <2>3. IsFiniteSet(S)
    BY <2>1, <2>2, FS_BoundedSetOfNaturals
  <2> QED
    BY <2>3, FS_CardinalityType
<1>2. UpTo(S, n) = S /\ UpTo(S, 0) = {}
  BY <1>0 DEF UpTo
<1>3. \A i \in 0 .. n : UpTo(S, i) \in SUBSET S /\ IsFiniteSet(UpTo(S, i))
                        /\ Cardinality(UpTo(S, i)) \in 0 .. Cardinality(S)
  <2> SUFFICES ASSUME NEW i \in 0 .. n
               PROVE  UpTo(S, i) \in SUBSET S /\ IsFiniteSet(UpTo(S, i))
                      /\ Cardinality(UpTo(S, i)) \in 0 .. Cardinality(S)
    OBVIOUS
  <2>1. UpTo(S, i) \in SUBSET S
    BY DEF UpTo
  <2>2. IsFiniteSet(UpTo(S, i)) /\ Cardinality(UpTo(S, i)) <= Cardinality(S)
    BY <1>1, <2>1, FS_Subset
  <2>3. Cardinality(UpTo(S, i)) \in Nat
    BY <2>2, FS_CardinalityType
  <2> QED
    BY <1>1, <2>1, <2>2, <2>3
<1>4. ASSUME NEW i \in 1 .. n
      PROVE  Cardinality(UpTo(S, i)) = Cardinality(UpTo(S, i - 1)) + (IF i \in S THEN 1 ELSE 0)
  <2>1. IsFiniteSet(UpTo(S, i - 1)) /\ Cardinality(UpTo(S, i - 1)) \in Nat
    BY <1>1, <1>3
  <2>2. CASE i \in S
    <3>1. i \notin UpTo(S, i - 1)
      BY DEF UpTo
    <3>2. \A j \in S : j <= i <=> j <= i - 1 \/ j = i
      BY <1>0
    <3>3. UpTo(S, i) = UpTo(S, i - 1) \cup {i}
      BY <2>2, <3>2 DEF UpTo
    <3> QED
      BY <2>1, <2>2, <3>1, <3>3, FS_AddElement
  <2>3. CASE i \notin S
    <3>1. UpTo(S, i) = UpTo(S, i - 1)
      BY <1>0, <2>3 DEF UpTo
    <3> QED
      BY <2>1, <2>3, <3>1
  <2> QED
    BY <2>2, <2>3
<1>5. ASSUME NEW i \in 0 .. n, NEW j \in 0 .. n, i <= j
      PROVE  Cardinality(UpTo(S, i)) <= Cardinality(UpTo(S, j))
  <2>1. UpTo(S, i) \in SUBSET UpTo(S, j)
    BY <1>0, <1>5 DEF UpTo
  <2> QED
    BY <1>3, <2>1, FS_Subset
<1> QED
  BY <1>1, <1>2, <1>3, <1>4, <1>5, FS_EmptySet

\* Every count from one to all is that of exactly one position (Nth).
LEMMA NthIs ==
  ASSUME NEW n \in Nat, NEW S, Within(S, n), NEW k \in 1 .. Cardinality(S)
  PROVE  Nth(S, k) \in S /\ Cardinality(UpTo(S, Nth(S, k))) = k
<1> DEFINE C(i) == Cardinality(UpTo(S, i))
           T == {i \in 1 .. n : C(i) >= k}
<1>1. /\ Cardinality(S) \in Nat /\ C(n) = Cardinality(S) /\ C(0) = 0
      /\ \A i \in 0 .. n : C(i) \in Nat
      /\ \A i \in 1 .. n : C(i) = C(i - 1) + (IF i \in S THEN 1 ELSE 0)
  BY Counting
<1> HIDE DEF C
<1>2. n \in T
  BY <1>1
<1>3. PICK i \in T : \A j \in T : i <= j
  <2>1. T \subseteq Nat /\ T # {}
    BY <1>2
  <2> HIDE DEF T
  <2> QED
    BY <2>1, Least
<1>4. C(i - 1) < k
  <2>1. CASE i = 1
    BY <1>1, <2>1
  <2>2. CASE i # 1
    BY <1>1, <1>3, <2>2
  <2> QED
    BY <2>1, <2>2
<1>5. i \in S /\ C(i) = k
  BY <1>1, <1>3, <1>4
<1>6. \E m \in S : Cardinality({j \in S : j <= m}) = k
  BY <1>5 DEF C, UpTo
<1> QED
  BY <1>6 DEF Nth, UpTo

LEMMA NthOnly ==
  ASSUME NEW n \in Nat, NEW S, Within(S, n), NEW i \in S
  PROVE  /\ Cardinality(UpTo(S, i)) \in 1 .. Cardinality(S)
         /\ Nth(S, Cardinality(UpTo(S, i))) = i
<1> DEFINE k == Cardinality(UpTo(S, i))
<1>0. \A s \in S : s \in 1 .. n /\ s \in 0 .. n /\ s - 1 \in 0 .. n
  BY DEF Within
<1>1. /\ Cardinality(UpTo(S, i)) = Cardinality(UpTo(S, i - 1)) + 1
      /\ Cardinality(UpTo(S, i - 1)) \in Nat
      /\ k <= Cardinality(S) /\ Cardinality(S) \in Nat
  BY <1>0, Counting
<1>2. k \in 1 .. Cardinality(S)
  BY <1>1
<1>3. Nth(S, k) \in S /\ Cardinality(UpTo(S, Nth(S, k))) = k
  BY <1>2, NthIs
<1>4. ASSUME NEW a \in S, NEW b \in S, a < b
      PROVE  Cardinality(UpTo(S, a)) # Cardinality(UpTo(S, b))
  <2>1. Cardinality(UpTo(S, b)) = Cardinality(UpTo(S, b - 1)) + 1
    BY <1>0, Counting
  <2>2. a <= b - 1 /\ a \in 0 .. n /\ b - 1 \in 0 .. n
    BY <1>0, <1>4
  <2>3. Cardinality(UpTo(S, a)) <= Cardinality(UpTo(S, b - 1))
    BY <2>2, Counting
  <2>4. Cardinality(UpTo(S, b - 1)) \in Nat /\ Cardinality(UpTo(S, a)) \in Nat
    BY <2>2, Counting
  <2> QED
    BY <2>1, <2>3, <2>4
<1>5. Nth(S, k) \in Int /\ i \in Int
  BY <1>0, <1>3
<1> QED
  BY <1>2, <1>3, <1>4, <1>5

\* Picked positions rise, and the first k are all there are up to the k-th.
LEMMA NthRises ==
  ASSUME NEW n \in Nat, NEW S, Within(S, n), NEW k \in 1 .. Cardinality(S)
  PROVE  /\ \A m \in 1 .. k - 1 : Nth(S, m) < Nth(S, k)
         /\ {Nth(S, m) : m \in 1 .. k} = UpTo(S, Nth(S, k))
<1>0. \A i \in S : i \in Int /\ i \in 0 .. n
  BY DEF Within
<1>1. \A m \in 1 .. Cardinality(S) : Nth(S, m) \in S /\ Cardinality(UpTo(S, Nth(S, m))) = m
  BY NthIs
<1>2. Cardinality(S) \in Nat
  BY Counting
<1>3. ASSUME NEW a \in 1 .. Cardinality(S), NEW b \in 1 .. Cardinality(S), Nth(S, a) <= Nth(S, b)
      PROVE  a <= b
  <2>1. Nth(S, a) \in 0 .. n /\ Nth(S, b) \in 0 .. n
    BY <1>0, <1>1
  <2>2. Cardinality(UpTo(S, Nth(S, a))) <= Cardinality(UpTo(S, Nth(S, b)))
    BY <1>3, <2>1, Counting
  <2> QED
    BY <1>1, <2>2
<1>4. ASSUME NEW m \in 1 .. k - 1 PROVE Nth(S, m) < Nth(S, k)
  <2>1. m \in 1 .. Cardinality(S) /\ ~(k <= m)
    BY <1>2
  <2>2. ~(Nth(S, k) <= Nth(S, m))
    BY <1>3, <2>1
  <2>3. Nth(S, k) \in Int /\ Nth(S, m) \in Int
    BY <1>0, <1>1, <2>1
  <2> QED
    BY <2>2, <2>3
<1>5. ASSUME NEW i \in UpTo(S, Nth(S, k)) PROVE \E m \in 1 .. k : i = Nth(S, m)
  <2>1. i \in S /\ i <= Nth(S, k)
    BY <1>5 DEF UpTo
  <2>2. PICK m \in 1 .. Cardinality(S) : Nth(S, m) = i
    BY <2>1, NthOnly
  <2>3. m <= k
    BY <1>3, <2>1, <2>2
  <2> QED
    BY <2>2, <2>3
<1>6. \A m \in 1 .. k : Nth(S, m) \in UpTo(S, Nth(S, k))
  <2> TAKE m \in 1 .. k
  <2>1. m \in 1 .. Cardinality(S)
    BY <1>2
  <2>2. Nth(S, m) \in S /\ Nth(S, k) \in S /\ Nth(S, m) \in Int /\ Nth(S, k) \in Int
    BY <1>0, <1>1, <2>1
  <2>3. Nth(S, m) <= Nth(S, k)
    <3>1. CASE m = k
      BY <2>2, <3>1
    <3>2. CASE m # k
      BY <1>4, <2>2, <3>2
    <3> QED
      BY <3>1, <3>2
  <2> QED
    BY <2>2, <2>3 DEF UpTo
<1> QED
  BY <1>4, <1>5, <1>6

\* The k-th of an interval is k - 1 above its first.
LEMMA NthOfInterval ==
  ASSUME NEW n \in Nat, NEW a \in Nat \ {0}, NEW k \in 1 .. Cardinality(a .. n)
  PROVE  Nth(a .. n, k) = a + k - 1
<1>1. Within(a .. n, n)
  BY DEF Within
<1>2. Nth(a .. n, k) \in a .. n /\ Cardinality(UpTo(a .. n, Nth(a .. n, k))) = k
  BY <1>1, NthIs
<1> DEFINE i == Nth(a .. n, k)
<1>3. UpTo(a .. n, i) = a .. i
  BY <1>2 DEF UpTo
<1>4. Cardinality(a .. i) = i - a + 1
  <2>1. a \in Int /\ i \in Int /\ ~(a > i)
    BY <1>2
  <2> HIDE DEF i
  <2> QED
    BY <2>1, FS_Interval
<1> QED
  BY <1>2, <1>3, <1>4

\* Picking yields a sequence (Pick).
LEMMA PickIs ==
  ASSUME NEW R, NEW s \in Seq(R), NEW S, Within(S, Len(s))
  PROVE  /\ Pick(s, S) \in Seq(R) /\ Len(Pick(s, S)) = Cardinality(S)
         /\ \A k \in 1 .. Cardinality(S) : Pick(s, S)[k] = s[Nth(S, k)]
<1>1. Cardinality(S) \in Nat
  <2>1. Len(s) \in Nat
    OBVIOUS
  <2> QED
    BY <2>1, Counting
<1>2. \A k \in 1 .. Cardinality(S) : s[Nth(S, k)] \in R
  <2> TAKE k \in 1 .. Cardinality(S)
  <2>1. Len(s) \in Nat
    OBVIOUS
  <2>2. Nth(S, k) \in S
    BY <2>1, NthIs
  <2>3. S \subseteq 1 .. Len(s)
    BY DEF Within
  <2>4. Nth(S, k) \in 1 .. Len(s)
    BY <2>2, <2>3
  <2> HIDE DEF Nth
  <2> QED
    BY <2>4
<1> QED
  BY <1>1, <1>2 DEF Pick

-----------------------------------------------------------------------------
(* The log as it is read and verified.                                     *)

Contents == [org : Orgs, what : {"event", "old", "changed", "queried", "exported", "denied"},
             by : Procs \union {"system"}]
Digests  == Seq(Nat \X Contents)
Rows     == [sequence : Nat, content : Contents, previousHash : Digests, hash : Digests]
Receipts == [sequence : Nat, chainHash : Digests, ref : Nat]

Before(i) == IF i = 1 THEN GENESIS_HASH ELSE log[i - 1].hash

\* Sequences count from one and the links hold, even behind an edit; the digests are valid until there is one.
LogOK ==
    /\ rewrites \in Nat
    /\ log \in Seq(Rows)
    /\ Len(log) <= MaxEntries
    /\ \A i \in 1 .. Len(log) :
         /\ log[i].sequence = i
         /\ log[i].previousHash = Before(i)
         /\ Len(log[i].hash) = i
         /\ rewrites = 0 => HasValidHash(log[i])

\* What was read from an entry once is what the entry says.
Anchored(sequence, hash) == rewrites = 0 => sequence \in 1 .. Len(log) /\ hash = log[sequence].hash

RecordsOK == IsFiniteSet(records) /\ \A r \in records : r \in Receipts /\ Anchored(r.sequence, r.chainHash)

\* The entries that record a disclosure to a process.
Disclosures(p) == {i \in DOMAIN log : log[i].content.by = p /\ log[i].content.what \in {"queried", "exported"}}

HandedOK == \A p \in Procs : handed[p] \in Nat /\ handed[p] <= Cardinality(Disclosures(p))

Reading ==
    [pc : {"record", "page", "read"}, operation : {"query", "export", "retention"},
     reader : [org : Orgs, permissions : SUBSET {"query", "export"}], org : Orgs,
     limit : Nat \ {0}, cursor : Nat, got : Seq(Nat)]

Verifying ==
    [pc : {"walk", "check", "verified"}, from : Nat \ {0}, batch : Nat \ {0}, cursor : Nat \ {0},
     quiet : BOOLEAN, seeded : BOOLEAN, receipts : Seq(Receipts), previous : Rows \union {NoEntry},
     break : [sequence : Nat, reason : {"none", "content_altered", "link_broken", "sequence_gap"}],
     hashes : Seq(Digests),
     checks : Seq([sequence : Nat, chainHash : Digests, database : {"unchecked", "matches", "MISMATCH"},
                   ledger : {"unchecked", "matches", "MISMATCH"}])]

\* What a call that reads page by page has handed out, and may hand out next.
ReadOK(p, c) ==
    /\ c.cursor <= Len(log)
    /\ ToSet(c.got) = {i \in 1 .. c.cursor : Matches(c, log[i])}
    /\ \A i, j \in DOMAIN c.got : i < j => c.got[i] < c.got[j]
    /\ c.operation # "retention" /\ c.pc = "page" => handed[p] < Cardinality(Disclosures(p))

\* The receipts a verification loaded, and what it found of the first of them.
ReceiptsOK(c) ==
    /\ Len(c.checks) <= Len(c.receipts)
    /\ \A i \in DOMAIN c.receipts : Anchored(c.receipts[i].sequence, c.receipts[i].chainHash)
    /\ \A i \in DOMAIN c.checks :
         /\ rewrites = 0 => c.checks[i].database # "MISMATCH"
         /\ c.checks[i].database = "matches" =>
              /\ c.checks[i].sequence - c.from + 1 \in DOMAIN c.hashes
              /\ c.hashes[c.checks[i].sequence - c.from + 1] = c.checks[i].chainHash

\* The hashes noted are those of the entries as they are, all valid but perhaps the last.
WalkOK(c) ==
    /\ c.hashes = << >> \/ c.from + Len(c.hashes) - 1 <= Len(log)
    /\ \A i \in DOMAIN c.hashes :
         /\ c.hashes[i] = ComputeHash(log[c.from + i - 1])
         /\ i < Len(c.hashes) \/ c.pc = "walk" => HasValidHash(log[c.from + i - 1])
    /\ c.pc = "walk" => c.cursor = c.from + Len(c.hashes) /\ c.checks = << >>
    /\ rewrites = 0 /\ c.seeded =>
         /\ c.break = NoBreak
         /\ c.pc = "walk" => /\ c.cursor <= Len(log) + 1
                             /\ c.previous.sequence + 1 = c.cursor
                             /\ c.previous.hash = Before(c.cursor)

WithHead == {"previous", "guard", "judge", "submit", "save"}

HeadOK(c) ==
    /\ c.pc \in WithHead => c.head \in Rows /\ Anchored(c.head.sequence, c.head.hash)
    /\ c.pc = "save" => c.ref \in Nat

CallOK(p, c) ==
    \/ c \in Reading /\ ReadOK(p, c)
    \/ c \in Verifying /\ (c.quiet => WalkOK(c) /\ ReceiptsOK(c))
    \/ /\ c.pc \in WithHead \union {"idle", "declined", "reported"}
       /\ {"got", "quiet"} \intersect DOMAIN c = {}
       /\ HeadOK(c)

EInv == LogOK /\ RecordsOK /\ HandedOK /\ \A p \in Procs : CallOK(p, op[p])

\* What the log is, in the form the provers take it.
LEMMA LogIs ==
  ASSUME LogOK
  PROVE  /\ Len(log) \in Nat /\ DOMAIN log = 1 .. Len(log)
         /\ \A i \in 1 .. Len(log) : /\ log[i] \in Rows
                                     /\ log[i].sequence \in Nat /\ log[i].content \in Contents
                                     /\ log[i].previousHash \in Digests /\ log[i].hash \in Digests
<1>1. log \in Seq(Rows)
  BY DEF LogOK
<1>2. Len(log) \in Nat /\ DOMAIN log = 1 .. Len(log)
  BY <1>1
<1>3. ASSUME NEW i \in 1 .. Len(log)
      PROVE  /\ log[i] \in Rows
             /\ log[i].sequence \in Nat /\ log[i].content \in Contents
             /\ log[i].previousHash \in Digests /\ log[i].hash \in Digests
  <2>1. log[i] \in Rows
    BY <1>1
  <2> QED
    BY <2>1 DEF Rows
<1> QED
  BY <1>2, <1>3

\* The entry before the next one: the head, or the absent predecessor.
LEMMA HeadIs ==
  ASSUME LogOK
  PROVE  /\ ChainHead.sequence = Len(log) /\ ChainHead.hash \in Digests /\ Len(ChainHead.hash) = Len(log)
         /\ ChainHead.hash = Before(Len(log) + 1)
         /\ log # << >> => Len(log) \in 1 .. Len(log) /\ ChainHead = log[Len(log)]
<1>1. CASE log = << >>
  <2>1. << >> \in Digests /\ Len(<< >>) = 0
    BY DEF Digests
  <2> QED
    BY <1>1, <2>1 DEF ChainHead, NoEntry, GENESIS_HASH, Before
<1>2. CASE log # << >>
  <2>1. Len(log) \in 1 .. Len(log)
    BY <1>2, LogIs DEF LogOK
  <2>2. ChainHead = log[Len(log)]
    BY <1>2 DEF ChainHead, Last
  <2> QED
    BY <2>1, <2>2, LogIs DEF LogOK, Before
<1> QED
  BY <1>1, <1>2

\* AuditLogEntry.append builds a row with a valid digest, behind the one before it.
LEMMA AppendAtIs ==
  ASSUME NEW previous, previous.sequence \in Nat, previous.hash \in Digests,
         NEW contents \in Seq(Contents), NEW i \in 1 .. Len(contents)
  PROVE  /\ AppendAt(previous, contents, i) \in Rows
         /\ AppendAt(previous, contents, i).sequence = previous.sequence + i
         /\ AppendAt(previous, contents, i).content = contents[i]
         /\ AppendAt(previous, contents, i).previousHash =
              IF i = 1 THEN previous.hash ELSE AppendAt(previous, contents, i - 1).hash
         /\ Len(AppendAt(previous, contents, i).hash) = Len(previous.hash) + i
         /\ HasValidHash(AppendAt(previous, contents, i))
<1> DEFINE Pairs(k) == [j \in 1 .. k |-> <<previous.sequence + j, contents[j]>>]
           D == Nat \X Contents
<1>1. \A j \in 1 .. Len(contents) : contents[j] \in Contents
  OBVIOUS
<1>2. \A k \in 0 .. Len(contents) : Pairs(k) \in Seq(D) /\ Len(Pairs(k)) = k
  <2> TAKE k \in 0 .. Len(contents)
  <2>1. \A j \in 1 .. k : <<previous.sequence + j, contents[j]>> \in D
    BY <1>1
  <2>2. k \in Nat
    OBVIOUS
  <2> HIDE DEF D
  <2>3. Pairs(k) \in [1 .. k -> D]
    BY <2>1
  <2> HIDE DEF Pairs
  <2> QED
    BY <2>2, <2>3, FunctionIsSequence
<1>3. i \in 0 .. Len(contents) /\ i - 1 \in 0 .. Len(contents)
  OBVIOUS
<1>4. Pairs(i) = Append(Pairs(i - 1), <<previous.sequence + i, contents[i]>>)
  <2>1. <<previous.sequence + i, contents[i]>> \in D
    BY <1>1
  <2>2. Pairs(i - 1) \in Seq(D) /\ Len(Pairs(i - 1)) = i - 1
    BY <1>2, <1>3
  <2>3. \A j \in 1 .. i : Pairs(i)[j] = IF j = i THEN <<previous.sequence + i, contents[i]>> ELSE Pairs(i - 1)[j]
    OBVIOUS
  <2>4. Pairs(i) \in Seq(D) /\ Len(Pairs(i)) = i
    BY <1>2, <1>3
  <2> HIDE DEF Pairs, D
  <2> QED
    BY <2>1, <2>2, <2>3, <2>4
<1>5. ChainHash(previous, contents, i) = Append(ChainHash(previous, contents, i - 1), <<previous.sequence + i, contents[i]>>)
  <2>1. previous.hash \in Seq(D)
    BY DEF Digests
  <2>2. Pairs(i - 1) \in Seq(D) /\ <<previous.sequence + i, contents[i]>> \in D
    BY <1>1, <1>2, <1>3
  <2> HIDE DEF D, Pairs
  <2>3. previous.hash \o Append(Pairs(i - 1), <<previous.sequence + i, contents[i]>>)
          = Append(previous.hash \o Pairs(i - 1), <<previous.sequence + i, contents[i]>>)
    <3>1. PICK s, t, x : s = previous.hash /\ t = Pairs(i - 1) /\ x = <<previous.sequence + i, contents[i]>>
      OBVIOUS
    <3>2. s \in Seq(D) /\ t \in Seq(D) /\ x \in D
      BY <2>1, <2>2, <3>1
    <3>3. s \o Append(t, x) = Append(s \o t, x)
      BY <3>2, AppendLast
    <3> QED
      BY <3>1, <3>3
  <2>4. ChainHash(previous, contents, i) = previous.hash \o Pairs(i)
        /\ ChainHash(previous, contents, i - 1) = previous.hash \o Pairs(i - 1)
    BY DEF ChainHash, Pairs
  <2> QED
    BY <1>4, <2>3, <2>4
<1>6. \A k \in 0 .. Len(contents) : /\ ChainHash(previous, contents, k) \in Digests
                                    /\ Len(ChainHash(previous, contents, k)) = Len(previous.hash) + k
  <2> TAKE k \in 0 .. Len(contents)
  <2>1. previous.hash \in Seq(D) /\ Pairs(k) \in Seq(D) /\ Len(Pairs(k)) = k
    BY <1>2 DEF Digests
  <2>2. ChainHash(previous, contents, k) = previous.hash \o Pairs(k)
    BY DEF ChainHash
  <2> HIDE DEF D, Pairs
  <2>3. previous.hash \o Pairs(k) \in Seq(D) /\ Len(previous.hash \o Pairs(k)) = Len(previous.hash) + k
    BY <2>1, Concatenated
  <2> QED
    BY <2>2, <2>3 DEF Digests, D
<1>7. ChainHash(previous, contents, 0) = previous.hash
  <2>1. previous.hash \in Seq(D) /\ Pairs(0) = << >>
    BY DEF Digests
  <2>2. ChainHash(previous, contents, 0) = previous.hash \o Pairs(0)
    BY DEF ChainHash
  <2>3. PICK s : s = previous.hash
    OBVIOUS
  <2> HIDE DEF D
  <2>4. << >> \in Seq(D) /\ Len(<< >>) = 0
    OBVIOUS
  <2>5. s \o << >> \in Seq(D) /\ Len(s \o << >>) = Len(s) /\ \A k \in 1 .. Len(s) : (s \o << >>)[k] = s[k]
    BY <2>1, <2>3, <2>4, Concatenated
  <2>6. s \o << >> = s
    BY <2>1, <2>3, <2>5, SameSequence
  <2> HIDE DEF Pairs
  <2> QED
    BY <2>1, <2>2, <2>3, <2>6
<1> HIDE DEF Pairs, D
<1>8. previous.sequence + i \in Nat /\ contents[i] \in Contents
  BY <1>1
<1>9. AppendAt(previous, contents, i) \in Rows
  BY <1>3, <1>6, <1>8 DEF AppendAt, Rows
<1>10. HasValidHash(AppendAt(previous, contents, i))
  BY <1>5 DEF AppendAt, HasValidHash, ComputeHash
<1>11. AppendAt(previous, contents, i).previousHash =
         IF i = 1 THEN previous.hash ELSE AppendAt(previous, contents, i - 1).hash
  BY <1>7 DEF AppendAt
<1>12. Len(AppendAt(previous, contents, i).hash) = Len(previous.hash) + i
  BY <1>3, <1>6 DEF AppendAt
<1> QED
  BY <1>9, <1>10, <1>11, <1>12 DEF AppendAt

-----------------------------------------------------------------------------
(* What a step makes of the log: it adds an entry, or an edit leaves what  *)
(* reads go by.                                                            *)

Grows == Len(log) <= Len(log') /\ \A i \in 1 .. Len(log) : log'[i] = log[i]

Alike ==
    /\ Len(log) <= Len(log')
    /\ \A i \in 1 .. Len(log) :
         /\ log'[i].content.org = log[i].content.org
         /\ log'[i].content.by = log[i].content.by
         /\ \/ log'[i].content.what = log[i].content.what
            \/ log[i].content.what = "event" /\ log'[i].content.what = "changed"

\* An append (RecordAuditEvent.execute).
LEMMA AppendKeeps ==
  ASSUME LogOK, NEW content \in Contents, Len(log) < MaxEntries, log' = Extended(content),
         rewrites' = rewrites
  PROVE  /\ LogOK' /\ Grows
         /\ Len(log') = Len(log) + 1 /\ log'[Len(log) + 1].content = content
<1> DEFINE e == AppendAt(ChainHead, <<content>>, 1)
           n == Len(log)
<1>1. n \in Nat /\ \A i \in 1 .. n : log[i] \in Rows
  BY LogIs
<1>2. ChainHead.sequence = n /\ ChainHead.hash \in Digests /\ Len(ChainHead.hash) = n /\ ChainHead.hash = Before(n + 1)
  BY HeadIs
<1>3. PICK cs : cs = <<content>>
  OBVIOUS
<1>3a. cs \in Seq(Contents) /\ 1 \in 1 .. Len(cs) /\ cs[1] = content
  BY <1>3
<1>4. /\ e \in Rows /\ e.sequence = n + 1 /\ e.content = content
      /\ e.previousHash = Before(n + 1) /\ Len(e.hash) = n + 1 /\ HasValidHash(e)
  <2>1. n \in Nat
    BY <1>1
  <2>2. e = AppendAt(ChainHead, cs, 1)
    BY <1>3
  <2> HIDE DEF e
  <2>3. /\ e \in Rows /\ e.sequence = ChainHead.sequence + 1 /\ e.content = cs[1]
        /\ e.previousHash = ChainHead.hash /\ Len(e.hash) = Len(ChainHead.hash) + 1 /\ HasValidHash(e)
    BY <1>2, <1>3a, <2>1, <2>2, AppendAtIs
  <2> QED
    BY <1>2, <1>3a, <2>3
<1>5. log' = Append(log, e) /\ log \in Seq(Rows)
  BY DEF Extended, LogOK
<1> HIDE DEF e
<1>6. /\ log' \in Seq(Rows) /\ Len(log') = n + 1 /\ log'[n + 1] = e
      /\ \A i \in 1 .. n : log'[i] = log[i]
  BY <1>4, <1>5
<1>7. \A i \in 1 .. n + 1 : Before(i)' = Before(i)
  BY <1>1, <1>6 DEF Before
<1>8. ASSUME NEW i \in 1 .. n + 1
      PROVE  /\ log'[i].sequence = i /\ log'[i].previousHash = Before(i)'
             /\ Len(log'[i].hash) = i
             /\ rewrites' = 0 => HasValidHash(log'[i])
  <2>1. CASE i \in 1 .. n
    BY <1>6, <1>7, <2>1 DEF LogOK
  <2>2. CASE i = n + 1
    BY <1>4, <1>6, <1>7, <2>2
  <2> QED
    BY <1>1, <2>1, <2>2
<1>9. LogOK'
  <2>1. n + 1 <= MaxEntries
    BY <1>1, EvidenceAssumption
  <2>2. rewrites' \in Nat
    BY DEF LogOK
  <2> QED
    BY <1>6, <1>8, <2>1, <2>2 DEF LogOK, HasValidHash, ComputeHash
<1> QED
  BY <1>1, <1>4, <1>6, <1>9 DEF Grows

\* An edit behind the application's back, with or without new digests behind it.
LEMMA RewriteKeeps ==
  ASSUME LogOK, NEW i \in DOMAIN log, NEW rederive \in BOOLEAN, Rewrite(i, rederive)
  PROVE  LogOK' /\ Alike /\ rewrites' # 0
<1> DEFINE n == Len(log)
           edited == [log[i].content EXCEPT !.what = "changed"]
           kept == SubSeq(log, 1, i - 1)
           contents == [j \in 1 .. n - i + 1 |-> IF j = 1 THEN edited ELSE log[i + j - 1].content]
           prior == IF i = 1 THEN NoEntry ELSE log[i - 1]
           Run(j) == AppendAt(prior, contents, j)
           run == [j \in DOMAIN contents |-> Run(j)]
<1>1. n \in Nat /\ i \in 1 .. n /\ log \in Seq(Rows)
  BY LogIs DEF LogOK
<1>2. \A m \in 1 .. n : /\ log[m] \in Rows /\ log[m].sequence = m /\ log[m].content \in Contents
                        /\ log[m].hash \in Digests /\ Len(log[m].hash) = m
                        /\ log[m].previousHash = Before(m)
  BY LogIs DEF LogOK
<1>3. edited \in Contents /\ edited.org = log[i].content.org /\ edited.by = log[i].content.by
      /\ edited.what = "changed" /\ log[i].content.what = "event"
  <2>1. log[i].content \in Contents
    BY <1>1, <1>2
  <2> QED
    BY <2>1 DEF Contents, Rewrite
<1>4. rewrites' = rewrites + 1 /\ rewrites \in Nat
  BY DEF Rewrite, LogOK
<1>5. Len(log) <= MaxEntries
  BY DEF LogOK
<1>6. log' = IF rederive THEN kept \o run ELSE [log EXCEPT ![i].content = edited]
  BY DEF Rewrite
<1>7. CASE rederive
  <2>1. contents \in Seq(Contents) /\ Len(contents) = n - i + 1 /\ DOMAIN contents = 1 .. n - i + 1
    <3>1. n - i + 1 \in Nat
      BY <1>1
    <3>2. \A j \in 1 .. n - i + 1 : (IF j = 1 THEN edited ELSE log[i + j - 1].content) \in Contents
      BY <1>1, <1>2, <1>3
    <3> HIDE DEF edited
    <3>3. contents \in [1 .. n - i + 1 -> Contents]
      BY <3>2
    <3>4. DOMAIN contents = 1 .. n - i + 1
      OBVIOUS
    <3> HIDE DEF contents
    <3> QED
      BY <3>1, <3>3, <3>4, FunctionIsSequence
  <2>2. prior.sequence = i - 1 /\ prior.sequence \in Nat /\ prior.hash \in Digests /\ Len(prior.hash) = i - 1
        /\ prior.hash = Before(i)
    <3>1. CASE i = 1
      BY <3>1 DEF NoEntry, GENESIS_HASH, Digests, Before
    <3>2. CASE i # 1
      BY <1>1, <1>2, <3>2 DEF Before
    <3> QED
      BY <3>1, <3>2
  <2>3. \A j \in 1 .. n - i + 1 : contents[j] = IF j = 1 THEN edited ELSE log[i + j - 1].content
    OBVIOUS
  <2> HIDE DEF contents, prior, edited, n
  <2>4. \A j \in 1 .. n - i + 1 :
          /\ Run(j) \in Rows /\ Run(j).sequence = i - 1 + j /\ Run(j).content = contents[j]
          /\ Run(j).previousHash = IF j = 1 THEN Before(i) ELSE Run(j - 1).hash
          /\ Len(Run(j).hash) = i - 1 + j
    <3> TAKE j \in 1 .. n - i + 1
    <3>1. j \in 1 .. Len(contents)
      BY <2>1
    <3>2. /\ Run(j) \in Rows /\ Run(j).sequence = prior.sequence + j /\ Run(j).content = contents[j]
          /\ Run(j).previousHash = IF j = 1 THEN prior.hash ELSE Run(j - 1).hash
          /\ Len(Run(j).hash) = Len(prior.hash) + j
      BY <2>1, <2>2, <3>1, AppendAtIs
    <3> HIDE DEF Run
    <3> QED
      BY <2>2, <3>2
  <2> HIDE DEF Run
  <2>5. run \in Seq(Rows) /\ Len(run) = n - i + 1 /\ \A j \in 1 .. n - i + 1 : run[j] = Run(j)
    <3>1. n - i + 1 \in Nat
      BY <1>1
    <3>2. run \in [1 .. n - i + 1 -> Rows] /\ \A j \in 1 .. n - i + 1 : run[j] = Run(j)
      BY <2>1, <2>4
    <3> HIDE DEF run
    <3> QED
      BY <3>1, <3>2, FunctionIsSequence
  <2>6. kept \in Seq(Rows) /\ Len(kept) = i - 1 /\ \A m \in 1 .. i - 1 : kept[m] = log[m]
    BY <1>1
  <2> HIDE DEF run, kept
  <2>7. log' = kept \o run
    BY <1>6, <1>7
  <2>8. log' \in Seq(Rows) /\ Len(log') = n
    <3>1. kept \o run \in Seq(Rows) /\ Len(kept \o run) = Len(kept) + Len(run)
      BY <2>5, <2>6, Concatenated
    <3> QED
      BY <1>1, <2>5, <2>6, <2>7, <3>1
  <2>9. \A m \in 1 .. n : log'[m] = IF m < i THEN log[m] ELSE Run(m - i + 1)
    <3> TAKE m \in 1 .. n
    <3>1. CASE m < i
      <4>1. (kept \o run)[m] = kept[m]
        BY <1>1, <2>5, <2>6, <3>1
      <4> QED
        BY <1>1, <2>6, <2>7, <3>1, <4>1
    <3>2. CASE ~(m < i)
      <4>1. (kept \o run)[m] = run[m - (i - 1)]
        BY <1>1, <2>5, <2>6, <3>2
      <4>2. m - (i - 1) = m - i + 1 /\ m - i + 1 \in 1 .. n - i + 1
        BY <1>1, <3>2
      <4> QED
        BY <2>5, <2>7, <3>2, <4>1, <4>2
    <3> QED
      BY <3>1, <3>2
  <2>10. ASSUME NEW m \in 1 .. n
         PROVE  /\ log'[m].sequence = m /\ Len(log'[m].hash) = m
                /\ log'[m].previousHash = Before(m)'
                /\ log'[m].content.org = log[m].content.org
                /\ log'[m].content.by = log[m].content.by
                /\ \/ log'[m].content.what = log[m].content.what
                   \/ log[m].content.what = "event" /\ log'[m].content.what = "changed"
    <3>1. CASE m < i
      <4>1. log'[m] = log[m] /\ Before(m)' = Before(m)
        <5>1. m = 1 \/ (m - 1 \in 1 .. n /\ m - 1 < i)
          BY <1>1, <3>1
        <5> QED
          BY <2>9, <3>1, <5>1 DEF Before
      <4> QED
        BY <1>2, <4>1
    <3>2. CASE ~(m < i)
      <4>0. PICK j : j = m - i + 1
        OBVIOUS
      <4>1a. j \in 1 .. n - i + 1 /\ i - 1 + j = m
        BY <1>1, <3>2, <4>0
      <4>1. j \in 1 .. n - i + 1 /\ i - 1 + j = m /\ log'[m] = Run(j)
        BY <2>9, <3>2, <4>0, <4>1a
      <4>2. log'[m].sequence = m /\ Len(log'[m].hash) = m /\ log'[m].content = contents[j]
        BY <2>4, <4>1
      <4>3. log'[m].previousHash = Before(m)'
        <5>1. CASE j = 1
          <6>1. m = i /\ log'[m].previousHash = Before(i)
            BY <1>1, <2>4, <4>1, <5>1
          <6>2. i = 1 \/ (i - 1 \in 1 .. n /\ i - 1 < i)
            BY <1>1
          <6>3. Before(i)' = Before(i)
            BY <2>9, <6>2 DEF Before
          <6> QED
            BY <6>1, <6>3
        <5>2. CASE j # 1
          <6>1. m - 1 \in 1 .. n /\ ~(m - 1 < i) /\ m # 1 /\ (m - 1) - i + 1 = j - 1
            <7>1. m \in Int /\ i \in Int /\ n \in Int /\ 1 <= i /\ m <= n /\ j = m - i + 1 /\ j >= 1
              BY <1>1, <4>0, <4>1a
            <7> QED
              BY <5>2, <7>1
          <6>2. log'[m - 1] = Run(j - 1)
            BY <2>9, <6>1
          <6>3. log'[m].previousHash = Run(j - 1).hash
            BY <2>4, <4>1, <5>2
          <6> QED
            BY <6>1, <6>2, <6>3 DEF Before
        <5> QED
          BY <5>1, <5>2
      <4>4. contents[j] = IF m = i THEN edited ELSE log[m].content
        BY <1>1, <2>3, <4>1
      <4> QED
        BY <1>3, <4>2, <4>3, <4>4
    <3> QED
      BY <3>1, <3>2
  <2> QED
    BY <1>1, <1>4, <1>5, <2>8, <2>10 DEF LogOK, Alike, n
<1>8. CASE ~rederive
  <2>1. log' = [log EXCEPT ![i] = [log[i] EXCEPT !.content = edited]]
    BY <1>6, <1>8
  <2> DEFINE row == [log[i] EXCEPT !.content = edited]
  <2>2. row \in Rows /\ row.sequence = log[i].sequence /\ row.content = edited
        /\ row.previousHash = log[i].previousHash /\ row.hash = log[i].hash
    <3>1. log[i] \in Rows
      BY <1>1, <1>2
    <3> HIDE DEF edited
    <3> QED
      BY <1>3, <3>1 DEF Rows
  <2> HIDE DEF row, edited
  <2>3. log' \in Seq(Rows) /\ Len(log') = n /\ \A m \in 1 .. n : log'[m] = IF m = i THEN row ELSE log[m]
    BY <1>1, <2>1, <2>2 DEF row
  <2>4. \A m \in 1 .. n : log'[m].hash = log[m].hash
    BY <2>2, <2>3
  <2>5. \A m \in 1 .. n : Before(m)' = Before(m)
    <3> TAKE m \in 1 .. n
    <3>1. m = 1 \/ m - 1 \in 1 .. n
      BY <1>1
    <3> QED
      BY <2>4, <3>1 DEF Before
  <2>6. ASSUME NEW m \in 1 .. n
        PROVE  /\ log'[m].sequence = m /\ Len(log'[m].hash) = m
               /\ log'[m].previousHash = Before(m)'
               /\ log'[m].content.org = log[m].content.org
               /\ log'[m].content.by = log[m].content.by
               /\ \/ log'[m].content.what = log[m].content.what
                  \/ log[m].content.what = "event" /\ log'[m].content.what = "changed"
    <3>1. CASE m = i
      BY <1>2, <1>3, <2>2, <2>3, <2>5, <3>1
    <3>2. CASE m # i
      BY <1>2, <2>3, <2>5, <3>2
    <3> QED
      BY <3>1, <3>2
  <2> QED
    BY <1>1, <1>4, <1>5, <2>3, <2>6 DEF LogOK, Alike
<1> QED
  BY <1>7, <1>8

\* Disclosures are recorded for good.
LEMMA DisclosuresGrow ==
  ASSUME LogOK, LogOK', Alike, NEW p
  PROVE  /\ Cardinality(Disclosures(p)) \in Nat
         /\ Cardinality(Disclosures(p)') \in Nat
         /\ Cardinality(Disclosures(p)) <= Cardinality(Disclosures(p)')
<1>1. Len(log) \in Nat /\ DOMAIN log = 1 .. Len(log) /\ Len(log') \in Nat /\ DOMAIN log' = 1 .. Len(log')
  BY LogIs DEF LogOK
<1>2. Disclosures(p) \in SUBSET (1 .. Len(log')) /\ Disclosures(p)' \in SUBSET (1 .. Len(log'))
  BY <1>1 DEF Disclosures, Alike
<1>3. IsFiniteSet(1 .. Len(log'))
  <2>1. PICK one \in Int : one = 1
    OBVIOUS
  <2>2. IsFiniteSet(one .. Len(log'))
    BY <1>1, FS_Interval
  <2> QED
    BY <2>1, <2>2
<1>4. IsFiniteSet(Disclosures(p)) /\ IsFiniteSet(Disclosures(p)')
  BY <1>2, <1>3, FS_Subset
<1>5. Disclosures(p) \in SUBSET (Disclosures(p)')
  BY <1>1 DEF Disclosures, Alike
<1>6. Cardinality(Disclosures(p)) <= Cardinality(Disclosures(p)')
  BY <1>4, <1>5, FS_Subset
<1> QED
  BY <1>4, <1>6, FS_CardinalityType

\* Reads go by the organization of an entry and by whether it is past retention, which stay.
LEMMA ReadStays ==
  ASSUME LogOK, LogOK', Alike, NEW p, NEW c \in Reading, ReadOK(p, c), handed'[p] = handed[p], HandedOK, p \in Procs
  PROVE  ReadOK(p, c)'
<1>1. Len(log) \in Nat /\ Len(log') \in Nat /\ c.cursor \in Nat
  BY LogIs DEF LogOK, Reading
<1>2. c.cursor <= Len(log')
  BY <1>1 DEF ReadOK, Alike
<1>3. \A i \in 1 .. c.cursor : Matches(c, log'[i]) <=> Matches(c, log[i])
  <2> TAKE i \in 1 .. c.cursor
  <2>1. i \in 1 .. Len(log)
    BY <1>1 DEF ReadOK
  <2>2. /\ log'[i].content.org = log[i].content.org
        /\ log'[i].content.what = "old" <=> log[i].content.what = "old"
    BY <2>1 DEF Alike
  <2> QED
    BY <2>2 DEF Matches, PastRetention
<1>4. {i \in 1 .. c.cursor : Matches(c, log'[i])} = {i \in 1 .. c.cursor : Matches(c, log[i])}
  BY <1>3
<1>5. ToSet(c.got) = {i \in 1 .. c.cursor : Matches(c, log'[i])}
  BY <1>4 DEF ReadOK
<1>6. c.operation # "retention" /\ c.pc = "page" => handed'[p] < Cardinality(Disclosures(p)')
  <2>1. handed[p] \in Nat
    BY DEF HandedOK
  <2> QED
    BY <2>1, DisclosuresGrow DEF ReadOK
<1> QED
  BY <1>2, <1>5, <1>6 DEF ReadOK, Matches, PastRetention

\* What was read of an entry stays true while the log only grows.
LEMMA AnchoredStays ==
  ASSUME LogOK, LogOK', Grows, rewrites' = rewrites, NEW s, NEW h, Anchored(s, h)
  PROVE  Anchored(s, h)'
<1>1. Len(log) \in Nat /\ Len(log') \in Nat
  BY LogIs DEF LogOK
<1> QED
  BY <1>1 DEF Anchored, Grows

LEMMA VerifyStays ==
  ASSUME LogOK, LogOK', Grows, rewrites' = rewrites, NEW c \in Verifying, WalkOK(c), ReceiptsOK(c)
  PROVE  WalkOK(c)' /\ ReceiptsOK(c)'
<1>1. Len(log) \in Nat /\ Len(log') \in Nat /\ Len(log) <= Len(log')
  BY LogIs DEF LogOK, Grows
<1>2. c.from \in Nat \ {0} /\ c.cursor \in Nat /\ Len(c.hashes) \in Nat /\ DOMAIN c.hashes = 1 .. Len(c.hashes)
  BY DEF Verifying
<1>3. ReceiptsOK(c)'
  BY AnchoredStays DEF ReceiptsOK
<1>4. \A i \in DOMAIN c.hashes : c.from + i - 1 \in 1 .. Len(log)
  <2> TAKE i \in DOMAIN c.hashes
  <2>1. c.hashes # << >>
    BY <1>2
  <2> QED
    BY <1>1, <1>2, <2>1 DEF WalkOK
<1>5. \A i \in DOMAIN c.hashes : log'[c.from + i - 1] = log[c.from + i - 1]
  BY <1>4 DEF Grows
<1>6. c.cursor <= Len(log) + 1 /\ c.cursor # 0 => Before(c.cursor)' = Before(c.cursor)
  <2> SUFFICES ASSUME c.cursor <= Len(log) + 1, c.cursor # 0 PROVE Before(c.cursor)' = Before(c.cursor)
    OBVIOUS
  <2>1. c.cursor = 1 \/ c.cursor - 1 \in 1 .. Len(log)
    BY <1>1, <1>2
  <2> QED
    BY <2>1 DEF Before, Grows
<1>7. c.pc = "walk" => c.cursor # 0
  BY <1>2 DEF WalkOK
<1>8. WalkOK(c)'
  <2>1. c.hashes = << >> \/ c.from + Len(c.hashes) - 1 <= Len(log')
    BY <1>1, <1>2 DEF WalkOK
  <2>2. \A i \in DOMAIN c.hashes :
         /\ c.hashes[i] = ComputeHash(log'[c.from + i - 1])
         /\ i < Len(c.hashes) \/ c.pc = "walk" => HasValidHash(log'[c.from + i - 1])
    BY <1>5 DEF WalkOK
  <2>3. rewrites = 0 /\ c.seeded =>
         /\ c.break = NoBreak
         /\ c.pc = "walk" => /\ c.cursor <= Len(log') + 1
                             /\ c.previous.sequence + 1 = c.cursor
                             /\ c.previous.hash = Before(c.cursor)'
    BY <1>1, <1>2, <1>6, <1>7 DEF WalkOK
  <2> QED
    BY <2>1, <2>2, <2>3 DEF WalkOK, ComputeHash, HasValidHash
<1> QED
  BY <1>3, <1>8

LEMMA GrowsAlike == ASSUME LogOK, Grows PROVE Alike
  BY LogIs DEF Grows, Alike

\* A call keeps what it knows while others append.
LEMMA CallStays ==
  ASSUME LogOK, LogOK', Grows, rewrites' = rewrites, HandedOK,
         NEW p \in Procs, handed'[p] = handed[p], NEW c, CallOK(p, c)
  PROVE  CallOK(p, c)'
<1>1. Alike
  BY GrowsAlike
<1>2. CASE c \in Reading /\ ReadOK(p, c)
  BY <1>1, <1>2, ReadStays DEF CallOK
<1>3. CASE c \in Verifying /\ (c.quiet => WalkOK(c) /\ ReceiptsOK(c))
  BY <1>3, VerifyStays DEF CallOK
<1>4. CASE /\ c.pc \in WithHead \union {"idle", "declined", "reported"}
           /\ {"got", "quiet"} \intersect DOMAIN c = {}
           /\ HeadOK(c)
  <2>1. HeadOK(c)'
    BY <1>4, AnchoredStays DEF HeadOK
  <2> QED
    BY <1>4, <2>1 DEF CallOK
<1> QED
  BY <1>2, <1>3, <1>4 DEF CallOK

\* After an edit a verification is no longer quiet, and nothing is claimed of receipts any more.
LEMMA CallSurvivesEdit ==
  ASSUME LogOK, LogOK', Alike, rewrites' # 0, HandedOK,
         NEW p \in Procs, handed'[p] = handed[p], NEW c, CallOK(p, c)
  PROVE  CallOK(p, IF "quiet" \in DOMAIN c THEN [c EXCEPT !.quiet = FALSE] ELSE c)'
<1>1. CASE c \in Reading /\ ReadOK(p, c)
  <2>1. "quiet" \notin DOMAIN c
    BY <1>1 DEF Reading
  <2> QED
    BY <1>1, <2>1, ReadStays DEF CallOK
<1>2. CASE c \in Verifying
  <2>1. "quiet" \in DOMAIN c
    BY <1>2 DEF Verifying
  <2>2. [c EXCEPT !.quiet = FALSE] \in Verifying /\ ~[c EXCEPT !.quiet = FALSE].quiet
    BY <1>2 DEF Verifying
  <2> QED
    BY <2>1, <2>2 DEF CallOK
<1>3. CASE /\ c.pc \in WithHead \union {"idle", "declined", "reported"}
           /\ {"got", "quiet"} \intersect DOMAIN c = {}
           /\ HeadOK(c)
  <2>1. HeadOK(c)'
    BY <1>3 DEF HeadOK, Anchored
  <2> QED
    BY <1>3, <2>1 DEF CallOK
<1> QED
  BY <1>1, <1>2, <1>3 DEF CallOK

\* Every step that moves one call on: only that call, and what the step writes, is left to see to.
LEMMA CallMoves ==
  ASSUME EInv, Shapes, NEW p \in Procs, NEW c, Goto(p, c), LogOK', Grows, rewrites' = rewrites,
         RecordsOK', HandedOK', \A q \in Procs : q # p => handed'[q] = handed[q],
         CallOK(p, c)'
  PROVE  EInv'
<1>1. op'[p] = c /\ \A q \in Procs : q # p => op'[q] = op[q]
  BY DEF Goto, Shapes
<1>2. ASSUME NEW q \in Procs PROVE CallOK(q, op[q])'
  <2>1. CASE q = p
    BY <1>1, <2>1 DEF CallOK, ReadOK, WalkOK, ReceiptsOK, HeadOK, Matches, Anchored
  <2>2. CASE q # p
    <3>1. PICK d : d = op[q]
      OBVIOUS
    <3>2. CallOK(q, d)
      BY <3>1 DEF EInv
    <3>3. CallOK(q, d)'
      BY <2>2, <3>2, CallStays DEF EInv
    <3>4. op'[q] = d
      BY <1>1, <2>2, <3>1
    <3> QED
      BY <3>3, <3>4
  <2> QED
    BY <2>1, <2>2
<1> QED
  BY <1>2 DEF EInv

\* A step that leaves the log alone.
LEMMA SameLog == ASSUME LogOK, UNCHANGED <<log, rewrites>> PROVE LogOK' /\ Grows
<1>1. LogOK'
  BY DEF LogOK, Before, HasValidHash, ComputeHash
<1>2. Grows
  BY LogIs DEF Grows
<1> QED
  BY <1>1, <1>2

\* A step that writes neither the log nor the receipts.
LEMMA QuietlyMoves ==
  ASSUME EInv, Shapes, NEW p \in Procs, NEW c, Goto(p, c), UNCHANGED <<log, records, handed, rewrites>>, CallOK(p, c)
  PROVE  EInv'
<1>1. LogOK' /\ Grows
  BY SameLog DEF EInv
<1>2. Grows
  BY <1>1
<1>3. RecordsOK'
  BY <1>1, <1>2, AnchoredStays DEF EInv, RecordsOK
<1>4. HandedOK'
  BY DEF EInv, HandedOK, Disclosures
<1>5. CallOK(p, c)'
  BY <1>1, <1>2, CallStays DEF EInv
<1> QED
  BY <1>1, <1>2, <1>3, <1>4, <1>5, CallMoves

LEMMA IdleIsFine == ASSUME NEW p PROVE CallOK(p, Idle)
  BY DEF Idle, CallOK, HeadOK, WithHead

\* A call that anchors holds a head as it was read.
LEMMA HoldsHead ==
  ASSUME EInv, NEW p \in Procs, op[p].pc \in WithHead
  PROVE  HeadOK(op[p]) /\ op[p].head \in Rows /\ Anchored(op[p].head.sequence, op[p].head.hash)
<1>1. CallOK(p, op[p])
  BY DEF EInv
<1>2. op[p] \notin Reading /\ op[p] \notin Verifying
  BY DEF Reading, Verifying, WithHead
<1> QED
  BY <1>1, <1>2 DEF CallOK, HeadOK

\* The steps of AnchorAuditLog but its insert read the head, carry it, or drop it.
LEMMA AnchoringIsQuiet ==
  ASSUME EInv, Shapes, NEW p \in Procs,
         \/ \E guarded \in BOOLEAN : AnchorAuditLog(p, guarded)
         \/ ReadPrevious(p) \/ GuardReads(p) \/ GuardJudges(p)
         \/ SubmitFails(p) \/ Accepted(p) \/ Rejected(p) \/ Reported(p) \/ Done(p)
  PROVE  EInv'
<1>1. ASSUME NEW c, Goto(p, c), UNCHANGED <<log, records, handed, rewrites>>,
             {"got", "quiet"} \intersect DOMAIN c = {}, c.pc \in {"idle", "declined", "reported"}
      PROVE  EInv'
  <2>1. CallOK(p, c)
    BY <1>1 DEF CallOK, HeadOK, WithHead
  <2> QED
    BY <1>1, <2>1, QuietlyMoves
<1>2. ASSUME NEW c, Goto(p, c), UNCHANGED <<log, records, handed, rewrites>>, op[p].pc \in WithHead,
             {"got", "quiet"} \intersect DOMAIN c = {}, c.pc \in WithHead, c.head = op[p].head,
             c.pc = "save" => c.ref \in Nat
      PROVE  EInv'
  <2>1. CallOK(p, c)
    BY <1>2, HoldsHead DEF CallOK, HeadOK
  <2> QED
    BY <1>2, <2>1, QuietlyMoves
<1>3. {"got", "quiet"} \intersect DOMAIN Idle = {} /\ Idle.pc = "idle"
  BY DEF Idle
<1>4. ASSUME NEW guarded \in BOOLEAN, AnchorAuditLog(p, guarded) PROVE EInv'
  <2> DEFINE d == [pc |-> "previous", head |-> ChainHead, guarded |-> guarded]
  <2>1. /\ UNCHANGED <<log, records, handed, rewrites>>
        /\ Goto(p, IF log = << >> THEN Idle ELSE d)
    BY <1>4 DEF AnchorAuditLog, Begin, evidence
  <2>2. CASE log = << >>
    BY <1>1, <1>3, <2>1, <2>2
  <2>3. CASE log # << >>
    <3>1. ChainHead \in Rows /\ Anchored(ChainHead.sequence, ChainHead.hash)
      BY <2>3, HeadIs, LogIs DEF EInv, Anchored
    <3>2. CallOK(p, d)
      BY <3>1 DEF CallOK, HeadOK, WithHead
    <3>3. PICK c : c = d
      OBVIOUS
    <3> HIDE DEF d
    <3> QED
      BY <2>1, <2>3, <3>2, <3>3, QuietlyMoves
  <2> QED
    BY <2>2, <2>3
<1>5. CASE ReadPrevious(p)
  <2>1. PICK c : c = [op[p] EXCEPT !.pc = IF op[p].guarded THEN "guard" ELSE "submit"]
    OBVIOUS
  <2>2. (Return(p) \/ Goto(p, c)) /\ UNCHANGED <<log, records, handed, rewrites>> /\ op[p].pc = "previous"
    BY <1>5, <2>1 DEF ReadPrevious, Reads, bounds, evidence
  <2>3. "pc" \in DOMAIN op[p] /\ {"got", "quiet"} \intersect DOMAIN op[p] = {}
    <3>1. CallOK(p, op[p])
      BY DEF EInv
    <3> QED
      BY <2>2, <3>1 DEF Shapes, CallOK, Reading, Verifying
  <2>4. c.pc \in {"guard", "submit"} /\ c.head = op[p].head /\ {"got", "quiet"} \intersect DOMAIN c = {}
    BY <2>1, <2>3
  <2>5. CASE Return(p)
    BY <1>1, <1>3, <2>2, <2>5 DEF Return
  <2>6. CASE Goto(p, c)
    BY <1>2, <2>2, <2>4, <2>6 DEF WithHead
  <2> QED
    BY <2>2, <2>5, <2>6
<1>6. CASE GuardReads(p)
  <2>1. PICK reading : Goto(p, [pc |-> "judge", head |-> op[p].head, guarded |-> TRUE, reading |-> reading])
                       /\ Goes(reading # Unreadable)
    BY <1>6 DEF GuardReads
  <2>2. UNCHANGED <<log, records, handed, rewrites>> /\ op[p].pc = "guard"
    BY <1>6, <2>1 DEF GuardReads, Goes, evidence
  <2>3. PICK c : c = [pc |-> "judge", head |-> op[p].head, guarded |-> TRUE, reading |-> reading]
    OBVIOUS
  <2>4. Goto(p, c) /\ c.pc = "judge" /\ c.head = op[p].head /\ {"got", "quiet"} \intersect DOMAIN c = {}
    BY <2>1, <2>3
  <2> QED
    BY <1>2, <2>2, <2>4 DEF WithHead
<1>7. CASE GuardJudges(p)
  <2>1. PICK c : c = [pc |-> "submit", head |-> op[p].head, guarded |-> TRUE]
    OBVIOUS
  <2>2. PICK d : d = [pc |-> "declined"]
    OBVIOUS
  <2>3. /\ Goto(p, c) \/ Goto(p, d)
        /\ UNCHANGED <<log, records, handed, rewrites>> /\ op[p].pc = "judge"
    BY <1>7, <2>1, <2>2 DEF GuardJudges, Goes, evidence
  <2>4. c.pc = "submit" /\ c.head = op[p].head /\ {"got", "quiet"} \intersect DOMAIN c = {}
        /\ d.pc = "declined" /\ {"got", "quiet"} \intersect DOMAIN d = {}
    BY <2>1, <2>2
  <2>5. CASE Goto(p, c)
    BY <1>2, <2>3, <2>4, <2>5 DEF WithHead
  <2>6. CASE Goto(p, d)
    BY <1>1, <2>3, <2>4, <2>6
  <2> QED
    BY <2>3, <2>5, <2>6
<1>8. CASE SubmitFails(p)
  <2>1. Goto(p, Idle) /\ UNCHANGED <<log, records, handed, rewrites>>
    BY <1>8 DEF SubmitFails, Fails, Goes, Return, evidence
  <2> QED
    BY <1>1, <1>3, <2>1
<1>9. CASE Accepted(p)
  <2>1. PICK c : c = [pc |-> "save", head |-> op[p].head, ref |-> Len(ledger) + 1]
    OBVIOUS
  <2>2. /\ Goto(p, c) \/ Goto(p, Idle)
        /\ UNCHANGED <<log, records, handed, rewrites>> /\ op[p].pc = "submit"
    BY <1>9, <2>1 DEF Accepted, Goes, Receipt
  <2>3. c.pc = "save" /\ c.head = op[p].head /\ {"got", "quiet"} \intersect DOMAIN c = {} /\ c.ref \in Nat
    BY <2>1 DEF Shapes
  <2>4. CASE Goto(p, c)
    BY <1>2, <2>2, <2>3, <2>4 DEF WithHead
  <2>5. CASE Goto(p, Idle)
    BY <1>1, <1>3, <2>2, <2>5
  <2> QED
    BY <2>2, <2>4, <2>5
<1>10. CASE Rejected(p)
  <2>1. PICK c : c = [pc |-> "reported"]
    OBVIOUS
  <2>2. /\ Goto(p, c) \/ Goto(p, Idle)
        /\ UNCHANGED <<log, records, handed, rewrites>>
    BY <1>10, <2>1 DEF Rejected, Goes, Receipt, evidence
  <2>3. c.pc = "reported" /\ {"got", "quiet"} \intersect DOMAIN c = {}
    BY <2>1
  <2>4. CASE Goto(p, c)
    BY <1>1, <2>2, <2>3, <2>4
  <2>5. CASE Goto(p, Idle)
    BY <1>1, <1>3, <2>2, <2>5
  <2> QED
    BY <2>2, <2>4, <2>5
<1>11. CASE Reported(p) \/ Done(p)
  <2>1. Goto(p, Idle) /\ UNCHANGED <<log, records, handed, rewrites>>
    BY <1>11 DEF Reported, Done, Reads, Return, evidence, bounds
  <2> QED
    BY <1>1, <1>3, <2>1
<1> QED
  BY <1>4, <1>5, <1>6, <1>7, <1>8, <1>9, <1>10, <1>11

\* The receipt that is inserted says of the head what the call read of it (AnchorAuditLog.execute).
LEMMA SavesTheHead == ASSUME EInv, Shapes, NEW p \in Procs, SaveRecord(p) PROVE EInv'
<1> DEFINE c == op[p]
           receipt == [sequence |-> c.head.sequence, chainHash |-> c.head.hash, ref |-> c.ref]
<1>1. /\ Goto(p, Idle) /\ UNCHANGED <<log, handed, rewrites>> /\ c.pc = "save"
      /\ records' = records \/ records' = records \union {receipt}
  BY DEF SaveRecord, Goes, Return
<1>2. LogOK' /\ Grows
  BY <1>1, SameLog DEF EInv
<1>3. receipt \in Receipts /\ Anchored(receipt.sequence, receipt.chainHash)
  <2>1. HeadOK(c) /\ c.head \in Rows /\ Anchored(c.head.sequence, c.head.hash)
    BY <1>1, HoldsHead DEF WithHead
  <2> QED
    BY <1>1, <2>1 DEF Receipts, Rows, HeadOK
<1> HIDE DEF receipt
<1>4. RecordsOK'
  <2>0. IsFiniteSet(records')
    BY <1>1, FS_AddElement DEF EInv, RecordsOK
  <2>1. \A r \in records' : r \in Receipts /\ Anchored(r.sequence, r.chainHash)
    BY <1>1, <1>3 DEF EInv, RecordsOK
  <2> QED
    BY <1>1, <2>0, <2>1 DEF RecordsOK, Anchored
<1>5. HandedOK'
  BY <1>1 DEF EInv, HandedOK, Disclosures
<1>6. CallOK(p, Idle)'
  BY DEF Idle, CallOK, HeadOK, WithHead
<1> QED
  BY <1>1, <1>2, <1>4, <1>5, <1>6, CallMoves

-----------------------------------------------------------------------------
\* What goes on around the calls.
LEMMA AroundTheCalls == ASSUME EInv, Shapes, Surroundings PROVE EInv'
<1>0. Len(log) \in Nat /\ LogOK
  BY LogIs DEF EInv
<1>1. ASSUME UNCHANGED <<log, records, op, handed, rewrites>> PROVE EInv'
  <2>1. LogOK' /\ Grows
    BY <1>0, <1>1, SameLog
  <2>2. RecordsOK'
    BY <1>0, <1>1, <2>1, AnchoredStays DEF EInv, RecordsOK
  <2>3. HandedOK'
    BY <1>1 DEF EInv, HandedOK, Disclosures
  <2>4. ASSUME NEW q \in Procs PROVE CallOK(q, op[q])'
    <3>1. PICK d : d = op[q]
      OBVIOUS
    <3>2. CallOK(q, d)'
      BY <1>1, <2>1, <3>1, CallStays DEF EInv
    <3> QED
      BY <1>1, <3>1, <3>2
  <2> QED
    BY <2>1, <2>2, <2>3, <2>4 DEF EInv
<1>2. ASSUME NEW e \in Events, RecordEvent(e) PROVE EInv'
  <2> DEFINE content == Content(e.org, e.what, "system")
  <2>1. content \in Contents
    BY EvidenceAssumption DEF Content, Contents
  <2>2. Len(log) < MaxEntries /\ log' = Extended(content) /\ UNCHANGED <<records, op, handed, rewrites>>
    BY <1>2 DEF RecordEvent, bounds
  <2> HIDE DEF content
  <2>3. LogOK' /\ Grows
    BY <1>0, <2>1, <2>2, AppendKeeps
  <2>4. RecordsOK'
    BY <1>0, <2>2, <2>3, AnchoredStays DEF EInv, RecordsOK
  <2>5. Alike
    BY <1>0, <2>3, GrowsAlike
  <2>6. HandedOK'
    <3> SUFFICES ASSUME NEW q \in Procs PROVE (handed[q] \in Nat /\ handed[q] <= Cardinality(Disclosures(q)))'
      BY DEF HandedOK
    <3> QED
      BY <1>0, <2>2, <2>3, <2>5, DisclosuresGrow DEF EInv, HandedOK
  <2>7. ASSUME NEW q \in Procs PROVE CallOK(q, op[q])'
    <3>1. PICK d : d = op[q]
      OBVIOUS
    <3>2. CallOK(q, d)'
      BY <2>2, <2>3, <3>1, CallStays DEF EInv
    <3> QED
      BY <2>2, <3>1, <3>2
  <2> QED
    BY <2>3, <2>4, <2>6, <2>7 DEF EInv
<1>3. ASSUME NEW i \in DOMAIN log, NEW rederive \in BOOLEAN, Rewrite(i, rederive) PROVE EInv'
  <2>1. LogOK' /\ Alike /\ rewrites' # 0
    BY <1>0, <1>3, RewriteKeeps
  <2>2. /\ UNCHANGED <<records, handed>>
        /\ op' = [q \in Procs |-> IF "quiet" \in DOMAIN op[q] THEN [op[q] EXCEPT !.quiet = FALSE] ELSE op[q]]
    BY <1>3 DEF Rewrite
  <2>3. RecordsOK'
    BY <2>1, <2>2 DEF EInv, RecordsOK, Anchored
  <2>4. HandedOK'
    <3> SUFFICES ASSUME NEW q \in Procs PROVE (handed[q] \in Nat /\ handed[q] <= Cardinality(Disclosures(q)))'
      BY DEF HandedOK
    <3> QED
      BY <1>0, <2>1, <2>2, DisclosuresGrow DEF EInv, HandedOK
  <2>5. ASSUME NEW q \in Procs PROVE CallOK(q, op[q])'
    <3>1. PICK d : d = op[q]
      OBVIOUS
    <3>2. CallOK(q, IF "quiet" \in DOMAIN d THEN [d EXCEPT !.quiet = FALSE] ELSE d)'
      BY <2>1, <2>2, <3>1, CallSurvivesEdit DEF EInv
    <3>3. op'[q] = IF "quiet" \in DOMAIN d THEN [d EXCEPT !.quiet = FALSE] ELSE d
      BY <2>2, <3>1
    <3> QED
      BY <3>2, <3>3
  <2> QED
    BY <2>1, <2>3, <2>4, <2>5 DEF EInv
<1>4. ASSUME NEW amount \in Deposits, TopUp(amount) PROVE EInv'
  BY <1>1, <1>4 DEF TopUp, evidence
<1>5. CASE TimerReads \/ TimerJudges
  BY <1>1, <1>5 DEF TimerReads, TimerJudges, Goes, evidence
<1>6. CASE Crash
  <2>1. UNCHANGED <<log, records, handed, rewrites>> /\ op' = [q \in Procs |-> Idle]
    BY <1>6 DEF Crash, Fails, Goes, evidence
  <2>2. LogOK' /\ Grows
    BY <1>0, <2>1, SameLog
  <2>3. RecordsOK'
    BY <1>0, <2>1, <2>2, AnchoredStays DEF EInv, RecordsOK
  <2>4. HandedOK'
    BY <2>1 DEF EInv, HandedOK, Disclosures
  <2>5. ASSUME NEW q \in Procs PROVE CallOK(q, op[q])'
    <3>1. op'[q] = Idle
      BY <2>1
    <3>2. CallOK(q, Idle)'
      BY DEF Idle, CallOK, HeadOK, WithHead
    <3> QED
      BY <3>1, <3>2
  <2> QED
    BY <2>2, <2>3, <2>4, <2>5 DEF EInv
<1> QED
  BY <1>2, <1>3, <1>4, <1>5, <1>6 DEF Surroundings

-----------------------------------------------------------------------------
(* Reading page by page.                                                   *)

Hits(from, matching) == {i \in from .. Len(log) : log[i] \in matching}

\* The rows at the first positions of S, `limit` of them at most.
FirstOf(S, limit, found) ==
    /\ Within(S, Len(log)) /\ found \in Seq(Rows) /\ Len(found) = AtMost(Cardinality(S), limit)
    /\ \A k \in 1 .. Len(found) : k \in 1 .. Cardinality(S) /\ found[k] = log[Nth(S, k)]

\* What findFrom and findWithFilters return.
LEMMA FoundRows ==
  ASSUME LogOK, NEW from \in Nat \ {0}, NEW limit \in Nat, NEW matching
  PROVE  FirstOf(Hits(from, matching), limit, FindFrom(from, limit, matching))
<1> DEFINE S == Hits(from, matching)
           all == Pick(log, S)
           n == AtMost(Len(all), limit)
<1>1. Len(log) \in Nat /\ log \in Seq(Rows)
  BY LogIs DEF LogOK
<1>2. Within(S, Len(log))
  BY <1>1 DEF Within, Hits
<1>3. Cardinality(S) \in Nat
  BY <1>1, <1>2, Counting
<1>4. all \in Seq(Rows) /\ Len(all) = Cardinality(S) /\ \A k \in 1 .. Cardinality(S) : all[k] = log[Nth(S, k)]
  BY <1>1, <1>2, PickIs
<1>5. FindFrom(from, limit, matching) = SubSeq(all, 1, n)
  BY DEF FindFrom, Hits
<1> HIDE DEF S, all
<1>6. n \in 0 .. Len(all) /\ n = AtMost(Cardinality(S), limit)
  BY <1>3, <1>4 DEF AtMost
<1>7. SubSeq(all, 1, n) \in Seq(Rows) /\ Len(SubSeq(all, 1, n)) = n /\ \A k \in 1 .. n : SubSeq(all, 1, n)[k] = all[k]
  <2> HIDE DEF n
  <2> QED
    BY <1>4, <1>6
<1>8. \A k \in 1 .. n : k \in 1 .. Cardinality(S)
  BY <1>3, <1>4, <1>6
<1> HIDE DEF n
<1>9. FirstOf(S, limit, SubSeq(all, 1, n))
  BY <1>2, <1>4, <1>6, <1>7, <1>8 DEF FirstOf
<1> QED
  BY <1>5, <1>9 DEF S

\* The positions that a read has still to hand out, and the first m of them, which go up to n.
Remaining(c) == Hits(c.cursor + 1, {e \in ToSet(log) : Matches(c, e)})
Leads(S, m, n) == UpTo(S, n) = {Nth(S, k) : k \in 1 .. m}

\* What a read has handed out, up to a row of the next page or to the end of the log.
LEMMA ReadsOn ==
  ASSUME LogOK, NEW p, NEW c \in Reading, ReadOK(p, c),
         Within(Remaining(c), Len(log)),
         NEW m \in 0 .. Cardinality(Remaining(c)), NEW n \in c.cursor .. Len(log), Leads(Remaining(c), m, n),
         NEW fresh \in [1 .. m -> Nat], \A k \in 1 .. m : fresh[k] = Nth(Remaining(c), k)
  PROVE  /\ c.got \o fresh \in Seq(Nat)
         /\ ToSet(c.got \o fresh) = {i \in 1 .. n : Matches(c, log[i])}
         /\ \A i, j \in DOMAIN (c.got \o fresh) : i < j => (c.got \o fresh)[i] < (c.got \o fresh)[j]
<1>0. PICK S : S = Remaining(c)
  OBVIOUS
<1>1. Len(log) \in Nat /\ DOMAIN log = 1 .. Len(log) /\ c.cursor \in Nat /\ c.got \in Seq(Nat) /\ c.cursor <= Len(log)
  BY LogIs DEF Reading, ReadOK
<1>2. Within(S, Len(log)) /\ Cardinality(S) \in Nat /\ m \in 0 .. Cardinality(S)
  BY <1>0, <1>1, Counting
<1>3. m \in Nat /\ n \in Nat /\ c.cursor <= n /\ n <= Len(log)
  BY <1>1, <1>2
<1>4. fresh \in Seq(Nat) /\ Len(fresh) = m
  BY <1>3, FunctionIsSequence
<1> DEFINE got == c.got \o fresh
           l == Len(c.got)
<1>5. /\ got \in Seq(Nat) /\ Len(got) = l + m
      /\ \A k \in 1 .. l : got[k] = c.got[k]
      /\ \A k \in 1 .. m : got[l + k] = fresh[k]
  <2>1. PICK g : g = c.got
    OBVIOUS
  <2>2. /\ g \o fresh \in Seq(Nat) /\ Len(g \o fresh) = Len(g) + Len(fresh)
        /\ \A k \in 1 .. Len(g) : (g \o fresh)[k] = g[k]
        /\ \A k \in 1 .. Len(fresh) : (g \o fresh)[Len(g) + k] = fresh[k]
    <3>1. PICK D : D = Nat
      OBVIOUS
    <3>2. g \in Seq(D) /\ fresh \in Seq(D)
      BY <1>1, <1>4, <2>1, <3>1
    <3>3. /\ g \o fresh \in Seq(D) /\ Len(g \o fresh) = Len(g) + Len(fresh)
          /\ \A k \in 1 .. Len(g) : (g \o fresh)[k] = g[k]
          /\ \A k \in 1 .. Len(fresh) : (g \o fresh)[Len(g) + k] = fresh[k]
      BY <3>2, Concatenated
    <3> QED
      BY <3>1, <3>3
  <2> QED
    BY <1>4, <2>1, <2>2
<1>6. l \in Nat /\ DOMAIN c.got = 1 .. l
  BY <1>1
<1>7. \A i \in S : i \in Nat /\ c.cursor < i /\ i <= Len(log) /\ Matches(c, log[i])
  BY <1>0, <1>1 DEF Hits, Remaining
<1>8. \A k \in 1 .. m : Nth(S, k) \in UpTo(S, n) /\ fresh[k] = Nth(S, k)
  BY <1>0 DEF Leads
<1>9. \A k \in 1 .. l : c.got[k] \in Nat /\ c.got[k] <= c.cursor /\ 1 <= c.got[k] /\ Matches(c, log[c.got[k]])
  <2> TAKE k \in 1 .. l
  <2>1. c.got[k] \in ToSet(c.got)
    BY <1>6 DEF ToSet
  <2> QED
    BY <1>1, <2>1 DEF ReadOK
<1> HIDE DEF got, l
<1>10. ToSet(got) = {got[k] : k \in 1 .. l + m}
  <2>1. DOMAIN got = 1 .. l + m
    BY <1>5
  <2> QED
    BY <2>1 DEF ToSet
<1>11. ASSUME NEW k \in 1 .. l + m PROVE got[k] \in 1 .. n /\ Matches(c, log[got[k]])
  <2>1. CASE k \in 1 .. l
    <3>1. got[k] = c.got[k]
      BY <1>5, <2>1
    <3>2. c.got[k] \in Nat /\ c.got[k] <= c.cursor /\ 1 <= c.got[k] /\ Matches(c, log[c.got[k]])
      BY <1>9, <2>1
    <3>3. c.got[k] \in 1 .. n
      BY <1>1, <1>3, <3>2
    <3> QED
      BY <3>1, <3>2, <3>3
  <2>2. CASE ~(k \in 1 .. l)
    <3>1. PICK j \in 1 .. m : k = l + j
      <4>1. k - l \in 1 .. m /\ k = l + (k - l)
        BY <1>3, <1>6, <2>2
      <4> QED
        BY <4>1
    <3>2. got[k] = Nth(S, j) /\ Nth(S, j) \in S /\ Nth(S, j) <= n
      BY <1>5, <1>8, <3>1 DEF UpTo
    <3> QED
      BY <1>1, <1>3, <1>7, <3>2
  <2> QED
    BY <2>1, <2>2
<1>12. ASSUME NEW i \in 1 .. n, Matches(c, log[i]) PROVE \E k \in 1 .. l + m : got[k] = i
  <2>1. CASE i <= c.cursor
    <3>1. i \in ToSet(c.got)
      BY <1>1, <1>3, <1>12, <2>1 DEF ReadOK
    <3>2. PICK k \in 1 .. l : c.got[k] = i
      BY <1>6, <3>1 DEF ToSet
    <3>3. k \in 1 .. l + m
      BY <1>3, <1>6
    <3> QED
      BY <1>5, <3>2, <3>3
  <2>2. CASE ~(i <= c.cursor)
    <3>1. i \in 1 .. Len(log) /\ i \in c.cursor + 1 .. Len(log)
      BY <1>1, <1>3, <2>2
    <3>2. log[i] \in ToSet(log)
      BY <1>1, <3>1 DEF ToSet
    <3>3. i \in S
      BY <1>0, <1>12, <3>1, <3>2 DEF Hits, Remaining
    <3>4. i \in UpTo(S, n)
      BY <3>3 DEF UpTo
    <3>5. PICK j \in 1 .. m : Nth(S, j) = i
      BY <1>0, <3>4 DEF Leads
    <3>6. l + j \in 1 .. l + m
      BY <1>3, <1>6
    <3> QED
      BY <1>5, <1>8, <3>5, <3>6
  <2> QED
    BY <2>1, <2>2
<1>13. ASSUME NEW i \in 1 .. l + m, NEW j \in 1 .. l + m, i < j PROVE got[i] < got[j]
  <2>1. CASE j \in 1 .. l
    <3>1. i \in 1 .. l
      BY <1>6, <1>13, <2>1
    <3> QED
      BY <1>5, <1>6, <1>13, <2>1, <3>1 DEF ReadOK
  <2>2. CASE ~(j \in 1 .. l)
    <3>1. PICK b \in 1 .. m : j = l + b
      <4>1. j - l \in 1 .. m /\ j = l + (j - l)
        BY <1>3, <1>6, <2>2
      <4> QED
        BY <4>1
    <3>2. got[j] = Nth(S, b) /\ Nth(S, b) \in S
      BY <1>5, <1>8, <3>1 DEF UpTo
    <3>3. CASE i \in 1 .. l
      <4>1. got[i] = c.got[i] /\ c.got[i] \in Nat /\ c.got[i] <= c.cursor
        BY <1>5, <1>9, <3>3
      <4>2. got[j] \in Nat /\ c.cursor < got[j]
        BY <1>7, <3>2
      <4> QED
        BY <1>1, <4>1, <4>2
    <3>4. CASE ~(i \in 1 .. l)
      <4>1. PICK a \in 1 .. m : i = l + a
        <5>1. i - l \in 1 .. m /\ i = l + (i - l)
          BY <1>3, <1>6, <3>4
        <5> QED
          BY <5>1
      <4>2. a \in 1 .. b - 1 /\ b \in 1 .. Cardinality(S)
        BY <1>2, <1>3, <1>6, <1>13, <3>1, <4>1
      <4>3. Nth(S, a) < Nth(S, b)
        BY <1>1, <1>2, <4>2, NthRises
      <4>4. got[i] = Nth(S, a)
        BY <1>5, <1>8, <4>1
      <4> QED
        BY <3>2, <4>3, <4>4
    <3> QED
      BY <3>3, <3>4
  <2> QED
    BY <2>1, <2>2
<1>14. DOMAIN got = 1 .. l + m
  BY <1>5
<1>15. ToSet(got) = {i \in 1 .. n : Matches(c, log[i])}
  BY <1>10, <1>11, <1>12
<1>16. \A i, j \in DOMAIN got : i < j => got[i] < got[j]
  BY <1>13, <1>14
<1> QED
  BY <1>5, <1>15, <1>16 DEF got

\* A read begins with nothing handed out.
LEMMA StartKeeps ==
  ASSUME EInv, Shapes, NEW p \in Procs, NEW ask \in Asks, StartRead(p, ask) \/ ApplyAuditRetentionPolicy(p, ask)
  PROVE  EInv'
<1>1. PICK c : /\ \/ c = NewRead("record", ask) /\ ask.operation \in {"query", "export"}
                  \/ c = NewRead("page", ask) /\ ask.operation = "retention"
               /\ Goto(p, c) /\ UNCHANGED <<log, records, handed, rewrites>>
  <2>1. CASE StartRead(p, ask)
    BY <2>1 DEF StartRead, Begin, evidence
  <2>2. CASE ApplyAuditRetentionPolicy(p, ask)
    BY <2>2 DEF ApplyAuditRetentionPolicy, Begin, evidence
  <2> QED
    BY <2>1, <2>2
<1>2. c \in Reading /\ c.cursor = 0 /\ c.got = << >> /\ (c.pc = "page" => c.operation = "retention")
  <2>1. ask \in [operation : {"query", "export", "retention"}, org : Orgs, limit : Nat \ {0},
                 reader : [org : Orgs, permissions : SUBSET {"query", "export"}]]
    BY EvidenceAssumption
  <2>2. \E pc \in {"record", "page"} :
          /\ c = [pc |-> pc, operation |-> ask.operation, reader |-> ask.reader, org |-> ask.org,
                  limit |-> ask.limit, cursor |-> 0, got |-> << >>]
          /\ pc = "page" => ask.operation = "retention"
    BY <1>1 DEF NewRead
  <2>3. << >> \in Seq(Nat)
    OBVIOUS
  <2> QED
    BY <2>1, <2>2, <2>3 DEF Reading
<1>3. ToSet(c.got) = {} /\ DOMAIN c.got = {}
  BY <1>2 DEF ToSet
<1>4. ReadOK(p, c)
  BY <1>2, <1>3, LogIs DEF EInv, ReadOK
<1>5. CallOK(p, c)
  BY <1>2, <1>4 DEF CallOK
<1> QED
  BY <1>1, <1>5, QuietlyMoves

\* The disclosure is in the log before the page is handed out (authorizeAndRecordAuditRead).
LEMMA RecordKeeps == ASSUME EInv, Shapes, NEW p \in Procs, RecordRead(p) PROVE EInv'
<1>1. PICK c : c = op[p]
  OBVIOUS
<1>2. c.pc = "record" /\ CallOK(p, c)
  BY <1>1 DEF EInv, RecordRead
<1>3. c \in Reading /\ ReadOK(p, c)
  BY <1>2 DEF CallOK, Verifying, WithHead
<1>4. PICK recorded \in BOOLEAN :
        /\ Goes(recorded)
        /\ log' = IF recorded THEN Extended(Content(c.org, ActionOf(c), p)) ELSE log
        /\ Goto(p, IF MayRead(c, recorded) THEN [c EXCEPT !.pc = "page"] ELSE Idle)
  BY <1>1 DEF RecordRead
<1>5. UNCHANGED <<records, handed, rewrites>> /\ Len(log) < MaxEntries
  BY <1>4 DEF RecordRead, Goes
<1>6. CASE ~recorded
  <2>1. Goto(p, Idle) /\ log' = log
    BY <1>4, <1>6 DEF MayRead
  <2> QED
    BY <1>5, <2>1, IdleIsFine, QuietlyMoves
<1>7. CASE recorded
  <2>1. PICK content : content = Content(c.org, ActionOf(c), p)
    OBVIOUS
  <2>2. content \in Contents /\ content.by = p /\ content.what = ActionOf(c)
    BY <1>3, <2>1 DEF Content, Contents, ActionOf, Reading
  <2>3. LogOK' /\ Grows /\ Len(log') = Len(log) + 1 /\ log'[Len(log) + 1].content = content
    BY <1>4, <1>5, <1>7, <2>1, <2>2, AppendKeeps DEF EInv
  <2>4. Alike
    BY <2>3, GrowsAlike DEF EInv
  <2>5. RecordsOK'
    BY <1>5, <2>3, AnchoredStays DEF EInv, RecordsOK
  <2>6. HandedOK'
    <3> SUFFICES ASSUME NEW q \in Procs PROVE (handed[q] \in Nat /\ handed[q] <= Cardinality(Disclosures(q)))'
      BY DEF HandedOK
    <3> QED
      BY <1>5, <2>3, <2>4, DisclosuresGrow DEF EInv, HandedOK
  <2>7. CASE ~MayRead(c, recorded)
    <3>1. Goto(p, Idle)
      BY <1>4, <2>7
    <3>2. CallOK(p, Idle)'
      BY DEF Idle, CallOK, HeadOK, WithHead
    <3> QED
      BY <1>5, <2>3, <2>5, <2>6, <3>1, <3>2, CallMoves
  <2>8. CASE MayRead(c, recorded)
    <3>1. PICK d : d = [c EXCEPT !.pc = "page"]
      OBVIOUS
    <3>2. Goto(p, d)
      BY <1>4, <2>8, <3>1
    <3>3. /\ d \in Reading /\ d.cursor = c.cursor /\ d.got = c.got /\ d.operation = c.operation /\ d.org = c.org
          /\ d.pc = "page"
      BY <1>3, <3>1 DEF Reading
    <3>4. ReadOK(p, c)'
      BY <1>3, <1>5, <2>3, <2>4, ReadStays DEF EInv
    <3>5. handed'[p] < Cardinality(Disclosures(p)')
      <4>1. Len(log) \in Nat /\ Len(log') \in Nat /\ DOMAIN log = 1 .. Len(log) /\ DOMAIN log' = 1 .. Len(log')
        BY LogIs, <2>3 DEF EInv, LogOK
      <4>2. Len(log) + 1 \in Disclosures(p)' /\ Len(log) + 1 \notin Disclosures(p)
        BY <2>2, <2>3, <2>8, <4>1 DEF Disclosures, MayRead, ActionOf
      <4>3. Disclosures(p) \in SUBSET (Disclosures(p)')
        BY <2>4, <4>1 DEF Disclosures, Alike
      <4>4. IsFiniteSet(Disclosures(p)')
        <5>1. Disclosures(p)' \in SUBSET Nat /\ \A i \in Disclosures(p)' : i <= Len(log')
          BY <4>1 DEF Disclosures
        <5> QED
          BY <4>1, <5>1, FS_BoundedSetOfNaturals
      <4>5. /\ Cardinality(Disclosures(p)) # Cardinality(Disclosures(p)')
            /\ Cardinality(Disclosures(p)) <= Cardinality(Disclosures(p)')
        BY <4>2, <4>3, <4>4, FS_Subset
      <4>6. handed[p] \in Nat /\ handed[p] <= Cardinality(Disclosures(p)) /\ Cardinality(Disclosures(p)) \in Nat
            /\ Cardinality(Disclosures(p)') \in Nat
        BY <2>3, <2>4, DisclosuresGrow DEF EInv, HandedOK
      <4> QED
        BY <1>5, <4>5, <4>6
    <3>6. ReadOK(p, d)'
      BY <3>3, <3>4, <3>5 DEF ReadOK, Matches, PastRetention
    <3>7. CallOK(p, d)'
      BY <3>3, <3>6 DEF CallOK
    <3> QED
      BY <1>5, <2>3, <2>5, <2>6, <3>2, <3>7, CallMoves
  <2> QED
    BY <2>7, <2>8
<1> QED
  BY <1>6, <1>7

\* A page continues where the last one ended; a page that is not recorded is not handed out (ReadPage).
LEMMA PageKeeps == ASSUME EInv, Shapes, NEW p \in Procs, ReadPage(p) PROVE EInv'
<1>1. PICK c : c = op[p]
  OBVIOUS
<1>2. c.pc = "page" /\ CallOK(p, c)
  BY <1>1 DEF EInv, ReadPage
<1>3. c \in Reading /\ ReadOK(p, c)
  BY <1>2 DEF CallOK, Verifying, WithHead
<1> DEFINE limit == PageLimit(c)
           S == Hits(c.cursor + 1, {e \in ToSet(log) : Matches(c, e)})
           found == FindFrom(c.cursor + 1, limit + 1, {e \in ToSet(log) : Matches(c, e)})
<1>4. /\ LogOK /\ Len(log) \in Nat /\ Len(log) <= MaxEntries /\ MaxEntries \in Nat
      /\ limit \in Nat /\ (c.operation = "export" => limit = MaxEntries)
      /\ (c.operation # "export" => limit # 0)
      /\ c.cursor \in Nat /\ c.cursor <= Len(log)
  BY <1>3, LogIs, EvidenceAssumption DEF EInv, LogOK, Reading, ReadOK, PageLimit
<1>5. /\ Within(S, Len(log)) /\ found \in Seq(Rows)
      /\ Len(found) = AtMost(Cardinality(S), limit + 1)
      /\ \A k \in 1 .. Len(found) : k \in 1 .. Cardinality(S) /\ found[k] = log[Nth(S, k)]
  <2>1. PICK from, most, matching :
          from = c.cursor + 1 /\ most = limit + 1 /\ matching = {e \in ToSet(log) : Matches(c, e)}
    OBVIOUS
  <2>2. from \in Nat \ {0} /\ most \in Nat
    BY <1>4, <2>1
  <2>3. FirstOf(Hits(from, matching), most, FindFrom(from, most, matching))
    BY <1>4, <2>2, FoundRows
  <2>4. FirstOf(S, limit + 1, found)
    BY <2>1, <2>3
  <2> QED
    BY <2>4 DEF FirstOf
<1>6. Cardinality(S) \in Nat /\ \A i \in S : i \in 1 .. Len(log) /\ c.cursor < i
  <2>1. Cardinality(S) \in Nat
    BY <1>4, <1>5, Counting
  <2> QED
    BY <1>4, <2>1 DEF Hits
<1>7. \A k \in 1 .. Len(found) : found[k].sequence = Nth(S, k) /\ Nth(S, k) \in S
  <2> TAKE k \in 1 .. Len(found)
  <2>1. Nth(S, k) \in S
    BY <1>4, <1>5, NthIs
  <2> QED
    BY <1>4, <1>5, <1>6, <2>1 DEF LogOK
<1> DEFINE hasMore == Len(found) > limit
           page == IF hasMore THEN SubSeq(found, 1, limit) ELSE found
           fresh == [i \in DOMAIN page |-> page[i].sequence]
           got == c.got \o fresh
<1>8. /\ Goto(p, IF ~hasMore THEN [c EXCEPT !.pc = "read", !.got = got, !.cursor = Len(log)]
                 ELSE [c EXCEPT !.pc = IF c.operation = "query" THEN "record" ELSE "page",
                                !.got = got, !.cursor = NextCursor(found, limit)])
      /\ handed' = [handed EXCEPT ![p] = IF c.operation = "retention" THEN @ ELSE @ + 1]
      /\ UNCHANGED <<log, records, rewrites>>
  BY <1>1 DEF ReadPage, Reads, bounds, evidence
<1>8a. S = Remaining(c)
  BY DEF Remaining
<1> HIDE DEF S, found, limit
<1>9. LogOK' /\ Grows
  BY <1>4, <1>8, SameLog
<1>10. RecordsOK'
  BY <1>8, <1>9, AnchoredStays DEF EInv, RecordsOK
<1>11. PICK h : h = [handed EXCEPT ![p] = IF c.operation = "retention" THEN @ ELSE @ + 1]
  OBVIOUS
<1>12. HandedOK' /\ \A q \in Procs : q # p => handed'[q] = handed[q]
  <2>1. \A q \in Procs : q # p => handed'[q] = handed[q]
    BY <1>8
  <2>2. handed'[p] = (IF c.operation = "retention" THEN handed[p] ELSE handed[p] + 1) \/ handed'[p] = handed[p]
    BY <1>8
  <2>3. Cardinality(Disclosures(p)) \in Nat /\ handed[p] \in Nat /\ handed[p] <= Cardinality(Disclosures(p))
    <3>1. Alike
      BY <1>4, <1>9, GrowsAlike
    <3> QED
      BY <1>4, <1>9, <3>1, DisclosuresGrow DEF EInv, HandedOK
  <2>4. c.operation # "retention" => handed[p] < Cardinality(Disclosures(p))
    BY <1>2, <1>3 DEF ReadOK
  <2>5. handed'[p] \in Nat /\ handed'[p] <= Cardinality(Disclosures(p))
    BY <2>2, <2>3, <2>4
  <2>6. \A q \in Procs : handed'[q] \in Nat /\ handed'[q] <= Cardinality(Disclosures(q))
    BY <2>1, <2>5 DEF EInv, HandedOK
  <2> QED
    BY <1>8, <2>1, <2>6 DEF HandedOK, Disclosures
<1>13. ASSUME NEW d, Goto(p, d), d \in Reading, d.operation = c.operation, d.org = c.org, d.cursor <= Len(log),
              d.pc = "page" => d.operation = "retention",
              ToSet(d.got) = {i \in 1 .. d.cursor : Matches(c, log[i])},
              \A i, j \in DOMAIN d.got : i < j => d.got[i] < d.got[j]
       PROVE  EInv'
  <2>1. ReadOK(p, d)'
    BY <1>8, <1>13 DEF ReadOK, Matches, PastRetention
  <2>2. CallOK(p, d)'
    BY <1>13, <2>1 DEF CallOK
  <2> QED
    BY <1>8, <1>9, <1>10, <1>12, <1>13, <2>2, CallMoves
<1>14. CASE ~hasMore
  <2>1. Len(found) = Cardinality(S)
    BY <1>4, <1>5, <1>6, <1>14 DEF AtMost
  <2>2. DOMAIN found = 1 .. Cardinality(S)
    BY <1>5, <2>1
  <2>3. fresh \in [1 .. Cardinality(S) -> Nat] /\ \A k \in 1 .. Cardinality(S) : fresh[k] = Nth(S, k)
    BY <1>6, <1>7, <1>14, <2>1, <2>2
  <2>4. UpTo(S, Len(log)) = {Nth(S, k) : k \in 1 .. Cardinality(S)}
    <3>1. UpTo(S, Len(log)) = S
      BY <1>6 DEF UpTo
    <3>2. \A i \in S : \E k \in 1 .. Cardinality(S) : i = Nth(S, k)
      BY <1>4, <1>5, NthOnly
    <3>3. \A k \in 1 .. Cardinality(S) : Nth(S, k) \in S
      BY <1>4, <1>5, NthIs
    <3> QED
      BY <3>1, <3>2, <3>3
  <2>5. Cardinality(S) \in 0 .. Cardinality(S) /\ Len(log) \in c.cursor .. Len(log)
    BY <1>4, <1>6
  <2>6. PICK f : f = fresh
    OBVIOUS
  <2>7. /\ c.got \o f \in Seq(Nat)
        /\ ToSet(c.got \o f) = {i \in 1 .. Len(log) : Matches(c, log[i])}
        /\ \A i, j \in DOMAIN (c.got \o f) : i < j => (c.got \o f)[i] < (c.got \o f)[j]
    <3> HIDE DEF fresh
    <3> QED
      <4>1. PICK m, n : m = Cardinality(S) /\ n = Len(log)
        OBVIOUS
      <4>2. /\ m \in 0 .. Cardinality(S) /\ n \in c.cursor .. Len(log)
            /\ Leads(S, m, n)
            /\ f \in [1 .. m -> Nat] /\ \A k \in 1 .. m : f[k] = Nth(S, k)
        BY <2>3, <2>4, <2>5, <2>6, <4>1 DEF Leads
      <4>3. /\ c.got \o f \in Seq(Nat)
            /\ ToSet(c.got \o f) = {i \in 1 .. n : Matches(c, log[i])}
            /\ \A i, j \in DOMAIN (c.got \o f) : i < j => (c.got \o f)[i] < (c.got \o f)[j]
        BY <1>3, <1>4, <1>5, <1>8a, <4>2, ReadsOn
      <4> QED
        BY <4>1, <4>3
  <2>8. PICK g : g = c.got \o f
    OBVIOUS
  <2>9. PICK d : d = [c EXCEPT !.pc = "read", !.got = g, !.cursor = Len(log)]
    OBVIOUS
  <2>10. Goto(p, d)
    BY <1>8, <1>14, <2>6, <2>8, <2>9
  <2> HIDE DEF fresh
  <2>11. d \in Reading /\ d.operation = c.operation /\ d.org = c.org /\ d.cursor = Len(log) /\ d.pc = "read" /\ d.got = g
    BY <1>3, <1>4, <2>7, <2>8, <2>9 DEF Reading
  <2>12. /\ ToSet(d.got) = {i \in 1 .. d.cursor : Matches(c, log[i])}
         /\ \A i, j \in DOMAIN d.got : i < j => d.got[i] < d.got[j]
    BY <2>7, <2>8, <2>11
  <2>13. d.cursor <= Len(log) /\ (d.pc = "page" => d.operation = "retention")
    BY <1>4, <2>11
  <2> QED
    BY <1>13, <2>10, <2>11, <2>12, <2>13
<1>15. CASE hasMore
  <2>1. c.operation # "export"
    <3>1. Cardinality(S) <= Len(log)
      <4>1. Cardinality(UpTo(S, Len(log))) = Cardinality(S)
        BY <1>4, <1>5, Counting
      <4>2. PICK one \in Int : one = 1
        OBVIOUS
      <4>3. IsFiniteSet(one .. Len(log)) /\ Cardinality(one .. Len(log)) = IF one > Len(log) THEN 0 ELSE Len(log) - one + 1
        <5>1. Len(log) \in Int
          BY <1>4
        <5> QED
          BY <5>1, FS_Interval
      <4>4. S \in SUBSET (one .. Len(log))
        BY <1>6, <4>2
      <4>5. Cardinality(S) <= Cardinality(one .. Len(log))
        BY <4>3, <4>4, FS_Subset
      <4>6. Cardinality(one .. Len(log)) = Len(log)
        BY <1>4, <4>2, <4>3
      <4> QED
        BY <4>5, <4>6
    <3> QED
      BY <1>4, <1>5, <1>6, <1>15, <3>1 DEF AtMost
  <2>2. limit # 0 /\ limit + 1 <= Cardinality(S) /\ Len(found) = limit + 1
    BY <1>4, <1>5, <1>6, <1>15, <2>1 DEF AtMost
  <2>3. limit \in 1 .. Cardinality(S) /\ limit \in 1 .. Len(found) /\ limit \in 0 .. Cardinality(S)
    BY <1>4, <1>6, <2>2
  <2>4. PICK n : n = Nth(S, limit)
    OBVIOUS
  <2>5. NextCursor(found, limit) = n /\ n \in S /\ n \in c.cursor .. Len(log)
    BY <1>4, <1>6, <1>7, <2>3, <2>4 DEF NextCursor
  <2>6. UpTo(S, n) = {Nth(S, k) : k \in 1 .. limit}
    BY <1>4, <1>5, <2>3, <2>4, NthRises
  <2>7. /\ SubSeq(found, 1, limit) \in Seq(Rows) /\ Len(SubSeq(found, 1, limit)) = limit
        /\ \A k \in 1 .. limit : SubSeq(found, 1, limit)[k] = found[k]
    BY <1>4, <1>5, <2>2
  <2>8. page = SubSeq(found, 1, limit)
    BY <1>15
  <2>9. DOMAIN page = 1 .. limit /\ \A k \in 1 .. limit : page[k] = found[k]
    BY <2>7, <2>8
  <2> HIDE DEF page
  <2>10. \A k \in 1 .. limit : k \in 1 .. Len(found)
    BY <1>4, <2>2
  <2>11. fresh \in [1 .. limit -> Nat] /\ \A k \in 1 .. limit : fresh[k] = Nth(S, k)
    BY <1>6, <1>7, <2>9, <2>10
  <2>12. PICK f : f = fresh
    OBVIOUS
  <2>13. /\ c.got \o f \in Seq(Nat)
         /\ ToSet(c.got \o f) = {i \in 1 .. n : Matches(c, log[i])}
         /\ \A i, j \in DOMAIN (c.got \o f) : i < j => (c.got \o f)[i] < (c.got \o f)[j]
    <3> HIDE DEF fresh
    <3> QED
      <4>1. PICK m : m = limit
        OBVIOUS
      <4>2. /\ m \in 0 .. Cardinality(S) /\ n \in c.cursor .. Len(log)
            /\ Leads(S, m, n)
            /\ f \in [1 .. m -> Nat] /\ \A k \in 1 .. m : f[k] = Nth(S, k)
        BY <2>3, <2>5, <2>6, <2>11, <2>12, <4>1 DEF Leads
      <4> QED
        BY <1>3, <1>4, <1>5, <1>8a, <4>2, ReadsOn
  <2>14. PICK g : g = c.got \o f
    OBVIOUS
  <2>15. PICK d : d = [c EXCEPT !.pc = IF c.operation = "query" THEN "record" ELSE "page", !.got = g, !.cursor = n]
    OBVIOUS
  <2>16. Goto(p, d)
    BY <1>8, <1>15, <2>5, <2>12, <2>14, <2>15
  <2> HIDE DEF fresh
  <2>17. n \in Nat /\ n <= Len(log)
    BY <1>4, <2>5
  <2>18. /\ d \in Reading /\ d.operation = c.operation /\ d.org = c.org /\ d.cursor = n /\ d.got = g
         /\ d.pc = "page" => d.operation = "retention"
    BY <1>3, <2>1, <2>13, <2>14, <2>15, <2>17 DEF Reading
  <2> QED
    BY <1>13, <2>13, <2>14, <2>16, <2>17, <2>18
<1> QED
  BY <1>14, <1>15

-----------------------------------------------------------------------------
(* Verification.                                                           *)

\* A page of the walk is the rows that follow one another from the cursor on.
LEMMA WholeRows ==
  ASSUME LogOK, NEW from \in Nat \ {0}, NEW limit \in Nat, NEW page, page = FindFrom(from, limit, ToSet(log))
  PROVE  /\ page \in Seq(Rows) /\ Len(page) \in Nat /\ DOMAIN page = 1 .. Len(page)
         /\ \A k \in 1 .. Len(page) : from + k - 1 \in 1 .. Len(log) /\ page[k] = log[from + k - 1]
<1>1. Len(log) \in Nat /\ DOMAIN log = 1 .. Len(log)
  BY LogIs
<1>2. PICK all : all = ToSet(log)
  OBVIOUS
<1>3. Hits(from, all) = from .. Len(log)
  BY <1>1, <1>2 DEF Hits, ToSet
<1>4. /\ page \in Seq(Rows)
      /\ \A k \in 1 .. Len(page) : k \in 1 .. Cardinality(Hits(from, all)) /\ page[k] = log[Nth(Hits(from, all), k)]
  <2>1. page = FindFrom(from, limit, all)
    BY <1>2
  <2>2. FirstOf(Hits(from, all), limit, FindFrom(from, limit, all))
    BY FoundRows
  <2> QED
    BY <2>1, <2>2 DEF FirstOf
<1>5. Len(page) \in Nat /\ DOMAIN page = 1 .. Len(page)
  BY <1>4
<1>6. ASSUME NEW k \in 1 .. Len(page) PROVE from + k - 1 \in 1 .. Len(log) /\ page[k] = log[from + k - 1]
  <2>1. k \in 1 .. Cardinality(from .. Len(log)) /\ page[k] = log[Nth(from .. Len(log), k)]
    BY <1>3, <1>4
  <2>2. Nth(from .. Len(log), k) = from + k - 1
    BY <1>1, <2>1, NthOfInterval
  <2>3. Within(from .. Len(log), Len(log))
    BY <1>1 DEF Within
  <2>4. Nth(from .. Len(log), k) \in from .. Len(log)
    BY <1>1, <2>1, <2>3, NthIs
  <2> QED
    BY <1>1, <2>1, <2>2, <2>4
<1> QED
  BY <1>4, <1>5, <1>6

Predecessor(previous, rows, i) == IF i = 1 THEN previous ELSE rows[i - 1]
Sound(previous, rows, i) == BreakAt(Predecessor(previous, rows, i), rows[i]) = "none"

\* What verifyChainFrom reports is the first break.
LEMMA FirstBreak ==
  ASSUME NEW previous, NEW rows, Len(rows) \in Nat
  PROVE  \/ /\ VerifyChainFrom(previous, rows) = NoBreak
            /\ \A i \in 1 .. Len(rows) : Sound(previous, rows, i)
         \/ \E b \in 1 .. Len(rows) :
              /\ ~Sound(previous, rows, b)
              /\ \A i \in 1 .. b - 1 : Sound(previous, rows, i)
              /\ VerifyChainFrom(previous, rows) =
                   [sequence |-> rows[b].sequence, reason |-> BreakAt(Predecessor(previous, rows, b), rows[b])]
<1> DEFINE breaks == {i \in 1 .. Len(rows) : ~Sound(previous, rows, i)}
           first == CHOOSE i \in breaks : \A j \in breaks : i <= j
<1>1. VerifyChainFrom(previous, rows) =
        IF breaks = {} THEN NoBreak
        ELSE [sequence |-> rows[first].sequence, reason |-> BreakAt(Predecessor(previous, rows, first), rows[first])]
  BY DEF VerifyChainFrom, Sound, Predecessor
<1>2. CASE breaks = {}
  BY <1>1, <1>2
<1>3. CASE breaks # {}
  <2>1. \E i \in breaks : \A j \in breaks : i <= j
    <3>1. breaks \subseteq Nat
      OBVIOUS
    <3> HIDE DEF breaks
    <3> QED
      BY <1>3, <3>1, Least
  <2>2. first \in breaks /\ \A j \in breaks : first <= j
    <3> HIDE DEF breaks
    <3> QED
      BY <2>1
  <2>3. PICK b : b = first
    OBVIOUS
  <2> HIDE DEF first
  <2>4. b \in 1 .. Len(rows) /\ ~Sound(previous, rows, b)
    BY <2>2, <2>3
  <2>5. \A i \in 1 .. b - 1 : Sound(previous, rows, i)
    <3> TAKE i \in 1 .. b - 1
    <3>1. i \in 1 .. Len(rows) /\ ~(b <= i)
      BY <2>4
    <3> QED
      BY <2>2, <2>3, <3>1
  <2>6. VerifyChainFrom(previous, rows) =
          [sequence |-> rows[b].sequence, reason |-> BreakAt(Predecessor(previous, rows, b), rows[b])]
    BY <1>1, <1>3, <2>3
  <2> QED
    BY <2>4, <2>5, <2>6
<1> QED
  BY <1>2, <1>3

Inspected(page, break) ==
    IF break = NoBreak THEN page ELSE Pick(page, {i \in DOMAIN page : page[i].sequence <= break.sequence})

\* A page, the first break in it, and what is inspected of it.
Batch(from, limit, previous, page, break, inspected) ==
    /\ page = FindFrom(from, limit, ToSet(log))
    /\ break = VerifyChainFrom(previous, page)
    /\ inspected = Inspected(page, break)

Inspects(from, previous, page, break, inspected) ==
    /\ inspected \in Seq(Rows) /\ Len(inspected) \in 0 .. Len(page)
    /\ \A k \in 1 .. Len(inspected) : /\ from + k - 1 \in 1 .. Len(log)
                                      /\ inspected[k] = log[from + k - 1]
    /\ \A k \in 1 .. Len(inspected) - 1 : HasValidHash(log[from + k - 1])
    /\ break \in [sequence : Nat, reason : {"none", "content_altered", "link_broken", "sequence_gap"}]
    /\ break = NoBreak => /\ Len(inspected) = Len(page)
                          /\ \A k \in 1 .. Len(page) : HasValidHash(log[from + k - 1])
    /\ (\A k \in 1 .. Len(page) : Sound(previous, page, k)) => break = NoBreak

\* What one batch inspects is the page, up to its first break (VerifyAuditChain.walk).
LEMMA BatchIs ==
  ASSUME LogOK, NEW from \in Nat \ {0}, NEW limit \in Nat, NEW previous, NEW page, NEW break, NEW inspected,
         Batch(from, limit, previous, page, break, inspected)
  PROVE  Inspects(from, previous, page, break, inspected)
<1>0. /\ page = FindFrom(from, limit, ToSet(log)) /\ break = VerifyChainFrom(previous, page)
      /\ inspected = Inspected(page, break)
  BY DEF Batch
<1>1. /\ page \in Seq(Rows) /\ Len(page) \in Nat /\ DOMAIN page = 1 .. Len(page)
      /\ \A k \in 1 .. Len(page) : from + k - 1 \in 1 .. Len(log) /\ page[k] = log[from + k - 1]
  BY <1>0, WholeRows
<1>2. \A k \in 1 .. Len(page) : Sound(previous, page, k) => HasValidHash(log[from + k - 1])
  BY <1>1 DEF Sound, BreakAt
<1>3. \A k \in 1 .. Len(page) : page[k].sequence = from + k - 1
  BY <1>1 DEF LogOK
<1>4. CASE break = NoBreak /\ \A k \in 1 .. Len(page) : Sound(previous, page, k)
  <2>1. inspected = page
    BY <1>0, <1>4 DEF Inspected
  <2>2. break \in [sequence : Nat, reason : {"none", "content_altered", "link_broken", "sequence_gap"}]
    BY <1>4 DEF NoBreak
  <2>3. \A k \in 1 .. Len(page) - 1 : k \in 1 .. Len(page)
    BY <1>1
  <2>4. \A k \in 1 .. Len(page) : HasValidHash(log[from + k - 1])
    BY <1>2, <1>4
  <2>5. inspected \in Seq(Rows) /\ Len(inspected) = Len(page) /\ Len(inspected) \in 0 .. Len(page)
    BY <1>1, <2>1
  <2>6. \A k \in 1 .. Len(inspected) : from + k - 1 \in 1 .. Len(log) /\ inspected[k] = log[from + k - 1]
    BY <1>1, <2>1
  <2>7. \A k \in 1 .. Len(inspected) - 1 : HasValidHash(log[from + k - 1])
    BY <2>3, <2>4, <2>5
  <2> QED
    BY <1>4, <2>2, <2>4, <2>5, <2>6, <2>7 DEF Inspects
<1>5. ASSUME NEW b \in 1 .. Len(page), ~Sound(previous, page, b), \A i \in 1 .. b - 1 : Sound(previous, page, i),
             break = [sequence |-> page[b].sequence, reason |-> BreakAt(Predecessor(previous, page, b), page[b])]
      PROVE  /\ inspected \in Seq(Rows) /\ Len(inspected) = b
             /\ \A k \in 1 .. b : inspected[k] = page[k]
             /\ break \in [sequence : Nat, reason : {"none", "content_altered", "link_broken", "sequence_gap"}]
             /\ break # NoBreak
  <2>1. break.reason # "none" /\ break.sequence = from + b - 1
    BY <1>3, <1>5 DEF Sound
  <2>2. break # NoBreak
    BY <2>1 DEF NoBreak
  <2>3. break \in [sequence : Nat, reason : {"none", "content_altered", "link_broken", "sequence_gap"}]
    <3>1. page[b].sequence \in Nat
      BY <1>3
    <3>2. BreakAt(Predecessor(previous, page, b), page[b]) \in {"none", "content_altered", "link_broken", "sequence_gap"}
      BY DEF BreakAt
    <3> QED
      BY <1>5, <3>1, <3>2
  <2>4. {i \in DOMAIN page : page[i].sequence <= break.sequence} = 1 .. b
    BY <1>1, <1>3, <2>1
  <2>5. PICK one : one = 1
    OBVIOUS
  <2>6. Within(one .. b, Len(page)) /\ one \in Nat \ {0} /\ b \in Nat
    BY <1>1, <2>5 DEF Within
  <2>7. inspected = Pick(page, one .. b)
    BY <1>0, <2>2, <2>4, <2>5 DEF Inspected
  <2>8. Cardinality(one .. b) = b
    <3>1. one \in Int /\ b \in Int /\ ~(one > b)
      BY <2>5
    <3>2. Cardinality(one .. b) = b - one + 1
      BY <3>1, FS_Interval
    <3> QED
      BY <2>5, <3>2
  <2>9. /\ inspected \in Seq(Rows) /\ Len(inspected) = b
        /\ \A k \in 1 .. b : inspected[k] = page[Nth(one .. b, k)]
    <3>1. PICK S : S = one .. b
      OBVIOUS
    <3>2. /\ Pick(page, S) \in Seq(Rows) /\ Len(Pick(page, S)) = Cardinality(S)
          /\ \A k \in 1 .. Cardinality(S) : Pick(page, S)[k] = page[Nth(S, k)]
      BY <1>1, <2>6, <3>1, PickIs
    <3> QED
      BY <2>7, <2>8, <3>1, <3>2
  <2>10. \A k \in 1 .. b : Nth(one .. b, k) = one + k - 1
    BY <2>6, <2>8, NthOfInterval
  <2>11. \A k \in 1 .. b : inspected[k] = page[k]
    <3> TAKE k \in 1 .. b
    <3>1. one + k - 1 = k
      BY <2>5
    <3> QED
      BY <2>9, <2>10, <3>1
  <2> QED
    BY <2>2, <2>3, <2>9, <2>11
<1>6. ASSUME NEW b \in 1 .. Len(page), ~Sound(previous, page, b), \A i \in 1 .. b - 1 : Sound(previous, page, i),
             break = [sequence |-> page[b].sequence, reason |-> BreakAt(Predecessor(previous, page, b), page[b])]
      PROVE  /\ inspected \in Seq(Rows) /\ Len(inspected) \in 0 .. Len(page)
             /\ \A k \in 1 .. Len(inspected) : /\ from + k - 1 \in 1 .. Len(log)
                                               /\ inspected[k] = log[from + k - 1]
             /\ \A k \in 1 .. Len(inspected) - 1 : HasValidHash(log[from + k - 1])
             /\ break \in [sequence : Nat, reason : {"none", "content_altered", "link_broken", "sequence_gap"}]
             /\ break # NoBreak
  <2>1. /\ inspected \in Seq(Rows) /\ Len(inspected) = b
        /\ \A k \in 1 .. b : inspected[k] = page[k]
        /\ break \in [sequence : Nat, reason : {"none", "content_altered", "link_broken", "sequence_gap"}]
        /\ break # NoBreak
    BY <1>5, <1>6
  <2>2. \A k \in 1 .. b : k \in 1 .. Len(page)
    BY <1>1
  <2>3. \A k \in 1 .. b - 1 : k \in 1 .. Len(page) /\ Sound(previous, page, k)
    BY <1>1, <1>6
  <2>4. \A k \in 1 .. b : from + k - 1 \in 1 .. Len(log) /\ inspected[k] = log[from + k - 1]
    BY <1>1, <2>1, <2>2
  <2>5. \A k \in 1 .. b - 1 : HasValidHash(log[from + k - 1])
    BY <1>2, <2>3
  <2>6. Len(inspected) \in 0 .. Len(page)
    BY <1>1, <2>1
  <2> QED
    BY <2>1, <2>4, <2>5, <2>6
<1>7. \/ break = NoBreak /\ \A k \in 1 .. Len(page) : Sound(previous, page, k)
      \/ \E b \in 1 .. Len(page) :
           /\ ~Sound(previous, page, b) /\ \A i \in 1 .. b - 1 : Sound(previous, page, i)
           /\ break = [sequence |-> page[b].sequence, reason |-> BreakAt(Predecessor(previous, page, b), page[b])]
  BY <1>0, <1>1, FirstBreak
<1>8. CASE \E b \in 1 .. Len(page) :
             /\ ~Sound(previous, page, b) /\ \A i \in 1 .. b - 1 : Sound(previous, page, i)
             /\ break = [sequence |-> page[b].sequence, reason |-> BreakAt(Predecessor(previous, page, b), page[b])]
  <2>1. PICK b \in 1 .. Len(page) : ~Sound(previous, page, b)
    BY <1>8
  <2>2. ~(\A k \in 1 .. Len(page) : Sound(previous, page, k))
    BY <2>1
  <2>3. /\ inspected \in Seq(Rows) /\ Len(inspected) \in 0 .. Len(page)
        /\ \A k \in 1 .. Len(inspected) : /\ from + k - 1 \in 1 .. Len(log)
                                          /\ inspected[k] = log[from + k - 1]
        /\ \A k \in 1 .. Len(inspected) - 1 : HasValidHash(log[from + k - 1])
        /\ break \in [sequence : Nat, reason : {"none", "content_altered", "link_broken", "sequence_gap"}]
        /\ break # NoBreak
    BY <1>6, <1>8
  <2> QED
    BY <2>2, <2>3 DEF Inspects
<1> QED
  BY <1>4, <1>7, <1>8

\* A chain that nobody changed has no break behind the entry before the page.
LEMMA QuietChain ==
  ASSUME LogOK, rewrites = 0, NEW from \in Nat \ {0}, NEW limit \in Nat,
         NEW page, page = FindFrom(from, limit, ToSet(log)),
         NEW previous, previous.sequence + 1 = from, previous.hash = Before(from)
  PROVE  \A k \in 1 .. Len(page) : Sound(previous, page, k)
<1>1. /\ Len(page) \in Nat
      /\ \A k \in 1 .. Len(page) : from + k - 1 \in 1 .. Len(log) /\ page[k] = log[from + k - 1]
  BY WholeRows
<1> SUFFICES ASSUME NEW k \in 1 .. Len(page) PROVE Sound(previous, page, k)
  OBVIOUS
<1>2. PICK m \in 1 .. Len(log) : m = from + k - 1
  BY <1>1
<1>3. page[k] = log[m] /\ log[m].sequence = m /\ log[m].previousHash = Before(m) /\ HasValidHash(log[m])
  BY <1>1, <1>2 DEF LogOK
<1>4. Predecessor(previous, page, k).hash = Before(m) /\ Predecessor(previous, page, k).sequence + 1 = m
  <2>1. CASE k = 1
    BY <1>2, <2>1 DEF Predecessor
  <2>2. CASE k # 1
    <3>1. PICK j : j = k - 1
      OBVIOUS
    <3>2. j \in 1 .. Len(page) /\ from + j - 1 = m - 1 /\ m # 1
      BY <1>1, <1>2, <2>2, <3>1
    <3>3. page[j] = log[m - 1] /\ m - 1 \in 1 .. Len(log)
      BY <1>1, <3>2
    <3>4. log[m - 1].sequence = m - 1
      BY <3>3 DEF LogOK
    <3>5. Predecessor(previous, page, k) = log[m - 1]
      BY <2>2, <3>1, <3>3 DEF Predecessor
    <3>6. Before(m) = log[m - 1].hash
      BY <3>2 DEF Before
    <3>7. m \in Nat
      BY <1>2
    <3> QED
      BY <3>4, <3>5, <3>6, <3>7
  <2> QED
    BY <2>1, <2>2
<1> QED
  BY <1>3, <1>4 DEF Sound, BreakAt

\* A verification starts with nothing noted, behind the entry before its window (VerifyAuditChain.execute).
LEMMA VerifyKeeps ==
  ASSUME EInv, Shapes, NEW p \in Procs, NEW window \in Windows, VerifyAuditChain(p, window) PROVE EInv'
<1> DEFINE n == IF window.checkAnchors THEN AtMost(Cardinality(records), MaxAnchorChecks) ELSE 0
<1>1. window.from \in Nat \ {0} /\ window.batch \in Nat \ {0} /\ MaxAnchorChecks \in Nat
  BY EvidenceAssumption
<1>2. LogOK /\ Len(log) \in Nat /\ DOMAIN log = 1 .. Len(log)
  BY LogIs DEF EInv
<1>3. n \in Nat
  BY <1>1, FS_CardinalityType DEF EInv, RecordsOK, AtMost
<1>4. PICK from, previous : /\ from = window.from
                            /\ previous = IF from = 1 \/ from - 1 > Len(log) THEN NoEntry ELSE log[from - 1]
  OBVIOUS
<1>5. /\ UNCHANGED <<log, records, handed, rewrites>>
      /\ \E receipts \in LatestFirst(n) :
           Goto(p, [pc |-> "walk", from |-> from, batch |-> window.batch, cursor |-> from,
                    quiet |-> TRUE, seeded |-> from <= Len(log) + 1, receipts |-> receipts,
                    previous |-> previous, break |-> NoBreak, hashes |-> << >>, checks |-> << >>])
  BY <1>4 DEF VerifyAuditChain, Begin, evidence
<1> HIDE DEF n
<1>6. PICK receipts \in LatestFirst(n) :
        Goto(p, [pc |-> "walk", from |-> from, batch |-> window.batch, cursor |-> from,
                 quiet |-> TRUE, seeded |-> from <= Len(log) + 1, receipts |-> receipts,
                 previous |-> previous, break |-> NoBreak, hashes |-> << >>, checks |-> << >>])
  BY <1>5
<1>7. receipts \in [1 .. n -> records]
  BY DEF LatestFirst
<1>8. receipts \in Seq(Receipts) /\ DOMAIN receipts = 1 .. n
  <2>1. receipts \in [1 .. n -> Receipts]
    BY <1>7 DEF EInv, RecordsOK
  <2> QED
    BY <1>3, <2>1, FunctionIsSequence
<1>9. \A i \in DOMAIN receipts : Anchored(receipts[i].sequence, receipts[i].chainHash)
  BY <1>7 DEF EInv, RecordsOK
<1>10. PICK d : d = [pc |-> "walk", from |-> from, batch |-> window.batch, cursor |-> from,
                     quiet |-> TRUE, seeded |-> from <= Len(log) + 1, receipts |-> receipts,
                     previous |-> previous, break |-> NoBreak, hashes |-> << >>, checks |-> << >>]
  OBVIOUS
<1>11. previous \in Rows \union {NoEntry}
  BY <1>1, <1>2, <1>4 DEF LogOK
<1>12. NoBreak \in [sequence : Nat, reason : {"none", "content_altered", "link_broken", "sequence_gap"}]
  BY DEF NoBreak
<1>13. d \in Verifying
  BY <1>1, <1>4, <1>8, <1>10, <1>11, <1>12 DEF Verifying
<1>14. /\ d.pc = "walk" /\ d.from = from /\ d.cursor = from /\ d.seeded = (from <= Len(log) + 1)
       /\ d.receipts = receipts /\ d.previous = previous /\ d.break = NoBreak
       /\ d.hashes = << >> /\ d.checks = << >>
  BY <1>10
<1>15. from <= Len(log) + 1 => previous.sequence + 1 = from /\ previous.hash = Before(from)
  <2>1. CASE from = 1
    BY <1>4, <2>1 DEF NoEntry, Before
  <2>2. CASE from # 1
    <3> SUFFICES ASSUME from <= Len(log) + 1 PROVE previous.sequence + 1 = from /\ previous.hash = Before(from)
      OBVIOUS
    <3>1. from - 1 \in 1 .. Len(log) /\ previous = log[from - 1]
      BY <1>1, <1>2, <1>4, <2>2
    <3>2. log[from - 1].sequence = from - 1
      <4>1. PICK m \in 1 .. Len(log) : m = from - 1
        BY <3>1
      <4>2. log[m].sequence = m
        BY <1>2 DEF LogOK
      <4> QED
        BY <4>1, <4>2
    <3> QED
      BY <1>1, <1>4, <2>2, <3>1, <3>2 DEF Before
  <2> QED
    BY <2>1, <2>2
<1>16. WalkOK(d)
  <2>1. Len(d.hashes) = 0 /\ DOMAIN d.hashes = {}
    BY <1>14
  <2>2. d.cursor = d.from + Len(d.hashes) /\ d.checks = << >>
    BY <1>1, <1>4, <1>14, <2>1
  <2>3. rewrites = 0 /\ d.seeded =>
          /\ d.break = NoBreak
          /\ d.cursor <= Len(log) + 1 /\ d.previous.sequence + 1 = d.cursor /\ d.previous.hash = Before(d.cursor)
    BY <1>14, <1>15
  <2>4. d.hashes = << >>
    BY <1>14
  <2> QED
    BY <2>1, <2>2, <2>3, <2>4 DEF WalkOK
<1>17. ReceiptsOK(d)
  <2>1. Len(d.checks) = 0 /\ DOMAIN d.checks = {} /\ Len(d.receipts) \in Nat
    BY <1>8, <1>14
  <2> QED
    BY <1>9, <1>14, <2>1 DEF ReceiptsOK
<1>18. CallOK(p, d)
  BY <1>13, <1>16, <1>17 DEF CallOK
<1>19. Goto(p, d)
  BY <1>6, <1>10
<1> QED
  BY <1>5, <1>18, <1>19, QuietlyMoves

\* A batch goes on where the last one ended, and notes what it recomputes (VerifyAuditChain.walk).
LEMMA WalkKeeps == ASSUME EInv, Shapes, NEW p \in Procs, WalkBatch(p) PROVE EInv'
<1>1. PICK c : c = op[p]
  OBVIOUS
<1>2. c.pc = "walk" /\ CallOK(p, c)
  BY <1>1 DEF EInv, WalkBatch
<1>3. c \in Verifying /\ (c.quiet => WalkOK(c) /\ ReceiptsOK(c))
  BY <1>2 DEF CallOK, Reading, WithHead
<1>4. LogOK /\ Len(log) \in Nat /\ DOMAIN log = 1 .. Len(log)
  BY LogIs DEF EInv
<1>5. c.cursor \in Nat \ {0} /\ c.batch \in Nat /\ c.from \in Nat \ {0} /\ c.hashes \in Seq(Digests)
      /\ Len(c.hashes) \in Nat /\ DOMAIN c.hashes = 1 .. Len(c.hashes)
  BY <1>3 DEF Verifying
<1>6. PICK page : page = FindFrom(c.cursor, c.batch, ToSet(log))
  OBVIOUS
<1>7. PICK break : break = VerifyChainFrom(c.previous, page)
  OBVIOUS
<1>8. PICK inspected : inspected = Inspected(page, break)
  OBVIOUS
<1>9. PICK noted : noted = [i \in DOMAIN inspected |-> Recomputed(inspected[i])]
  OBVIOUS
<1>10. PICK hashes : hashes = c.hashes \o noted
  OBVIOUS
<1>11. /\ Goto(p, IF page = << >> THEN [c EXCEPT !.pc = "check"]
                  ELSE [c EXCEPT !.pc = IF break = NoBreak /\ Len(page) = c.batch THEN "walk" ELSE "check",
                                 !.previous = Last(page), !.cursor = Last(page).sequence + 1,
                                 !.break = break, !.hashes = hashes])
       /\ UNCHANGED <<log, records, handed, rewrites>>
  <2> DEFINE page0 == FindFrom(c.cursor, c.batch, ToSet(log))
             break0 == VerifyChainFrom(c.previous, page0)
             inspected0 == Inspected(page0, break0)
             hashes0 == c.hashes \o [i \in DOMAIN inspected0 |-> Recomputed(inspected0[i])]
  <2>1. /\ Goto(p, IF page0 = << >> THEN [c EXCEPT !.pc = "check"]
                   ELSE [c EXCEPT !.pc = IF break0 = NoBreak /\ Len(page0) = c.batch THEN "walk" ELSE "check",
                                  !.previous = Last(page0), !.cursor = Last(page0).sequence + 1,
                                  !.break = break0, !.hashes = hashes0])
        /\ UNCHANGED <<log, records, handed, rewrites>>
    BY <1>1 DEF WalkBatch, Reads, bounds, evidence, Inspected
  <2>2. page = page0
    BY <1>6
  <2> HIDE DEF page0
  <2>3. break = break0
    BY <1>7, <2>2
  <2> HIDE DEF break0
  <2>4. inspected = inspected0
    BY <1>8, <2>2, <2>3
  <2> HIDE DEF inspected0
  <2>5. hashes = hashes0
    BY <1>9, <1>10, <2>4
  <2> HIDE DEF hashes0
  <2> QED
    BY <2>1, <2>2, <2>3, <2>5
<1>12. /\ page \in Seq(Rows) /\ Len(page) \in Nat /\ DOMAIN page = 1 .. Len(page)
       /\ \A k \in 1 .. Len(page) : c.cursor + k - 1 \in 1 .. Len(log) /\ page[k] = log[c.cursor + k - 1]
  <2>1. PICK from, limit : from = c.cursor /\ limit = c.batch
    OBVIOUS
  <2>2. from \in Nat \ {0} /\ limit \in Nat /\ page = FindFrom(from, limit, ToSet(log))
    BY <1>5, <1>6, <2>1
  <2>3. /\ page \in Seq(Rows) /\ Len(page) \in Nat /\ DOMAIN page = 1 .. Len(page)
        /\ \A k \in 1 .. Len(page) : from + k - 1 \in 1 .. Len(log) /\ page[k] = log[from + k - 1]
    BY <1>4, <2>2, WholeRows
  <2> QED
    BY <2>1, <2>3
<1>13. /\ inspected \in Seq(Rows) /\ Len(inspected) \in 0 .. Len(page)
       /\ \A k \in 1 .. Len(inspected) : /\ c.cursor + k - 1 \in 1 .. Len(log)
                                         /\ inspected[k] = log[c.cursor + k - 1]
       /\ \A k \in 1 .. Len(inspected) - 1 : HasValidHash(log[c.cursor + k - 1])
       /\ break \in [sequence : Nat, reason : {"none", "content_altered", "link_broken", "sequence_gap"}]
       /\ break = NoBreak => /\ Len(inspected) = Len(page)
                             /\ \A k \in 1 .. Len(page) : HasValidHash(log[c.cursor + k - 1])
       /\ (\A k \in 1 .. Len(page) : Sound(c.previous, page, k)) => break = NoBreak
  <2>1. PICK previous, from, limit : previous = c.previous /\ from = c.cursor /\ limit = c.batch
    OBVIOUS
  <2>2. from \in Nat \ {0} /\ limit \in Nat
    BY <1>5, <2>1
  <2>3. page = FindFrom(from, limit, ToSet(log)) /\ break = VerifyChainFrom(previous, page)
    BY <1>6, <1>7, <2>1
  <2>4. Inspects(from, previous, page, break, inspected)
    <3>1. Batch(from, limit, previous, page, break, inspected)
      BY <1>8, <2>3 DEF Batch
    <3> QED
      BY <1>4, <2>2, <3>1, BatchIs
  <2>5. Inspects(c.cursor, c.previous, page, break, inspected)
    BY <2>1, <2>4
  <2> QED
    BY <2>5 DEF Inspects
<1>14. /\ noted \in Seq(Digests) /\ Len(noted) = Len(inspected)
       /\ \A k \in 1 .. Len(noted) : noted[k] = ComputeHash(log[c.cursor + k - 1])
  <2>1. Len(inspected) \in Nat /\ DOMAIN inspected = 1 .. Len(inspected)
    BY <1>12, <1>13
  <2>2. ASSUME NEW row \in Rows PROVE ComputeHash(row) \in Digests
    <3>1. row.previousHash \in Seq(Nat \X Contents) /\ <<row.sequence, row.content>> \in Nat \X Contents
      BY DEF Rows, Digests
    <3>2. Append(row.previousHash, <<row.sequence, row.content>>) \in Seq(Nat \X Contents)
      BY <3>1, AppendedTo
    <3> QED
      BY <3>2 DEF ComputeHash, Digests
  <2>3. \A k \in 1 .. Len(inspected) : inspected[k] \in Rows
    BY <1>13, <2>1
  <2>4. noted \in [1 .. Len(inspected) -> Digests]
    BY <1>9, <2>1, <2>2, <2>3 DEF Recomputed
  <2>5. noted \in Seq(Digests) /\ Len(noted) = Len(inspected)
    BY <2>1, <2>4, FunctionIsSequence
  <2>6. \A k \in 1 .. Len(inspected) : noted[k] = ComputeHash(log[c.cursor + k - 1])
    BY <1>9, <1>13, <2>1 DEF Recomputed
  <2> QED
    BY <2>5, <2>6
<1>15. /\ hashes \in Seq(Digests) /\ Len(hashes) = Len(c.hashes) + Len(noted)
       /\ \A k \in 1 .. Len(c.hashes) : hashes[k] = c.hashes[k]
       /\ \A k \in 1 .. Len(noted) : hashes[Len(c.hashes) + k] = noted[k]
  <2>1. PICK D, s : D = Digests /\ s = c.hashes
    OBVIOUS
  <2>2. s \in Seq(D) /\ noted \in Seq(D)
    BY <1>5, <1>14, <2>1
  <2>3. /\ s \o noted \in Seq(D) /\ Len(s \o noted) = Len(s) + Len(noted)
        /\ \A k \in 1 .. Len(s) : (s \o noted)[k] = s[k]
        /\ \A k \in 1 .. Len(noted) : (s \o noted)[Len(s) + k] = noted[k]
    BY <2>2, Concatenated
  <2> QED
    BY <1>10, <2>1, <2>3
<1>16. CASE page = << >>
  <2>1. PICK d : d = [c EXCEPT !.pc = "check"]
    OBVIOUS
  <2>2. Goto(p, d)
    BY <1>11, <1>16, <2>1
  <2>3. d \in Verifying
    BY <1>3, <2>1 DEF Verifying
  <2>4. d.quiet = c.quiet /\ d.pc = "check" /\ d.from = c.from /\ d.hashes = c.hashes /\ d.break = c.break
        /\ d.seeded = c.seeded /\ d.receipts = c.receipts /\ d.checks = c.checks
    BY <1>3, <2>1 DEF Verifying
  <2>5. c.quiet => WalkOK(d)
    BY <1>2, <1>3, <2>4 DEF WalkOK
  <2>6. c.quiet => ReceiptsOK(d)
    BY <1>3, <2>4 DEF ReceiptsOK
  <2>7. CallOK(p, d)
    BY <2>3, <2>4, <2>5, <2>6 DEF CallOK
  <2> QED
    BY <1>11, <2>2, <2>7, QuietlyMoves
<1>17. CASE page # << >>
  <2>1. PICK last : last = Last(page)
    OBVIOUS
  <2>2. Len(page) # 0 /\ last = page[Len(page)] /\ Len(page) \in 1 .. Len(page)
    BY <1>12, <1>17, <2>1 DEF Last
  <2>3. last \in Rows /\ c.cursor + Len(page) - 1 \in 1 .. Len(log) /\ last = log[c.cursor + Len(page) - 1]
    BY <1>4, <1>12, <2>2 DEF LogOK
  <2>4. last.sequence = c.cursor + Len(page) - 1
    <3>1. PICK m \in 1 .. Len(log) : m = c.cursor + Len(page) - 1
      BY <2>3
    <3>2. log[m].sequence = m
      BY <1>4 DEF LogOK
    <3> QED
      BY <2>3, <3>1, <3>2
  <2>5. PICK pc, next : /\ pc = IF break = NoBreak /\ Len(page) = c.batch THEN "walk" ELSE "check"
                        /\ next = last.sequence + 1
    OBVIOUS
  <2>6. PICK d : d = [c EXCEPT !.pc = pc, !.previous = last, !.cursor = next, !.break = break, !.hashes = hashes]
    OBVIOUS
  <2>7. Goto(p, d)
    BY <1>11, <1>17, <2>1, <2>5, <2>6
  <2>8. next = c.cursor + Len(page) /\ next \in Nat \ {0} /\ next <= Len(log) + 1 /\ pc \in {"walk", "check"}
    BY <1>4, <1>5, <1>12, <2>3, <2>4, <2>5
  <2>9. d \in Verifying
    BY <1>3, <1>13, <1>15, <2>3, <2>6, <2>8 DEF Verifying
  <2>10. d.quiet = c.quiet /\ d.pc = pc /\ d.from = c.from /\ d.hashes = hashes /\ d.break = break
        /\ d.previous = last /\ d.cursor = next
        /\ d.seeded = c.seeded /\ d.receipts = c.receipts /\ d.checks = c.checks
    BY <1>3, <2>6 DEF Verifying
  <2>11. ASSUME c.quiet PROVE WalkOK(d)
    <3>1. c.cursor = c.from + Len(c.hashes) /\ c.checks = << >>
          /\ \A i \in DOMAIN c.hashes : /\ c.hashes[i] = ComputeHash(log[c.from + i - 1])
                                        /\ HasValidHash(log[c.from + i - 1])
      BY <1>2, <1>3, <2>11 DEF WalkOK
    <3>2. Len(hashes) \in Nat /\ DOMAIN hashes = 1 .. Len(hashes) /\ Len(hashes) = Len(c.hashes) + Len(inspected)
          /\ Len(inspected) \in Nat /\ Len(inspected) <= Len(page)
      BY <1>12, <1>13, <1>14, <1>15
    <3>3. c.from + Len(hashes) - 1 <= Len(log)
      BY <1>4, <1>5, <1>12, <2>3, <3>1, <3>2
    <3>4. ASSUME NEW i \in DOMAIN hashes
          PROVE  /\ hashes[i] = ComputeHash(log[c.from + i - 1])
                 /\ i < Len(hashes) \/ pc = "walk" => HasValidHash(log[c.from + i - 1])
      <4>1. CASE i \in 1 .. Len(c.hashes)
        BY <1>5, <1>15, <3>1, <4>1
      <4>2. CASE i \notin 1 .. Len(c.hashes)
        <5>1. PICK k \in 1 .. Len(inspected) : i = Len(c.hashes) + k
          <6>1. i - Len(c.hashes) \in 1 .. Len(inspected) /\ i = Len(c.hashes) + (i - Len(c.hashes))
            BY <1>5, <3>2, <4>2
          <6> QED
            BY <6>1
        <5>2. c.from + i - 1 = c.cursor + k - 1
          BY <1>5, <3>1, <5>1
        <5>3. hashes[i] = ComputeHash(log[c.cursor + k - 1])
          BY <1>14, <1>15, <5>1
        <5>4. i < Len(hashes) => k \in 1 .. Len(inspected) - 1
          BY <1>5, <3>2, <5>1
        <5>5. pc = "walk" => k \in 1 .. Len(page) /\ break = NoBreak
          BY <1>12, <2>5, <3>2
        <5>6. i < Len(hashes) \/ pc = "walk" => HasValidHash(log[c.cursor + k - 1])
          BY <1>13, <5>4, <5>5
        <5> QED
          BY <5>2, <5>3, <5>6
      <4> QED
        BY <4>1, <4>2
    <3>5. pc = "walk" => next = c.from + Len(hashes)
      <4> SUFFICES ASSUME pc = "walk" PROVE next = c.from + Len(hashes)
        OBVIOUS
      <4>1. break = NoBreak
        BY <2>5
      <4>2. Len(inspected) = Len(page)
        BY <1>13, <4>1
      <4> QED
        BY <1>5, <1>12, <2>8, <3>1, <3>2, <4>2
    <3>6. rewrites = 0 /\ c.seeded =>
            /\ break = NoBreak
            /\ next <= Len(log) + 1 /\ last.sequence + 1 = next /\ last.hash = Before(next)
      <4> SUFFICES ASSUME rewrites = 0, c.seeded
                   PROVE  break = NoBreak /\ last.hash = Before(next)
        BY <2>5, <2>8
      <4>1. c.previous.sequence + 1 = c.cursor /\ c.previous.hash = Before(c.cursor)
        BY <1>2, <1>3, <2>11 DEF WalkOK
      <4>2. \A k \in 1 .. Len(page) : Sound(c.previous, page, k)
        <5>1. PICK previous, from, limit : previous = c.previous /\ from = c.cursor /\ limit = c.batch
          OBVIOUS
        <5>2. from \in Nat \ {0} /\ limit \in Nat /\ previous.sequence + 1 = from /\ previous.hash = Before(from)
              /\ page = FindFrom(from, limit, ToSet(log))
          BY <1>5, <1>6, <4>1, <5>1
        <5>3. \A k \in 1 .. Len(page) : Sound(previous, page, k)
          BY <1>4, <5>2, QuietChain
        <5> QED
          BY <5>1, <5>3
      <4>3. break = NoBreak
        BY <1>13, <4>2
      <4>4. next # 1 /\ next - 1 = c.cursor + Len(page) - 1
        BY <1>5, <1>12, <2>2, <2>8
      <4>5. last.hash = Before(next)
        BY <2>3, <4>4 DEF Before
      <4> QED
        BY <4>3, <4>5
    <3>7. hashes = << >> \/ c.from + Len(hashes) - 1 <= Len(log)
      BY <3>3
    <3> QED
      BY <2>10, <3>1, <3>4, <3>5, <3>6, <3>7 DEF WalkOK
  <2>12. ASSUME c.quiet PROVE ReceiptsOK(d)
    <3>1. c.checks = << >> /\ DOMAIN c.checks = {}
      BY <1>2, <1>3, <2>12 DEF WalkOK
    <3> QED
      BY <1>3, <2>10, <2>12, <3>1 DEF ReceiptsOK
  <2>13. CallOK(p, d)
    BY <2>9, <2>10, <2>11, <2>12 DEF CallOK
  <2> QED
    BY <1>11, <2>7, <2>13, QuietlyMoves
<1> QED
  BY <1>16, <1>17

\* A receipt is held against the hash recomputed at its entry (VerifyAuditChain.checkAnchors).
LEMMA CheckKeeps == ASSUME EInv, Shapes, NEW p \in Procs, CheckAnchor(p) PROVE EInv'
<1>1. PICK c : c = op[p]
  OBVIOUS
<1>2. c.pc = "check" /\ CallOK(p, c)
  BY <1>1 DEF EInv, CheckAnchor
<1>3. c \in Verifying /\ (c.quiet => WalkOK(c) /\ ReceiptsOK(c))
  BY <1>2 DEF CallOK, Reading, WithHead
<1>4. PICK n : n = Len(c.checks) + 1
  OBVIOUS
<1>5. PICK reachable \in BOOLEAN :
        /\ Goes(reachable)
        /\ Goto(p, [c EXCEPT !.checks = Append(c.checks, AnchorCheck(c, c.receipts[n], reachable))])
  BY <1>1, <1>4 DEF CheckAnchor
<1>6. UNCHANGED <<log, records, handed, rewrites>> /\ n <= Len(c.receipts)
  BY <1>1, <1>4, <1>5 DEF CheckAnchor, Goes, evidence
<1>7. PICK r : r = c.receipts[n]
  OBVIOUS
<1>8. /\ Len(c.checks) \in Nat /\ DOMAIN c.checks = 1 .. Len(c.checks)
      /\ Len(c.receipts) \in Nat /\ DOMAIN c.receipts = 1 .. Len(c.receipts)
      /\ n \in DOMAIN c.receipts /\ r \in Receipts
      /\ Len(c.hashes) \in Nat /\ DOMAIN c.hashes = 1 .. Len(c.hashes) /\ c.from \in Nat \ {0}
  BY <1>3, <1>4, <1>6, <1>7 DEF Verifying
<1> DEFINE Checks == [sequence : Nat, chainHash : Digests, database : {"unchecked", "matches", "MISMATCH"},
                      ledger : {"unchecked", "matches", "MISMATCH"}]
<1>9. PICK check : check = AnchorCheck(c, r, reachable)
  OBVIOUS
<1>10. check \in Checks /\ check.sequence = r.sequence /\ check.chainHash = r.chainHash
  BY <1>8, <1>9 DEF AnchorCheck, Receipts
<1>11. check.database =
         IF r.sequence - c.from + 1 \notin DOMAIN c.hashes THEN "unchecked"
         ELSE IF c.hashes[r.sequence - c.from + 1] = r.chainHash THEN "matches" ELSE "MISMATCH"
  BY <1>9 DEF AnchorCheck
<1>12. ASSUME c.quiet, rewrites = 0 PROVE check.database # "MISMATCH"
  <2> SUFFICES ASSUME r.sequence - c.from + 1 \in DOMAIN c.hashes
               PROVE  c.hashes[r.sequence - c.from + 1] = r.chainHash
    BY <1>11
  <2>1. PICK i \in DOMAIN c.hashes : i = r.sequence - c.from + 1
    OBVIOUS
  <2>2. r.sequence \in 1 .. Len(log) /\ r.chainHash = log[r.sequence].hash
    BY <1>3, <1>7, <1>8, <1>12 DEF ReceiptsOK, Anchored
  <2>3. c.from + i - 1 = r.sequence
    BY <1>8, <2>1, <2>2
  <2>4. c.hashes[i] = ComputeHash(log[r.sequence])
    BY <1>3, <1>12, <2>3 DEF WalkOK
  <2>5. HasValidHash(log[r.sequence])
    BY <1>12, <2>2 DEF EInv, LogOK
  <2> QED
    BY <2>1, <2>2, <2>4, <2>5 DEF HasValidHash
<1>13. check.database = "matches" =>
         r.sequence - c.from + 1 \in DOMAIN c.hashes /\ c.hashes[r.sequence - c.from + 1] = r.chainHash
  BY <1>11
<1>14. PICK checks : checks = Append(c.checks, check)
  OBVIOUS
<1>15. /\ checks \in Seq(Checks) /\ Len(checks) = n /\ checks[n] = check
       /\ \A i \in 1 .. Len(c.checks) : checks[i] = c.checks[i]
  <2>1. PICK D, s : D = Checks /\ s = c.checks
    OBVIOUS
  <2>2. s \in Seq(D) /\ check \in D
    BY <1>3, <1>10, <2>1 DEF Verifying
  <2>3. /\ Append(s, check) \in Seq(D) /\ Len(Append(s, check)) = Len(s) + 1
        /\ Append(s, check)[Len(s) + 1] = check
        /\ \A k \in 1 .. Len(s) : Append(s, check)[k] = s[k]
    BY <2>2, AppendedTo
  <2> QED
    BY <1>4, <1>14, <2>1, <2>3
<1>16. PICK d : d = [c EXCEPT !.checks = checks]
  OBVIOUS
<1>17. Goto(p, d)
  BY <1>5, <1>7, <1>9, <1>14, <1>16
<1>18. d \in Verifying
  BY <1>3, <1>15, <1>16 DEF Verifying
<1>19. d.quiet = c.quiet /\ d.pc = "check" /\ d.from = c.from /\ d.hashes = c.hashes /\ d.break = c.break
       /\ d.seeded = c.seeded /\ d.receipts = c.receipts /\ d.checks = checks
  BY <1>2, <1>3, <1>16 DEF Verifying
<1>20. c.quiet => WalkOK(d)
  BY <1>2, <1>3, <1>19 DEF WalkOK
<1>21. ASSUME c.quiet PROVE ReceiptsOK(d)
  <2>1. ReceiptsOK(c)
    BY <1>3, <1>21
  <2>2. DOMAIN checks = 1 .. n /\ n \in Nat
    BY <1>4, <1>8, <1>15
  <2>3. ASSUME NEW i \in DOMAIN checks
        PROVE  /\ rewrites = 0 => checks[i].database # "MISMATCH"
               /\ checks[i].database = "matches" =>
                    /\ checks[i].sequence - c.from + 1 \in DOMAIN c.hashes
                    /\ c.hashes[checks[i].sequence - c.from + 1] = checks[i].chainHash
    <3>1. CASE i = n
      BY <1>10, <1>12, <1>13, <1>15, <1>21, <3>1
    <3>2. CASE i # n
      <4>1. i \in DOMAIN c.checks /\ checks[i] = c.checks[i]
        BY <1>4, <1>8, <1>15, <2>2, <3>2
      <4> QED
        BY <2>1, <4>1 DEF ReceiptsOK
    <3> QED
      BY <3>1, <3>2
  <2>4. Len(checks) <= Len(c.receipts)
    BY <1>6, <1>15
  <2>5. \A i \in DOMAIN c.receipts : Anchored(c.receipts[i].sequence, c.receipts[i].chainHash)
    BY <2>1 DEF ReceiptsOK
  <2> QED
    BY <1>19, <2>3, <2>4, <2>5 DEF ReceiptsOK
<1>22. CallOK(p, d)
  BY <1>18, <1>19, <1>20, <1>21 DEF CallOK
<1> QED
  BY <1>6, <1>17, <1>22, QuietlyMoves

LEMMA ReportKeeps == ASSUME EInv, Shapes, NEW p \in Procs, ReportVerification(p) PROVE EInv'
<1>1. PICK c : c = op[p]
  OBVIOUS
<1>2. c.pc = "check" /\ CallOK(p, c)
  BY <1>1 DEF EInv, ReportVerification
<1>3. c \in Verifying /\ (c.quiet => WalkOK(c) /\ ReceiptsOK(c))
  BY <1>2 DEF CallOK, Reading, WithHead
<1>4. PICK d : d = [c EXCEPT !.pc = "verified"]
  OBVIOUS
<1>5. Goto(p, d) /\ UNCHANGED <<log, records, handed, rewrites>>
  BY <1>1, <1>4 DEF ReportVerification, Reads, bounds, evidence
<1>6. d \in Verifying
  BY <1>3, <1>4 DEF Verifying
<1>7. d.quiet = c.quiet /\ d.pc = "verified" /\ d.from = c.from /\ d.hashes = c.hashes /\ d.break = c.break
      /\ d.seeded = c.seeded /\ d.receipts = c.receipts /\ d.checks = c.checks
  BY <1>3, <1>4 DEF Verifying
<1>8. c.quiet => WalkOK(d)
  BY <1>2, <1>3, <1>7 DEF WalkOK
<1>9. c.quiet => ReceiptsOK(d)
  BY <1>3, <1>7 DEF ReceiptsOK
<1>10. CallOK(p, d)
  BY <1>6, <1>7, <1>8, <1>9 DEF CallOK
<1> QED
  BY <1>5, <1>10, QuietlyMoves

-----------------------------------------------------------------------------
\* A digest recomputed from an entry whose predecessors back to `from` are valid holds their contents:
\* at the first entry where it did not, the digest it extends would not either.
LEMMA HashHoldsPrefix ==
  ASSUME LogOK, NEW from \in Nat \ {0}, NEW s \in Nat, s <= Len(log), \A m \in from .. s - 1 : HasValidHash(log[m])
  PROVE  \A k \in from .. s : ComputeHash(log[s])[k] = <<k, log[k].content>>
<1> DEFINE Covers(m) == \A k \in from .. m : ComputeHash(log[m])[k] = <<k, log[k].content>>
           T == {m \in from .. s : ~Covers(m)}
<1>1. Len(log) \in Nat /\ DOMAIN log = 1 .. Len(log)
  BY LogIs
<1>2. ASSUME NEW m \in T, \A y \in T : m <= y PROVE FALSE
  <2>1. m \in from .. s /\ m \in 1 .. Len(log)
    BY <1>1
  <2>2. PICK e : e = log[m]
    OBVIOUS
  <2>3. e \in Rows /\ e.sequence = m /\ e.previousHash = Before(m)
    BY <2>1, <2>2, <1>1 DEF LogOK
  <2>4. Len(e.previousHash) = m - 1
    <3>1. CASE m = 1
      BY <2>3, <3>1 DEF Before, GENESIS_HASH
    <3>2. CASE m # 1
      <4>1. PICK q \in 1 .. Len(log) : q = m - 1
        BY <1>1, <2>1, <3>2
      <4>2. Len(log[q].hash) = q
        BY DEF LogOK
      <4> QED
        BY <2>3, <3>2, <4>1, <4>2 DEF Before
    <3> QED
      BY <3>1, <3>2
  <2>5. e.previousHash \in Seq(Nat \X Contents) /\ <<m, e.content>> \in Nat \X Contents
    BY <2>3 DEF Rows, Digests
  <2>6. /\ Append(e.previousHash, <<m, e.content>>)[Len(e.previousHash) + 1] = <<m, e.content>>
        /\ \A k \in 1 .. Len(e.previousHash) : Append(e.previousHash, <<m, e.content>>)[k] = e.previousHash[k]
    <3>1. PICK h, x : h = e.previousHash /\ x = <<m, e.content>>
      OBVIOUS
    <3>2. h \in Seq(Nat \X Contents) /\ x \in Nat \X Contents
      BY <2>5, <3>1
    <3>3. /\ Append(h, x)[Len(h) + 1] = x
          /\ \A k \in 1 .. Len(h) : Append(h, x)[k] = h[k]
      BY <3>2, AppendedTo
    <3> QED
      BY <3>1, <3>3
  <2>7. ComputeHash(e) = Append(e.previousHash, <<m, e.content>>)
    BY <2>3 DEF ComputeHash
  <2>8. ComputeHash(e)[m] = <<m, e.content>>
    BY <2>1, <2>4, <2>6, <2>7
  <2>9. ASSUME NEW k \in from .. m - 1 PROVE ComputeHash(e)[k] = <<k, log[k].content>>
    <3>1. PICK q \in 1 .. Len(log) : q = m - 1 /\ q \in from .. s - 1 /\ q \in from .. s /\ m # 1
      BY <1>1, <2>1, <2>9
    <3>2. q \notin T
      <4> HIDE DEF T
      <4>1. ~(m <= q) /\ \A y \in T : m <= y
        BY <1>2, <2>1, <3>1
      <4> QED
        BY <4>1
    <3>3. ComputeHash(log[q])[k] = <<k, log[k].content>>
      BY <3>1, <3>2, <2>9
    <3>4. e.previousHash = ComputeHash(log[q])
      BY <2>3, <3>1 DEF Before, HasValidHash
    <3>5. k \in 1 .. Len(e.previousHash)
      BY <2>1, <2>4, <2>9
    <3> QED
      BY <2>6, <2>7, <3>3, <3>4, <3>5
  <2>10. Covers(m)
    <3> SUFFICES ASSUME NEW k \in from .. m PROVE ComputeHash(log[m])[k] = <<k, log[k].content>>
      OBVIOUS
    <3>1. k = m \/ k \in from .. m - 1
      BY <2>1
    <3> QED
      BY <2>2, <2>8, <2>9, <3>1
  <2> QED
    BY <2>10
<1>3. T \subseteq Nat
  OBVIOUS
<1>4. T = {}
  <2> SUFFICES ASSUME T # {} PROVE FALSE
    OBVIOUS
  <2> HIDE DEF T
  <2> QED
    BY <1>2, <1>3, Least
<1>5. CASE from <= s
  <2>1. s \in from .. s
    BY <1>5
  <2> QED
    BY <1>4, <2>1
<1>6. CASE ~(from <= s)
  BY <1>6
<1> QED
  BY <1>5, <1>6

-----------------------------------------------------------------------------
LEMMA InitReads == Init => EInv
<1> SUFFICES ASSUME Init PROVE EInv
  OBVIOUS
<1>1. log = << >> /\ Len(log) = 0 /\ log \in Seq(Rows) /\ rewrites = 0 /\ MaxEntries \in Nat
  BY EvidenceAssumption DEF Init
<1>2. LogOK
  BY <1>1 DEF LogOK
<1>3. RecordsOK
  BY FS_EmptySet DEF Init, RecordsOK
<1>4. HandedOK
  <2> SUFFICES ASSUME NEW p \in Procs PROVE handed[p] \in Nat /\ handed[p] <= Cardinality(Disclosures(p))
    BY DEF HandedOK
  <2>1. Disclosures(p) = {}
    BY <1>1 DEF Disclosures
  <2>2. Cardinality(Disclosures(p)) = 0
    BY <2>1, FS_EmptySet
  <2> QED
    BY <2>2 DEF Init
<1>5. ASSUME NEW p \in Procs PROVE CallOK(p, op[p])
  <2>1. op[p] = Idle
    BY DEF Init
  <2> QED
    BY <2>1, IdleIsFine
<1> QED
  BY <1>2, <1>3, <1>4, <1>5 DEF EInv

\* Every step keeps what reads and verifications rest on.
LEMMA StepReads == EInv /\ IInv /\ [Next]_vars => EInv'
<1> SUFFICES ASSUME EInv, IInv, [Next]_vars PROVE EInv'
  OBVIOUS
<1>0. Shapes
  BY DEF IInv
<1>1. CASE UNCHANGED vars
  <2>1. UNCHANGED <<log, records, op, handed, rewrites>>
    BY <1>1 DEF vars, evidence, bounds
  <2>2. LogOK' /\ RecordsOK' /\ HandedOK'
    BY <2>1, SameLog DEF EInv, RecordsOK, Anchored, HandedOK, Disclosures
  <2>3. ASSUME NEW p \in Procs PROVE CallOK(p, op[p])'
    <3>1. PICK d : d = op[p]
      OBVIOUS
    <3>2. LogOK' /\ Grows
      BY <2>1, SameLog DEF EInv
    <3>3. CallOK(p, d)'
      BY <2>1, <3>1, <3>2, CallStays DEF EInv
    <3> QED
      BY <2>1, <3>1, <3>3
  <2> QED
    BY <2>2, <2>3 DEF EInv
<1>2. ASSUME NEW p \in Procs, Works(p) PROVE EInv'
  <2>1. CASE \/ AnchorAuditLog(p, TRUE) \/ AnchorAuditLog(p, FALSE)
             \/ ReadPrevious(p) \/ GuardReads(p) \/ GuardJudges(p)
             \/ SubmitFails(p) \/ Accepted(p) \/ Rejected(p) \/ Reported(p) \/ Done(p)
    BY <1>0, <2>1, AnchoringIsQuiet
  <2>2. CASE \E ask \in Asks : StartRead(p, ask) \/ ApplyAuditRetentionPolicy(p, ask)
    BY <1>0, <2>2, StartKeeps
  <2>3. CASE \E window \in Windows : VerifyAuditChain(p, window)
    BY <1>0, <2>3, VerifyKeeps
  <2>4. CASE SaveRecord(p) \/ RecordRead(p) \/ ReadPage(p)
    BY <1>0, <2>4, SavesTheHead, RecordKeeps, PageKeeps
  <2>5. CASE WalkBatch(p) \/ CheckAnchor(p) \/ ReportVerification(p)
    BY <1>0, <2>5, WalkKeeps, CheckKeeps, ReportKeeps
  <2> QED
    BY <1>2, <2>1, <2>2, <2>3, <2>4, <2>5 DEF Works
<1>3. CASE Surroundings
  BY <1>0, <1>3, AroundTheCalls
<1> QED
  BY <1>1, <1>2, <1>3 DEF Next

\* However the log grows between the pages, and whoever appends to it, a read that follows its cursor
\* has handed out in order exactly the matching entries up to it, and every page handed out is
\* recorded by an entry of its own, appended before (QueryAuditEvents, ExportAuditEvents,
\* ApplyAuditRetentionPolicy over findWithFilters and authorizeAndRecordAuditRead).
THEOREM ReadsStayExact == Spec => []ReadsAreExact
<1>1. EInv => ReadsAreExact
  <2> SUFFICES ASSUME EInv, NEW p \in Procs
               PROVE  /\ handed[p] <= Cardinality(Disclosures(p))
                      /\ "got" \in DOMAIN op[p] =>
                           /\ ToSet(op[p].got) = {i \in 1 .. op[p].cursor : Matches(op[p], log[i])}
                           /\ \A i, j \in DOMAIN op[p].got : i < j => op[p].got[i] < op[p].got[j]
    BY DEF ReadsAreExact, Disclosures
  <2>1. handed[p] <= Cardinality(Disclosures(p))
    BY DEF EInv, HandedOK
  <2>2. PICK c : c = op[p]
    OBVIOUS
  <2>3. CallOK(p, c)
    BY <2>2 DEF EInv
  <2>4. "got" \in DOMAIN c => ReadOK(p, c)
    BY <2>3 DEF CallOK, Verifying
  <2> QED
    BY <2>1, <2>2, <2>4 DEF ReadOK
<1> QED
  BY <1>1, InitHolds, StepKeeps, InitReads, StepReads, PTL DEF Spec

\* Batch after batch, over a log that others extend: a verification of a log nobody has edited finds no
\* break and no receipt that disagrees, and one that finds a receipt to match has recomputed a
\* digest that holds what every entry it walked up to that receipt says (VerifyAuditChain,
\* verifyChainFrom and verify-chain's exit code).
THEOREM VerdictsAreSound == Spec => []VerificationIsSound
<1>1. EInv => VerificationIsSound
  <2> SUFFICES ASSUME EInv, NEW p \in Procs, op[p].pc = "verified", op[p].quiet
               PROVE  /\ rewrites = 0 /\ op[p].seeded => ExitCode(op[p]) = 0
                      /\ \A i \in DOMAIN op[p].checks :
                           op[p].checks[i].database = "matches" =>
                             \A k \in op[p].from .. op[p].checks[i].sequence :
                               <<k, log[k].content>> = op[p].checks[i].chainHash[k]
    BY DEF VerificationIsSound
  <2>0. PICK c : c = op[p]
    OBVIOUS
  <2>1. CallOK(p, c) /\ c.pc = "verified" /\ c.quiet
    BY <2>0 DEF EInv
  <2>2. c \in Verifying /\ WalkOK(c) /\ ReceiptsOK(c)
    BY <2>1 DEF CallOK, Reading, WithHead
  <2>3. rewrites = 0 /\ c.seeded => ExitCode(c) = 0
    BY <2>2 DEF WalkOK, ReceiptsOK, ExitCode
  <2>4. ASSUME NEW i \in DOMAIN c.checks, c.checks[i].database = "matches",
               NEW k \in c.from .. c.checks[i].sequence
        PROVE  <<k, log[k].content>> = c.checks[i].chainHash[k]
    <3>1. PICK s, from, j : s = c.checks[i].sequence /\ from = c.from /\ j = s - from + 1
      OBVIOUS
    <3>2. /\ s \in Nat /\ from \in Nat \ {0} /\ Len(c.hashes) \in Nat /\ DOMAIN c.hashes = 1 .. Len(c.hashes)
      <4>1. c.from \in Nat \ {0} /\ c.hashes \in Seq(Digests) /\ Len(c.hashes) \in Nat
            /\ DOMAIN c.hashes = 1 .. Len(c.hashes)
        BY <2>2 DEF Verifying
      <4>2. c.checks \in Seq([sequence : Nat, chainHash : Digests, database : {"unchecked", "matches", "MISMATCH"},
                              ledger : {"unchecked", "matches", "MISMATCH"}])
        BY <2>2 DEF Verifying
      <4>3. c.checks[i].sequence \in Nat
        <5>1. PICK D, checks : /\ checks = c.checks
                               /\ D = [sequence : Nat, chainHash : Digests, database : {"unchecked", "matches", "MISMATCH"},
                                       ledger : {"unchecked", "matches", "MISMATCH"}]
          OBVIOUS
        <5>2. checks \in Seq(D) /\ i \in DOMAIN checks
          BY <4>2, <5>1
        <5>3. checks[i] \in D
          BY <5>2
        <5> QED
          BY <5>1, <5>3
      <4> QED
        BY <3>1, <4>1, <4>3
    <3>3. j \in DOMAIN c.hashes /\ c.hashes[j] = c.checks[i].chainHash
      BY <2>2, <2>4, <3>1 DEF ReceiptsOK
    <3>4. LogOK /\ Len(log) \in Nat
      BY LogIs DEF EInv
    <3>5. s <= Len(log)
      <4>1. c.hashes # << >>
        BY <3>3
      <4>2. from + Len(c.hashes) - 1 <= Len(log)
        BY <2>2, <3>1, <4>1 DEF WalkOK
      <4>3. PICK n : n = Len(c.hashes)
        OBVIOUS
      <4>4. n \in Nat /\ j \in 1 .. n /\ from + n - 1 <= Len(log)
        BY <3>2, <3>3, <4>2, <4>3
      <4>5. j = s - from + 1
        BY <3>1
      <4> QED
        BY <3>2, <3>4, <4>4, <4>5
    <3>6. c.hashes[j] = ComputeHash(log[s])
      <4>1. c.from + j - 1 = s
        BY <3>1, <3>2
      <4> QED
        BY <2>2, <3>3, <4>1 DEF WalkOK
    <3>7. \A m \in from .. s - 1 : HasValidHash(log[m])
      <4> TAKE m \in from .. s - 1
      <4>1. PICK x \in DOMAIN c.hashes : x = m - from + 1 /\ x < Len(c.hashes)
        <5>0. PICK n : n = Len(c.hashes)
          OBVIOUS
        <5>1. m - from + 1 \in DOMAIN c.hashes /\ m - from + 1 < Len(c.hashes)
          <6>1. n \in Nat /\ j \in 1 .. n
            BY <3>2, <3>3, <5>0
          <6>2. j = s - from + 1
            BY <3>1
          <6>3. m - from + 1 \in 1 .. n /\ m - from + 1 < n
            BY <3>2, <6>1, <6>2
          <6> QED
            BY <3>2, <5>0, <6>3
        <5> QED
          BY <5>1
      <4>2. c.from + x - 1 = m
        BY <3>1, <3>2, <4>1
      <4> QED
        BY <2>2, <4>1, <4>2 DEF WalkOK
    <3>8. \A q \in from .. s : ComputeHash(log[s])[q] = <<q, log[q].content>>
      BY <3>2, <3>4, <3>5, <3>7, HashHoldsPrefix
    <3> QED
      BY <3>1, <3>3, <3>6, <3>8
  <2> QED
    BY <2>0, <2>3, <2>4
<1> QED
  BY <1>1, InitHolds, StepKeeps, InitReads, StepReads, PTL DEF Spec
=============================================================================
