---------------------------- MODULE AuditEvidence ----------------------------
(***************************************************************************)
(* What the audit log is kept for: anchoring its head to a public ledger   *)
(* (AnchorAuditLog over StellarHashAnchor and its funding guard), proving  *)
(* it against the receipts (VerifyAuditChain and its command), and reading *)
(* it page by page (QueryAuditEvents, ExportAuditEvents,                   *)
(* ApplyAuditRetentionPolicy), all while it grows.                         *)
(*                                                                         *)
(* How an entry gets into the log is the subject of AuditSystem; here an   *)
(* append is one step.  Rows may also be changed behind the application's  *)
(* back, which is what verification is there to notice.                    *)
(***************************************************************************)
EXTENDS AuditChain, BalanceMonitor, SequencesExt

CONSTANTS Procs, Orgs,
          Events,           \* what the rest of the system records: [org, what]
          Asks,             \* reads: [operation, reader, org, limit]
          Windows,          \* verifications: [from, batch, checkAnchors]
          Deposits,         \* amounts the account may be topped up by
          Workloads,        \* what goes on in one behaviour, out of AllWork
          MaxAnchorChecks,
          MaxEntries, MaxTxs, MaxCalls, MaxFaults, MaxTopUps, MaxRewrites

AllWork == {"anchor", "monitor", "verify", "rewrite", "read"}

ASSUME EvidenceAssumption ==
    /\ Workloads \subseteq SUBSET AllWork
    /\ {MaxEntries, MaxTxs, MaxCalls, MaxFaults, MaxTopUps, MaxRewrites} \subseteq Nat
    /\ MaxAnchorChecks \in Nat \ {0} /\ Deposits \subseteq Nat
    /\ Events \subseteq [org : Orgs, what : {"event", "old"}]
    /\ Asks \subseteq [operation : {"query", "export", "retention"}, org : Orgs, limit : Nat \ {0},
                       reader : [org : Orgs, permissions : SUBSET {"query", "export"}]]
    /\ Windows \subseteq [from : Nat \ {0}, batch : Nat \ {0}, checkAnchors : BOOLEAN]

VARIABLES log,        \* the audit_log_entries rows, by sequence
          records,    \* the anchor_records rows
          ledger,     \* the memo of every transaction of the account; a reference is a position
          op,         \* the call each process is in
          timer,      \* the reading a check by the monitor's interval has yet to judge, if any
          workload,   \* which of Workloads this behaviour is about (fixed)
          handed,     \* pages handed out to each process (for the properties)
          calls, faults, topUps, rewrites

evidence == <<log, records, ledger>>
account  == <<balance, monitor>>
bounds   == <<calls, faults, topUps, rewrites, workload>>
vars     == <<evidence, account, op, timer, handed, bounds>>

Idle == [pc |-> "idle"]

Init ==
    /\ log = << >>
    /\ records = {}
    /\ ledger = << >>
    /\ balance = Threshold
    /\ MonitorInit
    /\ op = [p \in Procs |-> Idle]
    /\ timer = {}
    /\ handed = [p \in Procs |-> 0]
    /\ workload \in Workloads
    /\ calls = 0 /\ faults = 0 /\ topUps = 0 /\ rewrites = 0

Goto(p, c) == op' = [op EXCEPT ![p] = c]
Return(p)  == Goto(p, Idle)
Begin(p, c) ==
    /\ op[p].pc = "idle"
    /\ calls < MaxCalls
    /\ calls' = calls + 1
    /\ Goto(p, c)
    /\ UNCHANGED <<faults, topUps, rewrites, workload>>

\* A step that may go wrong at the cost of one fault.
Goes(well) ==
    /\ well \/ faults < MaxFaults
    /\ faults' = IF well THEN faults ELSE faults + 1
    /\ UNCHANGED <<calls, topUps, rewrites, workload>>
Fails == Goes(FALSE)
Reads == UNCHANGED bounds

-----------------------------------------------------------------------------
(* The log                                                                 *)

ChainHead == IF log = << >> THEN NoEntry ELSE Last(log)
Content(org, what, by) == [org |-> org, what |-> what, by |-> by]
Extended(content) == Append(log, AppendAt(ChainHead, <<content>>, 1))

\* The elements of s at some of its positions, in order: the k-th is at the position that k of them do not exceed.
Nth(positions, k) == CHOOSE i \in positions : Cardinality({j \in positions : j <= i}) = k
Pick(s, positions) == [k \in 1 .. Cardinality(positions) |-> s[Nth(positions, k)]]

AtMost(n, limit) == IF n < limit THEN n ELSE limit

\* findFrom, findWithFilters: the first rows from a sequence on that match.
FindFrom(from, limit, matching) ==
    LET found == Pick(log, {i \in from .. Len(log) : log[i] \in matching})
    IN  SubSeq(found, 1, AtMost(Len(found), limit))

\* RecordAuditEvent for whatever the rest of the system did; old entries are past retention.
RecordEvent(e) ==
    /\ Len(log) < MaxEntries
    /\ log' = Extended(Content(e.org, e.what, "system"))
    /\ UNCHANGED <<records, ledger, account, op, timer, handed, bounds>>

\* A row changed by hand, its digest left alone or the rest of the chain digested anew.
Rewrite(i, rederive) ==
    LET edited == [log[i].content EXCEPT !.what = "changed"]
        kept == SubSeq(log, 1, i - 1)
        contents == [j \in 1 .. Len(log) - i + 1 |->
                        IF j = 1 THEN edited ELSE log[i + j - 1].content]
        prior == IF i = 1 THEN NoEntry ELSE log[i - 1]
    IN
    /\ rewrites < MaxRewrites
    /\ log[i].content.what = "event"
    /\ log' = IF rederive
              THEN kept \o [j \in DOMAIN contents |-> AppendAt(prior, contents, j)]
              ELSE [log EXCEPT ![i].content = edited]
    /\ rewrites' = rewrites + 1
    /\ op' = [p \in Procs |-> IF "quiet" \in DOMAIN op[p] THEN [op[p] EXCEPT !.quiet = FALSE] ELSE op[p]]
    /\ UNCHANGED <<records, ledger, account, timer, handed, calls, faults, topUps, workload>>

-----------------------------------------------------------------------------
(* AnchorAuditLog                                                          *)

\* The head is read; an empty log is refused.  `guarded` says whether the adapter was given
\* the monitor: the API's composition root gives it none.
AnchorAuditLog(p, guarded) ==
    /\ Begin(p, IF log = << >> THEN Idle ELSE [pc |-> "previous", head |-> ChainHead, guarded |-> guarded])
    /\ UNCHANGED <<evidence, account, timer, handed>>

\* anchors.findLatest orders by sequence; two receipts for one sequence come in any order.
LatestRecords == {r \in records : \A s \in records : s.sequence <= r.sequence}

ReadPrevious(p) ==
    /\ op[p].pc = "previous"
    /\ \E chainHash \in IF records = {} THEN {GENESIS_HASH} ELSE {r.chainHash : r \in LatestRecords} :
         IF chainHash = op[p].head.hash THEN Return(p)
         ELSE Goto(p, [op[p] EXCEPT !.pc = IF op[p].guarded THEN "guard" ELSE "submit"])
    /\ Reads
    /\ UNCHANGED <<evidence, account, timer, handed>>

\* beforeAnchor(): a reading of its own ...
GuardReads(p) ==
    /\ op[p].pc = "guard"
    /\ \E reading \in Readings :
         /\ Goes(reading # Unreadable)
         /\ Goto(p, [pc |-> "judge", head |-> op[p].head, guarded |-> TRUE, reading |-> reading])
    /\ UNCHANGED <<evidence, account, timer, handed>>

\* ... and a refusal unless the account is funded, which is more than able to pay.
Cleared(status) == status = "funded"

\* An alert that cannot be delivered throws, through anchor() and out of execute().
GuardJudges(p) ==
    LET c == op[p] IN
    /\ c.pc = "judge"
    /\ \E arrives \in BOOLEAN :
         /\ Goes(arrives)
         /\ Check(c.reading, arrives)
         /\ Goto(p, IF arrives /\ Cleared(Classify(c.reading))
                    THEN [pc |-> "submit", head |-> c.head, guarded |-> TRUE]
                    ELSE [pc |-> "declined"])
    /\ UNCHANGED <<evidence, balance, timer, handed>>

\* The account cannot be loaded, the key service refuses to sign, or Horizon is out of reach.
SubmitFails(p) ==
    /\ op[p].pc = "submit"
    /\ Fails
    /\ Return(p)
    /\ UNCHANGED <<evidence, account, timer, handed>>

\* Mutant of Receipt: a receipt before the ledger has answered.
AnyReceipt(c, answered) == [pc |-> "save", head |-> c.head, ref |-> Len(ledger) + 1]

\* What the adapter returns after a submission whose answer arrived, or did not.
Receipt(c, answered) ==
    IF answered THEN [pc |-> "save", head |-> c.head, ref |-> Len(ledger) + 1] ELSE Idle

\* The ledger accepts the transaction and takes its fee; the answer may still get lost.
Accepted(p) ==
    /\ op[p].pc = "submit"
    /\ balance >= Fee
    /\ Len(ledger) < MaxTxs
    /\ balance' = balance - Fee
    /\ ledger' = Append(ledger, op[p].head.hash)
    /\ \E answered \in BOOLEAN :
         /\ Goes(answered)
         /\ Goto(p, Receipt(op[p], answered))
    /\ UNCHANGED <<log, records, monitor, timer, handed>>

\* The ledger refuses for want of funds, which a guard is told about.
Rejected(p) ==
    /\ op[p].pc = "submit"
    /\ balance < Fee
    /\ \E arrives \in BOOLEAN :
         /\ Goes(arrives)
         /\ IF op[p].guarded
            THEN /\ ReportRejection(arrives)
                 /\ Goto(p, IF arrives THEN [pc |-> "reported"] ELSE Idle)
            ELSE /\ arrives
                 /\ Goto(p, Receipt(op[p], FALSE))
                 /\ UNCHANGED monitor
    /\ UNCHANGED <<evidence, balance, timer, handed>>

Reported(p) ==
    /\ op[p].pc = "reported"
    /\ SettleRejection
    /\ Return(p)
    /\ Reads
    /\ UNCHANGED <<evidence, balance, timer, handed>>

SaveRecord(p) ==
    LET c == op[p] IN
    /\ c.pc = "save"
    /\ \E saved \in BOOLEAN :
         /\ Goes(saved)
         /\ records' = IF saved
                       THEN records \union {[sequence |-> c.head.sequence, chainHash |-> c.head.hash, ref |-> c.ref]}
                       ELSE records
    /\ Return(p)
    /\ UNCHANGED <<log, ledger, account, timer, handed>>

-----------------------------------------------------------------------------
(* The account and the interval of the monitor                             *)

TopUp(amount) ==
    /\ topUps < MaxTopUps
    /\ topUps' = topUps + 1
    /\ balance' = balance + amount
    /\ UNCHANGED <<evidence, monitor, op, timer, handed, calls, faults, rewrites, workload>>

TimerReads ==
    /\ timer = {}
    /\ \E reading \in Readings : Goes(reading # Unreadable) /\ timer' = {reading}
    /\ UNCHANGED <<evidence, account, op, handed>>

TimerJudges ==
    /\ \E reading \in timer, arrives \in BOOLEAN : Goes(arrives) /\ Check(reading, arrives)
    /\ timer' = {}
    /\ UNCHANGED <<evidence, balance, op, handed>>

\* The process ends and another takes its place.
Crash ==
    /\ Fails
    /\ op' = [p \in Procs |-> Idle]
    /\ timer' = {}
    /\ MonitorRestart
    /\ UNCHANGED <<evidence, balance, handed>>

-----------------------------------------------------------------------------
(* Reading                                                                 *)

AuthorizeAuditRead(reader, operation, org) ==
    reader.org = org /\ operation \in reader.permissions

NewRead(pc, ask) ==
    [pc |-> pc, operation |-> ask.operation, reader |-> ask.reader, org |-> ask.org,
     limit |-> ask.limit, cursor |-> 0, got |-> << >>]

\* A client follows the cursor of a query, one call a page; an export is one call.
StartRead(p, ask) ==
    /\ ask.operation \in {"query", "export"}
    /\ Begin(p, NewRead("record", ask))
    /\ UNCHANGED <<evidence, account, timer, handed>>

\* A review of retention goes through the entries of every organization, records nothing
\* and removes nothing.
ApplyAuditRetentionPolicy(p, ask) ==
    /\ ask.operation = "retention"
    /\ Begin(p, NewRead("page", ask))
    /\ UNCHANGED <<evidence, account, timer, handed>>

ActionOf(c) ==
    IF ~AuthorizeAuditRead(c.reader, c.operation, c.org) THEN "denied"
    ELSE IF c.operation = "query" THEN "queried" ELSE "exported"

\* Mutant of MayRead: a read that could not be recorded goes ahead.
MayReadUnrecorded(c, recorded) == ActionOf(c) # "denied"

MayRead(c, recorded) == ActionOf(c) # "denied" /\ recorded

\* authorizeAndRecordAuditRead: the disclosure is recorded before it is made.  What cannot be
\* recorded is not disclosed; a denial that cannot be recorded is still a denial.
RecordRead(p) ==
    LET c == op[p] IN
    /\ c.pc = "record"
    /\ Len(log) < MaxEntries
    /\ \E recorded \in BOOLEAN :
         /\ Goes(recorded)
         /\ log' = IF recorded THEN Extended(Content(c.org, ActionOf(c), p)) ELSE log
         /\ Goto(p, IF MayRead(c, recorded) THEN [c EXCEPT !.pc = "page"] ELSE Idle)
    /\ UNCHANGED <<records, ledger, account, timer, handed>>

PastRetention(e) == e.content.what = "old"

Matches(c, e) == IF c.operation = "retention" THEN PastRetention(e) ELSE e.content.org = c.org

\* An export is not paged.
PageLimit(c) == IF c.operation = "export" THEN MaxEntries ELSE c.limit

\* Mutant of NextCursor: the cursor of the row that only says there is more.
CursorOfExtra(found, limit) == Last(found).sequence

\* The last row of the page when one row more than the page was found.
NextCursor(found, limit) == found[limit].sequence

ReadPage(p) ==
    LET c == op[p]
        limit == PageLimit(c)
        found == FindFrom(c.cursor + 1, limit + 1, {e \in ToSet(log) : Matches(c, e)})
        hasMore == Len(found) > limit
        page == IF hasMore THEN SubSeq(found, 1, limit) ELSE found
        got == c.got \o [i \in DOMAIN page |-> page[i].sequence]
    IN
    /\ c.pc = "page"
    /\ Goto(p, IF ~hasMore THEN [c EXCEPT !.pc = "read", !.got = got, !.cursor = Len(log)]
               ELSE [c EXCEPT !.pc = IF c.operation = "query" THEN "record" ELSE "page",
                              !.got = got, !.cursor = NextCursor(found, limit)])
    /\ handed' = [handed EXCEPT ![p] = IF c.operation = "retention" THEN @ ELSE @ + 1]
    /\ Reads
    /\ UNCHANGED <<evidence, account, timer>>

-----------------------------------------------------------------------------
(* VerifyAuditChain                                                        *)

\* anchors.findAll: the first n receipts, the latest sequence first and those of one sequence in any order.
LatestFirst(n) ==
    {s \in [1 .. n -> records] :
        \A i \in 1 .. n :
          LET rest == records \ {s[j] : j \in 1 .. i - 1}
          IN  s[i] \in rest /\ \A r \in rest : r.sequence <= s[i].sequence}

\* The receipts are loaded, and the entry before the window unless it starts at 1.
VerifyAuditChain(p, window) ==
    LET from == window.from
        n == IF window.checkAnchors THEN AtMost(Cardinality(records), MaxAnchorChecks) ELSE 0
    IN
    /\ \E receipts \in LatestFirst(n) :
         Begin(p, [pc |-> "walk", from |-> from, batch |-> window.batch, cursor |-> from,
                   quiet |-> TRUE, seeded |-> from <= Len(log) + 1, receipts |-> receipts,
                   previous |-> IF from = 1 \/ from - 1 > Len(log) THEN NoEntry ELSE log[from - 1],
                   break |-> NoBreak, hashes |-> << >>, checks |-> << >>])
    /\ UNCHANGED <<evidence, account, timer, handed>>

\* Mutant of Recomputed: the row is asked for its own opinion of itself.
StoredHash(e) == e.hash

\* get recomputedHash: from the content and the stored link.
Recomputed(e) == ComputeHash(e)

\* One batch: verified behind the entry before it, its recomputed hashes noted up to a break.
WalkBatch(p) ==
    LET c == op[p]
        page == FindFrom(c.cursor, c.batch, ToSet(log))
        break == VerifyChainFrom(c.previous, page)
        inspected == IF break = NoBreak THEN page
                     ELSE Pick(page, {i \in DOMAIN page : page[i].sequence <= break.sequence})
        hashes == c.hashes \o [i \in DOMAIN inspected |-> Recomputed(inspected[i])]
    IN
    /\ c.pc = "walk"
    /\ Goto(p, IF page = << >> THEN [c EXCEPT !.pc = "check"]
               ELSE [c EXCEPT !.pc = IF break = NoBreak /\ Len(page) = c.batch THEN "walk" ELSE "check",
                              !.previous = Last(page), !.cursor = Last(page).sequence + 1,
                              !.break = break, !.hashes = hashes])
    /\ Reads
    /\ UNCHANGED <<evidence, account, timer, handed>>

\* matchesDatabaseChain and matchesLedger, either of them unknown outside the walked range.
AnchorCheck(c, r, reachable) ==
    LET i == r.sequence - c.from + 1
        walked == i \in DOMAIN c.hashes
    IN [sequence |-> r.sequence, chainHash |-> r.chainHash,
        database |-> IF ~walked THEN "unchecked" ELSE IF c.hashes[i] = r.chainHash THEN "matches" ELSE "MISMATCH",
        ledger   |-> IF ~walked \/ ~reachable THEN "unchecked"
                     ELSE IF ledger[r.ref] = r.chainHash THEN "matches" ELSE "MISMATCH"]

CheckAnchor(p) ==
    LET c == op[p]
        n == Len(c.checks) + 1
    IN
    /\ c.pc = "check"
    /\ n <= Len(c.receipts)
    /\ \E reachable \in BOOLEAN :
         /\ Goes(reachable)
         /\ Goto(p, [c EXCEPT !.checks = Append(@, AnchorCheck(c, c.receipts[n], reachable))])
    /\ UNCHANGED <<evidence, account, timer, handed>>

\* verify-chain's exit code: a receipt fails it only by disagreeing with the database.
ExitCode(c) ==
    IF c.break = NoBreak /\ \A i \in DOMAIN c.checks : c.checks[i].database # "MISMATCH" THEN 0 ELSE 1

ReportVerification(p) ==
    LET c == op[p] IN
    /\ c.pc = "check"
    /\ Len(c.checks) = Len(c.receipts)
    /\ Goto(p, [c EXCEPT !.pc = "verified"])
    /\ Reads
    /\ UNCHANGED <<evidence, account, timer, handed>>

Done(p) ==
    /\ op[p].pc \in {"declined", "read", "verified"}
    /\ Return(p)
    /\ Reads
    /\ UNCHANGED <<evidence, account, timer, handed>>

-----------------------------------------------------------------------------
Works(p) ==
    \/ "anchor" \in workload /\ AnchorAuditLog(p, FALSE)
    \/ {"anchor", "monitor"} \subseteq workload /\ AnchorAuditLog(p, TRUE)
    \/ ReadPrevious(p) \/ GuardReads(p) \/ GuardJudges(p)
    \/ SubmitFails(p) \/ Accepted(p) \/ Rejected(p) \/ Reported(p) \/ SaveRecord(p)
    \/ "read" \in workload /\ \E ask \in Asks : StartRead(p, ask) \/ ApplyAuditRetentionPolicy(p, ask)
    \/ RecordRead(p) \/ ReadPage(p)
    \/ "verify" \in workload /\ \E window \in Windows : VerifyAuditChain(p, window)
    \/ WalkBatch(p) \/ CheckAnchor(p) \/ ReportVerification(p)
    \/ Done(p)

Surroundings ==
    \/ \E e \in Events : RecordEvent(e)
    \/ "rewrite" \in workload /\ \E i \in DOMAIN log, rederive \in BOOLEAN : Rewrite(i, rederive)
    \/ "monitor" \in workload /\ \E amount \in Deposits : TopUp(amount)
    \/ "monitor" \in workload /\ TimerReads
    \/ TimerJudges
    \/ Crash

Next == (\E p \in Procs : Works(p)) \/ Surroundings

Spec == Init /\ [][Next]_vars

\* The interval fires for as long as the process lives, and a check it started runs on.
Interval == "monitor" \in workload /\ (TimerReads \/ TimerJudges)

FairSpec == Spec /\ WF_vars(Interval)
-----------------------------------------------------------------------------
(* Properties                                                              *)

\* A receipt is stored only after the ledger has answered, so whatever is lost, refused or
\* cut off by a crash, every stored receipt names a transaction that carries its hash, and
\* no two name the same one.
NoFalseProof ==
    /\ \A r \in records : r.ref \in DOMAIN ledger /\ ledger[r.ref] = r.chainHash
    /\ \A r, s \in records : r.ref = s.ref => r = s

\* A guard that declines has raised its alarm: when it refuses, the last thing the operator
\* heard is a problem and not a recovery, although the alerts are deduplicated and the
\* interval checks at the same time.  Excused is a monitor whose last alert was lost, or whose
\* account recovered while it was reporting a rejection.
RefusalIsLoud ==
    [][\A p \in Procs : op[p].pc = "judge" /\ op'[p].pc = "declined" /\ ~muted' => delivered' \in Problems]_vars

\* An account that runs down and stays down is heard of, and no stale reading takes the alarm
\* back for good.
DrainIsHeard == <>[]("monitor" \in workload /\ balance < Threshold) => <>[](muted \/ delivered \in Problems)

\* Verification, batch by batch, of a log that grows and may have been changed before the run:
\* it reports no break in a log nobody changed (unless the window began beyond its end, where
\* there is no entry yet to link the first one to), and where it says a receipt matches, every
\* entry it walked up to that receipt still reads as it was anchored.
VerificationIsSound ==
    \A p \in Procs :
      LET c == op[p] IN
        c.pc = "verified" /\ c.quiet =>
          /\ rewrites = 0 /\ c.seeded => ExitCode(c) = 0
          /\ \A i \in DOMAIN c.checks :
               c.checks[i].database = "matches" =>
                 \A k \in c.from .. c.checks[i].sequence :
                   <<k, log[k].content>> = c.checks[i].chainHash[k]

\* Reading page by page hands out, in order and once, exactly the matching entries up to the
\* cursor, the ones that the reading itself adds included; and no page is handed out that an
\* earlier entry of the log does not record.
ReadsAreExact ==
    \A p \in Procs :
      LET c == op[p] IN
        /\ handed[p] <= Cardinality({i \in DOMAIN log : /\ log[i].content.by = p
                                                        /\ log[i].content.what \in {"queried", "exported"}})
        /\ "got" \in DOMAIN c =>
             /\ ToSet(c.got) = {i \in 1 .. c.cursor : Matches(c, log[i])}
             /\ \A i, j \in DOMAIN c.got : i < j => c.got[i] < c.got[j]
=============================================================================
