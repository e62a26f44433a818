--------------------------- MODULE BalanceMonitor ---------------------------
(***************************************************************************)
(* packages/stellar-anchor, AnchorBalanceMonitor: the watch on the account *)
(* that pays for anchoring.  A check is two steps, because the account can *)
(* change and another check can finish while the balance is being read:    *)
(* the reading, and everything the code does with it up to the call of the *)
(* alerter, which it does without giving way.  Amounts are in units of     *)
(* which one transaction costs Fee.                                        *)
(***************************************************************************)
EXTENDS Naturals

CONSTANTS Fee,          \* transactionFeeStroops
          Threshold     \* thresholdXlm, in the same unit

ASSUME BalanceAssumption == Fee \in Nat \ {0} /\ Threshold \in Nat

VARIABLES balance,              \* what the ledger says the account holds
          lastAlertedKind,      \* the kind the next alert is compared with
          reportedUnderfunded,
          delivered,            \* the last alert that reached the operator
          muted                 \* lastAlertedKind does not stand for that alert (see the properties)

monitor == <<lastAlertedKind, reportedUnderfunded, delivered, muted>>

\* A reading is <<amount>>, or Unreadable.
Unreadable == << >>
Problems == {"below_threshold", "unfundable", "balance_unreadable", "unfundable_anchor_attempt"}

MonitorInit ==
    /\ lastAlertedKind = "none"
    /\ reportedUnderfunded = FALSE
    /\ delivered = "none"
    /\ muted = FALSE

\* A new process starts with a new monitor; the operator remembers.
MonitorRestart ==
    /\ lastAlertedKind' = "none"
    /\ reportedUnderfunded' = FALSE
    /\ muted' = FALSE
    /\ UNCHANGED delivered

\* What read() can return: the balance, or an error and never a zero.
Readings == {<<balance>>, Unreadable}

\* Only a balance that is back at the threshold retires a rejection by the ledger.
StillReported(reading) ==
    reportedUnderfunded /\ (reading # Unreadable => reading[1] < Threshold)

Classify(reading) ==
    IF reading = Unreadable THEN "unknown"
    ELSE IF StillReported(reading) \/ reading[1] < Fee THEN "unfundable"
    ELSE IF reading[1] < Threshold THEN "below_threshold"
    ELSE "funded"

\* The kind of alert a check asks for, or "none".
AlertFor(status) ==
    CASE status = "unknown" -> "balance_unreadable"
      [] status = "funded"  -> IF lastAlertedKind = "none" THEN "none" ELSE "recovered"
      [] OTHER              -> status

\* Mutant of Remember: a recovery leaves the kind that was alerted before it.
KeepOnRecovery(kind) == lastAlertedKind' = IF kind = "recovered" THEN lastAlertedKind ELSE kind

Remember(kind) == lastAlertedKind' = kind

\* #raise: the kind is remembered before the alerter is called, so an alert that gets lost
\* is not repeated.  Whether it arrives is the alerter's doing.
Raise(kind, force, arrives) ==
    IF kind = "none" \/ (~force /\ lastAlertedKind = kind)
    THEN /\ arrives
         /\ UNCHANGED <<lastAlertedKind, delivered, muted>>
    ELSE /\ Remember(kind)
         /\ delivered' = IF arrives THEN kind ELSE delivered
         /\ muted' = ~arrives

\* check(), from the reading on.
Check(reading, arrives) ==
    /\ reportedUnderfunded' = StillReported(reading)
    /\ Raise(AlertFor(Classify(reading)), FALSE, arrives)

\* reportUnderfundedRejection(), up to the call of the alerter, and after it.
ReportRejection(arrives) ==
    /\ reportedUnderfunded' = TRUE
    /\ Raise("unfundable_anchor_attempt", TRUE, arrives)

SettleRejection ==
    /\ lastAlertedKind' = "unfundable"
    /\ muted' = (muted \/ delivered \notin Problems)
    /\ UNCHANGED <<reportedUnderfunded, delivered>>
=============================================================================
