------------------------ MODULE VerificationRequest ------------------------
(***************************************************************************)
(* The verification aggregate: the status machine, the reviewer's expiring *)
(* claim, and the moves the aggregate allows.  A row is the aggregate as   *)
(* the mapper stores it; subject, type and the text of notes are left out. *)
(***************************************************************************)
EXTENDS Naturals

CONSTANTS Reviewers,
          NoReviewer,
          ClaimTtl       \* claimTtlMs, in ticks

ASSUME ClaimAssumption ==
    /\ NoReviewer \notin Reviewers
    /\ ClaimTtl \in Nat \ {0}

Statuses  == {"none", "pending_evidence", "submitted", "in_review", "needs_more_info",
              "approved", "rejected"}
Terminal  == {"approved", "rejected"}
Reviewing == Terminal \union {"needs_more_info"}   \* moves only a reviewer makes

\* A row that does not exist yet.
Blank == [status |-> "none", reviewer |-> NoReviewer, expires |-> 0,
          decidedBy |-> NoReviewer, note |-> FALSE]

\* VerificationRequest.request
Opened == [Blank EXCEPT !.status = "pending_evidence"]

-----------------------------------------------------------------------------
AllowedTransitions ==
    {<<"pending_evidence", "submitted">>, <<"submitted", "in_review">>,
     <<"in_review", "approved">>, <<"in_review", "rejected">>,
     <<"in_review", "needs_more_info">>, <<"needs_more_info", "pending_evidence">>}

\* A mutant: the check of a case already in review may be run again.
RecheckAllowed(from, to) ==
    <<from, to>> \in AllowedTransitions \union {<<"in_review", "in_review">>}

CanTransitionTo(from, to) == <<from, to>> \in AllowedTransitions

\* Whether the row carries a claim that has not expired.
IsActiveAt(row, at) == row.reviewer # NoReviewer /\ at < row.expires

\* A mutant: the claim is released one tick early.
ClaimableEarly(row, at) ==
    row.status = "in_review" /\ (row.reviewer = NoReviewer \/ row.expires <= at + 1)

IsClaimableAt(row, at) == row.status = "in_review" /\ ~IsActiveAt(row, at)

\* A mutant: any active claim permits the decision.
PermittedToAnyone(row, reviewer, at) == IsActiveAt(row, at)

\* decisionNotPermitted, negated
DecisionPermitted(row, reviewer, at) == IsActiveAt(row, at) /\ row.reviewer = reviewer

\* Whether the aggregate lets reviewer move it to a status at this time.
May(row, to, reviewer, at) ==
    /\ CanTransitionTo(row.status, to)
    /\ to \in Reviewing => DecisionPermitted(row, reviewer, at)

Claimed(row, reviewer, at) == [row EXCEPT !.reviewer = reviewer, !.expires = at + ClaimTtl]

Unclaimed(row, to) == [row EXCEPT !.status = to, !.reviewer = NoReviewer, !.expires = 0]

Decide(row, to, reviewer) == [Unclaimed(row, to) EXCEPT !.decidedBy = reviewer]

RequestMoreInformation(row) == [Unclaimed(row, "needs_more_info") EXCEPT !.note = TRUE]

\* A mutant: the note stays when the subject starts over.
NoteKept(row) == [row EXCEPT !.status = "pending_evidence"]

ReopenForEvidence(row) == [row EXCEPT !.status = "pending_evidence", !.note = FALSE]

TransitionTo(row, to) == [row EXCEPT !.status = to]

\* The aggregate after a permitted move.
Moved(row, to, reviewer) ==
    CASE to \in Terminal           -> Decide(row, to, reviewer)
      [] to = "needs_more_info"    -> RequestMoreInformation(row)
      [] to = "pending_evidence"   -> ReopenForEvidence(row)
      [] OTHER                     -> TransitionTo(row, to)

\* What reconstitute insists on; it throws for a row that disagrees with itself.
Agrees(row) ==
    /\ row.status \in Terminal <=> row.decidedBy # NoReviewer
    /\ row.status = "needs_more_info" <=> row.note
    /\ row.reviewer # NoReviewer => row.status = "in_review"
=============================================================================
