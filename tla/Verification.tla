---------------------------- MODULE Verification ----------------------------
(***************************************************************************)
(* The verification use cases on several processes.  Decisions, automated  *)
(* checks and the evidence flow read a request, ask the copy, and save the *)
(* whole row; ClaimNextReviewCase is a transaction that locks the row it   *)
(* picks (FOR UPDATE SKIP LOCKED), for which a save of that row waits.     *)
(***************************************************************************)
EXTENDS VerificationRequest, FiniteSets

CONSTANTS Requests,     \* numbered by created_at
          Procs,
          OneAtATime,   \* ClaimNextReviewCasePolicy
          MaxTime,      \* bound: the last instant
          MaxCalls,     \* bound: calls that arrive
          MaxFaults     \* bound: statements that fail

ASSUME VerificationAssumption ==
    /\ Requests \subseteq Nat
    /\ OneAtATime \in BOOLEAN
    /\ {MaxTime, MaxCalls, MaxFaults} \subseteq Nat

VARIABLES now,
          requests,  \* the table
          op,        \* the call each process is in, with the copy it read
          calls, faults,
          raced,     \* requests two calls of which met in a way the claim does not guard
          stacked    \* reviewers who called ClaimNextReviewCase twice at once

ghosts == <<raced, stacked>>
vars   == <<now, requests, op, calls, faults, ghosts>>

\* reviewer is NoReviewer in the calls no reviewer makes.
Idle == [pc |-> "idle", request |-> 0, reviewer |-> NoReviewer, to |-> "none", at |-> 0,
         seen |-> Blank]

Moving   == {"find", "save"}
Claiming == {"holds", "select", "commit"}

\* Earlier processes left requests that nobody has decided or claimed.
Init ==
    /\ now = 1
    /\ requests \in [Requests -> {Blank, Opened, TransitionTo(Opened, "submitted"),
                                 TransitionTo(Opened, "in_review")}]
    /\ op = [p \in Procs |-> Idle]
    /\ calls = 0 /\ faults = 0
    /\ raced = {} /\ stacked = {}

-----------------------------------------------------------------------------
\* Two calls about one request, of one reviewer or of none.
Clash(c, d) ==
    c.pc \in Moving /\ d.pc \in Moving /\ c.request = d.request /\ c.reviewer = d.reviewer

Begin(p, call) ==
    /\ op[p] = Idle /\ calls < MaxCalls
    /\ op' = [op EXCEPT ![p] = call]
    /\ calls' = calls + 1
    /\ raced' = raced \union {r \in Requests : r = call.request /\ \E q \in Procs : Clash(call, op[q])}
    /\ stacked' = stacked \union
                    {v \in Reviewers : v = call.reviewer /\ call.pc \in Claiming
                       /\ \E q \in Procs : op[q].pc \in Claiming /\ op[q].reviewer = v}
    /\ UNCHANGED <<now, requests, faults>>

Find(r, to, v) == [Idle EXCEPT !.pc = "find", !.request = r, !.to = to, !.reviewer = v]

ApproveVerification(p, r, v)    == Begin(p, Find(r, "approved", v))
RejectVerification(p, r, v)     == Begin(p, Find(r, "rejected", v))
AskForMoreInformation(p, r, v)  == Begin(p, Find(r, "needs_more_info", v))
RunAutomatedCheck(p, r)         == Begin(p, Find(r, "in_review", NoReviewer))
\* The evidence flow that is to call submit() and reopenForEvidence().
SubmitEvidence(p, r)            == Begin(p, Find(r, "submitted", NoReviewer))
Resubmit(p, r)                  == Begin(p, Find(r, "pending_evidence", NoReviewer))

ClaimNextReviewCase(p, v) ==
    Begin(p, [Idle EXCEPT !.pc = IF OneAtATime THEN "holds" ELSE "select",
                          !.reviewer = v, !.at = now])

Return(p) == op' = [op EXCEPT ![p] = Idle]

-----------------------------------------------------------------------------
\* findById, then the aggregate's answer at the time of the call.
FindAndMove(p) ==
    LET c == op[p] IN
    /\ c.pc = "find"
    /\ May(requests[c.request], c.to, c.reviewer, now)
    /\ op' = [op EXCEPT ![p].pc = "save", ![p].at = now, ![p].seen = requests[c.request]]
    /\ UNCHANGED <<now, requests, calls, faults, ghosts>>

\* Not found, not permitted, or (an automated check) evidence of another request.
Refuse(p) ==
    LET c == op[p] IN
    /\ c.pc = "find"
    /\ ~May(requests[c.request], c.to, c.reviewer, now) \/ c.to = "in_review"
    /\ Return(p)
    /\ UNCHANGED <<now, requests, calls, faults, ghosts>>

\* A mutant: the candidate row is selected without FOR UPDATE.
RowNeverLocked(r) == TRUE

\* No claim holds the lock on the row.
RowFree(r) == \A q \in Procs : ~(op[q].pc = "commit" /\ op[q].request = r)

\* save(): every column, from the copy.  A decision that lands when its claim has
\* lapsed may meet another reviewer's.
Save(p) ==
    LET c == op[p] IN
    /\ c.pc = "save" /\ RowFree(c.request)
    /\ requests' = [requests EXCEPT ![c.request] = Moved(c.seen, c.to, c.reviewer)]
    /\ raced' = raced \union {r \in Requests : /\ r = c.request /\ c.to \in Reviewing
                                               /\ ~IsActiveAt(c.seen, now)}
    /\ Return(p)
    /\ UNCHANGED <<now, calls, faults, stacked>>

\* VerificationRequest.request with a fresh id, saved.
OpenRequest(r) ==
    /\ requests[r] = Blank
    /\ requests' = [requests EXCEPT ![r] = Opened]
    /\ UNCHANGED <<now, op, calls, faults, ghosts>>

-----------------------------------------------------------------------------
\* A mutant: the comparison with the expiry is the wrong way round.
HoldsLapsedCase(v, at) == \E r \in Requests : requests[r].reviewer = v /\ requests[r].expires <= at

HoldsCase(v, at) == \E r \in Requests : requests[r].reviewer = v /\ at < requests[r].expires

ClaimHolds(p) ==
    /\ op[p].pc = "holds"
    /\ op' = [op EXCEPT ![p] = IF HoldsCase(op[p].reviewer, op[p].at)
                               THEN Idle ELSE [@ EXCEPT !.pc = "select"]]
    /\ UNCHANGED <<now, requests, calls, faults, ghosts>>

\* The oldest claimable row nobody has locked, locked.
Candidates(at) == {r \in Requests : IsClaimableAt(requests[r], at) /\ RowFree(r)}

ClaimSelect(p) ==
    LET found == Candidates(op[p].at) IN
    /\ op[p].pc = "select"
    /\ \/ /\ found = {}
          /\ Return(p)
       \/ \E r \in found :
            /\ \A s \in found : r <= s
            /\ op' = [op EXCEPT ![p].pc = "commit", ![p].request = r, ![p].seen = requests[r]]
    /\ UNCHANGED <<now, requests, calls, faults, ghosts>>

\* The update of the claim's columns, visible at the commit.
ClaimCommit(p) ==
    LET c == op[p] IN
    /\ c.pc = "commit"
    /\ requests' = [requests EXCEPT ![c.request] = Claimed(@, c.reviewer, c.at)]
    /\ Return(p)
    /\ UNCHANGED <<now, calls, faults, ghosts>>

\* The statement a call is at fails; a transaction rolls back.
Fails(p) ==
    /\ op[p].pc # "idle" /\ faults < MaxFaults
    /\ faults' = faults + 1
    /\ Return(p)
    /\ UNCHANGED <<now, requests, calls, ghosts>>

Tick ==
    /\ now < MaxTime
    /\ now' = now + 1
    /\ UNCHANGED <<requests, op, calls, faults, ghosts>>

Arrive(p) ==
    \/ \E r \in Requests : RunAutomatedCheck(p, r) \/ SubmitEvidence(p, r) \/ Resubmit(p, r)
    \/ \E r \in Requests, v \in Reviewers :
         \/ ApproveVerification(p, r, v) \/ RejectVerification(p, r, v)
         \/ AskForMoreInformation(p, r, v)
    \/ \E v \in Reviewers : ClaimNextReviewCase(p, v)

Continue(p) ==
    \/ FindAndMove(p) \/ Refuse(p) \/ Save(p)
    \/ ClaimHolds(p) \/ ClaimSelect(p) \/ ClaimCommit(p)

Next ==
    \/ Tick
    \/ \E r \in Requests : OpenRequest(r)
    \/ \E p \in Procs : Arrive(p) \/ Continue(p) \/ Fails(p)

Spec == Init /\ [][Next]_vars

-----------------------------------------------------------------------------
\* The columns of a claim are written together and nulled together.
Rows == {row \in [status : Statuses, reviewer : Reviewers \union {NoReviewer}, expires : Nat,
                  decidedBy : Reviewers \union {NoReviewer}, note : BOOLEAN] :
           row.reviewer = NoReviewer => row.expires = 0}

Calls == [pc : {"idle"} \union Moving \union Claiming, request : Requests \union {0},
          reviewer : Reviewers \union {NoReviewer}, to : Statuses, at : Nat, seen : Rows]

\* Types; a claim is never reckoned from a time to come.
TypeOK ==
    /\ now \in Nat
    /\ requests \in [Requests -> Rows]
    /\ op \in [Procs -> Calls]
    /\ \A p \in Procs : /\ op[p].at <= now
                        /\ op[p].pc \in Moving \union {"commit"} => op[p].request \in Requests
    /\ \A r \in Requests : requests[r].expires <= now + ClaimTtl
    /\ calls \in 0 .. MaxCalls /\ faults \in 0 .. MaxFaults
    /\ raced \subseteq Requests /\ stacked \subseteq Reviewers

\* reconstitute never throws: whatever calls overlap, status, decision, note and
\* claim of every stored row tell one story.
RowsAgree == \A r \in Requests : Agrees(requests[r])

\* "A decided request is final" (verification-status.ts:44), although a decision is a
\* read and a save with nothing between them: true unless two calls of one reviewer, or
\* two that are no reviewer's, overlapped for the request, or a decision landed after
\* its claim had lapsed.
DecisionStands ==
    [][\A r \in Requests :
         (requests[r].status \in Terminal /\ r \notin raced') => requests'[r] = requests[r]]_vars

\* "Only the reviewer holding the active claim may do so" (VerificationRequest.approve):
\* when a reviewer's move is stored, the stored claim is that reviewer's, and live,
\* though the check was made on a copy.
DecidedByHolder ==
    [][\A r \in Requests :
         (requests'[r] # requests[r] /\ requests'[r].status \in Reviewing /\ r \notin raced') =>
            /\ IsActiveAt(requests[r], now)
            /\ requests'[r].decidedBy \in {requests[r].reviewer, NoReviewer}]_vars

\* A live claim is ended by its holder's own call and by nothing else: no other
\* reviewer's claim, decision or automated check takes the case away.
LeaseIsKept ==
    [][\A r \in Requests :
         (IsActiveAt(requests[r], now) /\ requests'[r] # requests[r] /\ r \notin raced') =>
            \E p \in Procs : /\ op[p].pc = "save" /\ op[p].request = r
                             /\ op[p].reviewer = requests[r].reviewer]_vars

\* "a reviewer must never end up holding two cases when `oneAtATime` is set"
\* (verification-request-repository.ts): true of a reviewer whose claims did not overlap.
OneCaseAtATime ==
    OneAtATime => \A v \in Reviewers \ stacked :
       \A r, s \in Requests :
          (/\ requests[r].reviewer = v /\ IsActiveAt(requests[r], now)
           /\ requests[s].reviewer = v /\ IsActiveAt(requests[s], now)) => r = s
=============================================================================
