------------------------- MODULE Verification_proof -------------------------
EXTENDS Verification, TLAPS

(***************************************************************************)
(* Why a save from a copy is safe without a lock.  While no two calls of   *)
(* one actor overlap for a request, the copy a call is about to save is    *)
(* the stored row (Fresh): a reviewer's copy shows a live claim, which     *)
(* nobody else can touch, and any other copy shows a status that only      *)
(* calls of its own kind leave.  The exception is a decision whose claim   *)
(* lapsed while it waited, and Save marks the request when one lands.      *)
(***************************************************************************)

CallOK(c) ==
    /\ c.pc = "save" => May(c.seen, c.to, c.reviewer, c.at) /\ Agrees(c.seen)
    /\ c.pc = "commit" => /\ c.seen = requests[c.request]
                          /\ IsClaimableAt(c.seen, c.at)
    /\ c.pc \in Claiming => c.reviewer \in Reviewers
    /\ (c.pc \in Moving /\ c.to \notin Reviewing) => c.reviewer = NoReviewer

Fresh(c) ==
    (c.pc = "save" /\ c.request \notin raced) =>
        \/ requests[c.request] = c.seen
        \/ c.to \in Reviewing /\ ~IsActiveAt(c.seen, now)

ClashesAreMarked ==
    \A p, q \in Procs : (p # q /\ Clash(op[p], op[q])) => op[p].request \in raced

LocksDiffer ==
    \A p, q \in Procs :
        (p # q /\ op[p].pc = "commit" /\ op[q].pc = "commit") => op[p].request # op[q].request

StacksAreMarked ==
    \A p, q \in Procs :
        (p # q /\ op[p].pc \in Claiming /\ op[q].pc \in Claiming
           /\ op[p].reviewer = op[q].reviewer) => op[p].reviewer \in stacked

\* A claim past its first check: the reviewer holds nothing.
HandsFree(c) ==
    (OneAtATime /\ c.pc \in {"select", "commit"} /\ c.reviewer \notin stacked) =>
        ~HoldsCase(c.reviewer, c.at)

\* The inductive invariant.
IInv ==
    /\ TypeOK
    /\ RowsAgree
    /\ \A p \in Procs : CallOK(op[p]) /\ Fresh(op[p]) /\ HandsFree(op[p])
    /\ ClashesAreMarked /\ LocksDiffer /\ StacksAreMarked
    /\ OneCaseAtATime

-----------------------------------------------------------------------------
\* A permitted move makes a well-formed row that agrees with itself, and one that
\* nobody has a claim on.
LEMMA MovedIsWell ==
    ASSUME NEW row \in Rows, NEW to \in Statuses, NEW v \in Reviewers \union {NoReviewer},
           NEW at \in Nat, Agrees(row), May(row, to, v, at)
    PROVE  /\ Moved(row, to, v) \in Rows
           /\ Agrees(Moved(row, to, v))
           /\ Moved(row, to, v).reviewer = NoReviewer
           /\ Moved(row, to, v).expires = 0
           /\ Moved(row, to, v).status = to
           /\ Moved(row, to, v).decidedBy \in {v, NoReviewer}
<1>1. CASE to \in Terminal
  <2>1. row.status = "in_review" /\ row.reviewer = v /\ v # NoReviewer
    BY <1>1 DEF May, CanTransitionTo, AllowedTransitions, DecisionPermitted, IsActiveAt,
                Reviewing, Terminal
  <2> QED
    BY <1>1, <2>1 DEF Moved, Decide, Unclaimed, Rows, Agrees, Terminal
<1>2. CASE to = "needs_more_info"
  <2>1. row.status = "in_review"
    BY <1>2 DEF May, CanTransitionTo, AllowedTransitions
  <2> QED
    BY <1>2, <2>1 DEF Moved, RequestMoreInformation, Unclaimed, Rows, Agrees, Terminal
<1>3. CASE to = "pending_evidence"
  <2>1. row.status = "needs_more_info"
    BY <1>3 DEF May, CanTransitionTo, AllowedTransitions
  <2> QED
    BY <1>3, <2>1 DEF Moved, ReopenForEvidence, Rows, Agrees, Terminal
<1>4. CASE to \notin Terminal \union {"needs_more_info", "pending_evidence"}
  <2>1. \/ row.status = "pending_evidence" /\ to = "submitted"
        \/ row.status = "submitted" /\ to = "in_review"
    BY <1>4 DEF May, CanTransitionTo, AllowedTransitions, Terminal
  <2>2. Moved(row, to, v) = [row EXCEPT !.status = to]
    BY <1>4, <2>1 DEF Moved, TransitionTo, Terminal
  <2> QED
    BY <2>1, <2>2 DEF Rows, Agrees, Terminal
<1> QED
  BY <1>1, <1>2, <1>3, <1>4

\* The values a process and a request start from are well formed.
LEMMA IdleIsWell == Idle \in Calls /\ Blank \in Rows /\ Agrees(Blank) /\ Opened \in Rows /\ Agrees(Opened)
BY ClaimAssumption
DEF Idle, Calls, Blank, Rows, Opened, Agrees, Statuses, Terminal, Moving, Claiming

\* A step of one process that leaves the table and the clock alone keeps the invariant
\* when the call it leaves behind satisfies its part.
LEMMA CallStep ==
    ASSUME IInv, NEW p \in Procs, NEW d \in Calls,
           op' = [op EXCEPT ![p] = d], UNCHANGED <<now, requests>>,
           calls' \in 0 .. MaxCalls, faults' \in 0 .. MaxFaults,
           raced \subseteq raced', raced' \subseteq Requests,
           stacked \subseteq stacked', stacked' \subseteq Reviewers,
           d.at <= now, d.pc \in Moving \union {"commit"} => d.request \in Requests,
           CallOK(d),
           d.pc = "save" => requests[d.request] = d.seen,
           (OneAtATime /\ d.pc \in {"select", "commit"} /\ d.reviewer \notin stacked')
              => ~HoldsCase(d.reviewer, d.at),
           \A q \in Procs \ {p} : Clash(d, op[q]) => d.request \in raced',
           \A q \in Procs \ {p} :
              (d.pc = "commit" /\ op[q].pc = "commit") => d.request # op[q].request,
           \A q \in Procs \ {p} :
              (d.pc \in Claiming /\ op[q].pc \in Claiming /\ d.reviewer = op[q].reviewer)
                 => d.reviewer \in stacked'
    PROVE  IInv'
<1>1. op \in [Procs -> Calls] /\ op'[p] = d /\ \A q \in Procs \ {p} : op'[q] = op[q]
  BY DEF IInv, TypeOK
<1>2. TypeOK'
  BY <1>1 DEF IInv, TypeOK
<1>3. RowsAgree' /\ OneCaseAtATime'
  BY DEF IInv, RowsAgree, OneCaseAtATime
<1>4. ASSUME NEW q \in Procs PROVE CallOK(op[q])'
  BY <1>1, <1>4 DEF IInv, CallOK
<1>5. ASSUME NEW q \in Procs PROVE Fresh(op[q])'
  BY <1>1, <1>5 DEF IInv, Fresh
<1>6. ASSUME NEW q \in Procs PROVE HandsFree(op[q])'
  BY <1>1, <1>6 DEF IInv, HandsFree, HoldsCase
<1>7. ClashesAreMarked'
  BY <1>1 DEF IInv, ClashesAreMarked, Clash
<1>8. LocksDiffer'
  BY <1>1 DEF IInv, LocksDiffer
<1>9. StacksAreMarked'
  BY <1>1 DEF IInv, StacksAreMarked
<1> QED
  BY <1>2, <1>3, <1>4, <1>5, <1>6, <1>7, <1>8, <1>9 DEF IInv

\* A call that ends without touching the table.
LEMMA ReturnStep ==
    ASSUME IInv, NEW p \in Procs, Return(p), UNCHANGED <<now, requests, calls, ghosts>>,
           faults' \in 0 .. MaxFaults
    PROVE  IInv'
<1>1. /\ Idle \in Calls /\ Idle.pc = "idle" /\ Idle.at <= now
      /\ Idle.pc \notin Moving \union Claiming
  BY IdleIsWell DEF Idle, IInv, TypeOK, Moving, Claiming
<1>2. CallOK(Idle)
  BY <1>1 DEF CallOK
<1>3. \A q \in Procs : ~Clash(Idle, op[q])
  BY <1>1 DEF Clash, Moving
<1>4. UNCHANGED <<raced, stacked>> /\ raced \subseteq Requests /\ stacked \subseteq Reviewers
      /\ calls' \in 0 .. MaxCalls
  BY DEF ghosts, IInv, TypeOK
<1> QED
  <2>1. Idle.pc \notin Moving \union {"commit"} /\ Idle.pc # "save"
        /\ Idle.pc \notin {"select", "commit"}
    BY <1>1
  <2>2. op' = [op EXCEPT ![p] = Idle] /\ UNCHANGED <<now, requests>>
    BY DEF Return
  <2> QED
    BY <1>1, <1>2, <1>3, <1>4, <2>1, <2>2, CallStep

\* A call that begins keeps the invariant.
LEMMA BeginStep ==
    ASSUME IInv, NEW p \in Procs, NEW d \in Calls, Begin(p, d),
           d.pc \in {"find", "holds", "select"}, d.at <= now,
           d.pc = "find" => d.request \in Requests,
           d.pc \in Claiming => d.reviewer \in Reviewers,
           d.to \notin Reviewing /\ d.pc = "find" => d.reviewer = NoReviewer,
           OneAtATime => d.pc # "select"
    PROVE  IInv'
<1>1. CallOK(d)
  BY DEF CallOK, Moving
<1>2. calls' \in 0 .. MaxCalls /\ faults' \in 0 .. MaxFaults
  BY VerificationAssumption DEF Begin, IInv, TypeOK
<1>3. raced \subseteq raced' /\ raced' \subseteq Requests /\ stacked \subseteq stacked' /\ stacked' \subseteq Reviewers
  BY DEF Begin, IInv, TypeOK
<1>4. \A q \in Procs \ {p} : Clash(d, op[q]) => d.request \in raced'
  BY DEF Begin, Clash, Moving
<1>5. \A q \in Procs \ {p} :
         (d.pc \in Claiming /\ op[q].pc \in Claiming /\ d.reviewer = op[q].reviewer)
            => d.reviewer \in stacked'
  BY DEF Begin
<1> QED
  BY <1>1, <1>2, <1>3, <1>4, <1>5, CallStep DEF Begin, Moving, Claiming

-----------------------------------------------------------------------------
LEMMA ArriveStep == ASSUME IInv, NEW p \in Procs, Arrive(p) PROVE IInv'
<1> DEFINE taken(v) == [Idle EXCEPT !.pc = IF OneAtATime THEN "holds" ELSE "select",
                                    !.reviewer = v, !.at = now]
<1>1. ASSUME NEW r \in Requests, NEW to \in Statuses, NEW v \in Reviewers \union {NoReviewer},
             to \notin Reviewing => v = NoReviewer, Begin(p, Find(r, to, v))
      PROVE  IInv'
  <2>1. /\ Find(r, to, v) \in Calls /\ Find(r, to, v).pc = "find"
        /\ Find(r, to, v).request = r /\ Find(r, to, v).at <= now
        /\ Find(r, to, v).to = to /\ Find(r, to, v).reviewer = v
    <3>1. Idle \in Calls /\ Idle.at = 0
      BY IdleIsWell DEF Idle
    <3>2. Find(r, to, v) \in Calls
      BY <3>1 DEF Find, Calls, Moving
    <3>3. /\ Find(r, to, v).pc = "find" /\ Find(r, to, v).request = r
          /\ Find(r, to, v).at = 0 /\ Find(r, to, v).to = to /\ Find(r, to, v).reviewer = v
      BY <3>1 DEF Find, Calls
    <3> QED
      BY <3>2, <3>3 DEF IInv, TypeOK
  <2> QED
    BY <1>1, <2>1, BeginStep DEF Claiming
<1>2. ASSUME NEW v \in Reviewers, ClaimNextReviewCase(p, v) PROVE IInv'
  <2>1. /\ taken(v) \in Calls /\ taken(v).pc = (IF OneAtATime THEN "holds" ELSE "select")
        /\ taken(v).reviewer = v /\ taken(v).at = now /\ now \in Nat
    BY IdleIsWell DEF Idle, Calls, IInv, TypeOK, Claiming
  <2>2. Begin(p, taken(v))
    BY <1>2 DEF ClaimNextReviewCase
  <2> HIDE DEF taken
  <2> QED
    BY <2>1, <2>2, BeginStep DEF Claiming
<1> QED
  BY <1>1, <1>2 DEF Arrive, ApproveVerification, RejectVerification, AskForMoreInformation,
                    RunAutomatedCheck, SubmitEvidence, Resubmit, Statuses,
                    Reviewing, Terminal

\* Each statement of a call keeps the invariant.
LEMMA FindStep == ASSUME IInv, NEW p \in Procs, FindAndMove(p) PROVE IInv'
<1> DEFINE c == op[p]
           d == [c EXCEPT !.pc = "save", !.at = now, !.seen = requests[c.request]]
<1>1. /\ c \in Calls /\ c.pc = "find" /\ c.request \in Requests
      /\ requests[c.request] \in Rows /\ Agrees(requests[c.request]) /\ now \in Nat
  BY DEF IInv, TypeOK, FindAndMove, RowsAgree, Moving
<1>2. /\ d \in Calls /\ d.pc = "save" /\ d.at = now /\ d.seen = requests[c.request]
      /\ d.request = c.request /\ d.reviewer = c.reviewer /\ d.to = c.to
  BY <1>1 DEF Calls, Moving
<1>3. CallOK(d)
  BY <1>1, <1>2 DEF FindAndMove, CallOK, Claiming, Moving, IInv
<1>4. \A q \in Procs \ {p} : Clash(d, op[q]) => d.request \in raced'
  BY <1>1, <1>2 DEF IInv, ClashesAreMarked, Clash, Moving, FindAndMove, ghosts
<1>5. op' = [op EXCEPT ![p] = d]
  BY <1>1 DEF FindAndMove, IInv, TypeOK, Calls
<1>6. /\ UNCHANGED <<now, requests, raced, stacked>>
      /\ calls' \in 0 .. MaxCalls /\ faults' \in 0 .. MaxFaults
      /\ raced \subseteq Requests /\ stacked \subseteq Reviewers
  BY DEF FindAndMove, ghosts, IInv, TypeOK
<1>7. /\ d.pc \notin Claiming /\ d.pc \notin {"select", "commit"} /\ d.pc # "commit"
      /\ d.at <= now /\ d.request \in Requests /\ requests[d.request] = d.seen
  BY <1>1, <1>2 DEF Claiming
<1> HIDE DEF c, d
<1> QED
  BY <1>2, <1>3, <1>4, <1>5, <1>6, <1>7, CallStep

LEMMA ClaimHoldsStep == ASSUME IInv, NEW p \in Procs, ClaimHolds(p) PROVE IInv'
<1>1. CASE HoldsCase(op[p].reviewer, op[p].at)
  BY <1>1, ReturnStep DEF ClaimHolds, Return, IInv, TypeOK
<1>2. CASE ~HoldsCase(op[p].reviewer, op[p].at)
  <2> DEFINE c == op[p]
             d == [c EXCEPT !.pc = "select"]
  <2>1. c \in Calls /\ c.pc = "holds" /\ c.at <= now
    BY DEF IInv, TypeOK, ClaimHolds
  <2>2. /\ d \in Calls /\ d.pc = "select" /\ d.at = c.at /\ d.reviewer = c.reviewer
        /\ d.reviewer \in Reviewers
    BY <2>1 DEF Calls, Claiming, IInv, CallOK
  <2>3. CallOK(d)
    BY <2>2 DEF CallOK, Moving
  <2>4. \A q \in Procs \ {p} : ~Clash(d, op[q])
    BY <2>2 DEF Clash, Moving
  <2>5. \A q \in Procs \ {p} :
           (op[q].pc \in Claiming /\ d.reviewer = op[q].reviewer) => d.reviewer \in stacked'
    BY <2>1, <2>2 DEF IInv, StacksAreMarked, Claiming, ClaimHolds, ghosts
  <2>6. op' = [op EXCEPT ![p] = d]
    BY <1>2 DEF ClaimHolds
  <2>7. /\ UNCHANGED <<now, requests, raced, stacked>>
        /\ calls' \in 0 .. MaxCalls /\ faults' \in 0 .. MaxFaults
        /\ raced \subseteq Requests /\ stacked \subseteq Reviewers
    BY DEF ClaimHolds, ghosts, IInv, TypeOK
  <2>8. ~HoldsCase(d.reviewer, d.at)
    BY <1>2, <2>2
  <2>9. d.pc \notin Moving \union {"commit"} /\ d.at <= now
    BY <2>1, <2>2 DEF Moving
  <2> HIDE DEF c, d
  <2> QED
    BY <2>2, <2>3, <2>4, <2>5, <2>6, <2>7, <2>8, <2>9, CallStep
<1> QED
  BY <1>1, <1>2

LEMMA ClaimSelectStep == ASSUME IInv, NEW p \in Procs, ClaimSelect(p) PROVE IInv'
<1>1. CASE Return(p)
  BY <1>1, ReturnStep DEF ClaimSelect, IInv, TypeOK
<1>2. CASE ~Return(p)
  <2> DEFINE c == op[p]
  <2>1. PICK r \in Candidates(c.at) :
           op' = [op EXCEPT ![p].pc = "commit", ![p].request = r, ![p].seen = requests[r]]
    BY <1>2 DEF ClaimSelect
  <2> DEFINE d == [c EXCEPT !.pc = "commit", !.request = r, !.seen = requests[r]]
  <2>2. /\ c \in Calls /\ c.pc = "select" /\ c.at <= now /\ r \in Requests
        /\ requests[r] \in Rows /\ IsClaimableAt(requests[r], c.at) /\ RowFree(r)
    BY DEF IInv, TypeOK, ClaimSelect, Candidates
  <2>3. /\ d \in Calls /\ d.pc = "commit" /\ d.at = c.at /\ d.reviewer = c.reviewer
        /\ d.request = r /\ d.seen = requests[r] /\ d.reviewer \in Reviewers
    BY <2>2 DEF Calls, Claiming, IInv, CallOK
  <2>4. CallOK(d)
    BY <2>2, <2>3 DEF CallOK, Moving
  <2>5. \A q \in Procs \ {p} : ~Clash(d, op[q])
    BY <2>3 DEF Clash, Moving
  <2>6. \A q \in Procs \ {p} :
           (op[q].pc \in Claiming /\ d.reviewer = op[q].reviewer) => d.reviewer \in stacked'
    <3>1. stacked' = stacked /\ c.pc \in Claiming
      BY <2>2 DEF ClaimSelect, ghosts, Claiming
    <3> QED
      BY <2>3, <3>1 DEF IInv, StacksAreMarked
  <2>7. \A q \in Procs \ {p} : op[q].pc = "commit" => d.request # op[q].request
    BY <2>2, <2>3 DEF RowFree
  <2>8. op' = [op EXCEPT ![p] = d]
    BY <2>1, <2>2 DEF IInv, TypeOK, Calls
  <2>9. /\ UNCHANGED <<now, requests, raced, stacked>>
        /\ calls' \in 0 .. MaxCalls /\ faults' \in 0 .. MaxFaults
        /\ raced \subseteq Requests /\ stacked \subseteq Reviewers
    BY DEF ClaimSelect, ghosts, IInv, TypeOK
  <2>10. (OneAtATime /\ d.reviewer \notin stacked') => ~HoldsCase(d.reviewer, d.at)
    BY <2>2, <2>3, <2>9 DEF IInv, HandsFree
  <2>11. d.pc # "save" /\ d.at <= now /\ d.request \in Requests
    BY <2>2, <2>3
  <2> HIDE DEF c, d
  <2> QED
    BY <2>3, <2>4, <2>5, <2>6, <2>7, <2>8, <2>9, <2>10, <2>11, CallStep
<1> QED
  BY <1>1, <1>2

\* What a call about to save knows of its move.
LEMMA MoveFacts ==
    ASSUME NEW c, NEW row, May(row, c.to, c.reviewer, c.at)
    PROVE  /\ row.status = "in_review" <=> c.to \in Reviewing
           /\ c.to \in Reviewing => c.reviewer = row.reviewer
BY DEF May, CanTransitionTo, AllowedTransitions, Reviewing, Terminal, DecisionPermitted

LEMMA SaveStep == ASSUME IInv, NEW p \in Procs, Save(p) PROVE IInv'
<1> DEFINE c == op[p]
           r == c.request
           m == Moved(c.seen, c.to, c.reviewer)
<1>1. /\ c \in Calls /\ c.pc = "save" /\ r \in Requests /\ c.seen \in Rows /\ c.at \in Nat
      /\ c.to \in Statuses /\ c.reviewer \in Reviewers \union {NoReviewer}
      /\ Agrees(c.seen) /\ May(c.seen, c.to, c.reviewer, c.at) /\ now \in Nat
  BY DEF IInv, TypeOK, Save, CallOK, Calls, Moving
<1>2. m \in Rows /\ Agrees(m) /\ m.reviewer = NoReviewer /\ m.expires = 0
  BY <1>1, MovedIsWell
<1>3. /\ requests' = [requests EXCEPT ![r] = m] /\ requests \in [Requests -> Rows]
      /\ now' = now /\ calls' = calls /\ faults' = faults /\ stacked' = stacked
      /\ raced' = raced \union {s \in Requests : s = r /\ c.to \in Reviewing
                                                  /\ ~IsActiveAt(c.seen, now)}
  BY DEF Save, IInv, TypeOK
<1>4. op'[p] = Idle /\ Idle.pc = "idle" /\ Idle \in Calls /\ Idle.at = 0
      /\ \A q \in Procs \ {p} : op'[q] = op[q]
  BY IdleIsWell DEF Save, Return, IInv, TypeOK, Idle
<1>5. op' \in [Procs -> Calls]
  BY IdleIsWell DEF Save, Return, IInv, TypeOK
<1> HIDE DEF m
<1>6. TypeOK'
  <2>1. requests' \in [Requests -> Rows] /\ raced' \subseteq Requests
    BY <1>1, <1>2, <1>3 DEF IInv, TypeOK
  <2>2. \A s \in Requests : requests'[s].expires <= now' + ClaimTtl
    BY <1>1, <1>2, <1>3, ClaimAssumption DEF IInv, TypeOK
  <2>3. \A q \in Procs :
           /\ op'[q].at <= now'
           /\ op'[q].pc \in Moving \union {"commit"} => op'[q].request \in Requests
    BY <1>1, <1>3, <1>4 DEF IInv, TypeOK, Moving
  <2>4. /\ now' \in Nat /\ calls' \in 0 .. MaxCalls /\ faults' \in 0 .. MaxFaults
        /\ stacked' \subseteq Reviewers
    BY <1>3 DEF IInv, TypeOK
  <2> QED
    BY <1>5, <2>1, <2>2, <2>3, <2>4 DEF TypeOK
<1>7. RowsAgree'
  BY <1>1, <1>2, <1>3 DEF IInv, RowsAgree
<1>8. ASSUME NEW q \in Procs PROVE CallOK(op[q])'
  <2>1. CASE q = p
    BY <1>4, <2>1 DEF CallOK, Moving, Claiming
  <2>2. CASE q # p
    <3>1. op[q].pc = "commit" => op[q].request # r
      BY <1>1 DEF Save, RowFree
    <3>2. op[q].pc = "commit" => op[q].request \in Requests
      BY DEF IInv, TypeOK
    <3>3. op[q].pc = "commit" => requests'[op[q].request] = requests[op[q].request]
      BY <1>1, <1>3, <3>1, <3>2
    <3> QED
      BY <1>4, <2>2, <3>3 DEF IInv, CallOK
  <2> QED
    BY <2>1, <2>2
<1>9. ASSUME NEW q \in Procs PROVE Fresh(op[q])'
  <2>1. CASE q = p
    BY <1>4, <2>1 DEF Fresh
  <2>2. CASE q # p
    <3> DEFINE d == op[q]
    <3>1. SUFFICES ASSUME d.pc = "save", d.request \notin raced'
                   PROVE  requests'[d.request] = d.seen \/ (d.to \in Reviewing /\ ~IsActiveAt(d.seen, now))
      BY <1>3, <1>4, <2>2 DEF Fresh
    <3>2. /\ d.request \in Requests /\ d.request \notin raced /\ May(d.seen, d.to, d.reviewer, d.at)
          /\ requests[d.request] = d.seen \/ (d.to \in Reviewing /\ ~IsActiveAt(d.seen, now))
      <4>1. d.request \in Requests /\ d.request \notin raced
        BY <1>3, <3>1 DEF IInv, TypeOK, Moving
      <4>2. CallOK(d) /\ Fresh(d)
        BY DEF IInv
      <4> QED
        BY <3>1, <4>1, <4>2 DEF Fresh, CallOK
    <3>3. CASE d.request # r
      BY <1>1, <1>3, <3>2, <3>3
    <3>4. CASE d.request = r /\ requests[r] = d.seen
      <4>1. requests[r] = c.seen
        BY <1>1, <1>3, <3>2, <3>4, <3>1 DEF IInv, Fresh
      <4>2. (c.to \in Reviewing <=> d.to \in Reviewing) /\ (c.to \in Reviewing => c.reviewer = d.reviewer)
        BY <1>1, <3>2, <3>4, <4>1, MoveFacts
      <4>3. c.to \notin Reviewing => c.reviewer = d.reviewer
        BY <1>1, <3>1, <4>2 DEF IInv, CallOK, Moving
      <4>4. Clash(c, d)
        BY <1>1, <3>1, <3>4, <4>2, <4>3 DEF Clash, Moving
      <4> QED
        BY <2>2, <3>2, <3>4, <4>4 DEF IInv, ClashesAreMarked
    <3> QED
      BY <3>2, <3>3, <3>4
  <2> QED
    BY <2>1, <2>2
<1>10. \A v \in Reviewers, at \in Nat : HoldsCase(v, at)' => HoldsCase(v, at)
  BY <1>1, <1>2, <1>3, ClaimAssumption DEF HoldsCase
<1>11. ASSUME NEW q \in Procs PROVE HandsFree(op[q])'
  <2>1. CASE q = p
    BY <1>4, <2>1 DEF HandsFree
  <2>2. CASE q # p
    <3>1. op[q].at \in Nat /\ (op[q].pc \in {"select", "commit"} => op[q].reviewer \in Reviewers)
      BY DEF IInv, TypeOK, CallOK, Calls, Claiming
    <3> QED
      BY <1>3, <1>4, <1>10, <2>2, <3>1 DEF IInv, HandsFree, HoldsCase
  <2> QED
    BY <2>1, <2>2
<1>12. ClashesAreMarked' /\ LocksDiffer' /\ StacksAreMarked'
  BY <1>3, <1>4 DEF IInv, ClashesAreMarked, LocksDiffer, StacksAreMarked, Clash, Moving, Claiming
<1>13. OneCaseAtATime'
  BY <1>1, <1>2, <1>3, ClaimAssumption DEF IInv, OneCaseAtATime, IsActiveAt
<1> QED
  BY <1>6, <1>7, <1>8, <1>9, <1>11, <1>12, <1>13 DEF IInv

LEMMA ClaimCommitStep == ASSUME IInv, NEW p \in Procs, ClaimCommit(p) PROVE IInv'
<1> DEFINE c == op[p]
           r == c.request
           m == Claimed(requests[r], c.reviewer, c.at)
<1>1. /\ c \in Calls /\ c.pc = "commit" /\ r \in Requests /\ requests[r] = c.seen
      /\ c.seen \in Rows /\ Agrees(c.seen) /\ IsClaimableAt(c.seen, c.at)
      /\ c.reviewer \in Reviewers /\ c.at \in Nat /\ now \in Nat /\ c.at <= now
  BY DEF IInv, TypeOK, ClaimCommit, CallOK, Calls, RowsAgree, Claiming
<1>2. /\ m \in Rows /\ Agrees(m) /\ m.reviewer = c.reviewer /\ m.expires = c.at + ClaimTtl
  <2>1. m = [c.seen EXCEPT !.reviewer = c.reviewer, !.expires = c.at + ClaimTtl]
    BY <1>1 DEF Claimed
  <2>2. c.at + ClaimTtl \in Nat /\ c.reviewer # NoReviewer /\ c.seen.status = "in_review"
    BY <1>1, ClaimAssumption DEF IsClaimableAt
  <2>3. m \in Rows /\ m.reviewer = c.reviewer /\ m.expires = c.at + ClaimTtl
    BY <1>1, <2>1, <2>2 DEF Rows
  <2>4. Agrees(m)
    BY <1>1, <2>1, <2>2 DEF Rows, Agrees, Terminal
  <2> QED
    BY <2>3, <2>4
<1>3. /\ requests' = [requests EXCEPT ![r] = m] /\ requests \in [Requests -> Rows]
      /\ now' = now /\ calls' = calls /\ faults' = faults /\ stacked' = stacked /\ raced' = raced
  BY DEF ClaimCommit, IInv, TypeOK, ghosts
<1>4. op'[p] = Idle /\ Idle.pc = "idle" /\ Idle \in Calls /\ Idle.at = 0
      /\ \A q \in Procs \ {p} : op'[q] = op[q]
  BY IdleIsWell DEF ClaimCommit, Return, IInv, TypeOK, Idle
<1>5. op' \in [Procs -> Calls]
  BY IdleIsWell DEF ClaimCommit, Return, IInv, TypeOK
<1> HIDE DEF m
<1>6. TypeOK'
  <2>1. requests' \in [Requests -> Rows] /\ raced' \subseteq Requests
    BY <1>1, <1>2, <1>3 DEF IInv, TypeOK
  <2>2. \A s \in Requests : requests'[s].expires <= now' + ClaimTtl
    BY <1>1, <1>2, <1>3, ClaimAssumption DEF IInv, TypeOK
  <2>3. \A q \in Procs :
           /\ op'[q].at <= now'
           /\ op'[q].pc \in Moving \union {"commit"} => op'[q].request \in Requests
    BY <1>1, <1>3, <1>4 DEF IInv, TypeOK, Moving
  <2>4. /\ now' \in Nat /\ calls' \in 0 .. MaxCalls /\ faults' \in 0 .. MaxFaults
        /\ stacked' \subseteq Reviewers
    BY <1>3 DEF IInv, TypeOK
  <2> QED
    BY <1>5, <2>1, <2>2, <2>3, <2>4 DEF TypeOK
<1>7. RowsAgree'
  BY <1>1, <1>2, <1>3 DEF IInv, RowsAgree
<1>8. ASSUME NEW q \in Procs PROVE CallOK(op[q])'
  <2>1. CASE q = p
    BY <1>4, <2>1 DEF CallOK, Moving, Claiming
  <2>2. CASE q # p
    <3>1. op[q].pc = "commit" => op[q].request # r /\ op[q].request \in Requests
      BY <1>1, <2>2 DEF IInv, LocksDiffer, TypeOK
    <3>2. op[q].pc = "commit" => requests'[op[q].request] = requests[op[q].request]
      BY <1>1, <1>3, <3>1
    <3> QED
      BY <1>4, <2>2, <3>2 DEF IInv, CallOK
  <2> QED
    BY <2>1, <2>2
<1>9. ASSUME NEW q \in Procs PROVE Fresh(op[q])'
  <2>1. CASE q = p
    BY <1>4, <2>1 DEF Fresh
  <2>2. CASE q # p
    <3> DEFINE d == op[q]
    <3>1. SUFFICES ASSUME d.pc = "save", d.request \notin raced
                   PROVE  requests'[d.request] = d.seen \/ (d.to \in Reviewing /\ ~IsActiveAt(d.seen, now))
      BY <1>3, <1>4, <2>2 DEF Fresh
    <3>2. /\ d.request \in Requests /\ May(d.seen, d.to, d.reviewer, d.at)
          /\ requests[d.request] = d.seen \/ (d.to \in Reviewing /\ ~IsActiveAt(d.seen, now))
      <4>1. d.request \in Requests
        BY <3>1 DEF IInv, TypeOK, Moving
      <4>2. CallOK(d) /\ Fresh(d)
        BY DEF IInv
      <4> QED
        BY <3>1, <4>1, <4>2 DEF Fresh, CallOK
    <3>3. CASE d.request # r
      BY <1>1, <1>3, <3>2, <3>3
    <3>4. CASE d.request = r /\ requests[r] = d.seen
      <4>1. d.to \in Reviewing
        BY <1>1, <3>2, <3>4, MoveFacts DEF IsClaimableAt
      <4>2. ~IsActiveAt(d.seen, now)
        BY <1>1, <3>4 DEF IsClaimableAt, IsActiveAt, Rows
      <4> QED
        BY <4>1, <4>2
    <3> QED
      BY <3>2, <3>3, <3>4
  <2> QED
    BY <2>1, <2>2
<1>10. ASSUME NEW q \in Procs PROVE HandsFree(op[q])'
  <2>1. CASE q = p
    BY <1>4, <2>1 DEF HandsFree
  <2>2. CASE q # p
    <3>1. (op[q].pc \in {"select", "commit"} /\ op[q].reviewer \notin stacked)
             => op[q].reviewer # c.reviewer
      BY <1>1, <2>2 DEF IInv, StacksAreMarked, Claiming
    <3>2. \A v \in Reviewers, at \in Nat :
             v # c.reviewer /\ HoldsCase(v, at)' => HoldsCase(v, at)
      BY <1>1, <1>2, <1>3 DEF HoldsCase
    <3>3. op[q].at \in Nat /\ (op[q].pc \in {"select", "commit"} => op[q].reviewer \in Reviewers)
      BY DEF IInv, TypeOK, CallOK, Calls, Claiming
    <3> QED
      BY <1>3, <1>4, <2>2, <3>1, <3>2, <3>3 DEF IInv, HandsFree, HoldsCase
  <2> QED
    BY <2>1, <2>2
<1>11. ClashesAreMarked' /\ LocksDiffer' /\ StacksAreMarked'
  BY <1>3, <1>4 DEF IInv, ClashesAreMarked, LocksDiffer, StacksAreMarked, Clash, Moving, Claiming
<1>12. OneCaseAtATime'
  <2>1. SUFFICES ASSUME OneAtATime, NEW v \in Reviewers \ stacked, NEW s \in Requests, NEW t \in Requests,
                        requests'[s].reviewer = v, now < requests'[s].expires,
                        requests'[t].reviewer = v, now < requests'[t].expires
                 PROVE  s = t
    BY <1>3 DEF OneCaseAtATime, IsActiveAt
  <2>2. CASE v # c.reviewer
    <3>1. s # r /\ t # r
      BY <1>1, <1>2, <1>3, <2>1, <2>2
    <3>2. requests'[s] = requests[s] /\ requests'[t] = requests[t]
      BY <1>3, <3>1
    <3> QED
      BY <2>1, <3>2, ClaimAssumption DEF IInv, OneCaseAtATime, IsActiveAt
  <2>3. CASE v = c.reviewer
    <3>1. ~HoldsCase(v, c.at)
      BY <1>1, <2>1, <2>3 DEF IInv, HandsFree
    <3>2. \A u \in Requests : u # r => ~(requests'[u].reviewer = v /\ now < requests'[u].expires)
      <4> SUFFICES ASSUME NEW u \in Requests, u # r, requests[u].reviewer = v, now < requests[u].expires
                   PROVE  FALSE
        BY <1>3
      <4>1. requests[u].expires \in Nat
        BY <1>3 DEF Rows
      <4>2. c.at < requests[u].expires
        BY <1>1, <4>1
      <4> QED
        BY <3>1, <4>2 DEF HoldsCase
    <3> QED
      BY <2>1, <3>2
  <2> QED
    BY <2>2, <2>3
<1> QED
  BY <1>6, <1>7, <1>8, <1>9, <1>10, <1>11, <1>12 DEF IInv

LEMMA OpenStep == ASSUME IInv, NEW r \in Requests, OpenRequest(r) PROVE IInv'
<1>1. /\ requests[r] = Blank /\ requests' = [requests EXCEPT ![r] = Opened]
      /\ requests \in [Requests -> Rows] /\ now \in Nat
      /\ UNCHANGED <<now, op, calls, faults, raced, stacked>>
  BY DEF OpenRequest, ghosts, IInv, TypeOK
<1>2. /\ Opened \in Rows /\ Agrees(Opened)
      /\ Opened.reviewer = NoReviewer /\ Opened.expires = 0 /\ Blank.status = "none"
  BY IdleIsWell DEF Opened, Blank
<1>3. TypeOK'
  BY <1>1, <1>2, ClaimAssumption DEF IInv, TypeOK
<1>4. RowsAgree'
  BY <1>1, <1>2 DEF IInv, RowsAgree
<1>5. ASSUME NEW q \in Procs PROVE CallOK(op[q])' /\ Fresh(op[q])'
  <2> DEFINE d == op[q]
  <2>1. CallOK(d) /\ Fresh(d) /\ (d.pc \in Moving \union {"commit"} => d.request \in Requests)
    BY DEF IInv, TypeOK
  <2>2. d.pc = "commit" => d.request # r
    BY <1>1, <1>2, <2>1 DEF CallOK, IsClaimableAt
  <2>3. d.pc = "save" => d.seen # Blank
    BY <1>2, <2>1 DEF CallOK, May, CanTransitionTo, AllowedTransitions
  <2>4. CallOK(d)'
    BY <1>1, <2>1, <2>2 DEF CallOK
  <2>5. Fresh(d)'
    BY <1>1, <2>1, <2>3 DEF Fresh, Moving
  <2> QED
    BY <2>4, <2>5
<1>6. ASSUME NEW q \in Procs PROVE HandsFree(op[q])'
  <2>1. op[q].pc \in {"select", "commit"} => op[q].reviewer \in Reviewers
    BY DEF IInv, CallOK, Claiming
  <2>2. \A v \in Reviewers : \A at : HoldsCase(v, at)' => HoldsCase(v, at)
    BY <1>1, <1>2, ClaimAssumption DEF HoldsCase
  <2> QED
    BY <1>1, <2>1, <2>2 DEF IInv, HandsFree, HoldsCase
<1>7. ClashesAreMarked' /\ LocksDiffer' /\ StacksAreMarked'
  BY <1>1 DEF IInv, ClashesAreMarked, LocksDiffer, StacksAreMarked, Clash
<1>8. OneCaseAtATime'
  BY <1>1, <1>2, ClaimAssumption DEF IInv, OneCaseAtATime, IsActiveAt
<1> QED
  BY <1>3, <1>4, <1>5, <1>6, <1>7, <1>8 DEF IInv

LEMMA TickStep == ASSUME IInv, Tick PROVE IInv'
<1>1. /\ now \in Nat /\ now' = now + 1 /\ op \in [Procs -> Calls] /\ requests \in [Requests -> Rows]
      /\ UNCHANGED <<requests, op, calls, faults, raced, stacked>>
  BY DEF Tick, ghosts, IInv, TypeOK
<1>2. /\ \A r \in Requests : requests[r].expires \in Nat
      /\ \A p \in Procs : op[p].at \in Nat /\ op[p].seen.expires \in Nat
  BY <1>1 DEF Rows, Calls
<1>3. TypeOK'
  BY <1>1, <1>2, ClaimAssumption DEF IInv, TypeOK
<1>4. RowsAgree' /\ ClashesAreMarked' /\ LocksDiffer' /\ StacksAreMarked'
  BY <1>1 DEF IInv, RowsAgree, ClashesAreMarked, LocksDiffer, StacksAreMarked, Clash
<1>5. ASSUME NEW q \in Procs PROVE CallOK(op[q])' /\ HandsFree(op[q])'
  BY <1>1 DEF IInv, CallOK, HandsFree, HoldsCase
<1>6. ASSUME NEW q \in Procs PROVE Fresh(op[q])'
  BY <1>1, <1>2 DEF IInv, Fresh, IsActiveAt
<1>7. OneCaseAtATime'
  BY <1>1, <1>2 DEF IInv, OneCaseAtATime, IsActiveAt
<1> QED
  BY <1>3, <1>4, <1>5, <1>6, <1>7 DEF IInv

\* The invariant holds initially.
LEMMA Initially == Init => IInv
<1> SUFFICES ASSUME Init PROVE IInv
  OBVIOUS
<1>1. \A s \in {"submitted", "in_review"} :
         /\ TransitionTo(Opened, s) \in Rows /\ Agrees(TransitionTo(Opened, s))
         /\ TransitionTo(Opened, s).reviewer = NoReviewer /\ TransitionTo(Opened, s).expires = 0
  BY ClaimAssumption DEF TransitionTo, Opened, Blank, Rows, Agrees, Statuses, Terminal
<1>2. /\ Blank.reviewer = NoReviewer /\ Opened.reviewer = NoReviewer
      /\ Blank.expires = 0 /\ Opened.expires = 0
  BY DEF Blank, Opened
<1>3. /\ requests \in [Requests -> Rows]
      /\ \A r \in Requests : /\ Agrees(requests[r]) /\ requests[r].reviewer = NoReviewer
                              /\ requests[r].expires = 0
  BY <1>1, <1>2, IdleIsWell DEF Init
<1>4. /\ now = 1 /\ op = [p \in Procs |-> Idle] /\ calls = 0 /\ faults = 0
      /\ raced = {} /\ stacked = {} /\ Idle \in Calls /\ Idle.pc = "idle" /\ Idle.at = 0
  BY IdleIsWell DEF Init, Idle
<1>5. TypeOK
  BY <1>3, <1>4, ClaimAssumption, VerificationAssumption DEF TypeOK, Moving
<1>6. RowsAgree /\ OneCaseAtATime
  BY <1>3, ClaimAssumption DEF RowsAgree, OneCaseAtATime
<1>7. \A p \in Procs : CallOK(op[p]) /\ Fresh(op[p]) /\ HandsFree(op[p])
  BY <1>4 DEF CallOK, Fresh, HandsFree, Moving, Claiming
<1>8. ClashesAreMarked /\ LocksDiffer /\ StacksAreMarked
  BY <1>4 DEF ClashesAreMarked, LocksDiffer, StacksAreMarked, Clash, Moving, Claiming
<1> QED
  BY <1>5, <1>6, <1>7, <1>8 DEF IInv

\* The invariant is inductive.
LEMMA Inductive == IInv /\ [Next]_vars => IInv'
<1> SUFFICES ASSUME IInv, [Next]_vars PROVE IInv'
  OBVIOUS
<1>1. CASE Tick
  BY <1>1, TickStep
<1>2. ASSUME NEW r \in Requests, OpenRequest(r) PROVE IInv'
  BY <1>2, OpenStep
<1>3. ASSUME NEW p \in Procs, Arrive(p) PROVE IInv'
  BY <1>3, ArriveStep
<1>4. ASSUME NEW p \in Procs, Continue(p) PROVE IInv'
  <2>1. CASE FindAndMove(p)
    BY <2>1, FindStep
  <2>2. CASE Refuse(p)
    BY <2>2, ReturnStep DEF Refuse, IInv, TypeOK
  <2>3. CASE Save(p)
    BY <2>3, SaveStep
  <2>4. CASE ClaimHolds(p)
    BY <2>4, ClaimHoldsStep
  <2>5. CASE ClaimSelect(p)
    BY <2>5, ClaimSelectStep
  <2>6. CASE ClaimCommit(p)
    BY <2>6, ClaimCommitStep
  <2> QED
    BY <1>4, <2>1, <2>2, <2>3, <2>4, <2>5, <2>6 DEF Continue
<1>5. ASSUME NEW p \in Procs, Fails(p) PROVE IInv'
  <2>1. faults' \in 0 .. MaxFaults
    BY <1>5, VerificationAssumption DEF Fails, IInv, TypeOK
  <2> QED
    BY <1>5, <2>1, ReturnStep DEF Fails
<1>6. CASE UNCHANGED vars
  <2>1. UNCHANGED <<now, requests, op, calls, faults, raced, stacked>>
    BY <1>6 DEF vars, ghosts
  <2> QED
    BY <2>1 DEF IInv, TypeOK, RowsAgree, CallOK, Fresh, HandsFree, HoldsCase, ClashesAreMarked,
                Clash, LocksDiffer, StacksAreMarked, OneCaseAtATime
<1> QED
  BY <1>1, <1>2, <1>3, <1>4, <1>5, <1>6 DEF Next

\* The invariant holds in every reachable state.
LEMMA Always == Spec => []IInv
BY Initially, Inductive, PTL DEF Spec

-----------------------------------------------------------------------------
\* Rows, calls and clock are well formed, and no claim outlives its lease, in every
\* reachable state (claimNextInReview, save).
THEOREM TypeCorrect == Spec => []TypeOK
<1>1. IInv => TypeOK
  BY DEF IInv
<1> QED
  BY <1>1, Always, PTL

\* reconstitute never throws: no interleaving of saves and claims stores a row that
\* disagrees with itself.
THEOREM RowsAlwaysAgree == Spec => []RowsAgree
<1>1. IInv => RowsAgree
  BY DEF IInv
<1> QED
  BY <1>1, Always, PTL

\* A reviewer whose calls of ClaimNextReviewCase did not overlap holds at most one case.
THEOREM OneCasePerReviewer == Spec => []OneCaseAtATime
<1>1. IInv => OneCaseAtATime
  BY DEF IInv
<1> QED
  BY <1>1, Always, PTL

-----------------------------------------------------------------------------
(***************************************************************************)
(* What can change a stored row nobody raced for: a save of a move the     *)
(* stored row itself permits, a claim of a free case, or a new request.    *)
(***************************************************************************)
Landed(r) ==
    \E p \in Procs :
        /\ op[p].pc = "save" /\ op[p].request = r
        /\ May(requests[r], op[p].to, op[p].reviewer, op[p].at)
        /\ op[p].to \in Reviewing => IsActiveAt(requests[r], now)
        /\ requests'[r].status = op[p].to
        /\ requests'[r].decidedBy \in {op[p].reviewer, NoReviewer}

Taken(r)  == IsClaimableAt(requests[r], now) /\ requests'[r].status = "in_review"
Begun(r)  == requests[r] = Blank /\ requests'[r] = Opened

\* A save that changes a row not raced for is a move the stored row permits.
LEMMA SaveLands ==
    ASSUME IInv, NEW p \in Procs, Save(p), NEW r \in Requests,
           requests'[r] # requests[r], r \notin raced'
    PROVE  Landed(r)
<1> DEFINE c == op[p]
           m == Moved(c.seen, c.to, c.reviewer)
<1>1. /\ c.pc = "save" /\ c.seen \in Rows /\ c.at \in Nat /\ c.request \in Requests
      /\ c.to \in Statuses /\ c.reviewer \in Reviewers \union {NoReviewer}
      /\ Agrees(c.seen) /\ May(c.seen, c.to, c.reviewer, c.at)
  BY DEF IInv, TypeOK, Save, CallOK, Calls, Moving
<1>2. m.status = c.to /\ m.decidedBy \in {c.reviewer, NoReviewer}
  BY <1>1, MovedIsWell
<1>3. /\ requests' = [requests EXCEPT ![c.request] = m] /\ requests \in [Requests -> Rows]
      /\ raced' = raced \union {s \in Requests : s = c.request /\ c.to \in Reviewing
                                                  /\ ~IsActiveAt(c.seen, now)}
  BY DEF Save, IInv, TypeOK
<1> HIDE DEF m
<1>4. c.request = r /\ requests'[r] = m
  BY <1>1, <1>3
<1>5. r \notin raced /\ (c.to \in Reviewing => IsActiveAt(c.seen, now))
  BY <1>3, <1>4
<1>6. requests[r] = c.seen
  BY <1>1, <1>4, <1>5 DEF IInv, Fresh
<1> QED
  BY <1>1, <1>2, <1>4, <1>5, <1>6 DEF Landed

\* A claim that commits takes rows that were claimable.
LEMMA CommitTakes ==
    ASSUME IInv, NEW p \in Procs, ClaimCommit(p), NEW r \in Requests, requests'[r] # requests[r]
    PROVE  Taken(r)
<1> DEFINE c == op[p]
<1>1. /\ c.pc = "commit" /\ c.request \in Requests /\ c.at \in Nat /\ now \in Nat /\ c.at <= now
      /\ IsClaimableAt(requests[c.request], c.at) /\ requests \in [Requests -> Rows]
      /\ requests' = [requests EXCEPT ![c.request] = Claimed(@, c.reviewer, c.at)]
  BY DEF IInv, TypeOK, ClaimCommit, CallOK, Calls
<1>2. c.request = r /\ requests'[r] = Claimed(requests[r], c.reviewer, c.at)
  BY <1>1
<1>3. requests[r] \in Rows /\ requests[r].expires \in Nat
  BY <1>1 DEF Rows
<1>4. requests'[r].status = requests[r].status
  BY <1>2, <1>3 DEF Claimed, Rows
<1> QED
  BY <1>1, <1>2, <1>3, <1>4 DEF Taken, IsClaimableAt, IsActiveAt

\* A row not raced for changes by a permitted save, by a claim of a claimable row, or by being opened.
LEMMA WhatChangesARow ==
    ASSUME IInv, [Next]_vars, NEW r \in Requests, requests'[r] # requests[r], r \notin raced'
    PROVE  Landed(r) \/ Taken(r) \/ Begun(r)
<1>1. ASSUME NEW p \in Procs, Save(p) PROVE Landed(r)
  BY <1>1, SaveLands
<1>2. ASSUME NEW p \in Procs, ClaimCommit(p) PROVE Taken(r)
  BY <1>2, CommitTakes
<1>3. ASSUME NEW s \in Requests, OpenRequest(s) PROVE Begun(r)
  BY <1>3 DEF OpenRequest, Begun, IInv, TypeOK
<1>4. requests' # requests
  OBVIOUS
<1>5. Next
  BY <1>4 DEF vars
<1>6. ASSUME NEW p \in Procs, Continue(p) PROVE Save(p) \/ ClaimCommit(p)
  BY <1>4, <1>6 DEF Continue, FindAndMove, Refuse, ClaimHolds, ClaimSelect
<1>7. ASSUME NEW p \in Procs PROVE ~Arrive(p) /\ ~Fails(p)
  BY <1>4, <1>7 DEF Arrive, Begin, Fails, ApproveVerification, RejectVerification,
                    AskForMoreInformation, RunAutomatedCheck, SubmitEvidence, Resubmit,
                    ClaimNextReviewCase
<1>8. ~Tick
  BY <1>4 DEF Tick
<1> QED
  BY <1>1, <1>2, <1>3, <1>5, <1>6, <1>7, <1>8 DEF Next

\* A decision that was stored is not replaced (approve, reject, requestMoreInformation,
\* automated checks and claims), unless its request was raced for.
THEOREM DecisionsStand == Spec => DecisionStands
<1>1. ASSUME IInv, [Next]_vars, NEW r \in Requests, requests[r].status \in Terminal,
             r \notin raced', requests'[r] # requests[r]
      PROVE  FALSE
  <2>1. ~Landed(r)
    BY <1>1 DEF Landed, May, CanTransitionTo, AllowedTransitions, Terminal
  <2>2. ~Taken(r) /\ ~Begun(r)
    BY <1>1 DEF Taken, Begun, IsClaimableAt, Blank, Terminal
  <2> QED
    BY <1>1, <2>1, <2>2, WhatChangesARow
<1>2. IInv /\ [Next]_vars =>
        [\A r \in Requests :
           (requests[r].status \in Terminal /\ r \notin raced') => requests'[r] = requests[r]]_vars
  BY <1>1
<1> QED
  BY <1>2, Always, PTL DEF Spec, DecisionStands

\* What a reviewer decides is stored only over that reviewer's own live claim, although
\* permission was checked on a copy, unless the request was raced for.
THEOREM HolderDecides == Spec => DecidedByHolder
<1>1. ASSUME IInv, [Next]_vars, NEW r \in Requests, requests'[r] # requests[r],
             requests'[r].status \in Reviewing, r \notin raced'
      PROVE  /\ IsActiveAt(requests[r], now)
             /\ requests'[r].decidedBy \in {requests[r].reviewer, NoReviewer}
  <2>1. ~Taken(r) /\ ~Begun(r)
    BY <1>1 DEF Taken, Begun, Opened, Blank, Reviewing, Terminal
  <2>2. Landed(r)
    BY <1>1, <2>1, WhatChangesARow
  <2> QED
    BY <1>1, <2>2 DEF Landed, May, DecisionPermitted
<1>2. IInv /\ [Next]_vars =>
        [\A r \in Requests :
           (requests'[r] # requests[r] /\ requests'[r].status \in Reviewing /\ r \notin raced') =>
              /\ IsActiveAt(requests[r], now)
              /\ requests'[r].decidedBy \in {requests[r].reviewer, NoReviewer}]_vars
  BY <1>1
<1> QED
  BY <1>2, Always, PTL DEF Spec, DecidedByHolder

\* A live claim ends by a save of its holder's own call and by nothing else
\* (claimNextInReview, automated checks, other reviewers), unless it was raced for.
THEOREM LeasesAreKept == Spec => LeaseIsKept
<1>1. ASSUME IInv, [Next]_vars, NEW r \in Requests, IsActiveAt(requests[r], now),
             requests'[r] # requests[r], r \notin raced'
      PROVE  \E p \in Procs : /\ op[p].pc = "save" /\ op[p].request = r
                              /\ op[p].reviewer = requests[r].reviewer
  <2>1. ~Taken(r) /\ ~Begun(r)
    BY <1>1 DEF Taken, Begun, Blank, IsClaimableAt, IsActiveAt
  <2>2. Agrees(requests[r]) /\ requests[r].status = "in_review"
    BY <1>1 DEF IInv, RowsAgree, Agrees, IsActiveAt
  <2>3. \A to \in Statuses : \A v, at : May(requests[r], to, v, at) => requests[r].reviewer = v
    BY <2>2 DEF May, CanTransitionTo, AllowedTransitions, DecisionPermitted, Reviewing, Terminal
  <2>4. \A p \in Procs : op[p].to \in Statuses
    BY <1>1 DEF IInv, TypeOK, Calls
  <2>5. Landed(r)
    BY <1>1, <2>1, WhatChangesARow
  <2> QED
    BY <2>3, <2>4, <2>5 DEF Landed
<1>2. IInv /\ [Next]_vars =>
        [\A r \in Requests :
           (IsActiveAt(requests[r], now) /\ requests'[r] # requests[r] /\ r \notin raced') =>
              \E p \in Procs : /\ op[p].pc = "save" /\ op[p].request = r
                               /\ op[p].reviewer = requests[r].reviewer]_vars
  BY <1>1
<1> QED
  BY <1>2, Always, PTL DEF Spec, LeaseIsKept
=============================================================================
