-------------------------- MODULE Credentials_proof --------------------------
(***************************************************************************)
(* Three invariants.  First the links of password reset and address        *)
(* verification, for any users, passwords, processes, lifetimes, calls and *)
(* faults: LinksAreSingle.  The rows follow further down, and the two      *)
(* lockouts after them.                                                    *)
(*                                                                         *)
(* A link that is used or retired never becomes unused again, so a call    *)
(* that began after that stays before the check in ConfirmPasswordReset    *)
(* that refuses it.  At most one link of a purpose is unused because the   *)
(* call that issues one has retired the rest and holds all that was unused *)
(* while it did; what keeps that list complete is that no other call of    *)
(* the user runs beside it.                                                *)
(***************************************************************************)
EXTENDS Credentials, FiniteSetTheorems, NaturalsInduction, WellFoundedInduction, TLAPS

CallShape(c) == {"pc", "user", "alone", "seen", "link", "late", "retire"} \subseteq DOMAIN c

\* Calls, links and the count of overlaps are what they look like.
Shapes ==
    /\ op = [p \in Procs |-> op[p]]
    /\ \A p \in Procs : CallShape(op[p])
    /\ Len(links) \in Nat
    /\ links = [t \in 1 .. Len(links) |-> links[t]]
    /\ \A t \in DOMAIN links : {"user", "purpose", "consumed"} \subseteq DOMAIN links[t]
    /\ overlaps \in Nat

\* Where a redemption is before its link has been accepted, or once it was refused.
Outside == {"gate", "gateClear", "confirmFind", "failRead", "failWrite"}

Spent(t) == t \in DOMAIN links /\ links[t].consumed

\* What was mailed, or is about to be, is a link.
Mailbox ==
    /\ mailed \subseteq DOMAIN links
    /\ \A p \in Procs : op[p].pc = "mail" => op[p].link \in DOMAIN links

LateIsOutside == \A p \in Procs : op[p].late => op[p].pc \in Outside /\ Spent(op[p].link)

InCall(p) == op[p].pc # "idle"

OneAtATime == \A p, q \in Procs : InCall(p) /\ InCall(q) /\ op[p].user = op[q].user => p = q

\* A call about to issue a link holds every unused one of the same user and purpose.
AllRetired ==
    \A p \in Procs : op[p].pc = "requestIssue" =>
        Unconsumed(op[p].user, {op[p].seen}) \subseteq op[p].retire

OneUnused ==
    \A u \in Users, purpose \in {"email", "reset"} :
        \A s, t \in Unconsumed(u, {purpose}) : s = t

Serial == overlaps = 0 => OneAtATime /\ AllRetired /\ OneUnused

IInv == Shapes /\ Mailbox /\ LateIsOutside /\ Serial

-----------------------------------------------------------------------------
\* Earlier processes leave no links and no calls (StoreInit, Init).
LEMMA InitHolds == Init => IInv
<1> SUFFICES ASSUME Init PROVE IInv
  OBVIOUS
<1>1. Shapes
  BY DEF Init, StoreInit, Shapes, CallShape, Idle
<1>2. LateIsOutside
  BY DEF Init, LateIsOutside, Idle
<1>3. Serial
  BY DEF Init, StoreInit, Serial, OneAtATime, AllRetired, OneUnused, InCall, Unconsumed, Idle
<1>4. Mailbox
  BY DEF Init, Mailbox, Idle
<1> QED
  BY <1>1, <1>2, <1>3, <1>4 DEF IInv

\* The table of links as a statement leaves it: untouched, or with some rows consumed.
LinksStay == links' = links \/ \E ids : links' = Consumed(ids)

\* Consuming links keeps the rows, and what is unused was unused (save(consumed), updateMany).
LEMMA LinksShrink ==
  ASSUME Shapes, LinksStay
  PROVE  /\ Len(links') \in Nat
         /\ links' = [t \in 1 .. Len(links') |-> links'[t]]
         /\ \A t \in DOMAIN links' : {"user", "purpose", "consumed"} \subseteq DOMAIN links'[t]
         /\ \A t : Spent(t) => Spent(t)'
         /\ \A u, purposes : Unconsumed(u, purposes)' \subseteq Unconsumed(u, purposes)
<1>1. CASE links' = links
  BY <1>1 DEF Shapes, Spent, Unconsumed
<1>2. ASSUME NEW ids, links' = Consumed(ids)
      PROVE  /\ Len(links') = Len(links)
             /\ DOMAIN links' = DOMAIN links
             /\ links' = [t \in 1 .. Len(links) |-> links'[t]]
             /\ \A t \in DOMAIN links : /\ {"user", "purpose", "consumed"} \subseteq DOMAIN links'[t]
                                        /\ links'[t].user = links[t].user
                                        /\ links'[t].purpose = links[t].purpose
                                        /\ links[t].consumed => links'[t].consumed
  <2>1. links' = [t \in 1 .. Len(links) |->
                    IF t \in ids THEN [links[t] EXCEPT !.consumed = TRUE] ELSE links[t]]
    BY <1>2 DEF Consumed, Shapes
  <2>2. Len(links') = Len(links)
    BY <2>1 DEF Shapes
  <2>3. \A t \in 1 .. Len(links) : {"user", "purpose", "consumed"} \subseteq DOMAIN links[t]
    BY DEF Shapes
  <2>4. \A t \in 1 .. Len(links) :
          links'[t] = IF t \in ids THEN [links[t] EXCEPT !.consumed = TRUE] ELSE links[t]
    BY <2>1
  <2>5. DOMAIN links = 1 .. Len(links)
    BY DEF Shapes
  <2> QED
    BY <2>1, <2>2, <2>3, <2>4, <2>5
<1>3. ASSUME NEW ids, links' = Consumed(ids)
      PROVE  /\ \A t : Spent(t) => Spent(t)'
             /\ \A u, purposes : Unconsumed(u, purposes)' \subseteq Unconsumed(u, purposes)
  BY <1>2, <1>3 DEF Spent, Unconsumed
<1>4. ASSUME NEW ids, links' = Consumed(ids) PROVE Len(links') \in Nat
  BY <1>2, <1>4 DEF Shapes
<1> QED
  BY <1>1, <1>2, <1>3, <1>4 DEF LinksStay

-----------------------------------------------------------------------------
\* What nearly every statement does: it moves one call on, or ends it, and issues no link.
MovesOn(p) ==
    /\ op' = [q \in Procs |-> op'[q]]
    /\ \A q \in Procs : q # p => op'[q] = op[q]
    /\ CallShape(op'[p])
    /\ LinksStay
    /\ overlaps' = overlaps
    /\ op'[p].pc # "mail"
    /\ mailed' = mailed \/ (op[p].pc = "mail" /\ mailed' = mailed \union {op[p].link})
    /\ op'[p].pc # "idle" => op[p].pc # "idle" /\ op'[p].user = op[p].user
    /\ op'[p].late => op[p].late /\ op'[p].link = op[p].link /\ op'[p].pc \in Outside
    /\ op'[p].pc = "requestIssue" =>
         links' = links /\ Unconsumed(op[p].user, {op'[p].seen}) \subseteq op'[p].retire

\* Such a statement keeps the invariant.
LEMMA MovingOnKeeps == ASSUME IInv, NEW p \in Procs, MovesOn(p) PROVE IInv'
<1>1. Shapes'
  BY LinksShrink DEF IInv, Shapes, MovesOn
<1>2. LateIsOutside'
  BY LinksShrink DEF IInv, LateIsOutside, MovesOn
<1>3. ASSUME overlaps = 0 PROVE OneAtATime'
  BY <1>3 DEF IInv, Serial, OneAtATime, InCall, MovesOn
<1>4. ASSUME overlaps = 0 PROVE AllRetired'
  <2> SUFFICES ASSUME NEW q \in Procs, NEW t \in DOMAIN links',
                      op'[q].pc = "requestIssue", links'[t].user = op'[q].user,
                      links'[t].purpose \in {op'[q].seen}, ~links'[t].consumed
               PROVE  t \in op'[q].retire
    BY DEF AllRetired, Unconsumed
  <2>1. CASE q = p
    BY <2>1 DEF MovesOn, Unconsumed
  <2>2. CASE q # p
    <3>1. op'[q] = op[q]
      BY <2>2 DEF MovesOn
    <3>2. Unconsumed(op[q].user, {op[q].seen}) \subseteq op[q].retire
      BY <1>4, <3>1 DEF IInv, Serial, AllRetired
    <3>3. Unconsumed(op[q].user, {op[q].seen}) = {s \in DOMAIN links :
            links[s].user = op[q].user /\ links[s].purpose \in {op[q].seen} /\ ~links[s].consumed}
      BY DEF Unconsumed
    <3>4. t \in DOMAIN links /\ links[t].user = op[q].user /\ links[t].purpose \in {op[q].seen}
          /\ ~links[t].consumed
      <4>1. \A u, purposes : Unconsumed(u, purposes)' \subseteq Unconsumed(u, purposes)
        BY LinksShrink DEF IInv, MovesOn
      <4> DEFINE u == links'[t].user
                 purposes == {links'[t].purpose}
      <4>2. \A v, kinds : v = u /\ kinds = purposes => t \in Unconsumed(v, kinds)'
        BY DEF Unconsumed
      <4>3. \A v, kinds : v = u /\ kinds = purposes => t \in Unconsumed(v, kinds)
        BY <4>1, <4>2
      <4>4. t \in Unconsumed(op[q].user, {op[q].seen})
        BY <3>1, <4>3
      <4> QED
        BY <4>4 DEF Unconsumed
    <3> QED
      BY <3>1, <3>2, <3>3, <3>4
  <2> QED
    BY <2>1, <2>2
<1>5. ASSUME overlaps = 0 PROVE OneUnused'
  <2>1. \A u, purposes : Unconsumed(u, purposes)' \subseteq Unconsumed(u, purposes)
    BY LinksShrink DEF IInv, MovesOn
  <2> QED
    BY <1>5, <2>1 DEF IInv, Serial, OneUnused
<1>6. Mailbox'
  <2>1. DOMAIN links' = DOMAIN links
    BY DEF MovesOn, LinksStay, Consumed
  <2> QED
    BY <2>1 DEF IInv, Mailbox, MovesOn
<1> QED
  BY <1>1, <1>2, <1>3, <1>4, <1>5, <1>6 DEF IInv, Serial, MovesOn

\* A call that arrives: what it overlaps is counted, and it is not about to issue a link.
LEMMA BeginKeeps ==
  ASSUME IInv, NEW p \in Procs, NEW call, Begin(p, call), CallShape(call),
         call.pc \notin {"requestIssue", "mail"}, call.late => call.pc \in Outside /\ Spent(call.link)
  PROVE  IInv'
<1> DEFINE others == {q \in Procs : InCallFor(q, call.user)}
<1>1. /\ op' = [q \in Procs |-> IF q = p THEN [call EXCEPT !.alone = others = {}]
                                ELSE IF q \in others THEN [op[q] EXCEPT !.alone = FALSE]
                                ELSE op[q]]
      /\ overlaps' = overlaps + Cardinality(others)
      /\ links' = links /\ mailed' = mailed
      /\ op[p].pc = "idle"
  BY DEF Begin, tables
<1>2. Cardinality(others) \in Nat /\ (Cardinality(others) = 0 => others = {})
  <2>1. IsFiniteSet(others)
    BY ProcsAssumption, FS_Subset
  <2> QED
    BY <2>1, FS_CardinalityType, FS_EmptySet
<1>3. /\ CallShape(op'[p]) /\ op'[p].pc = call.pc /\ op'[p].user = call.user
      /\ op'[p].late = call.late /\ op'[p].link = call.link
  BY <1>1 DEF CallShape
<1>4. \A q \in Procs : q # p =>
        /\ CallShape(op'[q])
        /\ op'[q].pc = op[q].pc /\ op'[q].user = op[q].user /\ op'[q].seen = op[q].seen
        /\ op'[q].late = op[q].late /\ op'[q].link = op[q].link /\ op'[q].retire = op[q].retire
  BY <1>1 DEF IInv, Shapes, CallShape
<1>5. Shapes'
  BY <1>1, <1>2, <1>3, <1>4 DEF IInv, Shapes
<1>6. LateIsOutside'
  BY <1>1, <1>3, <1>4 DEF IInv, LateIsOutside, Spent
<1>7. ASSUME overlaps' = 0 PROVE overlaps = 0 /\ others = {}
  BY <1>1, <1>2, <1>7 DEF IInv, Shapes
<1>8. ASSUME overlaps' = 0 PROVE OneAtATime'
  BY <1>3, <1>4, <1>7, <1>8 DEF IInv, Serial, OneAtATime, InCall, InCallFor
<1>9. ASSUME overlaps' = 0 PROVE AllRetired'
  BY <1>1, <1>3, <1>4, <1>7, <1>9 DEF IInv, Serial, AllRetired, Unconsumed
<1>10. ASSUME overlaps' = 0 PROVE OneUnused'
  BY <1>1, <1>7, <1>10 DEF IInv, Serial, OneUnused, Unconsumed
<1>11. Mailbox'
  BY <1>1, <1>3, <1>4 DEF IInv, Mailbox
<1> QED
  BY <1>5, <1>6, <1>8, <1>9, <1>10, <1>11 DEF IInv, Serial

-----------------------------------------------------------------------------
\* Registration touches no link (RegisterUserWithPassword, RegisterUser).
LEMMA RegistrationMoves ==
  ASSUME IInv, NEW p \in Procs,
         RegisterFind(p) \/ RegisterSave(p) \/ RegisterConflict(p)
  PROVE  MovesOn(p)
<1> USE DEF MovesOn, LinksStay, Return, Goto, Reads, tables, ghosts, Idle, CallShape, IInv, Shapes, LateIsOutside, Outside
<1>1. CASE RegisterFind(p)
  BY <1>1 DEF RegisterFind
<1>2. CASE RegisterSave(p)
  BY <1>2 DEF RegisterSave
<1>3. CASE RegisterConflict(p)
  BY <1>3 DEF RegisterConflict
<1> QED
  BY <1>1, <1>2, <1>3

\* The counted attempts: a late redemption is let through no further than the lookup of its
\* link, whose number no login has (BruteForcePolicy.check, recordFailure).
LEMMA AttemptsMove ==
  ASSUME IInv, NEW p \in Procs,
         Gate(p) \/ GateClear(p) \/ ReadFailures(p) \/ RecordFailure(p)
  PROVE  MovesOn(p)
<1> USE DEF MovesOn, LinksStay, Return, Goto, Reads, tables, ghosts, Idle, CallShape, IInv, Shapes, LateIsOutside, Outside
<1>1. CASE Gate(p)
  <2>1. op[p].late => op[p].link # 0
    BY DEF Spent
  <2> QED
    BY <1>1, <2>1 DEF Gate, Admit
<1>2. CASE GateClear(p)
  <2>1. op[p].late => op[p].link # 0
    BY DEF Spent
  <2> QED
    BY <1>2, <2>1 DEF GateClear, Admit
<1>3. CASE ReadFailures(p)
  BY <1>3 DEF ReadFailures, Admit
<1>4. CASE RecordFailure(p)
  BY <1>4 DEF RecordFailure, Admit
<1> QED
  BY <1>1, <1>2, <1>3, <1>4

\* A login has no link (AuthenticateWithPassword).
LEMMA LoginMoves ==
  ASSUME IInv, NEW p \in Procs,
         LoginFindUser(p) \/ LoginNoCredential(p) \/ LoginMismatch(p) \/ LoginMatch(p) \/ LoginSaveFailed(p) \/ LoginSaveCleared(p) \/ LoginSucceed(p) \/ Rehash(p) \/ SignIn(p)
  PROVE  MovesOn(p)
<1> USE DEF MovesOn, LinksStay, Return, Goto, Reads, tables, ghosts, Idle, CallShape, IInv, Shapes, LateIsOutside, Outside
<1>1. CASE LoginFindUser(p)
  BY <1>1 DEF LoginFindUser, CountFailure
<1>2. CASE LoginNoCredential(p)
  BY <1>2 DEF LoginNoCredential, CountFailure
<1>3. CASE LoginMismatch(p)
  BY <1>3 DEF LoginMismatch, CountFailure
<1>4. CASE LoginMatch(p)
  BY <1>4 DEF LoginMatch, CountFailure
<1>5. CASE LoginSaveFailed(p)
  BY <1>5 DEF LoginSaveFailed, CountFailure
<1>6. CASE LoginSaveCleared(p)
  BY <1>6 DEF LoginSaveCleared, CountFailure
<1>7. CASE LoginSucceed(p)
  BY <1>7 DEF LoginSucceed, CountFailure
<1>8. CASE Rehash(p)
  BY <1>8 DEF Rehash, CountFailure
<1>9. CASE SignIn(p)
  BY <1>9 DEF SignIn, CountFailure
<1> QED
  BY <1>1, <1>2, <1>3, <1>4, <1>5, <1>6, <1>7, <1>8, <1>9

\* Nor has a change of password (ChangePassword).
LEMMA ChangeMoves ==
  ASSUME IInv, NEW p \in Procs,
         ChangeFindUser(p) \/ ChangeCheck(p) \/ ChangeRead(p) \/ ChangeSave(p)
  PROVE  MovesOn(p)
<1> USE DEF MovesOn, LinksStay, Return, Goto, Reads, tables, ghosts, Idle, CallShape, IInv, Shapes, LateIsOutside, Outside
<1>1. CASE ChangeFindUser(p)
  BY <1>1 DEF ChangeFindUser
<1>2. CASE ChangeCheck(p)
  BY <1>2 DEF ChangeCheck
<1>3. CASE ChangeRead(p)
  BY <1>3 DEF ChangeRead
<1>4. CASE ChangeSave(p)
  BY <1>4 DEF ChangeSave
<1> QED
  BY <1>1, <1>2, <1>3, <1>4

\* A redemption that begins late ends at the lookup, which finds its link used
\* (ConfirmPasswordReset).
LEMMA ConfirmMoves ==
  ASSUME IInv, NEW p \in Procs,
         ConfirmFind(p) \/ ConfirmFindUser(p) \/ ConfirmConsume(p) \/ ConfirmReused(p) \/ ConfirmCheck(p) \/ ConfirmCommit(p) \/ ConfirmSucceed(p) \/ RevokeSessions(p)
  PROVE  MovesOn(p)
<1> USE DEF MovesOn, LinksStay, Return, Goto, Reads, tables, ghosts, Idle, CallShape, IInv, Shapes, LateIsOutside, Outside
<1>1. CASE ConfirmFind(p)
  BY <1>1 DEF ConfirmFind, CountFailure, IsUsableAt, Spent
<1>2. CASE ConfirmFindUser(p)
  BY <1>2 DEF ConfirmFindUser, CountFailure, IsUsableAt, Spent
<1>3. CASE ConfirmConsume(p)
  BY <1>3 DEF ConfirmConsume, CountFailure, IsUsableAt, Spent
<1>4. CASE ConfirmReused(p)
  BY <1>4 DEF ConfirmReused, CountFailure, IsUsableAt, Spent
<1>5. CASE ConfirmCheck(p)
  BY <1>5 DEF ConfirmCheck, CountFailure, IsUsableAt, Spent
<1>6. CASE ConfirmCommit(p)
  BY <1>6 DEF ConfirmCommit, CountFailure, IsUsableAt, Spent
<1>7. CASE ConfirmSucceed(p)
  BY <1>7 DEF ConfirmSucceed, CountFailure, IsUsableAt, Spent
<1>8. CASE RevokeSessions(p)
  BY <1>8 DEF RevokeSessions, CountFailure, IsUsableAt, Spent
<1> QED
  BY <1>1, <1>2, <1>3, <1>4, <1>5, <1>6, <1>7, <1>8

\* The other redemption consumes its link as well (ConfirmEmailVerification).
LEMMA EmailMoves ==
  ASSUME IInv, NEW p \in Procs,
         EmailFind(p) \/ EmailFindUser(p) \/ EmailActivate(p)
  PROVE  MovesOn(p)
<1> USE DEF MovesOn, LinksStay, Return, Goto, Reads, tables, ghosts, Idle, CallShape, IInv, Shapes, LateIsOutside, Outside
<1>1. CASE EmailFind(p)
  BY <1>1 DEF EmailFind
<1>2. CASE EmailFindUser(p)
  BY <1>2 DEF EmailFindUser
<1>3. CASE EmailActivate(p)
  BY <1>3 DEF EmailActivate
<1> QED
  BY <1>1, <1>2, <1>3

\* Administration and the deletion handler only ever consume links (SuspendUser,
\* ReactivateUser, UpdateUserProfile, HandleUserDeleted).
LEMMA StatusMoves ==
  ASSUME IInv, NEW p \in Procs,
         StatusFind(p) \/ StatusSave(p) \/ EraseNothing(p) \/ EraseFind(p) \/ EraseRetire(p) \/ EraseSave(p)
  PROVE  MovesOn(p)
<1> USE DEF MovesOn, LinksStay, Return, Goto, Reads, tables, ghosts, Idle, CallShape, IInv, Shapes, LateIsOutside, Outside
<1>1. CASE StatusFind(p)
  BY <1>1 DEF StatusFind, Retire
<1>2. CASE StatusSave(p)
  BY <1>2 DEF StatusSave, Retire
<1>3. CASE EraseNothing(p)
  BY <1>3 DEF EraseNothing, Retire
<1>4. CASE EraseFind(p)
  BY <1>4 DEF EraseFind, Retire
<1>5. CASE EraseRetire(p)
  BY <1>5 DEF EraseRetire, Retire
<1>6. CASE EraseSave(p)
  BY <1>6 DEF EraseSave, Retire
<1> QED
  BY <1>1, <1>2, <1>3, <1>4, <1>5, <1>6

-----------------------------------------------------------------------------
(* RequestPasswordReset and RequestEmailVerification                       *)

\* Retiring takes down everything that is unused, in one statement (updateMany).
LEMMA RequestMoves ==
  ASSUME IInv, NEW p \in Procs, RequestFind(p) \/ RequestRetire(p) \/ SendMail(p)
  PROVE  MovesOn(p)
<1> USE DEF MovesOn, LinksStay, Return, Goto, Reads, tables, ghosts, Idle, CallShape, IInv, Shapes, LateIsOutside, Outside
<1>1. CASE RequestFind(p)
  BY <1>1 DEF RequestFind
<1>2. CASE RequestRetire(p)
  BY <1>2 DEF RequestRetire, Retire
<1>3. CASE SendMail(p)
  BY <1>3 DEF SendMail
<1> QED
  BY <1>1, <1>2, <1>3

\* The new link is the one unused link of its user and purpose, and of the calls under way it
\* concerns only this one, if no two calls of a user overlap.
LEMMA IssuingKeeps == ASSUME IInv, NEW p \in Procs, RequestIssue(p) PROVE IInv'
<1> DEFINE old == Consumed(op[p].retire)
           new == NewLink(op[p].user, op[p].seen, op[p].at)
           n == Len(links) + 1
<1>1. /\ links' = Append(old, new)
      /\ overlaps' = overlaps /\ mailed' = mailed
      /\ op[p].pc = "requestIssue"
  BY DEF RequestIssue, ghosts
<1>2. /\ op' = [q \in Procs |-> op'[q]]
      /\ \A q \in Procs : q # p => op'[q] = op[q]
      /\ CallShape(op'[p])
      /\ op'[p].pc = "mail" /\ op'[p].user = op[p].user /\ op'[p].late = op[p].late
      /\ op'[p].link = n
  BY DEF RequestIssue, IInv, Shapes, CallShape
<1>3. /\ Len(links) \in Nat /\ DOMAIN links = 1 .. Len(links)
      /\ \A t \in 1 .. Len(links) : {"user", "purpose", "consumed"} \subseteq DOMAIN links[t]
  BY DEF IInv, Shapes
<1>4. /\ DOMAIN old = 1 .. Len(links) /\ Len(old) = Len(links)
      /\ old = [t \in 1 .. Len(links) |-> old[t]]
      /\ \A t \in 1 .. Len(links) :
           old[t] = IF t \in op[p].retire THEN [links[t] EXCEPT !.consumed = TRUE] ELSE links[t]
  BY <1>3 DEF Consumed
<1> HIDE DEF old
<1>5. /\ Len(links') = n /\ links' = [t \in 1 .. n |-> links'[t]]
      /\ links'[n] = new
      /\ \A t \in 1 .. Len(links) : links'[t] = old[t]
  <2> DEFINE S == {old[t] : t \in 1 .. Len(links)} \union {new}
  <2>1. old \in Seq(S) /\ new \in S
    BY <1>3, <1>4
  <2> HIDE DEF S, new
  <2> QED
    BY <1>1, <1>3, <1>4, <2>1
<1>6. /\ DOMAIN links' = 1 .. n
      /\ new.user = op[p].user /\ new.purpose = op[p].seen
      /\ {"user", "purpose", "consumed"} \subseteq DOMAIN new
  BY <1>5 DEF NewLink
<1> HIDE DEF new
<1>7. \A t \in 1 .. Len(links) :
        /\ {"user", "purpose", "consumed"} \subseteq DOMAIN links'[t]
        /\ links'[t].user = links[t].user /\ links'[t].purpose = links[t].purpose
        /\ t \in op[p].retire => links'[t].consumed
        /\ t \notin op[p].retire => links'[t].consumed = links[t].consumed
  <2> SUFFICES ASSUME NEW t \in 1 .. Len(links)
               PROVE  /\ {"user", "purpose", "consumed"} \subseteq DOMAIN links'[t]
                      /\ links'[t].user = links[t].user /\ links'[t].purpose = links[t].purpose
                      /\ t \in op[p].retire => links'[t].consumed
                      /\ t \notin op[p].retire => links'[t].consumed = links[t].consumed
    OBVIOUS
  <2>1. links'[t] = IF t \in op[p].retire THEN [links[t] EXCEPT !.consumed = TRUE] ELSE links[t]
    BY <1>4, <1>5
  <2>2. {"user", "purpose", "consumed"} \subseteq DOMAIN links[t]
    BY <1>3
  <2> QED
    BY <2>1, <2>2
<1>8. Shapes'
  <2>1. \A t \in DOMAIN links' : {"user", "purpose", "consumed"} \subseteq DOMAIN links'[t]
    BY <1>3, <1>5, <1>6, <1>7
  <2>2. Len(links') \in Nat /\ links' = [t \in 1 .. Len(links') |-> links'[t]]
    BY <1>3, <1>5
  <2>3. \A q \in Procs : CallShape(op'[q])
    BY <1>2 DEF IInv, Shapes
  <2>4. op' = [q \in Procs |-> op'[q]]
    BY <1>2 DEF IInv, Shapes
  <2>5. overlaps' \in Nat
    BY <1>1 DEF IInv, Shapes
  <2> HIDE DEF n
  <2> QED
    BY <2>1, <2>2, <2>3, <2>4, <2>5 DEF Shapes
<1>9. LateIsOutside'
  <2>1. \A t : Spent(t) => Spent(t)'
    BY <1>3, <1>6, <1>7 DEF Spent
  <2>2. ~op[p].late
    BY <1>1 DEF IInv, LateIsOutside, Outside
  <2> QED
    BY <1>2, <2>1, <2>2 DEF IInv, LateIsOutside
<1>10. ASSUME overlaps = 0 PROVE OneAtATime'
  BY <1>1, <1>2, <1>10 DEF IInv, Serial, OneAtATime, InCall
<1>11. ASSUME overlaps = 0 PROVE AllRetired'
  <2> SUFFICES ASSUME NEW q \in Procs, NEW t \in DOMAIN links',
                      op'[q].pc = "requestIssue", links'[t].user = op'[q].user,
                      links'[t].purpose \in {op'[q].seen}, ~links'[t].consumed
               PROVE  t \in op'[q].retire
    BY DEF AllRetired, Unconsumed
  <2>1. q # p /\ op'[q] = op[q]
    BY <1>2
  <2>2. op[q].user # op[p].user
    BY <1>1, <1>11, <2>1 DEF IInv, Serial, OneAtATime, InCall
  <2>3. t \in 1 .. Len(links)
    BY <1>3, <1>5, <1>6, <2>1, <2>2
  <2> QED
    BY <1>3, <1>7, <1>11, <2>1, <2>3 DEF IInv, Serial, AllRetired, Unconsumed
<1>12. ASSUME overlaps = 0 PROVE OneUnused'
  <2> SUFFICES ASSUME NEW u \in Users, NEW purpose \in {"email", "reset"},
                      NEW s \in DOMAIN links', NEW t \in DOMAIN links',
                      links'[s].user = u, links'[s].purpose = purpose, ~links'[s].consumed,
                      links'[t].user = u, links'[t].purpose = purpose, ~links'[t].consumed
               PROVE  s = t
    BY DEF OneUnused, Unconsumed
  <2>1. ASSUME NEW i \in 1 .. Len(links), links'[i].user = op[p].user,
               links'[i].purpose = op[p].seen, ~links'[i].consumed
        PROVE  FALSE
    BY <1>1, <1>3, <1>7, <1>12, <2>1 DEF IInv, Serial, AllRetired, Unconsumed
  <2>2. CASE s = n /\ t \in 1 .. Len(links)
    BY <1>5, <1>6, <2>1, <2>2
  <2>3. CASE t = n /\ s \in 1 .. Len(links)
    BY <1>5, <1>6, <2>1, <2>3
  <2>4. CASE s \in 1 .. Len(links) /\ t \in 1 .. Len(links)
    BY <1>3, <1>7, <1>12, <2>4 DEF IInv, Serial, OneUnused, Unconsumed
  <2> QED
    BY <1>3, <1>6, <2>2, <2>3, <2>4
<1>13. Mailbox'
  BY <1>1, <1>2, <1>3, <1>6 DEF IInv, Mailbox
<1> QED
  BY <1>1, <1>8, <1>9, <1>10, <1>11, <1>12, <1>13 DEF IInv, Serial

-----------------------------------------------------------------------------
\* A call that arrives with no link, or with one that its `late` is true of (ConfirmPasswordReset).
LEMMA ArriveKeeps == ASSUME IInv, NEW p \in Procs, Arrive(p) PROVE IInv'
<1>1. ASSUME NEW u, Register(p, u, NoPassword) \/ \E pw \in Passwords : Register(p, u, pw) PROVE IInv'
  BY <1>1, BeginKeeps DEF Register, Idle, CallShape
<1>2. ASSUME NEW u, NEW pw, Login(p, u, pw) PROVE IInv'
  BY <1>2, BeginKeeps DEF Login, Idle, CallShape
<1>3. ASSUME NEW u, NEW current, NEW new, ChangePassword(p, u, current, new) PROVE IInv'
  BY <1>3, BeginKeeps DEF ChangePassword, BeginReplacing, Idle, CallShape
<1>4. ASSUME NEW u, NEW purpose, Request(p, u, purpose) PROVE IInv'
  BY <1>4, BeginKeeps DEF Request, Idle, CallShape
<1>5. ASSUME NEW u, SuspendUser(p, u) \/ ReactivateUser(p, u) \/ UpdateUserProfile(p, u) \/ DeleteUser(p, u)
      PROVE  IInv'
  BY <1>5, BeginKeeps
  DEF SuspendUser, ReactivateUser, UpdateUserProfile, DeleteUser, BeginReplacing, StatusCall, Idle, CallShape
<1>6. ASSUME NEW t \in mailed, NEW new, ConfirmReset(p, t, new) PROVE IInv'
  <2>1. t \in DOMAIN links
    BY DEF IInv, Mailbox
  <2> DEFINE call == [Idle EXCEPT !.pc = "gate", !.user = links[t].user, !.link = t,
                                  !.late = links[t].consumed, !.pw = new, !.at = now]
  <2>2. Begin(p, call)
    BY <1>6 DEF ConfirmReset, BeginReplacing
  <2>3. /\ CallShape(call) /\ call.pc = "gate"
        /\ call.late = links[t].consumed /\ call.link = t
    BY DEF Idle, CallShape
  <2> HIDE DEF call
  <2> QED
    BY <2>1, <2>2, <2>3, BeginKeeps DEF Outside, Spent
<1>7. ASSUME NEW t, ConfirmEmail(p, t) PROVE IInv'
  BY <1>7, BeginKeeps DEF ConfirmEmail, Idle, CallShape
<1> QED
  BY <1>1, <1>2, <1>3, <1>4, <1>5, <1>6, <1>7
  DEF Arrive, RegisterUserWithPassword, RegisterUser, RequestPasswordReset, RequestEmailVerification

\* A statement that fails rolls back what the call had not committed.
LEMMA FailureMoves == ASSUME IInv, NEW p \in Procs, Fails(p) PROVE MovesOn(p)
<1> USE DEF MovesOn, LinksStay, Return, Goto, tables, ghosts, Idle, CallShape, IInv, Shapes, LateIsOutside, Outside
<1>1. CASE op[p].pc = "revoke"
  <2>1. RevocationReported(p)
    BY <1>1 DEF Fails
  <2>2. Return(p) /\ UNCHANGED <<links, mailed, overlaps>>
    BY <2>1 DEF RevocationReported
  <2> QED
    BY <2>2
<1>2. CASE op[p].pc = "rehash"
  BY <1>2 DEF Fails
<1>3. CASE op[p].pc \notin {"revoke", "rehash"}
  BY <1>3 DEF Fails
<1> QED
  BY <1>1, <1>2, <1>3

\* A step that changes neither calls nor links.
LEMMA RestKeeps == ASSUME IInv, UNCHANGED <<op, links, mailed, overlaps>> PROVE IInv'
  BY DEF IInv, Mailbox, Shapes, LateIsOutside, Serial, OneAtATime, AllRetired, OneUnused, InCall, Spent, Unconsumed

\* Every step keeps the invariant.
LEMMA StepKeeps == IInv /\ [Next]_vars => IInv'
<1> SUFFICES ASSUME IInv, [Next]_vars PROVE IInv'
  OBVIOUS
<1>1. CASE Tick \/ UNCHANGED vars
  BY <1>1, RestKeeps DEF Tick, vars, tables, ghosts
<1>2. ASSUME NEW p \in Procs, Continue(p) PROVE IInv'
  BY <1>2, MovingOnKeeps, IssuingKeeps, RegistrationMoves, AttemptsMove, LoginMoves, ChangeMoves,
     RequestMoves, ConfirmMoves, EmailMoves, StatusMoves
  DEF Continue
<1>3. ASSUME NEW p \in Procs, Arrive(p) \/ Fails(p) PROVE IInv'
  BY <1>3, ArriveKeeps, FailureMoves, MovingOnKeeps
<1> QED
  BY <1>1, <1>2, <1>3 DEF Next

\* The invariant is strong enough: two unused links of a user and purpose would be one.
LEMMA InvariantIsEnough == IInv => LinksAreSingle
<1> SUFFICES ASSUME IInv PROVE LinksAreSingle
  OBVIOUS
<1>1. LinkIsSingleUse
  BY DEF IInv, LateIsOutside, Outside, LinkIsSingleUse
<1>2. ASSUME overlaps = 0, NEW u \in Users, NEW purpose \in {"email", "reset"}
      PROVE  Cardinality(Unconsumed(u, {purpose})) <= 1
  <2> DEFINE S == Unconsumed(u, {purpose})
  <2>1. \A s, t \in S : s = t
    BY <1>2 DEF IInv, Serial, OneUnused
  <2> HIDE DEF S
  <2>2. ASSUME S = {} PROVE Cardinality(S) <= 1
    BY <2>2, FS_EmptySet
  <2>3. ASSUME S # {} PROVE Cardinality(S) <= 1
    <3>1. PICK t : S = {t}
      BY <2>1, <2>3
    <3>2. Cardinality(S) = 1
      BY <3>1, FS_Singleton
    <3> QED
      BY <3>2
  <2> QED
    BY <2>2, <2>3 DEF S
<1> QED
  BY <1>1, <1>2 DEF LinksAreSingle, OneLinkOutstanding

\* A link that was used or retired never again gets a redemption as far as the password, and
\* as long as no two calls of a user overlap, at most one link of a purpose is outstanding
\* (ConfirmPasswordReset, RequestPasswordReset, RequestEmailVerification).
THEOREM LinksStaySingle == Spec => []LinksAreSingle
  BY InitHolds, StepKeeps, InvariantIsEnough, PTL DEF Spec
-----------------------------------------------------------------------------
(***************************************************************************)
(* The rows, for any users, passwords, processes, depths of history, calls *)
(* and faults: ChangeIsFinal, ResetSignsOut, DeletionIsFinal, NoReuse.     *)
(*                                                                         *)
(* Every use case saves a whole row from a copy read statements before, so *)
(* what has to be known is what each call still holds.  A choice is made   *)
(* by a call nothing overlapped; whatever is running afterwards began      *)
(* later, read the row after it was saved, and holds the chosen password   *)
(* (CallOK).  A call about a deleted user is stopped at a lookup.  A       *)
(* statement touches the rows of one user only, so the calls of the others *)
(* are not concerned (Frame), and those of the same user are not alone.    *)
(***************************************************************************)

\* What a row may hold for a hash: that of a password, or none.
Hashes == Passwords \union {NoPassword}

\* A credential row: the columns, the hash, the history.
Row(c) ==
    /\ {"pw", "strong", "fails", "lockedUntil", "history"} \subseteq DOMAIN c
    /\ c.pw \in Hashes /\ c.history \in Seq(Hashes)

\* What a call holds.
Fields == {"pc", "user", "alone", "at", "pw", "current", "seen", "row", "link", "late", "retire", "read"}

\* The tables are what they look like; who has a password is registered, and a reset link is of
\* someone who has one.
TablesOK ==
    /\ status = [u \in Users |-> status[u]]
    /\ credentials = [u \in DOMAIN credentials |-> credentials[u]]
    /\ signedIn = [u \in Users |-> signedIn[u]]
    /\ chosen = [u \in Users |-> chosen[u]]
    /\ DOMAIN credentials \subseteq Users
    /\ \A u \in DOMAIN credentials : Row(credentials[u]) /\ status[u] # "none"
    /\ \A t \in DOMAIN links : /\ links[t].user \in Users
                               /\ links[t].purpose = "reset" => links[t].user \in DOMAIN credentials

\* Where a call stands: holding a copy of a row; redeeming a link; about to rotate; past a match;
\* erasing.
RowPcs == {"loginFailed", "loginClear", "loginDone", "rehash", "changeSave", "confirmCommit",
           "eraseRetire", "eraseSave"}
Redeems == {"confirmFind", "confirmUser", "confirmSave", "confirmCred", "confirmCommit", "confirmDone", "revoke"}
Rotating == {"changeRead", "changeSave", "confirmCommit"}
Matched == {"loginClear", "loginDone", "rehash", "signIn"}
ErasePcs == {"eraseCred", "eraseRetire", "eraseSave"}

\* A call is what it looks like; a login has no link.
CallTypeOK(c) ==
    /\ Fields \subseteq DOMAIN c
    /\ c.alone \in BOOLEAN
    /\ c.pc = "idle" => ~c.alone
    /\ c.pc # "idle" => c.user \in Users
    /\ c.pw \in Hashes
    /\ c.pc \in RowPcs => Row(c.row)
    /\ c.pc \in {"statusSave"} => c.seen # "none"
    /\ c.pc \in {"loginUser", "loginCred"} \union Matched => c.link = 0

\* Where the user of a call is known to have a password.
HasCredential(c) ==
    \/ c.pc \in RowPcs \union Rotating \union Redeems
    \/ c.pc \in {"gate", "gateClear"} /\ c.link # 0
    \/ c.pc \in {"requestRetire", "requestIssue"} /\ c.seen = "reset"

\* Where a call stands that will not replace the password.
KeepPcs == {"registerFind", "registerSave", "gate", "gateClear", "failRead", "failWrite",
   "loginUser", "loginCred", "loginFailed", "loginClear", "loginDone", "rehash", "signIn",
   "requestUser", "requestRetire", "requestIssue", "mail", "emailFind", "emailUser", "emailSave",
   "suspended", "active", "same", "statusSave"}

\* Such a call brings back no other password: what it would save has the one it should.
Keeps(c, pw) ==
    /\ c.pc \in KeepPcs
    /\ c.pc \in {"gate", "gateClear"} => c.link = 0
    /\ c.pc = "statusSave" => c.seen # "deleted"
    /\ c.pc \in RowPcs => c.row.pw = pw
    /\ c.pc \in Matched => c.pw = pw

\* Where a call stands that has not looked at a user, or has been refused.
EarlyPcs == {"registerFind", "gate", "gateClear", "failRead", "failWrite", "loginUser", "changeUser",
   "requestUser", "confirmFind", "confirmUser", "emailFind", "emailUser", "suspended", "active", "deleted", "same"}

\* The purposes of links.
BothPurposes == {"email", "reset"}

\* What a call owes: not to undo a choice, not to reach a deleted user; running alone, to find what
\* it committed; with no calls of a user overlapping, to hold the row as it is stored.
CallOK(c) ==
    /\ HasCredential(c) => c.user \in DOMAIN credentials
    /\ c.pc # "idle" /\ chosen[c.user] # NoChoice => Keeps(c, chosen[c.user].pw)
    /\ c.pc # "idle" /\ c.user \in erased => c.pc \in EarlyPcs
    /\ c.alone =>
         /\ c.pc \in {"confirmDone", "revoke"} => credentials[c.user].pw = c.pw
         /\ c.pc \in ErasePcs => status[c.user] = "deleted"
         /\ c.pc = "eraseSave" => Unconsumed(c.user, BothPurposes) \subseteq c.retire
    /\ overlaps = 0 =>
         /\ c.pc \in RowPcs => c.row = credentials[c.user]
         /\ c.pc \in {"loginClear", "loginDone", "rehash"} => c.pw = c.row.pw
         /\ c.pc \in Rotating => ~IsPasswordReused(credentials[c.user], c.pw)

\* What holds of a user: the choice is in force, the deletion is complete, the history is of other
\* passwords.
UserOK(u) ==
    /\ chosen[u] # NoChoice =>
         /\ u \in DOMAIN credentials /\ credentials[u].pw = chosen[u].pw
         /\ chosen[u].reset => signedIn[u] \subseteq {chosen[u].pw}
    /\ u \in erased =>
         /\ status[u] = "deleted"
         /\ u \in DOMAIN credentials => /\ credentials[u].pw = NoPassword
                                        /\ Unconsumed(u, BothPurposes) = {}
    /\ overlaps = 0 /\ u \in DOMAIN credentials => ~IsInHistory(credentials[u], credentials[u].pw)

\* A call nothing overlapped has no other call of its user beside it.
AloneIsAlone == \A p, q \in Procs : op[p].alone /\ p # q => ~InCallFor(q, op[p].user)

\* The invariant of the rows, beside that of the links.
CInv ==
    /\ TablesOK
    /\ \A p \in Procs : CallTypeOK(op[p]) /\ CallOK(op[p])
    /\ \A u \in Users : UserOK(u)
    /\ AloneIsAlone
    /\ erased \subseteq Users

-----------------------------------------------------------------------------
\* An empty history is a history.
LEMMA EmptyHistory == << >> \in Seq(Hashes)
  OBVIOUS

\* Earlier processes leave rows of fresh credentials, and no calls.
LEMMA CInvInit == Init => CInv
<1> SUFFICES ASSUME Init PROVE CInv
  OBVIOUS
<1>0. PICK owners \in SUBSET {u \in Users : status[u] # "none"} :
        \E pw \in [owners -> Passwords] : credentials = [u \in owners |-> Credential(pw[u], FALSE)]
  BY DEF Init, StoreInit
<1>1. PICK pw \in [owners -> Passwords] : credentials = [u \in owners |-> Credential(pw[u], FALSE)]
  BY <1>0
<1>2. \A u \in DOMAIN credentials : /\ Row(credentials[u]) /\ status[u] # "none"
                                    /\ credentials[u].history = << >>
  <2>1. DOMAIN credentials = owners /\ owners \subseteq Users /\ \A u \in owners : status[u] # "none"
    BY <1>1
  <2>2. ASSUME NEW u \in owners PROVE Row(credentials[u]) /\ credentials[u].history = << >>
    <3>1. credentials[u] = Credential(pw[u], FALSE) /\ pw[u] \in Hashes
      BY <1>1 DEF Hashes
    <3> QED  BY <3>1, EmptyHistory DEF Credential, Row
  <2> QED  BY <2>1, <2>2
<1>3. TablesOK
  <2>1. /\ DOMAIN credentials \subseteq Users /\ credentials = [u \in DOMAIN credentials |-> credentials[u]]
        /\ links = << >> /\ status = [u \in Users |-> status[u]]
        /\ signedIn = [u \in Users |-> signedIn[u]] /\ chosen = [u \in Users |-> chosen[u]]
    <3>1. DOMAIN credentials \subseteq Users /\ credentials = [u \in DOMAIN credentials |-> credentials[u]]
      BY <1>1
    <3> QED  BY <3>1 DEF Init, StoreInit
  <2>2. DOMAIN links = {}
    BY <2>1
  <2> QED  BY <1>2, <2>1, <2>2 DEF TablesOK
<1>4. \A p \in Procs : CallTypeOK(op[p]) /\ CallOK(op[p])
  <2>1. \A p \in Procs : op[p] = Idle
    BY DEF Init
  <2>2. Idle.pc = "idle" /\ Idle.alone = FALSE /\ Idle.pw \in Hashes /\ Fields \subseteq DOMAIN Idle
    BY DEF Idle, Fields, Hashes
  <2> HIDE DEF Idle
  <2> QED  BY <2>1, <2>2
           DEF CallTypeOK, CallOK, HasCredential, RowPcs, Redeems, Rotating, Matched, ErasePcs
<1>5. \A u \in Users : UserOK(u)
  BY <1>2 DEF Init, UserOK, IsInHistory
<1>6. AloneIsAlone /\ erased \subseteq Users
  BY DEF Init, AloneIsAlone, Idle
<1> QED  BY <1>3, <1>4, <1>5, <1>6 DEF CInv

-----------------------------------------------------------------------------
\* What a statement of a call may touch: the rows of its own user.
Frame(p) ==
    /\ op' = [q \in Procs |-> op'[q]]
    /\ \A q \in Procs : q # p => op'[q] = op[q]
    /\ op[p].pc # "idle"
    /\ op'[p].pc # "idle" => op'[p].user = op[p].user
    /\ op'[p].alone => op[p].alone
    /\ overlaps' = overlaps
    /\ DOMAIN credentials \subseteq DOMAIN credentials'
    /\ DOMAIN credentials' \subseteq DOMAIN credentials \union {op[p].user}
    /\ \A u \in Users : u # op[p].user =>
         /\ status'[u] = status[u] /\ signedIn'[u] = signedIn[u] /\ chosen'[u] = chosen[u]
         /\ u \in DOMAIN credentials => credentials'[u] = credentials[u]
    /\ chosen'[op[p].user] = chosen[op[p].user] \/ op[p].alone
    /\ erased' = erased \/ (op[p].alone /\ erased' = erased \union {op[p].user})
    /\ \A t \in DOMAIN links' :
         \/ /\ t \in DOMAIN links
            /\ links'[t].user = links[t].user /\ links'[t].purpose = links[t].purpose
            /\ links[t].consumed => links'[t].consumed
         \/ /\ links'[t].user = op[p].user
            /\ links'[t].purpose = "reset" => op[p].user \in DOMAIN credentials

\* Both.
Fine == IInv /\ CInv

\* A statement of one call leaves what is known of every other call: of another user's because
\* its rows are untouched, of one of the same user because the two are not alone.
LEMMA FrameKeepsCalls ==
    ASSUME Fine, NEW p \in Procs, Frame(p), NEW q \in Procs, q # p
    PROVE  CallTypeOK(op[q])' /\ CallOK(op[q])'
<1>1. /\ op'[q] = op[q] /\ CallTypeOK(op[q]) /\ CallOK(op[q]) /\ overlaps' = overlaps
      /\ DOMAIN credentials \subseteq DOMAIN credentials'
  BY DEF Fine, CInv, Frame
<1>2. CASE op[q].pc = "idle"
  BY <1>1, <1>2 DEF CallTypeOK, CallOK, HasCredential, RowPcs, Redeems, Rotating, Matched, ErasePcs
<1>3. CASE op[q].pc # "idle" /\ op[q].user # op[p].user
  <2> DEFINE u == op[q].user
  <2>1. u \in Users
    BY <1>1, <1>3 DEF CallTypeOK
  <2>2. /\ status'[u] = status[u] /\ chosen'[u] = chosen[u]
        /\ u \in DOMAIN credentials => credentials'[u] = credentials[u]
        /\ u \in erased' => u \in erased
    BY <1>3, <2>1 DEF Frame
  <2>3. Unconsumed(u, BothPurposes)' \subseteq Unconsumed(u, BothPurposes)
    BY <1>3 DEF Frame, Unconsumed
  <2> QED  BY <1>1, <1>3, <2>2, <2>3 DEF CallTypeOK, CallOK, HasCredential, Redeems
<1>4. CASE op[q].pc # "idle" /\ op[q].user = op[p].user
  <2>1. ~op[p].alone /\ ~op[q].alone /\ op[p].pc # "idle"
    BY <1>4 DEF Fine, CInv, AloneIsAlone, InCallFor, Frame
  <2>2. overlaps # 0
    BY <1>4, <2>1 DEF Fine, IInv, Serial, OneAtATime, InCall
  <2>3. chosen'[op[q].user] = chosen[op[q].user] /\ erased' = erased
    BY <1>4, <2>1 DEF Frame
  <2> QED  BY <1>1, <2>1, <2>2, <2>3 DEF CallTypeOK, CallOK
<1> QED  BY <1>2, <1>3, <1>4

\* Nor does it touch what is known of another user.
LEMMA FrameKeepsUsers ==
    ASSUME Fine, NEW p \in Procs, Frame(p), NEW u \in Users, u # op[p].user
    PROVE  UserOK(u)'
<1>1. /\ status'[u] = status[u] /\ chosen'[u] = chosen[u]
      /\ u \in DOMAIN credentials => credentials'[u] = credentials[u]
      /\ signedIn'[u] = signedIn[u] /\ overlaps' = overlaps
      /\ u \in erased' => u \in erased
      /\ u \in DOMAIN credentials' <=> u \in DOMAIN credentials
  BY DEF Frame
<1>2. Unconsumed(u, BothPurposes)' \subseteq Unconsumed(u, BothPurposes)
  BY DEF Frame, Unconsumed
<1>3. UserOK(u)
  BY DEF Fine, CInv
<1> QED  BY <1>1, <1>2, <1>3 DEF UserOK, IsInHistory

\* So the statement has only its own call and user to account for.
LEMMA FrameIsEnough ==
    ASSUME Fine, NEW p \in Procs, Frame(p), TablesOK',
           CallTypeOK(op[p])', CallOK(op[p])', NEW u \in Users, u = op[p].user, UserOK(u)'
    PROVE  CInv'
<1>1. op[p].user \in Users
  BY DEF Fine, CInv, Frame, CallTypeOK
<1>2. AloneIsAlone'
  BY DEF Fine, CInv, Frame, AloneIsAlone, InCallFor, CallTypeOK
<1>3. erased' \subseteq Users
  BY <1>1 DEF Fine, CInv, Frame
<1> QED  BY <1>2, <1>3, FrameKeepsCalls, FrameKeepsUsers DEF CInv
-----------------------------------------------------------------------------
\* A call that arrives has read nothing yet; one that may replace the password gives up what was
\* chosen before.
LEMMA BeginIsFine ==
    ASSUME Fine, NEW p \in Procs, NEW call, Begin(p, call),
           Fields \subseteq DOMAIN call, call.user \in Users, call.pw \in Hashes,
           call.pc \in EarlyPcs, call.pc \notin {"loginUser", "confirmFind", "confirmUser"},
           call.pc \in {"gate", "gateClear"} /\ call.link # 0 => call.user \in DOMAIN credentials,
           \/ chosen' = chosen /\ Keeps(call, chosen[call.user].pw)
           \/ chosen' = [chosen EXCEPT ![call.user] = NoChoice]
    PROVE  CInv'
<1> DEFINE others == {q \in Procs : InCallFor(q, call.user)}
<1>1. /\ op' = [q \in Procs |-> IF q = p THEN [call EXCEPT !.alone = others = {}]
                                ELSE IF q \in others THEN [op[q] EXCEPT !.alone = FALSE]
                                ELSE op[q]]
      /\ overlaps' = overlaps + Cardinality(others)
      /\ UNCHANGED <<status, credentials, links, signedIn, erased>>
      /\ op[p].pc = "idle"
  BY DEF Begin, tables
<1>2. overlaps' = 0 => overlaps = 0
  <2>1. IsFiniteSet(others)
    BY ProcsAssumption, FS_Subset
  <2>2. Cardinality(others) \in Nat /\ overlaps \in Nat
    BY <2>1, FS_CardinalityType DEF Fine, IInv, Shapes
  <2> QED  BY <1>1, <2>2
<1>3. /\ op'[p].pc = call.pc /\ op'[p].user = call.user /\ op'[p].pw = call.pw
      /\ op'[p].link = call.link /\ op'[p].seen = call.seen /\ op'[p].row = call.row
      /\ Fields \subseteq DOMAIN op'[p]
      /\ op'[p].alone = (others = {})
  BY <1>1 DEF Fields
<1>4. \A q \in Procs : q # p =>
        /\ Fields \subseteq DOMAIN op'[q]
        /\ op'[q].pc = op[q].pc /\ op'[q].user = op[q].user /\ op'[q].seen = op[q].seen
        /\ op'[q].pw = op[q].pw /\ op'[q].row = op[q].row
        /\ op'[q].link = op[q].link /\ op'[q].retire = op[q].retire
        /\ op'[q].alone = IF q \in others THEN FALSE ELSE op[q].alone
  BY <1>1 DEF Fine, CInv, CallTypeOK, Fields
<1>5. /\ \A u \in Users : chosen'[u] \in {chosen[u], NoChoice}
      /\ chosen' = [u \in Users |-> chosen'[u]]
      /\ chosen'[call.user] # NoChoice => Keeps(call, chosen'[call.user].pw)
  BY DEF Fine, CInv, TablesOK
<1>6. TablesOK'
  <2>1. TablesOK
    BY DEF Fine, CInv
  <2>2. /\ status' = [u \in Users |-> status'[u]]
        /\ credentials' = [u \in DOMAIN credentials' |-> credentials'[u]]
        /\ signedIn' = [u \in Users |-> signedIn'[u]]
        /\ DOMAIN credentials' \subseteq Users
    BY <1>1, <2>1 DEF TablesOK
  <2>3. \A u \in DOMAIN credentials' : Row(credentials'[u]) /\ status'[u] # "none"
    BY <1>1, <2>1 DEF TablesOK
  <2>4. \A t \in DOMAIN links' : /\ links'[t].user \in Users
                                 /\ links'[t].purpose = "reset" => links'[t].user \in DOMAIN credentials'
    BY <1>1, <2>1 DEF TablesOK
  <2> QED  BY <1>5, <2>2, <2>3, <2>4 DEF TablesOK
<1>7. ASSUME NEW q \in Procs, q # p PROVE CallTypeOK(op[q])' /\ CallOK(op[q])'
  <2>1. CallTypeOK(op[q]) /\ CallOK(op[q])
    BY DEF Fine, CInv
  <2>2. CallTypeOK(op[q])'
    BY <1>4, <1>7, <2>1 DEF CallTypeOK
  <2>3. op[q].pc # "idle" => chosen'[op[q].user] \in {chosen[op[q].user], NoChoice}
    BY <1>5, <2>1 DEF CallTypeOK
  <2>4. CallOK(op[q])'
    BY <1>1, <1>2, <1>4, <1>7, <2>1, <2>3
    DEF CallOK, CallTypeOK, HasCredential, Keeps, Unconsumed
  <2> QED  BY <2>2, <2>4
<1>8. CallTypeOK(op[p])' /\ CallOK(op[p])'
  <2>1. /\ call.pc \notin RowPcs \union Rotating \union Redeems \union Matched \union ErasePcs
        /\ call.pc \notin {"idle", "statusSave", "loginCred", "requestRetire", "requestIssue"}
    BY DEF EarlyPcs, RowPcs, Rotating, Redeems, Matched, ErasePcs
  <2>2. CallTypeOK(op[p])'
    BY <1>3, <2>1 DEF CallTypeOK
  <2>3. Keeps(call, chosen'[call.user].pw) => Keeps(op'[p], chosen'[call.user].pw)
    BY <1>3 DEF Keeps
  <2>4. CallOK(op[p])'
    BY <1>1, <1>3, <1>5, <2>1, <2>3 DEF CallOK, HasCredential, RowPcs, Redeems, Matched, ErasePcs
  <2> QED  BY <2>2, <2>4
<1>9. \A u \in Users : UserOK(u)'
  <2> SUFFICES ASSUME NEW u \in Users PROVE UserOK(u)'
    OBVIOUS
  <2>1. UserOK(u) /\ chosen'[u] \in {chosen[u], NoChoice}
    BY <1>5 DEF Fine, CInv
  <2> QED  BY <1>1, <1>2, <2>1 DEF UserOK, Unconsumed
<1>10. AloneIsAlone'
  BY <1>1, <1>3, <1>4 DEF Fine, CInv, AloneIsAlone, InCallFor, CallTypeOK
<1>11. erased' \subseteq Users
  BY <1>1 DEF Fine, CInv
<1> QED  BY <1>6, <1>7, <1>8, <1>9, <1>10, <1>11 DEF CInv
-----------------------------------------------------------------------------
\* A statement that leaves the rows alone.
Moves(p) ==
    /\ UNCHANGED <<status, credentials, links, signedIn, chosen, erased, overlaps>>
    /\ op' = [q \in Procs |-> op'[q]]
    /\ \A q \in Procs : q # p => op'[q] = op[q]
    /\ op[p].pc # "idle"

\* A statement that leaves the rows alone has only its own call to account for.
LEMMA MovingFrame ==
    ASSUME Fine, NEW p \in Procs, Moves(p), op'[p].alone => op[p].alone,
           op'[p].pc # "idle" => op'[p].user = op[p].user,
           CallTypeOK(op'[p]), CallOK(op'[p])
    PROVE  CInv'
<1>1. Frame(p)
  <2>1. \A t \in DOMAIN links' :
          /\ t \in DOMAIN links
          /\ links'[t].user = links[t].user /\ links'[t].purpose = links[t].purpose
          /\ links[t].consumed => links'[t].consumed
    BY DEF Moves
  <2>2. /\ op' = [q \in Procs |-> op'[q]] /\ op[p].pc # "idle" /\ overlaps' = overlaps
        /\ \A q \in Procs : q # p => op'[q] = op[q]
        /\ status' = status /\ credentials' = credentials /\ signedIn' = signedIn
        /\ chosen' = chosen /\ erased' = erased
    BY DEF Moves
  <2> QED  BY <2>1, <2>2 DEF Frame
<1>2. TablesOK'
  <2>1. TablesOK /\ UNCHANGED <<status, credentials, links, signedIn, chosen>>
    BY DEF Fine, CInv, Moves
  <2> QED  BY <2>1 DEF TablesOK
<1>3. CallTypeOK(op[p])'
  BY DEF CallTypeOK
<1>4. CallOK(op[p])'
  BY DEF CallOK, Moves, Unconsumed
<1>5. op[p].user \in Users
  BY DEF Fine, CInv, CallTypeOK, Moves
<1>6. \A u \in Users : UserOK(u)'
  <2>1. \A u \in Users : UserOK(u)
    BY DEF Fine, CInv
  <2> QED  BY <2>1 DEF UserOK, Moves, Unconsumed
<1> QED  BY <1>1, <1>2, <1>3, <1>4, <1>5, <1>6, FrameIsEnough

\* A call that is over holds nothing.
LEMMA IdleIsFine == CallTypeOK(Idle) /\ CallOK(Idle) /\ Idle.pc = "idle" /\ Idle.alone = FALSE
<1>1. Idle.pc = "idle" /\ Idle.alone = FALSE /\ Idle.pw \in Hashes /\ Fields \subseteq DOMAIN Idle
  BY DEF Idle, Fields, Hashes
<1> HIDE DEF Idle
<1> QED  BY <1>1 DEF CallTypeOK, CallOK, HasCredential, RowPcs, Redeems, Rotating, Matched, ErasePcs

\* A call that returns owes nothing.
LEMMA ReturningIsFine == ASSUME Fine, NEW p \in Procs, Moves(p), op'[p] = Idle PROVE CInv'
  BY IdleIsFine, MovingFrame

\* What the invariant says of the call a statement belongs to.
LEMMA Known ==
    ASSUME Fine, NEW p \in Procs
    PROVE  /\ op = [q \in Procs |-> op[q]] /\ CallTypeOK(op[p]) /\ CallOK(op[p]) /\ TablesOK
           /\ op[p].pc # "idle" => UserOK(op[p].user)
  BY DEF Fine, IInv, Shapes, CInv, CallTypeOK

\* RegisterUserWithPassword: the lookup by address.
LEMMA RegisterFindKeeps == ASSUME Fine, NEW p \in Procs, RegisterFind(p) PROVE CInv'
<1> USE DEF RowPcs, Redeems, Rotating, Matched, ErasePcs, KeepPcs, EarlyPcs
<1>0. /\ op = [q \in Procs |-> op[q]] /\ CallTypeOK(op[p]) /\ CallOK(op[p]) /\ TablesOK
      /\ op[p].pc # "idle" => UserOK(op[p].user)
  BY Known
<1>1. Moves(p)
  BY <1>0 DEF RegisterFind, Moves, Goto, Return, Reads, tables, ghosts
<1>2. CASE op'[p] = Idle
  BY <1>1, <1>2, ReturningIsFine
<1>3. CASE op'[p] # Idle
  <2>1. op'[p].user = op[p].user /\ op'[p].alone = op[p].alone
    BY <1>0, <1>3 DEF RegisterFind, Goto, Return, CallTypeOK, Fields
  <2>2. CallTypeOK(op'[p])
    BY <1>0, <1>3, <2>1 DEF RegisterFind, Goto, Return, CallTypeOK, Fields, TablesOK, Hashes
  <2>3. CallOK(op'[p])
    BY <1>0, <1>3, <2>1
    DEF RegisterFind, Goto, Return, CallTypeOK, CallOK, HasCredential, Keeps, Fields, TablesOK,
        UserOK
  <2> QED  BY <1>1, <2>1, <2>2, <2>3, MovingFrame
<1> QED  BY <1>2, <1>3

\* The unique index on the address.
LEMMA RegisterConflictKeeps == ASSUME Fine, NEW p \in Procs, RegisterConflict(p) PROVE CInv'
<1> USE DEF RowPcs, Redeems, Rotating, Matched, ErasePcs, KeepPcs, EarlyPcs
<1>0. /\ op = [q \in Procs |-> op[q]] /\ CallTypeOK(op[p]) /\ CallOK(op[p]) /\ TablesOK
      /\ op[p].pc # "idle" => UserOK(op[p].user)
  BY Known
<1>1. Moves(p)
  BY <1>0 DEF RegisterConflict, Moves, Goto, Return, Reads, tables, ghosts
<1>2. CASE op'[p] = Idle
  BY <1>1, <1>2, ReturningIsFine
<1>3. CASE op'[p] # Idle
  <2>1. op'[p].user = op[p].user /\ op'[p].alone = op[p].alone
    BY <1>0, <1>3 DEF RegisterConflict, Goto, Return, CallTypeOK, Fields
  <2>2. CallTypeOK(op'[p])
    BY <1>0, <1>3, <2>1 DEF RegisterConflict, Goto, Return, CallTypeOK, Fields, TablesOK, Hashes
  <2>3. CallOK(op'[p])
    BY <1>0, <1>3, <2>1
    DEF RegisterConflict, Goto, Return, CallTypeOK, CallOK, HasCredential, Keeps, Fields, TablesOK
  <2> QED  BY <1>1, <2>1, <2>2, <2>3, MovingFrame
<1> QED  BY <1>2, <1>3

\* BruteForcePolicy.check.
LEMMA GateKeeps == ASSUME Fine, NEW p \in Procs, Gate(p) PROVE CInv'
<1> USE DEF RowPcs, Redeems, Rotating, Matched, ErasePcs, KeepPcs, EarlyPcs
<1>0. /\ op = [q \in Procs |-> op[q]] /\ CallTypeOK(op[p]) /\ CallOK(op[p]) /\ TablesOK
      /\ op[p].pc # "idle" => UserOK(op[p].user)
  BY Known
<1>1. Moves(p)
  BY <1>0 DEF Gate, Admit, Moves, Goto, Return, Reads, tables, ghosts
<1>2. CASE op'[p] = Idle
  BY <1>1, <1>2, ReturningIsFine
<1>3. CASE op'[p] # Idle
  <2>1. op'[p].user = op[p].user /\ op'[p].alone = op[p].alone
    BY <1>0, <1>3 DEF Gate, Admit, Goto, Return, CallTypeOK, Fields
  <2>2. CallTypeOK(op'[p])
    BY <1>0, <1>3, <2>1 DEF Gate, Admit, Goto, Return, CallTypeOK, Fields, TablesOK, Hashes
  <2>3. CallOK(op'[p])
    BY <1>0, <1>3, <2>1
    DEF Gate, Admit, Goto, Return, CallTypeOK, CallOK, HasCredential, Keeps, Fields, TablesOK
  <2> QED  BY <1>1, <2>1, <2>2, <2>3, MovingFrame
<1> QED  BY <1>2, <1>3

\* BruteForcePolicy.check, where the lock has elapsed.
LEMMA GateClearKeeps == ASSUME Fine, NEW p \in Procs, GateClear(p) PROVE CInv'
<1> USE DEF RowPcs, Redeems, Rotating, Matched, ErasePcs, KeepPcs, EarlyPcs
<1>0. /\ op = [q \in Procs |-> op[q]] /\ CallTypeOK(op[p]) /\ CallOK(op[p]) /\ TablesOK
      /\ op[p].pc # "idle" => UserOK(op[p].user)
  BY Known
<1>1. Moves(p)
  BY <1>0 DEF GateClear, Admit, Moves, Goto, Return, Reads, tables, ghosts
<1>2. CASE op'[p] = Idle
  BY <1>1, <1>2, ReturningIsFine
<1>3. CASE op'[p] # Idle
  <2>1. op'[p].user = op[p].user /\ op'[p].alone = op[p].alone
    BY <1>0, <1>3 DEF GateClear, Admit, Goto, Return, CallTypeOK, Fields
  <2>2. CallTypeOK(op'[p])
    BY <1>0, <1>3, <2>1 DEF GateClear, Admit, Goto, Return, CallTypeOK, Fields, TablesOK, Hashes
  <2>3. CallOK(op'[p])
    BY <1>0, <1>3, <2>1
    DEF GateClear, Admit, Goto, Return, CallTypeOK, CallOK, HasCredential, Keeps, Fields, TablesOK
  <2> QED  BY <1>1, <2>1, <2>2, <2>3, MovingFrame
<1> QED  BY <1>2, <1>3

\* BruteForcePolicy.recordFailure reads the count.
LEMMA ReadFailuresKeeps == ASSUME Fine, NEW p \in Procs, ReadFailures(p) PROVE CInv'
<1> USE DEF RowPcs, Redeems, Rotating, Matched, ErasePcs, KeepPcs, EarlyPcs
<1>0. /\ op = [q \in Procs |-> op[q]] /\ CallTypeOK(op[p]) /\ CallOK(op[p]) /\ TablesOK
      /\ op[p].pc # "idle" => UserOK(op[p].user)
  BY Known
<1>1. Moves(p)
  BY <1>0 DEF ReadFailures, Moves, Goto, Return, Reads, tables, ghosts
<1>2. CASE op'[p] = Idle
  BY <1>1, <1>2, ReturningIsFine
<1>3. CASE op'[p] # Idle
  <2>1. op'[p].user = op[p].user /\ op'[p].alone = op[p].alone
    BY <1>0, <1>3 DEF ReadFailures, Goto, Return, CallTypeOK, Fields
  <2>2. CallTypeOK(op'[p])
    BY <1>0, <1>3, <2>1 DEF ReadFailures, Goto, Return, CallTypeOK, Fields, TablesOK, Hashes
  <2>3. CallOK(op'[p])
    BY <1>0, <1>3, <2>1
    DEF ReadFailures, Goto, Return, CallTypeOK, CallOK, HasCredential, Keeps, Fields, TablesOK
  <2> QED  BY <1>1, <2>1, <2>2, <2>3, MovingFrame
<1> QED  BY <1>2, <1>3

\* BruteForcePolicy.recordFailure saves it.
LEMMA RecordFailureKeeps == ASSUME Fine, NEW p \in Procs, RecordFailure(p) PROVE CInv'
<1> USE DEF RowPcs, Redeems, Rotating, Matched, ErasePcs, KeepPcs, EarlyPcs
<1>0. /\ op = [q \in Procs |-> op[q]] /\ CallTypeOK(op[p]) /\ CallOK(op[p]) /\ TablesOK
      /\ op[p].pc # "idle" => UserOK(op[p].user)
  BY Known
<1>1. Moves(p)
  BY <1>0 DEF RecordFailure, Moves, Goto, Return, Reads, tables, ghosts
<1>2. CASE op'[p] = Idle
  BY <1>1, <1>2, ReturningIsFine
<1>3. CASE op'[p] # Idle
  <2>1. op'[p].user = op[p].user /\ op'[p].alone = op[p].alone
    BY <1>0, <1>3 DEF RecordFailure, Goto, Return, CallTypeOK, Fields
  <2>2. CallTypeOK(op'[p])
    BY <1>0, <1>3, <2>1 DEF RecordFailure, Goto, Return, CallTypeOK, Fields, TablesOK, Hashes
  <2>3. CallOK(op'[p])
    BY <1>0, <1>3, <2>1
    DEF RecordFailure, Goto, Return, CallTypeOK, CallOK, HasCredential, Keeps, Fields, TablesOK
  <2> QED  BY <1>1, <2>1, <2>2, <2>3, MovingFrame
<1> QED  BY <1>2, <1>3

\* AuthenticateWithPassword: the lookup of the user.
LEMMA LoginFindUserKeeps == ASSUME Fine, NEW p \in Procs, LoginFindUser(p) PROVE CInv'
<1> USE DEF RowPcs, Redeems, Rotating, Matched, ErasePcs, KeepPcs, EarlyPcs
<1>0. /\ op = [q \in Procs |-> op[q]] /\ CallTypeOK(op[p]) /\ CallOK(op[p]) /\ TablesOK
      /\ op[p].pc # "idle" => UserOK(op[p].user)
  BY Known
<1>1. Moves(p)
  BY <1>0 DEF LoginFindUser, CountFailure, Moves, Goto, Return, Reads, tables, ghosts
<1>2. CASE op'[p] = Idle
  BY <1>1, <1>2, ReturningIsFine
<1>3. CASE op'[p] # Idle
  <2>1. op'[p].user = op[p].user /\ op'[p].alone = op[p].alone
    BY <1>0, <1>3 DEF LoginFindUser, CountFailure, Goto, Return, CallTypeOK, Fields
  <2>2. CallTypeOK(op'[p])
    BY <1>0, <1>3, <2>1
    DEF LoginFindUser, CountFailure, Goto, Return, CallTypeOK, Fields, TablesOK, Hashes
  <2>3. CallOK(op'[p])
    BY <1>0, <1>3, <2>1
    DEF LoginFindUser, CountFailure, Goto, Return, CallTypeOK, CallOK, HasCredential, Keeps,
        Fields, TablesOK, UserOK, Found
  <2> QED  BY <1>1, <2>1, <2>2, <2>3, MovingFrame
<1> QED  BY <1>2, <1>3

\* AuthenticateWithPassword: a user without a password.
LEMMA LoginNoCredentialKeeps == ASSUME Fine, NEW p \in Procs, LoginNoCredential(p) PROVE CInv'
<1> USE DEF RowPcs, Redeems, Rotating, Matched, ErasePcs, KeepPcs, EarlyPcs
<1>0. /\ op = [q \in Procs |-> op[q]] /\ CallTypeOK(op[p]) /\ CallOK(op[p]) /\ TablesOK
      /\ op[p].pc # "idle" => UserOK(op[p].user)
  BY Known
<1>1. Moves(p)
  BY <1>0 DEF LoginNoCredential, CountFailure, Moves, Goto, Return, Reads, tables, ghosts
<1>2. CASE op'[p] = Idle
  BY <1>1, <1>2, ReturningIsFine
<1>3. CASE op'[p] # Idle
  <2>1. op'[p].user = op[p].user /\ op'[p].alone = op[p].alone
    BY <1>0, <1>3 DEF LoginNoCredential, CountFailure, Goto, Return, CallTypeOK, Fields
  <2>2. CallTypeOK(op'[p])
    BY <1>0, <1>3, <2>1
    DEF LoginNoCredential, CountFailure, Goto, Return, CallTypeOK, Fields, TablesOK, Hashes
  <2>3. CallOK(op'[p])
    BY <1>0, <1>3, <2>1
    DEF LoginNoCredential, CountFailure, Goto, Return, CallTypeOK, CallOK, HasCredential, Keeps,
        Fields, TablesOK
  <2> QED  BY <1>1, <2>1, <2>2, <2>3, MovingFrame
<1> QED  BY <1>2, <1>3

\* AuthenticateWithPassword: the row the failure will be saved with.
LEMMA LoginMismatchKeeps == ASSUME Fine, NEW p \in Procs, LoginMismatch(p) PROVE CInv'
<1> USE DEF RowPcs, Redeems, Rotating, Matched, ErasePcs, KeepPcs, EarlyPcs
<1>0. /\ op = [q \in Procs |-> op[q]] /\ CallTypeOK(op[p]) /\ CallOK(op[p]) /\ TablesOK
      /\ op[p].pc # "idle" => UserOK(op[p].user)
  BY Known
<1>1. Moves(p)
  BY <1>0 DEF LoginMismatch, Stored, Moves, Goto, Return, Reads, tables, ghosts
<1>2. CASE op'[p] = Idle
  BY <1>1, <1>2, ReturningIsFine
<1>3. CASE op'[p] # Idle
  <2>1. op'[p].user = op[p].user /\ op'[p].alone = op[p].alone
    BY <1>0, <1>3 DEF LoginMismatch, Stored, Goto, Return, CallTypeOK, Fields
  <2>2. CallTypeOK(op'[p])
    BY <1>0, <1>3, <2>1
    DEF LoginMismatch, Stored, Goto, Return, CallTypeOK, Fields, TablesOK, Hashes
  <2>3. CallOK(op'[p])
    BY <1>0, <1>3, <2>1
    DEF LoginMismatch, Stored, Goto, Return, CallTypeOK, CallOK, HasCredential, Keeps, Fields,
        TablesOK, UserOK
  <2> QED  BY <1>1, <2>1, <2>2, <2>3, MovingFrame
<1> QED  BY <1>2, <1>3

\* AuthenticateWithPassword: a match is against the password in force, so against the chosen one.
LEMMA LoginMatchKeeps == ASSUME Fine, NEW p \in Procs, LoginMatch(p) PROVE CInv'
<1> USE DEF RowPcs, Redeems, Rotating, Matched, ErasePcs, KeepPcs, EarlyPcs
<1>0. /\ op = [q \in Procs |-> op[q]] /\ CallTypeOK(op[p]) /\ CallOK(op[p]) /\ TablesOK
      /\ op[p].pc # "idle" => UserOK(op[p].user)
  BY Known
<1>1. Moves(p)
  BY <1>0 DEF LoginMatch, Stored, Moves, Goto, Return, Reads, tables, ghosts
<1>2. CASE op'[p] = Idle
  BY <1>1, <1>2, ReturningIsFine
<1>3. CASE op'[p] # Idle
  <2>1. op'[p].user = op[p].user /\ op'[p].alone = op[p].alone
    BY <1>0, <1>3 DEF LoginMatch, Stored, Goto, Return, CallTypeOK, Fields
  <2>2. CallTypeOK(op'[p])
    BY <1>0, <1>3, <2>1 DEF LoginMatch, Stored, Goto, Return, CallTypeOK, Fields, TablesOK, Hashes
  <2>3. CallOK(op'[p])
    BY <1>0, <1>3, <2>1
    DEF LoginMatch, Stored, Goto, Return, CallTypeOK, CallOK, HasCredential, Keeps, Fields,
        TablesOK, UserOK
  <2> QED  BY <1>1, <2>1, <2>2, <2>3, MovingFrame
<1> QED  BY <1>2, <1>3

\* AuthenticateWithPassword: recordSuccess.
LEMMA LoginSucceedKeeps == ASSUME Fine, NEW p \in Procs, LoginSucceed(p) PROVE CInv'
<1> USE DEF RowPcs, Redeems, Rotating, Matched, ErasePcs, KeepPcs, EarlyPcs
<1>0. /\ op = [q \in Procs |-> op[q]] /\ CallTypeOK(op[p]) /\ CallOK(op[p]) /\ TablesOK
      /\ op[p].pc # "idle" => UserOK(op[p].user)
  BY Known
<1>1. Moves(p)
  BY <1>0 DEF LoginSucceed, Moves, Goto, Return, Reads, tables, ghosts
<1>2. CASE op'[p] = Idle
  BY <1>1, <1>2, ReturningIsFine
<1>3. CASE op'[p] # Idle
  <2>1. op'[p].user = op[p].user /\ op'[p].alone = op[p].alone
    BY <1>0, <1>3 DEF LoginSucceed, Goto, Return, CallTypeOK, Fields
  <2>2. CallTypeOK(op'[p])
    BY <1>0, <1>3, <2>1 DEF LoginSucceed, Goto, Return, CallTypeOK, Fields, TablesOK, Hashes
  <2>3. CallOK(op'[p])
    BY <1>0, <1>3, <2>1
    DEF LoginSucceed, Goto, Return, CallTypeOK, CallOK, HasCredential, Keeps, Fields, TablesOK
  <2> QED  BY <1>1, <2>1, <2>2, <2>3, MovingFrame
<1> QED  BY <1>2, <1>3

\* ChangePassword: the lookup of the user.
LEMMA ChangeFindUserKeeps == ASSUME Fine, NEW p \in Procs, ChangeFindUser(p) PROVE CInv'
<1> USE DEF RowPcs, Redeems, Rotating, Matched, ErasePcs, KeepPcs, EarlyPcs
<1>0. /\ op = [q \in Procs |-> op[q]] /\ CallTypeOK(op[p]) /\ CallOK(op[p]) /\ TablesOK
      /\ op[p].pc # "idle" => UserOK(op[p].user)
  BY Known
<1>1. Moves(p)
  BY <1>0 DEF ChangeFindUser, Moves, Goto, Return, Reads, tables, ghosts
<1>2. CASE op'[p] = Idle
  BY <1>1, <1>2, ReturningIsFine
<1>3. CASE op'[p] # Idle
  <2>1. op'[p].user = op[p].user /\ op'[p].alone = op[p].alone
    BY <1>0, <1>3 DEF ChangeFindUser, Goto, Return, CallTypeOK, Fields
  <2>2. CallTypeOK(op'[p])
    BY <1>0, <1>3, <2>1 DEF ChangeFindUser, Goto, Return, CallTypeOK, Fields, TablesOK, Hashes
  <2>3. CallOK(op'[p])
    BY <1>0, <1>3, <2>1
    DEF ChangeFindUser, Goto, Return, CallTypeOK, CallOK, HasCredential, Keeps, Fields, TablesOK,
        UserOK, Found
  <2> QED  BY <1>1, <2>1, <2>2, <2>3, MovingFrame
<1> QED  BY <1>2, <1>3

\* ChangePassword: the new password is not the current one, nor one of the history.
LEMMA ChangeCheckKeeps == ASSUME Fine, NEW p \in Procs, ChangeCheck(p) PROVE CInv'
<1> USE DEF RowPcs, Redeems, Rotating, Matched, ErasePcs, KeepPcs, EarlyPcs
<1>0. /\ op = [q \in Procs |-> op[q]] /\ CallTypeOK(op[p]) /\ CallOK(op[p]) /\ TablesOK
      /\ op[p].pc # "idle" => UserOK(op[p].user)
  BY Known
<1>1. Moves(p)
  BY <1>0 DEF ChangeCheck, MayChange, Stored, Moves, Goto, Return, Reads, tables, ghosts
<1>2. CASE op'[p] = Idle
  BY <1>1, <1>2, ReturningIsFine
<1>3. CASE op'[p] # Idle
  <2>1. op'[p].user = op[p].user /\ op'[p].alone = op[p].alone
    BY <1>0, <1>3 DEF ChangeCheck, MayChange, Stored, Goto, Return, CallTypeOK, Fields
  <2>2. CallTypeOK(op'[p])
    BY <1>0, <1>3, <2>1
    DEF ChangeCheck, MayChange, Stored, Goto, Return, CallTypeOK, Fields, TablesOK, Hashes
  <2>3. CallOK(op'[p])
    BY <1>0, <1>3, <2>1
    DEF ChangeCheck, MayChange, Stored, Goto, Return, CallTypeOK, CallOK, HasCredential, Keeps,
        Fields, TablesOK
  <2> QED  BY <1>1, <2>1, <2>2, <2>3, MovingFrame
<1> QED  BY <1>2, <1>3

\* ChangePassword: the row is read again, to be rotated.
LEMMA ChangeReadKeeps == ASSUME Fine, NEW p \in Procs, ChangeRead(p) PROVE CInv'
<1> USE DEF RowPcs, Redeems, Rotating, Matched, ErasePcs, KeepPcs, EarlyPcs
<1>0. /\ op = [q \in Procs |-> op[q]] /\ CallTypeOK(op[p]) /\ CallOK(op[p]) /\ TablesOK
      /\ op[p].pc # "idle" => UserOK(op[p].user)
  BY Known
<1>1. Moves(p)
  BY <1>0 DEF ChangeRead, Stored, Moves, Goto, Return, Reads, tables, ghosts
<1>2. CASE op'[p] = Idle
  BY <1>1, <1>2, ReturningIsFine
<1>3. CASE op'[p] # Idle
  <2>1. op'[p].user = op[p].user /\ op'[p].alone = op[p].alone
    BY <1>0, <1>3 DEF ChangeRead, Stored, Goto, Return, CallTypeOK, Fields
  <2>2. CallTypeOK(op'[p])
    BY <1>0, <1>3, <2>1
    DEF ChangeRead, Stored, Goto, Return, CallTypeOK, Fields, TablesOK, Hashes, CallOK,
        HasCredential
  <2>3. CallOK(op'[p])
    BY <1>0, <1>3, <2>1
    DEF ChangeRead, Stored, Goto, Return, CallTypeOK, CallOK, HasCredential, Keeps, Fields, TablesOK
  <2> QED  BY <1>1, <2>1, <2>2, <2>3, MovingFrame
<1> QED  BY <1>2, <1>3

\* RequestPasswordReset, RequestEmailVerification: the lookups.
LEMMA RequestFindKeeps == ASSUME Fine, NEW p \in Procs, RequestFind(p) PROVE CInv'
<1> USE DEF RowPcs, Redeems, Rotating, Matched, ErasePcs, KeepPcs, EarlyPcs
<1>0. /\ op = [q \in Procs |-> op[q]] /\ CallTypeOK(op[p]) /\ CallOK(op[p]) /\ TablesOK
      /\ op[p].pc # "idle" => UserOK(op[p].user)
  BY Known
<1>1. Moves(p)
  BY <1>0 DEF RequestFind, MayIssue, Moves, Goto, Return, Reads, tables, ghosts
<1>2. CASE op'[p] = Idle
  BY <1>1, <1>2, ReturningIsFine
<1>3. CASE op'[p] # Idle
  <2>1. op'[p].user = op[p].user /\ op'[p].alone = op[p].alone
    BY <1>0, <1>3 DEF RequestFind, MayIssue, Goto, Return, CallTypeOK, Fields
  <2>2. CallTypeOK(op'[p])
    BY <1>0, <1>3, <2>1
    DEF RequestFind, MayIssue, Goto, Return, CallTypeOK, Fields, TablesOK, Hashes
  <2>3. CallOK(op'[p])
    BY <1>0, <1>3, <2>1
    DEF RequestFind, MayIssue, Goto, Return, CallTypeOK, CallOK, HasCredential, Keeps, Fields,
        TablesOK, UserOK, Found
  <2> QED  BY <1>1, <2>1, <2>2, <2>3, MovingFrame
<1> QED  BY <1>2, <1>3

\* Both requests retire what is outstanding.
LEMMA RequestRetireKeeps == ASSUME Fine, NEW p \in Procs, RequestRetire(p) PROVE CInv'
<1> USE DEF RowPcs, Redeems, Rotating, Matched, ErasePcs, KeepPcs, EarlyPcs
<1>0. /\ op = [q \in Procs |-> op[q]] /\ CallTypeOK(op[p]) /\ CallOK(op[p]) /\ TablesOK
      /\ op[p].pc # "idle" => UserOK(op[p].user)
  BY Known
<1>1. Moves(p)
  BY <1>0 DEF RequestRetire, Retire, Moves, Goto, Return, Reads, tables, ghosts
<1>2. CASE op'[p] = Idle
  BY <1>1, <1>2, ReturningIsFine
<1>3. CASE op'[p] # Idle
  <2>1. op'[p].user = op[p].user /\ op'[p].alone = op[p].alone
    BY <1>0, <1>3 DEF RequestRetire, Retire, Goto, Return, CallTypeOK, Fields
  <2>2. CallTypeOK(op'[p])
    BY <1>0, <1>3, <2>1
    DEF RequestRetire, Retire, Goto, Return, CallTypeOK, Fields, TablesOK, Hashes
  <2>3. CallOK(op'[p])
    BY <1>0, <1>3, <2>1
    DEF RequestRetire, Retire, Goto, Return, CallTypeOK, CallOK, HasCredential, Keeps, Fields,
        TablesOK
  <2> QED  BY <1>1, <2>1, <2>2, <2>3, MovingFrame
<1> QED  BY <1>2, <1>3

\* Both requests mail the link.
LEMMA SendMailKeeps == ASSUME Fine, NEW p \in Procs, SendMail(p) PROVE CInv'
<1> USE DEF RowPcs, Redeems, Rotating, Matched, ErasePcs, KeepPcs, EarlyPcs
<1>0. /\ op = [q \in Procs |-> op[q]] /\ CallTypeOK(op[p]) /\ CallOK(op[p]) /\ TablesOK
      /\ op[p].pc # "idle" => UserOK(op[p].user)
  BY Known
<1>1. Moves(p)
  BY <1>0 DEF SendMail, Moves, Goto, Return, Reads, tables, ghosts
<1>2. CASE op'[p] = Idle
  BY <1>1, <1>2, ReturningIsFine
<1>3. CASE op'[p] # Idle
  <2>1. op'[p].user = op[p].user /\ op'[p].alone = op[p].alone
    BY <1>0, <1>3 DEF SendMail, Goto, Return, CallTypeOK, Fields
  <2>2. CallTypeOK(op'[p])
    BY <1>0, <1>3, <2>1 DEF SendMail, Goto, Return, CallTypeOK, Fields, TablesOK, Hashes
  <2>3. CallOK(op'[p])
    BY <1>0, <1>3, <2>1
    DEF SendMail, Goto, Return, CallTypeOK, CallOK, HasCredential, Keeps, Fields, TablesOK
  <2> QED  BY <1>1, <2>1, <2>2, <2>3, MovingFrame
<1> QED  BY <1>2, <1>3

\* ConfirmPasswordReset: the lookup of the link.
LEMMA ConfirmFindKeeps == ASSUME Fine, NEW p \in Procs, ConfirmFind(p) PROVE CInv'
<1> USE DEF RowPcs, Redeems, Rotating, Matched, ErasePcs, KeepPcs, EarlyPcs
<1>0. /\ op = [q \in Procs |-> op[q]] /\ CallTypeOK(op[p]) /\ CallOK(op[p]) /\ TablesOK
      /\ op[p].pc # "idle" => UserOK(op[p].user)
  BY Known
<1>1. Moves(p)
  BY <1>0 DEF ConfirmFind, CountFailure, Moves, Goto, Return, Reads, tables, ghosts
<1>2. CASE op'[p] = Idle
  BY <1>1, <1>2, ReturningIsFine
<1>3. CASE op'[p] # Idle
  <2>1. op'[p].user = op[p].user /\ op'[p].alone = op[p].alone
    BY <1>0, <1>3 DEF ConfirmFind, CountFailure, Goto, Return, CallTypeOK, Fields
  <2>2. CallTypeOK(op'[p])
    BY <1>0, <1>3, <2>1
    DEF ConfirmFind, CountFailure, Goto, Return, CallTypeOK, Fields, TablesOK, Hashes
  <2>3. CallOK(op'[p])
    BY <1>0, <1>3, <2>1
    DEF ConfirmFind, CountFailure, Goto, Return, CallTypeOK, CallOK, HasCredential, Keeps,
        Fields, TablesOK
  <2> QED  BY <1>1, <2>1, <2>2, <2>3, MovingFrame
<1> QED  BY <1>2, <1>3

\* ConfirmPasswordReset: the lookup of the user.
LEMMA ConfirmFindUserKeeps == ASSUME Fine, NEW p \in Procs, ConfirmFindUser(p) PROVE CInv'
<1> USE DEF RowPcs, Redeems, Rotating, Matched, ErasePcs, KeepPcs, EarlyPcs
<1>0. /\ op = [q \in Procs |-> op[q]] /\ CallTypeOK(op[p]) /\ CallOK(op[p]) /\ TablesOK
      /\ op[p].pc # "idle" => UserOK(op[p].user)
  BY Known
<1>1. Moves(p)
  BY <1>0 DEF ConfirmFindUser, CountFailure, Moves, Goto, Return, Reads, tables, ghosts
<1>2. CASE op'[p] = Idle
  BY <1>1, <1>2, ReturningIsFine
<1>3. CASE op'[p] # Idle
  <2>1. op'[p].user = op[p].user /\ op'[p].alone = op[p].alone
    BY <1>0, <1>3 DEF ConfirmFindUser, CountFailure, Goto, Return, CallTypeOK, Fields
  <2>2. CallTypeOK(op'[p])
    BY <1>0, <1>3, <2>1
    DEF ConfirmFindUser, CountFailure, Goto, Return, CallTypeOK, Fields, TablesOK, Hashes
  <2>3. CallOK(op'[p])
    BY <1>0, <1>3, <2>1
    DEF ConfirmFindUser, CountFailure, Goto, Return, CallTypeOK, CallOK, HasCredential, Keeps,
        Fields, TablesOK, UserOK, Found
  <2> QED  BY <1>1, <2>1, <2>2, <2>3, MovingFrame
<1> QED  BY <1>2, <1>3

\* ConfirmPasswordReset: save(consumed).
LEMMA ConfirmConsumeKeeps == ASSUME Fine, NEW p \in Procs, ConfirmConsume(p) PROVE CInv'
<1> USE DEF RowPcs, Redeems, Rotating, Matched, ErasePcs, KeepPcs, EarlyPcs
<1>0. /\ op = [q \in Procs |-> op[q]] /\ CallTypeOK(op[p]) /\ CallOK(op[p]) /\ TablesOK
      /\ op[p].pc # "idle" => UserOK(op[p].user)
  BY Known
<1>1. Moves(p)
  BY <1>0 DEF ConfirmConsume, Moves, Goto, Return, Reads, tables, ghosts
<1>2. CASE op'[p] = Idle
  BY <1>1, <1>2, ReturningIsFine
<1>3. CASE op'[p] # Idle
  <2>1. op'[p].user = op[p].user /\ op'[p].alone = op[p].alone
    BY <1>0, <1>3 DEF ConfirmConsume, Goto, Return, CallTypeOK, Fields
  <2>2. CallTypeOK(op'[p])
    BY <1>0, <1>3, <2>1 DEF ConfirmConsume, Goto, Return, CallTypeOK, Fields, TablesOK, Hashes
  <2>3. CallOK(op'[p])
    BY <1>0, <1>3, <2>1
    DEF ConfirmConsume, Goto, Return, CallTypeOK, CallOK, HasCredential, Keeps, Fields, TablesOK
  <2> QED  BY <1>1, <2>1, <2>2, <2>3, MovingFrame
<1> QED  BY <1>2, <1>3

\* ConfirmPasswordReset: the new password is not one of the old.
LEMMA ConfirmCheckKeeps == ASSUME Fine, NEW p \in Procs, ConfirmCheck(p) PROVE CInv'
<1> USE DEF RowPcs, Redeems, Rotating, Matched, ErasePcs, KeepPcs, EarlyPcs
<1>0. /\ op = [q \in Procs |-> op[q]] /\ CallTypeOK(op[p]) /\ CallOK(op[p]) /\ TablesOK
      /\ op[p].pc # "idle" => UserOK(op[p].user)
  BY Known
<1>1. Moves(p)
  BY <1>0 DEF ConfirmCheck, Stored, Moves, Goto, Return, Reads, tables, ghosts
<1>2. CASE op'[p] = Idle
  BY <1>1, <1>2, ReturningIsFine
<1>3. CASE op'[p] # Idle
  <2>1. op'[p].user = op[p].user /\ op'[p].alone = op[p].alone
    BY <1>0, <1>3 DEF ConfirmCheck, Stored, Goto, Return, CallTypeOK, Fields
  <2>2. CallTypeOK(op'[p])
    BY <1>0, <1>3, <2>1
    DEF ConfirmCheck, Stored, Goto, Return, CallTypeOK, Fields, TablesOK, Hashes, CallOK,
        HasCredential
  <2>3. CallOK(op'[p])
    BY <1>0, <1>3, <2>1
    DEF ConfirmCheck, Stored, Goto, Return, CallTypeOK, CallOK, HasCredential, Keeps, Fields,
        TablesOK
  <2> QED  BY <1>1, <2>1, <2>2, <2>3, MovingFrame
<1> QED  BY <1>2, <1>3

\* ConfirmPasswordReset: recordSuccess, once the rotation is committed.
LEMMA ConfirmSucceedKeeps == ASSUME Fine, NEW p \in Procs, ConfirmSucceed(p) PROVE CInv'
<1> USE DEF RowPcs, Redeems, Rotating, Matched, ErasePcs, KeepPcs, EarlyPcs
<1>0. /\ op = [q \in Procs |-> op[q]] /\ CallTypeOK(op[p]) /\ CallOK(op[p]) /\ TablesOK
      /\ op[p].pc # "idle" => UserOK(op[p].user)
  BY Known
<1>1. Moves(p)
  BY <1>0 DEF ConfirmSucceed, Moves, Goto, Return, Reads, tables, ghosts
<1>2. CASE op'[p] = Idle
  BY <1>1, <1>2, ReturningIsFine
<1>3. CASE op'[p] # Idle
  <2>1. op'[p].user = op[p].user /\ op'[p].alone = op[p].alone
    BY <1>0, <1>3 DEF ConfirmSucceed, Goto, Return, CallTypeOK, Fields
  <2>2. CallTypeOK(op'[p])
    BY <1>0, <1>3, <2>1 DEF ConfirmSucceed, Goto, Return, CallTypeOK, Fields, TablesOK, Hashes
  <2>3. CallOK(op'[p])
    BY <1>0, <1>3, <2>1
    DEF ConfirmSucceed, Goto, Return, CallTypeOK, CallOK, HasCredential, Keeps, Fields, TablesOK
  <2> QED  BY <1>1, <2>1, <2>2, <2>3, MovingFrame
<1> QED  BY <1>2, <1>3

\* ConfirmEmailVerification: the lookup of the link.
LEMMA EmailFindKeeps == ASSUME Fine, NEW p \in Procs, EmailFind(p) PROVE CInv'
<1> USE DEF RowPcs, Redeems, Rotating, Matched, ErasePcs, KeepPcs, EarlyPcs
<1>0. /\ op = [q \in Procs |-> op[q]] /\ CallTypeOK(op[p]) /\ CallOK(op[p]) /\ TablesOK
      /\ op[p].pc # "idle" => UserOK(op[p].user)
  BY Known
<1>1. Moves(p)
  BY <1>0 DEF EmailFind, Moves, Goto, Return, Reads, tables, ghosts
<1>2. CASE op'[p] = Idle
  BY <1>1, <1>2, ReturningIsFine
<1>3. CASE op'[p] # Idle
  <2>1. op'[p].user = op[p].user /\ op'[p].alone = op[p].alone
    BY <1>0, <1>3 DEF EmailFind, Goto, Return, CallTypeOK, Fields
  <2>2. CallTypeOK(op'[p])
    BY <1>0, <1>3, <2>1 DEF EmailFind, Goto, Return, CallTypeOK, Fields, TablesOK, Hashes
  <2>3. CallOK(op'[p])
    BY <1>0, <1>3, <2>1
    DEF EmailFind, Goto, Return, CallTypeOK, CallOK, HasCredential, Keeps, Fields, TablesOK
  <2> QED  BY <1>1, <2>1, <2>2, <2>3, MovingFrame
<1> QED  BY <1>2, <1>3

\* ConfirmEmailVerification: the lookup of the user.
LEMMA EmailFindUserKeeps == ASSUME Fine, NEW p \in Procs, EmailFindUser(p) PROVE CInv'
<1> USE DEF RowPcs, Redeems, Rotating, Matched, ErasePcs, KeepPcs, EarlyPcs
<1>0. /\ op = [q \in Procs |-> op[q]] /\ CallTypeOK(op[p]) /\ CallOK(op[p]) /\ TablesOK
      /\ op[p].pc # "idle" => UserOK(op[p].user)
  BY Known
<1>1. Moves(p)
  BY <1>0 DEF EmailFindUser, Moves, Goto, Return, Reads, tables, ghosts
<1>2. CASE op'[p] = Idle
  BY <1>1, <1>2, ReturningIsFine
<1>3. CASE op'[p] # Idle
  <2>1. op'[p].user = op[p].user /\ op'[p].alone = op[p].alone
    BY <1>0, <1>3 DEF EmailFindUser, Goto, Return, CallTypeOK, Fields
  <2>2. CallTypeOK(op'[p])
    BY <1>0, <1>3, <2>1 DEF EmailFindUser, Goto, Return, CallTypeOK, Fields, TablesOK, Hashes
  <2>3. CallOK(op'[p])
    BY <1>0, <1>3, <2>1
    DEF EmailFindUser, Goto, Return, CallTypeOK, CallOK, HasCredential, Keeps, Fields, TablesOK,
        UserOK, Found
  <2> QED  BY <1>1, <2>1, <2>2, <2>3, MovingFrame
<1> QED  BY <1>2, <1>3

\* SuspendUser, ReactivateUser, UpdateUserProfile and the deletion read the user.
LEMMA StatusFindKeeps == ASSUME Fine, NEW p \in Procs, StatusFind(p) PROVE CInv'
<1>0. /\ op = [q \in Procs |-> op[q]] /\ CallTypeOK(op[p]) /\ CallOK(op[p]) /\ TablesOK
      /\ op[p].pc # "idle" => UserOK(op[p].user)
  BY Known
<1>1. Moves(p)
  BY <1>0 DEF StatusFind, Moves, Return, Reads, tables, ghosts
<1>2. CASE op'[p] = Idle
  BY <1>1, <1>2, ReturningIsFine
<1>3. CASE op'[p] # Idle
  <2> DEFINE to == op[p].pc
             from == status[op[p].user]
  <2>1. /\ to \in {"suspended", "active", "deleted", "same"} /\ Found(from)
        /\ op'[p] = [op[p] EXCEPT !.pc = "statusSave", !.seen = IF to = "same" THEN from ELSE to]
    BY <1>0, <1>3 DEF StatusFind, Return
  <2>2. /\ Fields \subseteq DOMAIN op'[p]
        /\ op'[p].pc = "statusSave" /\ op'[p].seen = IF to = "same" THEN from ELSE to
        /\ op'[p].user = op[p].user /\ op'[p].alone = op[p].alone /\ op'[p].pw = op[p].pw
    BY <1>0, <2>1 DEF CallTypeOK, Fields
  <2>3. op'[p].seen # "none" /\ (op'[p].seen = "deleted" => to = "deleted")
    BY <2>1, <2>2 DEF Found
  <2>4. CallTypeOK(op'[p])
    BY <1>0, <2>1, <2>2, <2>3 DEF CallTypeOK, RowPcs, Matched
  <2>5. op[p].user \notin erased
    BY <1>0, <2>1 DEF UserOK, Found
  <2>6. CallOK(op'[p])
    BY <1>0, <2>1, <2>2, <2>3, <2>5
    DEF CallOK, HasCredential, Keeps, RowPcs, Redeems, Rotating, Matched, ErasePcs, KeepPcs
  <2> QED  BY <1>1, <2>2, <2>4, <2>6, MovingFrame
<1> QED  BY <1>2, <1>3

\* HandleUserDeleted reads the row.
LEMMA EraseFindKeeps == ASSUME Fine, NEW p \in Procs, EraseFind(p) PROVE CInv'
<1> USE DEF RowPcs, Redeems, Rotating, Matched, ErasePcs, KeepPcs, EarlyPcs
<1>0. /\ op = [q \in Procs |-> op[q]] /\ CallTypeOK(op[p]) /\ CallOK(op[p]) /\ TablesOK
      /\ op[p].pc # "idle" => UserOK(op[p].user)
  BY Known
<1>1. Moves(p)
  BY <1>0 DEF EraseFind, Stored, Moves, Goto, Return, Reads, tables, ghosts
<1>2. CASE op'[p] = Idle
  BY <1>1, <1>2, ReturningIsFine
<1>3. CASE op'[p] # Idle
  <2>1. op'[p].user = op[p].user /\ op'[p].alone = op[p].alone
    BY <1>0, <1>3 DEF EraseFind, Stored, Goto, Return, CallTypeOK, Fields
  <2>2. CallTypeOK(op'[p])
    BY <1>0, <1>3, <2>1 DEF EraseFind, Stored, Goto, Return, CallTypeOK, Fields, TablesOK, Hashes
  <2>3. CallOK(op'[p])
    BY <1>0, <1>3, <2>1
    DEF EraseFind, Stored, Goto, Return, CallTypeOK, CallOK, HasCredential, Keeps, Fields, TablesOK
  <2> QED  BY <1>1, <2>1, <2>2, <2>3, MovingFrame
<1> QED  BY <1>2, <1>3

\* HandleUserDeleted retires every link, of both purposes.
LEMMA EraseRetireKeeps == ASSUME Fine, NEW p \in Procs, EraseRetire(p) PROVE CInv'
<1> USE DEF RowPcs, Redeems, Rotating, Matched, ErasePcs, KeepPcs, EarlyPcs
<1>0. /\ op = [q \in Procs |-> op[q]] /\ CallTypeOK(op[p]) /\ CallOK(op[p]) /\ TablesOK
      /\ op[p].pc # "idle" => UserOK(op[p].user)
  BY Known
<1>1. Moves(p)
  BY <1>0 DEF EraseRetire, Retire, Moves, Goto, Return, Reads, tables, ghosts
<1>2. CASE op'[p] = Idle
  BY <1>1, <1>2, ReturningIsFine
<1>3. CASE op'[p] # Idle
  <2>1. op'[p].user = op[p].user /\ op'[p].alone = op[p].alone
    BY <1>0, <1>3 DEF EraseRetire, Retire, Goto, Return, CallTypeOK, Fields
  <2>2. CallTypeOK(op'[p])
    BY <1>0, <1>3, <2>1 DEF EraseRetire, Retire, Goto, Return, CallTypeOK, Fields, TablesOK, Hashes
  <2>3. CallOK(op'[p])
    BY <1>0, <1>3, <2>1
    DEF EraseRetire, Retire, Goto, Return, CallTypeOK, CallOK, HasCredential, Keeps, Fields,
        TablesOK, BothPurposes, Unconsumed
  <2> QED  BY <1>1, <2>1, <2>2, <2>3, MovingFrame
<1> QED  BY <1>2, <1>3

\* A statement that returns leaves a call that is over.
LEMMA ReturnedIsFine ==
    ASSUME NEW p \in Procs, op'[p] = Idle PROVE CallTypeOK(op[p])' /\ CallOK(op[p])'
<1>1. Idle.pc = "idle" /\ Idle.alone = FALSE /\ Idle.pw \in Hashes /\ Fields \subseteq DOMAIN Idle
  BY DEF Idle, Fields, Hashes
<1> HIDE DEF Idle
<1> QED  BY <1>1 DEF CallTypeOK, CallOK, HasCredential, RowPcs, Redeems, Rotating, Matched, ErasePcs

\* Consuming links changes nothing else about them.
LEMMA LinksKeep ==
    ASSUME Fine, LinksStay
    PROVE  /\ DOMAIN links' = DOMAIN links
           /\ \A t \in DOMAIN links : /\ links'[t].user = links[t].user
                                      /\ links'[t].purpose = links[t].purpose
                                      /\ links[t].consumed => links'[t].consumed
<1>1. CASE links' = links
  BY <1>1
<1>2. ASSUME NEW ids, links' = Consumed(ids)
      PROVE  /\ DOMAIN links' = DOMAIN links
             /\ \A t \in DOMAIN links : /\ links'[t].user = links[t].user
                                        /\ links'[t].purpose = links[t].purpose
                                        /\ links[t].consumed => links'[t].consumed
  <2>1. /\ DOMAIN links' = DOMAIN links
        /\ \A t \in DOMAIN links :
             links'[t] = IF t \in ids THEN [links[t] EXCEPT !.consumed = TRUE] ELSE links[t]
    BY <1>2 DEF Consumed
  <2>2. \A t \in DOMAIN links : {"user", "purpose", "consumed"} \subseteq DOMAIN links[t]
    BY DEF Fine, IInv, Shapes
  <2> QED  BY <2>1, <2>2
<1> QED  BY <1>1, <1>2 DEF LinksStay

\* A save of the user's row, perhaps with links that are consumed in the same transaction.
Saves(p, c) ==
    /\ op' = [q \in Procs |-> op'[q]]
    /\ \A q \in Procs : q # p => op'[q] = op[q]
    /\ op[p].pc # "idle"
    /\ op'[p].pc # "idle" => op'[p].user = op[p].user
    /\ op'[p].alone => op[p].alone
    /\ Save(op[p].user, c) /\ Row(c)
    /\ LinksStay
    /\ status' = [u \in Users |-> status'[u]]
    /\ \A u \in Users : u # op[p].user => status'[u] = status[u]
    /\ status'[op[p].user] # "none"
    /\ signedIn' = signedIn
    /\ overlaps' = overlaps
    /\ chosen' = [u \in Users |-> chosen'[u]]
    /\ \A u \in Users : u # op[p].user => chosen'[u] = chosen[u]
    /\ chosen'[op[p].user] = chosen[op[p].user] \/ op[p].alone
    /\ erased' = erased \/ (op[p].alone /\ erased' = erased \union {op[p].user})

\* Such a save is a statement of one call.
LEMMA SavingFrame ==
    ASSUME Fine, NEW p \in Procs, NEW c, Saves(p, c)
    PROVE  /\ Frame(p) /\ TablesOK'
           /\ credentials'[op[p].user] = c /\ op[p].user \in DOMAIN credentials'
           /\ op[p].user \in Users
<1>1. op[p].user \in Users /\ TablesOK
  BY DEF Fine, CInv, CallTypeOK, Saves
<1>2. /\ DOMAIN credentials' = DOMAIN credentials \union {op[p].user}
      /\ credentials' = [u \in DOMAIN credentials' |-> credentials'[u]]
      /\ credentials'[op[p].user] = c
      /\ \A u \in DOMAIN credentials : u # op[p].user => credentials'[u] = credentials[u]
  BY DEF Saves, Save
<1>3. /\ DOMAIN links' = DOMAIN links
      /\ \A t \in DOMAIN links : /\ links'[t].user = links[t].user
                                 /\ links'[t].purpose = links[t].purpose
                                 /\ links[t].consumed => links'[t].consumed
  BY LinksKeep DEF Saves
<1>4. Frame(p)
  BY <1>2, <1>3 DEF Saves, Frame
<1>5. TablesOK'
  <2>1. /\ status' = [u \in Users |-> status'[u]] /\ signedIn' = [u \in Users |-> signedIn'[u]]
        /\ chosen' = [u \in Users |-> chosen'[u]] /\ DOMAIN credentials' \subseteq Users
    BY <1>1, <1>2 DEF Saves, TablesOK
  <2>2. \A u \in DOMAIN credentials' : Row(credentials'[u]) /\ status'[u] # "none"
    <3>1. \A u \in DOMAIN credentials' : u # op[p].user => u \in DOMAIN credentials
      BY <1>2
    <3> QED  BY <1>1, <1>2, <3>1 DEF Saves, TablesOK
  <2>3. \A t \in DOMAIN links' : /\ links'[t].user \in Users
                                 /\ links'[t].purpose = "reset" => links'[t].user \in DOMAIN credentials'
    BY <1>1, <1>2, <1>3 DEF TablesOK
  <2> QED  BY <1>2, <2>1, <2>2, <2>3 DEF TablesOK
<1> QED  BY <1>1, <1>2, <1>4, <1>5

\* A save that returns, and keeps what is known of the user.
LEMMA SavingReturns ==
    ASSUME Fine, NEW p \in Procs, NEW c, Saves(p, c), op'[p] = Idle,
           NEW u \in Users, u = op[p].user, UserOK(u)'
    PROVE  CInv'
  BY SavingFrame, ReturnedIsFine, FrameIsEnough

\* The entity's own methods: what they leave of password and history.
LEMMA SecretsStay ==
    ASSUME NEW c, Row(c)
    PROVE  /\ \A at : /\ Row(RecordFailedAttempt(c, at))
                      /\ RecordFailedAttempt(c, at).pw = c.pw
                      /\ RecordFailedAttempt(c, at).history = c.history
           /\ /\ Row(RecordSuccessfulAttempt(c))
              /\ RecordSuccessfulAttempt(c).pw = c.pw
              /\ RecordSuccessfulAttempt(c).history = c.history
  BY DEF Row, RecordFailedAttempt, RecordSuccessfulAttempt

\* rotatePassword: the new hash is in force, and the history holds the old one and nothing new.
LEMMA RotationKeeps ==
    ASSUME NEW c, Row(c), NEW pw \in Hashes, NEW strong
    PROVE  LET r == RotatePassword(c, pw, strong)
           IN  /\ Row(r) /\ r.pw = pw
               /\ ~IsPasswordReused(c, pw) => ~IsInHistory(r, pw)
<1> DEFINE r == RotatePassword(c, pw, strong)
           old == c.history
           all == <<c.pw>> \o old
<1>1. old \in Seq(Hashes) /\ c.pw \in Hashes /\ HistoryDepth \in Nat
  BY CredentialAssumption DEF Row
<1>2. all \in Seq(Hashes) /\ Len(all) = Len(old) + 1 /\ Len(old) \in Nat
      /\ \A i \in 1 .. Len(all) : all[i] = IF i = 1 THEN c.pw ELSE old[i - 1]
  BY <1>1
<1>3. /\ r.pw = pw /\ {"pw", "strong", "fails", "lockedUntil", "history"} \subseteq DOMAIN r
      /\ r.history = IF Len(all) <= HistoryDepth THEN all ELSE SubSeq(all, 1, HistoryDepth)
  BY DEF Row, RotatePassword, WithPasswordHash
<1> HIDE DEF all
<1>4. r.history \in Seq(Hashes) /\ \A i \in DOMAIN r.history : i \in 1 .. Len(all) /\ r.history[i] = all[i]
  <2> HIDE DEF r
  <2>1. CASE Len(all) <= HistoryDepth
    BY <1>1, <1>2, <1>3, <2>1
  <2>2. CASE ~(Len(all) <= HistoryDepth)
    <3>1. r.history = SubSeq(all, 1, HistoryDepth)
      BY <1>3, <2>2
    <3>2. SubSeq(all, 1, HistoryDepth) = [i \in 1 .. HistoryDepth |-> all[i]]
      BY <1>1, <1>2, <2>2
    <3> QED  BY <1>1, <1>2, <2>2, <3>1, <3>2
  <2> QED  BY <2>1, <2>2
<1>5. ASSUME ~IsPasswordReused(c, pw) PROVE ~IsInHistory(r, pw)
  <2>1. pw # c.pw /\ \A i \in 1 .. Len(old) : old[i] # pw
    BY <1>1, <1>5 DEF IsPasswordReused
  <2>2. \A i \in 1 .. Len(all) : all[i] # pw
    <3> SUFFICES ASSUME NEW i \in 1 .. Len(all), i # 1 PROVE old[i - 1] # pw
      BY <1>2, <2>1
    <3> QED  BY <1>2, <2>1
  <2> QED  BY <1>4, <2>2 DEF IsInHistory
<1> QED  BY <1>1, <1>3, <1>4, <1>5 DEF Row
\* A statement that changes no credential, and perhaps consumes links.
Notes(p) ==
    /\ op' = [q \in Procs |-> op'[q]]
    /\ \A q \in Procs : q # p => op'[q] = op[q]
    /\ op[p].pc # "idle"
    /\ op'[p].pc # "idle" => op'[p].user = op[p].user
    /\ op'[p].alone => op[p].alone
    /\ credentials' = credentials
    /\ LinksStay
    /\ status' = [u \in Users |-> status'[u]]
    /\ signedIn' = [u \in Users |-> signedIn'[u]]
    /\ chosen' = [u \in Users |-> chosen'[u]]
    /\ \A u \in Users : u # op[p].user =>
         status'[u] = status[u] /\ signedIn'[u] = signedIn[u] /\ chosen'[u] = chosen[u]
    /\ op[p].user \in DOMAIN credentials => status'[op[p].user] # "none"
    /\ overlaps' = overlaps
    /\ chosen'[op[p].user] = chosen[op[p].user] \/ op[p].alone
    /\ erased' = erased \/ (op[p].alone /\ erased' = erased \union {op[p].user})

\* Such a statement is one of one call.
LEMMA NotingFrame ==
    ASSUME Fine, NEW p \in Procs, Notes(p)
    PROVE  Frame(p) /\ TablesOK' /\ op[p].user \in Users
<1>1. op[p].user \in Users /\ TablesOK
  BY DEF Fine, CInv, CallTypeOK, Notes
<1>2. /\ DOMAIN links' = DOMAIN links
      /\ \A t \in DOMAIN links : /\ links'[t].user = links[t].user
                                 /\ links'[t].purpose = links[t].purpose
                                 /\ links[t].consumed => links'[t].consumed
  BY LinksKeep DEF Notes
<1>3. Frame(p)
  BY <1>1, <1>2 DEF Notes, Frame
<1>4. TablesOK'
  <2>1. /\ status' = [u \in Users |-> status'[u]] /\ signedIn' = [u \in Users |-> signedIn'[u]]
        /\ chosen' = [u \in Users |-> chosen'[u]] /\ credentials' = credentials
    BY DEF Notes
  <2>2. \A u \in DOMAIN credentials : status'[u] # "none"
    BY <1>1 DEF Notes, TablesOK
  <2>3. \A t \in DOMAIN links' : /\ links'[t].user \in Users
                                 /\ links'[t].purpose = "reset" => links'[t].user \in DOMAIN credentials
    BY <1>1, <1>2 DEF TablesOK
  <2> QED  BY <1>1, <2>1, <2>2, <2>3 DEF TablesOK
<1> QED  BY <1>1, <1>3, <1>4

\* One that returns as well has only its user to account for.
LEMMA NotingReturns ==
    ASSUME Fine, NEW p \in Procs, Notes(p), op'[p] = Idle,
           NEW u \in Users, u = op[p].user, UserOK(u)'
    PROVE  CInv'
  BY NotingFrame, ReturnedIsFine, FrameIsEnough

\* Consuming links leaves no link unused that was used.
LEMMA UnconsumedShrinks ==
    ASSUME Fine, LinksStay, NEW u PROVE Unconsumed(u, BothPurposes)' \subseteq Unconsumed(u, BothPurposes)
  BY LinksShrink DEF Fine, IInv

\* AuthenticateWithPassword saves the failed attempt, with the password it read.
LEMMA LoginSaveFailedKeeps == ASSUME Fine, NEW p \in Procs, LoginSaveFailed(p) PROVE CInv'
<1>0. /\ op = [q \in Procs |-> op[q]] /\ CallTypeOK(op[p]) /\ CallOK(op[p]) /\ TablesOK
      /\ op[p].pc # "idle" => UserOK(op[p].user)
  BY Known
<1>1. op[p].pc = "loginFailed"
  BY DEF LoginSaveFailed
<1>2. PICK u \in Users : u = op[p].user
  BY <1>0, <1>1 DEF CallTypeOK
<1>3. UserOK(u)
  BY <1>0, <1>1, <1>2
<1> DEFINE c == RecordFailedAttempt(op[p].row, op[p].at)
<1>4. /\ Save(u, c) /\ op' = [op EXCEPT ![p] = Idle]
      /\ UNCHANGED <<status, links, signedIn, chosen, erased, overlaps>>
  BY <1>2 DEF LoginSaveFailed, Return, Goto, ghosts
<1>5. u \in DOMAIN credentials /\ Row(op[p].row) /\ op[p].pw \in Hashes
  BY <1>0, <1>1, <1>2 DEF CallTypeOK, CallOK, HasCredential, RowPcs
<1>6. Row(c) /\ c.history = op[p].row.history /\ c.pw = op[p].row.pw
  BY <1>5, SecretsStay
<1> HIDE DEF c
<1>7. Saves(p, c)
  BY <1>0, <1>1, <1>2, <1>4, <1>5, <1>6, IdleIsFine
  DEF Saves, LinksStay, TablesOK, CallTypeOK, Fields
<1>8. Frame(p) /\ TablesOK' /\ credentials'[u] = c /\ u \in DOMAIN credentials'
  BY <1>2, <1>7, SavingFrame
<1>9. UserOK(u)'
  BY <1>0, <1>1, <1>2, <1>3, <1>4, <1>5, <1>6, <1>8
  DEF UserOK, CallOK, Keeps, RowPcs, EarlyPcs, IsInHistory, Matched
<1>10. op'[p] = Idle
  BY <1>0, <1>4
<1> QED  BY <1>2, <1>7, <1>9, <1>10, SavingReturns

\* AuthenticateWithPassword saves the cleared lockout, with the password it read.
LEMMA LoginSaveClearedKeeps == ASSUME Fine, NEW p \in Procs, LoginSaveCleared(p) PROVE CInv'
<1> USE DEF RowPcs, Redeems, Rotating, Matched, ErasePcs, KeepPcs, EarlyPcs
<1>0. /\ op = [q \in Procs |-> op[q]] /\ CallTypeOK(op[p]) /\ CallOK(op[p]) /\ TablesOK
      /\ op[p].pc # "idle" => UserOK(op[p].user)
  BY Known
<1>1. op[p].pc = "loginClear"
  BY DEF LoginSaveCleared
<1>2. PICK u \in Users : u = op[p].user
  BY <1>0, <1>1 DEF CallTypeOK
<1>3. UserOK(u)
  BY <1>0, <1>1, <1>2
<1> DEFINE c == RecordSuccessfulAttempt(op[p].row)
<1>4. /\ Save(u, c) /\ op' = [op EXCEPT ![p].pc = "loginDone", ![p].row = c]
      /\ UNCHANGED <<status, links, signedIn, chosen, erased, overlaps>>
  BY <1>2 DEF LoginSaveCleared, Return, Goto, ghosts
<1>5. u \in DOMAIN credentials /\ Row(op[p].row) /\ op[p].pw \in Hashes
  BY <1>0, <1>1, <1>2 DEF CallTypeOK, CallOK, HasCredential
<1>6. Row(c) /\ c.history = op[p].row.history /\ c.pw = op[p].row.pw
  BY <1>5, SecretsStay
<1> HIDE DEF c
<1>7. Saves(p, c)
  BY <1>0, <1>1, <1>2, <1>4, <1>5, <1>6, IdleIsFine
  DEF Saves, LinksStay, TablesOK, CallTypeOK, Fields
<1>8. Frame(p) /\ TablesOK' /\ credentials'[u] = c /\ u \in DOMAIN credentials'
  BY <1>2, <1>7, SavingFrame
<1>9. UserOK(u)'
  BY <1>0, <1>1, <1>2, <1>3, <1>4, <1>5, <1>6, <1>8
  DEF UserOK, CallOK, Keeps, IsInHistory
<1>10. CallTypeOK(op[p])'
  BY <1>0, <1>1, <1>4, <1>5, <1>6 DEF CallTypeOK, Fields
<1>11. CallOK(op[p])'
  BY <1>0, <1>1, <1>2, <1>4, <1>5, <1>6, <1>8
  DEF CallOK, CallTypeOK, HasCredential, Keeps, Fields
<1> QED  BY <1>2, <1>8, <1>9, <1>10, <1>11, FrameIsEnough

\* upgradeHashIfStale saves a copy that may be old: with the chosen password, if there is one.
LEMMA RehashKeeps == ASSUME Fine, NEW p \in Procs, Rehash(p) PROVE CInv'
<1> USE DEF RowPcs, Redeems, Rotating, Matched, ErasePcs, KeepPcs, EarlyPcs
<1>0. /\ op = [q \in Procs |-> op[q]] /\ CallTypeOK(op[p]) /\ CallOK(op[p]) /\ TablesOK
      /\ op[p].pc # "idle" => UserOK(op[p].user)
  BY Known
<1>1. op[p].pc = "rehash"
  BY DEF Rehash
<1>2. PICK u \in Users : u = op[p].user
  BY <1>0, <1>1 DEF CallTypeOK
<1>3. UserOK(u)
  BY <1>0, <1>1, <1>2
<1> DEFINE c == WithPasswordHash(op[p].row, op[p].pw, TRUE)
<1>4. /\ Save(u, c) /\ op' = [op EXCEPT ![p].pc = "signIn"]
      /\ UNCHANGED <<status, links, signedIn, chosen, erased, overlaps>>
  BY <1>2 DEF Rehash, Return, Goto, ghosts
<1>5. u \in DOMAIN credentials /\ Row(op[p].row) /\ op[p].pw \in Hashes
  BY <1>0, <1>1, <1>2 DEF CallTypeOK, CallOK, HasCredential
<1>6. Row(c) /\ c.history = op[p].row.history /\ c.pw = op[p].pw
  BY <1>5 DEF Row, WithPasswordHash
<1> HIDE DEF c
<1>7. Saves(p, c)
  BY <1>0, <1>1, <1>2, <1>4, <1>5, <1>6, IdleIsFine
  DEF Saves, LinksStay, TablesOK, CallTypeOK, Fields
<1>8. Frame(p) /\ TablesOK' /\ credentials'[u] = c /\ u \in DOMAIN credentials'
  BY <1>2, <1>7, SavingFrame
<1>9. UserOK(u)'
  BY <1>0, <1>1, <1>2, <1>3, <1>4, <1>5, <1>6, <1>8
  DEF UserOK, CallOK, Keeps, IsInHistory
<1>10. CallTypeOK(op[p])'
  BY <1>0, <1>1, <1>4, <1>5, <1>6 DEF CallTypeOK, Fields
<1>11. CallOK(op[p])'
  BY <1>0, <1>1, <1>2, <1>4, <1>5, <1>6, <1>8
  DEF CallOK, CallTypeOK, HasCredential, Keeps, Fields
<1> QED  BY <1>2, <1>8, <1>9, <1>10, <1>11, FrameIsEnough

\* ChangePassword commits: alone, the password it sets is the one in force.
LEMMA ChangeSaveKeeps == ASSUME Fine, NEW p \in Procs, ChangeSave(p) PROVE CInv'
<1>0. /\ op = [q \in Procs |-> op[q]] /\ CallTypeOK(op[p]) /\ CallOK(op[p]) /\ TablesOK
      /\ op[p].pc # "idle" => UserOK(op[p].user)
  BY Known
<1>1. op[p].pc = "changeSave"
  BY DEF ChangeSave
<1>2. PICK u \in Users : u = op[p].user
  BY <1>0, <1>1 DEF CallTypeOK
<1>3. UserOK(u)
  BY <1>0, <1>1, <1>2
<1> DEFINE c == RotatePassword(op[p].row, op[p].pw, Hashed(p))
<1>4. /\ Save(u, c) /\ op' = [op EXCEPT ![p] = Idle] /\ Chosen(p, FALSE)
      /\ UNCHANGED <<status, links, signedIn, erased, overlaps>>
  BY <1>2 DEF ChangeSave, Return, Goto
<1>5. u \in DOMAIN credentials /\ Row(op[p].row) /\ op[p].pw \in Hashes
  BY <1>0, <1>1, <1>2 DEF CallTypeOK, CallOK, HasCredential, RowPcs
<1>6. Row(c) /\ c.pw = op[p].pw /\ (~IsPasswordReused(op[p].row, op[p].pw) => ~IsInHistory(c, c.pw))
  BY <1>5, RotationKeeps
<1> HIDE DEF c
<1>7. Saves(p, c)
  BY <1>0, <1>1, <1>2, <1>4, <1>5, <1>6, IdleIsFine
  DEF Saves, LinksStay, TablesOK, CallTypeOK, Fields, Chosen
<1>8. Frame(p) /\ TablesOK' /\ credentials'[u] = c /\ u \in DOMAIN credentials'
  BY <1>2, <1>7, SavingFrame
<1>9. UserOK(u)'
  <2>1. chosen[u] = NoChoice /\ u \notin erased
    BY <1>0, <1>1, <1>2 DEF CallOK, Keeps, KeepPcs, EarlyPcs
  <2>2. chosen'[u] = NoChoice \/ chosen'[u] = [pw |-> op[p].pw, reset |-> FALSE]
    BY <1>0, <1>2, <1>4, <2>1 DEF Chosen, TablesOK
  <2>3. overlaps = 0 => ~IsInHistory(c, c.pw)
    BY <1>0, <1>1, <1>2, <1>6 DEF CallOK, RowPcs, Rotating
  <2> QED  BY <1>4, <1>6, <1>8, <2>1, <2>2, <2>3 DEF UserOK, IsInHistory
<1>10. op'[p] = Idle
  BY <1>0, <1>4
<1> QED  BY <1>2, <1>7, <1>9, <1>10, SavingReturns

\* ConfirmPasswordReset commits: from here on only its own call knows what was set.
LEMMA ConfirmCommitKeeps == ASSUME Fine, NEW p \in Procs, ConfirmCommit(p) PROVE CInv'
<1> USE DEF RowPcs, Redeems, Rotating, Matched, ErasePcs, KeepPcs, EarlyPcs
<1>0. /\ op = [q \in Procs |-> op[q]] /\ CallTypeOK(op[p]) /\ CallOK(op[p]) /\ TablesOK
      /\ op[p].pc # "idle" => UserOK(op[p].user)
  BY Known
<1>1. op[p].pc = "confirmCommit"
  BY DEF ConfirmCommit
<1>2. PICK u \in Users : u = op[p].user
  BY <1>0, <1>1 DEF CallTypeOK
<1>3. UserOK(u)
  BY <1>0, <1>1, <1>2
<1> DEFINE c == RotatePassword(op[p].row, op[p].pw, Hashed(p))
<1>4. /\ Save(u, c) /\ op' = [op EXCEPT ![p].pc = "confirmDone"]
      /\ links' = Consumed({op[p].link})
      /\ UNCHANGED <<status, signedIn, chosen, erased, overlaps>>
  BY <1>2 DEF ConfirmCommit, Return, Goto
<1>5. u \in DOMAIN credentials /\ Row(op[p].row) /\ op[p].pw \in Hashes
  BY <1>0, <1>1, <1>2 DEF CallTypeOK, CallOK, HasCredential
<1>6. Row(c) /\ c.pw = op[p].pw /\ (~IsPasswordReused(op[p].row, op[p].pw) => ~IsInHistory(c, c.pw))
  BY <1>5, RotationKeeps
<1> HIDE DEF c
<1>7. Saves(p, c)
  BY <1>0, <1>1, <1>2, <1>4, <1>5, <1>6, IdleIsFine
  DEF Saves, LinksStay, TablesOK, CallTypeOK, Fields
<1>8. Frame(p) /\ TablesOK' /\ credentials'[u] = c /\ u \in DOMAIN credentials'
  BY <1>2, <1>7, SavingFrame
<1>9. UserOK(u)'
  <2>1. chosen[u] = NoChoice /\ u \notin erased
    BY <1>0, <1>1, <1>2 DEF CallOK, Keeps
  <2>2. chosen'[u] = NoChoice \/ chosen'[u] = [pw |-> op[p].pw, reset |-> FALSE]
    BY <1>0, <1>2, <1>4, <2>1 DEF Chosen, TablesOK
  <2>3. overlaps = 0 => ~IsInHistory(c, c.pw)
    BY <1>0, <1>1, <1>2, <1>6 DEF CallOK
  <2> QED  BY <1>4, <1>6, <1>8, <2>1, <2>2, <2>3 DEF UserOK, IsInHistory
<1>10. CallTypeOK(op[p])'
  BY <1>0, <1>1, <1>4, <1>5, <1>6 DEF CallTypeOK, Fields
<1>11. CallOK(op[p])'
  BY <1>0, <1>1, <1>2, <1>4, <1>5, <1>6, <1>8
  DEF CallOK, CallTypeOK, HasCredential, Keeps, Fields
<1> QED  BY <1>2, <1>8, <1>9, <1>10, <1>11, FrameIsEnough

\* RegisterUserWithPassword and RegisterUser commit.
LEMMA RegisterSaveKeeps == ASSUME Fine, NEW p \in Procs, RegisterSave(p) PROVE CInv'
<1>0. /\ op = [q \in Procs |-> op[q]] /\ CallTypeOK(op[p]) /\ CallOK(op[p]) /\ TablesOK
      /\ op[p].pc # "idle" => UserOK(op[p].user)
  BY Known
<1>1. op[p].pc = "registerSave"
  BY DEF RegisterSave
<1>2. PICK u \in Users : u = op[p].user
  BY <1>0, <1>1 DEF CallTypeOK
<1>3. UserOK(u)
  BY <1>0, <1>1, <1>2
<1>4. /\ status[u] = "none" /\ u \notin DOMAIN credentials
      /\ status' = [status EXCEPT ![u] = "pending"]
      /\ op' = [op EXCEPT ![p] = Idle]
      /\ UNCHANGED <<links, signedIn, chosen, erased, overlaps>>
  BY <1>0, <1>2 DEF RegisterSave, Return, TablesOK
<1>5. chosen[u] = NoChoice /\ u \notin erased
  BY <1>0, <1>1, <1>2, <1>3, <1>4 DEF CallOK, UserOK, EarlyPcs
<1>6. CASE op[p].pw = NoPassword
  <2>1. credentials' = credentials
    BY <1>6 DEF RegisterSave
  <2>2. Notes(p)
    BY <1>0, <1>1, <1>2, <1>4, <2>1, IdleIsFine DEF Notes, LinksStay, TablesOK
  <2>3. UserOK(u)'
    BY <1>4, <1>5, <2>1 DEF UserOK
  <2> QED  BY <1>0, <1>2, <1>4, <2>2, <2>3, NotingReturns
<1>7. CASE op[p].pw # NoPassword
  <2> DEFINE c == Credential(op[p].pw, Hashed(p))
  <2>1. Save(u, c)
    BY <1>2, <1>7 DEF RegisterSave
  <2>2. Row(c) /\ c.history = << >>
    BY <1>0, EmptyHistory DEF Row, Credential, CallTypeOK
  <2> HIDE DEF c
  <2>3. Saves(p, c)
    BY <1>0, <1>1, <1>2, <1>4, <2>1, <2>2, IdleIsFine DEF Saves, LinksStay, TablesOK
  <2>4. credentials'[u] = c
    BY <1>2, <2>3, SavingFrame
  <2>5. UserOK(u)'
    BY <1>4, <1>5, <2>2, <2>4 DEF UserOK, IsInHistory
  <2> QED  BY <1>0, <1>2, <1>4, <2>3, <2>5, SavingReturns
<1> QED  BY <1>6, <1>7

\* A session is opened: with the chosen password, if there is one.
LEMMA SignInKeeps == ASSUME Fine, NEW p \in Procs, SignIn(p) PROVE CInv'
<1>0. /\ op = [q \in Procs |-> op[q]] /\ CallTypeOK(op[p]) /\ CallOK(op[p]) /\ TablesOK
      /\ op[p].pc # "idle" => UserOK(op[p].user)
  BY Known
<1>1. op[p].pc = "signIn"
  BY DEF SignIn
<1>2. PICK u \in Users : u = op[p].user
  BY <1>0, <1>1 DEF CallTypeOK
<1>3. UserOK(u)
  BY <1>0, <1>1, <1>2
<1>4. /\ signedIn' = [signedIn EXCEPT ![u] = @ \union {op[p].pw}]
      /\ op' = [op EXCEPT ![p] = Idle]
      /\ UNCHANGED <<status, credentials, links, chosen, erased, overlaps>>
  BY <1>2 DEF SignIn, Return, ghosts
<1>7. Notes(p)
  BY <1>0, <1>1, <1>2, <1>4, IdleIsFine DEF Notes, LinksStay, TablesOK, CallTypeOK, Fields
<1>8. signedIn'[u] = signedIn[u] \union {op[p].pw}
  BY <1>0, <1>4 DEF TablesOK
<1>9. chosen[u] # NoChoice => op[p].pw = chosen[u].pw
  BY <1>0, <1>1, <1>2 DEF CallOK, Keeps, Matched
<1>10. UserOK(u)'
  BY <1>3, <1>4, <1>8, <1>9 DEF UserOK, Unconsumed
<1> QED  BY <1>0, <1>2, <1>4, <1>7, <1>10, NotingReturns

\* ConfirmPasswordReset refuses an old password, with the link used up.
LEMMA ConfirmReusedKeeps == ASSUME Fine, NEW p \in Procs, ConfirmReused(p) PROVE CInv'
<1>0. /\ op = [q \in Procs |-> op[q]] /\ CallTypeOK(op[p]) /\ CallOK(op[p]) /\ TablesOK
      /\ op[p].pc # "idle" => UserOK(op[p].user)
  BY Known
<1>1. op[p].pc = "confirmCred"
  BY DEF ConfirmReused
<1>2. PICK u \in Users : u = op[p].user
  BY <1>0, <1>1 DEF CallTypeOK
<1>3. UserOK(u)
  BY <1>0, <1>1, <1>2
<1>4. /\ links' = Consumed({op[p].link})
      /\ op' = [op EXCEPT ![p] = Idle]
      /\ UNCHANGED <<status, credentials, signedIn, chosen, erased, overlaps>>
  BY <1>2 DEF ConfirmReused, Return, ghosts
<1>7. Notes(p)
  BY <1>0, <1>1, <1>2, <1>4, IdleIsFine DEF Notes, LinksStay, TablesOK, CallTypeOK, Fields
<1>8. u \notin erased
  BY <1>0, <1>1, <1>2 DEF CallOK, EarlyPcs
<1>9. UserOK(u)'
  BY <1>3, <1>4, <1>8 DEF UserOK
<1> QED  BY <1>0, <1>2, <1>4, <1>7, <1>9, NotingReturns

\* ConfirmPasswordReset revokes the sessions: the reset is acknowledged, nothing is left signed in.
LEMMA RevokeSessionsKeeps == ASSUME Fine, NEW p \in Procs, RevokeSessions(p) PROVE CInv'
<1>0. /\ op = [q \in Procs |-> op[q]] /\ CallTypeOK(op[p]) /\ CallOK(op[p]) /\ TablesOK
      /\ op[p].pc # "idle" => UserOK(op[p].user)
  BY Known
<1>1. op[p].pc = "revoke"
  BY DEF RevokeSessions
<1>2. PICK u \in Users : u = op[p].user
  BY <1>0, <1>1 DEF CallTypeOK
<1>3. UserOK(u)
  BY <1>0, <1>1, <1>2
<1>4. /\ signedIn' = [signedIn EXCEPT ![u] = {}]
      /\ Chosen(p, TRUE)
      /\ op' = [op EXCEPT ![p] = Idle]
      /\ UNCHANGED <<status, credentials, links, erased, overlaps>>
  BY <1>2 DEF RevokeSessions, Return
<1>5. chosen[u] = NoChoice /\ u \notin erased /\ u \in DOMAIN credentials
  BY <1>0, <1>1, <1>2 DEF CallOK, Keeps, KeepPcs, EarlyPcs, HasCredential, Redeems
<1>6. /\ chosen' = [v \in Users |-> chosen'[v]]
      /\ \A v \in Users : v # u => chosen'[v] = chosen[v]
      /\ ~op[p].alone => chosen'[u] = NoChoice
      /\ op[p].alone => chosen'[u] = [pw |-> op[p].pw, reset |-> TRUE]
  BY <1>0, <1>2, <1>4, <1>5 DEF Chosen, TablesOK
<1>7. Notes(p)
  BY <1>0, <1>1, <1>2, <1>4, <1>5, <1>6, IdleIsFine
  DEF Notes, LinksStay, TablesOK, CallTypeOK, Fields
<1>8. signedIn'[u] = {}
  BY <1>0, <1>4 DEF TablesOK
<1>9. op[p].alone => credentials[u].pw = op[p].pw
  BY <1>0, <1>1, <1>2 DEF CallOK
<1>10. UserOK(u)'
  BY <1>0, <1>3, <1>4, <1>5, <1>6, <1>8, <1>9 DEF UserOK, CallTypeOK
<1> QED  BY <1>0, <1>2, <1>4, <1>7, <1>10, NotingReturns

\* The revocation fails and is reported: what was set still stands.
LEMMA RevocationReportedKeeps == ASSUME Fine, NEW p \in Procs, RevocationReported(p) PROVE CInv'
<1>0. /\ op = [q \in Procs |-> op[q]] /\ CallTypeOK(op[p]) /\ CallOK(op[p]) /\ TablesOK
      /\ op[p].pc # "idle" => UserOK(op[p].user)
  BY Known
<1>1. op[p].pc = "revoke"
  BY DEF RevocationReported
<1>2. PICK u \in Users : u = op[p].user
  BY <1>0, <1>1 DEF CallTypeOK
<1>3. UserOK(u)
  BY <1>0, <1>1, <1>2
<1>4. /\ Chosen(p, FALSE)
      /\ op' = [op EXCEPT ![p] = Idle]
      /\ UNCHANGED <<status, credentials, signedIn, links, erased, overlaps>>
  BY <1>2 DEF RevocationReported, Return, tables
<1>5. chosen[u] = NoChoice /\ u \notin erased /\ u \in DOMAIN credentials
  BY <1>0, <1>1, <1>2 DEF CallOK, Keeps, KeepPcs, EarlyPcs, HasCredential, Redeems
<1>6. /\ chosen' = [v \in Users |-> chosen'[v]]
      /\ \A v \in Users : v # u => chosen'[v] = chosen[v]
      /\ ~op[p].alone => chosen'[u] = NoChoice
      /\ op[p].alone => chosen'[u] = [pw |-> op[p].pw, reset |-> FALSE]
  BY <1>0, <1>2, <1>4, <1>5 DEF Chosen, TablesOK
<1>7. Notes(p)
  BY <1>0, <1>1, <1>2, <1>4, <1>5, <1>6, IdleIsFine
  DEF Notes, LinksStay, TablesOK, CallTypeOK, Fields
<1>8. op[p].alone => credentials[u].pw = op[p].pw
  BY <1>0, <1>1, <1>2 DEF CallOK
<1>9. UserOK(u)'
  BY <1>0, <1>3, <1>4, <1>5, <1>6, <1>8 DEF UserOK, CallTypeOK
<1> QED  BY <1>0, <1>2, <1>4, <1>7, <1>9, NotingReturns

\* ConfirmEmailVerification saves the user: not one whose deletion was handled.
LEMMA EmailActivateKeeps == ASSUME Fine, NEW p \in Procs, EmailActivate(p) PROVE CInv'
<1>0. /\ op = [q \in Procs |-> op[q]] /\ CallTypeOK(op[p]) /\ CallOK(op[p]) /\ TablesOK
      /\ op[p].pc # "idle" => UserOK(op[p].user)
  BY Known
<1>1. op[p].pc = "emailSave"
  BY DEF EmailActivate
<1>2. PICK u \in Users : u = op[p].user
  BY <1>0, <1>1 DEF CallTypeOK
<1>3. UserOK(u)
  BY <1>0, <1>1, <1>2
<1>4. /\ links' = Consumed({op[p].link})
      /\ status' \in {status, [status EXCEPT ![u] = "active"]}
      /\ op' = [op EXCEPT ![p] = Idle]
      /\ UNCHANGED <<credentials, signedIn, chosen, erased, overlaps>>
  BY <1>2 DEF EmailActivate, Return, ghosts
<1>7. Notes(p)
  BY <1>0, <1>1, <1>2, <1>4, IdleIsFine DEF Notes, LinksStay, TablesOK, CallTypeOK, Fields
<1>8. u \notin erased
  BY <1>0, <1>1, <1>2 DEF CallOK, EarlyPcs
<1>9. UserOK(u)'
  BY <1>3, <1>4, <1>8 DEF UserOK
<1> QED  BY <1>0, <1>2, <1>4, <1>7, <1>9, NotingReturns

\* The administrative calls save the user: a deletion gives up what was chosen.
LEMMA StatusSaveKeeps == ASSUME Fine, NEW p \in Procs, StatusSave(p) PROVE CInv'
<1>0. /\ op = [q \in Procs |-> op[q]] /\ CallTypeOK(op[p]) /\ CallOK(op[p]) /\ TablesOK
      /\ op[p].pc # "idle" => UserOK(op[p].user)
  BY Known
<1>1. op[p].pc = "statusSave"
  BY DEF StatusSave
<1>2. PICK u \in Users : u = op[p].user
  BY <1>0, <1>1 DEF CallTypeOK
<1>3. UserOK(u)
  BY <1>0, <1>1, <1>2
<1>4. /\ status' = [status EXCEPT ![u] = op[p].seen] /\ op[p].seen # "none"
      /\ UNCHANGED <<credentials, links, signedIn, chosen, erased, overlaps>>
  BY <1>0, <1>1, <1>2 DEF StatusSave, CallTypeOK
<1>5. /\ op' = [q \in Procs |-> op'[q]] /\ \A q \in Procs : q # p => op'[q] = op[q]
      /\ op[p].seen # "deleted" => op'[p] = Idle
      /\ op[p].seen = "deleted" => op'[p] = [op[p] EXCEPT !.pc = "eraseCred"]
  BY <1>0 DEF StatusSave, Goto, Return
<1>6. u \notin erased /\ (op[p].seen = "deleted" => chosen[u] = NoChoice)
  BY <1>0, <1>1, <1>2 DEF CallOK, EarlyPcs, Keeps
<1>7. Notes(p)
  BY <1>0, <1>1, <1>2, <1>4, <1>5, IdleIsFine DEF Notes, LinksStay, TablesOK, CallTypeOK, Fields
<1>8. UserOK(u)'
  BY <1>3, <1>4, <1>6 DEF UserOK
<1>9. CASE op[p].seen # "deleted"
  BY <1>2, <1>5, <1>7, <1>8, <1>9, NotingReturns
<1>10. CASE op[p].seen = "deleted"
  <2>1. /\ op'[p].pc = "eraseCred" /\ op'[p].user = u /\ op'[p].pw = op[p].pw
        /\ op'[p].link = op[p].link /\ op'[p].alone = op[p].alone /\ Fields \subseteq DOMAIN op'[p]
    BY <1>0, <1>2, <1>5, <1>10 DEF CallTypeOK, Fields
  <2>2. CallTypeOK(op[p])'
    BY <1>0, <2>1 DEF CallTypeOK, RowPcs, Matched
  <2>3. status'[u] = "deleted"
    BY <1>0, <1>4, <1>10 DEF TablesOK
  <2>4. CallOK(op[p])'
    BY <1>4, <1>6, <1>10, <2>1, <2>3 DEF CallOK, HasCredential, RowPcs, Redeems, Rotating
  <2> QED  BY <1>2, <1>7, <1>8, <2>2, <2>4, NotingFrame, FrameIsEnough
<1> QED  BY <1>9, <1>10

\* HandleUserDeleted finds no password.
LEMMA EraseNothingKeeps == ASSUME Fine, NEW p \in Procs, EraseNothing(p) PROVE CInv'
<1>0. /\ op = [q \in Procs |-> op[q]] /\ CallTypeOK(op[p]) /\ CallOK(op[p]) /\ TablesOK
      /\ op[p].pc # "idle" => UserOK(op[p].user)
  BY Known
<1>1. op[p].pc = "eraseCred"
  BY DEF EraseNothing
<1>2. PICK u \in Users : u = op[p].user
  BY <1>0, <1>1 DEF CallTypeOK
<1>3. UserOK(u)
  BY <1>0, <1>1, <1>2
<1>4. /\ u \notin DOMAIN credentials
      /\ op' = [op EXCEPT ![p] = Idle]
      /\ erased' = erased \union (IF op[p].alone THEN {u} ELSE {})
      /\ UNCHANGED <<status, credentials, signedIn, links, chosen, overlaps>>
  BY <1>2 DEF EraseNothing, Erased, Return, tables
<1>5. erased' = erased \/ (op[p].alone /\ erased' = erased \union {u})
  BY <1>4
<1>6. op[p].alone => status[u] = "deleted"
  BY <1>0, <1>1, <1>2 DEF CallOK, ErasePcs
<1>7. Notes(p)
  BY <1>0, <1>1, <1>2, <1>4, <1>5, IdleIsFine DEF Notes, LinksStay, TablesOK, CallTypeOK, Fields
<1>8. UserOK(u)'
  BY <1>3, <1>4, <1>5, <1>6 DEF UserOK
<1> QED  BY <1>0, <1>2, <1>4, <1>7, <1>8, NotingReturns

\* HandleUserDeleted commits: no hash, and no link outside those it retired.
LEMMA EraseSaveKeeps == ASSUME Fine, NEW p \in Procs, EraseSave(p) PROVE CInv'
<1>0. /\ op = [q \in Procs |-> op[q]] /\ CallTypeOK(op[p]) /\ CallOK(op[p]) /\ TablesOK
      /\ op[p].pc # "idle" => UserOK(op[p].user)
  BY Known
<1>1. op[p].pc = "eraseSave"
  BY DEF EraseSave
<1>2. PICK u \in Users : u = op[p].user
  BY <1>0, <1>1 DEF CallTypeOK
<1>3. UserOK(u)
  BY <1>0, <1>1, <1>2
<1> DEFINE c == InvalidateForDeletedUser(op[p].row)
<1>4. /\ Save(u, c)
      /\ op' = [op EXCEPT ![p] = Idle] /\ links' = Consumed(op[p].retire)
      /\ erased' = erased \union (IF op[p].alone THEN {u} ELSE {})
      /\ UNCHANGED <<status, signedIn, chosen, overlaps>>
  BY <1>2 DEF EraseSave, Erased, Return, tables
<1>5. erased' = erased \/ (op[p].alone /\ erased' = erased \union {u})
  BY <1>4
<1>6. u \in DOMAIN credentials /\ chosen[u] = NoChoice /\ u \notin erased
  BY <1>0, <1>1, <1>2 DEF CallOK, HasCredential, RowPcs, Keeps, KeepPcs, EarlyPcs
<1>7. Row(c) /\ c.pw = NoPassword /\ c.history = << >>
  BY EmptyHistory DEF Row, InvalidateForDeletedUser, Credential, Hashes
<1> HIDE DEF c
<1>8. Saves(p, c)
  BY <1>0, <1>1, <1>2, <1>4, <1>5, <1>6, <1>7, IdleIsFine DEF Saves, LinksStay, TablesOK
<1>9. credentials'[u] = c /\ u \in DOMAIN credentials'
  BY <1>2, <1>8, SavingFrame
<1>10. op[p].alone => status[u] = "deleted" /\ Unconsumed(u, BothPurposes) \subseteq op[p].retire
  BY <1>0, <1>1, <1>2 DEF CallOK, ErasePcs
<1>11. op[p].alone => Unconsumed(u, BothPurposes)' = {}
  <2> SUFFICES ASSUME op[p].alone, NEW t \in Unconsumed(u, BothPurposes)' PROVE FALSE
    OBVIOUS
  <2>1. LinksStay
    BY <1>4 DEF LinksStay
  <2>2. t \in Unconsumed(u, BothPurposes)
    BY <2>1, UnconsumedShrinks
  <2>3. t \in op[p].retire /\ t \in DOMAIN links /\ "consumed" \in DOMAIN links[t]
    BY <1>10, <2>2 DEF Unconsumed, Fine, IInv, Shapes
  <2>4. links'[t] = [links[t] EXCEPT !.consumed = TRUE]
    BY <1>4, <2>3 DEF Consumed
  <2>5. links'[t].consumed
    BY <2>3, <2>4
  <2> QED  BY <2>5 DEF Unconsumed
<1>12. UserOK(u)'
  <2>1. chosen'[u] = NoChoice /\ status'[u] = status[u]
    BY <1>4, <1>6
  <2>2. u \in erased' => op[p].alone
    BY <1>5, <1>6
  <2> QED  BY <1>7, <1>9, <1>10, <1>11, <2>1, <2>2 DEF UserOK, IsInHistory
<1> QED  BY <1>0, <1>2, <1>4, <1>8, <1>12, SavingReturns

\* Both requests issue a link: of a user who has a password, if it is to reset one.
LEMMA RequestIssueKeeps == ASSUME Fine, NEW p \in Procs, RequestIssue(p) PROVE CInv'
<1>0. /\ op = [q \in Procs |-> op[q]] /\ CallTypeOK(op[p]) /\ CallOK(op[p]) /\ TablesOK
      /\ op[p].pc # "idle" => UserOK(op[p].user)
  BY Known
<1>1. op[p].pc = "requestIssue"
  BY DEF RequestIssue
<1>2. PICK u \in Users : u = op[p].user
  BY <1>0, <1>1 DEF CallTypeOK
<1>3. UserOK(u)
  BY <1>0, <1>1, <1>2
<1> DEFINE old == Consumed(op[p].retire)
           new == NewLink(op[p].user, op[p].seen, op[p].at)
<1>4. /\ links' = Append(old, new)
      /\ op' = [op EXCEPT ![p].pc = "mail", ![p].retire = {}, ![p].link = Len(links) + 1]
      /\ UNCHANGED <<status, credentials, signedIn, chosen, erased, overlaps>>
  BY DEF RequestIssue, ghosts
<1>5. /\ Len(links) \in Nat /\ DOMAIN links = 1 .. Len(links)
      /\ \A t \in 1 .. Len(links) : {"user", "purpose", "consumed"} \subseteq DOMAIN links[t]
  BY DEF Fine, IInv, Shapes
<1>6. /\ old = [t \in 1 .. Len(links) |-> old[t]]
      /\ Len(old) = Len(links)
      /\ \A t \in 1 .. Len(links) :
           /\ old[t].user = links[t].user /\ old[t].purpose = links[t].purpose
           /\ links[t].consumed => old[t].consumed
  BY <1>5 DEF Consumed
<1>7. new.user = u /\ new.purpose = op[p].seen
  BY <1>2 DEF NewLink
<1> HIDE DEF old, new
<1>8. DOMAIN links' = 1 .. Len(links) + 1 /\ links'[Len(links) + 1] = new
      /\ \A t \in 1 .. Len(links) : links'[t] = old[t]
  <2> DEFINE S == {old[t] : t \in 1 .. Len(links)} \union {new}
  <2>1. old \in Seq(S) /\ new \in S
    BY <1>5, <1>6
  <2> HIDE DEF S
  <2> QED  BY <1>4, <1>5, <1>6, <2>1
<1>9. \A t \in DOMAIN links' :
         \/ /\ t \in DOMAIN links
            /\ links'[t].user = links[t].user /\ links'[t].purpose = links[t].purpose
            /\ links[t].consumed => links'[t].consumed
         \/ links'[t].user = u /\ links'[t].purpose = op[p].seen
  <2> SUFFICES ASSUME NEW t \in 1 .. Len(links) + 1, t # Len(links) + 1 PROVE t \in 1 .. Len(links)
    BY <1>5, <1>6, <1>7, <1>8
  <2> QED  BY <1>5
<1>10. /\ op'[p].pc = "mail" /\ op'[p].user = u /\ op'[p].alone = op[p].alone
       /\ op'[p].pw = op[p].pw /\ Fields \subseteq DOMAIN op'[p]
       /\ op' = [q \in Procs |-> op'[q]] /\ \A q \in Procs : q # p => op'[q] = op[q]
  BY <1>0, <1>2, <1>4 DEF CallTypeOK, Fields
<1>11. u \notin erased /\ (op[p].seen = "reset" => u \in DOMAIN credentials)
  BY <1>0, <1>1, <1>2 DEF CallOK, EarlyPcs, HasCredential
<1>12. Frame(p)
  BY <1>1, <1>2, <1>4, <1>9, <1>10, <1>11 DEF Frame
<1>13. TablesOK'
  <2>1. \A t \in DOMAIN links' : /\ links'[t].user \in Users
                                 /\ links'[t].purpose = "reset" => links'[t].user \in DOMAIN credentials
    BY <1>0, <1>9, <1>11 DEF TablesOK
  <2> QED  BY <1>0, <1>4, <2>1 DEF TablesOK
<1>14. UserOK(u)'
  BY <1>3, <1>4, <1>11 DEF UserOK
<1>15. CallTypeOK(op[p])'
  BY <1>0, <1>10 DEF CallTypeOK, RowPcs, Matched
<1>16. CallOK(op[p])'
  BY <1>4, <1>10, <1>11
  DEF CallOK, HasCredential, Keeps, KeepPcs, RowPcs, Redeems, Rotating, Matched, ErasePcs
<1> QED  BY <1>2, <1>12, <1>13, <1>14, <1>15, <1>16, FrameIsEnough

\* A statement that fails leaves the rows as they were.
LEMMA FailsKeeps == ASSUME Fine, NEW p \in Procs, Fails(p) PROVE CInv'
<1>0. /\ op = [q \in Procs |-> op[q]] /\ CallTypeOK(op[p]) /\ CallOK(op[p]) /\ op[p].pc # "idle"
  BY Known DEF Fails
<1>1. CASE op[p].pc = "revoke"
  BY <1>1, RevocationReportedKeeps DEF Fails
<1>2. CASE op[p].pc # "revoke"
  <2>1. /\ UNCHANGED <<status, credentials, links, signedIn, chosen, erased, overlaps>>
        /\ IF op[p].pc = "rehash" THEN Goto(p, "signIn") ELSE Return(p)
    BY <1>2 DEF Fails, tables, ghosts
  <2>2. Moves(p)
    BY <1>0, <2>1 DEF Moves, Goto, Return
  <2>3. CASE op[p].pc # "rehash"
    <3>1. op'[p] = Idle
      BY <1>0, <2>1, <2>3 DEF Return
    <3> QED  BY <2>2, <3>1, ReturningIsFine
  <2>4. CASE op[p].pc = "rehash"
    <3>1. op'[p] = [op[p] EXCEPT !.pc = "signIn"]
      BY <1>0, <2>1, <2>4 DEF Goto
    <3>2. /\ op'[p].pc = "signIn" /\ op'[p].user = op[p].user /\ op'[p].alone = op[p].alone
          /\ op'[p].pw = op[p].pw /\ op'[p].link = op[p].link /\ Fields \subseteq DOMAIN op'[p]
      BY <1>0, <3>1 DEF CallTypeOK, Fields
    <3>3. CallTypeOK(op'[p])
      BY <1>0, <2>4, <3>2 DEF CallTypeOK, RowPcs, Matched
    <3>4. CallOK(op'[p])
      BY <1>0, <2>4, <3>2
      DEF CallOK, HasCredential, Keeps, KeepPcs, EarlyPcs, RowPcs, Redeems, Rotating, Matched,
          ErasePcs
    <3> QED  BY <2>2, <3>2, <3>3, <3>4, MovingFrame
  <2> QED  BY <2>3, <2>4
<1> QED  BY <1>1, <1>2

\* A call to register, to sign in, to request a link or to administrate may replace nothing.
LEMMA KeepingArrives ==
    ASSUME Fine, NEW p \in Procs, NEW call, Begin(p, call), UNCHANGED chosen,
           Fields \subseteq DOMAIN call, call.user \in Users, call.pw \in Hashes, call.link = 0,
           call.pc \in {"registerFind", "gate", "requestUser", "suspended", "active", "same"}
    PROVE  CInv'
<1>1. /\ call.pc \in EarlyPcs /\ call.pc \notin {"loginUser", "confirmFind", "confirmUser", "statusSave"}
      /\ call.pc \notin RowPcs /\ call.pc \notin Matched /\ call.pc \in KeepPcs
  BY DEF EarlyPcs, RowPcs, Matched, KeepPcs
<1>2. Keeps(call, chosen[call.user].pw)
  BY <1>1 DEF Keeps
<1> QED  BY <1>1, <1>2, BeginIsFine

\* Whatever call arrives: one that may replace the password gives up what was chosen.
LEMMA ArriveIsFine == ASSUME Fine, NEW p \in Procs, Arrive(p) PROVE CInv'
<1>0. NoPassword \in Hashes /\ Passwords \subseteq Hashes
  BY DEF Hashes
<1>1. ASSUME NEW u \in Users, NEW pw \in Hashes, Register(p, u, pw)
      PROVE  CInv'
  <2> DEFINE call == [Idle EXCEPT !.pc = "registerFind", !.user = u, !.pw = pw]
  <2>1. /\ Fields \subseteq DOMAIN call /\ call.user = u /\ call.pw = pw /\ call.link = 0
        /\ call.pc = "registerFind"
    BY DEF Idle, Fields
  <2>2. Begin(p, call) /\ UNCHANGED chosen
    BY <1>1 DEF Register
  <2> HIDE DEF call
  <2> QED  BY <1>0, <1>1, <2>1, <2>2, KeepingArrives
<1>2. ASSUME NEW u \in Users, NEW pw \in Passwords, Login(p, u, pw)
      PROVE  CInv'
  <2> DEFINE call == [Idle EXCEPT !.pc = "gate", !.user = u, !.pw = pw]
  <2>1. /\ Fields \subseteq DOMAIN call /\ call.user = u /\ call.pw = pw /\ call.link = 0
        /\ call.pc = "gate"
    BY DEF Idle, Fields
  <2>2. Begin(p, call) /\ UNCHANGED chosen
    BY <1>2 DEF Login
  <2> HIDE DEF call
  <2> QED  BY <1>0, <1>2, <2>1, <2>2, KeepingArrives
<1>3. ASSUME NEW u \in Users, NEW purpose, Request(p, u, purpose)
      PROVE  CInv'
  <2> DEFINE call == [Idle EXCEPT !.pc = "requestUser", !.user = u, !.seen = purpose, !.at = now]
  <2>1. /\ Fields \subseteq DOMAIN call /\ call.user = u /\ call.pw = NoPassword /\ call.link = 0
        /\ call.pc = "requestUser"
    BY DEF Idle, Fields
  <2>2. Begin(p, call) /\ UNCHANGED chosen
    BY <1>3 DEF Request
  <2> HIDE DEF call
  <2> QED  BY <1>0, <1>3, <2>1, <2>2, KeepingArrives
<1>4. ASSUME NEW u \in Users, NEW to \in {"suspended", "active", "same"},
             Begin(p, StatusCall(u, to)), UNCHANGED chosen
      PROVE  CInv'
  <2> DEFINE call == StatusCall(u, to)
  <2>1. /\ Fields \subseteq DOMAIN call /\ call.user = u /\ call.pw = NoPassword /\ call.link = 0
        /\ call.pc = to
    BY DEF Idle, Fields, StatusCall
  <2>2. Begin(p, call) /\ UNCHANGED chosen
    BY <1>4
  <2> HIDE DEF call
  <2> QED  BY <1>0, <1>4, <2>1, <2>2, KeepingArrives
<1>5. ASSUME NEW call, BeginReplacing(p, call), Fields \subseteq DOMAIN call, call.user \in Users,
             call.pw \in Hashes, call.pc \in {"changeUser", "deleted", "gate"},
             call.pc = "gate" => call.user \in DOMAIN credentials
      PROVE  CInv'
  <2>1. Begin(p, call) /\ chosen' = [chosen EXCEPT ![call.user] = NoChoice]
    BY <1>5 DEF BeginReplacing
  <2>2. call.pc \in EarlyPcs /\ call.pc \notin {"loginUser", "confirmFind", "confirmUser", "gateClear"}
    BY <1>5 DEF EarlyPcs
  <2> QED  BY <1>5, <2>1, <2>2, BeginIsFine
<1>6. ASSUME NEW u \in Users, NEW current \in Passwords, NEW new \in Passwords,
             ChangePassword(p, u, current, new)
      PROVE  CInv'
  <2> DEFINE call == [Idle EXCEPT !.pc = "changeUser", !.user = u, !.current = current, !.pw = new]
  <2>1. /\ Fields \subseteq DOMAIN call /\ call.user = u /\ call.pw = new /\ call.pc = "changeUser"
    BY DEF Idle, Fields
  <2>2. BeginReplacing(p, call)
    BY <1>6 DEF ChangePassword
  <2> HIDE DEF call
  <2> QED  BY <1>0, <1>5, <2>1, <2>2
<1>7. ASSUME NEW u \in Users, DeleteUser(p, u) PROVE CInv'
  <2> DEFINE call == StatusCall(u, "deleted")
  <2>1. Fields \subseteq DOMAIN call /\ call.user = u /\ call.pw = NoPassword /\ call.pc = "deleted"
    BY DEF Idle, Fields, StatusCall
  <2>2. BeginReplacing(p, call)
    BY <1>7 DEF DeleteUser
  <2> HIDE DEF call
  <2> QED  BY <1>0, <1>5, <2>1, <2>2
<1>8. ASSUME NEW t \in mailed, NEW new \in Passwords, ConfirmReset(p, t, new) PROVE CInv'
  <2> DEFINE call == [Idle EXCEPT !.pc = "gate", !.user = links[t].user, !.link = t,
                                  !.late = links[t].consumed, !.pw = new, !.at = now]
  <2>1. Fields \subseteq DOMAIN call /\ call.user = links[t].user /\ call.pw = new /\ call.pc = "gate"
    BY DEF Idle, Fields
  <2>2. BeginReplacing(p, call) /\ links[t].purpose = "reset"
    BY <1>8 DEF ConfirmReset
  <2>3. t \in DOMAIN links /\ TablesOK
    BY DEF Fine, IInv, Mailbox, CInv
  <2>4. links[t].user \in Users /\ links[t].user \in DOMAIN credentials
    BY <2>2, <2>3 DEF TablesOK
  <2> HIDE DEF call
  <2> QED  BY <1>0, <1>5, <2>1, <2>2, <2>4
<1>9. ASSUME NEW t \in mailed, ConfirmEmail(p, t) PROVE CInv'
  <2> DEFINE call == [Idle EXCEPT !.pc = "emailFind", !.user = links[t].user, !.link = t, !.at = now]
  <2>1. /\ Fields \subseteq DOMAIN call /\ call.user = links[t].user /\ call.pw = NoPassword
        /\ call.pc = "emailFind"
    BY DEF Idle, Fields
  <2>2. Begin(p, call) /\ UNCHANGED chosen
    BY <1>9 DEF ConfirmEmail
  <2>3. links[t].user \in Users
    BY DEF Fine, IInv, Mailbox, CInv, TablesOK
  <2> HIDE DEF call
  <2>4. Keeps(call, chosen[call.user].pw)
    BY <2>1 DEF Keeps, KeepPcs, RowPcs, Matched
  <2>5. call.pc \in EarlyPcs
    BY <2>1 DEF EarlyPcs
  <2> QED  BY <1>0, <2>1, <2>2, <2>3, <2>4, <2>5, BeginIsFine
<1> QED  BY <1>0, <1>1, <1>2, <1>3, <1>4, <1>6, <1>7, <1>8, <1>9
         DEF Arrive, RegisterUserWithPassword, RegisterUser, RequestPasswordReset,
             RequestEmailVerification, SuspendUser, ReactivateUser, UpdateUserProfile

\* Whatever statement a call goes on with.
LEMMA ContinueIsFine == ASSUME Fine, NEW p \in Procs, Continue(p) PROVE CInv'
<1>1. CASE RegisterFind(p) \/ RegisterSave(p) \/ RegisterConflict(p) \/ Gate(p) \/ GateClear(p)
           \/ ReadFailures(p) \/ RecordFailure(p)
  BY <1>1, RegisterFindKeeps, RegisterSaveKeeps, RegisterConflictKeeps, GateKeeps, GateClearKeeps,
     ReadFailuresKeeps, RecordFailureKeeps
<1>2. CASE LoginFindUser(p) \/ LoginNoCredential(p) \/ LoginMismatch(p) \/ LoginMatch(p)
           \/ LoginSaveFailed(p) \/ LoginSaveCleared(p) \/ LoginSucceed(p) \/ Rehash(p) \/ SignIn(p)
  BY <1>2, LoginFindUserKeeps, LoginNoCredentialKeeps, LoginMismatchKeeps, LoginMatchKeeps,
     LoginSaveFailedKeeps, LoginSaveClearedKeeps, LoginSucceedKeeps, RehashKeeps, SignInKeeps
<1>3. CASE ChangeFindUser(p) \/ ChangeCheck(p) \/ ChangeRead(p) \/ ChangeSave(p)
           \/ RequestFind(p) \/ RequestRetire(p) \/ RequestIssue(p) \/ SendMail(p)
  BY <1>3, ChangeFindUserKeeps, ChangeCheckKeeps, ChangeReadKeeps, ChangeSaveKeeps,
     RequestFindKeeps, RequestRetireKeeps, RequestIssueKeeps, SendMailKeeps
<1>4. CASE ConfirmFind(p) \/ ConfirmFindUser(p) \/ ConfirmConsume(p) \/ ConfirmReused(p)
           \/ ConfirmCheck(p) \/ ConfirmCommit(p) \/ ConfirmSucceed(p) \/ RevokeSessions(p)
  BY <1>4, ConfirmFindKeeps, ConfirmFindUserKeeps, ConfirmConsumeKeeps, ConfirmReusedKeeps,
     ConfirmCheckKeeps, ConfirmCommitKeeps, ConfirmSucceedKeeps, RevokeSessionsKeeps
<1>5. CASE EmailFind(p) \/ EmailFindUser(p) \/ EmailActivate(p) \/ StatusFind(p) \/ StatusSave(p)
           \/ EraseNothing(p) \/ EraseFind(p) \/ EraseRetire(p) \/ EraseSave(p)
  BY <1>5, EmailFindKeeps, EmailFindUserKeeps, EmailActivateKeeps, StatusFindKeeps, StatusSaveKeeps,
     EraseNothingKeeps, EraseFindKeeps, EraseRetireKeeps, EraseSaveKeeps
<1> QED  BY <1>1, <1>2, <1>3, <1>4, <1>5 DEF Continue

\* A step that touches neither calls nor rows.
LEMMA RowsUntouched ==
    ASSUME Fine, UNCHANGED <<op, status, credentials, links, signedIn, chosen, erased, overlaps>>
    PROVE  CInv'
<1>1. TablesOK'
  BY DEF Fine, CInv, TablesOK
<1>2. \A p \in Procs : CallTypeOK(op[p])' /\ CallOK(op[p])'
  BY DEF Fine, CInv, CallTypeOK, CallOK, HasCredential, Unconsumed
<1>3. \A u \in Users : UserOK(u)'
  BY DEF Fine, CInv, UserOK, Unconsumed
<1> QED  BY <1>1, <1>2, <1>3 DEF Fine, CInv, AloneIsAlone, InCallFor

\* Every step keeps the two invariants together.
LEMMA FineStep == Fine /\ [Next]_vars => Fine'
<1> SUFFICES ASSUME Fine, [Next]_vars PROVE CInv'
  BY StepKeeps DEF Fine
<1>1. CASE Tick \/ UNCHANGED vars
  BY <1>1, RowsUntouched DEF Tick, vars, tables, ghosts
<1> QED  BY <1>1, ArriveIsFine, ContinueIsFine, FailsKeeps DEF Next

\* They hold over the tables earlier processes left.
LEMMA FineInit == Init => Fine
  BY InitHolds, CInvInit DEF Fine

\* They say what is claimed.
LEMMA FineIsEnough == Fine => ChangeIsFinal /\ ResetSignsOut /\ DeletionIsFinal /\ NoReuse
<1> SUFFICES ASSUME Fine PROVE ChangeIsFinal /\ ResetSignsOut /\ DeletionIsFinal /\ NoReuse
  OBVIOUS
<1>0. (\A u \in Users : UserOK(u)) /\ erased \subseteq Users /\ DOMAIN credentials \subseteq Users
  BY DEF Fine, CInv, TablesOK
<1>1. NoChoice.pw = NoPassword /\ NoChoice.reset = FALSE
  BY DEF NoChoice
<1>2. ChangeIsFinal /\ ResetSignsOut
  BY <1>0, <1>1 DEF UserOK, ChangeIsFinal, ResetSignsOut
<1>3. DeletionIsFinal
  BY <1>0 DEF UserOK, DeletionIsFinal, BothPurposes
<1>4. NoReuse
  BY <1>0 DEF UserOK, NoReuse
<1> QED  BY <1>2, <1>3, <1>4

\* The password set by a change or a reset that ran alone stays in force until a call begins
\* that replaces it: no login begun later brings an older one back (ChangePassword,
\* ConfirmPasswordReset, AuthenticateWithPassword).
THEOREM PasswordsStay == Spec => []ChangeIsFinal
  BY FineInit, FineStep, FineIsEnough, PTL DEF Spec
\* A reset that reported success left no session opened with another password
\* (ConfirmPasswordReset revokes them before it returns).
THEOREM SessionsEndWithReset == Spec => []ResetSignsOut
  BY FineInit, FineStep, FineIsEnough, PTL DEF Spec
\* A deletion that was handled alone holds against every later call: no hash, no link that could
\* set one (HandleUserDeleted).
THEOREM DeletedStaysDeleted == Spec => []DeletionIsFinal
  BY FineInit, FineStep, FineIsEnough, PTL DEF Spec
\* As long as no two calls of a user overlap, the password in force is not one its history keeps
\* (Credential.rotatePassword, isPasswordReused).
THEOREM PasswordsAreNotReused == Spec => []NoReuse
  BY FineInit, FineStep, FineIsEnough, PTL DEF Spec
-----------------------------------------------------------------------------
(***************************************************************************)
(* The guesses: GuessesAreRationed.  A failure is counted by the           *)
(* credential row where the user has one, else by the policy's store of    *)
(* the replica that saw it, and these counters do not know of each other.  *)
(* Below the threshold a counter has all the guesses there were; at the    *)
(* threshold a lock begins that lasts at least BaseDuration, no guess is   *)
(* answered under it, and once it is over the bound has grown by a round.  *)
(* A failed redemption is counted only once its link is dead, so no        *)
(* success clears the count.  What makes this an invariant of interleaved  *)
(* statements is what each call knows between its reads and its writes:    *)
(* Knows.                                                                  *)
(***************************************************************************)
\* Every request has a replica.
LEMMA HomeType == \A p \in Procs : Home[p] \in Replicas
  BY ProcsAssumption

\* A user whose password is looked up, and counts the failures itself.
Rowed(u) == Found(status[u]) /\ u \in DOMAIN credentials

\* As counted by the credential row, for a login that took its time at `at`: below the threshold
\* all guesses are in the count; from it on, a lock of full length began at some instant s, and no
\* guess got an answer since.
ByRow(u, at) ==
    LET c == credentials[u] IN
    IF c.fails < Threshold
    THEN c.lockedUntil = Never /\ guesses[u] <= c.fails
    ELSE \E s \in 1 .. at : s + BaseDuration <= c.lockedUntil /\ guesses[u] <= Ration(s)

\* As counted by the store of replica r: while the key is not locked, the failures it has in hand
\* are those beyond what was allowed before; a lock lasts until the next ones are.
ByKey(r, k) ==
    /\ tried[r][k] <= Ration(now)
    /\ IF attempts[r][k].lockedUntil = 0
       THEN tried[r][k] + Threshold <= Ration(now) + attempts[r][k].failed
       ELSE tried[r][k] + Threshold <= Ration(attempts[r][k].lockedUntil)

\* A failed redemption of the link was counted, on some replica.
Tried(t) == \E r \in Replicas : tried[r][t] > 0

\* A link no redemption can succeed with any more.
Dead(t, at) ==
    /\ t \in DOMAIN links
    /\ links[t].consumed \/ links[t].expires <= at \/ status[links[t].user] = "deleted"

\* Every store holds a count for every key, below the threshold unless the key is locked; time is
\* a number.
KeysOK ==
    /\ now \in Nat \ {0}
    /\ \A t \in DOMAIN links : "expires" \in DOMAIN links[t] /\ links[t].expires \in Nat
    /\ guesses \in [Users -> Nat]
    /\ tried \in [Replicas -> [Keys -> Nat]]
    /\ attempts \in [Replicas -> [Keys -> [failed : Nat, lockedUntil : Nat]]]
    /\ \A r \in Replicas, k \in Keys : attempts[r][k].lockedUntil = 0 => attempts[r][k].failed < Threshold

\* A login whose password matched has cleared the row; the guesses are forgotten with the answer.
JustMatched(u) ==
    guesses[u] <= Ration(now) /\ \E p \in Procs : op[p].pc = "loginDone" /\ op[p].user = u

UserRationed(u) ==
    /\ u \in DOMAIN credentials => credentials[u].fails \in Nat /\ credentials[u].lockedUntil \in Nat
    /\ IF Rowed(u) THEN ByRow(u, now) \/ JustMatched(u) ELSE guesses[u] <= Ration(now)

\* A guess at a link is counted once the link is dead, so no success clears its count.
LinkRationed(t) == Tried(t) => Dead(t, now)

\* Where a login holds the time it looks at locks with; what follows a free key; where a redemption
\* holds its link; where it has found the link usable.
Timed == {"loginUser", "loginCred", "loginFailed", "loginClear"}
FreePcs == {"loginUser", "loginCred", "confirmFind", "confirmUser", "failRead", "failWrite"}
AcceptedPcs == {"confirmSave", "confirmCred", "confirmCommit", "confirmDone"}
LinkPcs == {"confirmFind", "confirmUser"} \union AcceptedPcs
Dated == {"gate", "gateClear", "confirmFind", "requestUser", "requestRetire", "requestIssue"}
KeyPcs == {"gate", "gateClear", "failRead", "failWrite"}

KeyOf(c) == IF c.link = 0 THEN c.user ELSE c.link

\* What a login knows.
LoginKnows(c) ==
    /\ c.pc \in Timed => c.at \in 1 .. now /\ (Rowed(c.user) => ByRow(c.user, c.at))
    /\ c.pc = "loginCred" => Found(status[c.user])
    /\ c.pc = "loginFailed" => Rowed(c.user)
    /\ c.pc \in {"loginDone", "rehash"} => /\ credentials[c.user].fails = 0
                                          /\ credentials[c.user].lockedUntil = Never

\* What a call on replica r knows of the key its attempts are counted by.
KeyKnown(r, c) ==
    LET k == KeyOf(c) IN
    c.pc \in FreePcs \union {"gateClear"} /\ k \in Keys =>
      /\ c.pc = "gateClear" => attempts[r][k].lockedUntil \in 1 .. now
      /\ c.pc \in FreePcs => attempts[r][k].lockedUntil = 0
      /\ c.pc = "failWrite" => c.read = attempts[r][k].failed

\* A failed redemption is counted when the link is dead.
FailureKnown(c) == c.pc \in {"failRead", "failWrite"} /\ c.link # 0 => Dead(c.link, now)

\* What a redemption knows of its link; one that has not looked holds the time.
LinkKnown(c) ==
    /\ c.pc \in Dated => c.at \in 0 .. now
    /\ c.pc \in LinkPcs => c.link # 0
    /\ c.pc \in LinkPcs \union KeyPcs /\ c.link # 0 =>
         /\ c.link \in DOMAIN links /\ links[c.link].user = c.user
         /\ c.link \in Keys /\ Tried(c.link) =>
              /\ c.pc \in {"gate", "gateClear", "confirmFind"} => Dead(c.link, c.at)
              /\ c.pc = "confirmUser" => status[c.user] = "deleted"
              /\ c.pc \notin AcceptedPcs

\* What a call that saves the user whole knows of the status.
StatusKnown(c) ==
    /\ c.pc \in {"emailSave", "statusSave"} => Found(status[c.user])
    /\ c.pc = "statusSave" => c.seen = "deleted" \/ Found(c.seen)
    /\ c.pc \in {"eraseCred", "eraseRetire", "eraseSave"} => status[c.user] = "deleted"

Knows(r, c) == LoginKnows(c) /\ KeyKnown(r, c) /\ FailureKnown(c) /\ LinkKnown(c) /\ StatusKnown(c)

\* The invariant of the two lockouts, as long as no two calls of a user overlap.
Rationed ==
    /\ KeysOK
    /\ \A r \in Replicas, k \in Keys : ByKey(r, k)
    /\ \A u \in Users : UserRationed(u)
    /\ \A t \in LinkIds : LinkRationed(t)
    /\ \A p \in Procs : Knows(Home[p], op[p])

RInv == overlaps = 0 => Rationed

\* What a statement may assume.
Exact == Fine /\ overlaps = 0 /\ Rationed

\* A lock lasts, and allows another round of guesses once it is over.
LEMMA RationFacts ==
    /\ \A a \in Nat \ {0} : Ration(a) \in Nat /\ Threshold <= Ration(a)
    /\ \A a, b \in Nat \ {0} : a <= b => Ration(a) <= Ration(b)
    /\ \A a, b \in Nat \ {0} : a + BaseDuration <= b => Ration(a) + Threshold <= Ration(b)
<1>1. Threshold \in Nat \ {0} /\ BaseDuration \in Nat \ {0}
  BY LockoutAssumption
<1> DEFINE Rounds(a) == (a - 1) \div BaseDuration
<1>2. ASSUME NEW a \in Nat \ {0}
      PROVE  Rounds(a) \in Nat /\ BaseDuration * Rounds(a) <= a - 1
             /\ a - 1 < BaseDuration * Rounds(a) + BaseDuration
  BY <1>1
<1>3. ASSUME NEW a \in Nat \ {0}, NEW b \in Nat \ {0}, a <= b PROVE Rounds(a) <= Rounds(b)
  BY <1>1, <1>2, <1>3
<1>4. ASSUME NEW a \in Nat \ {0}, NEW b \in Nat \ {0}, a + BaseDuration <= b
      PROVE  Rounds(a) + 1 <= Rounds(b)
  BY <1>1, <1>2, <1>4
<1>5. \A a \in Nat \ {0} : Ration(a) = Threshold * (1 + Rounds(a))
  BY DEF Ration
<1> HIDE DEF Rounds
<1>6. ASSUME NEW i \in Nat, NEW j \in Nat, i <= j
      PROVE  Threshold * i \in Nat /\ Threshold * i <= Threshold * j
  BY <1>1, <1>6
<1>7. ASSUME NEW i \in Nat PROVE Threshold * (1 + i) = Threshold + Threshold * i
  BY <1>1, <1>7
<1>8. ASSUME NEW a \in Nat \ {0} PROVE Ration(a) \in Nat /\ Threshold <= Ration(a)
  <2>1. Ration(a) = Threshold + Threshold * Rounds(a) /\ Threshold * Rounds(a) \in Nat
    BY <1>2, <1>5, <1>6, <1>7
  <2> QED  BY <1>1, <2>1
<1>9. ASSUME NEW a \in Nat \ {0}, NEW b \in Nat \ {0}, a <= b PROVE Ration(a) <= Ration(b)
  <2>1. Rounds(a) + 1 \in Nat /\ Rounds(b) + 1 \in Nat /\ Rounds(a) + 1 <= Rounds(b) + 1
        /\ Ration(a) = Threshold * (Rounds(a) + 1) /\ Ration(b) = Threshold * (Rounds(b) + 1)
    BY <1>2, <1>3, <1>5, <1>9
  <2> QED  BY <1>6, <2>1
<1>10. ASSUME NEW a \in Nat \ {0}, NEW b \in Nat \ {0}, a + BaseDuration <= b
       PROVE  Ration(a) + Threshold <= Ration(b)
  <2>1. Threshold * (Rounds(a) + 1) <= Threshold * Rounds(b)
    <3>1. Rounds(a) + 1 \in Nat /\ Rounds(b) \in Nat
      BY <1>2
    <3> QED  BY <1>4, <1>6, <1>10, <3>1
  <2>2. /\ Ration(a) = Threshold * (Rounds(a) + 1) /\ Ration(b) = Threshold + Threshold * Rounds(b)
        /\ Threshold * (Rounds(a) + 1) \in Nat /\ Threshold * Rounds(b) \in Nat
    <3>1. Rounds(a) + 1 \in Nat /\ Rounds(b) \in Nat /\ Rounds(a) + 1 = 1 + Rounds(a)
      BY <1>2
    <3> QED  BY <1>5, <1>6, <1>7, <3>1
  <2> QED  BY <1>1, <2>1, <2>2
<1> QED  BY <1>8, <1>9, <1>10

\* A set of numbers that is not empty has a least one.
LEMMA Least == ASSUME NEW T, T \subseteq Nat, T # {} PROVE \E x \in T : \A y \in T : x <= y
<1> DEFINE R == {ss \in Nat \X Nat : ss[1] < ss[2]}
<1>1. IsWellFoundedOn(R, Nat)
  BY NatLessThanWellFounded DEF OpToRel
<1> HIDE DEF R
<1>2. \E x \in T : \A y \in T : ~ (<<y, x>> \in R)
  BY <1>1, WFMin
<1>3. PICK x \in T : \A y \in T : <<y, x>> \notin R
  BY <1>2
<1>4. \A y \in T : ~(y < x)
  BY <1>3 DEF R
<1> QED
  BY <1>4

\* f lists the powers of b up to the n-th.
Powers(f, b, n) ==
    /\ f \in [0 .. n -> Nat \ {0}]
    /\ f = [k \in 0 .. n |-> IF k = 0 THEN 1 ELSE b * f[k - 1]]

\* There is such a list for every n, or there would be a least n without one.
LEMMA PowersExist ==
  ASSUME NEW b \in Nat \ {0}, NEW n \in Nat
  PROVE  \E f : Powers(f, b, n)
<1> DEFINE T == {m \in Nat : ~\E f : Powers(f, b, m)}
<1> SUFFICES ASSUME T # {} PROVE FALSE
  OBVIOUS
<1>1. T \subseteq Nat
  OBVIOUS
<1> HIDE DEF T
<1>2. PICK m \in T : \A j \in T : m <= j
  BY <1>1, Least
<1>3. m \in Nat /\ ~\E f : Powers(f, b, m)
  BY <1>2 DEF T
<1>4. CASE m = 0
  <2> DEFINE f == [k \in 0 .. 0 |-> 1]
  <2>1. Powers(f, b, 0)
    BY DEF Powers
  <2> QED  BY <1>3, <1>4, <2>1
<1>5. CASE m # 0
  <2>1. m - 1 \in Nat /\ m - 1 < m
    BY <1>3, <1>5
  <2>2. m - 1 \notin T
    BY <1>1, <1>2, <2>1
  <2>3. PICK g : Powers(g, b, m - 1)
    BY <2>1, <2>2 DEF T
  <2> DEFINE f == [k \in 0 .. m |-> IF k = m THEN b * g[m - 1] ELSE g[k]]
  <2>4. /\ g \in [0 .. m - 1 -> Nat \ {0}]
        /\ \A k \in 0 .. m - 1 : g[k] = IF k = 0 THEN 1 ELSE b * g[k - 1]
    BY <2>3 DEF Powers
  <2>5. b * g[m - 1] \in Nat \ {0}
    <3>1. g[m - 1] \in Nat \ {0}
      BY <2>1, <2>4
    <3> QED  BY <3>1
  <2>6. f \in [0 .. m -> Nat \ {0}]
    BY <1>3, <2>4, <2>5
  <2>7. ASSUME NEW k \in 0 .. m PROVE f[k] = IF k = 0 THEN 1 ELSE b * f[k - 1]
    <3>1. CASE k = m
      BY <1>3, <1>5, <3>1
    <3>2. CASE k # m
      BY <1>3, <2>4, <3>2
    <3> QED  BY <3>1, <3>2
  <2>8. f = [k \in 0 .. m |-> IF k = 0 THEN 1 ELSE b * f[k - 1]]
    BY <2>7
  <2>9. Powers(f, b, m)
    BY <2>6, <2>8 DEF Powers
  <2> QED  BY <1>3, <2>9
<1> QED  BY <1>4, <1>5

\* A power of what is at least one is at least one (baseDurationMs * backoffFactor ** steps).
LEMMA PowerIsPositive ==
  ASSUME NEW b \in Nat \ {0}, NEW n \in Nat
  PROVE  Power(b, n) \in Nat \ {0}
<1> DEFINE IsPower(f) == f = [k \in 0 .. n |-> IF k = 0 THEN 1 ELSE b * f[k - 1]]
           power == CHOOSE f : IsPower(f)
<1>1. Power(b, n) = power[n]
  BY DEF Power
<1>2. PICK g : Powers(g, b, n)
  BY PowersExist
<1>3. IsPower(g)
  BY <1>2 DEF Powers
<1>4. IsPower(power)
  BY <1>3
<1> HIDE DEF power
<1> DEFINE T == {m \in 0 .. n : power[m] \notin Nat \ {0}}
<1>5. ASSUME T # {} PROVE FALSE
  <2>1. T \subseteq Nat
    OBVIOUS
  <2> HIDE DEF T
  <2>2. PICK m \in T : \A j \in T : m <= j
    BY <1>5, <2>1, Least
  <2>3. m \in 0 .. n /\ power[m] \notin Nat \ {0}
    BY <2>2 DEF T
  <2>4. power[m] = IF m = 0 THEN 1 ELSE b * power[m - 1]
    BY <1>4, <2>3
  <2>5. m # 0 => power[m - 1] \in Nat \ {0}
    <3>1. m # 0 => m - 1 \in 0 .. n /\ m - 1 \notin T
      BY <2>1, <2>2, <2>3
    <3> QED  BY <3>1 DEF T
  <2> QED  BY <2>3, <2>4, <2>5
<1> QED  BY <1>1, <1>5

\* Below the threshold there is no lock; from it on, none shorter than the first (lockDurationMs).
LEMMA LocksAreLong ==
  ASSUME BaseDuration <= MaxDuration, NEW n \in Nat
  PROVE  /\ n < Threshold => LockDuration(n) = 0
         /\ n >= Threshold => LockDuration(n) \in Nat /\ LockDuration(n) >= BaseDuration
<1>1. {Threshold, BaseDuration, BackoffFactor, MaxDuration} \subseteq Nat \ {0}
  BY LockoutAssumption
<1>2. CASE n < Threshold
  BY <1>1, <1>2 DEF LockDuration
<1>3. CASE n >= Threshold
  <2> DEFINE long == BaseDuration * Power(BackoffFactor, n - Threshold)
  <2>1. n - Threshold \in Nat
    BY <1>1, <1>3
  <2>2. Power(BackoffFactor, n - Threshold) \in Nat \ {0}
    BY <1>1, <2>1, PowerIsPositive
  <2>3. long \in Nat /\ long >= BaseDuration
    <3>1. \A i \in Nat \ {0} : BaseDuration * i \in Nat /\ BaseDuration * i >= BaseDuration
      BY <1>1
    <3> QED  BY <2>2, <3>1
  <2>4. LockDuration(n) \in {long, MaxDuration}
    BY <1>1, <1>3 DEF LockDuration
  <2> QED  BY <1>1, <1>3, <2>3, <2>4
<1> QED  BY <1>1, <1>2, <1>3
-----------------------------------------------------------------------------
\* A statement that touches no replica's count of this key.
Untouched(k) == \A r \in Replicas : attempts'[r][k] = attempts[r][k] /\ tried'[r][k] = tried[r][k]

\* A statement of one call leaves alone what the others and their users know: of the keys it writes
\* its user's and that of the link it redeems, a link is never given back, nor a deletion undone.
Spares(p) ==
    /\ op' = [q \in Procs |-> op'[q]]
    /\ \A q \in Procs : q # p => op'[q] = op[q]
    /\ op[p].pc # "idle"
    /\ op'[p].pc # "idle" => op'[p].user = op[p].user
    /\ now' = now /\ overlaps' = overlaps
    /\ \A v \in Users : v # op[p].user =>
         /\ status'[v] = status[v]
         /\ v \in DOMAIN credentials' <=> v \in DOMAIN credentials
         /\ v \in DOMAIN credentials => credentials'[v] = credentials[v]
         /\ guesses'[v] = guesses[v]
    /\ \A v \in Users : status[v] = "deleted" => status'[v] = "deleted"
    /\ \A k \in Keys : k # op[p].user /\ ~(op[p].pc \in LinkPcs \union KeyPcs /\ op[p].link = k) =>
         Untouched(k)
    /\ DOMAIN links \subseteq DOMAIN links'
    /\ \A t \in DOMAIN links : /\ links'[t].user = links[t].user
                               /\ links'[t].expires = links[t].expires
                               /\ links[t].consumed => links'[t].consumed

\* A user is no link.
LEMMA KeysApart ==
    /\ \A u \in Users : u \in Keys /\ u \notin LinkIds /\ u # 0
    /\ \A t \in LinkIds : t \in Keys /\ t \notin Users /\ t # 0
<1>1. LinkIds \subseteq Nat \ {0}
  BY CredentialAssumption DEF LinkIds
<1> QED  BY <1>1, KeysAssumption DEF Keys

\* And no link in the table is a user.
LEMMA LinksApart == ASSUME Fine PROVE \A t \in DOMAIN links : t \notin Users /\ links[t].user \in Users
<1>1. DOMAIN links \subseteq Nat
  BY DEF Fine, IInv, Shapes
<1>2. \A t \in DOMAIN links : links[t].user \in Users
  BY DEF Fine, CInv, TablesOK
<1> QED  BY <1>1, <1>2, KeysAssumption

\* A dead link stays dead.
LEMMA DeadStays ==
    ASSUME Fine, NEW p \in Procs, Spares(p), NEW t, NEW at, Dead(t, at)
    PROVE  Dead(t, at)'
<1>1. t \in DOMAIN links /\ links[t].user \in Users
  BY LinksApart DEF Dead
<1>2. /\ t \in DOMAIN links' /\ links'[t].user = links[t].user /\ links'[t].expires = links[t].expires
      /\ links[t].consumed => links'[t].consumed
      /\ status[links[t].user] = "deleted" => status'[links[t].user] = "deleted"
  BY <1>1 DEF Spares
<1> QED  BY <1>2 DEF Dead

\* Two calls that do not overlap are of two users.
LEMMA OthersDiffer ==
    ASSUME Exact, NEW p \in Procs, NEW q \in Procs, q # p, op[p].pc # "idle", op[q].pc # "idle"
    PROVE  op[p].user \in Users /\ op[q].user \in Users /\ op[q].user # op[p].user
<1>1. OneAtATime
  BY DEF Exact, Fine, IInv, Serial
<1>2. CallTypeOK(op[p]) /\ CallTypeOK(op[q])
  BY DEF Exact, Fine, CInv
<1> QED  BY <1>1, <1>2 DEF OneAtATime, InCall, CallTypeOK

\* What is known of a user no statement of another touches.
LEMMA SparedUser ==
    ASSUME Exact, NEW p \in Procs, Spares(p), NEW v \in Users, v # op[p].user
    PROVE  /\ Rowed(v)' <=> Rowed(v)
           /\ \A at : ByRow(v, at) /\ v \in DOMAIN credentials => ByRow(v, at)'
           /\ guesses'[v] = guesses[v] /\ Untouched(v)
<1>1. /\ status'[v] = status[v]
      /\ v \in DOMAIN credentials' <=> v \in DOMAIN credentials
      /\ v \in DOMAIN credentials => credentials'[v] = credentials[v]
  BY DEF Spares
<1>2. op[p].pc \in LinkPcs \union KeyPcs => op[p].link # v
  <2>1. Knows(Home[p], op[p])
    BY DEF Exact, Rationed
  <2>2. op[p].pc \in LinkPcs \union KeyPcs => op[p].link = 0 \/ op[p].link \in DOMAIN links
    BY <2>1 DEF Knows, LinkKnown
  <2> QED  BY <2>2, KeysApart, LinksApart DEF Exact
<1>3. guesses'[v] = guesses[v] /\ Untouched(v)
  BY <1>2, KeysApart DEF Spares
<1>4. \A at : ByRow(v, at) /\ v \in DOMAIN credentials => ByRow(v, at)'
  BY <1>1, <1>3 DEF ByRow, Ration
<1> QED  BY <1>1, <1>3, <1>4 DEF Rowed

\* So another call knows what it knew.
LEMMA SparedCall ==
    ASSUME Exact, NEW p \in Procs, Spares(p), NEW q \in Procs, q # p
    PROVE  Knows(Home[q], op[q])'
<1>1. op'[q] = op[q] /\ Knows(Home[q], op[q]) /\ CallTypeOK(op[q]) /\ CallOK(op[q]) /\ now' = now
  BY DEF Exact, Rationed, Fine, CInv, Spares
<1>2. CASE op[q].pc = "idle"
  BY <1>1, <1>2
  DEF Knows, LoginKnows, KeyKnown, FailureKnown, LinkKnown, StatusKnown, Timed, FreePcs, LinkPcs, KeyPcs, AcceptedPcs, Dated
<1>3. CASE op[q].pc # "idle"
  <2>0. PICK v \in Users, t \in {op[q].link} : v = op[q].user /\ t = op[q].link
    BY <1>3, OthersDiffer DEF Spares
  <2>1. v # op[p].user /\ op[p].pc # "idle"
    BY <1>3, <2>0, OthersDiffer DEF Spares
  <2>2. /\ Rowed(v)' <=> Rowed(v)
        /\ \A at : ByRow(v, at) /\ v \in DOMAIN credentials => ByRow(v, at)'
        /\ guesses'[v] = guesses[v] /\ Untouched(v)
    BY <2>0, <2>1, SparedUser
  <2>3. /\ status'[v] = status[v]
        /\ v \in DOMAIN credentials => credentials'[v] = credentials[v]
    BY <2>0, <2>1 DEF Spares
  <2>4. /\ op[q].pc \in LinkPcs \union KeyPcs /\ t # 0 => t \in DOMAIN links /\ links[t].user = v
        /\ op[p].pc \in LinkPcs \union KeyPcs /\ op[p].link # 0 =>
             op[p].link \in DOMAIN links /\ links[op[p].link].user = op[p].user
    <3>1. Knows(Home[p], op[p])
      BY <2>0 DEF Exact, Rationed
    <3> QED  BY <2>0, <1>1, <3>1 DEF Knows, LinkKnown
  <2>5. ASSUME op[q].pc \in LinkPcs \union KeyPcs, t # 0
        PROVE  /\ t \in DOMAIN links' /\ links'[t].user = v
               /\ t \in Keys => Untouched(t) /\ (Tried(t)' <=> Tried(t))
               /\ \A at : Dead(t, at) => Dead(t, at)'
    <3>1. t \in DOMAIN links /\ links[t].user = v
      BY <2>0, <2>4, <2>5
    <3>2. t # op[p].user
      BY <2>0, <3>1, LinksApart, <2>1, OthersDiffer, <1>3 DEF Exact
    <3>3. op[p].pc \in LinkPcs \union KeyPcs => op[p].link # t
      BY <2>0, <2>1, <2>4, <2>5, <3>1
    <3>4. t \in DOMAIN links' /\ links'[t].user = v
      BY <2>0, <3>1 DEF Spares
    <3>5. t \in Keys => Untouched(t) /\ (Tried(t)' <=> Tried(t))
      BY <2>0, <3>2, <3>3 DEF Spares, Untouched, Tried
    <3> QED  BY <3>4, <3>5, DeadStays DEF Exact
  <2>6. LoginKnows(op[q])'
    <3>1. op[q].pc \in {"loginDone", "rehash"} => v \in DOMAIN credentials
      BY <2>0, <1>1 DEF CallOK, HasCredential, RowPcs
    <3> QED  BY <2>0, <1>1, <2>2, <2>3, <3>1 DEF Knows, LoginKnows, Rowed
  <2>7. KeyKnown(Home[q], op[q])'
    <3>1. op[q].pc \in FreePcs \union {"gateClear"} => op[q].pc \in LinkPcs \union KeyPcs \/ t = 0
      BY <2>0, <1>1 DEF CallTypeOK, FreePcs, LinkPcs, KeyPcs
    <3>2. op[q].pc \in FreePcs \union {"gateClear"} /\ KeyOf(op[q]) \in Keys =>
            Untouched(KeyOf(op[q]))
      BY <2>0, <2>2, <2>5, <3>1 DEF KeyOf
    <3>3. KeyKnown(Home[q], op[q])
      BY <2>0, <1>1 DEF Knows
    <3> QED  BY <2>0, <1>1, <3>2, <3>3, HomeType DEF KeyKnown, KeyOf, FreePcs, Untouched
  <2>8. FailureKnown(op[q])'
    BY <2>0, <1>1, <2>5 DEF Knows, FailureKnown, KeyPcs
  <2>9. LinkKnown(op[q])'
    BY <2>0, <1>1, <2>3, <2>5 DEF Knows, LinkKnown
  <2>10. StatusKnown(op[q])'
    BY <2>0, <1>1, <2>3 DEF Knows, StatusKnown
  <2> QED  BY <2>6, <2>7, <2>8, <2>9, <2>10 DEF Knows
<1> QED  BY <1>2, <1>3

\* So the statement has to account for its own call, its user and its link.
LEMMA SparingIsEnough ==
    ASSUME Exact, NEW p \in Procs, Spares(p), KeysOK', Knows(Home[p], op[p])',
           NEW u \in Users, u = op[p].user, UserRationed(u)',
           \A k \in Keys : Untouched(k) \/ \A r \in Replicas : ByKey(r, k)',
           \A t \in LinkIds : Untouched(t) \/ LinkRationed(t)'
    PROVE  Rationed'
<1>1. ASSUME NEW v \in Users PROVE UserRationed(v)'
  <2>1. CASE v = u
    BY <2>1
  <2>2. CASE v # u
    <3>1. UserRationed(v)
      BY DEF Exact, Rationed
    <3>2. /\ Rowed(v)' <=> Rowed(v)
          /\ \A at : ByRow(v, at) /\ v \in DOMAIN credentials => ByRow(v, at)'
          /\ guesses'[v] = guesses[v]
      BY <2>2, SparedUser
    <3>3. /\ v \in DOMAIN credentials' <=> v \in DOMAIN credentials
          /\ v \in DOMAIN credentials => credentials'[v] = credentials[v]
          /\ now' = now
      BY <2>2 DEF Spares
    <3>4. JustMatched(v) => JustMatched(v)'
      BY <2>2, <3>2, <3>3 DEF JustMatched, Spares, Ration
    <3>5. guesses[v] <= Ration(now) => (guesses[v] <= Ration(now))'
      BY <3>2, <3>3 DEF Ration
    <3>6. Rowed(v) => v \in DOMAIN credentials
      BY DEF Rowed
    <3>7. v \in DOMAIN credentials' => credentials'[v].fails \in Nat /\ credentials'[v].lockedUntil \in Nat
      BY <3>1, <3>3 DEF UserRationed
    <3>8. IF Rowed(v)' THEN ByRow(v, now)' \/ JustMatched(v)' ELSE (guesses[v] <= Ration(now))'
      <4>1. ByRow(v, now) /\ v \in DOMAIN credentials => ByRow(v, now)'
        BY <3>2, <3>3 DEF ByRow
      <4> QED  BY <3>1, <3>2, <3>4, <3>5, <3>6, <4>1 DEF UserRationed
    <3> QED  BY <3>7, <3>8 DEF UserRationed
  <2> QED  BY <2>1, <2>2
<1>2. ASSUME NEW t \in LinkIds PROVE LinkRationed(t)'
  <2>1. LinkRationed(t)
    BY DEF Exact, Rationed
  <2>2. Dead(t, now) => Dead(t, now)'
    <3>1. Dead(t, now) => \A at : at = now => Dead(t, at)'
      BY DeadStays DEF Exact
    <3> QED  BY <3>1 DEF Dead, Spares
  <2>3. now' = now
    BY DEF Spares
  <2>4. CASE Untouched(t)
    <3>1. Tried(t)' => Tried(t)
      BY <2>4 DEF Tried, Untouched
    <3> QED  BY <2>1, <2>2, <3>1 DEF LinkRationed
  <2> QED  BY <2>4
<1>3. \A q \in Procs : Knows(Home[q], op[q])'
  BY SparedCall
<1>4. ASSUME NEW r \in Replicas, NEW k \in Keys PROVE ByKey(r, k)'
  <2>1. ByKey(r, k) /\ now' = now
    BY DEF Exact, Rationed, Spares
  <2>2. CASE Untouched(k)
    BY <2>1, <2>2 DEF Untouched, ByKey, Ration
  <2> QED  BY <2>2
<1> QED  BY <1>1, <1>2, <1>3, <1>4 DEF Rationed
-----------------------------------------------------------------------------
\* A statement that reads, or only moves its call on, when the call has no answer pending.
Looks(p) ==
    /\ UNCHANGED <<now, status, credentials, links, attempts, guesses, tried, overlaps>>
    /\ op' = [q \in Procs |-> op'[q]]
    /\ \A q \in Procs : q # p => op'[q] = op[q]
    /\ op[p].pc \notin {"idle", "loginDone"}
    /\ op'[p].pc # "idle" => op'[p].user = op[p].user

\* It has only what its call knows to account for.
LEMMA LookingIsEnough ==
    ASSUME Exact, NEW p \in Procs, Looks(p), Knows(Home[p], op'[p])
    PROVE  Rationed'
<1>1. KeysOK /\ UserRationed(op[p].user) /\ op[p].user \in Users
  BY DEF Exact, Rationed, Fine, CInv, CallTypeOK, Looks
<1>2. Spares(p)
  BY DEF Looks, Spares, Untouched
<1>3. KeysOK'
  BY <1>1 DEF Looks, KeysOK
<1>4. Knows(Home[p], op[p])'
  <2>1. LoginKnows(op[p])'
    BY DEF Looks, Knows, LoginKnows, Rowed, ByRow, Ration
  <2>2. KeyKnown(Home[p], op[p])'
    BY DEF Looks, Knows, KeyKnown, KeyOf
  <2>3. FailureKnown(op[p])'
    BY DEF Looks, Knows, FailureKnown, Dead
  <2>4. LinkKnown(op[p])'
    BY DEF Looks, Knows, LinkKnown, Dead, Tried
  <2>5. StatusKnown(op[p])'
    BY DEF Looks, Knows, StatusKnown
  <2> QED  BY <2>1, <2>2, <2>3, <2>4, <2>5 DEF Knows
<1>5. PICK u \in Users : u = op[p].user
  BY <1>1
<1>6. UserRationed(u)'
  <2>1. UserRationed(u)
    BY <1>1, <1>5
  <2>2. JustMatched(u) => JustMatched(u)'
    BY DEF Looks, JustMatched, Ration
  <2>3. ByRow(u, now) => ByRow(u, now)'
    BY DEF Looks, ByRow, Ration
  <2>4. guesses[u] <= Ration(now) => (guesses[u] <= Ration(now))'
    BY DEF Looks, Ration
  <2>5. (Rowed(u)' <=> Rowed(u)) /\ credentials' = credentials
    BY DEF Looks, Rowed
  <2> QED  BY <2>1, <2>2, <2>3, <2>4, <2>5 DEF UserRationed
<1>7. \A k : Untouched(k)
  BY DEF Looks, Untouched
<1> QED  BY <1>2, <1>3, <1>4, <1>5, <1>6, <1>7, SparingIsEnough

\* What a call in progress is known to be, and to know.
LEMMA Facts ==
    ASSUME Exact, NEW p \in Procs
    PROVE  /\ op = [q \in Procs |-> op[q]] /\ CallTypeOK(op[p]) /\ CallOK(op[p]) /\ TablesOK
           /\ KeysOK /\ Knows(Home[p], op[p])
           /\ op[p].pc # "idle" => op[p].user \in Users /\ UserRationed(op[p].user)
<1>1. op = [q \in Procs |-> op[q]] /\ CallTypeOK(op[p]) /\ CallOK(op[p]) /\ TablesOK
  BY Known DEF Exact
<1> QED  BY <1>1 DEF Exact, Rationed, CallTypeOK

\* A call that is over knows nothing.
LEMMA IdleKnows == Idle.pc = "idle" /\ \A r : Knows(r, Idle)
<1>1. Idle.pc = "idle"
  BY DEF Idle
<1> HIDE DEF Idle
<1> QED  BY <1>1 DEF Knows, LoginKnows, KeyKnown, FailureKnown, LinkKnown, StatusKnown,
                     Timed, FreePcs, LinkPcs, KeyPcs, AcceptedPcs, Dated

\* Nor does one that is where nothing is known.
KnowingPcs == Timed \union FreePcs \union LinkPcs \union KeyPcs
              \union {"loginDone", "rehash", "emailSave", "statusSave"} \union ErasePcs \union Dated

LEMMA LookingOn ==
    ASSUME Exact, NEW p \in Procs, Looks(p), op'[p].pc \notin KnowingPcs
    PROVE  Rationed'
<1>1. Knows(Home[p], op'[p])
  BY DEF KnowingPcs, ErasePcs, Knows, LoginKnows, KeyKnown, FailureKnown, LinkKnown, StatusKnown,
         Timed, FreePcs, LinkPcs, KeyPcs, AcceptedPcs, Dated
<1> QED  BY <1>1, LookingIsEnough
-----------------------------------------------------------------------------
\* The statements after which nothing is owed: of registrations, changes of password,
\* redemptions of an address link, and those that return.
LEMMA PlainStatements ==
    ASSUME Exact, NEW p \in Procs,
           \/ RegisterFind(p) \/ RegisterConflict(p) \/ SignIn(p) \/ ChangeFindUser(p)
           \/ ChangeCheck(p) \/ ChangeRead(p) \/ SendMail(p) \/ RevokeSessions(p)
           \/ RevocationReported(p) \/ EmailFind(p) \/ EraseNothing(p)
    PROVE  Rationed'
<1>1. op = [q \in Procs |-> op[q]] /\ Fields \subseteq DOMAIN op[p]
  BY Facts DEF CallTypeOK
<1> USE DEF Looks, Goto, Return, Reads, ghosts, tables, Idle, KnowingPcs, Timed, FreePcs, LinkPcs, AcceptedPcs,
            KeyPcs, Dated, ErasePcs, Fields
<1>2. CASE RegisterFind(p)
  <2>1. Looks(p) /\ op'[p].pc \notin KnowingPcs
    BY <1>1, <1>2 DEF RegisterFind
  <2> QED  BY <2>1, LookingOn
<1>3. CASE RegisterConflict(p)
  <2>1. Looks(p) /\ op'[p].pc \notin KnowingPcs
    BY <1>1, <1>3 DEF RegisterConflict
  <2> QED  BY <2>1, LookingOn
<1>4. CASE SignIn(p)
  <2>1. Looks(p) /\ op'[p].pc \notin KnowingPcs
    BY <1>1, <1>4 DEF SignIn
  <2> QED  BY <2>1, LookingOn
<1>5. CASE ChangeFindUser(p)
  <2>1. Looks(p) /\ op'[p].pc \notin KnowingPcs
    BY <1>1, <1>5 DEF ChangeFindUser
  <2> QED  BY <2>1, LookingOn
<1>6. CASE ChangeCheck(p)
  <2>1. Looks(p) /\ op'[p].pc \notin KnowingPcs
    BY <1>1, <1>6 DEF ChangeCheck
  <2> QED  BY <2>1, LookingOn
<1>7. CASE ChangeRead(p)
  <2>1. Looks(p) /\ op'[p].pc \notin KnowingPcs
    BY <1>1, <1>7 DEF ChangeRead
  <2> QED  BY <2>1, LookingOn
<1>8. CASE SendMail(p)
  <2>1. Looks(p) /\ op'[p].pc \notin KnowingPcs
    BY <1>1, <1>8 DEF SendMail
  <2> QED  BY <2>1, LookingOn
<1>9. CASE RevokeSessions(p)
  <2>1. Looks(p) /\ op'[p].pc \notin KnowingPcs
    BY <1>1, <1>9 DEF RevokeSessions
  <2> QED  BY <2>1, LookingOn
<1>10. CASE RevocationReported(p)
  <2>1. Looks(p) /\ op'[p].pc \notin KnowingPcs
    BY <1>1, <1>10 DEF RevocationReported
  <2> QED  BY <2>1, LookingOn
<1>11. CASE EmailFind(p)
  <2>1. Looks(p) /\ op'[p].pc \notin KnowingPcs
    BY <1>1, <1>11 DEF EmailFind
  <2> QED  BY <2>1, LookingOn
<1>12. CASE EraseNothing(p)
  <2>1. Looks(p) /\ op'[p].pc \notin KnowingPcs
    BY <1>1, <1>12 DEF EraseNothing
  <2> QED  BY <2>1, LookingOn
<1> QED  BY <1>2, <1>3, <1>4, <1>5, <1>6, <1>7, <1>8, <1>9, <1>10, <1>11, <1>12
-----------------------------------------------------------------------------
\* A call of a user is the only one, so where it stands tells whether a match is pending.
LEMMA NothingPending ==
    ASSUME Exact, NEW p \in Procs, op[p].pc \notin {"idle", "loginDone"}
    PROVE  ~JustMatched(op[p].user)
<1>1. \A q \in Procs : op[q].pc = "loginDone" => op[q].user # op[p].user
  BY DEF Exact, Fine, IInv, Serial, OneAtATime, InCall
<1> QED  BY <1>1 DEF JustMatched

\* A login past the gate holds the time; a redemption has held it since it arrived
\* (BruteForcePolicy.check).
LEMMA GateRations == ASSUME Exact, NEW p \in Procs, Gate(p) PROVE Rationed'
<1>0. op = [q \in Procs |-> op[q]] /\ Fields \subseteq DOMAIN op[p]
  BY Facts DEF CallTypeOK
<1>1. CallTypeOK(op[p]) /\ CallOK(op[p]) /\ TablesOK /\ KeysOK /\ Knows(Home[p], op[p])
  BY Facts
<1>2. PICK c : c = op'[p]
  OBVIOUS
<1>3. Looks(p) /\ op[p].user \in Users
  BY <1>0, <1>1 DEF Gate, Looks, Goto, Return, Reads, ghosts, tables, Idle, Fields, CallTypeOK, Admit, Key, KeyOf
<1>10. CASE c.pc = "idle"
  BY <1>2, <1>3, <1>10, LookingOn DEF KnowingPcs, ErasePcs, Timed, FreePcs, LinkPcs, KeyPcs, AcceptedPcs, Dated
<1>11. CASE c.pc = "gateClear"
  <2>1. /\ c.user = op[p].user /\ c.link = op[p].link /\ op[p].pc = "gate" /\ c.at = op[p].at
        /\ Elapsed(Home[p], KeyOf(op[p]), now)
    BY <1>0, <1>1, <1>2, <1>3, <1>11 DEF Gate, Goto, Return, Reads, Idle, Fields, Admit, Key, KeyOf
  <2>5. LoginKnows(c)
    BY <1>11, <1>1, <2>1 DEF LoginKnows, Timed, FreePcs, LinkPcs, KeyPcs, AcceptedPcs, Dated, Knows
  <2>6. KeyKnown(Home[p], c)
    <3>1. PICK h \in Replicas : h = Home[p]
      BY HomeType
    <3>2. KeyOf(c) = KeyOf(op[p]) /\ c.pc \notin FreePcs
      BY <1>11, <2>1 DEF KeyOf, FreePcs
    <3>3. KeyOf(c) \in Keys => attempts[h][KeyOf(c)].lockedUntil \in 1 .. now
      BY <1>1, <2>1, <3>1, <3>2 DEF KeysOK, Elapsed, Refused
    <3> QED  BY <1>11, <3>1, <3>2, <3>3 DEF KeyKnown
  <2>7. FailureKnown(c)
    BY <1>11, <1>1, <2>1 DEF FailureKnown, Timed, FreePcs, LinkPcs, KeyPcs, AcceptedPcs, Dated, Knows
  <2>8. LinkKnown(c)
    BY <1>11, <1>1, <2>1 DEF LinkKnown, Timed, FreePcs, LinkPcs, KeyPcs, AcceptedPcs, Dated, Knows
  <2>9. StatusKnown(c)
    BY <1>11, <1>1, <2>1 DEF StatusKnown, Timed, FreePcs, LinkPcs, KeyPcs, AcceptedPcs, Dated, Knows
  <2> QED  BY <1>2, <1>3, <2>5, <2>6, <2>7, <2>8, <2>9, LookingIsEnough DEF Knows
<1>12. CASE c.pc = "loginUser"
  <2>1. /\ c.user = op[p].user /\ c.link = op[p].link /\ op[p].pc = "gate" /\ c.at = now /\ c.link = 0
        /\ attempts[Home[p]][KeyOf(op[p])].lockedUntil = 0
    <3>1. op[p].pc = "gate" /\ attempts[Home[p]][Key(p)].lockedUntil = 0 /\ Admit(p)
      BY <1>0, <1>2, <1>12 DEF Gate, Goto, Return, Idle, Fields
    <3>2. op[p].link = 0
      BY <1>0, <1>2, <1>12, <3>1 DEF Admit, Fields
    <3>3. op' = [op EXCEPT ![p].pc = "loginUser", ![p].at = now]
      BY <3>1, <3>2 DEF Admit
    <3> QED  BY <1>0, <1>2, <3>1, <3>2, <3>3 DEF Fields, Key, KeyOf
  <2>2. Rowed(c.user) => ByRow(c.user, now)
    BY <1>3, <2>1, Facts, NothingPending DEF UserRationed
  <2>5. LoginKnows(c)
    BY <1>12, <1>1, <2>1, <2>2 DEF LoginKnows, Timed, FreePcs, LinkPcs, KeyPcs, AcceptedPcs, Dated, Knows, KeysOK
  <2>6. KeyKnown(Home[p], c)
    BY <1>12, <1>1, <2>1 DEF KeyKnown, Timed, FreePcs, LinkPcs, KeyPcs, AcceptedPcs, Dated, Knows, KeyOf
  <2>7. FailureKnown(c)
    BY <1>12, <1>1, <2>1 DEF FailureKnown, Timed, FreePcs, LinkPcs, KeyPcs, AcceptedPcs, Dated, Knows
  <2>8. LinkKnown(c)
    BY <1>12, <1>1, <2>1 DEF LinkKnown, Timed, FreePcs, LinkPcs, KeyPcs, AcceptedPcs, Dated, Knows
  <2>9. StatusKnown(c)
    BY <1>12, <1>1, <2>1 DEF StatusKnown, Timed, FreePcs, LinkPcs, KeyPcs, AcceptedPcs, Dated, Knows
  <2> QED  BY <1>2, <1>3, <2>5, <2>6, <2>7, <2>8, <2>9, LookingIsEnough DEF Knows
<1>13. CASE c.pc = "confirmFind"
  <2>1. /\ c.user = op[p].user /\ c.link = op[p].link /\ op[p].pc = "gate" /\ c.at = op[p].at /\ c.link # 0
        /\ attempts[Home[p]][KeyOf(op[p])].lockedUntil = 0
    BY <1>0, <1>1, <1>2, <1>3, <1>13 DEF Gate, Goto, Return, Reads, Idle, Fields, Admit, Key, KeyOf
  <2>5. LoginKnows(c)
    BY <1>13, <1>1, <2>1 DEF LoginKnows, Timed, FreePcs, LinkPcs, KeyPcs, AcceptedPcs, Dated, Knows
  <2>6. KeyKnown(Home[p], c)
    BY <1>13, <1>1, <2>1 DEF KeyKnown, Timed, FreePcs, LinkPcs, KeyPcs, AcceptedPcs, Dated, Knows, KeyOf
  <2>7. FailureKnown(c)
    BY <1>13, <1>1, <2>1 DEF FailureKnown, Timed, FreePcs, LinkPcs, KeyPcs, AcceptedPcs, Dated, Knows
  <2>8. LinkKnown(c)
    BY <1>13, <1>1, <2>1 DEF LinkKnown, Timed, FreePcs, LinkPcs, KeyPcs, AcceptedPcs, Dated, Knows
  <2>9. StatusKnown(c)
    BY <1>13, <1>1, <2>1 DEF StatusKnown, Timed, FreePcs, LinkPcs, KeyPcs, AcceptedPcs, Dated, Knows
  <2> QED  BY <1>2, <1>3, <2>5, <2>6, <2>7, <2>8, <2>9, LookingIsEnough DEF Knows
<1> QED
  <2>1. (c.pc = "idle") \/ (c.pc = "gateClear") \/ (c.pc = "loginUser") \/ (c.pc = "confirmFind")
    BY <1>0, <1>1, <1>2, <1>3 DEF Gate, Goto, Return, Reads, Idle, Fields, Admit, Key, KeyOf
  <2> QED  BY <2>1, <1>10, <1>11, <1>12, <1>13

\* The count is read while the key is free (BruteForcePolicy.recordFailure).
LEMMA ReadFailuresRations == ASSUME Exact, NEW p \in Procs, ReadFailures(p) PROVE Rationed'
<1>0. op = [q \in Procs |-> op[q]] /\ Fields \subseteq DOMAIN op[p]
  BY Facts DEF CallTypeOK
<1>1. CallTypeOK(op[p]) /\ CallOK(op[p]) /\ TablesOK /\ KeysOK /\ Knows(Home[p], op[p])
  BY Facts
<1>2. PICK c : c = op'[p]
  OBVIOUS
<1>3. Looks(p) /\ op[p].user \in Users
  BY <1>0, <1>1 DEF ReadFailures, Looks, Goto, Return, Reads, ghosts, tables, Idle, Fields, CallTypeOK, Key, KeyOf
<1>10. CASE c.pc = "failWrite"
  <2>1. /\ c.user = op[p].user /\ c.link = op[p].link /\ op[p].pc = "failRead"
        /\ c.read = attempts[Home[p]][KeyOf(op[p])].failed
    BY <1>0, <1>1, <1>2, <1>3, <1>10 DEF ReadFailures, Goto, Return, Reads, Idle, Fields, Key, KeyOf
  <2>5. LoginKnows(c)
    BY <1>10, <1>1, <2>1 DEF LoginKnows, Timed, FreePcs, LinkPcs, KeyPcs, AcceptedPcs, Dated, Knows
  <2>6. KeyKnown(Home[p], c)
    BY <1>10, <1>1, <2>1 DEF KeyKnown, Timed, FreePcs, LinkPcs, KeyPcs, AcceptedPcs, Dated, Knows, KeyOf
  <2>7. FailureKnown(c)
    BY <1>10, <1>1, <2>1 DEF FailureKnown, Timed, FreePcs, LinkPcs, KeyPcs, AcceptedPcs, Dated, Knows
  <2>8. LinkKnown(c)
    BY <1>10, <1>1, <2>1 DEF LinkKnown, Timed, FreePcs, LinkPcs, KeyPcs, AcceptedPcs, Dated, Knows
  <2>9. StatusKnown(c)
    BY <1>10, <1>1, <2>1 DEF StatusKnown, Timed, FreePcs, LinkPcs, KeyPcs, AcceptedPcs, Dated, Knows
  <2> QED  BY <1>2, <1>3, <2>5, <2>6, <2>7, <2>8, <2>9, LookingIsEnough DEF Knows
<1> QED
  <2>1. (c.pc = "failWrite")
    BY <1>0, <1>1, <1>2, <1>3 DEF ReadFailures, Goto, Return, Reads, Idle, Fields, Key, KeyOf
  <2> QED  BY <2>1, <1>10

\* A login with no user to find (AuthenticateWithPassword).
LEMMA LoginFindUserRations == ASSUME Exact, NEW p \in Procs, LoginFindUser(p) PROVE Rationed'
<1>0. op = [q \in Procs |-> op[q]] /\ Fields \subseteq DOMAIN op[p]
  BY Facts DEF CallTypeOK
<1>1. CallTypeOK(op[p]) /\ CallOK(op[p]) /\ TablesOK /\ KeysOK /\ Knows(Home[p], op[p])
  BY Facts
<1>2. PICK c : c = op'[p]
  OBVIOUS
<1>3. Looks(p) /\ op[p].user \in Users
  BY <1>0, <1>1 DEF LoginFindUser, Looks, Goto, Return, Reads, ghosts, tables, Idle, Fields, CallTypeOK, CountFailure
<1>10. CASE c.pc = "failRead"
  <2>1. /\ c.user = op[p].user /\ c.link = op[p].link /\ op[p].pc = "loginUser"
        /\ ~Found(status[op[p].user])
    BY <1>0, <1>1, <1>2, <1>3, <1>10 DEF LoginFindUser, Goto, Return, Reads, Idle, Fields, CountFailure
  <2>5. LoginKnows(c)
    BY <1>10, <1>1, <2>1 DEF LoginKnows, Timed, FreePcs, LinkPcs, KeyPcs, AcceptedPcs, Dated, Knows
  <2>6. KeyKnown(Home[p], c)
    BY <1>10, <1>1, <2>1 DEF KeyKnown, Timed, FreePcs, LinkPcs, KeyPcs, AcceptedPcs, Dated, Knows, KeyOf
  <2>7. FailureKnown(c)
    BY <1>10, <1>1, <2>1 DEF FailureKnown, Timed, FreePcs, LinkPcs, KeyPcs, AcceptedPcs, Dated, Knows, CallTypeOK
  <2>8. LinkKnown(c)
    BY <1>10, <1>1, <2>1 DEF LinkKnown, Timed, FreePcs, LinkPcs, KeyPcs, AcceptedPcs, Dated, Knows, CallTypeOK
  <2>9. StatusKnown(c)
    BY <1>10, <1>1, <2>1 DEF StatusKnown, Timed, FreePcs, LinkPcs, KeyPcs, AcceptedPcs, Dated, Knows
  <2> QED  BY <1>2, <1>3, <2>5, <2>6, <2>7, <2>8, <2>9, LookingIsEnough DEF Knows
<1>11. CASE c.pc = "loginCred"
  <2>1. /\ c.user = op[p].user /\ c.link = op[p].link /\ op[p].pc = "loginUser" /\ c.at = op[p].at
        /\ Found(status[op[p].user])
    BY <1>0, <1>1, <1>2, <1>3, <1>11 DEF LoginFindUser, Goto, Return, Reads, Idle, Fields, CountFailure
  <2>5. LoginKnows(c)
    BY <1>11, <1>1, <2>1 DEF LoginKnows, Timed, FreePcs, LinkPcs, KeyPcs, AcceptedPcs, Dated, Knows
  <2>6. KeyKnown(Home[p], c)
    BY <1>11, <1>1, <2>1 DEF KeyKnown, Timed, FreePcs, LinkPcs, KeyPcs, AcceptedPcs, Dated, Knows, KeyOf
  <2>7. FailureKnown(c)
    BY <1>11, <1>1, <2>1 DEF FailureKnown, Timed, FreePcs, LinkPcs, KeyPcs, AcceptedPcs, Dated, Knows
  <2>8. LinkKnown(c)
    BY <1>11, <1>1, <2>1 DEF LinkKnown, Timed, FreePcs, LinkPcs, KeyPcs, AcceptedPcs, Dated, Knows
  <2>9. StatusKnown(c)
    BY <1>11, <1>1, <2>1 DEF StatusKnown, Timed, FreePcs, LinkPcs, KeyPcs, AcceptedPcs, Dated, Knows
  <2> QED  BY <1>2, <1>3, <2>5, <2>6, <2>7, <2>8, <2>9, LookingIsEnough DEF Knows
<1> QED
  <2>1. (c.pc = "failRead") \/ (c.pc = "loginCred")
    BY <1>0, <1>1, <1>2, <1>3 DEF LoginFindUser, Goto, Return, Reads, Idle, Fields, CountFailure
  <2> QED  BY <2>1, <1>10, <1>11

\* Or with no credential.
LEMMA LoginNoCredentialRations == ASSUME Exact, NEW p \in Procs, LoginNoCredential(p) PROVE Rationed'
<1>0. op = [q \in Procs |-> op[q]] /\ Fields \subseteq DOMAIN op[p]
  BY Facts DEF CallTypeOK
<1>1. CallTypeOK(op[p]) /\ CallOK(op[p]) /\ TablesOK /\ KeysOK /\ Knows(Home[p], op[p])
  BY Facts
<1>2. PICK c : c = op'[p]
  OBVIOUS
<1>3. Looks(p) /\ op[p].user \in Users
  BY <1>0, <1>1 DEF LoginNoCredential, Looks, Goto, Return, Reads, ghosts, tables, Idle, Fields, CallTypeOK, CountFailure
<1>10. CASE c.pc = "failRead"
  <2>1. /\ c.user = op[p].user /\ c.link = op[p].link /\ op[p].pc = "loginCred"
        /\ op[p].user \notin DOMAIN credentials
    BY <1>0, <1>1, <1>2, <1>3, <1>10 DEF LoginNoCredential, Goto, Return, Reads, Idle, Fields, CountFailure
  <2>5. LoginKnows(c)
    BY <1>10, <1>1, <2>1 DEF LoginKnows, Timed, FreePcs, LinkPcs, KeyPcs, AcceptedPcs, Dated, Knows
  <2>6. KeyKnown(Home[p], c)
    BY <1>10, <1>1, <2>1 DEF KeyKnown, Timed, FreePcs, LinkPcs, KeyPcs, AcceptedPcs, Dated, Knows, KeyOf
  <2>7. FailureKnown(c)
    BY <1>10, <1>1, <2>1 DEF FailureKnown, Timed, FreePcs, LinkPcs, KeyPcs, AcceptedPcs, Dated, Knows, CallTypeOK
  <2>8. LinkKnown(c)
    BY <1>10, <1>1, <2>1 DEF LinkKnown, Timed, FreePcs, LinkPcs, KeyPcs, AcceptedPcs, Dated, Knows, CallTypeOK
  <2>9. StatusKnown(c)
    BY <1>10, <1>1, <2>1 DEF StatusKnown, Timed, FreePcs, LinkPcs, KeyPcs, AcceptedPcs, Dated, Knows
  <2> QED  BY <1>2, <1>3, <2>5, <2>6, <2>7, <2>8, <2>9, LookingIsEnough DEF Knows
<1> QED
  <2>1. (c.pc = "failRead")
    BY <1>0, <1>1, <1>2, <1>3 DEF LoginNoCredential, Goto, Return, Reads, Idle, Fields, CountFailure
  <2> QED  BY <2>1, <1>10

\* A guess is about to be counted by the row.
LEMMA LoginMismatchRations == ASSUME Exact, NEW p \in Procs, LoginMismatch(p) PROVE Rationed'
<1>0. op = [q \in Procs |-> op[q]] /\ Fields \subseteq DOMAIN op[p]
  BY Facts DEF CallTypeOK
<1>1. CallTypeOK(op[p]) /\ CallOK(op[p]) /\ TablesOK /\ KeysOK /\ Knows(Home[p], op[p])
  BY Facts
<1>2. PICK c : c = op'[p]
  OBVIOUS
<1>3. Looks(p) /\ op[p].user \in Users
  BY <1>0, <1>1 DEF LoginMismatch, Looks, Goto, Return, Reads, ghosts, tables, Idle, Fields, CallTypeOK
<1>10. CASE c.pc = "loginFailed"
  <2>1. /\ c.user = op[p].user /\ c.link = op[p].link /\ op[p].pc = "loginCred" /\ c.at = op[p].at
        /\ op[p].user \in DOMAIN credentials
    BY <1>0, <1>1, <1>2, <1>3, <1>10 DEF LoginMismatch, Goto, Return, Reads, Idle, Fields
  <2>5. LoginKnows(c)
    BY <1>10, <1>1, <2>1 DEF LoginKnows, Timed, FreePcs, LinkPcs, KeyPcs, AcceptedPcs, Dated, Knows, Rowed
  <2>6. KeyKnown(Home[p], c)
    BY <1>10, <1>1, <2>1 DEF KeyKnown, Timed, FreePcs, LinkPcs, KeyPcs, AcceptedPcs, Dated, Knows, KeyOf
  <2>7. FailureKnown(c)
    BY <1>10, <1>1, <2>1 DEF FailureKnown, Timed, FreePcs, LinkPcs, KeyPcs, AcceptedPcs, Dated, Knows
  <2>8. LinkKnown(c)
    BY <1>10, <1>1, <2>1 DEF LinkKnown, Timed, FreePcs, LinkPcs, KeyPcs, AcceptedPcs, Dated, Knows
  <2>9. StatusKnown(c)
    BY <1>10, <1>1, <2>1 DEF StatusKnown, Timed, FreePcs, LinkPcs, KeyPcs, AcceptedPcs, Dated, Knows
  <2> QED  BY <1>2, <1>3, <2>5, <2>6, <2>7, <2>8, <2>9, LookingIsEnough DEF Knows
<1> QED
  <2>1. (c.pc = "loginFailed")
    BY <1>0, <1>1, <1>2, <1>3 DEF LoginMismatch, Goto, Return, Reads, Idle, Fields
  <2> QED  BY <2>1, <1>10

\* A match: the row is written only if there is anything to clear.
LEMMA LoginMatchRations == ASSUME Exact, NEW p \in Procs, LoginMatch(p) PROVE Rationed'
<1>0. op = [q \in Procs |-> op[q]] /\ Fields \subseteq DOMAIN op[p]
  BY Facts DEF CallTypeOK
<1>1. CallTypeOK(op[p]) /\ CallOK(op[p]) /\ TablesOK /\ KeysOK /\ Knows(Home[p], op[p])
  BY Facts
<1>2. PICK c : c = op'[p]
  OBVIOUS
<1>3. Looks(p) /\ op[p].user \in Users
  BY <1>0, <1>1 DEF LoginMatch, Looks, Goto, Return, Reads, ghosts, tables, Idle, Fields, CallTypeOK, Stored
<1>10. CASE c.pc = "idle"
  BY <1>2, <1>3, <1>10, LookingOn DEF KnowingPcs, ErasePcs, Timed, FreePcs, LinkPcs, KeyPcs, AcceptedPcs, Dated
<1>11. CASE c.pc = "loginClear"
  <2>1. /\ c.user = op[p].user /\ c.link = op[p].link /\ op[p].pc = "loginCred" /\ c.at = op[p].at
    BY <1>0, <1>1, <1>2, <1>3, <1>11 DEF LoginMatch, Goto, Return, Reads, Idle, Fields, Stored
  <2>5. LoginKnows(c)
    BY <1>11, <1>1, <2>1 DEF LoginKnows, Timed, FreePcs, LinkPcs, KeyPcs, AcceptedPcs, Dated, Knows
  <2>6. KeyKnown(Home[p], c)
    BY <1>11, <1>1, <2>1 DEF KeyKnown, Timed, FreePcs, LinkPcs, KeyPcs, AcceptedPcs, Dated, Knows, KeyOf
  <2>7. FailureKnown(c)
    BY <1>11, <1>1, <2>1 DEF FailureKnown, Timed, FreePcs, LinkPcs, KeyPcs, AcceptedPcs, Dated, Knows
  <2>8. LinkKnown(c)
    BY <1>11, <1>1, <2>1 DEF LinkKnown, Timed, FreePcs, LinkPcs, KeyPcs, AcceptedPcs, Dated, Knows
  <2>9. StatusKnown(c)
    BY <1>11, <1>1, <2>1 DEF StatusKnown, Timed, FreePcs, LinkPcs, KeyPcs, AcceptedPcs, Dated, Knows
  <2> QED  BY <1>2, <1>3, <2>5, <2>6, <2>7, <2>8, <2>9, LookingIsEnough DEF Knows
<1>12. CASE c.pc = "loginDone"
  <2>1. /\ c.user = op[p].user /\ c.link = op[p].link /\ op[p].pc = "loginCred"
        /\ op[p].user \in DOMAIN credentials
        /\ credentials[op[p].user] = RecordSuccessfulAttempt(credentials[op[p].user])
    BY <1>0, <1>1, <1>2, <1>3, <1>12 DEF LoginMatch, Goto, Return, Reads, Idle, Fields, Stored
  <2>2. credentials[c.user].fails = 0 /\ credentials[c.user].lockedUntil = Never
    <3>1. Row(credentials[op[p].user])
      BY <1>1, <2>1 DEF TablesOK
    <3> QED  BY <2>1, <3>1 DEF Row, RecordSuccessfulAttempt
  <2>5. LoginKnows(c)
    BY <1>12, <2>1, <2>2 DEF LoginKnows, Timed, FreePcs, LinkPcs, KeyPcs, AcceptedPcs, Dated, Knows
  <2>6. KeyKnown(Home[p], c)
    BY <1>12, <1>1, <2>1 DEF KeyKnown, Timed, FreePcs, LinkPcs, KeyPcs, AcceptedPcs, Dated, Knows, KeyOf
  <2>7. FailureKnown(c)
    BY <1>12, <1>1, <2>1 DEF FailureKnown, Timed, FreePcs, LinkPcs, KeyPcs, AcceptedPcs, Dated, Knows
  <2>8. LinkKnown(c)
    BY <1>12, <1>1, <2>1 DEF LinkKnown, Timed, FreePcs, LinkPcs, KeyPcs, AcceptedPcs, Dated, Knows
  <2>9. StatusKnown(c)
    BY <1>12, <1>1, <2>1 DEF StatusKnown, Timed, FreePcs, LinkPcs, KeyPcs, AcceptedPcs, Dated, Knows
  <2> QED  BY <1>2, <1>3, <2>5, <2>6, <2>7, <2>8, <2>9, LookingIsEnough DEF Knows
<1> QED
  <2>1. (c.pc = "idle") \/ (c.pc = "loginClear") \/ (c.pc = "loginDone")
    <3>1. CASE CanAuthenticate(op[p].seen)
      BY <1>0, <1>2, <3>1 DEF LoginMatch, Fields
    <3>2. CASE ~CanAuthenticate(op[p].seen)
      BY <1>0, <1>2, <3>2 DEF LoginMatch, Return, Idle
    <3> QED  BY <3>1, <3>2
  <2> QED  BY <2>1, <1>10, <1>11, <1>12

\* A link that is found used up or expired will not be usable again; one with failures behind it is
\* usable only if its user has been deleted (ConfirmPasswordReset).
LEMMA ConfirmFindRations == ASSUME Exact, NEW p \in Procs, ConfirmFind(p) PROVE Rationed'
<1>0. op = [q \in Procs |-> op[q]] /\ Fields \subseteq DOMAIN op[p]
  BY Facts DEF CallTypeOK
<1>1. CallTypeOK(op[p]) /\ CallOK(op[p]) /\ TablesOK /\ KeysOK /\ Knows(Home[p], op[p])
  BY Facts
<1>2. PICK c : c = op'[p]
  OBVIOUS
<1>3. Looks(p) /\ op[p].user \in Users
  BY <1>0, <1>1 DEF ConfirmFind, Looks, Goto, Return, Reads, ghosts, tables, Idle, Fields, CallTypeOK, CountFailure
<1>4. /\ op[p].pc = "confirmFind" /\ op[p].link # 0 /\ op[p].link \in DOMAIN links
      /\ links[op[p].link].user = op[p].user
  BY <1>1 DEF ConfirmFind, Knows, LinkKnown, LinkPcs
<1>5. now \in Nat /\ links[op[p].link].expires \in Nat /\ op[p].at \in 0 .. now
  BY <1>1, <1>4 DEF Knows, LinkKnown, KeysOK, Dated
<1>10. CASE c.pc = "confirmUser"
  <2>1. /\ c.user = op[p].user /\ c.link = op[p].link /\ IsUsableAt(links[op[p].link], op[p].at)
    BY <1>0, <1>1, <1>2, <1>3, <1>10 DEF ConfirmFind, Goto, Return, Reads, Idle, Fields, CountFailure
  <2>5. LoginKnows(c)
    BY <1>10, <1>1, <2>1 DEF LoginKnows, Timed, FreePcs, LinkPcs, KeyPcs, AcceptedPcs, Dated, Knows
  <2>6. KeyKnown(Home[p], c)
    BY <1>10, <1>1, <1>4, <2>1 DEF KeyKnown, Timed, FreePcs, LinkPcs, KeyPcs, AcceptedPcs, Dated, Knows, KeyOf
  <2>7. FailureKnown(c)
    BY <1>10, <1>1, <2>1 DEF FailureKnown, Timed, FreePcs, LinkPcs, KeyPcs, AcceptedPcs, Dated, Knows
  <2>8. LinkKnown(c)
    BY <1>10, <1>1, <1>4, <1>5, <2>1 DEF LinkKnown, Timed, FreePcs, LinkPcs, KeyPcs, AcceptedPcs, Dated, Knows, IsUsableAt, Dead
  <2>9. StatusKnown(c)
    BY <1>10, <1>1, <2>1 DEF StatusKnown, Timed, FreePcs, LinkPcs, KeyPcs, AcceptedPcs, Dated, Knows
  <2> QED  BY <1>2, <1>3, <2>5, <2>6, <2>7, <2>8, <2>9, LookingIsEnough DEF Knows
<1>11. CASE c.pc = "failRead"
  <2>1. /\ c.user = op[p].user /\ c.link = op[p].link /\ ~IsUsableAt(links[op[p].link], op[p].at)
    BY <1>0, <1>1, <1>2, <1>3, <1>11 DEF ConfirmFind, Goto, Return, Reads, Idle, Fields, CountFailure
  <2>5. LoginKnows(c)
    BY <1>11, <1>1, <2>1 DEF LoginKnows, Timed, FreePcs, LinkPcs, KeyPcs, AcceptedPcs, Dated, Knows
  <2>6. KeyKnown(Home[p], c)
    BY <1>11, <1>1, <1>4, <2>1 DEF KeyKnown, Timed, FreePcs, LinkPcs, KeyPcs, AcceptedPcs, Dated, Knows, KeyOf
  <2>7. FailureKnown(c)
    BY <1>11, <1>1, <1>4, <1>5, <2>1 DEF FailureKnown, Timed, FreePcs, LinkPcs, KeyPcs, AcceptedPcs, Dated, Knows, IsUsableAt, Dead
  <2>8. LinkKnown(c)
    BY <1>11, <1>1, <1>4, <2>1 DEF LinkKnown, Timed, FreePcs, LinkPcs, KeyPcs, AcceptedPcs, Dated, Knows
  <2>9. StatusKnown(c)
    BY <1>11, <1>1, <2>1 DEF StatusKnown, Timed, FreePcs, LinkPcs, KeyPcs, AcceptedPcs, Dated, Knows
  <2> QED  BY <1>2, <1>3, <2>5, <2>6, <2>7, <2>8, <2>9, LookingIsEnough DEF Knows
<1> QED
  <2>1. (c.pc = "confirmUser") \/ (c.pc = "failRead")
    BY <1>0, <1>1, <1>2, <1>3 DEF ConfirmFind, Goto, Return, Reads, Idle, Fields, CountFailure
  <2> QED  BY <2>1, <1>10, <1>11

\* The user of a link that is usable has a password, and is gone only if deleted.
LEMMA ConfirmFindUserRations == ASSUME Exact, NEW p \in Procs, ConfirmFindUser(p) PROVE Rationed'
<1>0. op = [q \in Procs |-> op[q]] /\ Fields \subseteq DOMAIN op[p]
  BY Facts DEF CallTypeOK
<1>1. CallTypeOK(op[p]) /\ CallOK(op[p]) /\ TablesOK /\ KeysOK /\ Knows(Home[p], op[p])
  BY Facts
<1>2. PICK c : c = op'[p]
  OBVIOUS
<1>3. Looks(p) /\ op[p].user \in Users
  BY <1>0, <1>1 DEF ConfirmFindUser, Looks, Goto, Return, Reads, ghosts, tables, Idle, Fields, CallTypeOK, CountFailure
<1>4. /\ op[p].pc = "confirmUser" /\ op[p].link # 0 /\ op[p].link \in DOMAIN links
      /\ links[op[p].link].user = op[p].user
  BY <1>1 DEF ConfirmFindUser, Knows, LinkKnown, LinkPcs
<1>5. status[op[p].user] # "none"
  BY <1>1, <1>4 DEF CallOK, HasCredential, Redeems, TablesOK
<1>10. CASE c.pc = "confirmSave"
  <2>1. /\ c.user = op[p].user /\ c.link = op[p].link /\ Found(status[op[p].user])
    BY <1>0, <1>1, <1>2, <1>3, <1>10 DEF ConfirmFindUser, Goto, Return, Reads, Idle, Fields, CountFailure
  <2>5. LoginKnows(c)
    BY <1>10, <1>1, <2>1 DEF LoginKnows, Timed, FreePcs, LinkPcs, KeyPcs, AcceptedPcs, Dated, Knows
  <2>6. KeyKnown(Home[p], c)
    BY <1>10, <1>1, <2>1 DEF KeyKnown, Timed, FreePcs, LinkPcs, KeyPcs, AcceptedPcs, Dated, Knows, KeyOf
  <2>7. FailureKnown(c)
    BY <1>10, <1>1, <2>1 DEF FailureKnown, Timed, FreePcs, LinkPcs, KeyPcs, AcceptedPcs, Dated, Knows
  <2>8. LinkKnown(c)
    BY <1>10, <1>1, <1>4, <2>1 DEF LinkKnown, Timed, FreePcs, LinkPcs, KeyPcs, AcceptedPcs, Dated, Knows, Found
  <2>9. StatusKnown(c)
    BY <1>10, <1>1, <2>1 DEF StatusKnown, Timed, FreePcs, LinkPcs, KeyPcs, AcceptedPcs, Dated, Knows
  <2> QED  BY <1>2, <1>3, <2>5, <2>6, <2>7, <2>8, <2>9, LookingIsEnough DEF Knows
<1>11. CASE c.pc = "failRead"
  <2>1. /\ c.user = op[p].user /\ c.link = op[p].link /\ ~Found(status[op[p].user])
    BY <1>0, <1>1, <1>2, <1>3, <1>11 DEF ConfirmFindUser, Goto, Return, Reads, Idle, Fields, CountFailure
  <2>5. LoginKnows(c)
    BY <1>11, <1>1, <2>1 DEF LoginKnows, Timed, FreePcs, LinkPcs, KeyPcs, AcceptedPcs, Dated, Knows
  <2>6. KeyKnown(Home[p], c)
    BY <1>11, <1>1, <1>4, <2>1 DEF KeyKnown, Timed, FreePcs, LinkPcs, KeyPcs, AcceptedPcs, Dated, Knows, KeyOf
  <2>7. FailureKnown(c)
    BY <1>11, <1>1, <1>4, <1>5, <2>1 DEF FailureKnown, Timed, FreePcs, LinkPcs, KeyPcs, AcceptedPcs, Dated, Knows, Found, Dead
  <2>8. LinkKnown(c)
    BY <1>11, <1>1, <1>4, <2>1 DEF LinkKnown, Timed, FreePcs, LinkPcs, KeyPcs, AcceptedPcs, Dated, Knows
  <2>9. StatusKnown(c)
    BY <1>11, <1>1, <2>1 DEF StatusKnown, Timed, FreePcs, LinkPcs, KeyPcs, AcceptedPcs, Dated, Knows
  <2> QED  BY <1>2, <1>3, <2>5, <2>6, <2>7, <2>8, <2>9, LookingIsEnough DEF Knows
<1> QED
  <2>1. (c.pc = "confirmSave") \/ (c.pc = "failRead")
    BY <1>0, <1>1, <1>2, <1>3 DEF ConfirmFindUser, Goto, Return, Reads, Idle, Fields, CountFailure
  <2> QED  BY <2>1, <1>10, <1>11

\* Past the lookups.
LEMMA ConfirmConsumeRations == ASSUME Exact, NEW p \in Procs, ConfirmConsume(p) PROVE Rationed'
<1>0. op = [q \in Procs |-> op[q]] /\ Fields \subseteq DOMAIN op[p]
  BY Facts DEF CallTypeOK
<1>1. CallTypeOK(op[p]) /\ CallOK(op[p]) /\ TablesOK /\ KeysOK /\ Knows(Home[p], op[p])
  BY Facts
<1>2. PICK c : c = op'[p]
  OBVIOUS
<1>3. Looks(p) /\ op[p].user \in Users
  BY <1>0, <1>1 DEF ConfirmConsume, Looks, Goto, Return, Reads, ghosts, tables, Idle, Fields, CallTypeOK
<1>10. CASE c.pc = "confirmCred"
  <2>1. /\ c.user = op[p].user /\ c.link = op[p].link /\ op[p].pc = "confirmSave"
    BY <1>0, <1>1, <1>2, <1>3, <1>10 DEF ConfirmConsume, Goto, Return, Reads, Idle, Fields
  <2>5. LoginKnows(c)
    BY <1>10, <1>1, <2>1 DEF LoginKnows, Timed, FreePcs, LinkPcs, KeyPcs, AcceptedPcs, Dated, Knows
  <2>6. KeyKnown(Home[p], c)
    BY <1>10, <1>1, <2>1 DEF KeyKnown, Timed, FreePcs, LinkPcs, KeyPcs, AcceptedPcs, Dated, Knows, KeyOf
  <2>7. FailureKnown(c)
    BY <1>10, <1>1, <2>1 DEF FailureKnown, Timed, FreePcs, LinkPcs, KeyPcs, AcceptedPcs, Dated, Knows
  <2>8. LinkKnown(c)
    BY <1>10, <1>1, <2>1 DEF LinkKnown, Timed, FreePcs, LinkPcs, KeyPcs, AcceptedPcs, Dated, Knows
  <2>9. StatusKnown(c)
    BY <1>10, <1>1, <2>1 DEF StatusKnown, Timed, FreePcs, LinkPcs, KeyPcs, AcceptedPcs, Dated, Knows
  <2> QED  BY <1>2, <1>3, <2>5, <2>6, <2>7, <2>8, <2>9, LookingIsEnough DEF Knows
<1> QED
  <2>1. (c.pc = "confirmCred")
    BY <1>0, <1>1, <1>2, <1>3 DEF ConfirmConsume, Goto, Return, Reads, Idle, Fields
  <2> QED  BY <2>1, <1>10

LEMMA ConfirmCheckRations == ASSUME Exact, NEW p \in Procs, ConfirmCheck(p) PROVE Rationed'
<1>0. op = [q \in Procs |-> op[q]] /\ Fields \subseteq DOMAIN op[p]
  BY Facts DEF CallTypeOK
<1>1. CallTypeOK(op[p]) /\ CallOK(op[p]) /\ TablesOK /\ KeysOK /\ Knows(Home[p], op[p])
  BY Facts
<1>2. PICK c : c = op'[p]
  OBVIOUS
<1>3. Looks(p) /\ op[p].user \in Users
  BY <1>0, <1>1 DEF ConfirmCheck, Looks, Goto, Return, Reads, ghosts, tables, Idle, Fields, CallTypeOK
<1>10. CASE c.pc = "confirmCommit"
  <2>1. /\ c.user = op[p].user /\ c.link = op[p].link /\ op[p].pc = "confirmCred"
    BY <1>0, <1>1, <1>2, <1>3, <1>10 DEF ConfirmCheck, Goto, Return, Reads, Idle, Fields
  <2>5. LoginKnows(c)
    BY <1>10, <1>1, <2>1 DEF LoginKnows, Timed, FreePcs, LinkPcs, KeyPcs, AcceptedPcs, Dated, Knows
  <2>6. KeyKnown(Home[p], c)
    BY <1>10, <1>1, <2>1 DEF KeyKnown, Timed, FreePcs, LinkPcs, KeyPcs, AcceptedPcs, Dated, Knows, KeyOf
  <2>7. FailureKnown(c)
    BY <1>10, <1>1, <2>1 DEF FailureKnown, Timed, FreePcs, LinkPcs, KeyPcs, AcceptedPcs, Dated, Knows
  <2>8. LinkKnown(c)
    BY <1>10, <1>1, <2>1 DEF LinkKnown, Timed, FreePcs, LinkPcs, KeyPcs, AcceptedPcs, Dated, Knows
  <2>9. StatusKnown(c)
    BY <1>10, <1>1, <2>1 DEF StatusKnown, Timed, FreePcs, LinkPcs, KeyPcs, AcceptedPcs, Dated, Knows
  <2> QED  BY <1>2, <1>3, <2>5, <2>6, <2>7, <2>8, <2>9, LookingIsEnough DEF Knows
<1> QED
  <2>1. (c.pc = "confirmCommit")
    BY <1>0, <1>1, <1>2, <1>3 DEF ConfirmCheck, Goto, Return, Reads, Idle, Fields
  <2> QED  BY <2>1, <1>10

\* A request for a link holds the time it began (RequestPasswordReset, RequestEmailVerification).
LEMMA RequestFindRations == ASSUME Exact, NEW p \in Procs, RequestFind(p) PROVE Rationed'
<1>0. op = [q \in Procs |-> op[q]] /\ Fields \subseteq DOMAIN op[p]
  BY Facts DEF CallTypeOK
<1>1. CallTypeOK(op[p]) /\ CallOK(op[p]) /\ TablesOK /\ KeysOK /\ Knows(Home[p], op[p])
  BY Facts
<1>2. PICK c : c = op'[p]
  OBVIOUS
<1>3. Looks(p) /\ op[p].user \in Users
  BY <1>0, <1>1 DEF RequestFind, Looks, Goto, Return, Reads, ghosts, tables, Idle, Fields, CallTypeOK
<1>10. CASE c.pc = "idle"
  BY <1>2, <1>3, <1>10, LookingOn DEF KnowingPcs, ErasePcs, Timed, FreePcs, LinkPcs, KeyPcs, AcceptedPcs, Dated
<1>11. CASE c.pc = "requestRetire"
  <2>1. /\ c.user = op[p].user /\ c.link = op[p].link /\ op[p].pc = "requestUser" /\ c.at = op[p].at
    BY <1>0, <1>1, <1>2, <1>3, <1>11 DEF RequestFind, Goto, Return, Reads, Idle, Fields
  <2>5. LoginKnows(c)
    BY <1>11, <1>1, <2>1 DEF LoginKnows, Timed, FreePcs, LinkPcs, KeyPcs, AcceptedPcs, Dated, Knows
  <2>6. KeyKnown(Home[p], c)
    BY <1>11, <1>1, <2>1 DEF KeyKnown, Timed, FreePcs, LinkPcs, KeyPcs, AcceptedPcs, Dated, Knows, KeyOf
  <2>7. FailureKnown(c)
    BY <1>11, <1>1, <2>1 DEF FailureKnown, Timed, FreePcs, LinkPcs, KeyPcs, AcceptedPcs, Dated, Knows
  <2>8. LinkKnown(c)
    BY <1>11, <1>1, <2>1 DEF LinkKnown, Timed, FreePcs, LinkPcs, KeyPcs, AcceptedPcs, Dated, Knows
  <2>9. StatusKnown(c)
    BY <1>11, <1>1, <2>1 DEF StatusKnown, Timed, FreePcs, LinkPcs, KeyPcs, AcceptedPcs, Dated, Knows
  <2> QED  BY <1>2, <1>3, <2>5, <2>6, <2>7, <2>8, <2>9, LookingIsEnough DEF Knows
<1> QED
  <2>1. (c.pc = "idle") \/ (c.pc = "requestRetire")
    BY <1>0, <1>1, <1>2, <1>3 DEF RequestFind, Goto, Return, Reads, Idle, Fields
  <2> QED  BY <2>1, <1>10, <1>11

LEMMA RequestRetireRations == ASSUME Exact, NEW p \in Procs, RequestRetire(p) PROVE Rationed'
<1>0. op = [q \in Procs |-> op[q]] /\ Fields \subseteq DOMAIN op[p]
  BY Facts DEF CallTypeOK
<1>1. CallTypeOK(op[p]) /\ CallOK(op[p]) /\ TablesOK /\ KeysOK /\ Knows(Home[p], op[p])
  BY Facts
<1>2. PICK c : c = op'[p]
  OBVIOUS
<1>3. Looks(p) /\ op[p].user \in Users
  BY <1>0, <1>1 DEF RequestRetire, Looks, Goto, Return, Reads, ghosts, tables, Idle, Fields, CallTypeOK, Retire
<1>10. CASE c.pc = "requestIssue"
  <2>1. /\ c.user = op[p].user /\ c.link = op[p].link /\ op[p].pc = "requestRetire" /\ c.at = op[p].at
    BY <1>0, <1>1, <1>2, <1>3, <1>10 DEF RequestRetire, Goto, Return, Reads, Idle, Fields, Retire
  <2>5. LoginKnows(c)
    BY <1>10, <1>1, <2>1 DEF LoginKnows, Timed, FreePcs, LinkPcs, KeyPcs, AcceptedPcs, Dated, Knows
  <2>6. KeyKnown(Home[p], c)
    BY <1>10, <1>1, <2>1 DEF KeyKnown, Timed, FreePcs, LinkPcs, KeyPcs, AcceptedPcs, Dated, Knows, KeyOf
  <2>7. FailureKnown(c)
    BY <1>10, <1>1, <2>1 DEF FailureKnown, Timed, FreePcs, LinkPcs, KeyPcs, AcceptedPcs, Dated, Knows
  <2>8. LinkKnown(c)
    BY <1>10, <1>1, <2>1 DEF LinkKnown, Timed, FreePcs, LinkPcs, KeyPcs, AcceptedPcs, Dated, Knows
  <2>9. StatusKnown(c)
    BY <1>10, <1>1, <2>1 DEF StatusKnown, Timed, FreePcs, LinkPcs, KeyPcs, AcceptedPcs, Dated, Knows
  <2> QED  BY <1>2, <1>3, <2>5, <2>6, <2>7, <2>8, <2>9, LookingIsEnough DEF Knows
<1> QED
  <2>1. (c.pc = "requestIssue")
    BY <1>0, <1>1, <1>2, <1>3 DEF RequestRetire, Goto, Return, Reads, Idle, Fields, Retire
  <2> QED  BY <2>1, <1>10

\* The copy of the user a call is about to save (ConfirmEmailVerification, SuspendUser,
\* ReactivateUser, UpdateUserProfile, HandleUserDeleted).
LEMMA EmailFindUserRations == ASSUME Exact, NEW p \in Procs, EmailFindUser(p) PROVE Rationed'
<1>0. op = [q \in Procs |-> op[q]] /\ Fields \subseteq DOMAIN op[p]
  BY Facts DEF CallTypeOK
<1>1. CallTypeOK(op[p]) /\ CallOK(op[p]) /\ TablesOK /\ KeysOK /\ Knows(Home[p], op[p])
  BY Facts
<1>2. PICK c : c = op'[p]
  OBVIOUS
<1>3. Looks(p) /\ op[p].user \in Users
  BY <1>0, <1>1 DEF EmailFindUser, Looks, Goto, Return, Reads, ghosts, tables, Idle, Fields, CallTypeOK
<1>10. CASE c.pc = "idle"
  BY <1>2, <1>3, <1>10, LookingOn DEF KnowingPcs, ErasePcs, Timed, FreePcs, LinkPcs, KeyPcs, AcceptedPcs, Dated
<1>11. CASE c.pc = "emailSave"
  <2>1. /\ c.user = op[p].user /\ c.link = op[p].link /\ op[p].pc = "emailUser" /\ Found(status[op[p].user])
    BY <1>0, <1>1, <1>2, <1>3, <1>11 DEF EmailFindUser, Goto, Return, Reads, Idle, Fields
  <2>5. LoginKnows(c)
    BY <1>11, <1>1, <2>1 DEF LoginKnows, Timed, FreePcs, LinkPcs, KeyPcs, AcceptedPcs, Dated, Knows
  <2>6. KeyKnown(Home[p], c)
    BY <1>11, <1>1, <2>1 DEF KeyKnown, Timed, FreePcs, LinkPcs, KeyPcs, AcceptedPcs, Dated, Knows, KeyOf
  <2>7. FailureKnown(c)
    BY <1>11, <1>1, <2>1 DEF FailureKnown, Timed, FreePcs, LinkPcs, KeyPcs, AcceptedPcs, Dated, Knows
  <2>8. LinkKnown(c)
    BY <1>11, <1>1, <2>1 DEF LinkKnown, Timed, FreePcs, LinkPcs, KeyPcs, AcceptedPcs, Dated, Knows
  <2>9. StatusKnown(c)
    BY <1>11, <1>1, <2>1 DEF StatusKnown, Timed, FreePcs, LinkPcs, KeyPcs, AcceptedPcs, Dated, Knows
  <2> QED  BY <1>2, <1>3, <2>5, <2>6, <2>7, <2>8, <2>9, LookingIsEnough DEF Knows
<1> QED
  <2>1. (c.pc = "idle") \/ (c.pc = "emailSave")
    BY <1>0, <1>1, <1>2, <1>3 DEF EmailFindUser, Goto, Return, Reads, Idle, Fields
  <2> QED  BY <2>1, <1>10, <1>11

LEMMA StatusFindRations == ASSUME Exact, NEW p \in Procs, StatusFind(p) PROVE Rationed'
<1>0. op = [q \in Procs |-> op[q]] /\ Fields \subseteq DOMAIN op[p]
  BY Facts DEF CallTypeOK
<1>1. CallTypeOK(op[p]) /\ CallOK(op[p]) /\ TablesOK /\ KeysOK /\ Knows(Home[p], op[p])
  BY Facts
<1>2. PICK c : c = op'[p]
  OBVIOUS
<1>3. Looks(p) /\ op[p].user \in Users
  BY <1>0, <1>1 DEF StatusFind, Looks, Goto, Return, Reads, ghosts, tables, Idle, Fields, CallTypeOK, Found, MaySet, MayBecome
<1>10. CASE c.pc = "idle"
  BY <1>2, <1>3, <1>10, LookingOn DEF KnowingPcs, ErasePcs, Timed, FreePcs, LinkPcs, KeyPcs, AcceptedPcs, Dated
<1>11. CASE c.pc = "statusSave"
  <2>1. /\ c.user = op[p].user /\ c.link = op[p].link /\ Found(status[op[p].user])
        /\ (c.seen = "deleted" \/ Found(c.seen))
    <3>1. PICK from, to : from = status[op[p].user] /\ to = op[p].pc
      OBVIOUS
    <3>2. /\ Found(from) /\ MaySet(from, to) /\ to \in {"suspended", "active", "deleted", "same"}
          /\ op' = [op EXCEPT ![p].pc = "statusSave", ![p].seen = IF to = "same" THEN from ELSE to]
      BY <1>0, <1>2, <1>11, <3>1 DEF StatusFind, Return, Idle
    <3>3. c.seen = (IF to = "same" THEN from ELSE to) /\ c.user = op[p].user /\ c.link = op[p].link
      BY <1>0, <1>2, <3>2 DEF Fields
    <3>4. c.seen = "deleted" \/ Found(c.seen)
      BY <3>2, <3>3 DEF Found
    <3> QED  BY <3>1, <3>2, <3>3, <3>4
  <2>5. LoginKnows(c)
    BY <1>11, <1>1, <2>1 DEF LoginKnows, Timed, FreePcs, LinkPcs, KeyPcs, AcceptedPcs, Dated, Knows
  <2>6. KeyKnown(Home[p], c)
    BY <1>11, <1>1, <2>1 DEF KeyKnown, Timed, FreePcs, LinkPcs, KeyPcs, AcceptedPcs, Dated, Knows, KeyOf
  <2>7. FailureKnown(c)
    BY <1>11, <1>1, <2>1 DEF FailureKnown, Timed, FreePcs, LinkPcs, KeyPcs, AcceptedPcs, Dated, Knows
  <2>8. LinkKnown(c)
    BY <1>11, <1>1, <2>1 DEF LinkKnown, Timed, FreePcs, LinkPcs, KeyPcs, AcceptedPcs, Dated, Knows
  <2>9. StatusKnown(c)
    BY <1>11, <1>1, <2>1 DEF StatusKnown, Timed, FreePcs, LinkPcs, KeyPcs, AcceptedPcs, Dated, Knows
  <2> QED  BY <1>2, <1>3, <2>5, <2>6, <2>7, <2>8, <2>9, LookingIsEnough DEF Knows
<1> QED
  <2>1. (c.pc = "idle") \/ (c.pc = "statusSave")
    BY <1>0, <1>1, <1>2, <1>3 DEF StatusFind, Goto, Return, Reads, Idle, Fields, Found, MaySet, MayBecome
  <2> QED  BY <2>1, <1>10, <1>11

LEMMA EraseFindRations == ASSUME Exact, NEW p \in Procs, EraseFind(p) PROVE Rationed'
<1>0. op = [q \in Procs |-> op[q]] /\ Fields \subseteq DOMAIN op[p]
  BY Facts DEF CallTypeOK
<1>1. CallTypeOK(op[p]) /\ CallOK(op[p]) /\ TablesOK /\ KeysOK /\ Knows(Home[p], op[p])
  BY Facts
<1>2. PICK c : c = op'[p]
  OBVIOUS
<1>3. Looks(p) /\ op[p].user \in Users
  BY <1>0, <1>1 DEF EraseFind, Looks, Goto, Return, Reads, ghosts, tables, Idle, Fields, CallTypeOK
<1>10. CASE c.pc = "eraseRetire"
  <2>1. /\ c.user = op[p].user /\ c.link = op[p].link /\ op[p].pc = "eraseCred"
    BY <1>0, <1>1, <1>2, <1>3, <1>10 DEF EraseFind, Goto, Return, Reads, Idle, Fields
  <2>5. LoginKnows(c)
    BY <1>10, <1>1, <2>1 DEF LoginKnows, Timed, FreePcs, LinkPcs, KeyPcs, AcceptedPcs, Dated, Knows
  <2>6. KeyKnown(Home[p], c)
    BY <1>10, <1>1, <2>1 DEF KeyKnown, Timed, FreePcs, LinkPcs, KeyPcs, AcceptedPcs, Dated, Knows, KeyOf
  <2>7. FailureKnown(c)
    BY <1>10, <1>1, <2>1 DEF FailureKnown, Timed, FreePcs, LinkPcs, KeyPcs, AcceptedPcs, Dated, Knows
  <2>8. LinkKnown(c)
    BY <1>10, <1>1, <2>1 DEF LinkKnown, Timed, FreePcs, LinkPcs, KeyPcs, AcceptedPcs, Dated, Knows
  <2>9. StatusKnown(c)
    BY <1>10, <1>1, <2>1 DEF StatusKnown, Timed, FreePcs, LinkPcs, KeyPcs, AcceptedPcs, Dated, Knows
  <2> QED  BY <1>2, <1>3, <2>5, <2>6, <2>7, <2>8, <2>9, LookingIsEnough DEF Knows
<1> QED
  <2>1. (c.pc = "eraseRetire")
    BY <1>0, <1>1, <1>2, <1>3 DEF EraseFind, Goto, Return, Reads, Idle, Fields
  <2> QED  BY <2>1, <1>10

LEMMA EraseRetireRations == ASSUME Exact, NEW p \in Procs, EraseRetire(p) PROVE Rationed'
<1>0. op = [q \in Procs |-> op[q]] /\ Fields \subseteq DOMAIN op[p]
  BY Facts DEF CallTypeOK
<1>1. CallTypeOK(op[p]) /\ CallOK(op[p]) /\ TablesOK /\ KeysOK /\ Knows(Home[p], op[p])
  BY Facts
<1>2. PICK c : c = op'[p]
  OBVIOUS
<1>3. Looks(p) /\ op[p].user \in Users
  BY <1>0, <1>1 DEF EraseRetire, Looks, Goto, Return, Reads, ghosts, tables, Idle, Fields, CallTypeOK, Retire
<1>10. CASE c.pc = "eraseSave"
  <2>1. /\ c.user = op[p].user /\ c.link = op[p].link /\ op[p].pc = "eraseRetire"
    BY <1>0, <1>1, <1>2, <1>3, <1>10 DEF EraseRetire, Goto, Return, Reads, Idle, Fields, Retire
  <2>5. LoginKnows(c)
    BY <1>10, <1>1, <2>1 DEF LoginKnows, Timed, FreePcs, LinkPcs, KeyPcs, AcceptedPcs, Dated, Knows
  <2>6. KeyKnown(Home[p], c)
    BY <1>10, <1>1, <2>1 DEF KeyKnown, Timed, FreePcs, LinkPcs, KeyPcs, AcceptedPcs, Dated, Knows, KeyOf
  <2>7. FailureKnown(c)
    BY <1>10, <1>1, <2>1 DEF FailureKnown, Timed, FreePcs, LinkPcs, KeyPcs, AcceptedPcs, Dated, Knows
  <2>8. LinkKnown(c)
    BY <1>10, <1>1, <2>1 DEF LinkKnown, Timed, FreePcs, LinkPcs, KeyPcs, AcceptedPcs, Dated, Knows
  <2>9. StatusKnown(c)
    BY <1>10, <1>1, <2>1 DEF StatusKnown, Timed, FreePcs, LinkPcs, KeyPcs, AcceptedPcs, Dated, Knows
  <2> QED  BY <1>2, <1>3, <2>5, <2>6, <2>7, <2>8, <2>9, LookingIsEnough DEF Knows
<1> QED
  <2>1. (c.pc = "eraseSave")
    BY <1>0, <1>1, <1>2, <1>3 DEF EraseRetire, Goto, Return, Reads, Idle, Fields, Retire
  <2> QED  BY <2>1, <1>10
-----------------------------------------------------------------------------
\* Consuming links keeps when they expire.
LEMMA LinksLast ==
    ASSUME Exact, LinksStay
    PROVE  /\ DOMAIN links' = DOMAIN links
           /\ \A t \in DOMAIN links : /\ links'[t].user = links[t].user
                                      /\ links'[t].expires = links[t].expires
                                      /\ links[t].consumed => links'[t].consumed
                                      /\ "expires" \in DOMAIN links'[t] /\ links'[t].expires \in Nat
<1>1. /\ DOMAIN links' = DOMAIN links
      /\ \A t \in DOMAIN links : /\ links'[t].user = links[t].user
                                 /\ links[t].consumed => links'[t].consumed
  BY LinksKeep DEF Exact
<1>2. \A t \in DOMAIN links : "expires" \in DOMAIN links[t] /\ links[t].expires \in Nat
  BY DEF Exact, Rationed, KeysOK
<1>3. CASE links' = links
  BY <1>1, <1>2, <1>3
<1>4. ASSUME NEW ids, links' = Consumed(ids)
      PROVE  \A t \in DOMAIN links : /\ links'[t].expires = links[t].expires
                                     /\ "expires" \in DOMAIN links'[t]
  <2>1. \A t \in DOMAIN links :
          links'[t] = IF t \in ids THEN [links[t] EXCEPT !.consumed = TRUE] ELSE links[t]
    BY <1>4 DEF Consumed
  <2> QED  BY <1>2, <2>1
<1> QED  BY <1>1, <1>2, <1>3, <1>4 DEF LinksStay

\* A call that has returned, or has nothing to know, knows all it should.
LEMMA NothingToKnow == ASSUME NEW p \in Procs, op'[p].pc \notin KnowingPcs PROVE Knows(Home[p], op[p])'
  BY DEF KnowingPcs, ErasePcs, Knows, LoginKnows, KeyKnown, FailureKnown, LinkKnown, StatusKnown,
         Timed, FreePcs, LinkPcs, KeyPcs, AcceptedPcs, Dated

\* A key with no guesses is within its ration.
LEMMA NoGuesses ==
    ASSUME KeysOK', NEW r \in Replicas, NEW k \in Keys, tried'[r][k] = 0 PROVE ByKey(r, k)'
<1>1. /\ now' \in Nat \ {0} /\ attempts'[r][k].failed \in Nat /\ attempts'[r][k].lockedUntil \in Nat
      /\ Threshold \in Nat
  BY LockoutAssumption DEF KeysOK
<1>2. /\ Ration(now') \in Nat /\ Threshold <= Ration(now')
      /\ attempts'[r][k].lockedUntil # 0 => Threshold <= Ration(attempts'[r][k].lockedUntil)
  BY <1>1, RationFacts
<1> QED  BY <1>1, <1>2 DEF ByKey, Ration

\* Nor is a user whose guesses are forgotten and whose row is cleared.
LEMMA StartsOver ==
    ASSUME KeysOK', NEW u \in Users, guesses'[u] = 0,
           u \in DOMAIN credentials' => /\ credentials'[u].fails = 0
                                        /\ credentials'[u].lockedUntil = Never
    PROVE  UserRationed(u)'
<1>1. (guesses[u] <= Ration(now))'
  <2>1. now' \in Nat \ {0}
    BY DEF KeysOK
  <2>2. Ration(now') \in Nat
    BY <2>1, RationFacts
  <2> QED  BY <2>2 DEF Ration
<1>2. u \in DOMAIN credentials' => ByRow(u, now)'
  BY LockoutAssumption DEF ByRow, Never
<1> QED  BY <1>1, <1>2 DEF UserRationed, Rowed, Never

\* A statement that touches neither the counts of the user nor whether the row counts.
CountsStay(u) ==
    /\ Rowed(u)' <=> Rowed(u)
    /\ guesses'[u] = guesses[u] /\ now' = now
    /\ u \in DOMAIN credentials' =>
         \/ /\ u \in DOMAIN credentials
            /\ credentials'[u].fails = credentials[u].fails
            /\ credentials'[u].lockedUntil = credentials[u].lockedUntil
         \/ /\ ~Rowed(u)
            /\ credentials'[u].fails = 0 /\ credentials'[u].lockedUntil = Never

LEMMA UserStays ==
    ASSUME Exact, NEW p \in Procs, op[p].pc \notin {"idle", "loginDone"}, NEW u \in Users, u = op[p].user,
           CountsStay(u)
    PROVE  UserRationed(u)'
<1>1. UserRationed(u) /\ ~JustMatched(u)
  BY NothingPending DEF Exact, Rationed
<1>2. CASE Rowed(u)
  <2>1. ByRow(u, now) /\ u \in DOMAIN credentials'
    BY <1>1, <1>2 DEF UserRationed, CountsStay, Rowed
  <2>2. ByRow(u, now)'
    BY <1>2, <2>1 DEF CountsStay, ByRow, Ration
  <2> QED  BY <1>1, <1>2, <2>1, <2>2 DEF UserRationed, CountsStay
<1>3. CASE ~Rowed(u)
  <2>1. (guesses[u] <= Ration(now))'
    BY <1>1, <1>3 DEF UserRationed, CountsStay, Ration
  <2> QED  BY <1>1, <1>3, <2>1 DEF UserRationed, CountsStay, Never
<1> QED  BY <1>2, <1>3

\* What a row allows, however long ago its lock began.
LEMMA RowBounds ==
    ASSUME Exact, NEW u \in Users, u \in DOMAIN credentials, NEW at \in 1 .. now, ByRow(u, at)
    PROVE  guesses[u] \in Nat /\ guesses[u] <= Ration(at) /\ guesses[u] <= Ration(now) /\ Ration(at) \in Nat
<1>1. now \in Nat \ {0} /\ guesses[u] \in Nat /\ Threshold \in Nat /\ at \in Nat \ {0}
  BY LockoutAssumption DEF Exact, Rationed, KeysOK
<1>2. UserRationed(u)
  BY DEF Exact, Rationed
<1>3. Ration(at) \in Nat /\ Ration(now) \in Nat /\ Threshold <= Ration(at) /\ Ration(at) <= Ration(now)
  BY <1>1, RationFacts
<1>4. CASE credentials[u].fails < Threshold
  <2>1. guesses[u] <= credentials[u].fails
    BY <1>4 DEF ByRow
  <2>2. guesses[u] <= Threshold
    BY <1>1, <1>2, <1>4, <2>1 DEF UserRationed
  <2> QED  BY <1>1, <1>3, <2>2
<1>5. CASE ~(credentials[u].fails < Threshold)
  <2>1. PICK s \in 1 .. at : guesses[u] <= Ration(s)
    BY <1>5 DEF ByRow
  <2>2. s \in Nat \ {0} /\ Ration(s) \in Nat /\ Ration(s) <= Ration(at)
    BY <1>1, <2>1, RationFacts
  <2> QED  BY <1>1, <1>3, <2>1, <2>2
<1> QED  BY <1>4, <1>5

\* check() forgets a key whose lock has run out: the guesses it has had were allowed by then.
LEMMA Forgotten ==
    ASSUME Exact, NEW r \in Replicas, NEW k \in Keys, ByKey(r, k), attempts[r][k].lockedUntil \in 1 .. now,
           attempts'[r][k] = NoAttempts, tried'[r][k] = tried[r][k], now' = now
    PROVE  ByKey(r, k)'
<1>1. /\ now \in Nat \ {0} /\ tried[r][k] \in Nat /\ Threshold \in Nat
      /\ attempts[r][k].lockedUntil \in Nat \ {0}
  BY LockoutAssumption DEF Exact, Rationed, KeysOK
<1>2. /\ Ration(now) \in Nat /\ Ration(attempts[r][k].lockedUntil) \in Nat
      /\ Ration(attempts[r][k].lockedUntil) <= Ration(now)
  BY <1>1, RationFacts
<1>3. tried[r][k] + Threshold <= Ration(attempts[r][k].lockedUntil) /\ tried[r][k] <= Ration(now)
  BY <1>1 DEF ByKey
<1>4. tried[r][k] + Threshold <= Ration(now) + 0
  BY <1>1, <1>2, <1>3
<1> QED  BY <1>3, <1>4 DEF ByKey, NoAttempts, Ration

\* recordFailure: the failure that reaches the threshold locks the key until the next round.
LEMMA Counted ==
    ASSUME BaseDuration <= MaxDuration,
           Exact, NEW r \in Replicas, NEW k \in Keys, ByKey(r, k), attempts[r][k].lockedUntil = 0,
           attempts'[r][k] = [failed |-> attempts[r][k].failed + 1,
                           lockedUntil |-> LockUntil(attempts[r][k].failed + 1, now)],
           tried'[r][k] = tried[r][k] + 1, now' = now
    PROVE  /\ ByKey(r, k)' /\ attempts'[r][k] \in [failed : Nat, lockedUntil : Nat]
           /\ attempts'[r][k].lockedUntil = 0 => attempts'[r][k].failed < Threshold
<1>1. /\ now \in Nat \ {0} /\ tried[r][k] \in Nat /\ Threshold \in Nat \ {0} /\ BaseDuration \in Nat \ {0}
      /\ attempts[r][k].failed \in Nat /\ attempts[r][k].failed < Threshold
  BY LockoutAssumption DEF Exact, Rationed, KeysOK
<1>2. PICK n \in Nat : n = attempts[r][k].failed + 1
  BY <1>1
<1>3. /\ n <= Threshold /\ attempts'[r][k].failed = n /\ attempts'[r][k].lockedUntil = LockUntil(n, now)
      /\ attempts'[r][k] = [failed |-> n, lockedUntil |-> LockUntil(n, now)]
  BY <1>1, <1>2
<1>4. Ration(now) \in Nat /\ tried[r][k] + Threshold <= Ration(now) + attempts[r][k].failed
  BY <1>1, RationFacts DEF ByKey
<1>5. tried'[r][k] <= Ration(now) /\ tried'[r][k] + Threshold <= Ration(now) + n
  BY <1>1, <1>2, <1>3, <1>4
<1>6. CASE n < Threshold
  <2>1. LockUntil(n, now) = 0
    BY <1>6, LocksAreLong DEF LockUntil
  <2> QED  BY <1>3, <1>5, <1>6, <2>1 DEF ByKey, Ration
<1>7. CASE n = Threshold
  <2>1. PICK d : d = LockDuration(n)
    OBVIOUS
  <2>2. d \in Nat /\ d >= BaseDuration
    BY <1>1, <1>7, <2>1, LocksAreLong
  <2>3. LockUntil(n, now) = now + d /\ now + d \in Nat \ {0} /\ now + BaseDuration <= now + d
    BY <1>1, <2>1, <2>2 DEF LockUntil
  <2>4. Ration(now) + Threshold <= Ration(now + d) /\ Ration(now + d) \in Nat
    BY <1>1, <2>3, RationFacts
  <2>5. tried'[r][k] + Threshold <= Ration(now + d)
    BY <1>1, <1>3, <1>4, <1>5, <2>4
  <2>6. attempts'[r][k].lockedUntil = now + d /\ attempts'[r][k] \in [failed : Nat, lockedUntil : Nat]
    BY <1>3, <2>3
  <2> QED  BY <1>1, <1>5, <2>3, <2>5, <2>6 DEF ByKey, Ration
<1> QED  BY <1>1, <1>3, <1>6, <1>7
\* A write to one key of one replica's store.
LEMMA StoreWritten ==
    ASSUME NEW S, NEW f \in [Replicas -> [Keys -> S]], NEW r \in Replicas, NEW k, NEW v \in S,
           NEW g, g = [f EXCEPT ![r][k] = v]
    PROVE  /\ g \in [Replicas -> [Keys -> S]]
           /\ k \in Keys => g[r][k] = v
           /\ \A i \in Replicas, j \in Keys : i # r \/ j # k => g[i][j] = f[i][j]
<1>1. g = [i \in Replicas |-> IF i = r THEN [f[r] EXCEPT ![k] = v] ELSE f[i]]
  OBVIOUS
<1>2. PICK w : w = [f[r] EXCEPT ![k] = v]
  OBVIOUS
<1>3. w = [j \in Keys |-> IF j = k THEN v ELSE f[r][j]]
  BY <1>2
<1>4. w \in [Keys -> S] /\ (k \in Keys => w[k] = v) /\ \A j \in Keys : j # k => w[j] = f[r][j]
  BY <1>3
<1>5. g = [i \in Replicas |-> IF i = r THEN w ELSE f[i]]
  BY <1>1, <1>2
<1> QED  BY <1>4, <1>5
-----------------------------------------------------------------------------
\* check(): an elapsed lock is forgotten.
LEMMA GateClearRations == ASSUME Exact, NEW p \in Procs, GateClear(p) PROVE Rationed'
<1>0. op = [q \in Procs |-> op[q]] /\ Fields \subseteq DOMAIN op[p] /\ KeysOK /\ Knows(Home[p], op[p])
  BY Facts DEF CallTypeOK
<1>1. op[p].pc = "gateClear" /\ attempts' = [attempts EXCEPT ![Home[p]][KeyOf(op[p])] = NoAttempts]
  BY DEF GateClear, Clear, Key, KeyOf
<1>2. PICK u \in Users : u = op[p].user
  BY <1>1, Facts
<1>3. PICK h \in Replicas, k \in {KeyOf(op[p])} : h = Home[p] /\ k = KeyOf(op[p])
  BY HomeType
<1>4. /\ UNCHANGED <<now, status, credentials, links, guesses, tried, overlaps>>
      /\ op' = [q \in Procs |-> op'[q]] /\ \A q \in Procs : q # p => op'[q] = op[q]
      /\ op'[p].user = u /\ op'[p].link = op[p].link
      /\ op'[p].link = 0 => op'[p].pc = "loginUser" /\ op'[p].at = now
      /\ op'[p].link # 0 => op'[p].pc = "confirmFind" /\ op'[p].at = op[p].at
  BY <1>0, <1>1, <1>2 DEF GateClear, Admit, Fields, tables, ghosts
<1>5. /\ k \in Keys => k = u \/ k = op[p].link
      /\ op[p].link = 0 => k = u
      /\ op[p].link # 0 => /\ k = op[p].link /\ op[p].link \in DOMAIN links
                           /\ links[op[p].link].user = u /\ k \notin Users
  <2>1. op[p].link # 0 => op[p].link \in DOMAIN links /\ links[op[p].link].user = u
    BY <1>0, <1>1, <1>2 DEF Knows, LinkKnown, KeyPcs
  <2> QED  BY <1>2, <1>3, <2>1, LinksApart DEF KeyOf, Exact
<1>6. /\ \A r \in Replicas, i \in Keys : r # h \/ i # k => attempts'[r][i] = attempts[r][i]
      /\ k \in Keys => attempts'[h][k] = NoAttempts /\ attempts[h][k].lockedUntil \in 1 .. now
      /\ attempts' \in [Replicas -> [Keys -> [failed : Nat, lockedUntil : Nat]]]
  <2>1. attempts \in [Replicas -> [Keys -> [failed : Nat, lockedUntil : Nat]]]
    BY <1>0 DEF KeysOK
  <2>2. NoAttempts \in [failed : Nat, lockedUntil : Nat]
    BY DEF NoAttempts
  <2>3. k \in Keys => attempts[h][k].lockedUntil \in 1 .. now
    BY <1>0, <1>1, <1>3 DEF Knows, KeyKnown
  <2> HIDE DEF NoAttempts
  <2> QED  BY <1>1, <1>3, <2>1, <2>2, <2>3, StoreWritten
<1>7. Spares(p)
  <2>1. \A i \in Keys : i # k => Untouched(i)
    BY <1>4, <1>6 DEF Untouched
  <2> QED  BY <1>1, <1>2, <1>4, <1>5, <2>1 DEF Spares, KeyPcs
<1>8. KeysOK'
  <2>1. \A r \in Replicas, i \in Keys : attempts'[r][i].lockedUntil = 0 => attempts'[r][i].failed < Threshold
    <3> SUFFICES ASSUME NEW r \in Replicas, NEW i \in Keys, attempts'[r][i].lockedUntil = 0
                 PROVE  attempts'[r][i].failed < Threshold
      OBVIOUS
    <3>1. CASE r = h /\ i = k
      <4>1. attempts'[r][i].failed = 0
        BY <1>6, <3>1 DEF NoAttempts
      <4> QED  BY <4>1, LockoutAssumption
    <3>2. CASE r # h \/ i # k
      BY <1>0, <1>6, <3>2 DEF KeysOK
    <3> QED  BY <3>1, <3>2
  <2> QED  BY <1>0, <1>4, <1>6, <2>1 DEF KeysOK
<1>9. UserRationed(u) /\ ~JustMatched(u)
  BY <1>1, <1>2, NothingPending DEF Exact, Rationed
<1>10. Rowed(u) => ByRow(u, now) /\ ByRow(u, now)'
  BY <1>4, <1>9 DEF UserRationed, ByRow, Ration
<1>11. UserRationed(u)'
  BY <1>4, <1>9, <1>10 DEF UserRationed, Rowed, Ration
<1>12. \A i \in Keys : Untouched(i) \/ \A r \in Replicas : ByKey(r, i)'
  <2> SUFFICES ASSUME NEW i \in Keys, NEW r \in Replicas PROVE ByKey(r, i)'
    OBVIOUS
  <2>1. ByKey(r, i)
    BY DEF Exact, Rationed
  <2>2. CASE r = h /\ i = k
    BY <1>4, <1>6, <2>1, <2>2, Forgotten
  <2>3. CASE r # h \/ i # k
    BY <1>4, <1>6, <2>1, <2>3 DEF ByKey, Ration
  <2> QED  BY <2>2, <2>3
<1>13. \A t \in LinkIds : LinkRationed(t)'
  BY <1>4 DEF Exact, Rationed, LinkRationed, Tried, Dead
<1>14. Knows(Home[p], op[p])'
  <2>1. PICK c : c = op'[p]
    OBVIOUS
  <2>2. LoginKnows(c)'
    BY <1>0, <1>4, <1>10, <2>1 DEF LoginKnows, Timed, KeysOK, Rowed
  <2>3. KeyKnown(Home[p], c)'
    BY <1>3, <1>4, <1>6, <2>1, <1>2 DEF KeyKnown, KeyOf, NoAttempts
  <2>4. FailureKnown(c)'
    BY <1>4, <2>1 DEF FailureKnown
  <2>5. LinkKnown(c)'
    BY <1>0, <1>1, <1>2, <1>4, <2>1 DEF Knows, LinkKnown, LinkPcs, KeyPcs, AcceptedPcs, Dated, Dead, Tried
  <2>6. StatusKnown(c)'
    BY <1>4, <2>1 DEF StatusKnown
  <2> QED  BY <2>1, <2>2, <2>3, <2>4, <2>5, <2>6 DEF Knows
<1> QED  BY <1>2, <1>7, <1>8, <1>11, <1>12, <1>13, <1>14, SparingIsEnough

\* recordFailure(): the guess is counted by key, one at a link once no redemption of the link can
\* succeed any more.
LEMMA RecordFailureRations ==
    ASSUME BaseDuration <= MaxDuration, Exact, NEW p \in Procs, RecordFailure(p) PROVE Rationed'
<1>0. op = [q \in Procs |-> op[q]] /\ Fields \subseteq DOMAIN op[p] /\ KeysOK /\ Knows(Home[p], op[p])
  BY Facts DEF CallTypeOK
<1>1. op[p].pc = "failWrite"
  BY DEF RecordFailure
<1>2. PICK u \in Users : u = op[p].user
  BY <1>1, Facts
<1>3. PICK h \in Replicas, k \in {KeyOf(op[p])} : h = Home[p] /\ k = KeyOf(op[p])
  BY HomeType
<1>4. /\ UNCHANGED <<now, status, credentials, links, guesses, overlaps>>
      /\ op' = [q \in Procs |-> op'[q]] /\ \A q \in Procs : q # p => op'[q] = op[q]
      /\ op'[p] = Idle /\ Idle.pc = "idle"
  BY <1>0, <1>1, IdleKnows DEF RecordFailure, Return, tables
<1>5. /\ tried' = [tried EXCEPT ![h][k] = tried[h][k] + 1]
      /\ attempts' = [attempts EXCEPT ![h][k] = [failed |-> attempts[h][k].failed + 1,
                                                 lockedUntil |-> LockUntil(op[p].read + 1, now)]]
  BY <1>3 DEF RecordFailure, WriteFailure, Key, KeyOf
<1>6. /\ k \in Keys => k = u \/ k = op[p].link
      /\ op[p].link = 0 => k = u
      /\ op[p].link # 0 => /\ k = op[p].link /\ op[p].link \in DOMAIN links
                           /\ links[op[p].link].user = u /\ k \notin Users
  <2>1. op[p].link # 0 => op[p].link \in DOMAIN links /\ links[op[p].link].user = u
    BY <1>0, <1>1, <1>2 DEF Knows, LinkKnown, KeyPcs
  <2> QED  BY <1>2, <1>3, <2>1, LinksApart DEF KeyOf, Exact
<1>7. \A r \in Replicas, i \in Keys :
        r # h \/ i # k => attempts'[r][i] = attempts[r][i] /\ tried'[r][i] = tried[r][i]
  BY <1>0, <1>5 DEF KeysOK
<1>8. k \in Keys => /\ attempts[h][k].lockedUntil = 0 /\ op[p].read = attempts[h][k].failed
                    /\ tried'[h][k] = tried[h][k] + 1
                    /\ attempts'[h][k] = [failed |-> attempts[h][k].failed + 1,
                                          lockedUntil |-> LockUntil(attempts[h][k].failed + 1, now)]
  <2>1. k \in Keys => attempts[h][k].lockedUntil = 0 /\ op[p].read = attempts[h][k].failed
    BY <1>0, <1>1, <1>3 DEF Knows, KeyKnown, FreePcs
  <2> QED  BY <1>0, <1>5, <2>1 DEF KeysOK
<1>9. k \in Keys => /\ ByKey(h, k)' /\ attempts'[h][k] \in [failed : Nat, lockedUntil : Nat]
                    /\ attempts'[h][k].lockedUntil = 0 => attempts'[h][k].failed < Threshold
  <2>1. k \in Keys => ByKey(h, k)
    BY DEF Exact, Rationed
  <2> QED  BY <1>4, <1>8, <2>1, Counted
<1>10. Spares(p)
  <2>1. \A i \in Keys : i # k => Untouched(i)
    BY <1>7 DEF Untouched
  <2> QED  BY <1>1, <1>2, <1>4, <1>6, <2>1 DEF Spares, KeyPcs
<1>11. KeysOK'
  <2>1. ASSUME NEW r \in Replicas, NEW i \in Keys
        PROVE  /\ tried'[r][i] \in Nat /\ attempts'[r][i] \in [failed : Nat, lockedUntil : Nat]
               /\ attempts'[r][i].lockedUntil = 0 => attempts'[r][i].failed < Threshold
    <3>1. /\ tried[r][i] \in Nat /\ attempts[r][i] \in [failed : Nat, lockedUntil : Nat]
          /\ attempts[r][i].lockedUntil = 0 => attempts[r][i].failed < Threshold
      BY <1>0 DEF KeysOK
    <3>2. CASE r = h /\ i = k
      BY <1>8, <1>9, <3>1, <3>2
    <3>3. CASE r # h \/ i # k
      BY <1>7, <3>1, <3>3
    <3> QED  BY <3>2, <3>3
  <2>2. /\ attempts' = [r \in Replicas |-> [i \in Keys |-> attempts'[r][i]]]
        /\ tried' = [r \in Replicas |-> [i \in Keys |-> tried'[r][i]]]
    BY <1>0, <1>5 DEF KeysOK
  <2>3. attempts' \in [Replicas -> [Keys -> [failed : Nat, lockedUntil : Nat]]]
    BY <2>1, <2>2
  <2>4. tried' \in [Replicas -> [Keys -> Nat]]
    BY <2>1, <2>2
  <2> QED  BY <1>0, <1>4, <2>1, <2>3, <2>4 DEF KeysOK
<1>12. UserRationed(u)'
  <2>1. CountsStay(u)
    BY <1>4 DEF CountsStay, Rowed
  <2> QED  BY <1>1, <1>2, <2>1, UserStays
<1>13. \A i \in Keys : Untouched(i) \/ \A r \in Replicas : ByKey(r, i)'
  <2> SUFFICES ASSUME NEW i \in Keys, NEW r \in Replicas PROVE ByKey(r, i)'
    OBVIOUS
  <2>1. ByKey(r, i)
    BY DEF Exact, Rationed
  <2>2. CASE r = h /\ i = k
    BY <1>9, <2>2
  <2>3. CASE r # h \/ i # k
    BY <1>4, <1>7, <2>1, <2>3 DEF ByKey, Ration
  <2> QED  BY <2>2, <2>3
<1>14. \A t \in LinkIds : Untouched(t) \/ LinkRationed(t)'
  <2> SUFFICES ASSUME NEW t \in LinkIds, t = k PROVE LinkRationed(t)'
    BY <1>7, KeysApart DEF Untouched
  <2>1. t \in Keys /\ op[p].link # 0 /\ op[p].link = t
    BY <1>6, KeysApart
  <2>2. Dead(t, now)
    BY <1>0, <1>1, <2>1 DEF Knows, FailureKnown
  <2>3. Dead(t, now)'
    BY <1>4, <2>2 DEF Dead
  <2> QED  BY <2>3 DEF LinkRationed
<1>15. Knows(Home[p], op[p])'
  BY <1>4, NothingToKnow DEF KnowingPcs, ErasePcs, Timed, FreePcs, LinkPcs, KeyPcs, AcceptedPcs, Dated
<1> QED  BY <1>2, <1>10, <1>11, <1>12, <1>13, <1>14, <1>15, SparingIsEnough

\* recordSuccess(): the guesses are forgotten with the answer, the row is cleared already.
LEMMA LoginSucceedRations == ASSUME Exact, NEW p \in Procs, LoginSucceed(p) PROVE Rationed'
<1>0. op = [q \in Procs |-> op[q]] /\ Fields \subseteq DOMAIN op[p] /\ KeysOK /\ Knows(Home[p], op[p])
      /\ CallTypeOK(op[p])
  BY Facts DEF CallTypeOK
<1>1. op[p].pc = "loginDone" /\ op[p].link = 0
  BY <1>0 DEF LoginSucceed, CallTypeOK, Matched
<1>2. PICK u \in Users, h \in Replicas : u = op[p].user /\ h = Home[p]
  BY <1>1, Facts, HomeType
<1>3. u \in Keys /\ u \notin LinkIds
  BY KeysApart
<1>4. /\ UNCHANGED <<now, status, credentials, links, overlaps>>
      /\ op' = [q \in Procs |-> op'[q]] /\ \A q \in Procs : q # p => op'[q] = op[q]
      /\ op'[p].pc \in {"rehash", "signIn"} /\ op'[p].user = u /\ op'[p].link = op[p].link
      /\ guesses' = [guesses EXCEPT ![u] = 0] /\ tried' = [tried EXCEPT ![h][u] = 0]
      /\ attempts' = [attempts EXCEPT ![h][u] = NoAttempts]
  BY <1>0, <1>1, <1>2 DEF LoginSucceed, Clear, Goto, Fields, tables
<1>5. /\ \A v \in Users : v # u => guesses'[v] = guesses[v]
      /\ guesses'[u] = 0 /\ guesses' \in [Users -> Nat]
  BY <1>0, <1>4 DEF KeysOK
<1>6. /\ \A r \in Replicas, k \in Keys : r # h \/ k # u => tried'[r][k] = tried[r][k]
      /\ tried'[h][u] = 0 /\ tried' \in [Replicas -> [Keys -> Nat]]
  <2>1. tried \in [Replicas -> [Keys -> Nat]] /\ 0 \in Nat
    BY <1>0 DEF KeysOK
  <2> QED  BY <1>3, <1>4, <2>1, StoreWritten
<1>7. /\ \A r \in Replicas, k \in Keys : r # h \/ k # u => attempts'[r][k] = attempts[r][k]
      /\ attempts'[h][u] = NoAttempts
      /\ attempts' \in [Replicas -> [Keys -> [failed : Nat, lockedUntil : Nat]]]
  <2>1. attempts \in [Replicas -> [Keys -> [failed : Nat, lockedUntil : Nat]]]
    BY <1>0 DEF KeysOK
  <2>2. NoAttempts \in [failed : Nat, lockedUntil : Nat]
    BY DEF NoAttempts
  <2> HIDE DEF NoAttempts
  <2> QED  BY <1>3, <1>4, <2>1, <2>2, StoreWritten
<1>8. KeysOK'
  <2>1. \A r \in Replicas, k \in Keys : attempts'[r][k].lockedUntil = 0 => attempts'[r][k].failed < Threshold
    <3> SUFFICES ASSUME NEW r \in Replicas, NEW k \in Keys, attempts'[r][k].lockedUntil = 0
                 PROVE  attempts'[r][k].failed < Threshold
      OBVIOUS
    <3>1. CASE r = h /\ k = u
      <4>1. attempts'[r][k].failed = 0
        BY <1>7, <3>1 DEF NoAttempts
      <4> QED  BY <4>1, LockoutAssumption
    <3>2. CASE r # h \/ k # u
      BY <1>0, <1>7, <3>2 DEF KeysOK
    <3> QED  BY <3>1, <3>2
  <2> QED  BY <1>0, <1>4, <1>5, <1>6, <1>7, <2>1 DEF KeysOK
<1>9. \A k \in Keys : k # u => Untouched(k)
  BY <1>6, <1>7 DEF Untouched
<1>10. Spares(p)
  BY <1>1, <1>2, <1>4, <1>5, <1>9 DEF Spares
<1>11. credentials[u].fails = 0 /\ credentials[u].lockedUntil = Never
  BY <1>0, <1>1, <1>2 DEF Knows, LoginKnows
<1>12. UserRationed(u)'
  BY <1>4, <1>5, <1>8, <1>11, StartsOver
<1>13. \A k \in Keys : Untouched(k) \/ \A r \in Replicas : ByKey(r, k)'
  <2> SUFFICES ASSUME NEW r \in Replicas PROVE ByKey(r, u)'
    BY <1>9
  <2>1. ByKey(r, u)
    BY <1>3 DEF Exact, Rationed
  <2>2. CASE r = h
    BY <1>3, <1>6, <1>8, <2>2, NoGuesses
  <2>3. CASE r # h
    BY <1>3, <1>4, <1>6, <1>7, <2>1, <2>3 DEF ByKey, Ration
  <2> QED  BY <2>2, <2>3
<1>14. \A t \in LinkIds : Untouched(t)
  BY <1>3, <1>9, KeysApart
<1>15. Knows(Home[p], op[p])'
  <2>1. PICK c : c = op'[p]
    OBVIOUS
  <2>2. LoginKnows(c)'
    BY <1>4, <1>11, <2>1 DEF LoginKnows, Timed
  <2>3. KeyKnown(Home[p], c)' /\ FailureKnown(c)' /\ LinkKnown(c)' /\ StatusKnown(c)'
    BY <1>4, <2>1 DEF KeyKnown, FailureKnown, LinkKnown, StatusKnown, FreePcs, LinkPcs, KeyPcs, AcceptedPcs, Dated
  <2> QED  BY <2>1, <2>2, <2>3 DEF Knows
<1> QED  BY <1>2, <1>8, <1>10, <1>12, <1>13, <1>14, <1>15, SparingIsEnough

\* The same for a redemption: a link that got this far has had no failed guess on any replica.
LEMMA ConfirmSucceedRations == ASSUME Exact, NEW p \in Procs, ConfirmSucceed(p) PROVE Rationed'
<1>0. op = [q \in Procs |-> op[q]] /\ Fields \subseteq DOMAIN op[p] /\ KeysOK /\ Knows(Home[p], op[p])
  BY Facts DEF CallTypeOK
<1>1. op[p].pc = "confirmDone"
  BY DEF ConfirmSucceed
<1>2. PICK u \in Users, t \in {op[p].link}, h \in Replicas :
        u = op[p].user /\ t = op[p].link /\ h = Home[p]
  BY <1>1, Facts, HomeType
<1>3. /\ t \notin Users /\ t \in DOMAIN links
      /\ t \in Keys => \A r \in Replicas : tried[r][t] = 0
  <2>1. /\ t \in DOMAIN links /\ t # 0
        /\ t \in Keys => ~Tried(t)
    BY <1>0, <1>1, <1>2 DEF Knows, LinkKnown, LinkPcs, AcceptedPcs
  <2>2. t \in Keys => \A r \in Replicas : tried[r][t] \in Nat /\ ~(tried[r][t] > 0)
    BY <1>0, <2>1 DEF KeysOK, Tried
  <2> QED  BY <2>1, <2>2, LinksApart DEF Exact
<1>4. /\ UNCHANGED <<now, status, credentials, links, overlaps, guesses, tried>>
      /\ op' = [q \in Procs |-> op'[q]] /\ \A q \in Procs : q # p => op'[q] = op[q]
      /\ op'[p].pc = "revoke" /\ op'[p].user = u
      /\ attempts' = [attempts EXCEPT ![h][t] = NoAttempts]
  BY <1>0, <1>1, <1>2 DEF ConfirmSucceed, Clear, Goto, Fields, tables, ghosts
<1>5. /\ \A r \in Replicas, k \in Keys : r # h \/ k # t => attempts'[r][k] = attempts[r][k]
      /\ t \in Keys => attempts'[h][t] = NoAttempts
      /\ attempts' \in [Replicas -> [Keys -> [failed : Nat, lockedUntil : Nat]]]
  <2>1. attempts \in [Replicas -> [Keys -> [failed : Nat, lockedUntil : Nat]]]
    BY <1>0 DEF KeysOK
  <2>2. NoAttempts \in [failed : Nat, lockedUntil : Nat]
    BY DEF NoAttempts
  <2> HIDE DEF NoAttempts
  <2> QED  BY <1>4, <2>1, <2>2, StoreWritten
<1>6. KeysOK'
  <2>1. \A r \in Replicas, k \in Keys : attempts'[r][k].lockedUntil = 0 => attempts'[r][k].failed < Threshold
    <3> SUFFICES ASSUME NEW r \in Replicas, NEW k \in Keys, attempts'[r][k].lockedUntil = 0
                 PROVE  attempts'[r][k].failed < Threshold
      OBVIOUS
    <3>1. CASE r = h /\ k = t
      <4>1. attempts'[r][k].failed = 0
        BY <1>5, <3>1 DEF NoAttempts
      <4> QED  BY <4>1, LockoutAssumption
    <3>2. CASE r # h \/ k # t
      BY <1>0, <1>5, <3>2 DEF KeysOK
    <3> QED  BY <3>1, <3>2
  <2> QED  BY <1>0, <1>4, <1>5, <2>1 DEF KeysOK
<1>7. \A k \in Keys : k # t => Untouched(k)
  BY <1>4, <1>5 DEF Untouched
<1>8. Spares(p)
  BY <1>1, <1>2, <1>4, <1>7 DEF Spares, LinkPcs, AcceptedPcs
<1>9. UserRationed(u)'
  <2>1. CountsStay(u)
    BY <1>4 DEF CountsStay, Rowed
  <2> QED  BY <1>1, <1>2, <2>1, UserStays
<1>10. \A k \in Keys : Untouched(k) \/ \A r \in Replicas : ByKey(r, k)'
  <2> SUFFICES ASSUME NEW k \in Keys, k = t, NEW r \in Replicas PROVE ByKey(r, k)'
    BY <1>7
  <2>1. tried'[r][k] = 0
    BY <1>3, <1>4
  <2> QED  BY <1>6, <2>1, NoGuesses
<1>11. \A i \in LinkIds : Untouched(i) \/ LinkRationed(i)'
  BY <1>4 DEF Exact, Rationed, LinkRationed, Tried, Dead
<1>12. Knows(Home[p], op[p])'
  BY <1>4, NothingToKnow DEF KnowingPcs, ErasePcs, Timed, FreePcs, LinkPcs, KeyPcs, AcceptedPcs, Dated
<1> QED  BY <1>2, <1>6, <1>8, <1>9, <1>10, <1>11, <1>12, SparingIsEnough
-----------------------------------------------------------------------------
\* A statement that leaves the policy's store alone, and of the guesses those of others: it saves
\* rows and consumes links.
Writes(p) ==
    /\ op' = [q \in Procs |-> op'[q]]
    /\ \A q \in Procs : q # p => op'[q] = op[q]
    /\ op[p].pc # "idle"
    /\ op'[p].pc # "idle" => op'[p].user = op[p].user
    /\ UNCHANGED <<now, overlaps, attempts, tried>>
    /\ LinksStay
    /\ guesses' \in [Users -> Nat]
    /\ \A v \in Users : v # op[p].user => guesses'[v] = guesses[v]
    /\ \A v \in Users : v # op[p].user => status'[v] = status[v]
    /\ \A v \in Users : status[v] = "deleted" => status'[v] = "deleted"
    /\ credentials' = credentials \/ \E c : Save(op[p].user, c)

\* It has its user and its call to account for.
LEMMA WritingIsEnough ==
    ASSUME Exact, NEW p \in Procs, Writes(p), NEW u \in Users, u = op[p].user
    PROVE  /\ KeysOK'
           /\ UserRationed(u)' /\ Knows(Home[p], op[p])' => Rationed'
<1>1. KeysOK
  BY DEF Exact, Rationed
<1>2. /\ DOMAIN links' = DOMAIN links
      /\ \A t \in DOMAIN links : /\ links'[t].user = links[t].user
                                 /\ links'[t].expires = links[t].expires
                                 /\ links[t].consumed => links'[t].consumed
                                 /\ "expires" \in DOMAIN links'[t] /\ links'[t].expires \in Nat
  BY LinksLast DEF Writes
<1>3. KeysOK'
  BY <1>1, <1>2 DEF Writes, KeysOK
<1>4. \A v \in Users : v # u => /\ v \in DOMAIN credentials' <=> v \in DOMAIN credentials
                                /\ v \in DOMAIN credentials => credentials'[v] = credentials[v]
  BY DEF Writes, Save
<1>5. Spares(p)
  BY <1>2, <1>4 DEF Writes, Spares, Untouched
<1>6. \A k : Untouched(k)
  BY DEF Writes, Untouched
<1> QED  BY <1>3, <1>5, <1>6, SparingIsEnough

\* The entity's methods that clear the count and the lock.
LEMMA ClearingMethods ==
    ASSUME NEW c, Row(c), NEW pw, NEW strong
    PROVE  /\ RecordSuccessfulAttempt(c).fails = 0 /\ RecordSuccessfulAttempt(c).lockedUntil = Never
           /\ WithPasswordHash(c, pw, strong).fails = 0
           /\ WithPasswordHash(c, pw, strong).lockedUntil = Never
           /\ RotatePassword(c, pw, strong).fails = 0
           /\ RotatePassword(c, pw, strong).lockedUntil = Never
  BY DEF Row, RecordSuccessfulAttempt, WithPasswordHash, RotatePassword

\* A change of password forgets the guesses (ChangePassword, rotatePassword).
LEMMA ChangeSaveRations == ASSUME Exact, NEW p \in Procs, ChangeSave(p) PROVE Rationed'
<1>0. op = [q \in Procs |-> op[q]] /\ Fields \subseteq DOMAIN op[p] /\ KeysOK /\ Knows(Home[p], op[p])
      /\ CallTypeOK(op[p]) /\ CallOK(op[p]) /\ TablesOK
  BY Facts DEF CallTypeOK
<1>1. op[p].pc = "changeSave"
  BY DEF ChangeSave
<1>2. PICK u \in Users : u = op[p].user
  BY <1>1, Facts
<1>3. u \in Keys /\ u \notin LinkIds
  BY KeysApart
<1>4. /\ Row(op[p].row)
      /\ \A pw, strong : RotatePassword(op[p].row, pw, strong).fails = 0
                        /\ RotatePassword(op[p].row, pw, strong).lockedUntil = Never
  BY <1>0, <1>1, ClearingMethods DEF CallTypeOK, RowPcs
<1>5. Writes(p) /\ op'[p].pc = "idle" /\ guesses'[u] = 0
      /\ credentials'[u].fails = 0 /\ credentials'[u].lockedUntil = Never
  BY <1>0, <1>1, <1>2, <1>3, <1>4 DEF ChangeSave, Writes, LinksStay, Return, Goto, Idle, Fields, KeysOK, tables, ghosts, Save
<1>6. KeysOK'
  BY <1>2, <1>5, WritingIsEnough
<1>7. UserRationed(u)'
  BY <1>5, <1>6, StartsOver
<1>8. Knows(Home[p], op[p])'
  BY <1>5, NothingToKnow DEF KnowingPcs, ErasePcs, Timed, FreePcs, LinkPcs, KeyPcs, AcceptedPcs, Dated
<1> QED  BY <1>2, <1>5, <1>7, <1>8, WritingIsEnough

\* So does a reset; its link has had no failed guess (ConfirmPasswordReset).
LEMMA ConfirmCommitRations == ASSUME Exact, NEW p \in Procs, ConfirmCommit(p) PROVE Rationed'
<1>0. op = [q \in Procs |-> op[q]] /\ Fields \subseteq DOMAIN op[p] /\ KeysOK /\ Knows(Home[p], op[p])
      /\ CallTypeOK(op[p]) /\ CallOK(op[p]) /\ TablesOK
  BY Facts DEF CallTypeOK
<1>1. op[p].pc = "confirmCommit"
  BY DEF ConfirmCommit
<1>2. PICK u \in Users : u = op[p].user
  BY <1>1, Facts
<1>3. u \in Keys /\ u \notin LinkIds
  BY KeysApart
<1>4. /\ Row(op[p].row)
      /\ \A pw, strong : RotatePassword(op[p].row, pw, strong).fails = 0
                        /\ RotatePassword(op[p].row, pw, strong).lockedUntil = Never
  BY <1>0, <1>1, ClearingMethods DEF CallTypeOK, RowPcs
<1>5. Writes(p) /\ op'[p].pc = "confirmDone" /\ op'[p].link = op[p].link /\ guesses'[u] = 0
      /\ credentials'[u].fails = 0 /\ credentials'[u].lockedUntil = Never
  BY <1>0, <1>1, <1>2, <1>3, <1>4 DEF ConfirmCommit, Writes, LinksStay, Return, Goto, Idle, Fields, KeysOK, tables, ghosts, Save
<1>6. KeysOK'
  BY <1>2, <1>5, WritingIsEnough
<1>7. UserRationed(u)'
  BY <1>5, <1>6, StartsOver
<1>8. Knows(Home[p], op[p])'
  <2>1. PICK c : c = op'[p]
    OBVIOUS
  <2>2. /\ c.link # 0 /\ c.link \in DOMAIN links /\ links[c.link].user = u /\ c.pc = "confirmDone"
        /\ c.link \in Keys => ~Tried(c.link)
    BY <1>0, <1>1, <1>2, <1>5, <2>1 DEF Knows, LinkKnown, LinkPcs, AcceptedPcs
  <2>4. c.link \in DOMAIN links' /\ links'[c.link].user = u /\ c.user = u
    BY <1>2, <1>5, <2>1, <2>2, LinksLast DEF Writes
  <2>5. Tried(c.link)' <=> Tried(c.link)
    BY <1>5 DEF Writes, Tried
  <2>6. LinkKnown(c)'
    BY <2>2, <2>4, <2>5 DEF LinkKnown, Dated, AcceptedPcs
  <2>7. LoginKnows(c)' /\ KeyKnown(Home[p], c)' /\ FailureKnown(c)' /\ StatusKnown(c)'
    BY <2>2 DEF LoginKnows, KeyKnown, FailureKnown, StatusKnown, Timed, FreePcs
  <2> QED  BY <2>1, <2>6, <2>7 DEF Knows
<1> QED  BY <1>2, <1>5, <1>7, <1>8, WritingIsEnough

\* A user that registers starts over, with a fresh row or with none.
LEMMA RegisterSaveRations == ASSUME Exact, NEW p \in Procs, RegisterSave(p) PROVE Rationed'
<1>0. op = [q \in Procs |-> op[q]] /\ Fields \subseteq DOMAIN op[p] /\ KeysOK /\ Knows(Home[p], op[p])
      /\ CallTypeOK(op[p]) /\ CallOK(op[p]) /\ TablesOK
  BY Facts DEF CallTypeOK
<1>1. op[p].pc = "registerSave"
  BY DEF RegisterSave
<1>2. PICK u \in Users : u = op[p].user
  BY <1>1, Facts
<1>3. u \in Keys /\ u \notin LinkIds
  BY KeysApart
<1>4. u \notin DOMAIN credentials
  BY <1>0, <1>2 DEF RegisterSave, TablesOK
<1>5. Writes(p) /\ op'[p].pc = "idle" /\ guesses'[u] = 0
      /\ (u \in DOMAIN credentials' => credentials'[u].fails = 0 /\ credentials'[u].lockedUntil = Never)
  <2>1. /\ op' = [op EXCEPT ![p] = Idle] /\ Idle.pc = "idle"
        /\ UNCHANGED <<now, links, attempts, tried, overlaps>>
        /\ status[u] = "none" /\ status' = [status EXCEPT ![u] = "pending"]
        /\ guesses' = [guesses EXCEPT ![u] = 0]
    BY <1>2, IdleKnows DEF RegisterSave, Return
  <2>2. credentials' = credentials \/ \E pw, strong : Save(u, Credential(pw, strong))
    BY <1>2 DEF RegisterSave
  <2>3. u \in DOMAIN credentials' => credentials'[u].fails = 0 /\ credentials'[u].lockedUntil = Never
    BY <1>4, <2>2 DEF Save, Credential
  <2>4. guesses' \in [Users -> Nat] /\ guesses'[u] = 0 /\ \A v \in Users : v # u => guesses'[v] = guesses[v]
    BY <1>0, <1>3, <2>1 DEF KeysOK
  <2>5. \A v \in Users : (v # u => status'[v] = status[v]) /\ (status[v] = "deleted" => status'[v] = "deleted")
    BY <1>0, <2>1 DEF TablesOK
  <2>6. Writes(p)
    BY <1>0, <1>1, <1>2, <2>1, <2>2, <2>4, <2>5 DEF Writes, LinksStay
  <2> QED  BY <1>0, <2>1, <2>3, <2>4, <2>6
<1>6. KeysOK'
  BY <1>2, <1>5, WritingIsEnough
<1>7. UserRationed(u)'
  BY <1>5, <1>6, StartsOver
<1>8. Knows(Home[p], op[p])'
  BY <1>5, NothingToKnow DEF KnowingPcs, ErasePcs, Timed, FreePcs, LinkPcs, KeyPcs, AcceptedPcs, Dated
<1> QED  BY <1>2, <1>5, <1>7, <1>8, WritingIsEnough

\* The upgraded hash is saved with the cleared count (upgradeHashIfStale).
LEMMA RehashRations == ASSUME Exact, NEW p \in Procs, Rehash(p) PROVE Rationed'
<1>0. op = [q \in Procs |-> op[q]] /\ Fields \subseteq DOMAIN op[p] /\ KeysOK /\ Knows(Home[p], op[p])
      /\ CallTypeOK(op[p]) /\ CallOK(op[p]) /\ TablesOK
  BY Facts DEF CallTypeOK
<1>1. op[p].pc = "rehash"
  BY DEF Rehash
<1>2. PICK u \in Users : u = op[p].user
  BY <1>1, Facts
<1>3. u \in Keys /\ u \notin LinkIds
  BY KeysApart
<1>4. /\ Row(op[p].row) /\ u \in DOMAIN credentials
      /\ credentials[u].fails = 0 /\ credentials[u].lockedUntil = Never
      /\ \A pw, strong : WithPasswordHash(op[p].row, pw, strong).fails = 0
                        /\ WithPasswordHash(op[p].row, pw, strong).lockedUntil = Never
  BY <1>0, <1>1, <1>2, ClearingMethods DEF CallTypeOK, RowPcs, CallOK, HasCredential, Knows, LoginKnows
<1>5. Writes(p) /\ op'[p].pc = "signIn" /\ guesses' = guesses /\ status' = status
      /\ u \in DOMAIN credentials' /\ credentials'[u].fails = 0 /\ credentials'[u].lockedUntil = Never
  BY <1>0, <1>1, <1>2, <1>3, <1>4 DEF Rehash, Writes, LinksStay, Return, Goto, Idle, Fields, KeysOK, tables, ghosts, Save
<1>6. KeysOK'
  BY <1>2, <1>5, WritingIsEnough
<1>7. UserRationed(u)'
  <2>1. CountsStay(u)
    <3>1. now' = now
      BY <1>5 DEF Writes
    <3> QED  BY <1>4, <1>5, <3>1 DEF CountsStay, Rowed
  <2> QED  BY <1>1, <1>2, <2>1, UserStays
<1>8. Knows(Home[p], op[p])'
  BY <1>5, NothingToKnow DEF KnowingPcs, ErasePcs, Timed, FreePcs, LinkPcs, KeyPcs, AcceptedPcs, Dated
<1> QED  BY <1>2, <1>5, <1>7, <1>8, WritingIsEnough

\* A deleted user's row no longer counts (HandleUserDeleted).
LEMMA EraseSaveRations == ASSUME Exact, NEW p \in Procs, EraseSave(p) PROVE Rationed'
<1>0. op = [q \in Procs |-> op[q]] /\ Fields \subseteq DOMAIN op[p] /\ KeysOK /\ Knows(Home[p], op[p])
      /\ CallTypeOK(op[p]) /\ CallOK(op[p]) /\ TablesOK
  BY Facts DEF CallTypeOK
<1>1. op[p].pc = "eraseSave"
  BY DEF EraseSave
<1>2. PICK u \in Users : u = op[p].user
  BY <1>1, Facts
<1>3. u \in Keys /\ u \notin LinkIds
  BY KeysApart
<1>4. ~Found(status[u]) /\ ~Rowed(u)
  BY <1>0, <1>1, <1>2 DEF Knows, StatusKnown, Rowed, Found
<1>5. Writes(p) /\ op'[p].pc = "idle" /\ guesses' = guesses /\ status' = status
      /\ u \in DOMAIN credentials' /\ credentials'[u].fails = 0 /\ credentials'[u].lockedUntil = Never
  BY <1>0, <1>1, <1>2, <1>3, <1>4 DEF EraseSave, Writes, LinksStay, Return, Goto, Idle, Fields, KeysOK, tables, ghosts, Save, InvalidateForDeletedUser, Credential
<1>6. KeysOK'
  BY <1>2, <1>5, WritingIsEnough
<1>7. UserRationed(u)'
  <2>1. CountsStay(u)
    <3>1. now' = now
      BY <1>5 DEF Writes
    <3> QED  BY <1>4, <1>5, <3>1 DEF CountsStay, Rowed
  <2> QED  BY <1>1, <1>2, <2>1, UserStays
<1>8. Knows(Home[p], op[p])'
  BY <1>5, NothingToKnow DEF KnowingPcs, ErasePcs, Timed, FreePcs, LinkPcs, KeyPcs, AcceptedPcs, Dated
<1> QED  BY <1>2, <1>5, <1>7, <1>8, WritingIsEnough

\* A redemption that ends with its link used up changes no count.
LEMMA ConfirmReusedRations == ASSUME Exact, NEW p \in Procs, ConfirmReused(p) PROVE Rationed'
<1>0. op = [q \in Procs |-> op[q]] /\ Fields \subseteq DOMAIN op[p] /\ KeysOK /\ Knows(Home[p], op[p])
      /\ CallTypeOK(op[p]) /\ CallOK(op[p]) /\ TablesOK
  BY Facts DEF CallTypeOK
<1>1. op[p].pc = "confirmCred"
  BY DEF ConfirmReused
<1>2. PICK u \in Users : u = op[p].user
  BY <1>1, Facts
<1>3. u \in Keys /\ u \notin LinkIds
  BY KeysApart
<1>5. Writes(p) /\ op'[p].pc = "idle" /\ guesses' = guesses /\ status' = status
      /\ credentials' = credentials
  BY <1>0, <1>1, <1>2, <1>3 DEF ConfirmReused, Writes, LinksStay, Return, Goto, Idle, Fields, KeysOK, tables, ghosts
<1>6. KeysOK'
  BY <1>2, <1>5, WritingIsEnough
<1>7. UserRationed(u)'
  <2>1. CountsStay(u)
    <3>1. now' = now
      BY <1>5 DEF Writes
    <3> QED  BY <1>5, <3>1 DEF CountsStay, Rowed
  <2> QED  BY <1>1, <1>2, <2>1, UserStays
<1>8. Knows(Home[p], op[p])'
  BY <1>5, NothingToKnow DEF KnowingPcs, ErasePcs, Timed, FreePcs, LinkPcs, KeyPcs, AcceptedPcs, Dated
<1> QED  BY <1>2, <1>5, <1>7, <1>8, WritingIsEnough

\* A verified user is found before and after (ConfirmEmailVerification).
LEMMA EmailActivateRations == ASSUME Exact, NEW p \in Procs, EmailActivate(p) PROVE Rationed'
<1>0. op = [q \in Procs |-> op[q]] /\ Fields \subseteq DOMAIN op[p] /\ KeysOK /\ Knows(Home[p], op[p])
      /\ CallTypeOK(op[p]) /\ CallOK(op[p]) /\ TablesOK
  BY Facts DEF CallTypeOK
<1>1. op[p].pc = "emailSave"
  BY DEF EmailActivate
<1>2. PICK u \in Users : u = op[p].user
  BY <1>1, Facts
<1>3. u \in Keys /\ u \notin LinkIds
  BY KeysApart
<1>4. Found(status[u])
  BY <1>0, <1>1, <1>2 DEF Knows, StatusKnown
<1>5. Writes(p) /\ op'[p].pc = "idle" /\ guesses' = guesses
      /\ credentials' = credentials /\ (Found(status[u]) <=> Found(status'[u]))
  BY <1>0, <1>1, <1>2, <1>3, <1>4 DEF EmailActivate, Writes, LinksStay, Return, Goto, Idle, Fields, KeysOK, tables, ghosts, TablesOK, Found
<1>6. KeysOK'
  BY <1>2, <1>5, WritingIsEnough
<1>7. UserRationed(u)'
  <2>1. CountsStay(u)
    <3>1. now' = now
      BY <1>5 DEF Writes
    <3> QED  BY <1>5, <3>1 DEF CountsStay, Rowed
  <2> QED  BY <1>1, <1>2, <2>1, UserStays
<1>8. Knows(Home[p], op[p])'
  BY <1>5, NothingToKnow DEF KnowingPcs, ErasePcs, Timed, FreePcs, LinkPcs, KeyPcs, AcceptedPcs, Dated
<1> QED  BY <1>2, <1>5, <1>7, <1>8, WritingIsEnough

\* An administrative change keeps a user found; a deletion forgets the guesses (SuspendUser,
\* ReactivateUser, UpdateUserProfile, User.delete).
LEMMA StatusSaveRations == ASSUME Exact, NEW p \in Procs, StatusSave(p) PROVE Rationed'
<1>0. op = [q \in Procs |-> op[q]] /\ Fields \subseteq DOMAIN op[p] /\ KeysOK /\ Knows(Home[p], op[p]) /\ TablesOK
  BY Facts DEF CallTypeOK
<1>1. op[p].pc = "statusSave"
  BY DEF StatusSave
<1>2. PICK u \in Users : u = op[p].user
  BY <1>1, Facts
<1>3. u \in Keys /\ u \notin LinkIds
  BY KeysApart
<1>4. Found(status[u]) /\ (op[p].seen = "deleted" \/ Found(op[p].seen))
  BY <1>0, <1>1, <1>2 DEF Knows, StatusKnown
<1>5. /\ Writes(p) /\ credentials' = credentials /\ status'[u] = op[p].seen
      /\ op[p].seen = "deleted" => op'[p].pc = "eraseCred" /\ op'[p].user = u /\ guesses'[u] = 0
      /\ op[p].seen # "deleted" => op'[p].pc = "idle" /\ guesses' = guesses
  BY <1>0, <1>1, <1>2, <1>3, <1>4
  DEF StatusSave, Writes, LinksStay, Return, Goto, Idle, Fields, KeysOK, TablesOK, Found
<1>6. KeysOK'
  BY <1>2, <1>5, WritingIsEnough
<1>7. UserRationed(u)'
  <2>1. CASE op[p].seen = "deleted"
    <3>1. now' \in Nat \ {0} /\ Ration(now') \in Nat
      BY <1>6, RationFacts DEF KeysOK
    <3>2. (guesses[u] <= Ration(now))'
      BY <1>5, <2>1, <3>1 DEF Ration
    <3>3. UserRationed(u)
      BY DEF Exact, Rationed
    <3> QED  BY <1>5, <2>1, <3>2, <3>3 DEF UserRationed, Rowed, Found
  <2>2. CASE op[p].seen # "deleted"
    <3>1. CountsStay(u)
      BY <1>2, <1>4, <1>5, <2>2 DEF CountsStay, Rowed, Writes
    <3> QED  BY <1>1, <1>2, <3>1, UserStays
  <2> QED  BY <2>1, <2>2
<1>8. Knows(Home[p], op[p])'
  <2>1. CASE op[p].seen = "deleted"
    <3>1. PICK c : c = op'[p]
      OBVIOUS
    <3>2. c.pc = "eraseCred" /\ c.user = u /\ status'[u] = "deleted"
      BY <1>5, <2>1, <3>1
    <3>3. LoginKnows(c)' /\ KeyKnown(Home[p], c)' /\ FailureKnown(c)' /\ LinkKnown(c)' /\ StatusKnown(c)'
      BY <3>2 DEF LoginKnows, KeyKnown, FailureKnown, LinkKnown, StatusKnown, Timed, FreePcs, LinkPcs,
                  KeyPcs, AcceptedPcs, Dated
    <3> QED  BY <3>1, <3>3 DEF Knows
  <2>2. CASE op[p].seen # "deleted"
    BY <1>5, <2>2, NothingToKnow DEF KnowingPcs, ErasePcs, Timed, FreePcs, LinkPcs, KeyPcs, AcceptedPcs, Dated
  <2> QED  BY <2>1, <2>2
<1> QED  BY <1>2, <1>5, <1>7, <1>8, WritingIsEnough

\* recordFailedAttempt: while the row is locked its password is not looked at; the guess that
\* reaches the threshold locks it, and so does each that follows a lock.
LEMMA LoginSaveFailedRations ==
    ASSUME BaseDuration <= MaxDuration, Exact, NEW p \in Procs, LoginSaveFailed(p) PROVE Rationed'
<1>0. op = [q \in Procs |-> op[q]] /\ Fields \subseteq DOMAIN op[p] /\ KeysOK /\ Knows(Home[p], op[p])
      /\ CallTypeOK(op[p]) /\ CallOK(op[p]) /\ TablesOK
  BY Facts DEF CallTypeOK
<1>1. op[p].pc = "loginFailed"
  BY DEF LoginSaveFailed
<1>2. PICK u \in Users, at \in {op[p].at} : u = op[p].user /\ at = op[p].at
  BY <1>1, Facts
<1>3. u \in Keys
  BY KeysApart
<1>4. /\ op[p].row = credentials[u] /\ Row(credentials[u]) /\ Rowed(u) /\ u \in DOMAIN credentials
      /\ at \in 1 .. now /\ ByRow(u, at)
  BY <1>0, <1>1, <1>2
  DEF CallTypeOK, CallOK, RowPcs, Exact, HasCredential, Knows, LoginKnows, Timed, Rowed
<1>5. PICK f, L : f = credentials[u].fails /\ L = credentials[u].lockedUntil
  OBVIOUS
<1>6. f \in Nat /\ L \in Nat /\ guesses[u] \in Nat /\ now \in Nat \ {0} /\ at \in Nat \ {0} /\ at <= now
      /\ Threshold \in Nat \ {0} /\ BaseDuration \in Nat \ {0}
  <2>1. f \in Nat /\ L \in Nat
    BY <1>4, <1>5 DEF Exact, Rationed, UserRationed
  <2> QED  BY <1>0, <1>3, <1>4, <2>1, LockoutAssumption DEF KeysOK
<1>7. PICK d : d = LockDuration(f + 1)
  OBVIOUS
<1>8. /\ f + 1 < Threshold => d = 0
      /\ f + 1 >= Threshold => d \in Nat /\ d >= BaseDuration
  <2>1. f + 1 \in Nat
    BY <1>6
  <2> QED  BY <1>7, <2>1, LocksAreLong
<1>9. /\ credentials'[u].fails = f + 1
      /\ credentials'[u].lockedUntil = IF d = 0 THEN L ELSE at + d
      /\ u \in DOMAIN credentials' /\ credentials' = [v \in DOMAIN credentials |-> credentials'[v]]
      /\ Save(u, RecordFailedAttempt(op[p].row, at))
  <2>1. Save(u, RecordFailedAttempt(credentials[u], at)) /\ Save(u, RecordFailedAttempt(op[p].row, at))
    BY <1>2, <1>4 DEF LoginSaveFailed
  <2>2. /\ RecordFailedAttempt(credentials[u], at).fails = f + 1
        /\ RecordFailedAttempt(credentials[u], at).lockedUntil = IF d = 0 THEN L ELSE at + d
    BY <1>4, <1>5, <1>7 DEF Row, RecordFailedAttempt
  <2> QED  BY <1>4, <2>1, <2>2 DEF Save
<1>10. /\ op' = [op EXCEPT ![p] = Idle] /\ Idle.pc = "idle"
       /\ UNCHANGED <<now, status, links, attempts, tried, overlaps>>
       /\ guesses' = IF L > at THEN guesses ELSE [guesses EXCEPT ![u] = @ + 1]
  BY <1>2, <1>4, <1>5, IdleKnows DEF LoginSaveFailed, Return, IsLockedAt
<1>11. /\ guesses' \in [Users -> Nat] /\ \A v \in Users : v # u => guesses'[v] = guesses[v]
       /\ guesses'[u] = IF L > at THEN guesses[u] ELSE guesses[u] + 1
  BY <1>0, <1>3, <1>6, <1>10 DEF KeysOK
<1>12. Writes(p)
  BY <1>0, <1>1, <1>2, <1>9, <1>10, <1>11 DEF Writes, LinksStay
<1>13. KeysOK'
  BY <1>2, <1>12, WritingIsEnough
<1>14. /\ f < Threshold => L = 0 /\ guesses[u] <= f
       /\ f >= Threshold => \E s \in 1 .. at : s + BaseDuration <= L /\ guesses[u] <= Ration(s)
  BY <1>4, <1>5, <1>6 DEF ByRow, Never
<1>15. guesses[u] <= Ration(at) /\ Ration(at) \in Nat /\ Threshold <= Ration(at)
  BY <1>4, <1>6, RowBounds, RationFacts
<1>16. CASE f + 1 < Threshold
  <2>1. L = 0 /\ guesses[u] <= f /\ ~(L > at)
    BY <1>6, <1>14, <1>16
  <2>2. credentials'[u].lockedUntil = Never /\ credentials'[u].fails = f + 1 /\ guesses'[u] <= f + 1
    BY <1>6, <1>8, <1>9, <1>11, <1>16, <2>1 DEF Never
  <2>3. ByRow(u, now)'
    BY <1>16, <2>2 DEF ByRow
  <2>4. credentials'[u].fails \in Nat /\ credentials'[u].lockedUntil \in Nat
    BY <1>6, <2>2 DEF Never
  <2>5. UserRationed(u)'
    BY <1>4, <1>9, <1>10, <2>3, <2>4 DEF UserRationed, Rowed
  <2>6. Knows(Home[p], op[p])'
    BY <1>0, <1>10, NothingToKnow
    DEF KnowingPcs, ErasePcs, Timed, FreePcs, LinkPcs, KeyPcs, AcceptedPcs, Dated
  <2> QED  BY <1>2, <1>12, <2>5, <2>6, WritingIsEnough
<1>17. CASE f + 1 >= Threshold
  <2>1. d \in Nat /\ d >= BaseDuration /\ d # 0
    BY <1>6, <1>8, <1>17
  <2>2. credentials'[u].lockedUntil = at + d /\ at + BaseDuration <= at + d /\ at + d \in Nat
    BY <1>6, <1>9, <2>1
  <2>3. guesses'[u] <= Ration(at)
    <3>1. CASE L > at
      BY <1>11, <1>15, <3>1
    <3>2. CASE ~(L > at) /\ f < Threshold
      BY <1>6, <1>11, <1>14, <1>15, <1>17, <3>2
    <3>3. CASE ~(L > at) /\ f >= Threshold
      <4>1. PICK s \in 1 .. at : s + BaseDuration <= L /\ guesses[u] <= Ration(s)
        BY <1>14, <3>3
      <4>2. s \in Nat \ {0} /\ s + BaseDuration <= at
        BY <1>6, <3>3, <4>1
      <4>3. Ration(s) + Threshold <= Ration(at) /\ Ration(s) \in Nat
        BY <1>6, <4>2, RationFacts
      <4> QED  BY <1>6, <1>11, <1>15, <3>3, <4>1, <4>3
    <3> QED  BY <1>6, <3>1, <3>2, <3>3
  <2>4. ByRow(u, now)'
    <3>1. ~(credentials'[u].fails < Threshold)
      BY <1>6, <1>9, <1>17
    <3>2. at \in 1 .. now' /\ at + BaseDuration <= credentials'[u].lockedUntil
      BY <1>4, <1>10, <2>2
    <3> QED  BY <2>3, <3>1, <3>2 DEF ByRow, Ration
  <2>5. credentials'[u].fails \in Nat /\ credentials'[u].lockedUntil \in Nat
    BY <1>6, <1>9, <2>2
  <2>6. UserRationed(u)'
    BY <1>4, <1>9, <1>10, <2>4, <2>5 DEF UserRationed, Rowed
  <2>7. Knows(Home[p], op[p])'
    BY <1>0, <1>10, NothingToKnow
    DEF KnowingPcs, ErasePcs, Timed, FreePcs, LinkPcs, KeyPcs, AcceptedPcs, Dated
  <2> QED  BY <1>2, <1>12, <2>6, <2>7, WritingIsEnough
<1> QED  BY <1>6, <1>16, <1>17

\* A match clears the row before the policy forgets the guesses: until then they are those the row
\* had allowed.
LEMMA LoginSaveClearedRations == ASSUME Exact, NEW p \in Procs, LoginSaveCleared(p) PROVE Rationed'
<1>0. op = [q \in Procs |-> op[q]] /\ Fields \subseteq DOMAIN op[p] /\ KeysOK /\ Knows(Home[p], op[p])
      /\ CallTypeOK(op[p]) /\ CallOK(op[p]) /\ TablesOK
  BY Facts DEF CallTypeOK
<1>1. op[p].pc = "loginClear"
  BY DEF LoginSaveCleared
<1>2. PICK u \in Users, at \in {op[p].at} : u = op[p].user /\ at = op[p].at
  BY <1>1, Facts
<1>3. u \in Keys
  BY KeysApart
<1>4. /\ Row(op[p].row) /\ u \in DOMAIN credentials /\ op[p].link = 0
      /\ at \in 1 .. now /\ (Rowed(u) => ByRow(u, at))
  BY <1>0, <1>1, <1>2 DEF CallTypeOK, CallOK, RowPcs, HasCredential, Matched, Knows, LoginKnows, Timed
<1>5. /\ credentials'[u].fails = 0 /\ credentials'[u].lockedUntil = Never /\ u \in DOMAIN credentials'
      /\ Save(u, RecordSuccessfulAttempt(op[p].row))
  <2>1. Save(u, RecordSuccessfulAttempt(op[p].row))
    BY <1>2 DEF LoginSaveCleared
  <2> QED  BY <1>4, <2>1, ClearingMethods DEF Save
<1>6. /\ op' = [q \in Procs |-> op'[q]] /\ \A q \in Procs : q # p => op'[q] = op[q]
      /\ op'[p].pc = "loginDone" /\ op'[p].user = u /\ op'[p].link = 0
      /\ UNCHANGED <<now, status, links, attempts, overlaps, guesses, tried>>
  BY <1>0, <1>2, <1>4 DEF LoginSaveCleared, Fields, ghosts
<1>7. Writes(p)
  BY <1>0, <1>1, <1>2, <1>5, <1>6 DEF Writes, LinksStay, KeysOK
<1>8. UserRationed(u)'
  <2>1. UserRationed(u) /\ ~JustMatched(u)
    BY <1>1, <1>2, NothingPending DEF Exact, Rationed
  <2>2. (Rowed(u)' <=> Rowed(u)) /\ credentials'[u].fails \in Nat /\ credentials'[u].lockedUntil \in Nat
    BY <1>4, <1>5, <1>6 DEF Rowed, Never
  <2>3. CASE Rowed(u)
    <3>1. guesses[u] <= Ration(now)
      BY <1>4, <2>3, RowBounds
    <3>2. JustMatched(u)'
      BY <1>6, <3>1 DEF JustMatched, Ration
    <3> QED  BY <2>2, <2>3, <3>2 DEF UserRationed
  <2>4. CASE ~Rowed(u)
    <3>1. (guesses[u] <= Ration(now))'
      BY <1>6, <2>1, <2>4 DEF UserRationed, Ration
    <3> QED  BY <2>2, <2>4, <3>1 DEF UserRationed
  <2> QED  BY <2>3, <2>4
<1>9. Knows(Home[p], op[p])'
  <2>1. PICK c : c = op'[p]
    OBVIOUS
  <2>2. LoginKnows(c)'
    BY <1>5, <1>6, <2>1 DEF LoginKnows, Timed
  <2>3. KeyKnown(Home[p], c)' /\ FailureKnown(c)' /\ LinkKnown(c)' /\ StatusKnown(c)'
    BY <1>6, <2>1 DEF KeyKnown, FailureKnown, LinkKnown, StatusKnown, FreePcs, LinkPcs, KeyPcs, AcceptedPcs, Dated
  <2> QED  BY <2>1, <2>2, <2>3 DEF Knows
<1> QED  BY <1>2, <1>7, <1>8, <1>9, WritingIsEnough

\* A new link is nobody's key yet (RequestPasswordReset, RequestEmailVerification).
LEMMA RequestIssueRations == ASSUME Exact, NEW p \in Procs, RequestIssue(p) PROVE Rationed'
<1>0. op = [q \in Procs |-> op[q]] /\ Fields \subseteq DOMAIN op[p] /\ KeysOK /\ Knows(Home[p], op[p])
  BY Facts DEF CallTypeOK
<1>1. op[p].pc = "requestIssue" /\ op[p].at \in 0 .. now
  BY <1>0 DEF RequestIssue, Knows, LinkKnown, Dated
<1>2. PICK u \in Users : u = op[p].user
  BY <1>1, Facts
<1> DEFINE old == Consumed(op[p].retire)
           new == NewLink(op[p].user, op[p].seen, op[p].at)
<1>3. /\ links' = Append(old, new)
      /\ op' = [op EXCEPT ![p].pc = "mail", ![p].retire = {}, ![p].link = Len(links) + 1]
      /\ UNCHANGED <<now, status, credentials, attempts, guesses, tried, overlaps>>
  BY DEF RequestIssue, ghosts
<1>4. /\ Len(links) \in Nat /\ DOMAIN links = 1 .. Len(links)
      /\ \A t \in 1 .. Len(links) :
           /\ {"user", "purpose", "consumed"} \subseteq DOMAIN links[t]
           /\ "expires" \in DOMAIN links[t] /\ links[t].expires \in Nat
  BY <1>0 DEF Exact, Fine, IInv, Shapes, KeysOK
<1>5. /\ old = [t \in 1 .. Len(links) |-> old[t]]
      /\ Len(old) = Len(links)
      /\ \A t \in 1 .. Len(links) :
           /\ old[t].user = links[t].user /\ old[t].expires = links[t].expires
           /\ links[t].consumed => old[t].consumed
           /\ "expires" \in DOMAIN old[t]
  BY <1>4 DEF Consumed
<1>6. new.expires \in Nat /\ "expires" \in DOMAIN new
  BY <1>0, <1>1, CredentialAssumption DEF NewLink, KeysOK
<1> HIDE DEF old, new
<1>7. DOMAIN links' = 1 .. Len(links) + 1 /\ links'[Len(links) + 1] = new
      /\ \A t \in 1 .. Len(links) : links'[t] = old[t]
  <2> DEFINE S == {old[t] : t \in 1 .. Len(links)} \union {new}
  <2>1. old \in Seq(S) /\ new \in S
    BY <1>4, <1>5
  <2> HIDE DEF S
  <2> QED  BY <1>3, <1>4, <1>5, <2>1
<1>8. /\ DOMAIN links \subseteq DOMAIN links'
      /\ \A t \in DOMAIN links : /\ links'[t].user = links[t].user
                                 /\ links'[t].expires = links[t].expires
                                 /\ links[t].consumed => links'[t].consumed
  BY <1>4, <1>5, <1>7
<1>9. \A t \in DOMAIN links' : "expires" \in DOMAIN links'[t] /\ links'[t].expires \in Nat
  <2> SUFFICES ASSUME NEW t \in 1 .. Len(links) + 1, t # Len(links) + 1
               PROVE  "expires" \in DOMAIN links'[t] /\ links'[t].expires \in Nat
    BY <1>6, <1>7
  <2>1. t \in 1 .. Len(links)
    BY <1>4
  <2> QED  BY <1>4, <1>5, <1>7, <2>1
<1>10. /\ op' = [q \in Procs |-> op'[q]] /\ \A q \in Procs : q # p => op'[q] = op[q]
       /\ op'[p].pc = "mail" /\ op'[p].user = u
  BY <1>0, <1>2, <1>3 DEF Fields
<1>11. Spares(p)
  BY <1>1, <1>2, <1>3, <1>8, <1>10 DEF Spares, Untouched
<1>12. KeysOK'
  BY <1>0, <1>3, <1>9 DEF KeysOK
<1>13. UserRationed(u)'
  <2>1. CountsStay(u)
    BY <1>3 DEF CountsStay, Rowed
  <2> QED  BY <1>1, <1>2, <2>1, UserStays
<1>14. Knows(Home[p], op[p])'
  BY <1>10, NothingToKnow DEF KnowingPcs, ErasePcs, Timed, FreePcs, LinkPcs, KeyPcs, AcceptedPcs, Dated
<1>15. \A k : Untouched(k)
  BY <1>3 DEF Untouched
<1> QED  BY <1>2, <1>11, <1>12, <1>13, <1>14, <1>15, SparingIsEnough
-----------------------------------------------------------------------------
\* What fails returns, or is reported; nothing that was counted is lost with it.
LEMMA FailsRations == ASSUME Exact, NEW p \in Procs, Fails(p) PROVE Rationed'
<1>0. op = [q \in Procs |-> op[q]] /\ Fields \subseteq DOMAIN op[p]
  BY Facts DEF CallTypeOK
<1>1. CASE op[p].pc = "revoke"
  BY <1>1, PlainStatements DEF Fails
<1>2. CASE op[p].pc # "revoke"
  <2>1. Looks(p) /\ op'[p].pc \notin KnowingPcs
    BY <1>0, <1>2 DEF Fails, Looks, Goto, Return, ghosts, tables, Idle, Fields, KnowingPcs, Timed,
                      FreePcs, LinkPcs, AcceptedPcs, KeyPcs, Dated, ErasePcs
  <2> QED  BY <2>1, LookingOn
<1> QED  BY <1>1, <1>2

\* Time only makes room: every bound grows, locks run out, dead links stay dead.
LEMMA TickRations == ASSUME Exact, Tick PROVE Rationed'
<1>1. /\ now \in Nat \ {0} /\ now' = now + 1 /\ now' \in Nat \ {0} /\ KeysOK
      /\ UNCHANGED <<status, credentials, links, attempts, guesses, tried, op>>
  BY DEF Tick, tables, ghosts, Exact, Rationed, KeysOK
<1>2. Ration(now) \in Nat /\ Ration(now') \in Nat /\ Ration(now) <= Ration(now')
  BY <1>1, RationFacts
<1>3. KeysOK'
  BY <1>1 DEF KeysOK
<1>4. ASSUME NEW r \in Replicas, NEW k \in Keys PROVE ByKey(r, k)'
  <2>0. ByKey(r, k)
    BY DEF Exact, Rationed
  <2>1. /\ tried[r][k] \in Nat /\ attempts[r][k].failed \in Nat /\ attempts[r][k].lockedUntil \in Nat
        /\ Threshold \in Nat
    BY <1>1, LockoutAssumption DEF KeysOK
  <2>2. tried[r][k] <= Ration(now')
    BY <1>2, <2>0, <2>1 DEF ByKey
  <2>3. attempts[r][k].lockedUntil = 0 => tried[r][k] + Threshold <= Ration(now') + attempts[r][k].failed
    BY <1>2, <2>0, <2>1 DEF ByKey
  <2> QED  BY <1>1, <2>0, <2>2, <2>3 DEF ByKey, Ration
<1>5. ASSUME NEW u \in Users, NEW at, ByRow(u, at) PROVE ByRow(u, at)'
  BY <1>1, <1>5 DEF ByRow, Ration
<1>6. ASSUME NEW u \in Users, ByRow(u, now) PROVE ByRow(u, now)'
  <2>1. 1 .. now \subseteq 1 .. now'
    BY <1>1
  <2> QED  BY <1>1, <1>6, <2>1 DEF ByRow, Ration
<1>7. ASSUME NEW u \in Users, JustMatched(u) PROVE JustMatched(u)'
  <2>1. guesses[u] \in Nat
    BY <1>1 DEF KeysOK
  <2>2. guesses[u] <= Ration(now')
    BY <1>2, <1>7, <2>1 DEF JustMatched
  <2> QED  BY <1>1, <1>7, <2>2 DEF JustMatched, Ration
<1>8. ASSUME NEW u \in Users PROVE UserRationed(u)'
  <2>1. UserRationed(u) /\ guesses[u] \in Nat
    BY <1>1 DEF Exact, Rationed, KeysOK
  <2>2. (Rowed(u)' <=> Rowed(u)) /\ credentials' = credentials
    BY <1>1 DEF Rowed
  <2>3. guesses[u] <= Ration(now) => (guesses[u] <= Ration(now))'
    BY <1>1, <1>2, <2>1 DEF Ration
  <2> QED  BY <1>6, <1>7, <2>1, <2>2, <2>3 DEF UserRationed
<1>9. ASSUME NEW t \in LinkIds PROVE LinkRationed(t)'
  <2>1. LinkRationed(t) /\ t \in Keys
    BY KeysApart DEF Exact, Rationed
  <2>2. Dead(t, now) => Dead(t, now)'
    <3>1. t \in DOMAIN links => links[t].expires \in Nat
      BY <1>1 DEF KeysOK
    <3> QED  BY <1>1, <3>1 DEF Dead
  <2> QED  BY <1>1, <2>1, <2>2 DEF LinkRationed, Tried
<1>10. ASSUME NEW q \in Procs PROVE Knows(Home[q], op[q])'
  <2>1. Knows(Home[q], op[q]) /\ op' = op /\ CallTypeOK(op[q]) /\ 1 .. now \subseteq 1 .. now' /\ 0 .. now \subseteq 0 .. now'
    BY <1>1, Facts
  <2>2. LoginKnows(op[q])'
    <3>1. op[q].pc \in Timed => op[q].user \in Users
      BY <2>1 DEF CallTypeOK, Timed
    <3>2. \A u : Rowed(u)' <=> Rowed(u)
      BY <1>1 DEF Rowed
    <3> QED  BY <1>1, <1>5, <2>1, <3>1, <3>2 DEF Knows, LoginKnows
  <2>3. KeyKnown(Home[q], op[q])'
    BY <1>1, <2>1 DEF Knows, KeyKnown, KeyOf
  <2>4. FailureKnown(op[q])'
    <3>1. links[op[q].link].expires \in Nat \/ op[q].link \notin DOMAIN links
      BY <1>1 DEF KeysOK
    <3>2. Dead(op[q].link, now) => Dead(op[q].link, now)'
      BY <1>1, <3>1 DEF Dead
    <3>3. FailureKnown(op[q])
      BY <2>1 DEF Knows
    <3> QED  BY <1>1, <3>2, <3>3 DEF FailureKnown
  <2>5. LinkKnown(op[q])'
    BY <1>1, <2>1 DEF Knows, LinkKnown, Dead, Tried
  <2>6. StatusKnown(op[q])'
    BY <1>1, <2>1 DEF Knows, StatusKnown
  <2> QED  BY <2>2, <2>3, <2>4, <2>5, <2>6 DEF Knows
<1> QED  BY <1>3, <1>4, <1>8, <1>9, <1>10 DEF Rationed
-----------------------------------------------------------------------------
\* A call that arrives brings nothing but the link it redeems and the time.
ArrivesKnowing(call) ==
    /\ Fields \subseteq DOMAIN call
    /\ call.pc \notin KnowingPcs \/ call.pc \in {"gate", "requestUser"}
    /\ call.pc \in {"gate", "requestUser"} => call.at \in 0 .. now
    /\ call.pc = "gate" /\ call.link # 0 =>
         /\ call.link \in DOMAIN links /\ links[call.link].user = call.user
         /\ call.at = now

\* When it overlaps no other call of its user.
LEMMA BeginRations ==
    ASSUME Exact, NEW p \in Procs, NEW call, Begin(p, call), overlaps' = 0, ArrivesKnowing(call)
    PROVE  Rationed'
<1> DEFINE others == {q \in Procs : InCallFor(q, call.user)}
<1>1. /\ op' = [q \in Procs |-> IF q = p THEN [call EXCEPT !.alone = others = {}]
                                ELSE IF q \in others THEN [op[q] EXCEPT !.alone = FALSE]
                                ELSE op[q]]
      /\ overlaps' = overlaps + Cardinality(others)
      /\ UNCHANGED <<now, status, credentials, links, attempts, guesses, tried>>
      /\ op[p].pc = "idle"
  BY DEF Begin, tables
<1>2. others = {}
  <2>1. IsFiniteSet(others)
    BY ProcsAssumption, FS_Subset
  <2>2. Cardinality(others) \in Nat /\ (Cardinality(others) = 0 => others = {})
    BY <2>1, FS_CardinalityType, FS_EmptySet
  <2>3. overlaps = 0
    BY DEF Exact
  <2> QED  BY <1>1, <2>2, <2>3
<1>3. \A q \in Procs : q # p => op'[q] = op[q]
  BY <1>1, <1>2
<1>4. PICK c : /\ c = op'[p] /\ c.pc = call.pc /\ c.user = call.user /\ c.link = call.link
               /\ c.at = call.at
  BY <1>1 DEF ArrivesKnowing, Fields
<1> HIDE DEF others
<1>5. KeysOK'
  BY <1>1 DEF Exact, Rationed, KeysOK
<1>6. ASSUME NEW u \in Users PROVE UserRationed(u)'
  <2>1. UserRationed(u)
    BY DEF Exact, Rationed
  <2>2. JustMatched(u) => JustMatched(u)'
    BY <1>1, <1>3 DEF JustMatched, Ration
  <2>3. ByRow(u, now) => ByRow(u, now)'
    BY <1>1 DEF ByRow, Ration
  <2>4. guesses[u] <= Ration(now) => (guesses[u] <= Ration(now))'
    BY <1>1 DEF Ration
  <2>5. (Rowed(u)' <=> Rowed(u)) /\ credentials' = credentials
    BY <1>1 DEF Rowed
  <2> QED  BY <2>1, <2>2, <2>3, <2>4, <2>5 DEF UserRationed
<1>7. ASSUME NEW t \in LinkIds PROVE LinkRationed(t)'
  <2>1. LinkRationed(t)
    BY DEF Exact, Rationed
  <2> QED  BY <1>1, <2>1 DEF LinkRationed, Tried, Dead
<1>8. ASSUME NEW q \in Procs, q # p PROVE Knows(Home[q], op[q])'
  <2>1. Knows(Home[q], op[q]) /\ op'[q] = op[q]
    BY <1>3, <1>8 DEF Exact, Rationed
  <2>2. LoginKnows(op[q])'
    BY <1>1, <2>1 DEF Knows, LoginKnows, Rowed, ByRow, Ration
  <2>3. KeyKnown(Home[q], op[q])'
    BY <1>1, <2>1 DEF Knows, KeyKnown, KeyOf
  <2>4. FailureKnown(op[q])'
    BY <1>1, <2>1 DEF Knows, FailureKnown, Dead
  <2>5. LinkKnown(op[q])'
    BY <1>1, <2>1 DEF Knows, LinkKnown, Dead, Tried
  <2>6. StatusKnown(op[q])'
    BY <1>1, <2>1 DEF Knows, StatusKnown
  <2> QED  BY <2>2, <2>3, <2>4, <2>5, <2>6 DEF Knows
<1>9. Knows(Home[p], op[p])'
  <2>1. CASE call.pc \notin KnowingPcs
    BY <1>4, <2>1, NothingToKnow
  <2>2. CASE call.pc = "requestUser"
    BY <1>1, <1>4, <2>2 DEF ArrivesKnowing, Knows, LoginKnows, KeyKnown, FailureKnown, LinkKnown,
       StatusKnown, Timed, FreePcs, LinkPcs, KeyPcs, AcceptedPcs, Dated
  <2>3. CASE call.pc = "gate"
    <3>1. c.link # 0 => /\ c.link \in DOMAIN links /\ links[c.link].user = c.user
                        /\ c.link \in Keys /\ Tried(c.link) => Dead(c.link, c.at)
      <4>1. c.link # 0 => c.link \in DOMAIN links /\ links[c.link].user = c.user /\ c.at = now
        BY <1>4, <2>3 DEF ArrivesKnowing
      <4>2. c.link # 0 /\ c.link \in Keys => c.link \in LinkIds
        BY <4>1, LinksApart DEF Exact, Keys
      <4> QED  BY <4>1, <4>2 DEF Exact, Rationed, LinkRationed
    <3>2. c.at \in 0 .. now
      BY <1>4, <2>3 DEF ArrivesKnowing
    <3>3. LinkKnown(op[p])'
      BY <1>1, <1>4, <2>3, <3>1, <3>2 DEF LinkKnown, LinkPcs, KeyPcs, AcceptedPcs, Dated, Dead, Tried
    <3>4. /\ LoginKnows(op[p])' /\ KeyKnown(Home[p], op[p])' /\ FailureKnown(op[p])'
          /\ StatusKnown(op[p])'
      BY <1>1, <1>4, <2>3 DEF LoginKnows, KeyKnown, FailureKnown, StatusKnown, Timed, FreePcs
    <3> QED  BY <3>3, <3>4 DEF Knows
  <2> QED  BY <2>1, <2>2, <2>3 DEF ArrivesKnowing
<1>10. \A q \in Procs : Knows(Home[q], op[q])'
  BY <1>8, <1>9
<1>11. \A r \in Replicas, k \in Keys : ByKey(r, k)'
  BY <1>1 DEF Exact, Rationed, ByKey, Ration
<1> QED  BY <1>5, <1>6, <1>7, <1>10, <1>11 DEF Rationed

\* Whatever call arrives.
LEMMA ArriveRations ==
    ASSUME Exact, NEW p \in Procs, Arrive(p), overlaps' = 0
    PROVE  Rationed'
<1>0. Never = 0 /\ now \in Nat /\ 0 \in 0 .. now /\ now \in 0 .. now
  BY DEF Never, Exact, Rationed, KeysOK
<1> USE DEF ArrivesKnowing, Idle, Fields, KnowingPcs, Timed, FreePcs, LinkPcs, AcceptedPcs, KeyPcs,
            Dated, ErasePcs
<1>1. ASSUME NEW u \in Users, NEW pw, Register(p, u, pw)
      PROVE  Rationed'
  <2> DEFINE call == [Idle EXCEPT !.pc = "registerFind", !.user = u, !.pw = pw]
  <2>1. Begin(p, call) /\ ArrivesKnowing(call)
    BY <1>1 DEF Register
  <2> QED  BY <2>1, BeginRations
<1>2. ASSUME NEW u \in Users, NEW pw \in Passwords, Login(p, u, pw)
      PROVE  Rationed'
  <2> DEFINE call == [Idle EXCEPT !.pc = "gate", !.user = u, !.pw = pw]
  <2>1. Begin(p, call) /\ ArrivesKnowing(call)
    BY <1>0, <1>2 DEF Login
  <2> QED  BY <2>1, BeginRations
<1>3. ASSUME NEW u \in Users, NEW purpose, Request(p, u, purpose)
      PROVE  Rationed'
  <2> DEFINE call == [Idle EXCEPT !.pc = "requestUser", !.user = u, !.seen = purpose, !.at = now]
  <2>1. Begin(p, call) /\ ArrivesKnowing(call)
    BY <1>0, <1>3 DEF Request
  <2> QED  BY <2>1, BeginRations
<1>4. ASSUME NEW u \in Users, NEW to \in {"suspended", "active", "same", "deleted"},
             Begin(p, StatusCall(u, to))
      PROVE  Rationed'
  <2>1. ArrivesKnowing(StatusCall(u, to))
    BY DEF StatusCall
  <2> QED  BY <1>4, <2>1, BeginRations
<1>5. ASSUME NEW u \in Users, NEW current \in Passwords, NEW new \in Passwords,
             ChangePassword(p, u, current, new)
      PROVE  Rationed'
  <2> DEFINE call == [Idle EXCEPT !.pc = "changeUser", !.user = u, !.current = current, !.pw = new]
  <2>1. Begin(p, call) /\ ArrivesKnowing(call)
    BY <1>5 DEF ChangePassword, BeginReplacing
  <2> QED  BY <2>1, BeginRations
<1>6. ASSUME NEW t \in mailed, NEW new \in Passwords, ConfirmReset(p, t, new) PROVE Rationed'
  <2> DEFINE call == [Idle EXCEPT !.pc = "gate", !.user = links[t].user, !.link = t,
                                  !.late = links[t].consumed, !.pw = new, !.at = now]
  <2>1. t \in DOMAIN links
    BY DEF Exact, Fine, IInv, Mailbox
  <2>2. Begin(p, call) /\ ArrivesKnowing(call)
    BY <1>0, <1>6, <2>1 DEF ConfirmReset, BeginReplacing
  <2> QED  BY <2>2, BeginRations
<1>7. ASSUME NEW t \in mailed, ConfirmEmail(p, t) PROVE Rationed'
  <2> DEFINE call == [Idle EXCEPT !.pc = "emailFind", !.user = links[t].user, !.link = t, !.at = now]
  <2>1. Begin(p, call) /\ ArrivesKnowing(call)
    BY <1>7 DEF ConfirmEmail
  <2> QED  BY <2>1, BeginRations
<1> QED  BY <1>1, <1>2, <1>3, <1>4, <1>5, <1>6, <1>7
         DEF Arrive, RegisterUserWithPassword, RegisterUser, RequestPasswordReset, BeginReplacing,
             RequestEmailVerification, SuspendUser, ReactivateUser, UpdateUserProfile, DeleteUser

\* Whatever statement a call goes on with.
LEMMA ContinueRations ==
    ASSUME BaseDuration <= MaxDuration, Exact, NEW p \in Procs, Continue(p)
    PROVE  Rationed'
<1>1. CASE RegisterFind(p) \/ RegisterSave(p) \/ RegisterConflict(p) \/ Gate(p) \/ GateClear(p)
           \/ ReadFailures(p) \/ RecordFailure(p)
  BY <1>1, PlainStatements, RegisterSaveRations, GateRations, GateClearRations,
     ReadFailuresRations, RecordFailureRations
<1>2. CASE LoginFindUser(p) \/ LoginNoCredential(p) \/ LoginMismatch(p) \/ LoginMatch(p)
           \/ LoginSaveFailed(p) \/ LoginSaveCleared(p) \/ LoginSucceed(p) \/ Rehash(p) \/ SignIn(p)
  BY <1>2, LoginFindUserRations, LoginNoCredentialRations, LoginMismatchRations, LoginMatchRations,
     LoginSaveFailedRations, LoginSaveClearedRations, LoginSucceedRations, RehashRations,
     PlainStatements
<1>3. CASE ChangeFindUser(p) \/ ChangeCheck(p) \/ ChangeRead(p) \/ ChangeSave(p)
           \/ RequestFind(p) \/ RequestRetire(p) \/ RequestIssue(p) \/ SendMail(p)
  BY <1>3, PlainStatements, ChangeSaveRations, RequestFindRations, RequestRetireRations,
     RequestIssueRations
<1>4. CASE ConfirmFind(p) \/ ConfirmFindUser(p) \/ ConfirmConsume(p) \/ ConfirmReused(p)
           \/ ConfirmCheck(p) \/ ConfirmCommit(p) \/ ConfirmSucceed(p) \/ RevokeSessions(p)
  BY <1>4, ConfirmFindRations, ConfirmFindUserRations, ConfirmConsumeRations, ConfirmReusedRations,
     ConfirmCheckRations, ConfirmCommitRations, ConfirmSucceedRations, PlainStatements
<1>5. CASE EmailFind(p) \/ EmailFindUser(p) \/ EmailActivate(p) \/ StatusFind(p) \/ StatusSave(p)
           \/ EraseNothing(p) \/ EraseFind(p) \/ EraseRetire(p) \/ EraseSave(p)
  BY <1>5, PlainStatements, EmailFindUserRations, EmailActivateRations, StatusFindRations,
     StatusSaveRations, EraseFindRations, EraseRetireRations, EraseSaveRations
<1> QED  BY <1>1, <1>2, <1>3, <1>4, <1>5 DEF Continue

\* An overlap is never forgotten.
LEMMA OverlapsLast ==
    ASSUME Fine, NEW p \in Procs, NEW call, Begin(p, call), overlaps' = 0
    PROVE  overlaps = 0
<1> DEFINE others == {q \in Procs : InCallFor(q, call.user)}
<1>1. overlaps' = overlaps + Cardinality(others) /\ IsFiniteSet(others)
  BY ProcsAssumption, FS_Subset DEF Begin
<1>2. Cardinality(others) \in Nat /\ overlaps \in Nat
  BY <1>1, FS_CardinalityType DEF Fine, IInv, Shapes
<1> QED  BY <1>1, <1>2

LEMMA OverlapsGrow == ASSUME Fine, [Next]_vars, overlaps' = 0 PROVE overlaps = 0
<1>1. CASE Tick \/ UNCHANGED vars
  BY <1>1 DEF Tick, vars, ghosts
<1>2. ASSUME NEW p \in Procs, Arrive(p) PROVE overlaps = 0
  BY <1>2, OverlapsLast
  DEF Arrive, RegisterUserWithPassword, RegisterUser, Register, Login, ChangePassword, BeginReplacing,
      RequestPasswordReset, RequestEmailVerification, Request, SuspendUser, ReactivateUser,
      UpdateUserProfile, DeleteUser, ConfirmReset, ConfirmEmail
<1>3. ASSUME NEW p \in Procs, Continue(p) PROVE overlaps' = overlaps
  <2> USE DEF Reads, ghosts, Retire
  <2>1. CASE RegisterFind(p) \/ RegisterSave(p) \/ RegisterConflict(p) \/ Gate(p) \/ GateClear(p)
             \/ ReadFailures(p) \/ RecordFailure(p)
    BY <2>1 DEF RegisterFind, RegisterSave, RegisterConflict, Gate, GateClear, ReadFailures, RecordFailure
  <2>2. CASE LoginFindUser(p) \/ LoginNoCredential(p) \/ LoginMismatch(p) \/ LoginMatch(p)
             \/ LoginSaveFailed(p) \/ LoginSaveCleared(p) \/ LoginSucceed(p) \/ Rehash(p) \/ SignIn(p)
    BY <2>2 DEF LoginFindUser, LoginNoCredential, LoginMismatch, LoginMatch, LoginSaveFailed,
                LoginSaveCleared, LoginSucceed, Rehash, SignIn
  <2>3. CASE ChangeFindUser(p) \/ ChangeCheck(p) \/ ChangeRead(p) \/ ChangeSave(p)
             \/ RequestFind(p) \/ RequestRetire(p) \/ RequestIssue(p) \/ SendMail(p)
    BY <2>3 DEF ChangeFindUser, ChangeCheck, ChangeRead, ChangeSave, RequestFind, RequestRetire,
                RequestIssue, SendMail
  <2>4. CASE ConfirmFind(p) \/ ConfirmFindUser(p) \/ ConfirmConsume(p) \/ ConfirmReused(p)
             \/ ConfirmCheck(p) \/ ConfirmCommit(p) \/ ConfirmSucceed(p) \/ RevokeSessions(p)
    BY <2>4 DEF ConfirmFind, ConfirmFindUser, ConfirmConsume, ConfirmReused, ConfirmCheck,
                ConfirmCommit, ConfirmSucceed, RevokeSessions
  <2>5. CASE EmailFind(p) \/ EmailFindUser(p) \/ EmailActivate(p) \/ StatusFind(p) \/ StatusSave(p)
             \/ EraseNothing(p) \/ EraseFind(p) \/ EraseRetire(p) \/ EraseSave(p)
    BY <2>5 DEF EmailFind, EmailFindUser, EmailActivate, StatusFind, StatusSave, EraseNothing,
                EraseFind, EraseRetire, EraseSave
  <2> QED  BY <1>3, <2>1, <2>2, <2>3, <2>4, <2>5 DEF Continue
<1>4. ASSUME NEW p \in Procs, Fails(p) PROVE overlaps' = overlaps
  BY <1>4 DEF Fails, RevocationReported, ghosts
<1> QED  BY <1>1, <1>2, <1>3, <1>4 DEF Next

\* Every step keeps the invariant of the lockouts.
LEMMA RationStep ==
    ASSUME BaseDuration <= MaxDuration
    PROVE  Fine /\ RInv /\ [Next]_vars => RInv'
<1> SUFFICES ASSUME Fine, RInv, [Next]_vars, overlaps' = 0 PROVE Rationed'
  BY DEF RInv
<1>1. Exact
  BY OverlapsGrow DEF Exact, RInv
<1>2. CASE Tick
  BY <1>1, <1>2, TickRations
<1>3. CASE UNCHANGED vars
  <2>1. UNCHANGED <<now, status, credentials, links, attempts, guesses, tried, op>>
    BY <1>3 DEF vars, tables, ghosts
  <2>2. /\ KeysOK' /\ \A t \in LinkIds : LinkRationed(t)'
        /\ \A r \in Replicas, k \in Keys : ByKey(r, k)'
    BY <1>1, <2>1 DEF Exact, Rationed, KeysOK, LinkRationed, Tried, ByKey, Dead, Ration
  <2>3. \A u \in Users : UserRationed(u)'
    BY <1>1, <2>1 DEF Exact, Rationed, UserRationed, Rowed, ByRow, JustMatched, Ration
  <2>4. ASSUME NEW q \in Procs PROVE Knows(Home[q], op[q])'
    <3>1. Knows(Home[q], op[q])
      BY <1>1 DEF Exact, Rationed
    <3>2. LoginKnows(op[q])' /\ KeyKnown(Home[q], op[q])'
      BY <2>1, <3>1 DEF Knows, LoginKnows, KeyKnown, KeyOf, Rowed, ByRow, Ration
    <3>3. FailureKnown(op[q])' /\ LinkKnown(op[q])' /\ StatusKnown(op[q])'
      BY <2>1, <3>1 DEF Knows, FailureKnown, LinkKnown, StatusKnown, Tried, Dead
    <3> QED  BY <3>2, <3>3 DEF Knows
  <2> QED  BY <2>2, <2>3, <2>4 DEF Rationed
<1> QED  BY <1>1, <1>2, <1>3, ArriveRations, ContinueRations, FailsRations DEF Next

\* Nothing has been guessed, and earlier processes leave fresh credentials (StoreInit).
LEMMA RationInit == Init => RInv
<1> SUFFICES ASSUME Init PROVE Rationed
  BY DEF RInv
<1>1. /\ now = 1 /\ links = << >> /\ guesses = [u \in Users |-> 0]
      /\ tried = [r \in Replicas |-> [k \in Keys |-> 0]]
      /\ attempts = [r \in Replicas |-> [k \in Keys |-> NoAttempts]]
      /\ \A p \in Procs : op[p] = Idle
  BY DEF Init, StoreInit, AttemptsInit
<1>2. NoAttempts \in [failed : Nat, lockedUntil : Nat] /\ NoAttempts.failed = 0 /\ NoAttempts.lockedUntil = 0
  BY DEF NoAttempts
<1>3. Threshold \in Nat \ {0}
  BY LockoutAssumption
<1>4. KeysOK
  BY <1>1, <1>2, <1>3 DEF KeysOK
<1>5. \A r \in Replicas, k \in Keys : ByKey(r, k)
  <2>1. Ration(now) \in Nat /\ Threshold <= Ration(now)
    BY <1>1, RationFacts
  <2> QED  BY <1>1, <1>2, <1>3, <2>1 DEF ByKey
<1>6. \A t \in LinkIds : LinkRationed(t)
  BY <1>1, KeysApart DEF LinkRationed, Tried
<1>7. \A u \in Users : u \in DOMAIN credentials => credentials[u].fails = 0 /\ credentials[u].lockedUntil = Never
  <2>1. PICK owners \in SUBSET {u \in Users : status[u] # "none"} :
          \E pw \in [owners -> Passwords] : credentials = [u \in owners |-> Credential(pw[u], FALSE)]
    BY DEF Init, StoreInit
  <2>2. PICK pw \in [owners -> Passwords] : credentials = [u \in owners |-> Credential(pw[u], FALSE)]
    BY <2>1
  <2> QED  BY <2>2 DEF Credential
<1>8. ASSUME NEW u \in Users PROVE UserRationed(u)
  <2>1. guesses[u] = 0 /\ guesses[u] <= Ration(now)
    BY <1>1, RationFacts
  <2>2. Never = 0
    BY DEF Never
  <2>3. Rowed(u) => ByRow(u, now)
    BY <1>3, <1>7, <2>1 DEF Rowed, ByRow
  <2> QED  BY <1>7, <2>1, <2>2, <2>3 DEF UserRationed
<1>9. \A p \in Procs : Knows(Home[p], op[p])
  BY <1>1, IdleKnows
<1> QED  BY <1>4, <1>5, <1>6, <1>8, <1>9 DEF Rationed

\* It says what is claimed, of every user and of every key on every replica.
LEMMA RationIsEnough == Fine /\ RInv => GuessesAreRationed
<1> SUFFICES ASSUME Fine, RInv, overlaps = 0
             PROVE  /\ \A u \in Users : guesses[u] <= Ration(now)
                    /\ \A r \in Replicas, k \in Keys : tried[r][k] <= Ration(now)
  BY DEF GuessesAreRationed
<1>1. Exact
  BY DEF Exact, RInv
<1>2. ASSUME NEW u \in Users PROVE guesses[u] <= Ration(now)
  <2>1. UserRationed(u)
    BY <1>1 DEF Exact, Rationed
  <2>2. ByRow(u, now) /\ Rowed(u) => guesses[u] <= Ration(now)
    <3>1. now \in 1 .. now
      BY <1>1 DEF Exact, Rationed, KeysOK
    <3> QED  BY <1>1, <3>1, RowBounds DEF Rowed
  <2> QED  BY <2>1, <2>2 DEF UserRationed, JustMatched
<1>3. \A r \in Replicas, k \in Keys : tried[r][k] <= Ration(now)
  BY <1>1 DEF Exact, Rationed, ByKey
<1> QED  BY <1>2, <1>3

\* The two lockouts ration the guesses: as long as no two calls of a user overlap, Threshold of
\* them per BaseDuration get an answer; those Credential.recordFailedAttempt counts, over all
\* replicas, and those BruteForcePolicy.recordFailure counts, on each replica.  The ceiling of a
\* lock must not be below its base, as in the defaults; no constructor checks it.
THEOREM AttemptsAreRationed ==
    ASSUME BaseDuration <= MaxDuration PROVE Spec => []GuessesAreRationed
  BY FineInit, FineStep, RationInit, RationStep, RationIsEnough, PTL DEF Spec
=============================================================================
