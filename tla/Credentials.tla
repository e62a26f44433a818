----------------------------- MODULE Credentials -----------------------------
(***************************************************************************)
(* The credential and user use cases on several replicas of the server,    *)
(* each of which runs several calls at once: registration, login, password *)
(* change, the two link flows, administrative status changes and the       *)
(* deletion handler.  A transaction is PostgreSQL's READ COMMITTED: every  *)
(* read is a step of its own and sees what is committed by then, the       *)
(* writes become visible in the step that commits them, and an UPDATE      *)
(* waits for the transaction that holds its row.                           *)
(***************************************************************************)
EXTENDS CredentialStore, BruteForcePolicy, FiniteSets

CONSTANTS Procs,       \* requests being served, each with room for one call at a time
          Replicas,    \* processes of the server; one that restarts is another
          Home,        \* Home[p]: the replica that serves request p
          Upgraded,    \* replicas deployed with raised hashing parameters
          MaxOverlaps, \* bound: calls that arrive while one of the same user runs
          MaxFaults    \* bound: statements, mails and revocations that fail

ASSUME ProcsAssumption ==
    /\ IsFiniteSet(Procs) /\ Home \in [Procs -> Replicas] /\ Upgraded \subseteq Replicas
    /\ {MaxOverlaps, MaxFaults} \subseteq Nat

VARIABLES op,         \* the call each request is in, and the copies it holds
          calls,      \* calls that arrived so far
          faults,
          mailed,     \* links whose raw token reached a mailbox
          overlaps,   \* calls that arrived while one of the same user ran
          chosen,     \* by user: the password of the last change that ran alone
          erased,     \* users whose deletion ran alone and was handled
          guesses,    \* by user: failed attempts on the credential row that got an answer,
                      \* on all replicas, since the last success
          tried       \* by replica and key: failed attempts BruteForcePolicy counted, since
                      \* the last success there

ghosts == <<overlaps, chosen, erased, guesses, tried>>
vars == <<now, tables, attempts, op, calls, faults, mailed, ghosts>>

NoCredential == Credential(NoPassword, FALSE)
NoChoice     == [pw |-> NoPassword, reset |-> FALSE]

Idle == [pc |-> "idle", user |-> "none", alone |-> FALSE, at |-> Never,
         pw |-> NoPassword, current |-> NoPassword, seen |-> "none",
         row |-> NoCredential, link |-> 0, late |-> FALSE, retire |-> {}, read |-> 0]

\* Logins are counted by address, redemptions by token digest.
Keys == Users \union LinkIds

\* The scope is part of the key ("login:", "password-reset:"): no address is a digest.
ASSUME KeysAssumption == \A u \in Users : u \notin Nat

Key(p) == IF op[p].link = 0 THEN op[p].user ELSE op[p].link

Init ==
    /\ StoreInit
    /\ AttemptsInit(Replicas, Keys)
    /\ op = [p \in Procs |-> Idle]
    /\ calls = 0
    /\ faults = 0
    /\ mailed = {}
    /\ overlaps = 0
    /\ chosen = [u \in Users |-> NoChoice]
    /\ erased = {}
    /\ guesses = [u \in Users |-> 0]
    /\ tried = [r \in Replicas |-> [k \in Keys |-> 0]]

-----------------------------------------------------------------------------
InCallFor(p, u) == op[p].pc # "idle" /\ op[p].user = u

Begin(p, call) ==
    /\ op[p].pc = "idle"
    /\ calls < MaxCalls
    /\ calls' = calls + 1
    /\ LET others == {q \in Procs : InCallFor(q, call.user)} IN
         /\ op' = [q \in Procs |->
                     IF q = p THEN [call EXCEPT !.alone = others = {}]
                     ELSE IF q \in others THEN [op[q] EXCEPT !.alone = FALSE]
                     ELSE op[q]]
         /\ others # {} => overlaps < MaxOverlaps
         /\ overlaps' = overlaps + Cardinality(others)
    /\ UNCHANGED <<now, tables, attempts, faults, mailed, erased, guesses, tried>>

\* A call that may replace the password: what was chosen before no longer has to stay.
BeginReplacing(p, call) ==
    /\ Begin(p, call)
    /\ chosen' = [chosen EXCEPT ![call.user] = NoChoice]

Goto(p, pc) == op' = [op EXCEPT ![p].pc = pc]
Return(p)   == op' = [op EXCEPT ![p] = Idle]

\* A step that reads, or only moves on.
Reads == UNCHANGED <<now, tables, attempts, calls, faults, mailed, ghosts>>

Hashed(p) == Home[p] \in Upgraded

-----------------------------------------------------------------------------
(* RegisterUserWithPassword and, with no password, RegisterUser.           *)

Register(p, u, pw) ==
    /\ Begin(p, [Idle EXCEPT !.pc = "registerFind", !.user = u, !.pw = pw])
    /\ UNCHANGED chosen

RegisterUserWithPassword(p, u) == \E pw \in Passwords : Register(p, u, pw)
RegisterUser(p, u) == Register(p, u, NoPassword)

RegisterFind(p) ==
    /\ op[p].pc = "registerFind"
    /\ \/ status[op[p].user] # "none" /\ Return(p)
       \/ status[op[p].user] = "none" /\ Goto(p, "registerSave")
    /\ Reads

RegisterSave(p) ==
    /\ op[p].pc = "registerSave"
    /\ status[op[p].user] = "none"
    /\ status' = [status EXCEPT ![op[p].user] = "pending"]
    /\ IF op[p].pw = NoPassword THEN UNCHANGED credentials
       ELSE Save(op[p].user, Credential(op[p].pw, Hashed(p)))
    /\ guesses' = [guesses EXCEPT ![op[p].user] = 0]
    /\ Return(p)
    /\ UNCHANGED <<now, links, signedIn, attempts, calls, faults, mailed,
                   overlaps, chosen, erased, tried>>

\* The unique index on the address.
RegisterConflict(p) ==
    /\ op[p].pc = "registerSave"
    /\ status[op[p].user] # "none"
    /\ Return(p)
    /\ Reads

-----------------------------------------------------------------------------
(* BruteForcePolicy as AuthenticateWithPassword and ConfirmPasswordReset   *)
(* call it: check, and recordFailure before the refusal is returned.       *)

\* Past the gate: the login takes its time here, the redemption took it on arrival.
Admit(p) ==
    op' = [op EXCEPT ![p].pc = IF op[p].link = 0 THEN "loginUser" ELSE "confirmFind",
                     ![p].at = IF op[p].link = 0 THEN now ELSE @]

Gate(p) ==
    /\ op[p].pc = "gate"
    /\ \/ Refused(Home[p], Key(p), now) /\ Return(p)
       \/ Elapsed(Home[p], Key(p), now) /\ Goto(p, "gateClear")
       \/ attempts[Home[p]][Key(p)].lockedUntil = 0 /\ Admit(p)
    /\ Reads

GateClear(p) ==
    /\ op[p].pc = "gateClear"
    /\ Clear(Home[p], Key(p))
    /\ Admit(p)
    /\ UNCHANGED <<now, tables, calls, faults, mailed, ghosts>>

\* The attempt has failed: the password and the time are not looked at again.
CountFailure(p) ==
    op' = [op EXCEPT ![p].pc = "failRead", ![p].pw = NoPassword, ![p].at = Never]

ReadFailures(p) ==
    /\ op[p].pc = "failRead"
    /\ op' = [op EXCEPT ![p].pc = "failWrite", ![p].read = attempts[Home[p]][Key(p)].failed]
    /\ Reads

RecordFailure(p) ==
    /\ op[p].pc = "failWrite"
    /\ WriteFailure(Home[p], Key(p), op[p].read, now)
    /\ tried' = [tried EXCEPT ![Home[p]][Key(p)] = @ + 1]
    /\ Return(p)
    /\ UNCHANGED <<now, tables, calls, faults, mailed, overlaps, chosen, erased, guesses>>

-----------------------------------------------------------------------------
(* AuthenticateWithPassword.                                               *)

Login(p, u, pw) ==
    /\ Begin(p, [Idle EXCEPT !.pc = "gate", !.user = u, !.pw = pw])
    /\ UNCHANGED chosen

LoginFindUser(p) ==
    /\ op[p].pc = "loginUser"
    /\ \/ ~Found(status[op[p].user]) /\ CountFailure(p)
       \/ /\ Found(status[op[p].user])
          /\ op' = [op EXCEPT ![p].pc = "loginCred", ![p].seen = status[op[p].user]]
    /\ Reads

Stored(p) == credentials[op[p].user]

LoginNoCredential(p) ==
    /\ op[p].pc = "loginCred"
    /\ op[p].user \notin DOMAIN credentials
    /\ CountFailure(p)
    /\ Reads

\* The password is looked at only when the credential is not locked.
LoginMismatch(p) ==
    /\ op[p].pc = "loginCred"
    /\ op[p].user \in DOMAIN credentials
    /\ IsLockedAt(Stored(p), op[p].at) \/ Stored(p).pw # op[p].pw
    /\ op' = [op EXCEPT ![p].pc = "loginFailed", ![p].row = Stored(p),
                        ![p].pw = NoPassword]
    /\ Reads

LoginMatch(p) ==
    /\ op[p].pc = "loginCred"
    /\ op[p].user \in DOMAIN credentials
    /\ ~IsLockedAt(Stored(p), op[p].at)
    /\ Stored(p).pw = op[p].pw
    /\ IF CanAuthenticate(op[p].seen)
       THEN op' = [op EXCEPT ![p].row = Stored(p),
                             ![p].pc = IF Stored(p) = RecordSuccessfulAttempt(Stored(p))
                                       THEN "loginDone" ELSE "loginClear"]
       ELSE Return(p)
    /\ Reads

LoginSaveFailed(p) ==
    /\ op[p].pc = "loginFailed"
    /\ Save(op[p].user, RecordFailedAttempt(op[p].row, op[p].at))
    /\ guesses' = IF IsLockedAt(op[p].row, op[p].at) THEN guesses
                  ELSE [guesses EXCEPT ![op[p].user] = @ + 1]
    /\ Return(p)
    /\ UNCHANGED <<now, status, links, signedIn, attempts, calls, faults, mailed,
                   overlaps, chosen, erased, tried>>

LoginSaveCleared(p) ==
    /\ op[p].pc = "loginClear"
    /\ Save(op[p].user, RecordSuccessfulAttempt(op[p].row))
    /\ op' = [op EXCEPT ![p].pc = "loginDone", ![p].row = RecordSuccessfulAttempt(@)]
    /\ UNCHANGED <<now, status, links, signedIn, attempts, calls, faults, mailed, ghosts>>

\* recordSuccess; the answer a session is opened from follows the optional rehash.
LoginSucceed(p) ==
    /\ op[p].pc = "loginDone"
    /\ Clear(Home[p], op[p].user)
    /\ guesses' = [guesses EXCEPT ![op[p].user] = 0]
    /\ tried' = [tried EXCEPT ![Home[p]][op[p].user] = 0]
    /\ Goto(p, IF Hashed(p) /\ ~op[p].row.strong THEN "rehash" ELSE "signIn")
    /\ UNCHANGED <<now, tables, calls, faults, mailed, overlaps, chosen, erased>>

\* upgradeHashIfStale saves the copy of the transaction that is over.
Rehash(p) ==
    /\ op[p].pc = "rehash"
    /\ Save(op[p].user, WithPasswordHash(op[p].row, op[p].pw, TRUE))
    /\ Goto(p, "signIn")
    /\ UNCHANGED <<now, status, links, signedIn, attempts, calls, faults, mailed, ghosts>>

SignIn(p) ==
    /\ op[p].pc = "signIn"
    /\ signedIn' = [signedIn EXCEPT ![op[p].user] = @ \union {op[p].pw}]
    /\ Return(p)
    /\ UNCHANGED <<now, status, credentials, links, attempts, calls, faults, mailed, ghosts>>

-----------------------------------------------------------------------------
(* ChangePassword: checked in one transaction, rotated in another.         *)

ChangePassword(p, u, current, new) ==
    BeginReplacing(p, [Idle EXCEPT !.pc = "changeUser", !.user = u,
                                   !.current = current, !.pw = new])

ChangeFindUser(p) ==
    /\ op[p].pc = "changeUser"
    /\ IF Found(status[op[p].user]) THEN Goto(p, "changeCred") ELSE Return(p)
    /\ Reads

MayChange(p) ==
    /\ op[p].user \in DOMAIN credentials
    /\ Stored(p).pw = op[p].current
    /\ ~IsPasswordReused(Stored(p), op[p].pw)

ChangeCheck(p) ==
    /\ op[p].pc = "changeCred"
    /\ IF MayChange(p)
       THEN op' = [op EXCEPT ![p].pc = "changeRead", ![p].current = NoPassword]
       ELSE Return(p)
    /\ Reads

ChangeRead(p) ==
    /\ op[p].pc = "changeRead"
    /\ op' = [op EXCEPT ![p].pc = "changeSave", ![p].row = Stored(p)]
    /\ Reads

\* The acknowledged choice of a call nothing overlapped.
Chosen(p, reset) ==
    chosen' = IF op[p].alone
              THEN [chosen EXCEPT ![op[p].user] = [pw |-> op[p].pw, reset |-> reset]]
              ELSE chosen

ChangeSave(p) ==
    /\ op[p].pc = "changeSave"
    /\ Save(op[p].user, RotatePassword(op[p].row, op[p].pw, Hashed(p)))
    /\ guesses' = [guesses EXCEPT ![op[p].user] = 0]
    /\ Chosen(p, FALSE)
    /\ Return(p)
    /\ UNCHANGED <<now, status, links, signedIn, attempts, calls, faults, mailed,
                   overlaps, erased, tried>>

-----------------------------------------------------------------------------
(* RequestPasswordReset and RequestEmailVerification.                      *)

Request(p, u, purpose) ==
    /\ Begin(p, [Idle EXCEPT !.pc = "requestUser", !.user = u, !.seen = purpose, !.at = now])
    /\ UNCHANGED chosen

RequestPasswordReset(p, u)     == Request(p, u, "reset")
RequestEmailVerification(p, u) == Request(p, u, "email")

\* A user's credential row is created with the user or never, so the two reads of
\* RequestPasswordReset are one.
MayIssue(u, purpose) ==
    /\ Found(status[u])
    /\ \/ purpose = "reset" /\ u \in DOMAIN credentials
       \/ purpose = "email" /\ status[u] = "pending"

RequestFind(p) ==
    /\ op[p].pc = "requestUser"
    /\ IF MayIssue(op[p].user, op[p].seen) THEN Goto(p, "requestRetire") ELSE Return(p)
    /\ Reads

\* No open transaction has written the row of this link.
RowFree(t) ==
    \A q \in Procs : /\ t \notin op[q].retire
                     /\ ~(op[q].pc \in {"confirmCred", "confirmCommit"} /\ op[q].link = t)

\* updateMany, in a transaction that goes on.
Retire(p, purposes, pc) ==
    LET out == Unconsumed(op[p].user, purposes) IN
    /\ \A t \in out : RowFree(t)
    /\ op' = [op EXCEPT ![p].pc = pc, ![p].retire = out]
    /\ Reads

RequestRetire(p) ==
    /\ op[p].pc = "requestRetire"
    /\ Retire(p, {op[p].seen}, "requestIssue")

RequestIssue(p) ==
    /\ op[p].pc = "requestIssue"
    /\ links' = Append(Consumed(op[p].retire), NewLink(op[p].user, op[p].seen, op[p].at))
    /\ op' = [op EXCEPT ![p].pc = "mail", ![p].retire = {}, ![p].link = Len(links) + 1]
    /\ UNCHANGED <<now, status, credentials, signedIn, attempts, calls, faults, mailed, ghosts>>

SendMail(p) ==
    /\ op[p].pc = "mail"
    /\ mailed' = mailed \union {op[p].link}
    /\ Return(p)
    /\ UNCHANGED <<now, tables, attempts, calls, faults, ghosts>>

-----------------------------------------------------------------------------
(* ConfirmPasswordReset.                                                   *)

\* A token nobody was sent behaves like one that is used up.
ConfirmReset(p, t, new) ==
    /\ links[t].purpose = "reset"
    /\ BeginReplacing(p, [Idle EXCEPT !.pc = "gate", !.user = links[t].user, !.link = t,
                                      !.late = links[t].consumed, !.pw = new, !.at = now])

ConfirmFind(p) ==
    /\ op[p].pc = "confirmFind"
    /\ IF IsUsableAt(links[op[p].link], op[p].at) THEN Goto(p, "confirmUser") ELSE CountFailure(p)
    /\ Reads

ConfirmFindUser(p) ==
    /\ op[p].pc = "confirmUser"
    /\ IF Found(status[op[p].user]) THEN Goto(p, "confirmSave") ELSE CountFailure(p)
    /\ Reads

\* save(consumed): the row is held, the write not yet visible.
ConfirmConsume(p) ==
    /\ op[p].pc = "confirmSave"
    /\ RowFree(op[p].link)
    /\ Goto(p, "confirmCred")
    /\ Reads

\* The early return commits: the link is used up and the password unchanged.
ConfirmReused(p) ==
    /\ op[p].pc = "confirmCred"
    /\ IsPasswordReused(Stored(p), op[p].pw)
    /\ links' = Consumed({op[p].link})
    /\ Return(p)
    /\ UNCHANGED <<now, status, credentials, signedIn, attempts, calls, faults, mailed, ghosts>>

ConfirmCheck(p) ==
    /\ op[p].pc = "confirmCred"
    /\ ~IsPasswordReused(Stored(p), op[p].pw)
    /\ op' = [op EXCEPT ![p].pc = "confirmCommit", ![p].row = Stored(p)]
    /\ Reads

ConfirmCommit(p) ==
    /\ op[p].pc = "confirmCommit"
    /\ links' = Consumed({op[p].link})
    /\ Save(op[p].user, RotatePassword(op[p].row, op[p].pw, Hashed(p)))
    /\ guesses' = [guesses EXCEPT ![op[p].user] = 0]
    /\ Goto(p, "confirmDone")
    /\ UNCHANGED <<now, status, signedIn, attempts, calls, faults, mailed,
                   overlaps, chosen, erased, tried>>

ConfirmSucceed(p) ==
    /\ op[p].pc = "confirmDone"
    /\ Clear(Home[p], op[p].link)
    /\ Goto(p, "revoke")
    /\ UNCHANGED <<now, tables, calls, faults, mailed, ghosts>>

RevokeSessions(p) ==
    /\ op[p].pc = "revoke"
    /\ signedIn' = [signedIn EXCEPT ![op[p].user] = {}]
    /\ Chosen(p, TRUE)
    /\ Return(p)
    /\ UNCHANGED <<now, status, credentials, links, attempts, calls, faults, mailed,
                   overlaps, erased, guesses, tried>>

\* A mutant: the failed revocation is swallowed like a failed mail.
RevocationSwallowed(p) ==
    /\ op[p].pc = "revoke"
    /\ Chosen(p, TRUE)
    /\ Return(p)
    /\ UNCHANGED <<now, tables, attempts, calls, mailed, overlaps, erased, guesses, tried>>

\* The caller is told: the password was changed, the sessions were not revoked.
RevocationReported(p) ==
    /\ op[p].pc = "revoke"
    /\ Chosen(p, FALSE)
    /\ Return(p)
    /\ UNCHANGED <<now, tables, attempts, calls, mailed, overlaps, erased, guesses, tried>>

-----------------------------------------------------------------------------
(* ConfirmEmailVerification.                                               *)

ConfirmEmail(p, t) ==
    /\ links[t].purpose = "email"
    /\ Begin(p, [Idle EXCEPT !.pc = "emailFind", !.user = links[t].user, !.link = t, !.at = now])
    /\ UNCHANGED chosen

EmailFind(p) ==
    /\ op[p].pc = "emailFind"
    /\ IF IsUsableAt(links[op[p].link], op[p].at) THEN Goto(p, "emailUser") ELSE Return(p)
    /\ Reads

EmailFindUser(p) ==
    /\ op[p].pc = "emailUser"
    /\ \/ ~Found(status[op[p].user]) /\ Return(p)
       \/ /\ Found(status[op[p].user])
          /\ op' = [op EXCEPT ![p].pc = "emailSave", ![p].seen = status[op[p].user]]
    /\ Reads

\* The link is saved either way; the user is saved whole, from the copy.
EmailActivate(p) ==
    /\ op[p].pc = "emailSave"
    /\ RowFree(op[p].link)
    /\ links' = Consumed({op[p].link})
    /\ status' = IF MayBecome(op[p].seen, "active")
                 THEN [status EXCEPT ![op[p].user] = "active"] ELSE status
    /\ Return(p)
    /\ UNCHANGED <<now, credentials, signedIn, attempts, calls, faults, mailed, ghosts>>

-----------------------------------------------------------------------------
(* SuspendUser, ReactivateUser, UpdateUserProfile ("same"), and a deletion *)
(* (User.delete, saved) with HandleUserDeleted after it.  None of them is  *)
(* one transaction: the user is saved whole, from the copy.                *)

StatusCall(u, to) == [Idle EXCEPT !.pc = to, !.user = u]

SuspendUser(p, u)       == Begin(p, StatusCall(u, "suspended")) /\ UNCHANGED chosen
ReactivateUser(p, u)    == Begin(p, StatusCall(u, "active")) /\ UNCHANGED chosen
UpdateUserProfile(p, u) == Begin(p, StatusCall(u, "same")) /\ UNCHANGED chosen
DeleteUser(p, u)        == BeginReplacing(p, StatusCall(u, "deleted"))

\* ReactivateUser lifts a suspension only, where activate() would also verify.
MaySet(from, to) ==
    \/ to = "active" /\ from = "suspended"
    \/ to \in {"suspended", "deleted"} /\ MayBecome(from, to)
    \/ to = "same"

StatusFind(p) ==
    /\ op[p].pc \in {"suspended", "active", "deleted", "same"}
    /\ LET from == status[op[p].user]
           to   == op[p].pc
       IN  \/ /\ ~(Found(from) /\ MaySet(from, to))
              /\ Return(p)
           \/ /\ Found(from) /\ MaySet(from, to)
              /\ op' = [op EXCEPT ![p].pc = "statusSave",
                                  ![p].seen = IF to = "same" THEN from ELSE to]
    /\ Reads

StatusSave(p) ==
    /\ op[p].pc = "statusSave"
    /\ status' = [status EXCEPT ![op[p].user] = op[p].seen]
    /\ IF op[p].seen = "deleted"
       THEN Goto(p, "eraseCred") /\ guesses' = [guesses EXCEPT ![op[p].user] = 0]
       ELSE Return(p) /\ UNCHANGED guesses
    /\ UNCHANGED <<now, credentials, links, signedIn, attempts, calls, faults, mailed,
                   overlaps, chosen, erased, tried>>

Erased(p) == erased' = erased \union (IF op[p].alone THEN {op[p].user} ELSE {})

\* Nothing is done for a user without a password, the links included.
EraseNothing(p) ==
    /\ op[p].pc = "eraseCred"
    /\ op[p].user \notin DOMAIN credentials
    /\ Erased(p)
    /\ Return(p)
    /\ UNCHANGED <<now, tables, attempts, calls, faults, mailed, overlaps, chosen, guesses, tried>>

EraseFind(p) ==
    /\ op[p].pc = "eraseCred"
    /\ op[p].user \in DOMAIN credentials
    /\ op' = [op EXCEPT ![p].pc = "eraseRetire", ![p].row = Stored(p)]
    /\ Reads

EraseRetire(p) ==
    /\ op[p].pc = "eraseRetire"
    /\ Retire(p, {"email", "reset"}, "eraseSave")

EraseSave(p) ==
    /\ op[p].pc = "eraseSave"
    /\ links' = Consumed(op[p].retire)
    /\ Save(op[p].user, InvalidateForDeletedUser(op[p].row))
    /\ Erased(p)
    /\ Return(p)
    /\ UNCHANGED <<now, status, signedIn, attempts, calls, faults, mailed,
                   overlaps, chosen, guesses, tried>>

-----------------------------------------------------------------------------
(* A statement, the mail or the revocation fails.                          *)

\* The error ends the call and rolls its transaction back; of what runs outside the
\* database, the rehash and the mail are swallowed and the revocation is reported.
Fails(p) ==
    /\ faults < MaxFaults
    /\ faults' = faults + 1
    /\ op[p].pc \notin {"idle", "gate", "gateClear", "failRead", "failWrite",
                        "loginDone", "signIn", "confirmDone"}
    /\ \/ op[p].pc = "revoke" /\ RevocationReported(p)
       \/ /\ op[p].pc # "revoke"
          /\ IF op[p].pc = "rehash" THEN Goto(p, "signIn") ELSE Return(p)
          /\ UNCHANGED <<now, tables, attempts, calls, mailed, ghosts>>

Tick ==
    /\ now < MaxTime
    /\ now' = now + 1
    /\ UNCHANGED <<tables, attempts, op, calls, faults, mailed, ghosts>>

Arrive(p) ==
    \/ \E u \in Users :
         \/ RegisterUserWithPassword(p, u) \/ RegisterUser(p, u)
         \/ \E pw \in Passwords : Login(p, u, pw)
         \/ \E current, new \in Passwords : ChangePassword(p, u, current, new)
         \/ RequestPasswordReset(p, u) \/ RequestEmailVerification(p, u)
         \/ SuspendUser(p, u) \/ ReactivateUser(p, u)
         \/ UpdateUserProfile(p, u) \/ DeleteUser(p, u)
    \/ \E t \in mailed :
         \/ \E new \in Passwords : ConfirmReset(p, t, new)
         \/ ConfirmEmail(p, t)

Continue(p) ==
    \/ RegisterFind(p) \/ RegisterSave(p) \/ RegisterConflict(p)
    \/ Gate(p) \/ GateClear(p) \/ ReadFailures(p) \/ RecordFailure(p)
    \/ LoginFindUser(p) \/ LoginNoCredential(p) \/ LoginMismatch(p) \/ LoginMatch(p)
    \/ LoginSaveFailed(p) \/ LoginSaveCleared(p) \/ LoginSucceed(p)
    \/ Rehash(p) \/ SignIn(p)
    \/ ChangeFindUser(p) \/ ChangeCheck(p) \/ ChangeRead(p) \/ ChangeSave(p)
    \/ RequestFind(p) \/ RequestRetire(p) \/ RequestIssue(p) \/ SendMail(p)
    \/ ConfirmFind(p) \/ ConfirmFindUser(p) \/ ConfirmConsume(p) \/ ConfirmReused(p)
    \/ ConfirmCheck(p) \/ ConfirmCommit(p) \/ ConfirmSucceed(p) \/ RevokeSessions(p)
    \/ EmailFind(p) \/ EmailFindUser(p) \/ EmailActivate(p)
    \/ StatusFind(p) \/ StatusSave(p)
    \/ EraseNothing(p) \/ EraseFind(p) \/ EraseRetire(p) \/ EraseSave(p)

Next == Tick \/ \E p \in Procs : Arrive(p) \/ Continue(p) \/ Fails(p)

Spec == Init /\ [][Next]_vars

-----------------------------------------------------------------------------
Statuses == {"none", "pending", "active", "suspended", "deleted"}

CredentialRows ==
    { c \in [pw : Passwords \union {NoPassword}, strong : BOOLEAN, fails : 0 .. MaxCalls,
             lockedUntil : Nat, history : Seq(Passwords \union {NoPassword})] :
        Len(c.history) <= HistoryDepth }

\* The tables hold rows of the entities' shape, no history is longer than its policy
\* allows (rotatePassword), only users that exist have a credential, and a call holds
\* copies of such rows.
TypeOK ==
    /\ now \in 1 .. MaxTime
    /\ status \in [Users -> Statuses]
    /\ DOMAIN credentials \subseteq {u \in Users : status[u] # "none"}
    /\ \A u \in DOMAIN credentials : credentials[u] \in CredentialRows
    /\ \A t \in DOMAIN links : links[t].user \in Users /\ links[t].purpose \in {"reset", "email"}
    /\ signedIn \in [Users -> SUBSET Passwords]
    /\ attempts \in [Replicas -> [Keys -> [failed : 0 .. MaxCalls, lockedUntil : Nat]]]
    /\ mailed \subseteq DOMAIN links
    /\ \A p \in Procs : op[p].row \in CredentialRows /\ op[p].retire \subseteq DOMAIN links

\* The password set by ChangePassword or ConfirmPasswordReset, when no other call for
\* the user was running, stays in force until a call begins that replaces it: no login
\* begun later, failed, succeeding or upgrading the hash, brings an older one back.
ChangeIsFinal ==
    \A u \in Users : chosen[u].pw # NoPassword => credentials[u].pw = chosen[u].pw

\* A reset that reported success left no session opened with another password
\* (ConfirmPasswordReset: "Revoking sessions is not cleanup").
ResetSignsOut ==
    \A u \in Users : chosen[u].reset => signedIn[u] \subseteq {chosen[u].pw}

\* A deletion HandleUserDeleted has handled, with no other call running, holds against
\* every later call: the user stays deleted, and one who had a password has neither a
\* hash nor a link that could set one.
DeletionIsFinal ==
    \A u \in erased :
      /\ status[u] = "deleted"
      /\ u \in DOMAIN credentials => /\ credentials[u].pw = NoPassword
                                     /\ Unconsumed(u, {"email", "reset"}) = {}

\* A redemption that begins when its link is already used or retired never gets as far
\* as the credential, whatever runs beside it.
LinkIsSingleUse ==
    \A p \in Procs : op[p].late =>
        op[p].pc \notin {"confirmCred", "confirmCommit", "confirmDone", "revoke"}

\* Issuing a link retires the outstanding ones: as long as no two calls of a user
\* overlap, at most one link of a purpose is unused.
OneLinkOutstanding ==
    overlaps = 0 => \A u \in Users, purpose \in {"email", "reset"} :
                     Cardinality(Unconsumed(u, {purpose})) <= 1

\* A link changes a password once, and of the links sent only the latest can: a used or
\* retired one is refused, and issuing one retires the rest.
LinksAreSingle == LinkIsSingleUse /\ OneLinkOutstanding

\* As long as no two calls of a user overlap, the password in force is not one of the
\* passwords its history keeps.
NoReuse ==
    overlaps = 0 => \A u \in DOMAIN credentials : ~IsInHistory(credentials[u], credentials[u].pw)

Ration(t) == Threshold * (1 + (t - 1) \div BaseDuration)

\* The two lockouts ration the guesses that get an answer: as long as no two calls of a
\* user overlap, Threshold of them per BaseDuration.  For a user with a password that
\* holds over all replicas, whose logins count on one row; for an address without one and
\* for a link it holds on each replica, whose memory BruteForcePolicy counts in.
GuessesAreRationed ==
    overlaps = 0 => /\ \A u \in Users : guesses[u] <= Ration(now)
                    /\ \A r \in Replicas, k \in Keys : tried[r][k] <= Ration(now)

\* "Re-hashing ... needs no transactional relationship to the read that preceded it"
\* (AuthenticateWithPassword): the upgrade about to be saved is one of the password in
\* force, and of nothing else.
UpgradeKeepsPassword ==
    \A p \in Procs : op[p].pc = "rehash" => credentials[op[p].user].pw = op[p].pw
=============================================================================
