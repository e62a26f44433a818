--------------------------------- MODULE Mfa ---------------------------------
(***************************************************************************)
(* The use cases of second factors on several processes: TOTP enrolment,   *)
(* confirmation and verification, backup codes, step-up, the exchange of a *)
(* login challenge for a session, the two WebAuthn ceremonies and the      *)
(* recovery of a user who lost every factor.  A step is what a call does   *)
(* between two awaits.                                                     *)
(***************************************************************************)
EXTENDS MfaStore

CONSTANTS Procs,
          StepUpAge,          \* lifetime of a step-up assertion
          MaxCalls, MaxFaults \* bounds

ASSUME MfaAssumption == {StepUpAge, MaxCalls, MaxFaults} \subseteq Nat

VARIABLES op,         \* the call each process is in, and the copies it holds
          calls, faults,
          assertions, \* by user: when the latest step-up assertion expires
          spent,      \* proofs whose use has to be their last
          twice,      \* members of spent that were accepted again
          cleared     \* methods a recovery removed that overlapped no call of the user

ghosts == <<spent, twice, cleared>>
vars == <<now, tables, op, calls, faults, assertions, ghosts>>

Idle == [pc |-> "idle", user |-> "none", alone |-> FALSE, stepUp |-> FALSE, id |-> 0,
         row |-> NoMethod, ok |-> FALSE, code |-> 0, codes |-> {}, at |-> 0, todo |-> {},
         device |-> "none", counter |-> 0, seen |-> 0]

Init ==
    /\ StoreInit
    /\ op = [p \in Procs |-> Idle]
    /\ calls = 0
    /\ faults = 0
    /\ assertions = [u \in Users |-> Never]
    /\ spent = {}
    /\ twice = {}
    /\ cleared = {}

-----------------------------------------------------------------------------
InCallFor(p, u) == op[p].pc # "idle" /\ op[p].user = u

Begin(p, call) ==
    /\ op[p].pc = "idle"
    /\ calls < MaxCalls
    /\ calls' = calls + 1
    /\ LET others == {q \in Procs : InCallFor(q, call.user)} IN
         op' = [q \in Procs |-> IF q = p THEN [call EXCEPT !.alone = others = {}]
                                ELSE IF q \in others THEN [op[q] EXCEPT !.alone = FALSE]
                                ELSE op[q]]
    /\ UNCHANGED <<now, tables, faults, assertions, ghosts>>

Call(pc, u) == [Idle EXCEPT !.pc = pc, !.user = u]

Goto(p, pc) == op' = [op EXCEPT ![p].pc = pc]
Return(p)   == op' = [op EXCEPT ![p] = Idle]

Reads  == UNCHANGED <<now, tables, calls, faults, assertions, ghosts>>
Writes == UNCHANGED <<now, store, credentials, challenges, sessions, calls, faults, assertions>>

\* The method a call works on: the shared object, or the copy it loaded.
Current(p) == IF store = "memory" THEN methods[op[p].id] ELSE op[p].row

\* The call goes on with a method it found.
Holding(p, pc, id) ==
    [op EXCEPT ![p].pc = pc, ![p].id = id, ![p].at = now,
               ![p].row = IF store = "memory" THEN NoMethod ELSE ToDomain(methods[id])]

\* A proof is accepted.  `last` says whether no later call may present it again.
Accept(proof, last) ==
    /\ spent' = IF last THEN spent \union {proof} ELSE spent
    /\ twice' = IF proof \in spent THEN twice \union {proof} ELSE twice
    /\ UNCHANGED cleared

-----------------------------------------------------------------------------
(* EnrollTotp, ConfirmTotpEnrollment, VerifyTotpChallenge                  *)

EnrollTotp(p, u) == Begin(p, Call("enrollSave", u))

EnrollSave(p) ==
    /\ op[p].pc = "enrollSave"
    /\ \E id \in MethodIds : Create(id, Method(op[p].user, "totp", {}))
    /\ Return(p)
    /\ Writes
    /\ UNCHANGED ghosts

\* A code is named by its step; NoStep stands for a wrong one.
TotpCall(pc, id, step) == [Call(pc, methods[id].user) EXCEPT !.id = id, !.code = step]

Presentable == {NoStep} \union {s \in 1 .. MaxTime : InDriftWindow(s, now)}

ConfirmTotpEnrollment(p) ==
    \E id \in DOMAIN methods, step \in Presentable :
        methods[id].type = "totp" /\ Begin(p, TotpCall("confirmFind", id, step))

VerifyTotpChallenge(p) ==
    \E id \in DOMAIN methods, step \in Presentable :
        methods[id].type = "totp" /\ Begin(p, TotpCall("totpFind", id, step))

\* findById, the checks on what it returned, and the comparison of the code.
TotpFind(p) ==
    /\ op[p].pc \in {"confirmFind", "totpFind"}
    /\ LET id     == op[p].id
           wanted == IF op[p].pc = "totpFind" THEN "active" ELSE "pending"
           next   == IF op[p].pc = "totpFind" THEN "totpRecord" ELSE "confirmRecord"
       IN  IF /\ id \in present
              /\ methods[id].status = wanted
              /\ ~IsLockedAt(methods[id], now)
           THEN op' = [Holding(p, next, id) EXCEPT ![p].ok = InDriftWindow(op[p].code, now)]
           ELSE Return(p)
    /\ Reads

\* activate() throws when another confirmation of the shared object came first.
ConfirmRecord(p) ==
    /\ op[p].pc = "confirmRecord"
    /\ IF op[p].ok /\ Current(p).status = "active"
       THEN UNCHANGED <<methods, present>>
       ELSE Save(op[p].id, IF op[p].ok THEN Activated(Current(p))
                           ELSE RecordFailedAttempt(Current(p), op[p].at))
    /\ Return(p)
    /\ Writes
    /\ UNCHANGED ghosts

\* What a verification does once its proof is accepted.
Accepted(p) == IF op[p].stepUp THEN Goto(p, "assert") ELSE Return(p)

TotpAccept(p) ==
    /\ op[p].pc = "totpRecord"
    /\ op[p].ok
    /\ MayUseStep(Current(p), op[p].code)
    /\ Save(op[p].id, RecordTotpUse(Current(p), op[p].code))
    /\ Accept(<<"totp", op[p].id, op[p].code>>, store = "memory")
    /\ Accepted(p)
    /\ Writes

\* A wrong code, or one whose step is used up.
TotpReject(p) ==
    /\ op[p].pc = "totpRecord"
    /\ ~(op[p].ok /\ MayUseStep(Current(p), op[p].code))
    /\ Save(op[p].id, RecordFailedAttempt(Current(p), op[p].at))
    /\ Return(p)
    /\ Writes
    /\ UNCHANGED ghosts

-----------------------------------------------------------------------------
(* GenerateBackupCodes, ConsumeBackupCode                                  *)

\* A code is named by the set it was generated in and its place there.
BackupCall(id, code) ==
    [Call("backupFind", methods[id].user) EXCEPT !.seen = id, !.code = code]

ConsumeBackupCode(p) ==
    \E id \in DOMAIN methods, code \in Codes :
        methods[id].type = "backup_codes" /\ Begin(p, BackupCall(id, code))

\* The hashes are parsed here, before the slow comparisons, and spliced after them.
BackupFind(p) ==
    /\ op[p].pc = "backupFind"
    /\ \/ /\ ActiveOf(op[p].user, "backup_codes") = {}
          /\ Return(p)
       \/ \E id \in ActiveOf(op[p].user, "backup_codes") :
            IF id = op[p].seen /\ op[p].code \in methods[id].codes
            THEN op' = [Holding(p, "backupSave", id) EXCEPT
                          ![p].codes = methods[id].codes \ {op[p].code}]
            ELSE Return(p)
    /\ Reads

BackupSave(p) ==
    /\ op[p].pc = "backupSave"
    /\ Save(op[p].id, WithSecret(Current(p), op[p].codes))
    /\ Accept(<<"backup", op[p].id, op[p].code>>, op[p].alone)
    /\ Accepted(p)
    /\ Writes

GenerateBackupCodes(p, u) == Begin(p, Call("generateFind", u))

GenerateFind(p) ==
    /\ op[p].pc = "generateFind"
    /\ op' = [op EXCEPT ![p].pc = "generateDelete",
                        ![p].todo = ActiveOf(op[p].user, "backup_codes")]
    /\ Reads

\* GenerateBackupCodes and RecoverMfaAccess delete what they listed, one by one in
\* the order of the list, which is that of creation.
DeleteListed(p) ==
    /\ op[p].pc \in {"generateDelete", "recoverDelete"}
    /\ \E id \in op[p].todo :
         /\ \A other \in op[p].todo : id <= other
         /\ \/ DeleteFails(id) /\ Return(p) /\ UNCHANGED present
            \/ ~DeleteFails(id) /\ Drop(id) /\ op' = [op EXCEPT ![p].todo = @ \ {id}]
    /\ Writes
    /\ UNCHANGED <<methods, ghosts>>

GenerateSave(p) ==
    /\ op[p].pc = "generateDelete" /\ op[p].todo = {}
    /\ \E id \in MethodIds : Create(id, Activated(Method(op[p].user, "backup_codes", Codes)))
    /\ Return(p)
    /\ Writes
    /\ UNCHANGED ghosts

-----------------------------------------------------------------------------
(* StepUpAuthentication                                                    *)

StepUpTotp(p) ==
    \E u \in Users, id \in DOMAIN methods, step \in Presentable :
        /\ methods[id].type = "totp"
        /\ Begin(p, [TotpCall("stepUpFind", id, step) EXCEPT !.user = u, !.stepUp = TRUE])

StepUpBackup(p) ==
    \E id \in DOMAIN methods, code \in Codes :
        /\ methods[id].type = "backup_codes"
        /\ Begin(p, [BackupCall(id, code) EXCEPT !.stepUp = TRUE])

\* The method must be the caller's own.
StepUpFind(p) ==
    /\ op[p].pc = "stepUpFind"
    /\ IF op[p].id \in ActiveOf(op[p].user, "totp") THEN Goto(p, "totpFind") ELSE Return(p)
    /\ Reads

RecordAssertion(p) ==
    /\ op[p].pc = "assert"
    /\ assertions' = [assertions EXCEPT ![op[p].user] = now + StepUpAge]
    /\ Return(p)
    /\ UNCHANGED <<now, tables, calls, faults, ghosts>>

-----------------------------------------------------------------------------
(* Challenges: MfaChallenge.create, the two issueChallenge operations, and *)
(* ConsumeMfaChallenge                                                     *)

IssueChallenge(u) ==
    /\ calls < MaxCalls
    /\ calls' = calls + 1
    /\ Len(challenges) < MaxChallenges
    /\ \E kind \in {"login", "registration", "authentication"} :
         challenges' = Append(challenges, Challenge(u, kind))
    /\ UNCHANGED <<now, store, methods, present, credentials, sessions, op, faults,
                   assertions, ghosts>>

\* The checks every consumer of a challenge makes on what it read.
Redeemable(c, u, kind) ==
    /\ challenges[c].user = u
    /\ challenges[c].kind = kind
    /\ ~IsExpired(challenges[c], now)
    /\ ~challenges[c].used

\* The issued session is for the user the caller names with the challenge.
ConsumeMfaChallenge(p) ==
    \E c \in DOMAIN challenges :
        /\ challenges[c].kind = "login"
        /\ Begin(p, [Call("loginFind", challenges[c].user) EXCEPT !.seen = c])

LoginFind(p) ==
    /\ op[p].pc = "loginFind"
    /\ IF Redeemable(op[p].seen, op[p].user, "login") THEN Goto(p, "loginSave") ELSE Return(p)
    /\ Reads

LoginSave(p) ==
    /\ op[p].pc = "loginSave"
    /\ MarkUsed(op[p].seen)
    /\ Goto(p, "loginIssue")
    /\ UNCHANGED <<now, store, methods, present, credentials, sessions, calls, faults,
                   assertions, ghosts>>

LoginIssue(p) ==
    /\ op[p].pc = "loginIssue"
    /\ sessions' = [sessions EXCEPT ![op[p].user] = @ + 1]
    /\ Accept(<<"login", op[p].seen, 0>>, op[p].alone)
    /\ Return(p)
    /\ UNCHANGED <<now, store, methods, present, credentials, challenges, calls, faults,
                   assertions>>

-----------------------------------------------------------------------------
(* RegisterWebAuthnCredential, VerifyWebAuthnAssertion                     *)

\* The signature counter is the authenticator's; a clone may present an old one.
Ceremony(p, pc, kind) ==
    \E u \in Users, c \in DOMAIN challenges, d \in Devices, counter \in 0 .. MaxCounter :
        /\ challenges[c].kind = kind
        /\ Begin(p, [Call(pc, u) EXCEPT !.seen = c, !.device = d, !.counter = counter])

RegisterWebAuthnCredential(p) == Ceremony(p, "registerFind", "registration")
VerifyWebAuthnAssertion(p)    == Ceremony(p, "assertFind", "authentication")

CeremonyFind(p) ==
    /\ \/ /\ op[p].pc = "registerFind"
          /\ IF Redeemable(op[p].seen, op[p].user, "registration")
             THEN Goto(p, "registerConsume") ELSE Return(p)
       \/ /\ op[p].pc = "assertFind"
          /\ IF Redeemable(op[p].seen, op[p].user, "authentication")
             THEN Goto(p, "assertConsume") ELSE Return(p)
    /\ Reads

CeremonyConsume(p) ==
    /\ op[p].pc \in {"registerConsume", "assertConsume"}
    /\ IF Unused(op[p].seen)
       THEN /\ MarkUsed(op[p].seen)
            /\ Goto(p, IF op[p].pc = "assertConsume" THEN "assertRead" ELSE "registerCheck")
       ELSE Return(p) /\ UNCHANGED challenges
    /\ UNCHANGED <<now, store, methods, present, credentials, sessions, calls, faults,
                   assertions, ghosts>>

\* The attestation verifier says yes or no; a known device is refused.
RegisterCheck(p) ==
    /\ op[p].pc = "registerCheck"
    /\ \/ Return(p)
       \/ op[p].device \notin DOMAIN credentials /\ Goto(p, "registerMethod")
    /\ Reads

RegisterMethod(p) ==
    /\ op[p].pc = "registerMethod"
    /\ \E id \in MethodIds :
         /\ Create(id, Activated(Method(op[p].user, "webauthn", {})))
         /\ op' = [op EXCEPT ![p].pc = "registerSave", ![p].id = id]
    /\ Writes
    /\ UNCHANGED ghosts

RegisterSave(p) ==
    /\ op[p].pc = "registerSave"
    /\ SaveCredential(op[p].device, Credential(op[p].user, op[p].id, op[p].counter))
    /\ Accept(<<"webauthn", op[p].seen, 0>>, TRUE)
    /\ Return(p)
    /\ UNCHANGED <<now, store, methods, present, challenges, sessions, calls, faults, assertions>>

\* Credential and method are read, and the verifier says yes or no.
AssertRead(p) ==
    /\ op[p].pc = "assertRead"
    /\ \/ Return(p)
       \/ LET d == op[p].device IN
          /\ d \in DOMAIN credentials
          /\ credentials[d].user = op[p].user
          /\ credentials[d].method \in present
          /\ ~IsLockedAt(methods[credentials[d].method], now)
          /\ \E valid \in BOOLEAN :
               op' = [Holding(p, "assertRecord", credentials[d].method) EXCEPT
                        ![p].ok = valid, ![p].codes = {credentials[d].counter}]
    /\ Reads

\* Mutant of Advances: no clone detection.
AnyCounter(read, presented) == TRUE

\* Clone detection: a counter in use has to grow.
Advances(read, presented) == read = 0 \/ presented > read

ReadCounter(p) == CHOOSE n \in op[p].codes : TRUE

AssertAccept(p) ==
    /\ op[p].pc = "assertRecord"
    /\ op[p].ok /\ Advances(ReadCounter(p), op[p].counter)
    /\ SaveCredential(op[p].device, Credential(op[p].user, op[p].id, op[p].counter))
    /\ Goto(p, "assertUse")
    /\ UNCHANGED <<now, store, methods, present, challenges, sessions, calls, faults,
                   assertions, ghosts>>

AssertUse(p) ==
    /\ op[p].pc = "assertUse"
    /\ Save(op[p].id, RecordUse(Current(p)))
    /\ Accept(<<"webauthn", op[p].seen, 0>>, TRUE)
    /\ Return(p)
    /\ Writes

AssertReject(p) ==
    /\ op[p].pc = "assertRecord"
    /\ ~(op[p].ok /\ Advances(ReadCounter(p), op[p].counter))
    /\ Save(op[p].id, RecordFailedAttempt(Current(p), op[p].at))
    /\ Return(p)
    /\ Writes
    /\ UNCHANGED ghosts

-----------------------------------------------------------------------------
(* RecoverMfaAccess.  The actor is another user, whom the authorizer lets. *)

RecoverMfaAccess(p, u) == Users \ {u} # {} /\ Begin(p, Call("recoverFind", u))

\* Mutant of ToClear: only what is active is cleared.
ActiveOnly(u) == {id \in MethodsOf(u) : methods[id].status = "active"}

ToClear(u) == MethodsOf(u)

RecoverFind(p) ==
    /\ op[p].pc = "recoverFind"
    /\ op' = [op EXCEPT ![p].pc = "recoverDelete", ![p].todo = ToClear(op[p].user)]
    /\ Reads

RecoverRevoke(p) ==
    /\ op[p].pc = "recoverDelete" /\ op[p].todo = {}
    /\ sessions' = [sessions EXCEPT ![op[p].user] = 0]
    /\ cleared' = IF op[p].alone
                  THEN cleared \union {id \in DOMAIN methods : methods[id].user = op[p].user}
                  ELSE cleared
    /\ Return(p)
    /\ UNCHANGED <<now, store, methods, present, credentials, challenges, calls, faults,
                   assertions, spent, twice>>

-----------------------------------------------------------------------------
\* An awaited statement, hash or audit record fails, and the call with it.
Fails(p) ==
    /\ op[p].pc # "idle"
    /\ faults < MaxFaults
    /\ faults' = faults + 1
    /\ Return(p)
    /\ UNCHANGED <<now, tables, calls, assertions, ghosts>>

Tick ==
    /\ now < MaxTime
    /\ now' = now + 1
    /\ UNCHANGED <<tables, op, calls, faults, assertions, ghosts>>

Arrive(p) ==
    \/ \E u \in Users : EnrollTotp(p, u)
    \/ ConfirmTotpEnrollment(p) \/ VerifyTotpChallenge(p)
    \/ ConsumeBackupCode(p) \/ \E u \in Users : GenerateBackupCodes(p, u)
    \/ StepUpTotp(p) \/ StepUpBackup(p)
    \/ ConsumeMfaChallenge(p)
    \/ RegisterWebAuthnCredential(p) \/ VerifyWebAuthnAssertion(p)
    \/ \E u \in Users : RecoverMfaAccess(p, u)

Continue(p) ==
    \/ EnrollSave(p) \/ TotpFind(p) \/ ConfirmRecord(p) \/ TotpAccept(p) \/ TotpReject(p)
    \/ BackupFind(p) \/ BackupSave(p)
    \/ GenerateFind(p) \/ DeleteListed(p) \/ GenerateSave(p)
    \/ StepUpFind(p) \/ RecordAssertion(p)
    \/ LoginFind(p) \/ LoginSave(p) \/ LoginIssue(p)
    \/ CeremonyFind(p) \/ CeremonyConsume(p)
    \/ RegisterCheck(p) \/ RegisterMethod(p) \/ RegisterSave(p)
    \/ AssertRead(p) \/ AssertAccept(p) \/ AssertUse(p) \/ AssertReject(p)
    \/ RecoverFind(p) \/ RecoverRevoke(p)

Next ==
    \/ \E p \in Procs : Arrive(p) \/ Continue(p) \/ Fails(p)
    \/ \E u \in Users : IssueChallenge(u)
    \/ Tick

Spec == Init /\ [][Next]_vars

-----------------------------------------------------------------------------
(* Every proof is good once: a TOTP step (recordTotpUse), a backup code     *)
(* (the spliced list), a login challenge (consume) and a WebAuthn challenge *)
(* (the repository's consume).  TOTP steps and WebAuthn challenges stay     *)
(* used however calls overlap, the first only while the store keeps         *)
(* lastUsedStep; a backup code or login challenge does once a call that     *)
(* overlapped no other of its user has used it, whatever overlaps later.    *)
ProofsAreSingleUse == twice = {}

(* A recovery that overlapped no other call of the user is final: no method *)
(* it removed, pending ones included, is ever saved back by a later call,   *)
(* and until the user enrols again a policy that requires a second factor   *)
(* blocks the login (RecoverMfaAccess, MfaEnforcementPolicy).               *)
RecoveryIsFinal ==
    /\ present \intersect cleared = {}
    /\ \A u \in Users :
         {id \in DOMAIN methods : methods[id].user = u} \subseteq cleared =>
           Resolve(<<[level |-> "required"]>>, {methods[id].type : id \in MethodsOf(u)}).blocked

(* While a device keeps its owner, its stored signature counter only falls   *)
(* in a step of a call that overlapped another of the same user: otherwise   *)
(* an authenticator with an older counter is refused as a clone              *)
(* (VerifyWebAuthnAssertion).  Another user who registers the same           *)
(* credential id at the same time takes it over, counter and all.            *)
CounterNeverFalls ==
    [][\A d \in DOMAIN credentials :
         credentials'[d].user = credentials[d].user /\ credentials'[d].counter < credentials[d].counter =>
           \E p \in Procs : op[p].device = d /\ ~op[p].alone /\ op'[p] # op[p]]_vars
=============================================================================
