------------------------------ MODULE MfaStore ------------------------------
(***************************************************************************)
(* Second factors and their repositories.  A factor is a MfaMethod: a TOTP *)
(* secret, a set of backup codes or the method behind a WebAuthn           *)
(* credential.  Two kinds of store are modelled.  The in-memory one, which *)
(* the composition root wires, hands out the stored object itself, so a    *)
(* change is visible to every holder at once, even after a delete.  The    *)
(* Prisma one hands out copies, and its table has no columns for lockout   *)
(* and replay state, so every load starts them afresh.  Time is counted in *)
(* TOTP steps.                                                             *)
(***************************************************************************)
EXTENDS LockoutPolicy, Sequences, FiniteSets

CONSTANTS Users,
          Devices,      \* WebAuthn credential ids
          CodeCount,    \* backup codes in a set
          ChallengeTtl,
          MaxMethods, MaxChallenges, MaxCounter, MaxTime   \* bounds

ASSUME MfaStoreAssumption ==
    {CodeCount, ChallengeTtl, MaxMethods, MaxChallenges, MaxCounter, MaxTime} \subseteq Nat

VARIABLES now,
          store,        \* "memory" or "prisma", fixed from the start
          methods,      \* by id: the object, or the row last written
          present,      \* ids a find returns
          credentials,  \* WebAuthn credentials by device
          challenges,   \* login and WebAuthn challenges, in order of creation
          sessions      \* by user: live sessions that a second factor opened

tables == <<store, methods, present, credentials, challenges, sessions>>

MethodIds == 1 .. MaxMethods
Codes     == 1 .. CodeCount
NoStep    == 0
Never     == 0

-----------------------------------------------------------------------------
(* MfaMethod                                                               *)

Method(user, type, codes) ==
    [user |-> user, type |-> type, status |-> "pending", codes |-> codes,
     fails |-> 0, lockedUntil |-> Never, lastStep |-> NoStep]

NoMethod == Method("none", "totp", {})

IsLockedAt(m, at) == at < m.lockedUntil

Activated(m) == [m EXCEPT !.status = "active", !.fails = 0, !.lockedUntil = Never]

WithSecret(m, codes) == [m EXCEPT !.codes = codes]

RecordFailedAttempt(m, at) ==
    LET n == m.fails + 1 IN
    [m EXCEPT !.fails = n,
              !.lockedUntil = IF n >= Threshold THEN at + LockDuration(n) ELSE Never]

RecordUse(m) == [m EXCEPT !.fails = 0, !.lockedUntil = Never]

\* Mutant of MayUseStep: the step used last is accepted again.
MayRepeatStep(m, step) == m.status = "active" /\ step >= m.lastStep

\* What recordTotpUse checks before it changes anything.
MayUseStep(m, step) == m.status = "active" /\ step > m.lastStep

RecordTotpUse(m, step) == [RecordUse(m) EXCEPT !.lastStep = step]

\* verifySync: the code of a step is good one step before and after its own.
InDriftWindow(step, at) == step # NoStep /\ step <= at + 1 /\ at <= step + 1

-----------------------------------------------------------------------------
(* The repositories                                                        *)

\* toDomain after toRow: what a row cannot hold is reset.
ToDomain(m) == IF store = "memory" THEN m
               ELSE [m EXCEPT !.fails = 0, !.lockedUntil = Never, !.lastStep = NoStep]

\* save: Map.set, or an upsert; either brings a deleted method back.
Save(id, m) ==
    /\ methods' = [methods EXCEPT ![id] = ToDomain(m)]
    /\ present' = present \union {id}

\* A save under a new id.
IsNew(id) == id \in MethodIds /\ id \notin DOMAIN methods /\ id - 1 \in {0} \union DOMAIN methods
Create(id, m) ==
    /\ IsNew(id)
    /\ methods' = [i \in DOMAIN methods \union {id} |-> IF i = id THEN m ELSE methods[i]]
    /\ present' = present \union {id}

MethodsOf(u) == {id \in present : methods[id].user = u}

ActiveOf(u, type) ==
    {id \in MethodsOf(u) : methods[id].status = "active" /\ methods[id].type = type}

\* delete: Prisma refuses an id that is not there, a Map does not care.
DeleteFails(id) == store = "prisma" /\ id \notin present

Drop(id) == present' = present \ {id}

Credential(user, id, counter) == [user |-> user, method |-> id, counter |-> counter]

SaveCredential(d, c) ==
    credentials' = [k \in DOMAIN credentials \union {d} |->
                      IF k = d THEN c ELSE credentials[k]]

Challenge(user, kind) ==
    [user |-> user, kind |-> kind, expires |-> now + ChallengeTtl, used |-> FALSE]

\* The two kinds of challenge differ in their last instant.
IsExpired(c, at) == IF c.kind = "login" THEN at >= c.expires ELSE at > c.expires

\* WebAuthnChallengeRepository.consume, which checks and marks in one step.
Unused(c) == ~challenges[c].used
MarkUsed(c) == challenges' = [challenges EXCEPT ![c].used = TRUE]

-----------------------------------------------------------------------------
\* Either nobody has enrolled yet, or one user has a factor of each kind.
StoreInit ==
    /\ now = 1
    /\ store \in {"memory", "prisma"}
    /\ \/ methods = << >> /\ credentials = << >>
       \/ \E u \in Users, d \in Devices, counter \in {0, 1} :
            /\ methods = << Activated(Method(u, "totp", {})),
                            Activated(Method(u, "backup_codes", Codes)),
                            Activated(Method(u, "webauthn", {})) >>
            /\ credentials = [k \in {d} |-> Credential(u, 3, counter)]
    /\ present = DOMAIN methods
    /\ challenges = << >>
    /\ sessions = [u \in Users |-> 0]

-----------------------------------------------------------------------------
(* MfaEnforcementPolicy.resolve.  An override is a record with a level or   *)
(* allowed methods, or neither; the most specific one that sets a knob wins. *)

AllMethods == {"totp", "webauthn", "backup_codes"}

Inherit(overrides, knob, default) ==
    LET setters == {i \in DOMAIN overrides : knob \in DOMAIN overrides[i]} IN
    IF setters = {} THEN default
    ELSE overrides[CHOOSE i \in setters : \A j \in setters : i <= j][knob]

\* overrides = <<user, role, organization, global>>, the most specific first.
Resolve(overrides, enrolled) ==
    LET level   == Inherit(overrides, "level", "optional")
        allowed == Inherit(overrides, "allowedMethods", AllMethods)
    IN  [level |-> level, allowedMethods |-> allowed,
         enrolledAllowed |-> enrolled \intersect allowed,
         blocked |-> level = "required" /\ enrolled \intersect allowed = {}]
=============================================================================
