------------------------------ MODULE ApiServer ------------------------------
(***************************************************************************)
(* apps/api: a request on its way through the server's hooks.  onRequest   *)
(* counts it against its window and authenticates its API key, preHandler  *)
(* looks its idempotency key up, the route's handler runs, and onSend      *)
(* keeps the answer.  Every call of a store is a point where other         *)
(* requests run and where the process may end.                             *)
(*                                                                         *)
(* What a handler does is a module of its own (Credentials for             *)
(* /auth/register, Authorization for /admin); here it creates the subject  *)
(* its request names, or finds that it is there.                           *)
(***************************************************************************)
EXTENDS RequestGuards, Organizations

CONSTANTS Procs,            \* requests being served at a time
          Excluded,         \* routes that need no API key
          Existing,         \* subjects that may exist from the start
          Watched,          \* windows whose requests' outcomes are followed (for the properties)
          Workloads,        \* what goes on in one behaviour: the requests that are sent, whether keys and
                            \* organizations are managed, and whether apiKeyAuth is registered as optional
          MaxFaults

ASSUME ServerAssumption ==
    /\ MaxFaults \in Nat
    /\ Watched \subseteq Windows
    /\ Workloads \subseteq [requests : SUBSET Requests, keys : BOOLEAN, organizations : BOOLEAN,
                            optional : BOOLEAN]

VARIABLES op,           \* the request each process of Procs is serving
          created,      \* the subjects there are, by the fingerprint of the request that creates them
          workload,     \* (fixed)
          faults,
          verdict,      \* what became of the latest request in each watched window (for the properties)
          answers,      \* the answers below 500 given for each key not excused (for the properties)
          excused       \* keys whose promise the code does not keep (for the properties)

history == <<verdict, answers, excused>>
vars == <<guards, tables, op, created, workload, faults, history>>

Idle == [pc |-> "idle"]

Init ==
    /\ GuardInit
    /\ OrganizationInit
    /\ op = [p \in Procs |-> Idle]
    /\ created \in SUBSET Existing
    /\ workload \in Workloads
    /\ faults = 0
    /\ verdict = [w \in Watched |-> "refused"]
    /\ answers = [k \in Keys |-> {}]
    /\ excused = {}

Goto(p, c) == op' = [op EXCEPT ![p] = c]
At(p, pc) == op[p].pc = pc
Request(p) == op[p].r

\* A call of a store that may fail, at the cost of one fault.
Goes(well) ==
    /\ well \/ faults < MaxFaults
    /\ faults' = IF well THEN faults ELSE faults + 1

Judge(w, v) == verdict' = IF w \in Watched THEN [verdict EXCEPT ![w] = v] ELSE verdict
\* The answers to a key that is excused no longer matter.
Settle(k, why, given) ==
    /\ excused' = IF why /\ k # NoKey THEN excused \union {k} ELSE excused
    /\ answers' = [j \in Keys |-> IF j \in excused' THEN {}
                                  ELSE IF j = k THEN answers[j] \union given ELSE answers[j]]

Created  == 201
Conflict == 409
Response(status, hash) == [status |-> status, about |-> hash]

-----------------------------------------------------------------------------
(* onRequest: the rate limit                                               *)

Row(c) == IF c = Anonymous THEN NoApiKey ELSE apiKey[c]

\* `presented` is the row of the caller's API key by now.  Where there is none, the caller
\* presents no key or one that was never issued: keys are random, so a key that is created
\* later is another.
Arrive(p, r, count, arm) ==
    /\ At(p, "idle")
    /\ r \in workload.requests
    /\ Goto(p, [pc |-> "counted", r |-> r, presented |-> Row(r.caller), principal |-> Anonymous,
                count |-> count, arm |-> arm])
    /\ Judge(WindowOf(r), "pending")
    /\ UNCHANGED <<redis, apiKey, record, tables, created, workload, answers, excused>>

Consume(p, r) ==
    LET w == WindowOf(r)
        count == Counted(counter[w].count)
    IN
    /\ redis
    /\ Increment(w)
    /\ Arrive(p, r, count, NeedsExpiry(count, counter[w].expires))
    /\ UNCHANGED <<local, faults>>

\* No Redis, or a command of the transaction that failed: the count in memory decides.
ConsumeLocally(p, r) ==
    /\ Goes(~redis)
    /\ CountLocally(WindowOf(r))
    /\ Arrive(p, r, Counted(local[WindowOf(r)]), FALSE)
    /\ UNCHANGED counter

\* A request on its way, as its principal's or as nobody's.
Passing(c, pc, principal) ==
    [pc |-> pc, r |-> c.r, presented |-> c.presented, principal |-> principal]

\* On to the API key (excluded paths need none), or 429.
Decide(p) ==
    LET c == op[p]
        w == WindowOf(c.r)
    IN
    /\ At(p, "counted")
    /\ IF c.arm THEN Arm(w) ELSE UNCHANGED counter
    /\ IF Allowed(c.count)
       THEN /\ Goto(p, Passing(c, IF c.r.route \in Excluded THEN "lookup" ELSE "authenticate", Anonymous))
            /\ Judge(w, "passed")
       ELSE /\ Goto(p, Idle)
            /\ Judge(w, "refused")
    /\ UNCHANGED <<redis, local, apiKey, record, tables, created, workload, faults, answers, excused>>

\* The reply to the count, or the call that arms the counter, is lost: a 500, and the counter
\* stays as it is.
ConsumeFails(p) ==
    /\ At(p, "counted")
    /\ redis
    /\ Goes(FALSE)
    /\ Goto(p, Idle)
    /\ Judge(WindowOf(Request(p)), "refused")
    /\ UNCHANGED <<guards, tables, created, workload, answers, excused>>

-----------------------------------------------------------------------------
(* onRequest: the API key                                                  *)

Untouched == UNCHANGED <<guards, tables, created, workload, history>>

\* The key is that of a row, and the row is active.
Valid(c) ==
    LET row == Row(c.r.caller)
    IN  c.presented # NoApiKey /\ IsActive(row.status, row.lapsed)

\* Without a key the request goes on as nobody's where the plugin is optional, and is a 401
\* elsewhere; a key that is presented has to be valid.  Nothing is written between the look-up
\* and the judgement, so they are one step.
Authenticate(p) ==
    LET c == op[p] IN
    /\ At(p, "authenticate")
    /\ \/ /\ c.r.caller = Anonymous /\ workload.optional
          /\ Goto(p, Passing(c, "lookup", Anonymous))
       \/ /\ c.r.caller # Anonymous /\ Valid(c)
          /\ Goto(p, Passing(c, "lookup", c.r.caller))
       \/ /\ IF c.r.caller = Anonymous THEN ~workload.optional ELSE ~Valid(c)
          /\ Goto(p, Idle)
    /\ UNCHANGED faults
    /\ Untouched

-----------------------------------------------------------------------------
(* preHandler, the handler, and onSend                                     *)

Handling(k) == {p \in Procs : op[p].pc \in {"handle", "send"} /\ op[p].r.key = k}

Answering(c, response) ==
    [pc |-> "send", r |-> c.r, presented |-> c.presented, principal |-> c.principal, response |-> response]

\* Without a key the handler runs.  With one, its record is replayed, refuses a different
\* request, or is not there.  That another request with the key is still being handled goes
\* unnoticed, and the refusal is an answer like any other, which onSend keeps.
LookUp(p) ==
    LET c == op[p]
        k == c.r.key
    IN
    /\ At(p, "lookup")
    /\ IF k = NoKey \/ record[k] = NoRecord
       THEN /\ Goto(p, [c EXCEPT !.pc = "handle"])
            /\ Settle(k, Handling(k) # {}, {})
       ELSE IF record[k].hash # HashRequest(c.r)
       THEN /\ Goto(p, Answering(c, Response(Conflict, HashRequest(c.r))))
            /\ Settle(k, TRUE, {})
       ELSE /\ Goto(p, Idle)
            /\ Settle(k, FALSE, {record[k].response})
    /\ UNCHANGED <<guards, tables, created, workload, faults, verdict>>

\* The store of the records cannot be read: a 500 before anything happened.
LookUpFails(p) ==
    /\ At(p, "lookup")
    /\ Request(p).key # NoKey
    /\ Goes(FALSE)
    /\ Goto(p, Idle)
    /\ Untouched

\* The use case behind the route, and the audit record, which never fails a request.
Handle(p) ==
    LET c == op[p]
        hash == HashRequest(c.r)
        status == IF hash \in created THEN Conflict ELSE Created
    IN
    /\ At(p, "handle")
    /\ created' = created \union {hash}
    /\ Goto(p, Answering(c, Response(status, hash)))
    /\ UNCHANGED <<guards, tables, workload, faults, history>>

\* An unexpected error: the use case's transaction is rolled back and a 500 is sent, which
\* is not kept.
HandlerFails(p) ==
    /\ At(p, "handle")
    /\ Goes(FALSE)
    /\ Goto(p, Idle)
    /\ Untouched

\* onSend.  An answer that cannot be kept is not given either, whatever has been done.
Send(p) ==
    LET c == op[p]
        k == c.r.key
        keeps == k # NoKey /\ WorthKeeping(c.response.status)
    IN
    /\ At(p, "send")
    /\ \E stored \in BOOLEAN :
         /\ Goes(stored)
         /\ stored \/ keeps
         /\ IF stored /\ keeps THEN Keep(k, HashRequest(c.r), c.response) ELSE UNCHANGED record
         /\ Settle(k, ~stored, IF stored THEN {c.response} ELSE {})
    /\ Goto(p, Idle)
    /\ UNCHANGED <<redis, counter, local, apiKey, tables, created, workload, verdict>>

-----------------------------------------------------------------------------
(* Surroundings                                                            *)

\* The subject is deleted or decided, so that it can be created again.
Release(subject) ==
    /\ created' = created \ {subject}
    /\ UNCHANGED <<guards, tables, op, workload, faults, history>>

\* After its time a key stands for a fresh operation.
Forget(k) ==
    /\ RecordExpires(k)
    /\ Settle(k, TRUE, {})
    /\ UNCHANGED <<tables, op, created, workload, faults, verdict>>

Elapse(w) ==
    /\ WindowPasses(w)
    /\ UNCHANGED <<tables, op, created, workload, faults, history>>

ManageKey(c) ==
    /\ workload.keys
    /\ CreateKey(c) \/ Revoke(c) \/ Lapse(c)
    /\ UNCHANGED <<tables, op, created, workload, faults, history>>

\* A step of the administration of organizations, at the cost of `cost` faults.
Administers(cost) ==
    /\ workload.organizations
    /\ faults + cost <= MaxFaults
    /\ faults' = faults + cost
    /\ UNCHANGED <<guards, op, created, workload, history>>

\* The process ends; what it was serving gets no answer, and transactions are rolled back.
Crash ==
    /\ Goes(FALSE)
    /\ GuardRestart
    /\ op' = [p \in Procs |-> Idle]
    /\ excused' = excused \union {k \in Keys : Handling(k) # {} \/ record'[k] # record[k]}
    /\ answers' = [k \in Keys |-> IF k \in excused' THEN {} ELSE answers[k]]
    /\ tx' = [p \in Clerks |-> NoTx]
    /\ UNCHANGED <<rows, lastId, created, workload, verdict>>

-----------------------------------------------------------------------------
Serve(p) ==
    \/ Decide(p) \/ ConsumeFails(p) \/ Authenticate(p)
    \/ LookUp(p) \/ LookUpFails(p) \/ Handle(p) \/ HandlerFails(p) \/ Send(p)

Requesting ==
    \/ \E p \in Procs, r \in Requests : Consume(p, r) \/ ConsumeLocally(p, r)
    \/ \E subject \in created : Release(subject)
    \/ \E k \in Keys : Forget(k)
    \/ \E c \in Callers : ManageKey(c)

Administration ==
    \/ \E p \in Clerks, slug \in Slugs, owner \in Users : CreateOrganization(p, slug, owner) /\ Administers(0)
    \/ \E p \in Clerks : InsertOrganization(p) /\ Administers(0)
    \/ \E p \in Clerks : InsertMembership(p) /\ Administers(0)
    \/ \E p \in Clerks : Commit(p) /\ Administers(0)
    \/ \E p \in Clerks : Abort(p) /\ Administers(1)
    \/ \E o \in organizations, by \in Users : Invite(o, by) /\ Administers(0)

Next ==
    \/ Requesting
    \/ \E p \in Procs : Serve(p)
    \/ \E w \in Windows : Elapse(w)
    \/ Crash
    \/ Administration

Spec == Init /\ [][Next]_vars

\* A request that is being served goes on, and time passes.
FairSpec ==
    /\ Spec
    /\ \A p \in Procs : WF_vars(Serve(p))
    /\ \A w \in Windows : WF_vars(Elapse(w))

-----------------------------------------------------------------------------
(* Properties                                                              *)

\* An idempotency key gets one answer: however often the request is sent again, with answers
\* and processes lost in between, whatever gets past the API key and is answered below 500 gets
\* the first such answer, even when that was a refusal.  Excused is a key used by two requests
\* at once, used for another request, past its time, or whose answer was lost before it was kept.
OneAnswerPerKey == \A k \in Keys \ excused : Cardinality(answers[k]) <= 1

\* What goes on with a principal presented a key of that principal that was issued and live when
\* it arrived, although keys are created, revoked and lapse while the request waits at the
\* limiter.  What goes on without one is a request for an excluded path, or one that presented
\* no key where the plugin is optional.
Admitted(c) ==
    IF c.principal = Anonymous
    THEN c.r.route \in Excluded \/ (c.r.caller = Anonymous /\ workload.optional)
    ELSE c.principal = c.r.caller /\ c.presented = NewApiKey

\* Only those reach the records or a handler.
OnlyTheLiving == \A p \in Procs : op[p].pc \in {"lookup", "handle", "send"} => Admitted(op[p])

\* What a request through the hooks can count on: one answer for its idempotency key, and that
\* nothing is done for a key that had ended or did not exist when it arrived.

AnswersAreEarned == OneAnswerPerKey /\ OnlyTheLiving

\* A client that keeps asking is let through again and again: no crash or failure between the
\* two calls that count a request and arm the counter leaves a window that never ends.
RetriesGetThrough ==
    \A w \in Watched :
        []<>(verdict[w] = "pending") /\ []<>(verdict[w] # "pending") => []<>(verdict[w] = "passed")

\* An organization that can be seen has its owner as a member, its slug is its own, and its
\* invitations are to something that exists, although two clerks may take the same slug at
\* once and a process may end between the two inserts.
OrganizationsAreWhole ==
    /\ \A o \in organizations : NewMembership(o) \in memberships
    /\ \A o1, o2 \in organizations : o1.slug = o2.slug => o1 = o2
    /\ \A i \in invitations : \E o \in organizations : o.id = i.organizationId
=============================================================================
