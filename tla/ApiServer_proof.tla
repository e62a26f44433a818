--------------------------- MODULE ApiServer_proof ---------------------------
(***************************************************************************)
(* Two invariants, for any number of processes, clerks, callers and        *)
(* requests.  First organizations are whole: a proof about the             *)
(* transactions of CreateOrganization.  Then answers are earned: a proof   *)
(* about what the hooks of a request know of its key.                      *)
(***************************************************************************)
EXTENDS ApiServer, FiniteSetTheorems, TLAPS

Orgs    == [id : Nat, slug : Slugs, ownerId : Users]
Members == [organizationId : Nat, userId : Users]
Writing == {"membership", "commit"}     \* where a transaction holds its slug
Tx      == [pc : {"none"}, orgs : {{}}, members : {{}}]
           \union [pc : {"organization"} \union Writing, orgs : SUBSET Orgs,
                   members : SUBSET Members, org : Orgs]

TableTypeOK ==
    /\ organizations \subseteq Orgs
    /\ memberships \subseteq Members
    /\ lastId \in Nat
    /\ tx \in [Clerks -> Tx]

\* What a transaction holds: nothing before its first insert, then its organization, whose
\* slug no committed row has, and last the membership of its owner.
TxHolds(p) ==
    /\ tx[p].pc \notin Writing => tx[p].orgs = {} /\ tx[p].members = {}
    /\ tx[p].pc \in Writing => tx[p].orgs = {tx[p].org} /\ ~ExistsBySlug(tx[p].org.slug)
    /\ tx[p].pc = "membership" => tx[p].members = {}
    /\ tx[p].pc = "commit" => tx[p].members = {NewMembership(tx[p].org)}

\* An insert waits for the transaction that holds its slug.
SlugsHeldOnce ==
    \A p, q \in Clerks :
        tx[p].pc \in Writing /\ tx[q].pc \in Writing /\ tx[p].org.slug = tx[q].org.slug => p = q

IInv == TableTypeOK /\ (\A p \in Clerks : TxHolds(p)) /\ SlugsHeldOnce /\ OrganizationsAreWhole

-----------------------------------------------------------------------------
\* A new server has no organization and no transaction (OrganizationInit).
LEMMA InitHolds == Init => IInv
  BY DEF Init, OrganizationInit, IInv, TableTypeOK, TxHolds, SlugsHeldOnce, OrganizationsAreWhole,
         Tx, NoTx, Writing

\* A step that changes no table keeps the invariant.
LEMMA TablesAlone == IInv /\ UNCHANGED tables => IInv'
  BY DEF IInv, TableTypeOK, TxHolds, SlugsHeldOnce, OrganizationsAreWhole, ExistsBySlug, NewMembership,
         tables, rows

\* Abort, Crash and a slug that is taken only roll transactions back.
LEMMA RollBackKeeps ==
    ASSUME IInv, UNCHANGED <<rows, lastId>>, tx' \in [Clerks -> Tx],
           \A p \in Clerks : tx'[p] = tx[p] \/ tx'[p] = NoTx
    PROVE  IInv'
  BY DEF IInv, TableTypeOK, TxHolds, SlugsHeldOnce, OrganizationsAreWhole, ExistsBySlug, NewMembership,
         rows, NoTx, Writing

\* What a process without a transaction is recorded as is well-formed (Init, Abort, Crash).
LEMMA NoTxIsTx == NoTx \in Tx
  BY DEF NoTx, Tx

\* Opening a transaction after existsBySlug said no writes nothing yet (CreateOrganization.execute).
LEMMA CreateKeeps ==
    ASSUME NEW p \in Clerks, NEW slug \in Slugs, NEW owner \in Users, IInv, CreateOrganization(p, slug, owner)
    PROVE  IInv'
<1> DEFINE o == NewOrganization(lastId + 1, slug, owner)
           t == [pc |-> "organization", orgs |-> {}, members |-> {}, org |-> o]
<1>1. o \in Orgs /\ lastId' \in Nat
  BY DEF CreateOrganization, NewOrganization, Orgs, IInv, TableTypeOK
<1>2. t \in Tx
  BY <1>1 DEF Tx
<1>3. tx' = [tx EXCEPT ![p] = t] /\ UNCHANGED rows
  BY DEF CreateOrganization, Step
<1> HIDE DEF o
<1>4. TableTypeOK'
  BY <1>1, <1>2, <1>3 DEF IInv, TableTypeOK, rows
<1>5. \A q \in Clerks : tx'[q] = tx[q] \/ (q = p /\ tx'[q] = t)
  BY <1>3 DEF IInv, TableTypeOK
<1> QED
  BY <1>3, <1>4, <1>5 DEF IInv, TxHolds, SlugsHeldOnce, OrganizationsAreWhole, ExistsBySlug, NewMembership,
                          rows, Writing

\* The slug is free and nobody else holds it, so the transaction holds it alone.
LEMMA InsertOrganizationKeeps ==
    ASSUME NEW p \in Clerks, IInv, InsertOrganization(p)
    PROVE  IInv'
<1> DEFINE o == tx[p].org
<1>1. CASE ExistsBySlug(o.slug)
  <2>1. UNCHANGED <<rows, lastId>> /\ tx' = [tx EXCEPT ![p] = NoTx]
    BY <1>1 DEF InsertOrganization, RollBack, Step, rows
  <2> QED
    BY <2>1, NoTxIsTx, RollBackKeeps DEF IInv, TableTypeOK
<1>2. CASE ~ExistsBySlug(o.slug)
  <2> DEFINE t == [tx[p] EXCEPT !.pc = "membership", !.orgs = @ \union {o}, !.members = @ \union {}]
  <2>1. /\ tx[p].pc = "organization"
        /\ \A q \in Clerks \ {p} : \A other \in tx[q].orgs : other.slug # o.slug
        /\ tx' = [tx EXCEPT ![p] = t]
        /\ UNCHANGED <<rows, lastId>>
    BY <1>2 DEF InsertOrganization, Save, Step, rows
  <2>2. tx[p] \in [pc : {"organization"} \union Writing, orgs : SUBSET Orgs, members : SUBSET Members, org : Orgs]
    BY <2>1 DEF IInv, TableTypeOK, Tx
  <2>3. tx[p].orgs = {} /\ tx[p].members = {}
    BY <2>1 DEF IInv, TxHolds, Writing
  <2>4. o \in Orgs
    BY <2>2
  <2>5. /\ t \in Tx
        /\ t.pc = "membership" /\ t.org = o
        /\ t.orgs = {o} /\ t.members = {}
    BY <2>2, <2>3, <2>4 DEF Tx, Writing
  <2> HIDE DEF t
  <2>6. \A q \in Clerks : tx'[q] = IF q = p THEN t ELSE tx[q]
    BY <2>1 DEF IInv, TableTypeOK
  <2>7. TableTypeOK' /\ OrganizationsAreWhole'
    BY <2>1, <2>5 DEF IInv, TableTypeOK, OrganizationsAreWhole, rows, NewMembership
  <2>8. \A q \in Clerks : TxHolds(q)'
    BY <1>2, <2>1, <2>5, <2>6 DEF IInv, TxHolds, ExistsBySlug, rows, NewMembership, Writing
  <2>9. \A q \in Clerks : q # p /\ tx[q].pc \in Writing => tx[q].org.slug # o.slug
    BY <2>1 DEF IInv, TxHolds
  <2>10. SlugsHeldOnce'
    BY <2>5, <2>6, <2>9 DEF IInv, SlugsHeldOnce
  <2> QED
    BY <2>7, <2>8, <2>10 DEF IInv
<1> QED
  BY <1>1, <1>2

\* The owner's membership joins the organization that its transaction has already written.
LEMMA InsertMembershipKeeps ==
    ASSUME NEW p \in Clerks, IInv, InsertMembership(p)
    PROVE  IInv'
<1> DEFINE o == tx[p].org
           m == NewMembership(o)
           t == [tx[p] EXCEPT !.pc = "commit", !.orgs = @ \union {}, !.members = @ \union {m}]
<1>1. /\ tx[p].pc = "membership"
      /\ tx' = [tx EXCEPT ![p] = t]
      /\ UNCHANGED <<rows, lastId>>
  BY DEF InsertMembership, Save, Step, rows
<1>2. tx[p] \in [pc : {"organization"} \union Writing, orgs : SUBSET Orgs, members : SUBSET Members, org : Orgs]
  BY <1>1 DEF IInv, TableTypeOK, Tx
<1>3. m \in Members
  BY <1>2 DEF NewMembership, Members, Orgs
<1>4. /\ t \in Tx
      /\ t.pc = "commit" /\ t.org = o
      /\ t.orgs = tx[p].orgs /\ t.members = tx[p].members \union {m}
  BY <1>2, <1>3 DEF Tx, Writing
<1> HIDE DEF t, m
<1>5. \A q \in Clerks : tx'[q] = IF q = p THEN t ELSE tx[q]
  BY <1>1 DEF IInv, TableTypeOK
<1>6. TableTypeOK' /\ OrganizationsAreWhole'
  BY <1>1, <1>4 DEF IInv, TableTypeOK, OrganizationsAreWhole, rows, NewMembership
<1>7. tx[p].orgs = {o} /\ ~ExistsBySlug(o.slug)
  BY <1>1 DEF IInv, TxHolds, Writing
<1>8. \A q \in Clerks : TxHolds(q)'
  <2> SUFFICES ASSUME NEW q \in Clerks PROVE TxHolds(q)'
    OBVIOUS
  <2>1. CASE q = p
    <3>1. tx[p].members = {}
      BY <1>1 DEF IInv, TxHolds
    <3> QED
      BY <1>1, <1>4, <1>5, <1>7, <2>1, <3>1 DEF TxHolds, ExistsBySlug, rows, Writing, m
  <2>2. CASE q # p
    BY <1>1, <1>5, <2>2 DEF IInv, TxHolds, ExistsBySlug, rows
  <2> QED
    BY <2>1, <2>2
<1>9. SlugsHeldOnce'
  BY <1>1, <1>4, <1>5 DEF IInv, SlugsHeldOnce, Writing
<1> QED
  BY <1>6, <1>8, <1>9 DEF IInv

\* What is committed comes with the membership of its owner, and with a slug that neither a
\* row nor another transaction had.
LEMMA CommitKeeps ==
    ASSUME NEW p \in Clerks, IInv, Commit(p)
    PROVE  IInv'
<1> DEFINE o == tx[p].org
<1>1. /\ tx[p].pc = "commit"
      /\ organizations' = organizations \union tx[p].orgs
      /\ memberships' = memberships \union tx[p].members
      /\ tx' = [tx EXCEPT ![p] = NoTx]
      /\ UNCHANGED <<invitations, lastId>>
  BY DEF Commit, RollBack, Step
<1>2. /\ tx[p].orgs = {o} /\ tx[p].members = {NewMembership(o)}
      /\ ~ExistsBySlug(o.slug)
  BY <1>1 DEF IInv, TxHolds, Writing
<1>3. o \in Orgs /\ NewMembership(o) \in Members
  BY <1>1 DEF IInv, TableTypeOK, Tx, NewMembership, Members, Orgs
<1>4. TableTypeOK'
  BY <1>1, <1>2, <1>3, NoTxIsTx DEF IInv, TableTypeOK
<1>5. \A q \in Clerks : tx'[q] = IF q = p THEN NoTx ELSE tx[q]
  BY <1>1 DEF IInv, TableTypeOK
<1>6. \A q \in Clerks : q # p /\ tx[q].pc \in Writing => tx[q].org.slug # o.slug
  BY <1>1 DEF IInv, SlugsHeldOnce, Writing
<1>7. \A q \in Clerks : TxHolds(q)'
  BY <1>1, <1>2, <1>5, <1>6 DEF IInv, TxHolds, ExistsBySlug, NoTx, Writing, NewMembership
<1>8. SlugsHeldOnce'
  BY <1>5 DEF IInv, SlugsHeldOnce, NoTx, Writing
<1>9. OrganizationsAreWhole'
  BY <1>1, <1>2 DEF IInv, OrganizationsAreWhole, ExistsBySlug, NewMembership
<1> QED
  BY <1>4, <1>7, <1>8, <1>9 DEF IInv

\* An invitation is only written to an organization that was found (InviteUserToOrganization).
LEMMA InviteKeeps ==
    ASSUME NEW o \in organizations, NEW by \in Users, IInv, Invite(o, by)
    PROVE  IInv'
  BY DEF Invite, NewInvitation, IInv, TableTypeOK, TxHolds, SlugsHeldOnce, OrganizationsAreWhole,
         ExistsBySlug, NewMembership

-----------------------------------------------------------------------------
\* The steps of requests leave the tables of organizations alone.
LEMMA RequestsKeep ==
    ASSUME IInv, Requesting \/ (\E p \in Procs : Serve(p)) \/ (\E w \in Windows : Elapse(w))
    PROVE  IInv'
<1>1. ASSUME Requesting PROVE UNCHANGED tables
  BY <1>1 DEF Requesting, Consume, ConsumeLocally, Arrive, Release, Forget, ManageKey
<1>2. ASSUME NEW p \in Procs, Serve(p) PROVE UNCHANGED tables
  BY <1>2 DEF Serve, Decide, ConsumeFails, Authenticate, LookUp, LookUpFails, Handle, HandlerFails, Send,
              Untouched
<1>3. ASSUME NEW w \in Windows, Elapse(w) PROVE UNCHANGED tables
  BY <1>3 DEF Elapse
<1> QED
  BY <1>1, <1>2, <1>3, TablesAlone

\* A process that ends leaves its transaction to be rolled back by the database.
LEMMA CrashKeeps == ASSUME IInv, Crash PROVE IInv'
<1>1. UNCHANGED <<rows, lastId>> /\ tx' = [p \in Clerks |-> NoTx]
  BY DEF Crash
<1> QED
  BY <1>1, NoTxIsTx, RollBackKeeps

\* Every step of the organization use cases, one case for each.
LEMMA AdministrationKeeps == ASSUME IInv, Administration PROVE IInv'
<1>1. ASSUME NEW p \in Clerks, NEW slug \in Slugs, NEW owner \in Users, CreateOrganization(p, slug, owner)
      PROVE  IInv'
  BY <1>1, CreateKeeps
<1>2. ASSUME NEW p \in Clerks, InsertOrganization(p) PROVE IInv'
  BY <1>2, InsertOrganizationKeeps
<1>3. ASSUME NEW p \in Clerks, InsertMembership(p) PROVE IInv'
  BY <1>3, InsertMembershipKeeps
<1>4. ASSUME NEW p \in Clerks, Commit(p) PROVE IInv'
  BY <1>4, CommitKeeps
<1>5. ASSUME NEW p \in Clerks, Abort(p) PROVE IInv'
  <2>1. UNCHANGED <<rows, lastId>> /\ tx' = [tx EXCEPT ![p] = NoTx]
    BY <1>5 DEF Abort, RollBack, Step
  <2> QED
    BY <2>1, NoTxIsTx, RollBackKeeps DEF IInv, TableTypeOK
<1>6. ASSUME NEW o \in organizations, NEW by \in Users, Invite(o, by) PROVE IInv'
  BY <1>6, InviteKeeps
<1> QED
  BY <1>1, <1>2, <1>3, <1>4, <1>5, <1>6 DEF Administration

\* However transactions overlap, fail and are cut off, an organization that can be seen has
\* its owner as a member and a slug of its own, and every invitation is to one (CreateOrganization,
\* PrismaUnitOfWork.run, InviteUserToOrganization).
THEOREM OrganizationsStayWhole == Spec => []OrganizationsAreWhole
<1>1. IInv /\ [Next]_vars => IInv'
  <2> SUFFICES ASSUME IInv, [Next]_vars PROVE IInv'
    OBVIOUS
  <2>1. CASE Next
    BY <2>1, RequestsKeep, CrashKeeps, AdministrationKeeps DEF Next
  <2>2. CASE UNCHANGED vars
    BY <2>2, TablesAlone DEF vars
  <2> QED
    BY <2>1, <2>2
<1>2. IInv => OrganizationsAreWhole
  BY DEF IInv
<1> QED
  BY InitHolds, <1>1, <1>2, PTL DEF Spec
-----------------------------------------------------------------------------
(***************************************************************************)
(* Answers are earned: one answer per idempotency key, and nobody past the *)
(* guard with an API key that had ended or was none.                       *)
(***************************************************************************)

\* Revoked or expired; neither is ever undone.
Ended(row) == row.status = "revoked" \/ row.lapsed

\* What a request looks like where it is read, and that a caller whose key had ended on its
\* arrival is still without one until the guard, where it is turned away.
RequestOK(c) ==
    /\ c.pc # "idle" => c.r \in Requests
    /\ c.pc = "send" => c.response.status \in {Created, Conflict}
    /\ c.pc \in {"counted", "authenticate"} =>
         /\ c.principal = Anonymous
         /\ c.presented \in {NoApiKey, NewApiKey} \/ Ended(Row(c.r.caller))
    /\ c.pc \in {"lookup", "handle", "send"} => Admitted(c)

\* A key that is not excused: what was answered is the record, and nothing is until there is
\* one; the request being handled is the only one and finds none.
KeyOK(k) ==
    /\ record[k] = NoRecord => answers[k] = {}
    /\ record[k] # NoRecord => answers[k] \subseteq {record[k].response}
    /\ Handling(k) # {} => record[k] = NoRecord
    /\ \A p, q \in Handling(k) : p = q

Answered ==
    /\ op = [p \in Procs |-> op[p]]
    /\ apiKey = [c \in Callers |-> apiKey[c]]
    /\ \A c \in Callers : /\ apiKey[c] = [status |-> apiKey[c].status, lapsed |-> apiKey[c].lapsed]
                          /\ apiKey[c] \in {NoApiKey, NewApiKey} \/ Ended(apiKey[c])
    /\ record = [k \in Keys |-> record[k]]
    /\ \A p \in Procs : RequestOK(op[p])
    /\ \A k \in Keys \ excused : KeyOK(k)

-----------------------------------------------------------------------------
\* An idle process asks for nothing.
LEMMA IdleIsOK == RequestOK(Idle) /\ RequestOK(Idle)' /\ Idle.pc = "idle"
  BY DEF RequestOK, Idle

\* A new server has answered nothing.
LEMMA AnsweredInit == Init => Answered
<1> SUFFICES ASSUME Init PROVE Answered
  OBVIOUS
<1>1. /\ op = [p \in Procs |-> Idle] /\ answers = [k \in Keys |-> {}]
      /\ record = [k \in Keys |-> NoRecord] /\ apiKey \in [Callers -> {NoApiKey, NewApiKey}]
  BY DEF Init, GuardInit
<1>2. \A c \in Callers : /\ apiKey[c] = [status |-> apiKey[c].status, lapsed |-> apiKey[c].lapsed]
                         /\ apiKey[c] \in {NoApiKey, NewApiKey}
  BY <1>1 DEF NoApiKey, NewApiKey
<1>3. \A k \in Keys : KeyOK(k)
  BY <1>1 DEF KeyOK, Handling, Idle
<1> QED
  BY <1>1, <1>2, <1>3, IdleIsOK DEF Answered

\* Invariants are about keys, requests and records only.
LEMMA ElsewhereKeeps ==
    ASSUME Answered, UNCHANGED <<op, apiKey, record, answers, excused, workload>> PROVE Answered'
  BY DEF Answered, RequestOK, Row, Ended, Admitted, KeyOK, Handling

\* A step of one request that touches no record and gives no answer.
LEMMA MoveKeeps ==
    ASSUME Answered, UNCHANGED <<apiKey, record, answers, excused, workload>>, NEW p \in Procs, NEW c, Goto(p, c),
           RequestOK(c),
           c.pc \in {"handle", "send"} => op[p].pc \in {"handle", "send"} /\ c.r.key = op[p].r.key
    PROVE  Answered'
<1>1. op'[p] = c /\ op' = [q \in Procs |-> op'[q]] /\ \A q \in Procs : q # p => op'[q] = op[q]
  BY DEF Answered, Goto
<1>2. /\ apiKey' = apiKey /\ record' = record /\ answers' = answers /\ excused' = excused
      /\ workload' = workload
  OBVIOUS
<1>3. \A q \in Procs : RequestOK(op[q])'
  BY <1>1, <1>2 DEF Answered, RequestOK, Row, Ended, Admitted
<1>4. \A k \in Keys \ excused : KeyOK(k)'
  <2> SUFFICES ASSUME NEW k \in Keys \ excused PROVE KeyOK(k)'
    OBVIOUS
  <2>1. Handling(k)' \subseteq Handling(k)
    BY <1>1 DEF Handling
  <2> QED
    BY <1>2, <2>1 DEF Answered, KeyOK
<1> QED
  BY <1>1, <1>2, <1>3, <1>4 DEF Answered

\* A request that arrives is marked by the API key it comes with.
LEMMA ArriveKeeps ==
    ASSUME Answered, NEW p \in Procs, NEW r \in Requests, Consume(p, r) \/ ConsumeLocally(p, r)
    PROVE  Answered'
<1>1. PICK count, arm : Arrive(p, r, count, arm)
  BY DEF Consume, ConsumeLocally
<1> DEFINE c == [pc |-> "counted", r |-> r, presented |-> Row(r.caller), principal |-> Anonymous,
                 count |-> count, arm |-> arm]
<1>2. Goto(p, c) /\ UNCHANGED <<apiKey, record, answers, excused, workload>>
  BY <1>1 DEF Arrive
<1>3. c.pc = "counted" /\ c.r = r /\ c.presented = Row(r.caller) /\ c.principal = Anonymous
  OBVIOUS
<1> HIDE DEF c
<1>4. Row(r.caller) \in {NoApiKey, NewApiKey} \/ Ended(Row(r.caller))
  BY DEF Row, Callers, Answered
<1>5. RequestOK(c)
  BY <1>3, <1>4 DEF RequestOK
<1> QED
  BY <1>2, <1>3, <1>5, MoveKeeps

\* The limiter lets through to the key, or past it where a route needs none.
LEMMA DecideKeeps == ASSUME Answered, NEW p \in Procs, Decide(p) PROVE Answered'
<1> DEFINE c == Passing(op[p], IF op[p].r.route \in Excluded THEN "lookup" ELSE "authenticate", Anonymous)
<1>1. op[p].pc = "counted" /\ RequestOK(op[p]) /\ UNCHANGED <<apiKey, record, answers, excused, workload>>
  BY DEF Decide, At, Answered
<1>2. Goto(p, c) \/ Goto(p, Idle)
  BY DEF Decide
<1>3. /\ c.pc = (IF op[p].r.route \in Excluded THEN "lookup" ELSE "authenticate")
      /\ c.r = op[p].r /\ c.presented = op[p].presented /\ c.principal = Anonymous
  BY DEF Passing
<1> HIDE DEF c
<1>4. RequestOK(c)
  BY <1>1, <1>3 DEF RequestOK, Admitted
<1> QED
  BY <1>1, <1>2, <1>3, <1>4, IdleIsOK, MoveKeeps

\* The guard turns away every key that is not active, so every one that had ended, and every
\* one that was not there; without a key it lets on where it is optional.
LEMMA AuthenticateKeeps == ASSUME Answered, NEW p \in Procs, Authenticate(p) PROVE Answered'
<1>1. op[p].pc = "authenticate" /\ RequestOK(op[p]) /\ UNCHANGED <<apiKey, record, answers, excused, workload>>
  BY DEF Authenticate, At, Answered, Untouched, guards, history
<1>2. CASE Goto(p, Idle)
  BY <1>1, <1>2, IdleIsOK, MoveKeeps
<1>3. ASSUME NEW principal, Goto(p, Passing(op[p], "lookup", principal)),
             IF principal = Anonymous THEN op[p].r.caller = Anonymous /\ workload.optional
             ELSE principal = op[p].r.caller /\ Valid(op[p])
      PROVE  Answered'
  <2> PICK c : c = Passing(op[p], "lookup", principal)
    OBVIOUS
  <2>1. c.pc = "lookup" /\ c.r = op[p].r /\ c.presented = op[p].presented /\ c.principal = principal
    BY DEF Passing
  <2>2. Valid(op[p]) => op[p].presented = NewApiKey
    BY <1>1 DEF Valid, RequestOK, Ended, IsActive
  <2>3. RequestOK(c)
    BY <1>1, <1>3, <2>1, <2>2 DEF RequestOK, Admitted
  <2> QED
    BY <1>1, <1>3, <2>1, <2>3, MoveKeeps
<1>4. CASE op[p].r.caller = Anonymous /\ workload.optional /\ Goto(p, Passing(op[p], "lookup", Anonymous))
  BY <1>3, <1>4
<1>5. CASE /\ op[p].r.caller # Anonymous /\ Valid(op[p])
           /\ Goto(p, Passing(op[p], "lookup", op[p].r.caller))
  BY <1>3, <1>5
<1> QED
  BY <1>2, <1>4, <1>5 DEF Authenticate
-----------------------------------------------------------------------------
\* A record with an answer is a record.
LEMMA KeptIsRecord == ASSUME NEW hash, NEW response PROVE [hash |-> hash, response |-> response] # NoRecord
<1>1. DOMAIN [hash |-> hash, response |-> response] = {"hash", "response"} /\ DOMAIN NoRecord = {"hash"}
  BY DEF NoRecord
<1> QED
  BY <1>1

\* Of two requests with one key, the second to look it up while the first is handled excuses
\* the key; so a request that begins to be handled is alone, and finds no answer given.
LEMMA LookUpKeeps == ASSUME Answered, NEW p \in Procs, LookUp(p) PROVE Answered'
<1> PICK k : k = op[p].r.key
  OBVIOUS
<1>1. /\ op[p].pc = "lookup" /\ RequestOK(op[p]) /\ apiKey' = apiKey /\ record' = record /\ workload' = workload
      /\ op = [q \in Procs |-> op[q]]
  BY DEF LookUp, At, Answered, guards
<1>2. ASSUME NEW c, Goto(p, c), RequestOK(c), excused \subseteq excused',
             \A j \in Keys \ excused' : KeyOK(j)'
      PROVE  Answered'
  <2>1. op'[p] = c /\ op' = [q \in Procs |-> op'[q]] /\ \A q \in Procs : q # p => op'[q] = op[q]
    BY <1>1, <1>2 DEF Goto
  <2>2. \A q \in Procs : RequestOK(op[q])'
    BY <1>1, <2>1, <1>2 DEF Answered, RequestOK, Row, Ended, Admitted
  <2> QED
    BY <1>1, <1>2, <2>1, <2>2 DEF Answered
<1>3. ASSUME NEW c, Goto(p, c)
      PROVE  \A j : Handling(j)' \subseteq Handling(j) \union {p}
                    /\ (p \in Handling(j)' => c.pc \in {"handle", "send"} /\ c.r.key = j)
  <2>1. op'[p] = c /\ \A q \in Procs : q # p => op'[q] = op[q]
    BY <1>1, <1>3 DEF Goto
  <2> QED
    BY <2>1 DEF Handling
<1>4. CASE k = NoKey \/ record[k] = NoRecord
  <2> DEFINE c == [op[p] EXCEPT !.pc = "handle"]
  <2>1. c.pc = "handle" /\ c.r = op[p].r /\ c.presented = op[p].presented /\ c.principal = op[p].principal
    BY <1>1
  <2>2. Goto(p, c) /\ Settle(k, Handling(k) # {}, {})
    BY <1>4 DEF LookUp
  <2> HIDE DEF c
  <2>3. RequestOK(c)
    BY <1>1, <2>1 DEF RequestOK, Admitted
  <2>4. /\ excused \subseteq excused' /\ (Handling(k) # {} /\ k \in Keys => k \in excused')
        /\ \A j \in Keys \ excused' : answers'[j] = answers[j]
    BY <2>2 DEF Settle, Keys
  <2>5. ASSUME NEW j \in Keys \ excused' PROVE KeyOK(j)'
    <3>1. KeyOK(j)
      BY <2>4 DEF Answered
    <3>2. CASE j = k
      <4>1. Handling(j) = {} /\ record[j] = NoRecord
        BY <1>4, <2>4, <3>2 DEF Keys
      <4>2. Handling(j)' \subseteq {p}
        BY <1>3, <2>2, <4>1
      <4> QED
        BY <1>1, <2>4, <3>1, <4>1, <4>2 DEF KeyOK
    <3>3. CASE j # k
      <4>1. Handling(j)' \subseteq Handling(j)
        BY <1>3, <2>1, <2>2, <3>3
      <4> QED
        BY <1>1, <2>4, <3>1, <4>1 DEF KeyOK
    <3> QED
      BY <3>2, <3>3
  <2> QED
    BY <1>2, <2>2, <2>3, <2>4, <2>5
<1>5. CASE k # NoKey /\ record[k] # NoRecord /\ record[k].hash # HashRequest(op[p].r)
  <2> DEFINE c == Answering(op[p], Response(Conflict, HashRequest(op[p].r)))
  <2>1. /\ c.pc = "send" /\ c.r = op[p].r /\ c.presented = op[p].presented
        /\ c.principal = op[p].principal /\ c.response.status = Conflict
    BY DEF Response, Answering
  <2>2. Goto(p, c) /\ Settle(k, TRUE, {})
    BY <1>5 DEF LookUp
  <2> HIDE DEF c
  <2>3. RequestOK(c)
    BY <1>1, <2>1 DEF RequestOK, Admitted
  <2>4. /\ excused \subseteq excused' /\ (k \in Keys => k \in excused')
        /\ \A j \in Keys \ excused' : answers'[j] = answers[j]
    BY <2>2 DEF Settle, Keys
  <2>5. ASSUME NEW j \in Keys \ excused' PROVE KeyOK(j)'
    <3>1. KeyOK(j) /\ j # k
      BY <2>4 DEF Answered
    <3>2. Handling(j)' \subseteq Handling(j)
      BY <1>3, <2>1, <2>2, <3>1
    <3> QED
      BY <1>1, <2>4, <3>1, <3>2 DEF KeyOK
  <2> QED
    BY <1>2, <2>2, <2>3, <2>4, <2>5
<1>6. CASE k # NoKey /\ record[k] # NoRecord /\ record[k].hash = HashRequest(op[p].r)
  <2>1. Goto(p, Idle) /\ Settle(k, FALSE, {record[k].response})
    BY <1>6 DEF LookUp
  <2>2. /\ excused \subseteq excused'
        /\ \A j \in Keys \ excused' :
             answers'[j] = IF j = k THEN answers[j] \union {record[k].response} ELSE answers[j]
    BY <2>1 DEF Settle, Keys
  <2>3. ASSUME NEW j \in Keys \ excused' PROVE KeyOK(j)'
    <3>1. KeyOK(j)
      BY <2>2 DEF Answered
    <3>2. Handling(j)' \subseteq Handling(j)
      BY <1>3, <2>1, IdleIsOK
    <3> QED
      BY <1>1, <1>6, <2>2, <3>1, <3>2 DEF KeyOK
  <2> QED
    BY <1>2, <2>1, <2>2, <2>3, IdleIsOK
<1> QED
  BY <1>4, <1>5, <1>6

\* An answer to a key that is not excused is its first, and is kept; an answer that cannot be
\* kept is not given.
LEMMA SendKeeps == ASSUME Answered, NEW p \in Procs, Send(p) PROVE Answered'
<1> PICK k : k = op[p].r.key
  OBVIOUS
<1> PICK response : response = op[p].response
  OBVIOUS
<1>1. /\ op[p].pc = "send" /\ RequestOK(op[p]) /\ apiKey' = apiKey /\ Goto(p, Idle) /\ workload' = workload
      /\ op = [q \in Procs |-> op[q]]
  BY DEF Send, At, Answered
<1>2. PICK stored \in BOOLEAN :
        /\ stored \/ (k # NoKey /\ WorthKeeping(response.status))
        /\ IF stored /\ k # NoKey /\ WorthKeeping(response.status)
           THEN Keep(k, HashRequest(op[p].r), response) ELSE UNCHANGED record
        /\ Settle(k, ~stored, IF stored THEN {response} ELSE {})
  BY DEF Send
<1>3. WorthKeeping(response.status)
  BY <1>1 DEF RequestOK, WorthKeeping, Created, Conflict
<1>4. op'[p] = Idle /\ op' = [q \in Procs |-> op'[q]] /\ \A q \in Procs : q # p => op'[q] = op[q]
  BY <1>1 DEF Goto
<1>5. \A q \in Procs : RequestOK(op[q])'
  BY <1>1, <1>4, IdleIsOK DEF Answered, RequestOK, Row, Ended, Admitted
<1>6. /\ excused \subseteq excused' /\ (~stored /\ k \in Keys => k \in excused')
      /\ \A j \in Keys \ excused' :
           answers'[j] = IF j = k THEN answers[j] \union (IF stored THEN {response} ELSE {}) ELSE answers[j]
  BY <1>2 DEF Settle, Keys
<1>7. record' = [j \in Keys |-> record'[j]] /\ \A j \in Keys : j # k => record'[j] = record[j]
  BY <1>2 DEF Answered, Keep
<1>8. ASSUME NEW j \in Keys \ excused' PROVE KeyOK(j)'
  <2>1. KeyOK(j)
    BY <1>6 DEF Answered
  <2>2. Handling(j)' \subseteq Handling(j) \ {p}
    BY <1>4, IdleIsOK DEF Handling
  <2>3. CASE j = k
    <3>1. stored /\ k # NoKey
      BY <1>6, <2>3 DEF Keys
    <3>2. record'[j] = [hash |-> HashRequest(op[p].r), response |-> response]
      BY <1>2, <1>3, <2>3, <3>1 DEF Answered, Keep
    <3>3. p \in Handling(j)
      BY <1>1, <2>3 DEF Handling
    <3>4. Handling(j)' = {} /\ answers[j] = {}
      BY <2>1, <2>2, <3>3 DEF KeyOK
    <3>5. record'[j] # NoRecord /\ record'[j].response = response
      BY <3>2, KeptIsRecord
    <3> QED
      BY <1>6, <2>3, <3>1, <3>4, <3>5 DEF KeyOK
  <2>4. CASE j # k
    BY <1>6, <1>7, <2>1, <2>2, <2>4 DEF KeyOK
  <2> QED
    BY <2>3, <2>4
<1> QED
  BY <1>1, <1>4, <1>5, <1>7, <1>8 DEF Answered

\* A record that expires, or is lost with the process, leaves its key excused.
LEMMA LosingKeeps ==
    ASSUME Answered, apiKey' = apiKey, workload' = workload, record' = [k \in Keys |-> record'[k]],
           op' = op \/ op' = [p \in Procs |-> Idle], excused \subseteq excused',
           \A k \in Keys \ excused' : record'[k] = record[k] /\ answers'[k] = answers[k]
    PROVE  Answered'
<1>1. op' = [p \in Procs |-> op'[p]] /\ \A p \in Procs : op'[p] = op[p] \/ op'[p] = Idle
  BY DEF Answered
<1>2. \A p \in Procs : RequestOK(op[p])'
  BY <1>1, IdleIsOK DEF Answered, RequestOK, Row, Ended, Admitted
<1>3. ASSUME NEW k \in Keys \ excused' PROVE KeyOK(k)'
  <2>1. KeyOK(k) /\ Handling(k)' \subseteq Handling(k)
    BY <1>1, IdleIsOK DEF Answered, Handling
  <2> QED
    BY <2>1 DEF KeyOK
<1> QED
  BY <1>1, <1>2, <1>3 DEF Answered

\* After its time a key stands for a fresh operation (IdempotencyStore.get).
LEMMA ForgetKeeps == ASSUME Answered, NEW k \in Keys, Forget(k) PROVE Answered'
<1>1. /\ apiKey' = apiKey /\ op' = op /\ workload' = workload
      /\ record' = [record EXCEPT ![k] = NoRecord] /\ Settle(k, TRUE, {})
  BY DEF Forget, RecordExpires
<1>2. excused \subseteq excused' /\ k \in excused' /\ \A j \in Keys \ excused' : answers'[j] = answers[j]
  BY <1>1 DEF Settle, Keys
<1>3. record' = [j \in Keys |-> record'[j]] /\ \A j \in Keys \ excused' : record'[j] = record[j]
  BY <1>1, <1>2 DEF Answered
<1> QED
  BY <1>1, <1>2, <1>3, LosingKeeps

\* The process ends: the keys in its hands, and those whose record was in its memory, are excused.
LEMMA CrashLosesLittle == ASSUME Answered, Crash PROVE Answered'
<1>1. /\ apiKey' = apiKey /\ workload' = workload /\ op' = [p \in Procs |-> Idle]
      /\ excused' = excused \union {k \in Keys : Handling(k) # {} \/ record'[k] # record[k]}
      /\ answers' = [k \in Keys |-> IF k \in excused' THEN {} ELSE answers[k]]
      /\ record' = IF redis THEN record ELSE [k \in Keys |-> NoRecord]
  BY DEF Crash, GuardRestart
<1>2. record' = [k \in Keys |-> record'[k]]
  BY <1>1 DEF Answered
<1> QED
  BY <1>1, <1>2, LosingKeeps

\* A key that has ended stays so, whoever manages keys (CreateKey, Revoke, Lapse).
LEMMA ManageKeyKeeps == ASSUME Answered, NEW c \in Callers, ManageKey(c) PROVE Answered'
<1>1. /\ op' = op /\ record' = record /\ answers' = answers /\ excused' = excused /\ workload' = workload
      /\ CreateKey(c) \/ Revoke(c) \/ Lapse(c)
  BY DEF ManageKey, CreateKey, Revoke, Lapse, history
<1> DEFINE RowOK(row) == /\ row = [status |-> row.status, lapsed |-> row.lapsed]
                         /\ row \in {NoApiKey, NewApiKey} \/ Ended(row)
<1>2. /\ apiKey' = [x \in Callers |-> apiKey'[x]]
      /\ \A x \in Callers : RowOK(apiKey'[x])
      /\ \A x \in Callers : Ended(apiKey[x]) => Ended(apiKey'[x])
  <2>1. CASE CreateKey(c)
    <3>1. ~Ended(apiKey[c])
      BY <2>1 DEF CreateKey, Ended, NoApiKey
    <3>2. apiKey' = [apiKey EXCEPT ![c] = NewApiKey] /\ RowOK(NewApiKey)
      BY <2>1 DEF CreateKey, NewApiKey
    <3> QED
      BY <3>1, <3>2 DEF Answered
  <2>2. CASE Revoke(c)
    BY <2>2 DEF Revoke, Answered, Ended
  <2>3. CASE Lapse(c)
    BY <2>3 DEF Lapse, Answered, Ended
  <2> QED
    BY <1>1, <2>1, <2>2, <2>3
<1>3. \A p \in Procs : RequestOK(op[p])'
  <2> SUFFICES ASSUME NEW p \in Procs PROVE RequestOK(op[p])'
    OBVIOUS
  <2>1. RequestOK(op[p]) /\ op'[p] = op[p]
    BY <1>1 DEF Answered
  <2>2. ASSUME op[p].pc # "idle", Ended(Row(op[p].r.caller)) PROVE Ended(Row(op[p].r.caller))'
    <3>1. op[p].r.caller = Anonymous \/ op[p].r.caller \in Callers
      BY <2>1, <2>2 DEF RequestOK, Callers
    <3> QED
      BY <1>2, <2>1, <2>2, <3>1 DEF Row
  <2> QED
    BY <1>1, <2>1, <2>2 DEF RequestOK, Admitted
<1>4. \A k \in Keys \ excused : KeyOK(k)'
  BY <1>1 DEF Answered, KeyOK, Handling
<1> QED
  BY <1>1, <1>2, <1>3, <1>4 DEF Answered

\* The steps of a request.
LEMMA ServeKeeps == ASSUME Answered, NEW p \in Procs, Serve(p) PROVE Answered'
<1>1. RequestOK(op[p])
  BY DEF Answered
<1>2. CASE ConsumeFails(p) \/ LookUpFails(p) \/ HandlerFails(p)
  <2>1. Goto(p, Idle) /\ UNCHANGED <<apiKey, record, answers, excused, workload>>
    BY <1>2 DEF ConsumeFails, LookUpFails, HandlerFails, Untouched, guards, history
  <2> QED
    BY <2>1, IdleIsOK, MoveKeeps
<1>3. CASE Handle(p)
  <2> PICK status : status \in {Created, Conflict} /\
        Goto(p, Answering(op[p], Response(status, HashRequest(op[p].r))))
    BY <1>3 DEF Handle
  <2> DEFINE c == Answering(op[p], Response(status, HashRequest(op[p].r)))
  <2>1. /\ c.pc = "send" /\ c.r = op[p].r /\ c.presented = op[p].presented
        /\ c.principal = op[p].principal /\ c.response.status = status
    BY DEF Response, Answering
  <2>2. Goto(p, c)
    OBVIOUS
  <2> HIDE DEF c
  <2>3. op[p].pc = "handle" /\ UNCHANGED <<apiKey, record, answers, excused, workload>>
    BY <1>3 DEF Handle, At, guards, history
  <2>4. RequestOK(c)
    BY <1>1, <2>1, <2>3 DEF RequestOK, Admitted
  <2> QED
    BY <2>1, <2>2, <2>3, <2>4, MoveKeeps
<1> QED
  BY <1>2, <1>3, DecideKeeps, AuthenticateKeeps, LookUpKeeps, SendKeeps DEF Serve

\* However requests with an idempotency key overlap, are sent again, fail and are cut off, a key
\* that is not excused gets one answer; and what reaches the records or a handler as a
\* principal's presented a key that was issued and live when it arrived, and as nobody's is for
\* an excluded path or came without a key where the guard is optional (registerIdempotency,
\* apiKeyAuthPlugin).
THEOREM OneAnswerIsGiven == Spec => []AnswersAreEarned
<1>1. Answered /\ [Next]_vars => Answered'
  <2> SUFFICES ASSUME Answered, [Next]_vars PROVE Answered'
    OBVIOUS
  <2>1. CASE Requesting
    <3>1. ASSUME NEW subject \in created, Release(subject) PROVE Answered'
      BY <3>1, ElsewhereKeeps DEF Release, guards, history
    <3> QED
      BY <2>1, <3>1, ArriveKeeps, ForgetKeeps, ManageKeyKeeps DEF Requesting
  <2>2. ASSUME NEW w \in Windows, Elapse(w) PROVE Answered'
    BY <2>2, ElsewhereKeeps DEF Elapse, WindowPasses, history
  <2>3. CASE Administration
    BY <2>3, ElsewhereKeeps DEF Administration, Administers, guards, history
  <2>4. CASE UNCHANGED vars
    BY <2>4, ElsewhereKeeps DEF vars, guards, history
  <2> QED
    BY <2>1, <2>2, <2>3, <2>4, ServeKeeps, CrashLosesLittle DEF Next
<1>2. Answered => AnswersAreEarned
  <2> SUFFICES ASSUME Answered PROVE AnswersAreEarned
    OBVIOUS
  <2>1. ASSUME NEW k \in Keys \ excused PROVE Cardinality(answers[k]) <= 1
    <3>1. answers[k] = {} \/ answers[k] \subseteq {record[k].response}
      BY DEF Answered, KeyOK
    <3>2. answers[k] = {} \/ answers[k] = {record[k].response}
      BY <3>1
    <3>3. CASE answers[k] = {}
      BY <3>3, FS_EmptySet
    <3>4. CASE answers[k] = {record[k].response}
      <4>1. Cardinality({record[k].response}) = 1
        BY FS_Singleton
      <4> QED
        BY <3>4, <4>1
    <3> QED
      BY <3>2, <3>3, <3>4
  <2>2. OnlyTheLiving
    BY DEF Answered, RequestOK, OnlyTheLiving
  <2> QED
    BY <2>1, <2>2 DEF AnswersAreEarned, OneAnswerPerKey
<1> QED
  BY AnsweredInit, <1>1, <1>2, PTL DEF Spec
=============================================================================
