---------------------------- MODULE Organizations ----------------------------
(***************************************************************************)
(* packages/identity: organizations, their memberships and invitations.    *)
(* Creating an organization is a transaction of four steps (the slug is    *)
(* looked up, two rows are inserted, the transaction commits); what it     *)
(* wrote is its own until then.  PostgreSQL runs it READ COMMITTED, keeps  *)
(* slugs unique, and makes an insert wait for another transaction that has *)
(* inserted the same slug.                                                 *)
(***************************************************************************)
EXTENDS Naturals, FiniteSets

CONSTANTS Clerks,       \* callers of the use cases
          Slugs, Users,
          MaxOrganizations

ASSUME OrganizationAssumption == MaxOrganizations \in Nat

VARIABLES organizations,    \* committed rows: [id, slug, ownerId]
          memberships,      \* committed rows: [organizationId, userId]
          invitations,      \* committed rows: [organizationId, invitedByUserId]
          lastId,           \* ids handed out so far
          tx                \* each clerk's transaction: [pc, slug, ownerId] and what it wrote

rows == <<organizations, memberships, invitations>>
tables == <<rows, lastId, tx>>

NoTx == [pc |-> "none", orgs |-> {}, members |-> {}]

OrganizationInit ==
    /\ organizations = {}
    /\ memberships = {}
    /\ invitations = {}
    /\ lastId = 0
    /\ tx = [p \in Clerks |-> NoTx]

NewOrganization(id, slug, owner) == [id |-> id, slug |-> slug, ownerId |-> owner]
NewMembership(o) == [organizationId |-> o.id, userId |-> o.ownerId]
NewInvitation(o, by) == [organizationId |-> o.id, invitedByUserId |-> by]

Step(p, t) == tx' = [tx EXCEPT ![p] = t]
RollBack(p) == Step(p, NoTx)

\* existsBySlug, inside the transaction but of what others have committed.
ExistsBySlug(slug) == \E o \in organizations : o.slug = slug

CreateOrganization(p, slug, owner) ==
    /\ tx[p].pc = "none"
    /\ ~ExistsBySlug(slug)      \* otherwise a ConflictError, and nothing is written
    /\ lastId < MaxOrganizations
    /\ lastId' = lastId + 1
    /\ Step(p, [pc |-> "organization", orgs |-> {}, members |-> {},
                org |-> NewOrganization(lastId + 1, slug, owner)])
    /\ UNCHANGED rows

\* Mutant of Save: no unit of work, every statement commits by itself.
SaveAtOnce(p, next, orgs, members) ==
    /\ Step(p, [tx[p] EXCEPT !.pc = next])
    /\ organizations' = organizations \union orgs
    /\ memberships' = memberships \union members

\* The rows a statement inserts are the transaction's until it commits.
Save(p, next, orgs, members) ==
    /\ Step(p, [tx[p] EXCEPT !.pc = next, !.orgs = @ \union orgs, !.members = @ \union members])
    /\ UNCHANGED <<organizations, memberships>>

\* The insert waits for another transaction holding the slug; one that is taken by then is a
\* unique violation, which the mapper throws as a ConflictError and which rolls back.
InsertOrganization(p) ==
    LET o == tx[p].org
        Holds(q) == q # p /\ \E other \in tx[q].orgs : other.slug = o.slug
    IN
    /\ tx[p].pc = "organization"
    /\ \A q \in Clerks : ~Holds(q)
    /\ IF ExistsBySlug(o.slug)
       THEN RollBack(p) /\ UNCHANGED <<organizations, memberships>>
       ELSE Save(p, "membership", {o}, {})
    /\ UNCHANGED <<invitations, lastId>>

InsertMembership(p) ==
    /\ tx[p].pc = "membership"
    /\ Save(p, "commit", {}, {NewMembership(tx[p].org)})
    /\ UNCHANGED <<invitations, lastId>>

Commit(p) ==
    /\ tx[p].pc = "commit"
    /\ organizations' = organizations \union tx[p].orgs
    /\ memberships' = memberships \union tx[p].members
    /\ RollBack(p)
    /\ UNCHANGED <<invitations, lastId>>

\* A statement fails, or the connection is lost: the transaction is rolled back.
Abort(p) ==
    /\ tx[p].pc # "none"
    /\ RollBack(p)
    /\ UNCHANGED <<rows, lastId>>

\* InviteUserToOrganization: one row (a second by the same inviter would tell nothing more), which refers to its organization by a foreign key.
Invite(o, by) ==
    /\ NewInvitation(o, by) \notin invitations
    /\ invitations' = invitations \union {NewInvitation(o, by)}
    /\ UNCHANGED <<organizations, memberships, lastId, tx>>
=============================================================================
