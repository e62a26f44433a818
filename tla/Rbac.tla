--------------------------------- MODULE Rbac --------------------------------
(***************************************************************************)
(* Roles, the permission catalog and the assignment of roles to users:     *)
(* the tables behind the repositories of the authorization context, and    *)
(* what each entity and repository method does to them.                    *)
(***************************************************************************)
EXTENDS Integers, FiniteSets

CONSTANTS Users, Orgs,
          Names,       \* role names
          Keys,        \* well-formed permission identifiers, as <<resource, action>>
          SeedRoles,   \* names of the seeded roles, with their permissions
          MaxRoles, MaxRows, MaxTime

ASSUME RbacAssumption ==
    /\ {MaxRoles, MaxRows, MaxTime} \subseteq Nat
    /\ DOMAIN SeedRoles \subseteq Names
    /\ \A n \in DOMAIN SeedRoles : SeedRoles[n] \subseteq Keys

VARIABLES now,
          catalog,     \* the permission catalog
          roles,       \* by id: the role and its permission links, or NoRole
          assignments  \* by row id: who holds which role where and until when, or NoRow

rbac == <<now, catalog, roles, assignments>>

RoleIds == 1..MaxRoles
RowIds  == 1..MaxRows
Never   == MaxTime + 1
Concrete == {k \in Keys : "*" \notin {k[1], k[2]}}

NoRole  == [name |-> "none", system |-> FALSE, keys |-> {}]
NoRow   == [user |-> "none", role |-> 0, org |-> "none", expires |-> 0]

\* Identifiers are never used again after a deletion.
GoneRole == [name |-> "gone", system |-> FALSE, keys |-> {}]
GoneRow  == [user |-> "gone", role |-> 0, org |-> "none", expires |-> 0]

-----------------------------------------------------------------------------
(* Three answers to the question whether one permission covers another.    *)

Wildcard == <<"*", "*">>
IsGlobalWildcard(key) == key = Wildcard

\* Permission.matches and PermissionMatcher.matches.
Matches(granted, required) ==
    /\ granted[1] \in {"*", required[1]}
    /\ granted[2] \in {"*", required[2]}

\* Role.hasPermission of the admin routes: no wildcard over resources but "*:*".
RouteMatches(keys, required) ==
    {Wildcard, required, <<required[1], "*">>} \intersect keys # {}

\* DefinePermission and PrismaPermissionRepository.save: an upsert by key.
SavePermission(key) == catalog' = catalog \union {key}

-----------------------------------------------------------------------------
(* Roles                                                                   *)

Exists(id)     == roles[id] \notin {NoRole, GoneRole}
NameTaken(n)   == \E id \in RoleIds : roles[id].name = n
FreeRoles      == {id \in RoleIds : roles[id] = NoRole}
NewRole        == CHOOSE id \in FreeRoles : TRUE

Role(name, system, keys) == [name |-> name, system |-> system, keys |-> keys]

\* Creating a role refuses "*:*" unless it is a system role.
MayHold(system, keys) == system \/ ~\E k \in keys : IsGlobalWildcard(k)

Grant(role, key)  == [role EXCEPT !.keys = @ \union {key}]
Revoke(role, key) == [role EXCEPT !.keys = @ \ {key}]

\* PrismaRoleRepository.save replaces the row and all its links; a key that the
\* catalog does not list is dropped.
SaveRole(id, role) == roles' = [roles EXCEPT ![id] = [role EXCEPT !.keys = @ \intersect catalog]]

\* Deleting a role cascades to the assignments of it.
DeleteRole(id) ==
    /\ roles' = [roles EXCEPT ![id] = GoneRole]
    /\ assignments' = [a \in RowIds |-> IF assignments[a].role = id THEN GoneRow
                                        ELSE assignments[a]]

-----------------------------------------------------------------------------
(* Assignments                                                             *)

IsRow(a)          == assignments[a] \notin {NoRow, GoneRow}
IsActive(row, t)  == row.role # 0 /\ t < row.expires
RowOf(u, r, o)    == {a \in RowIds : assignments[a].user = u /\ assignments[a].role = r
                                     /\ assignments[a].org = o}
FreeRows          == {a \in RowIds : assignments[a] = NoRow}

\* A row is unique by user, organization and role, whether or not it has expired, and
\* refers to a role that exists.
CanAssign(u, r, o) == Exists(r) /\ RowOf(u, r, o) = {} /\ FreeRows # {}

SaveAssignment(u, r, o, expires) ==
    assignments' = [assignments EXCEPT ![CHOOSE a \in FreeRows : TRUE] =
                       [user |-> u, role |-> r, org |-> o, expires |-> expires]]

DropRow(a) == assignments' = [assignments EXCEPT ![a] = GoneRow]

\* Mutant of ActiveRoles: expired assignments count.
AssignedRoles(rows, u, o, t) ==
    {rows[a].role : a \in {b \in RowIds : rows[b].user = u /\ rows[b].org = o}}

\* PermissionChecker: the roles whose unexpired assignment to the user is in the organization.
\* The repository holds no global assignments, so asking for them adds none.
ActiveRoles(rows, u, o, t) ==
    {rows[a].role : a \in {b \in RowIds : rows[b].user = u /\ rows[b].org = o
                                          /\ IsActive(rows[b], t)}}

\* PrismaAuthorizationRepository.hasPermission, one query.
RouteHasPermission(u, o, key) ==
    \E r \in ActiveRoles(assignments, u, o, now) : RouteMatches(roles[r].keys, key)
=============================================================================
