------------------------- MODULE Authorization_proof -------------------------
(***************************************************************************)
(* What is proved of Authorization, for any users, roles, policies and     *)
(* condition trees, and any number of processes: system roles stand        *)
(* (RInv), a check of permissions is exact when at most one change landed  *)
(* during it (EInv, over RInv), an answer through the policy cache is what *)
(* the tables say (DInv, over EInv), and a dry run exits 0 only for what   *)
(* it has seen (SInv, over DInv).                                          *)
(***************************************************************************)
EXTENDS Authorization, FiniteSetTheorems, SequenceTheorems, TLAPS

AskPcs == {"readRows", "readRoles", "allowed", "forbidden", "load", "store", "evaluate", "decided"}
AskFields == {"pc", "for", "user", "org", "asks", "todo", "granted", "held", "always", "writes",
              "value", "loaded", "excused", "failed", "decision"}
RouteFields == {"pc", "route", "role", "clean", "args"}
RoleRoutes == {"grant", "revoke", "delete", "assign"}

\* What a call looks like.
Shape(c) ==
    /\ "pc" \in DOMAIN c
    /\ "held" \in DOMAIN c <=> c.pc \in AskPcs
    /\ "held" \in DOMAIN c => DOMAIN c = AskFields /\ c.writes \in Nat
    /\ "clean" \in DOMAIN c => /\ "role" \in DOMAIN c
                               /\ c.role \in RoleIds /\ c.clean \in BOOLEAN
                               /\ c.pc \in {"saveRole", "seedLinks", "routeCheck", "routeWrite"}
    /\ c.pc = "saveRole" => DOMAIN c = {"pc", "role", "copy", "clean"}
    /\ c.pc = "seedLinks" => DOMAIN c = {"pc", "role", "name", "clean"}
    /\ c.pc = "routeCheck" => DOMAIN c = RouteFields /\ c.route \in RoleRoutes
    /\ c.pc = "routeWrite" => {"route", "args"} \subseteq DOMAIN c
    /\ c.pc = "routeWrite" /\ c.route \in RoleRoutes => DOMAIN c = RouteFields

\* A role as it is stored.
IsRole(role) == role = Role(role.name, role.system, role.keys) /\ role.system \in BOOLEAN

\* What a call about to write a role has found: nothing that takes anything from a system role,
\* unless another call has changed the role since.
Harmless(c) ==
    /\ c.pc = "saveRole" =>
         /\ IsRole(c.copy)
         /\ c.clean /\ roles[c.role].system =>
              c.copy.system /\ roles[c.role].keys \subseteq c.copy.keys
    /\ c.pc = "seedLinks" => c.name \in DOMAIN SeedRoles
    /\ c.pc = "routeWrite" =>
         /\ c.route = "update" => c.args.role \in RoleIds
         /\ c.route = "grant" => c.args.key \in catalog
         /\ c.route \in {"revoke", "delete"} /\ c.clean => ~roles[c.role].system

\* Roles are linked to permissions of the catalog.
RolesOK ==
    /\ roles = [r \in RoleIds |-> roles[r]]
    /\ \A r \in RoleIds : IsRole(roles[r]) /\ roles[r].keys \subseteq catalog

RInv ==
    /\ op = [p \in Procs |-> op[p]]
    /\ RolesOK
    /\ SeedPermissions \subseteq catalog
    /\ \A p \in Procs : Shape(op[p]) /\ Harmless(op[p])

-----------------------------------------------------------------------------
\* An idle process does nothing.
LEMMA IdleIsShaped == Shape(Idle) /\ Harmless(Idle) /\ Harmless(Idle)' /\ Idle.pc = "idle"
                      /\ "held" \notin DOMAIN Idle /\ "clean" \notin DOMAIN Idle
  BY DEF Shape, Harmless, Idle, AskPcs

\* The rows of the table.
LEMMA NoRoleIsRole == IsRole(NoRole) /\ NoRole.keys = {} /\ ~NoRole.system
                      /\ IsRole(GoneRole) /\ GoneRole.keys = {} /\ ~GoneRole.system
<1>1. NoRole = Role("none", FALSE, {}) /\ GoneRole = Role("gone", FALSE, {})
  BY DEF NoRole, GoneRole, Role
<1> QED
  BY <1>1 DEF IsRole, Role

\* What is made is a role.
LEMMA MadeIsRole ==
    ASSUME NEW n, NEW s \in BOOLEAN, NEW ks
    PROVE  /\ IsRole(Role(n, s, ks))
           /\ Role(n, s, ks).name = n /\ Role(n, s, ks).system = s /\ Role(n, s, ks).keys = ks
  BY DEF IsRole, Role

\* Granting and revoking change the links only.
LEMMA ChangedIsRole ==
    ASSUME NEW role, IsRole(role), NEW k
    PROVE  /\ IsRole(Grant(role, k)) /\ Grant(role, k).system = role.system
           /\ Grant(role, k).keys = role.keys \union {k}
           /\ IsRole(Revoke(role, k)) /\ Revoke(role, k).system = role.system
           /\ Revoke(role, k).keys = role.keys \ {k}
  BY DEF IsRole, Role, Grant, Revoke

\* So does dropping links.
LEMMA TrimmedIsRole ==
    ASSUME NEW role, IsRole(role), NEW ks
    PROVE  LET trimmed == [role EXCEPT !.keys = @ \intersect ks] IN
             /\ IsRole(trimmed) /\ trimmed.system = role.system /\ trimmed.keys = role.keys \intersect ks
             /\ trimmed.name = role.name
  BY DEF IsRole, Role

\* And so does adding links, or another name.
LEMMA ExtendedIsRole ==
    ASSUME NEW role, IsRole(role), NEW ks
    PROVE  [role EXCEPT !.keys = @ \union ks] = Role(role.name, role.system, role.keys \union ks)
  BY DEF IsRole, Role

\* Renaming a role leaves its links and its flag.
LEMMA RenamedIsRole ==
    ASSUME NEW role, IsRole(role), NEW n
    PROVE  [role EXCEPT !.name = n] = Role(n, role.system, role.keys)
  BY DEF IsRole, Role

\* What a call notices leaves it what it is.
LEMMA NoticedIs ==
    ASSUME NEW c, Shape(c)
    PROVE  /\ DOMAIN Noticed(c) = DOMAIN c
           /\ \A f \in DOMAIN c \ {"held", "always", "writes", "clean"} : Noticed(c)[f] = c[f]
           /\ "clean" \in DOMAIN c =>
                Noticed(c).clean = (c.clean /\ roles'[c.role] = roles[c.role])
           /\ "held" \in DOMAIN c =>
                LET holds == Holds(roles', assignments', now', c.user, c.org) IN
                  /\ Noticed(c).held = c.held \union holds
                  /\ Noticed(c).always = c.always \intersect holds
                  /\ Noticed(c).writes = IF c.writes < 2 THEN c.writes + 1 ELSE c.writes
<1> DEFINE holds == Holds(roles', assignments', now', c.user, c.org)
<1>1. CASE "held" \in DOMAIN c
  <2>1. DOMAIN c = AskFields /\ "clean" \notin DOMAIN c
    BY <1>1 DEF Shape, AskPcs, AskFields
  <2>2. Noticed(c) = [c EXCEPT !.held = @ \union holds, !.always = @ \intersect holds,
                               !.writes = IF @ < 2 THEN @ + 1 ELSE @]
    BY <1>1, <2>1 DEF Noticed
  <2> HIDE DEF holds
  <2> QED
    BY <2>1, <2>2 DEF AskFields, holds
<1>2. CASE "held" \notin DOMAIN c /\ "clean" \in DOMAIN c
  BY <1>2 DEF Noticed
<1>3. CASE "held" \notin DOMAIN c /\ "clean" \notin DOMAIN c
  BY <1>3 DEF Noticed
<1> QED
  BY <1>1, <1>2, <1>3

\* So it remains harmless.
LEMMA NoticedIsHarmless ==
    ASSUME NEW q \in Procs, Shape(op[q]), Harmless(op[q]), catalog \subseteq catalog',
           op'[q] = Noticed(op[q])
    PROVE  Shape(op'[q]) /\ Harmless(op[q])'
<1> DEFINE c == op[q]
           d == op'[q]
<1>1. /\ DOMAIN d = DOMAIN c
      /\ \A f \in DOMAIN c \ {"held", "always", "writes", "clean"} : d[f] = c[f]
  BY NoticedIs
<1>2. "clean" \in DOMAIN c => d.clean = (c.clean /\ roles'[c.role] = roles[c.role])
  BY NoticedIs
<1>3. "held" \in DOMAIN c => d.writes = IF c.writes < 2 THEN c.writes + 1 ELSE c.writes
  BY NoticedIs
<1>100. Shape(c) /\ Harmless(c)
  OBVIOUS
<1> HIDE DEF c, d
<1>4. d.pc = c.pc
  BY <1>100, <1>1 DEF Shape
<1>5. "role" \in DOMAIN c => d.role = c.role
  BY <1>1
<1>6. "clean" \in DOMAIN c => d.clean \in BOOLEAN /\ (d.clean => c.clean /\ roles'[c.role] = roles[c.role])
  BY <1>100, <1>2 DEF Shape
<1>7. "held" \in DOMAIN c => d.writes \in Nat
  BY <1>100, <1>3 DEF Shape
<1>8. c.pc \in {"routeCheck", "routeWrite"} => d.route = c.route /\ d.args = c.args
  BY <1>100, <1>1 DEF Shape, RouteFields
<1>9. Shape(d)
  BY <1>100, <1>1, <1>4, <1>5, <1>6, <1>7, <1>8 DEF Shape
<1>10. c.pc = "saveRole" => d.copy = c.copy /\ "clean" \in DOMAIN c
  BY <1>100, <1>1 DEF Shape
<1>11. c.pc = "seedLinks" => d.name = c.name
  BY <1>100, <1>1 DEF Shape
<1>12. c.pc = "routeWrite" /\ c.route \in RoleRoutes => "clean" \in DOMAIN c
  BY <1>100 DEF Shape, RouteFields
<1>13. Harmless(op[q])'
  <2>1. c.pc = "saveRole" =>
         /\ IsRole(c.copy)
         /\ d.clean /\ roles'[c.role].system =>
              c.copy.system /\ roles'[c.role].keys \subseteq c.copy.keys
    BY <1>100, <1>6, <1>10 DEF Harmless
  <2>2. c.pc = "routeWrite" =>
         /\ c.route = "update" => c.args.role \in RoleIds
         /\ c.route = "grant" => c.args.key \in catalog'
         /\ c.route \in {"revoke", "delete"} /\ d.clean => ~roles'[c.role].system
    BY <1>100, <1>6, <1>12 DEF Harmless, RoleRoutes
  <2>3. c.pc = "saveRole" => d.role = c.role
    BY <1>100, <1>5, <1>10 DEF Shape
  <2>4. c.pc = "routeWrite" /\ c.route \in RoleRoutes => d.role = c.role
    BY <1>100, <1>5, <1>12 DEF Shape
  <2>6. d.pc = "saveRole" =>
         /\ IsRole(d.copy)
         /\ d.clean /\ roles'[d.role].system =>
              d.copy.system /\ roles'[d.role].keys \subseteq d.copy.keys
    BY <1>4, <1>10, <2>1, <2>3
  <2>7. d.pc = "routeWrite" =>
         /\ d.route = "update" => d.args.role \in RoleIds
         /\ d.route = "grant" => d.args.key \in catalog'
         /\ d.route \in {"revoke", "delete"} /\ d.clean => ~roles'[d.role].system
    BY <1>4, <1>8, <2>2, <2>4 DEF RoleRoutes
  <2>8. d.pc = "seedLinks" => d.name \in DOMAIN SeedRoles
    BY <1>100, <1>4, <1>11 DEF Harmless
  <2> QED
    BY <2>6, <2>7, <2>8 DEF Harmless, IsRole, Role, RoleIds, d
<1> QED
  BY <1>9, <1>13 DEF c, d

\* A step of p is noticed by the others, or nothing happened to roles and assignments.
Others(p) ==
    /\ op' = [q \in Procs |-> op'[q]]
    /\ \A q \in Procs \ {p} : op'[q] = Noticed(op[q]) \/ (op'[q] = op[q] /\ UNCHANGED rbac)

\* No system role loses anything, unless the call of p decided on another version of it.
Stands(p) ==
    \A r \in RoleIds :
        roles[r].system =>
          \/ roles'[r].system /\ roles[r].keys \subseteq roles'[r].keys
          \/ "clean" \in DOMAIN op[p] /\ op[p].role = r /\ ~op[p].clean /\ op'[p] # op[p]

\* All that a step has to show.
LEMMA RInvKept ==
    ASSUME RInv, NEW p, Others(p), RolesOK', catalog \subseteq catalog',
           p \in Procs => Shape(op'[p]) /\ Harmless(op[p])'
    PROVE  RInv'
<1>1. \A q \in Procs : Shape(op[q]) /\ Harmless(op[q])
  BY DEF RInv
<1>2. ASSUME NEW q \in Procs PROVE Shape(op'[q]) /\ Harmless(op[q])'
  <2>1. CASE p = q
    BY <2>1
  <2>2. CASE op'[q] = Noticed(op[q])
    BY <1>1, <2>2, NoticedIsHarmless
  <2>3. CASE op'[q] = op[q] /\ UNCHANGED rbac
    <3>1. roles' = roles /\ catalog' = catalog
      BY <2>3 DEF rbac
    <3> QED
      BY <1>1, <2>3, <3>1 DEF Harmless, IsRole, Role, RoleIds
  <2> QED
    BY <2>1, <2>2, <2>3 DEF Others
<1>3. op' = [q \in Procs |-> op'[q]]
  BY DEF Others
<1>4. SeedPermissions \subseteq catalog'
  BY DEF RInv
<1> QED
  BY <1>2, <1>3, <1>4 DEF RInv, SeedPermissions, RolesWrite, Wildcard, Shape, RoleIds, AskPcs, AskFields, RouteFields, RoleRoutes

\* A step that goes on and writes nothing.
LEMMA GotoLeaves ==
    ASSUME RInv, NEW p \in Procs, UNCHANGED rbac, op' = [op EXCEPT ![p] = op'[p]]
    PROVE  Others(p) /\ Stands(p) /\ RolesOK' /\ catalog \subseteq catalog'
<1>1. roles' = roles /\ catalog' = catalog
  BY DEF rbac
<1>2. RolesOK'
  BY <1>1 DEF RInv, RolesOK, IsRole, Role, RoleIds
<1>3. op' = [q \in Procs |-> op'[q]] /\ \A q \in Procs \ {p} : op'[q] = op[q]
  BY DEF RInv
<1> QED
  BY <1>1, <1>2, <1>3 DEF Others, Stands

\* The others notice.
LEMMA BecomesIs ==
    ASSUME NEW p \in Procs, NEW d, op' = [q \in Procs |-> IF q = p THEN d ELSE Noticed(op[q])]
    PROVE  Others(p) /\ op'[p] = d
<1>1. \A q \in Procs \ {p} : op'[q] = Noticed(op[q])
  OBVIOUS
<1>2. op' = [q \in Procs |-> op'[q]] /\ op'[p] = d
  OBVIOUS
<1> QED
  BY <1>1, <1>2 DEF Others

-----------------------------------------------------------------------------
\* Steps that write one role.
LEMMA OneRole ==
    ASSUME RInv, NEW p \in Procs, NEW r \in RoleIds, NEW role, IsRole(role), role.keys \subseteq catalog',
           roles' = [roles EXCEPT ![r] = role], catalog \subseteq catalog',
           roles[r].system =>
             \/ role.system /\ roles[r].keys \subseteq role.keys
             \/ "clean" \in DOMAIN op[p] /\ op[p].role = r /\ ~op[p].clean /\ op'[p] # op[p]
    PROVE  RolesOK' /\ Stands(p)
<1>1. roles = [i \in RoleIds |-> roles[i]] /\ \A i \in RoleIds : IsRole(roles[i]) /\ roles[i].keys \subseteq catalog
  BY DEF RInv, RolesOK
<1>2. /\ roles' = [i \in RoleIds |-> roles'[i]] /\ roles'[r] = role
      /\ \A i \in RoleIds \ {r} : roles'[i] = roles[i]
  BY <1>1
<1>3. \A i \in RoleIds : IsRole(roles'[i]) /\ roles'[i].keys \subseteq catalog'
  BY <1>1, <1>2
<1> QED
  BY <1>1, <1>2, <1>3 DEF RolesOK, Stands, IsRole, Role, RoleIds

\* Steps that leave the roles alone.
LEMMA NoRoleWritten ==
    ASSUME RInv, NEW p, roles' = roles, catalog \subseteq catalog'
    PROVE  RolesOK' /\ Stands(p)
  BY DEF RInv, RolesOK, Stands, IsRole, Role, RoleIds

\* A new role goes to a row that none has.
LEMMA FreeIsFree == FreeRoles # {} => NewRole \in RoleIds /\ roles[NewRole] = NoRole
<1> SUFFICES ASSUME FreeRoles # {} PROVE NewRole \in FreeRoles
  BY DEF FreeRoles
<1> QED
  BY DEF NewRole

\* A new permission takes nothing away.
LEMMA DefinePermissionOK ==
    ASSUME RInv, NEW p \in Procs, NEW k, DefinePermission(p, k) PROVE RInv' /\ Stands(p)
<1>1. roles' = roles /\ catalog \subseteq catalog'
  BY DEF DefinePermission, SavePermission
<1>2. Others(p) /\ op'[p] = Idle
  BY BecomesIs DEF DefinePermission, Once, Becomes
<1> QED
  BY <1>1, <1>2, NoRoleWritten, RInvKept, IdleIsShaped DEF Harmless, Idle

\* Creating a role takes nothing from the others.
LEMMA CreateRoleOK ==
    ASSUME RInv, NEW p \in Procs, NEW n, NEW s \in BOOLEAN, NEW ks, CreateRole(p, n, s, ks)
    PROVE  RInv' /\ Stands(p)
<1> DEFINE role == [Role(n, s, ks) EXCEPT !.keys = @ \intersect catalog]
<1>1. /\ roles' = [roles EXCEPT ![NewRole] = role] /\ catalog' = catalog
      /\ NewRole \in RoleIds /\ roles[NewRole] = NoRole
  BY FreeIsFree DEF CreateRole, SaveRole
<1>2. IsRole(role) /\ role.keys \subseteq catalog
  BY MadeIsRole, TrimmedIsRole
<1>3. Others(p) /\ op'[p] = Idle
  BY BecomesIs DEF CreateRole, Once, Becomes
<1> HIDE DEF role
<1>4. RolesOK' /\ Stands(p)
  BY <1>1, <1>2, OneRole, NoRoleIsRole
<1> QED
  BY <1>1, <1>3, <1>4, RInvKept, IdleIsShaped DEF Harmless, Idle

\* Assignments are no part of a role.
LEMMA AssignRoleOK ==
    ASSUME RInv, NEW p \in Procs, NEW u, NEW r, NEW o, NEW e, AssignRoleToUser(p, u, r, o, e)
    PROVE RInv' /\ Stands(p)
<1>1. roles' = roles /\ catalog' = catalog
  BY DEF AssignRoleToUser
<1>2. Others(p) /\ op'[p] = Idle
  BY BecomesIs DEF AssignRoleToUser, Once, Becomes
<1> QED
  BY <1>1, <1>2, NoRoleWritten, RInvKept, IdleIsShaped DEF Harmless, Idle

\* Dropping an assignment changes no role.
LEMMA DropFoundOK ==
    ASSUME RInv, NEW p \in Procs, DropFound(p) PROVE RInv' /\ Stands(p)
<1>1. roles' = roles /\ catalog' = catalog
  BY DEF DropFound
<1>2. Others(p) /\ op'[p] = Idle
  BY BecomesIs DEF DropFound, Becomes
<1> QED
  BY <1>1, <1>2, NoRoleWritten, RInvKept, IdleIsShaped DEF Harmless, Idle

\* Saving a copy takes from a system role only what another call has added since it was read.
LEMMA SaveCopyOK ==
    ASSUME RInv, NEW p \in Procs, SaveCopy(p) PROVE RInv' /\ Stands(p)
<1> DEFINE c == op[p]
           role == [c.copy EXCEPT !.keys = @ \intersect catalog]
<1>1. /\ c.pc = "saveRole" /\ DOMAIN c = {"pc", "role", "copy", "clean"} /\ c.role \in RoleIds
      /\ c.clean \in BOOLEAN /\ IsRole(c.copy)
      /\ c.clean /\ roles[c.role].system => c.copy.system /\ roles[c.role].keys \subseteq c.copy.keys
      /\ roles[c.role].keys \subseteq catalog
  BY DEF SaveCopy, RInv, Shape, Harmless, RolesOK
<1>2. CASE UNCHANGED rbac /\ Return(p)
  <2>1. op' = [op EXCEPT ![p] = op'[p]] /\ op'[p] = Idle
    BY <1>2 DEF Return, Goto, RInv
  <2> QED
    BY <1>2, <2>1, GotoLeaves, RInvKept, IdleIsShaped DEF Harmless, Idle
<1>3. CASE SaveRole(c.role, c.copy) /\ UNCHANGED <<now, catalog, assignments>> /\ Becomes(p, Idle)
  <2>1. roles' = [roles EXCEPT ![c.role] = role] /\ catalog' = catalog
    BY <1>3 DEF SaveRole
  <2>2. IsRole(role) /\ role.keys = c.copy.keys \intersect catalog /\ role.system = c.copy.system
    BY <1>1, TrimmedIsRole
  <2>3. Others(p) /\ op'[p] = Idle
    BY <1>3, BecomesIs DEF Becomes
  <2>4. op'[p] # op[p]
    BY <1>1, <2>3 DEF Idle
  <2> HIDE DEF role
  <2>5. roles[c.role].system =>
             \/ role.system /\ roles[c.role].keys \subseteq role.keys
             \/ "clean" \in DOMAIN op[p] /\ op[p].role = c.role /\ ~op[p].clean /\ op'[p] # op[p]
    BY <1>1, <2>2, <2>4
  <2>6. RolesOK' /\ Stands(p)
    BY <1>1, <2>1, <2>2, <2>5, OneRole
  <2> QED
    BY <2>1, <2>3, <2>6, RInvKept, IdleIsShaped DEF Harmless, Idle
<1> QED
  BY <1>2, <1>3 DEF SaveCopy

\* The seed makes a role only where none has its name.
LEMMA SeedDefaultRolesOK ==
    ASSUME RInv, NEW p \in Procs, NEW n \in DOMAIN SeedRoles, SeedDefaultRoles(p, n)
    PROVE  RInv' /\ Stands(p)
<1>1. PICK r : r = IF NameTaken(n) THEN CHOOSE id \in RoleIds : roles[id].name = n ELSE NewRole
  OBVIOUS
<1>2. r \in RoleIds
  BY <1>1, FreeIsFree DEF SeedDefaultRoles, NameTaken
<1>3. PICK role : role = Role(n, TRUE, roles[r].keys)
  OBVIOUS
<1>4. roles' = [roles EXCEPT ![r] = role] /\ catalog' = catalog
  BY <1>1, <1>3 DEF SeedDefaultRoles
<1>5. PICK d : d = [pc |-> "seedLinks", role |-> r, name |-> n, clean |-> TRUE]
  OBVIOUS
<1>6. op' = [q \in Procs |-> IF q = p THEN d ELSE Noticed(op[q])]
  BY <1>1, <1>5 DEF SeedDefaultRoles, Becomes
<1>7. Others(p) /\ op'[p] = d
  BY <1>6, BecomesIs
<1>8. IsRole(role) /\ role.system /\ role.keys = roles[r].keys /\ role.keys \subseteq catalog
  BY <1>2, <1>3 DEF RInv, RolesOK, IsRole, Role
<1>9. RolesOK' /\ Stands(p)
  BY <1>2, <1>4, <1>8, OneRole
<1>10. Shape(d) /\ (d.pc = "seedLinks" /\ d.name = n)
  BY <1>2, <1>5 DEF Shape, AskPcs
<1>11. Harmless(op[p])'
  BY <1>7, <1>10 DEF Harmless
<1> QED
  BY <1>4, <1>7, <1>9, <1>10, <1>11, RInvKept

\* The links of the seed are added to those that are there.
LEMMA SeedLinksOK ==
    ASSUME RInv, NEW p \in Procs, SeedLinks(p) PROVE RInv' /\ Stands(p)
<1> DEFINE c == op[p]
<1>1. c.role \in RoleIds /\ c.name \in DOMAIN SeedRoles /\ catalog' = catalog
  BY DEF SeedLinks, RInv, Shape, Harmless
<1>2. Others(p) /\ op'[p] = Idle
  BY BecomesIs DEF SeedLinks, Becomes
<1>3. RolesOK' /\ Stands(p)
  <2>1. CASE UNCHANGED roles
    BY <1>1, <2>1, NoRoleWritten
  <2>2. CASE roles' = [roles EXCEPT ![c.role].keys = @ \union SeedRoles[c.name]]
    <3>1. PICK role : role = [roles[c.role] EXCEPT !.keys = @ \union SeedRoles[c.name]]
      OBVIOUS
    <3>2. roles' = [roles EXCEPT ![c.role] = role]
      BY <2>2, <3>1
    <3>3. IsRole(roles[c.role]) /\ roles[c.role].keys \subseteq catalog /\ SeedRoles[c.name] \subseteq catalog
      BY <1>1 DEF RInv, RolesOK, SeedPermissions
    <3>4. role = Role(roles[c.role].name, roles[c.role].system, roles[c.role].keys \union SeedRoles[c.name])
      BY <3>1, <3>3, ExtendedIsRole
    <3>5. IsRole(role) /\ role.system = roles[c.role].system
          /\ role.keys = roles[c.role].keys \union SeedRoles[c.name]
      BY <3>3, <3>4, MadeIsRole DEF IsRole
    <3> QED
      BY <1>1, <3>2, <3>3, <3>5, OneRole
  <2> QED
    BY <2>1, <2>2 DEF SeedLinks
<1> QED
  BY <1>1, <1>2, <1>3, RInvKept, IdleIsShaped DEF Harmless, Idle

\* A version of a policy is no role.
LEMMA SavePolicyOK ==
    ASSUME RInv, NEW p \in Procs, SavePolicy(p) PROVE RInv' /\ Stands(p)
<1>1. roles' = roles /\ catalog' = catalog
  BY DEF SavePolicy, rbac
<1>2. PICK d : d = [pc |-> "invalidate", rt |-> Target[op[p].policy]]
  OBVIOUS
<1>3. Others(p) /\ op'[p] = d
  BY <1>2, BecomesIs DEF SavePolicy, Becomes
<1>4. Shape(d) /\ d.pc = "invalidate"
  BY <1>2 DEF Shape, AskPcs
<1> QED
  BY <1>1, <1>3, <1>4, NoRoleWritten, RInvKept DEF Harmless

\* Time changes no role.
LEMMA TickOK ==
    ASSUME RInv, NEW p, p \notin Procs, Tick PROVE RInv' /\ Stands(p)
<1>1. roles' = roles /\ catalog' = catalog
  BY DEF Tick
<1>2. Others(p)
  <2>1. op' = [q \in Procs |-> op'[q]] /\ \A q \in Procs : op'[q] = Noticed(op[q])
    BY DEF Tick
  <2> QED
    BY <2>1 DEF Others
<1> QED
  BY <1>1, <1>2, NoRoleWritten, RInvKept

\* A route writes what its check found, on the row it names.
LEMMA RouteWriteOK ==
    ASSUME RInv, NEW p \in Procs, RouteWrite(p) PROVE RInv' /\ Stands(p)
<1> DEFINE c == op[p]
<1>1. c.pc = "routeWrite" /\ Accepted(c) /\ WriteRoles(c) /\ catalog' = catalog
  BY DEF RouteWrite
<1>2. Others(p) /\ op'[p] = Idle
  BY BecomesIs DEF RouteWrite, Becomes
<1>3. Shape(c) /\ Harmless(c) /\ RolesOK
  BY DEF RInv
<1>4. op'[p] # op[p]
  BY <1>1, <1>2, IdleIsShaped
<1>5. c.route \in RoleRoutes => /\ "clean" \in DOMAIN c /\ c.role \in RoleIds /\ c.clean \in BOOLEAN
                                /\ IsRole(roles[c.role]) /\ roles[c.role].keys \subseteq catalog
  BY <1>1, <1>3 DEF Shape, RouteFields, RolesOK
<1>6. RolesOK' /\ Stands(p)
  <2>1. CASE c.route = "create" /\ roles' = [roles EXCEPT ![NewRole] = Role(c.args.name, FALSE, {})]
    <3>1. FreeRoles # {}
      BY <1>1, <2>1 DEF Accepted
    <3>2. PICK role : role = Role(c.args.name, FALSE, {})
      OBVIOUS
    <3>3. IsRole(role) /\ role.keys = {}
      BY <3>2 DEF IsRole, Role
    <3> QED
      BY <1>1, <2>1, <3>1, <3>2, <3>3, FreeIsFree, NoRoleIsRole, OneRole
  <2>2. CASE c.route = "update" /\ roles' = [roles EXCEPT ![c.args.role].name = c.args.name]
    <3>1. PICK r : r = c.args.role
      OBVIOUS
    <3>2. r \in RoleIds /\ IsRole(roles[r]) /\ roles[r].keys \subseteq catalog
      BY <1>1, <1>3, <2>2, <3>1 DEF Harmless, RolesOK
    <3>3. PICK role : role = [roles[r] EXCEPT !.name = c.args.name]
      OBVIOUS
    <3>4. role = Role(c.args.name, roles[r].system, roles[r].keys)
      BY <3>2, <3>3, RenamedIsRole
    <3>5. IsRole(role) /\ role.system = roles[r].system /\ role.keys = roles[r].keys
      BY <3>2, <3>4, MadeIsRole DEF IsRole
    <3>6. roles' = [roles EXCEPT ![r] = role]
      BY <2>2, <3>1, <3>3
    <3> QED
      BY <1>1, <3>2, <3>5, <3>6, OneRole
  <2>3. CASE c.route = "grant" /\ roles' = [roles EXCEPT ![c.role] = Grant(@, c.args.key)]
    <3>1. PICK role : role = Grant(roles[c.role], c.args.key)
      OBVIOUS
    <3>2. c.args.key \in catalog /\ c.role \in RoleIds /\ IsRole(roles[c.role]) /\ roles[c.role].keys \subseteq catalog
      BY <1>1, <1>3, <1>5, <2>3 DEF Harmless, RoleRoutes
    <3>3. IsRole(role) /\ role.system = roles[c.role].system /\ role.keys = roles[c.role].keys \union {c.args.key}
      BY <3>1, <3>2, ChangedIsRole
    <3>4. roles' = [roles EXCEPT ![c.role] = role]
      BY <2>3, <3>1
    <3> QED
      BY <1>1, <3>2, <3>3, <3>4, OneRole
  <2>4. CASE c.route = "revoke" /\ roles' = [roles EXCEPT ![c.role] = Revoke(@, c.args.key)]
    <3>1. PICK role : role = Revoke(roles[c.role], c.args.key)
      OBVIOUS
    <3>2. /\ c.clean => ~roles[c.role].system
          /\ c.role \in RoleIds /\ IsRole(roles[c.role]) /\ roles[c.role].keys \subseteq catalog
          /\ "clean" \in DOMAIN c /\ c.clean \in BOOLEAN
      BY <1>1, <1>3, <1>5, <2>4 DEF Harmless, RoleRoutes
    <3>3. IsRole(role) /\ role.system = roles[c.role].system /\ role.keys = roles[c.role].keys \ {c.args.key}
      BY <3>1, <3>2, ChangedIsRole
    <3>4. roles' = [roles EXCEPT ![c.role] = role]
      BY <2>4, <3>1
    <3> QED
      BY <1>1, <1>4, <3>2, <3>3, <3>4, OneRole
  <2>5. CASE c.route = "delete" /\ DeleteRole(c.role)
    <3>1. /\ c.clean => ~roles[c.role].system
          /\ c.role \in RoleIds /\ "clean" \in DOMAIN c /\ c.clean \in BOOLEAN
      BY <1>1, <1>3, <1>5, <2>5 DEF Harmless, RoleRoutes
    <3>2. roles' = [roles EXCEPT ![c.role] = GoneRole]
      BY <2>5 DEF DeleteRole
    <3> QED
      BY <1>1, <1>4, <3>1, <3>2, NoRoleIsRole, OneRole
  <2>6. CASE UNCHANGED roles
    BY <1>1, <2>6, NoRoleWritten
  <2> QED
    BY <1>1, <2>1, <2>2, <2>3, <2>4, <2>5, <2>6 DEF WriteRoles
<1> QED
  BY <1>1, <1>2, <1>6, RInvKept, IdleIsShaped DEF Harmless, Idle

\* A step that writes nothing and does not get ready to write a role.
LEMMA QuietOK ==
    ASSUME RInv, NEW p \in Procs, UNCHANGED rbac, op' = [op EXCEPT ![p] = op'[p]],
           Shape(op'[p]), op'[p].pc \notin {"saveRole", "seedLinks", "routeWrite"}
    PROVE  RInv' /\ Stands(p)
<1>1. Harmless(op[p])'
  BY DEF Harmless
<1> QED
  BY <1>1, GotoLeaves, RInvKept

\* Where a call goes is what the process is in.
LEMMA GotoIs ==
    ASSUME RInv, NEW p \in Procs, NEW d, op' = [op EXCEPT ![p] = d]
    PROVE  op'[p] = d /\ op' = [op EXCEPT ![p] = op'[p]]
  BY DEF RInv

\* The copy that is going to be saved has one permission more.
LEMMA AssignPermissionOK ==
    ASSUME RInv, NEW p \in Procs, NEW r \in RoleIds, NEW k, AssignPermissionToRole(p, r, k)
    PROVE  RInv' /\ Stands(p)
<1>1. PICK copy : copy = Grant(roles[r], k)
  OBVIOUS
<1>2. PICK d : d = [pc |-> "saveRole", role |-> r, copy |-> copy, clean |-> TRUE]
  OBVIOUS
<1>3. UNCHANGED rbac /\ op'[p] = d /\ op' = [op EXCEPT ![p] = op'[p]]
  BY <1>1, <1>2, GotoIs DEF AssignPermissionToRole, Begin, Goto, RoleCall
<1>4. /\ IsRole(copy) /\ copy.system = roles[r].system
      /\ copy.keys = roles[r].keys \union {k}
  BY <1>1, ChangedIsRole DEF RInv, RolesOK
<1>5. Shape(d)
  BY <1>2 DEF Shape, AskPcs
<1>6. roles' = roles
  BY <1>3 DEF rbac
<1>7. Harmless(op[p])'
  BY <1>2, <1>3, <1>4, <1>6 DEF Harmless, IsRole, Role
<1> QED
  BY <1>3, <1>5, <1>7, GotoLeaves, RInvKept

\* Or one permission less, if the role is no system role.
LEMMA RevokePermissionOK ==
    ASSUME RInv, NEW p \in Procs, NEW r \in RoleIds, NEW k, RevokePermissionFromRole(p, r, k)
    PROVE  RInv' /\ Stands(p)
<1>1. PICK copy : copy = Revoke(roles[r], k)
  OBVIOUS
<1>2. PICK d : d = [pc |-> "saveRole", role |-> r, copy |-> copy, clean |-> TRUE]
  OBVIOUS
<1>3. UNCHANGED rbac /\ op'[p] = d /\ op' = [op EXCEPT ![p] = op'[p]]
  BY <1>1, <1>2, GotoIs DEF RevokePermissionFromRole, Begin, Goto, RoleCall
<1>4. IsRole(copy) /\ ~roles[r].system
  BY <1>1, ChangedIsRole DEF RInv, RolesOK, RevokePermissionFromRole
<1>5. Shape(d)
  BY <1>2 DEF Shape, AskPcs
<1>6. roles' = roles
  BY <1>3 DEF rbac
<1>7. Harmless(op[p])'
  BY <1>2, <1>3, <1>4, <1>6 DEF Harmless, IsRole, Role
<1> QED
  BY <1>3, <1>5, <1>7, GotoLeaves, RInvKept

\* The routes that look up no role first.
LEMMA RouteBeginsOK ==
    ASSUME RInv, NEW p \in Procs, NEW route \in {"create", "update", "unassign"}, NEW args,
           route = "update" => args.role \in RoleIds, Begin(p, RouteCall(route, args))
    PROVE  RInv' /\ Stands(p)
<1>1. PICK d : d = [pc |-> "routeWrite", route |-> route, args |-> args]
  OBVIOUS
<1>2. UNCHANGED rbac /\ op'[p] = d /\ op' = [op EXCEPT ![p] = op'[p]]
  BY <1>1, GotoIs DEF Begin, Goto, RouteCall
<1>3. Shape(d)
  BY <1>1 DEF Shape, AskPcs, RoleRoutes
<1>4. Harmless(op[p])'
  BY <1>1, <1>2 DEF Harmless, RoleIds
<1> QED
  BY <1>2, <1>3, <1>4, GotoLeaves, RInvKept

\* A route that names a role has not looked at it yet.
LEMMA OnRoleOK ==
    ASSUME RInv, NEW p \in Procs, NEW route \in RoleRoutes, NEW args, NEW r \in RoleIds,
           Begin(p, OnRole(route, r, args))
    PROVE  RInv' /\ Stands(p)
<1>1. PICK d : d = [pc |-> "routeCheck", route |-> route, role |-> r, clean |-> TRUE, args |-> args]
  OBVIOUS
<1>2. UNCHANGED rbac /\ op'[p] = d /\ op' = [op EXCEPT ![p] = op'[p]]
  BY <1>1, GotoIs DEF Begin, Goto, OnRole
<1>3. Shape(d) /\ d.pc = "routeCheck"
  BY <1>1 DEF Shape, AskPcs, RouteFields
<1> QED
  BY <1>2, <1>3, QuietOK

\* A call that returns is no longer about to write.
LEMMA ReturnOK ==
    ASSUME RInv, NEW p \in Procs, UNCHANGED rbac, Return(p)
    PROVE  RInv' /\ Stands(p)
  BY GotoIs, QuietOK, IdleIsShaped DEF Return, Goto

\* The check of a route looks at the role that the route names.
LEMMA RouteCheckOK ==
    ASSUME RInv, NEW p \in Procs, RouteCheck(p)
    PROVE  RInv' /\ Stands(p)
<1> DEFINE c == op[p]
<1>1. UNCHANGED rbac
  BY DEF RouteCheck, Reads
<1>2. CASE Return(p)
  BY <1>1, <1>2, ReturnOK
<1>3. CASE ~Refused(c) /\ Goto(p, [c EXCEPT !.pc = "routeWrite", !.clean = TRUE])
  <2>1. DOMAIN c = RouteFields /\ c.route \in RoleRoutes /\ c.role \in RoleIds
    BY DEF RouteCheck, RInv, Shape, RouteFields
  <2>2. PICK d : d = [c EXCEPT !.pc = "routeWrite", !.clean = TRUE]
    OBVIOUS
  <2>3. /\ DOMAIN d = RouteFields /\ d.pc = "routeWrite" /\ d.clean = TRUE
        /\ d.route = c.route /\ d.role = c.role /\ d.args = c.args
    BY <2>1, <2>2 DEF RouteFields
  <2>4. op'[p] = d /\ op' = [op EXCEPT ![p] = op'[p]]
    BY <1>3, <2>2, GotoIs DEF Goto
  <2>5. Shape(d)
    BY <2>1, <2>3 DEF Shape, AskPcs, RouteFields, RoleRoutes
  <2>6. /\ c.route = "grant" => c.args.key \in catalog
        /\ c.route \in {"revoke", "delete"} => ~roles[c.role].system
    BY <1>3 DEF Refused
  <2>7. roles' = roles /\ catalog' = catalog
    BY <1>1 DEF rbac
  <2>8. Harmless(op[p])'
    BY <2>1, <2>3, <2>4, <2>6, <2>7 DEF Harmless, RoleRoutes
  <2> QED
    BY <1>1, <2>4, <2>5, <2>8, GotoLeaves, RInvKept
<1> QED
  BY <1>2, <1>3 DEF RouteCheck

\* A check that goes on.
LEMMA AskingOK ==
    ASSUME RInv, NEW p \in Procs, UNCHANGED rbac, op' = [op EXCEPT ![p] = op'[p]],
           DOMAIN op'[p] = AskFields, op'[p].pc \in AskPcs, op'[p].writes \in Nat
    PROVE  RInv' /\ Stands(p)
<1>1. Shape(op'[p])
  BY DEF Shape, AskFields, AskPcs
<1> QED
  BY <1>1, QuietOK DEF AskPcs

\* A call of another kind.
LEMMA OtherCallOK ==
    ASSUME RInv, NEW p \in Procs, UNCHANGED rbac, op' = [op EXCEPT ![p] = op'[p]],
           "pc" \in DOMAIN op'[p], DOMAIN op'[p] \intersect {"held", "clean"} = {},
           op'[p].pc \in {"dropRow", "saveVersion", "invalidate", "simulate", "exited"}
    PROVE  RInv' /\ Stands(p)
<1>1. Shape(op'[p])
  BY DEF Shape, AskPcs
<1> QED
  BY <1>1, QuietOK

\* The use cases leave system roles standing.
LEMMA RoleStepOK ==
    ASSUME RInv, NEW p \in Procs, RoleStep(p) PROVE RInv' /\ Stands(p)
<1>1. CASE \E k \in Keys : DefinePermission(p, k)
  BY <1>1, DefinePermissionOK
<1>2. CASE \E n \in Names, s \in BOOLEAN, ks \in SUBSET {ActionKey, Wildcard} : CreateRole(p, n, s, ks)
  BY <1>2, CreateRoleOK
<1>3. CASE \E r \in RoleIds, k \in Keys : AssignPermissionToRole(p, r, k)
  BY <1>3, AssignPermissionOK
<1>4. CASE \E r \in RoleIds, k \in Keys : RevokePermissionFromRole(p, r, k)
  BY <1>4, RevokePermissionOK
<1>5. CASE SaveCopy(p)
  BY <1>5, SaveCopyOK
<1>6. CASE \E n \in DOMAIN SeedRoles : SeedDefaultRoles(p, n)
  BY <1>6, SeedDefaultRolesOK
<1>7. CASE SeedLinks(p)
  BY <1>7, SeedLinksOK
<1>8. CASE \E u \in Users, r \in RoleIds, o \in Orgs, e \in {1, Never} : AssignRoleToUser(p, u, r, o, e)
  BY <1>8, AssignRoleOK
<1>9. CASE \E a \in RowIds, byTuple \in BOOLEAN : RevokeRoleFromUser(p, a, byTuple)
  <2>1. PICK a : Begin(p, [pc |-> "dropRow", row |-> a])
    BY <1>9 DEF RevokeRoleFromUser
  <2>2. PICK d : d = [pc |-> "dropRow", row |-> a]
    OBVIOUS
  <2>3. UNCHANGED rbac /\ op'[p] = d /\ op' = [op EXCEPT ![p] = op'[p]]
    BY <2>1, <2>2, GotoIs DEF Begin, Goto
  <2> QED
    BY <2>2, <2>3, OtherCallOK
<1>10. CASE DropFound(p)
  BY <1>10, DropFoundOK
<1> QED
  BY <1>1, <1>2, <1>3, <1>4, <1>5, <1>6, <1>7, <1>8, <1>9, <1>10 DEF RoleStep

\* So do the admin routes.
LEMMA RouteStepOK ==
    ASSUME RInv, NEW p \in Procs, RouteStep(p) PROVE RInv' /\ Stands(p)
<1>1. ASSUME NEW u, NEW o, NEW n, CreateRoleRoute(p, u, o, n) PROVE RInv' /\ Stands(p)
  BY <1>1, RouteBeginsOK DEF CreateRoleRoute
<1>2. ASSUME NEW u, NEW o, NEW n, NEW r \in RoleIds, UpdateRoleRoute(p, u, o, r, n) PROVE RInv' /\ Stands(p)
  <2>1. PICK args : args = [role |-> r, name |-> n]
    OBVIOUS
  <2>2. Begin(p, RouteCall("update", args)) /\ args.role \in RoleIds
    BY <1>2, <2>1 DEF UpdateRoleRoute
  <2> QED
    BY <2>2, RouteBeginsOK
<1>3. ASSUME NEW u, NEW o, NEW r \in RoleIds, NEW k, NEW route \in {"grant", "revoke"}, PermissionRoute(p, u, o, r, k, route)
      PROVE RInv' /\ Stands(p)
  BY <1>3, OnRoleOK DEF PermissionRoute, RoleRoutes
<1>4. ASSUME NEW u, NEW o, NEW r \in RoleIds, DeleteRoleRoute(p, u, o, r) PROVE RInv' /\ Stands(p)
  BY <1>4, OnRoleOK DEF DeleteRoleRoute, RoleRoutes
<1>5. ASSUME NEW u, NEW o, NEW r \in RoleIds, NEW t, NEW e, AssignRoute(p, u, o, r, t, e) PROVE RInv' /\ Stands(p)
  BY <1>5, OnRoleOK DEF AssignRoute, RoleRoutes
<1>6. ASSUME NEW u, NEW o, NEW a, RevokeAssignmentRoute(p, u, o, a) PROVE RInv' /\ Stands(p)
  BY <1>6, RouteBeginsOK DEF RevokeAssignmentRoute
<1>7. CASE RouteCheck(p)
  BY <1>7, RouteCheckOK
<1>8. CASE RouteWrite(p)
  BY <1>8, RouteWriteOK
<1>9. CASE RouteFails(p)
  BY <1>9, ReturnOK DEF RouteFails, Reads
<1> QED
  BY <1>1, <1>2, <1>3, <1>4, <1>5, <1>6, <1>7, <1>8, <1>9 DEF RouteStep

-----------------------------------------------------------------------------
\* What the calls of a check are after each of its steps.
LEMMA AskingBegins ==
    ASSUME RInv, NEW p \in Procs, NEW for, NEW u, NEW o, NEW asks, Begin(p, Asking(for, u, o, asks))
    PROVE  /\ UNCHANGED <<rbac, policyTables, lost>> /\ op' = [op EXCEPT ![p] = op'[p]]
           /\ DOMAIN op'[p] = AskFields
           /\ op'[p].pc = "readRows" /\ op'[p].for = for /\ op'[p].user = u /\ op'[p].org = o
           /\ op'[p].asks = asks /\ op'[p].todo = {} /\ op'[p].granted = {} /\ op'[p].writes = 0
           /\ op'[p].held = Holds(roles, assignments, now, u, o)
           /\ op'[p].always = Holds(roles, assignments, now, u, o)
           /\ op'[p].excused = FALSE /\ op'[p].failed = FALSE /\ op'[p].decision = "none"
<1> DEFINE holds == Holds(roles, assignments, now, u, o)
<1>1. PICK d : d = [pc |-> "readRows", for |-> for, user |-> u, org |-> o, asks |-> asks,
       todo |-> {}, granted |-> {}, held |-> holds, always |-> holds, writes |-> 0,
       value |-> <<>>, loaded |-> <<>>, excused |-> FALSE, failed |-> FALSE, decision |-> "none"]
  OBVIOUS
<1>2. UNCHANGED <<rbac, policyTables, lost>> /\ op'[p] = d /\ op' = [op EXCEPT ![p] = op'[p]]
  BY <1>1, GotoIs DEF Begin, Goto, Asking
<1> HIDE DEF holds
<1>3. /\ DOMAIN d = AskFields
      /\ d.pc = "readRows" /\ d.for = for /\ d.user = u /\ d.org = o
      /\ d.asks = asks /\ d.todo = {} /\ d.granted = {} /\ d.writes = 0
      /\ d.held = holds /\ d.always = holds
      /\ d.excused = FALSE /\ d.failed = FALSE /\ d.decision = "none"
  BY <1>1 DEF AskFields
<1> QED
  BY <1>2, <1>3 DEF holds

\* What is not edited stays.
LEMMA ReadRowsIs ==
    ASSUME RInv, NEW p \in Procs, ReadRows(p)
    PROVE  LET c == op[p] IN
           /\ c.pc = "readRows" /\ UNCHANGED <<rbac, policyTables, lost>> /\ op' = [op EXCEPT ![p] = op'[p]]
           /\ DOMAIN c = AskFields /\ DOMAIN op'[p] = AskFields
           /\ op'[p].pc = "readRoles" /\ op'[p].todo = ActiveRoles(assignments, c.user, c.org, now)
           /\ \A f \in AskFields \ {"pc", "todo"} : op'[p][f] = c[f]
<1>1. DOMAIN op[p] = AskFields
  BY DEF ReadRows, RInv, Shape, AskPcs
<1>2. PICK d : d = [op[p] EXCEPT !.pc = "readRoles", !.todo = ActiveRoles(assignments, op[p].user, op[p].org, now)]
  OBVIOUS
<1>3. UNCHANGED <<rbac, policyTables, lost>> /\ op'[p] = d /\ op' = [op EXCEPT ![p] = op'[p]]
  BY <1>2, GotoIs DEF ReadRows, Goto, Reads
<1>4. /\ DOMAIN d = AskFields /\ d.pc = "readRoles" /\ d.todo = ActiveRoles(assignments, op[p].user, op[p].org, now)
      /\ \A f \in AskFields \ {"pc", "todo"} : d[f] = op[p][f]
  BY <1>1, <1>2 DEF AskFields
<1> QED
  BY <1>1, <1>3, <1>4 DEF ReadRows

\* Reading a role adds what it grants.
LEMMA ReadRoleIs ==
    ASSUME RInv, NEW p \in Procs, NEW r, ReadRole(p, r)
    PROVE  LET c == op[p] IN
           /\ c.pc = "readRoles" /\ r \in c.todo
           /\ UNCHANGED <<rbac, policyTables, lost>> /\ op' = [op EXCEPT ![p] = op'[p]]
           /\ DOMAIN c = AskFields /\ DOMAIN op'[p] = AskFields
           /\ op'[p].todo = c.todo \ {r} /\ op'[p].granted = c.granted \union roles[r].keys
           /\ \A f \in AskFields \ {"granted", "todo"} : op'[p][f] = c[f]
<1>1. DOMAIN op[p] = AskFields
  BY DEF ReadRole, RInv, Shape, AskPcs
<1>2. PICK d : d = [op[p] EXCEPT !.todo = @ \ {r}, !.granted = @ \union roles[r].keys]
  OBVIOUS
<1>3. UNCHANGED <<rbac, policyTables, lost>> /\ op'[p] = d /\ op' = [op EXCEPT ![p] = op'[p]]
  BY <1>2, GotoIs DEF ReadRole, Goto, Reads
<1>4. /\ DOMAIN d = AskFields
      /\ d.todo = op[p].todo \ {r} /\ d.granted = op[p].granted \union roles[r].keys
      /\ \A f \in AskFields \ {"granted", "todo"} : d[f] = op[p][f]
  BY <1>1, <1>2 DEF AskFields
<1> QED
  BY <1>1, <1>3, <1>4 DEF ReadRole

\* Whether the permissions read are what a guard asks for.
Suffice(c) ==
    IF c.asks.mode = "all" THEN \A k \in c.asks.keys : HasPermission(c.granted, k)
    ELSE \E k \in c.asks.keys : HasPermission(c.granted, k)

\* A guard answers from what was granted.
LEMMA GuardIs ==
    ASSUME RInv, NEW p \in Procs, Guard(p)
    PROVE  LET c == op[p] IN
           /\ c.pc = "readRoles" /\ c.todo = {} /\ c.for = "guard"
           /\ UNCHANGED <<rbac, policyTables, lost>> /\ op' = [op EXCEPT ![p] = op'[p]]
           /\ DOMAIN c = AskFields /\ DOMAIN op'[p] = AskFields
           /\ op'[p].pc = IF Suffice(c) THEN "allowed" ELSE "forbidden"
           /\ \A f \in AskFields \ {"pc"} : op'[p][f] = c[f]
<1>1. DOMAIN op[p] = AskFields
  BY DEF Guard, RInv, Shape, AskPcs
<1>2. PICK d : d = [op[p] EXCEPT !.pc = IF Suffice(op[p]) THEN "allowed" ELSE "forbidden"]
  OBVIOUS
<1>3. UNCHANGED <<rbac, policyTables, lost>> /\ op'[p] = d /\ op' = [op EXCEPT ![p] = op'[p]]
  BY <1>2, GotoIs DEF Guard, Goto, Reads, Suffice
<1>4. /\ DOMAIN d = AskFields /\ d.pc = IF Suffice(op[p]) THEN "allowed" ELSE "forbidden"
      /\ \A f \in AskFields \ {"pc"} : d[f] = op[p][f]
  BY <1>1, <1>2 DEF AskFields
<1> QED
  BY <1>1, <1>3, <1>4 DEF Guard

\* A store or provider that does not answer ends the check in DENY.
LEMMA FailClosedIs ==
    ASSUME RInv, NEW p \in Procs, FailClosed(p)
    PROVE  LET c == op[p] IN
           /\ c.pc \in {"readRows", "readRoles", "load"}
           /\ UNCHANGED <<rbac, policyTables, lost>> /\ op' = [op EXCEPT ![p] = op'[p]]
           /\ DOMAIN c = AskFields /\ DOMAIN op'[p] = AskFields
           /\ op'[p].pc = "decided" /\ op'[p].decision = "DENY" /\ op'[p].failed
           /\ \A f \in AskFields \ {"pc", "decision", "failed"} : op'[p][f] = c[f]
<1>1. DOMAIN op[p] = AskFields
  BY DEF FailClosed, RInv, Shape, AskPcs
<1>2. PICK d : d = [op[p] EXCEPT !.pc = "decided", !.decision = "DENY", !.failed = TRUE]
  OBVIOUS
<1>3. UNCHANGED <<rbac, policyTables, lost>> /\ op'[p] = d /\ op' = [op EXCEPT ![p] = op'[p]]
  BY <1>2, GotoIs DEF FailClosed, Goto
<1>4. /\ DOMAIN d = AskFields /\ d.pc = "decided" /\ d.decision = "DENY" /\ d.failed = TRUE
      /\ \A f \in AskFields \ {"pc", "decision", "failed"} : d[f] = op[p][f]
  BY <1>1, <1>2 DEF AskFields
<1> QED
  BY <1>1, <1>3, <1>4 DEF FailClosed

\* A miss leads to the tables, a hit to the decision with an entry's value.
LEMMA CacheGetIs ==
    ASSUME RInv, NEW p \in Procs, CacheGet(p)
    PROVE  LET c == op[p] IN
           /\ c.pc = "readRoles" /\ c.todo = {} /\ c.for = "action"
           /\ UNCHANGED <<rbac, lost, policies, globalGeneration, generations>> /\ entries' \subseteq entries
           /\ op' = [op EXCEPT ![p] = op'[p]]
           /\ DOMAIN c = AskFields /\ DOMAIN op'[p] = AskFields
           /\ \A f \in AskFields \ {"pc", "value", "excused"} : op'[p][f] = c[f]
           /\ \/ op'[p].pc = "load" /\ op'[p].excused = c.excused
              \/ /\ op'[p].pc = "evaluate"
                 /\ \E e \in Reachable(c.asks.rt) :
                      /\ op'[p].value = e.value
                      /\ op'[p].excused = (e.late \/ c.asks.rt \in lost \/ Publishing(c.asks.rt))
<1> DEFINE c == op[p]
<1>1. DOMAIN c = AskFields /\ UNCHANGED <<rbac, lost>> /\ c.pc = "readRoles" /\ c.todo = {} /\ c.for = "action"
  BY DEF CacheGet, RInv, Shape, AskPcs
<1>2. UNCHANGED <<policies, globalGeneration, generations>> /\ entries' \subseteq entries
  BY DEF CacheGet, Expire, policyTables
<1>3. CASE Goto(p, [c EXCEPT !.pc = "load"])
  <2>1. PICK d : d = [c EXCEPT !.pc = "load"]
    OBVIOUS
  <2>2. op'[p] = d /\ op' = [op EXCEPT ![p] = op'[p]]
    BY <1>3, <2>1, GotoIs DEF Goto
  <2>3. DOMAIN d = AskFields /\ d.pc = "load" /\ \A f \in AskFields \ {"pc"} : d[f] = c[f]
    BY <1>1, <2>1 DEF AskFields
  <2>4. d.excused = c.excused
    BY <2>3 DEF AskFields
  <2> QED
    BY <1>1, <1>2, <2>2, <2>3, <2>4
<1>4. ASSUME NEW e \in Reachable(c.asks.rt),
             Goto(p, [c EXCEPT !.pc = "evaluate", !.value = e.value,
                               !.excused = e.late \/ c.asks.rt \in lost \/ Publishing(c.asks.rt)])
      PROVE  /\ op' = [op EXCEPT ![p] = op'[p]]
             /\ DOMAIN op'[p] = AskFields /\ op'[p].pc = "evaluate" /\ op'[p].value = e.value
             /\ op'[p].excused = (e.late \/ c.asks.rt \in lost \/ Publishing(c.asks.rt))
             /\ \A f \in AskFields \ {"pc", "value", "excused"} : op'[p][f] = c[f]
  <2>1. PICK x : x = (e.late \/ c.asks.rt \in lost \/ Publishing(c.asks.rt))
    OBVIOUS
  <2>2. PICK d : d = [c EXCEPT !.pc = "evaluate", !.value = e.value, !.excused = x]
    OBVIOUS
  <2>3. op'[p] = d /\ op' = [op EXCEPT ![p] = op'[p]]
    BY <1>4, <2>1, <2>2, GotoIs DEF Goto
  <2>4. /\ DOMAIN d = AskFields /\ d.pc = "evaluate" /\ d.value = e.value /\ d.excused = x
        /\ \A f \in AskFields \ {"pc", "value", "excused"} : d[f] = c[f]
    BY <1>1, <2>2 DEF AskFields
  <2> QED
    BY <2>1, <2>3, <2>4
<1>5. \/ Goto(p, [c EXCEPT !.pc = "load"])
      \/ \E e \in Reachable(c.asks.rt) :
             Goto(p, [c EXCEPT !.pc = "evaluate", !.value = e.value,
                               !.excused = e.late \/ c.asks.rt \in lost \/ Publishing(c.asks.rt)])
  BY DEF CacheGet
<1>6. CASE \E e \in Reachable(c.asks.rt) :
             Goto(p, [c EXCEPT !.pc = "evaluate", !.value = e.value,
                               !.excused = e.late \/ c.asks.rt \in lost \/ Publishing(c.asks.rt)])
  <2>1. PICK e \in Reachable(c.asks.rt) :
             Goto(p, [c EXCEPT !.pc = "evaluate", !.value = e.value,
                               !.excused = e.late \/ c.asks.rt \in lost \/ Publishing(c.asks.rt)])
    BY <1>6
  <2> QED
    BY <1>1, <1>2, <2>1, <1>4
<1> QED
  BY <1>3, <1>5, <1>6

\* A miss loads the latest versions, under the generation of that moment.
LEMMA LoadPoliciesIs ==
    ASSUME RInv, NEW p \in Procs, LoadPolicies(p)
    PROVE  LET c == op[p] IN
           /\ c.pc = "load"
           /\ UNCHANGED <<rbac, policyTables, lost>> /\ op' = [op EXCEPT ![p] = op'[p]]
           /\ DOMAIN c = AskFields /\ DOMAIN op'[p] = AskFields
           /\ op'[p].pc = "store" /\ op'[p].value = LatestFor(c.asks.rt) /\ op'[p].loaded = Generation(c.asks.rt)
           /\ \A f \in AskFields \ {"pc", "value", "loaded"} : op'[p][f] = c[f]
<1>1. DOMAIN op[p] = AskFields
  BY DEF LoadPolicies, RInv, Shape, AskPcs
<1>2. PICK d : d = [op[p] EXCEPT !.pc = "store", !.value = LatestFor(op[p].asks.rt),
                                 !.loaded = Generation(op[p].asks.rt)]
  OBVIOUS
<1>3. UNCHANGED <<rbac, policyTables, lost>> /\ op'[p] = d /\ op' = [op EXCEPT ![p] = op'[p]]
  BY <1>2, GotoIs DEF LoadPolicies, Goto, Reads
<1>4. /\ DOMAIN d = AskFields /\ d.pc = "store"
      /\ d.value = LatestFor(op[p].asks.rt) /\ d.loaded = Generation(op[p].asks.rt)
      /\ \A f \in AskFields \ {"pc", "value", "loaded"} : d[f] = op[p][f]
  BY <1>1, <1>2 DEF AskFields
<1> QED
  BY <1>1, <1>3, <1>4 DEF LoadPolicies

\* They are stored under the generation of the moment they are stored at, or not at all.
LEMMA CacheSetIs ==
    ASSUME RInv, NEW p \in Procs, CacheSet(p)
    PROVE  LET c == op[p] IN
           /\ c.pc = "store"
           /\ UNCHANGED <<rbac, lost, policies, globalGeneration, generations>>
           /\ \/ entries' = entries
              \/ entries' = (entries \ Reachable(c.asks.rt)) \union
                   {[rt |-> c.asks.rt, generation |-> Generation(c.asks.rt), value |-> c.value,
                     late |-> c.loaded # Generation(c.asks.rt)]}
           /\ op' = [op EXCEPT ![p] = op'[p]]
           /\ DOMAIN c = AskFields /\ DOMAIN op'[p] = AskFields /\ op'[p].pc = "evaluate"
           /\ \A f \in AskFields \ {"pc"} : op'[p][f] = c[f]
<1>1. DOMAIN op[p] = AskFields
  BY DEF CacheSet, RInv, Shape, AskPcs
<1>2. PICK d : d = [op[p] EXCEPT !.pc = "evaluate"]
  OBVIOUS
<1>3. op'[p] = d /\ op' = [op EXCEPT ![p] = op'[p]]
  BY <1>2, GotoIs DEF CacheSet, Goto
<1>4. DOMAIN d = AskFields /\ d.pc = "evaluate" /\ \A f \in AskFields \ {"pc"} : d[f] = op[p][f]
  BY <1>1, <1>2 DEF AskFields
<1>5. /\ UNCHANGED <<rbac, lost, policies, globalGeneration, generations>> /\ op[p].pc = "store"
      /\ \/ entries' = entries
         \/ entries' = (entries \ Reachable(op[p].asks.rt)) \union
              {[rt |-> op[p].asks.rt, generation |-> Generation(op[p].asks.rt), value |-> op[p].value,
                late |-> op[p].loaded # Generation(op[p].asks.rt)]}
  BY DEF CacheSet, Set, policyTables
<1> QED
  BY <1>1, <1>3, <1>4, <1>5

RoleDecision(c) == IF HasPermission(c.granted, ActionKey) THEN "grant" ELSE "no-match"

\* The decision composes the answers of the two layers.
LEMMA DecideIs ==
    ASSUME RInv, NEW p \in Procs, Decide(p)
    PROVE  LET c == op[p] IN
           /\ c.pc = "evaluate"
           /\ UNCHANGED <<rbac, policyTables, lost>> /\ op' = [op EXCEPT ![p] = op'[p]]
           /\ DOMAIN c = AskFields /\ DOMAIN op'[p] = AskFields
           /\ op'[p].pc = "decided"
           /\ op'[p].decision = Compose(RoleDecision(c), Evaluate(c.value, c.asks.context))
           /\ \A f \in AskFields \ {"pc", "decision"} : op'[p][f] = c[f]
<1>1. DOMAIN op[p] = AskFields
  BY DEF Decide, RInv, Shape, AskPcs
<1>2. PICK x : x = Compose(RoleDecision(op[p]), Evaluate(op[p].value, op[p].asks.context))
  OBVIOUS
<1>3. PICK d : d = [op[p] EXCEPT !.pc = "decided", !.decision = x]
  OBVIOUS
<1>4. UNCHANGED <<rbac, policyTables, lost>> /\ op'[p] = d /\ op' = [op EXCEPT ![p] = op'[p]]
  BY <1>2, <1>3, GotoIs DEF Decide, Goto, Reads, RoleDecision
<1>5. /\ DOMAIN d = AskFields /\ d.pc = "decided" /\ d.decision = x
      /\ \A f \in AskFields \ {"pc", "decision"} : d[f] = op[p][f]
  BY <1>1, <1>3 DEF AskFields
<1> QED
  BY <1>1, <1>2, <1>4, <1>5 DEF Decide

\* Checks change no role.
LEMMA CheckStepOK ==
    ASSUME RInv, NEW p \in Procs, CheckStep(p) PROVE RInv' /\ Stands(p)
<1>0. DOMAIN op[p] = AskFields => op[p].writes \in Nat
  BY DEF RInv, Shape, AskFields
<1>1. ASSUME NEW for, NEW u, NEW o, NEW asks, Begin(p, Asking(for, u, o, asks))
      PROVE  RInv' /\ Stands(p)
  <2>1. UNCHANGED rbac /\ op' = [op EXCEPT ![p] = op'[p]] /\ DOMAIN op'[p] = AskFields
    BY <1>1, AskingBegins
  <2>2. op'[p].pc = "readRows" /\ op'[p].writes = 0
    BY <1>1, AskingBegins
  <2> QED
    BY <2>1, <2>2, AskingOK DEF AskPcs
<1>2. CASE \E u \in Users, o \in Orgs :
         \/ \E d \in Demands : ResolvePrincipal(p, u, o, d)
         \/ \E rt \in Resources, x \in Contexts : AuthorizeAction(p, u, o, rt, x)
  <2>1. PICK for, u, o, asks : Begin(p, Asking(for, u, o, asks))
    BY <1>2 DEF ResolvePrincipal, AuthorizeAction
  <2> QED
    BY <1>1, <2>1
<1>3. CASE ReadRows(p)
  BY <1>0, <1>3, ReadRowsIs, AskingOK DEF AskPcs, AskFields
<1>4. CASE Guard(p)
  BY <1>0, <1>4, GuardIs, AskingOK DEF AskPcs, AskFields
<1>5. CASE Answer(p)
  BY <1>5, ReturnOK DEF Answer, Reads
<1>6. CASE FailClosed(p)
  BY <1>0, <1>6, FailClosedIs, AskingOK DEF AskPcs, AskFields
<1>7. CASE \E r \in RoleIds : ReadRole(p, r)
  BY <1>0, <1>7, ReadRoleIs, AskingOK DEF AskPcs, AskFields
<1>8. CASE CacheGet(p)
  BY <1>0, <1>8, CacheGetIs, AskingOK DEF AskPcs, AskFields
<1>9. CASE LoadPolicies(p)
  BY <1>0, <1>9, LoadPoliciesIs, AskingOK DEF AskPcs, AskFields
<1>10. CASE CacheSet(p)
  BY <1>0, <1>10, CacheSetIs, AskingOK DEF AskPcs, AskFields
<1>11. CASE Decide(p)
  BY <1>0, <1>11, DecideIs, AskingOK DEF AskPcs, AskFields
<1> QED
  BY <1>2, <1>3, <1>4, <1>5, <1>6, <1>7, <1>8, <1>9, <1>10, <1>11 DEF CheckStep

\* Nor does a step that leaves roles and calls alone.
LEMMA UnchangedOK ==
    ASSUME RInv, UNCHANGED <<rbac, op>> PROVE RInv' /\ \A p : Stands(p)
<1>1. roles' = roles /\ catalog' = catalog /\ op' = op
  BY DEF rbac
<1> QED
  BY <1>1 DEF RInv, RolesOK, IsRole, Role, RoleIds, Shape, Harmless, Stands, SeedPermissions, RolesWrite, Wildcard,
              AskPcs, AskFields, RouteFields, RoleRoutes

SimFields == {"pc", "fixtures", "results", "exit", "policy", "draft", "from"}

\* A dry run starts with no results, or is refused.
LEMMA PolicySimulateIs ==
    ASSUME RInv, NEW p \in Procs, NEW f, NEW id, PolicySimulate(p, f, id)
    PROVE  /\ UNCHANGED <<rbac, policyTables>> /\ op' = [op EXCEPT ![p] = op'[p]]
           /\ \/ /\ ValidFixtures(f.fixtures)
                 /\ op'[p] = [pc |-> "simulate", fixtures |-> f.fixtures, results |-> <<>>, exit |-> 0,
                              policy |-> IF f.source = "stored" THEN id ELSE "none",
                              draft |-> f.draft, from |-> IF f.source = "stored" THEN Len(policies[id]) ELSE 0]
              \/ op'[p] = [pc |-> "exited", exit |-> 2]
<1>1. CASE Parses(f) /\ NamesPolicy(f) /\ ValidFixtures(f.fixtures)
  <2>1. PICK d : d = [pc |-> "simulate", fixtures |-> f.fixtures, results |-> <<>>, exit |-> 0,
                   policy |-> IF f.source = "stored" THEN id ELSE "none",
                   draft |-> f.draft, from |-> IF f.source = "stored" THEN Len(policies[id]) ELSE 0]
    OBVIOUS
  <2>2. Begin(p, d)
    BY <1>1, <2>1 DEF PolicySimulate
  <2>3. UNCHANGED <<rbac, policyTables>> /\ op'[p] = d /\ op' = [op EXCEPT ![p] = op'[p]]
    BY <2>2, GotoIs DEF Begin, Goto
  <2> QED
    BY <1>1, <2>1, <2>3
<1>2. CASE ~(Parses(f) /\ NamesPolicy(f) /\ ValidFixtures(f.fixtures))
  <2>1. PICK d : d = [pc |-> "exited", exit |-> 2]
    OBVIOUS
  <2>2. Begin(p, d)
    BY <1>2, <2>1 DEF PolicySimulate
  <2>3. UNCHANGED <<rbac, policyTables>> /\ op'[p] = d /\ op' = [op EXCEPT ![p] = op'[p]]
    BY <2>2, GotoIs DEF Begin, Goto
  <2> QED
    BY <2>1, <2>3
<1> QED
  BY <1>1, <1>2

\* What is found of the next fixture.
Result(c) ==
    LET f == c.fixtures[Len(c.results) + 1]
    IN DenyOverrides(DeriveRuleOutcomes(SimulatedRules(c), f.context)) = f.expected

\* A fixture either ends the run with 2 or adds a result.
LEMMA SimulateFixtureIs ==
    ASSUME RInv, NEW p \in Procs, SimulateFixture(p)
    PROVE  LET c == op[p] IN
           /\ c.pc = "simulate" /\ Len(c.results) < Len(c.fixtures)
           /\ UNCHANGED <<rbac, policyTables>> /\ op' = [op EXCEPT ![p] = op'[p]]
           /\ \/ op'[p] = [c EXCEPT !.pc = "exited", !.exit = 2]
              \/ /\ c.policy # "none" => policies[c.policy] # <<>>
                 /\ op'[p] = [c EXCEPT !.results = Append(@, Result(c))]
<1> DEFINE c == op[p]
<1>1. CASE Goto(p, [c EXCEPT !.pc = "exited", !.exit = 2])
  <2>1. PICK d : d = [c EXCEPT !.pc = "exited", !.exit = 2]
    OBVIOUS
  <2>2. op'[p] = d /\ op' = [op EXCEPT ![p] = op'[p]]
    BY <1>1, <2>1, GotoIs DEF Goto
  <2> QED
    BY <2>1, <2>2 DEF SimulateFixture
<1>2. CASE /\ c.policy # "none" => policies[c.policy] # <<>>
           /\ Goto(p, [c EXCEPT !.results = Append(@, Result(c))])
  <2>1. PICK d : d = [c EXCEPT !.results = Append(@, Result(c))]
    OBVIOUS
  <2>2. op'[p] = d /\ op' = [op EXCEPT ![p] = op'[p]]
    BY <1>2, <2>1, GotoIs DEF Goto
  <2> QED
    BY <1>2, <2>1, <2>2 DEF SimulateFixture
<1> QED
  BY <1>1, <1>2 DEF SimulateFixture, Result

\* The report counts what has passed.
LEMMA ReportIs ==
    ASSUME RInv, NEW p \in Procs, Report(p)
    PROVE  LET c == op[p] IN
           /\ c.pc = "simulate" /\ Len(c.results) = Len(c.fixtures)
           /\ UNCHANGED <<rbac, policyTables>> /\ op' = [op EXCEPT ![p] = op'[p]]
           /\ op'[p] = [c EXCEPT !.pc = "exited", !.exit = IF Passed(c.results) = Len(c.results) THEN 0 ELSE 1]
<1>0. PICK x : x = IF Passed(op[p].results) = Len(op[p].results) THEN 0 ELSE 1
  OBVIOUS
<1>1. PICK d : d = [op[p] EXCEPT !.pc = "exited", !.exit = x]
  OBVIOUS
<1>2. UNCHANGED <<rbac, policyTables>> /\ op'[p] = d /\ op' = [op EXCEPT ![p] = op'[p]]
  BY <1>0, <1>1, GotoIs DEF Report, Goto, Reads
<1> QED
  BY <1>0, <1>1, <1>2 DEF Report

\* A publication knows its version and its number from the start.
LEMMA PublishBegins ==
    ASSUME RInv, NEW p \in Procs, NEW id, NEW n, NEW v, Begin(p, PublishCall(id, n, v))
    PROVE  /\ UNCHANGED <<rbac, policyTables, lost>> /\ op' = [op EXCEPT ![p] = op'[p]]
           /\ op'[p] = [pc |-> "saveVersion", policy |-> id, number |-> n, version |-> v]
<1>1. PICK d : d = [pc |-> "saveVersion", policy |-> id, number |-> n, version |-> v]
  OBVIOUS
<1> QED
  BY <1>1, GotoIs DEF Begin, Goto, PublishCall

\* Publications and dry runs change no role.
LEMMA PolicyStepOK ==
    ASSUME RInv, NEW p \in Procs, PolicyStep(p) PROVE RInv' /\ Stands(p)
<1>1. CASE \E id \in PolicyIds, rules \in RuleSets :
              \/ \E draft \in BOOLEAN : CreatePolicy(p, id, rules, draft)
              \/ PublishNewVersion(p, id, rules)
  <2>1. PICK id, n, v : Begin(p, PublishCall(id, n, v))
    BY <1>1 DEF CreatePolicy, PublishNewVersion
  <2>2. PICK d : d = op'[p]
    OBVIOUS
  <2>3. d = [pc |-> "saveVersion", policy |-> id, number |-> n, version |-> v]
        /\ UNCHANGED rbac /\ op' = [op EXCEPT ![p] = op'[p]]
    BY <2>1, <2>2, PublishBegins
  <2>4. "pc" \in DOMAIN d /\ d.pc = "saveVersion" /\ DOMAIN d \intersect {"held", "clean"} = {}
    BY <2>3
  <2> QED
    BY <2>2, <2>3, <2>4, OtherCallOK
<1>2. CASE SavePolicy(p)
  BY <1>2, SavePolicyOK
<1>3. CASE InvalidatePublished(p)
  BY <1>3, ReturnOK DEF InvalidatePublished
<1>4. CASE InvalidateByHand(p)
  BY <1>4, UnchangedOK DEF InvalidateByHand
<1>5. CASE \E f \in Files, id \in PolicyIds : PolicySimulate(p, f, id)
  <2>1. PICK f, id : PolicySimulate(p, f, id)
    BY <1>5
  <2>2. PICK d : d = op'[p]
    OBVIOUS
  <2>3. UNCHANGED rbac /\ op' = [op EXCEPT ![p] = op'[p]]
    BY <2>1, PolicySimulateIs
  <2>4. "pc" \in DOMAIN d /\ d.pc \in {"simulate", "exited"} /\ DOMAIN d \intersect {"held", "clean"} = {}
    <3>1. CASE d = [pc |-> "exited", exit |-> 2]
      BY <3>1
    <3>2. CASE \E x, y, z : d = [pc |-> "simulate", fixtures |-> f.fixtures, results |-> <<>>, exit |-> 0,
                              policy |-> x, draft |-> y, from |-> z]
      BY <3>2
    <3>3. PICK x, y, z : /\ x = IF f.source = "stored" THEN id ELSE "none"
                         /\ y = f.draft
                         /\ z = IF f.source = "stored" THEN Len(policies[id]) ELSE 0
      OBVIOUS
    <3>4. \/ d = [pc |-> "simulate", fixtures |-> f.fixtures, results |-> <<>>, exit |-> 0,
                  policy |-> x, draft |-> y, from |-> z]
          \/ d = [pc |-> "exited", exit |-> 2]
      BY <2>1, <2>2, <3>3, PolicySimulateIs
    <3> QED
      BY <3>1, <3>2, <3>4
  <2> QED
    BY <2>2, <2>3, <2>4, OtherCallOK
<1>6. ASSUME op[p].pc = "simulate", UNCHANGED rbac, op' = [op EXCEPT ![p] = op'[p]],
             DOMAIN op'[p] = DOMAIN op[p], op'[p].pc \in {"simulate", "exited"}
      PROVE  RInv' /\ Stands(p)
  <2>1. "pc" \in DOMAIN op'[p] /\ DOMAIN op'[p] \intersect {"held", "clean"} = {}
    BY <1>6 DEF RInv, Shape, AskPcs
  <2> QED
    BY <1>6, <2>1, OtherCallOK
<1>7. "pc" \in DOMAIN op[p]
  BY DEF RInv, Shape
<1>8. CASE SimulateFixture(p)
  <2>1. /\ op[p].pc = "simulate" /\ UNCHANGED rbac /\ op' = [op EXCEPT ![p] = op'[p]]
    BY <1>8, SimulateFixtureIs
  <2>2. DOMAIN op'[p] = DOMAIN op[p] /\ op'[p].pc \in {"simulate", "exited"}
    BY <1>7, <1>8, SimulateFixtureIs
  <2> QED
    BY <1>6, <2>1, <2>2
<1>9. CASE Report(p)
  <2>1. /\ op[p].pc = "simulate" /\ UNCHANGED rbac /\ op' = [op EXCEPT ![p] = op'[p]]
    BY <1>9, ReportIs
  <2>2. DOMAIN op'[p] = DOMAIN op[p] /\ op'[p].pc \in {"simulate", "exited"}
    BY <1>7, <1>9, ReportIs
  <2> QED
    BY <1>6, <2>1, <2>2
<1> QED
  BY <1>1, <1>2, <1>3, <1>4, <1>5, <1>8, <1>9 DEF PolicyStep

-----------------------------------------------------------------------------
\* The roles of the seed, and nobody in a call.
LEMMA RInvInit == Init => RInv
<1> SUFFICES ASSUME Init PROVE RInv
  OBVIOUS
<1>1. op = [p \in Procs |-> Idle] /\ catalog = SeedPermissions \union {ActionKey}
  BY DEF Init
<1>2. roles = [r \in RoleIds |-> CASE r = 1 -> Role("super-admin", TRUE, SeedRoles["super-admin"])
                                   [] r = 2 -> Role("team", FALSE, {ActionKey})
                                   [] OTHER -> NoRole]
  BY DEF Init
<1>3. SeedRoles["super-admin"] \subseteq SeedPermissions
  BY AuthorizationAssumption DEF SeedPermissions
<1>4. \A r \in RoleIds : IsRole(roles[r]) /\ roles[r].keys \subseteq catalog
  <2>1. SUFFICES ASSUME NEW r \in RoleIds PROVE IsRole(roles[r]) /\ roles[r].keys \subseteq catalog
    OBVIOUS
  <2>2. CASE r = 1
    <3>1. roles[r] = Role("super-admin", TRUE, SeedRoles["super-admin"])
      BY <1>2, <2>2
    <3> QED
      BY <1>1, <1>3, <3>1 DEF IsRole, Role
  <2>3. CASE r = 2
    <3>1. roles[r] = Role("team", FALSE, {ActionKey})
      BY <1>2, <2>3
    <3> QED
      BY <1>1, <3>1 DEF IsRole, Role
  <2>4. CASE r # 1 /\ r # 2
    <3>1. roles[r] = NoRole
      BY <1>2, <2>4
    <3> QED
      BY <1>1, <3>1, NoRoleIsRole
  <2> QED
    BY <2>2, <2>3, <2>4
<1>5. RolesOK
  <2>1. roles = [r \in RoleIds |-> roles[r]]
    BY <1>2
  <2> QED
    BY <1>4, <2>1 DEF RolesOK
<1> QED
  BY <1>1, <1>5, IdleIsShaped DEF RInv

\* Each step keeps the roles what they are, and is the step of one process, which leaves system roles standing.
LEMMA RInvNext == ASSUME RInv, [Next]_vars
                  PROVE  RInv' /\ ((\E p \in Procs : Stands(p)) \/ roles' = roles)
<1>1. CASE Tick
  <2>1. PICK p : p \notin Procs
    BY NoSetContainsEverything
  <2> QED
    BY <1>1, <2>1, TickOK DEF Tick
<1>2. ASSUME NEW p \in Procs, RoleStep(p) \/ RouteStep(p) \/ PolicyStep(p) \/ CheckStep(p)
      PROVE RInv' /\ Stands(p)
  BY <1>2, RoleStepOK, RouteStepOK, PolicyStepOK, CheckStepOK
<1>3. CASE UNCHANGED vars
  BY <1>3, UnchangedOK DEF vars, rbac
<1> QED
  BY <1>1, <1>2, <1>3 DEF Next

\* No step takes anything from a system role, except the write of a call that decided on a version
\* of the role changed since.
THEOREM RolesStand == Spec => SystemRolesStand
<1>1. RInv /\ [Next]_vars =>
        [\A r \in RoleIds :
         roles[r].system =>
           \/ roles'[r].system /\ roles[r].keys \subseteq roles'[r].keys
           \/ \E p \in Procs : /\ "clean" \in DOMAIN op[p] /\ op'[p] # op[p]
                             /\ op[p].role = r /\ ~op[p].clean]_vars
  <2> SUFFICES ASSUME RInv, [Next]_vars, NEW r \in RoleIds, roles[r].system
               PROVE  \/ roles'[r].system /\ roles[r].keys \subseteq roles'[r].keys
                      \/ \E p \in Procs : /\ "clean" \in DOMAIN op[p] /\ op'[p] # op[p]
                                        /\ op[p].role = r /\ ~op[p].clean
    OBVIOUS
  <2> QED
    BY RInvNext DEF Stands
<1>2. RInv /\ [Next]_vars => RInv'
  BY RInvNext
<1> QED
  BY <1>1, <1>2, RInvInit, PTL DEF Spec, SystemRolesStand

\* The concrete permissions that keys stand for.
Gives(ks) == UNION {Denotes(k) : k \in ks}

\* What the user of a check holds now, and through which roles.
HeldNow(c)   == Holds(roles, assignments, now, c.user, c.org)
ActiveNow(c) == ActiveRoles(assignments, c.user, c.org, now)

\* Every assignment is of a role.
RowsOK ==
    /\ assignments = [a \in RowIds |-> assignments[a]]
    /\ \A a \in RowIds : assignments[a].role = 0 \/ assignments[a].role \in RoleIds

\* What a check knows: a role that is active was read or is about to be, as long as nothing was written;
\* after one write, what it read or will read was held, and what was held throughout is read or will be.
CheckOK(c) ==
    c.pc \in AskPcs =>
      /\ HeldNow(c) \subseteq c.held /\ c.always \subseteq HeldNow(c)
      /\ c.writes = 0 => c.held \subseteq HeldNow(c) /\ HeldNow(c) \subseteq c.always
      /\ c.for = "guard" => c.asks.keys \subseteq Concrete
      /\ c.pc = "readRows" => c.granted = {}
      /\ c.pc = "readRoles" =>
           /\ c.todo \subseteq RoleIds
           /\ c.writes = 0 =>
                /\ c.todo \subseteq ActiveNow(c)
                /\ \A r \in ActiveNow(c) : r \in c.todo \/ roles[r].keys \subseteq c.granted
                /\ Gives(c.granted) \subseteq HeldNow(c)
           /\ c.writes <= 1 =>
                /\ Gives(c.granted) \subseteq c.held
                /\ \A r \in c.todo : Gives(roles[r].keys) \subseteq c.held
                /\ \A x \in c.always : x \in Gives(c.granted) \/ \E r \in c.todo : x \in Gives(roles[r].keys)
      /\ c.pc \in {"load", "store", "evaluate"} /\ c.writes = 0 => Gives(c.granted) = HeldNow(c)
      /\ c.pc \in {"allowed", "forbidden"} /\ c.writes <= 1 =>
           LET Covers(held) == IF c.asks.mode = "all" THEN c.asks.keys \subseteq held
                               ELSE c.asks.keys \intersect held # {}
           IN /\ c.pc = "allowed" => Covers(c.held)
              /\ Covers(c.always) => c.pc = "allowed"

EInv ==
    /\ RInv
    /\ RowsOK
    /\ \A p \in Procs : CheckOK(op[p])

\* What a step does to the tables a check reads: at most one role changes, and then no assignment and not
\* the time, unless the role is deleted with the assignments of it.
OneChange ==
    \/ roles' = roles
    \/ \E r0 \in RoleIds :
         /\ \A r \in RoleIds \ {r0} : roles'[r] = roles[r]
         /\ \/ UNCHANGED <<assignments, now>>
            \/ /\ roles'[r0].keys = {}
               /\ \A u, o : ActiveRoles(assignments', u, o, now') \subseteq ActiveRoles(assignments, u, o, now)

-----------------------------------------------------------------------------
\* A permission is held through an active role.
LEMMA HoldsIs ==
    ASSUME NEW rs, NEW rows, NEW t, NEW u, NEW o, NEW x
    PROVE  x \in Holds(rs, rows, t, u, o) <=> \E r \in ActiveRoles(rows, u, o, t) : x \in Gives(rs[r].keys)
<1>1. x \in Holds(rs, rows, t, u, o) <=>
        \E a \in RowIds : /\ rows[a].role # 0 /\ rows[a].user = u /\ rows[a].org = o /\ rows[a].expires > t
                          /\ \E k \in rs[rows[a].role].keys : x \in Denotes(k)
  BY DEF Holds
<1>2. \A r : r \in ActiveRoles(rows, u, o, t) <=>
        \E a \in RowIds : /\ rows[a].role # 0 /\ rows[a].user = u /\ rows[a].org = o /\ t < rows[a].expires
                          /\ r = rows[a].role
  BY DEF ActiveRoles, IsActive
<1>3. \A ks : x \in Gives(ks) <=> \E k \in ks : x \in Denotes(k)
  BY DEF Gives
<1> QED
  BY <1>1, <1>2, <1>3

\* What a set of permissions gives is what one of them denotes.
LEMMA GivesIs ==
    ASSUME NEW ks, NEW x
    PROVE  x \in Gives(ks) <=> \E k \in ks : x \in Denotes(k)
  BY DEF Gives

\* A guard finds what the keys stand for.
LEMMA HasIsGives ==
    ASSUME NEW ks, NEW x \in Concrete
    PROVE  HasPermission(ks, x) <=> x \in Gives(ks)
  BY GivesIs DEF HasPermission, Matches, Denotes

\* Rows name roles.
LEMMA ActiveIsRole ==
    ASSUME RowsOK, NEW u, NEW o, NEW t
    PROVE  ActiveRoles(assignments, u, o, t) \subseteq RoleIds
  BY DEF RowsOK, ActiveRoles, IsActive

-----------------------------------------------------------------------------
\* Another call's write.
LEMMA NoticedChecks ==
    ASSUME RInv, RowsOK, RowsOK', NEW q \in Procs, CheckOK(op[q]), op'[q] = Noticed(op[q]), OneChange
    PROVE  CheckOK(op[q])'
<1> SUFFICES ASSUME op'[q].pc \in AskPcs PROVE CheckOK(op[q])'
  BY DEF CheckOK
<1> DEFINE c == op[q]
           d == op'[q]
           old == HeldNow(c)
           new == Holds(roles', assignments', now', c.user, c.org)
           oldActive == ActiveNow(c)
           newActive == ActiveRoles(assignments', c.user, c.org, now')
<1>1. Shape(c)
  BY DEF RInv
<1>2. d.pc = c.pc /\ c.pc \in AskPcs /\ DOMAIN c = AskFields /\ "held" \in DOMAIN c
  <2>1. "pc" \in DOMAIN c
    BY <1>1 DEF Shape
  <2>2. d.pc = c.pc
    BY <1>1, <2>1, NoticedIs
  <2>3. c.pc \in AskPcs
    BY <2>2
  <2> QED
    BY <1>1, <2>2, <2>3 DEF Shape
<1>3. /\ d.held = c.held \union new /\ d.always = c.always \intersect new
      /\ d.writes = IF c.writes < 2 THEN c.writes + 1 ELSE c.writes
      /\ c.writes \in Nat
  <2>1. /\ Noticed(c).held = c.held \union new /\ Noticed(c).always = c.always \intersect new
        /\ Noticed(c).writes = IF c.writes < 2 THEN c.writes + 1 ELSE c.writes
    BY <1>1, <1>2, NoticedIs
  <2> QED
    BY <1>1, <1>2, <2>1 DEF Shape
<1>4. /\ d.for = c.for /\ d.user = c.user /\ d.org = c.org /\ d.asks = c.asks
      /\ d.todo = c.todo /\ d.granted = c.granted
  BY <1>1, <1>2, NoticedIs DEF AskFields
<1>5. d.writes # 0 /\ (d.writes <= 1 => c.writes = 0)
  BY <1>3
<1>6. CheckOK(c)
  OBVIOUS
<1>7. /\ \A x : x \in old <=> \E r \in oldActive : x \in Gives(roles[r].keys)
      /\ \A x : x \in new <=> \E r \in newActive : x \in Gives(roles'[r].keys)
  BY HoldsIs DEF HeldNow, ActiveNow
<1>8. oldActive \subseteq RoleIds /\ newActive \subseteq RoleIds
  <2>1. oldActive \subseteq RoleIds
    BY ActiveIsRole DEF ActiveNow
  <2>2. newActive \subseteq RoleIds
    BY DEF RowsOK, ActiveRoles, IsActive, RowIds, RoleIds
  <2> QED
    BY <2>1, <2>2
<1>9. (HeldNow(op[q]))' = new /\ (ActiveNow(op[q]))' = newActive
  BY <1>4 DEF HeldNow, ActiveNow
<1>10. \/ roles' = roles
       \/ \E r0 \in RoleIds :
            /\ \A r \in RoleIds \ {r0} : roles'[r] = roles[r]
            /\ newActive = oldActive \/ (roles'[r0].keys = {} /\ newActive \subseteq oldActive)
  BY DEF OneChange, ActiveNow
<1>11. CheckOK(c) /\ c = op[q]
  OBVIOUS
<1>12. Gives({}) = {}
  BY DEF Gives
<1> HIDE DEF c, d, old, new, oldActive, newActive
<1>13. ASSUME d.pc = "readRoles", d.writes <= 1
       PROVE  /\ Gives(d.granted) \subseteq d.held
              /\ \A r \in d.todo : Gives(roles'[r].keys) \subseteq d.held
              /\ \A x \in d.always : x \in Gives(d.granted) \/ \E r \in d.todo : x \in Gives(roles'[r].keys)
  <2>1. /\ c.pc = "readRoles" /\ c.writes = 0 /\ c.todo \subseteq RoleIds
        /\ c.held \subseteq old /\ old \subseteq c.held /\ old \subseteq c.always /\ c.always \subseteq old
        /\ c.todo \subseteq oldActive
        /\ \A r \in oldActive : r \in c.todo \/ roles[r].keys \subseteq c.granted
        /\ Gives(c.granted) \subseteq c.held
        /\ \A r \in c.todo : Gives(roles[r].keys) \subseteq c.held
        /\ \A x \in c.always : x \in Gives(c.granted) \/ \E r \in c.todo : x \in Gives(roles[r].keys)
    BY <1>2, <1>5, <1>11, <1>13 DEF CheckOK, old, oldActive, c
  <2>2. CASE roles' = roles
    BY <1>3, <1>4, <2>1, <2>2
  <2>3. CASE \E r0 \in RoleIds :
            /\ \A r \in RoleIds \ {r0} : roles'[r] = roles[r]
            /\ newActive = oldActive \/ (roles'[r0].keys = {} /\ newActive \subseteq oldActive)
    <3>1. PICK r0 \in RoleIds :
            /\ \A r \in RoleIds \ {r0} : roles'[r] = roles[r]
            /\ newActive = oldActive \/ (roles'[r0].keys = {} /\ newActive \subseteq oldActive)
      BY <2>3
    <3>2. ASSUME NEW r \in c.todo PROVE Gives(roles'[r].keys) \subseteq d.held
      <4>1. CASE r # r0
        BY <1>3, <2>1, <3>1, <4>1
      <4>2. CASE r = r0 /\ newActive = oldActive
        <5>1. Gives(roles'[r].keys) \subseteq new
          BY <1>7, <2>1, <4>2
        <5> QED
          BY <1>3, <5>1
      <4>3. CASE r = r0 /\ roles'[r0].keys = {}
        BY <1>12, <4>3
      <4> QED
        BY <3>1, <4>1, <4>2, <4>3
    <3>3. ASSUME NEW x \in d.always PROVE x \in Gives(c.granted) \/ \E r \in c.todo : x \in Gives(roles'[r].keys)
      <4>1. x \in c.always /\ x \in new
        BY <1>3
      <4>2. PICK r1 \in newActive : x \in Gives(roles'[r1].keys)
        BY <1>7, <4>1
      <4>3. r1 \in oldActive /\ r1 \in RoleIds
        BY <1>8, <3>1
      <4>4. CASE r1 \in c.todo
        BY <4>2, <4>4
      <4>5. CASE r1 \notin c.todo /\ r1 # r0
        <5>1. roles'[r1] = roles[r1] /\ roles[r1].keys \subseteq c.granted
          BY <2>1, <3>1, <4>3, <4>5
        <5> QED
          BY <4>2, <5>1, GivesIs
      <4>6. CASE r1 \notin c.todo /\ r1 = r0
        <5>1. CASE x \in Gives(c.granted)
          BY <5>1
        <5>2. CASE \E r \in c.todo : x \in Gives(roles[r].keys)
          <6>1. PICK r \in c.todo : x \in Gives(roles[r].keys)
            BY <5>2
          <6>2. r # r0 /\ r \in RoleIds
            BY <2>1, <4>6
          <6> QED
            BY <3>1, <6>1, <6>2
        <5> QED
          BY <2>1, <4>1, <5>1, <5>2
      <4> QED
        BY <4>4, <4>5, <4>6
    <3> QED
      BY <1>3, <1>4, <2>1, <3>2, <3>3
  <2> QED
    BY <1>10, <2>2, <2>3
<1>14. ASSUME d.pc \in {"allowed", "forbidden"}, d.writes <= 1
       PROVE  /\ d.pc = "allowed" => IF d.asks.mode = "all" THEN d.asks.keys \subseteq d.held
                                     ELSE d.asks.keys \intersect d.held # {}
              /\ (IF d.asks.mode = "all" THEN d.asks.keys \subseteq d.always
                  ELSE d.asks.keys \intersect d.always # {}) => d.pc = "allowed"
  <2>1. /\ c.pc = "allowed" => IF c.asks.mode = "all" THEN c.asks.keys \subseteq c.held
                               ELSE c.asks.keys \intersect c.held # {}
        /\ (IF c.asks.mode = "all" THEN c.asks.keys \subseteq c.always
            ELSE c.asks.keys \intersect c.always # {}) => c.pc = "allowed"
    BY <1>2, <1>5, <1>11, <1>14 DEF CheckOK
  <2>2. c.held \subseteq d.held /\ d.always \subseteq c.always /\ d.asks = c.asks /\ d.pc = c.pc
    BY <1>2, <1>3, <1>4
  <2> QED
    BY <2>1, <2>2
<1>15. /\ c.for = "guard" => c.asks.keys \subseteq Concrete
       /\ c.pc = "readRows" => c.granted = {}
       /\ c.pc = "readRoles" => c.todo \subseteq RoleIds
  BY <1>2, <1>11 DEF CheckOK
<1>16. /\ new \subseteq d.held /\ d.always \subseteq new
       /\ d.for = "guard" => d.asks.keys \subseteq Concrete
       /\ d.pc = "readRows" => d.granted = {}
       /\ d.pc = "readRoles" => d.todo \subseteq RoleIds
  BY <1>2, <1>3, <1>4, <1>15
<1> QED
  BY <1>5, <1>9, <1>13, <1>14, <1>16 DEF CheckOK, d, Concrete, Gives, Denotes, RoleIds

\* Writing one role, one row, or none.
LEMMA OneRoleIsOneChange ==
    ASSUME RInv, NEW r \in RoleIds, NEW role, roles' = [roles EXCEPT ![r] = role], UNCHANGED <<assignments, now>>, RowsOK
    PROVE  OneChange /\ RowsOK'
<1>1. \A i \in RoleIds \ {r} : roles'[i] = roles[i]
  BY DEF RInv, RolesOK
<1> QED
  BY <1>1 DEF OneChange, RowsOK, RowIds, RoleIds

\* A step that leaves roles and rows alone.
LEMMA NoRoleIsOneChange ==
    ASSUME roles' = roles, UNCHANGED assignments, RowsOK
    PROVE  OneChange /\ RowsOK'
  BY DEF OneChange, RowsOK, RowIds, RoleIds

\* One row is inserted, or nothing is.
LEMMA SavedRowOK ==
    ASSUME roles' = roles, RowsOK, NEW u, NEW r \in RoleIds, NEW o, NEW e, SaveAssignment(u, r, o, e)
    PROVE  OneChange /\ RowsOK'
<1>1. PICK row : row = [user |-> u, role |-> r, org |-> o, expires |-> e]
  OBVIOUS
<1>2. PICK a : assignments' = [assignments EXCEPT ![a] = row]
  BY <1>1 DEF SaveAssignment
<1>3. row.role \in RoleIds
  BY <1>1
<1>4. assignments = [i \in RowIds |-> assignments[i]] /\ \A i \in RowIds : assignments[i].role = 0 \/ assignments[i].role \in RoleIds
  BY DEF RowsOK
<1>5. assignments' = [i \in RowIds |-> assignments'[i]] /\ \A i \in RowIds : assignments'[i] \in {row, assignments[i]}
  BY <1>2, <1>4
<1>6. \A i \in RowIds : assignments'[i].role = 0 \/ assignments'[i].role \in RoleIds
  BY <1>3, <1>4, <1>5
<1> QED
  BY <1>5, <1>6 DEF OneChange, RowsOK, RowIds, RoleIds

\* One row is deleted, or nothing is.
LEMMA DroppedRowOK ==
    ASSUME roles' = roles, RowsOK, NEW a, DropRow(a)
    PROVE  OneChange /\ RowsOK'
<1>1. GoneRow.role = 0
  BY DEF GoneRow
<1>2. assignments' = [assignments EXCEPT ![a] = GoneRow]
  BY DEF DropRow
<1>4. assignments = [i \in RowIds |-> assignments[i]] /\ \A i \in RowIds : assignments[i].role = 0 \/ assignments[i].role \in RoleIds
  BY DEF RowsOK
<1>5. assignments' = [i \in RowIds |-> assignments'[i]] /\ \A i \in RowIds : assignments'[i] \in {GoneRow, assignments[i]}
  BY <1>2, <1>4
<1>6. \A i \in RowIds : assignments'[i].role = 0 \/ assignments'[i].role \in RoleIds
  BY <1>1, <1>4, <1>5
<1> QED
  BY <1>5, <1>6 DEF OneChange, RowsOK, RowIds, RoleIds

\* A role is deleted together with the rows that name it.
LEMMA DeletedRoleOK ==
    ASSUME RInv, RowsOK, NEW r \in RoleIds, DeleteRole(r), now' = now
    PROVE  OneChange /\ RowsOK'
<1>1. GoneRow.role = 0
  BY DEF GoneRow
<1>2. /\ roles' = [roles EXCEPT ![r] = GoneRole]
      /\ assignments' = [a \in RowIds |-> IF assignments[a].role = r THEN GoneRow ELSE assignments[a]]
  BY DEF DeleteRole
<1>3. roles'[r] = GoneRole /\ \A i \in RoleIds \ {r} : roles'[i] = roles[i]
  BY <1>2 DEF RInv, RolesOK
<1>4. \A a \in RowIds : assignments'[a] \in {GoneRow, assignments[a]}
  BY <1>2
<1>5. ASSUME NEW u, NEW o
      PROVE  ActiveRoles(assignments', u, o, now') \subseteq ActiveRoles(assignments, u, o, now)
  BY <1>1, <1>4 DEF ActiveRoles, IsActive
<1>6. OneChange
  BY <1>3, <1>5, NoRoleIsRole DEF OneChange
<1>7. \A a \in RowIds : assignments[a].role = 0 \/ assignments[a].role \in RoleIds
  BY DEF RowsOK
<1>8. \A a \in RowIds : assignments'[a].role = 0 \/ assignments'[a].role \in RoleIds
  BY <1>1, <1>4, <1>7
<1>9. assignments' = [a \in RowIds |-> assignments'[a]]
  BY <1>2
<1> QED
  BY <1>6, <1>8, <1>9 DEF RowsOK, RowIds, RoleIds

\* A step that changes nothing of roles and rows.
LEMMA NothingIsOneChange ==
    ASSUME UNCHANGED rbac, RowsOK
    PROVE  OneChange /\ RowsOK'
  BY NoRoleIsOneChange DEF rbac

-----------------------------------------------------------------------------
\* No step of a use case is more than that.
LEMMA RoleStepChange ==
    ASSUME RInv, RowsOK, NEW p \in Procs, RoleStep(p) PROVE OneChange /\ RowsOK'
<1>1. ASSUME NEW k, DefinePermission(p, k) PROVE OneChange /\ RowsOK'
  BY <1>1, NoRoleIsOneChange DEF DefinePermission
<1>2. ASSUME NEW n, NEW s, NEW ks, CreateRole(p, n, s, ks) PROVE OneChange /\ RowsOK'
  <2>1. NewRole \in RoleIds
    BY <1>2, FreeIsFree DEF CreateRole
  <2>2. PICK role : roles' = [roles EXCEPT ![NewRole] = role]
    BY <1>2 DEF CreateRole, SaveRole
  <2>3. UNCHANGED <<assignments, now>>
    BY <1>2 DEF CreateRole
  <2> QED
    BY <2>1, <2>2, <2>3, OneRoleIsOneChange
<1>3. ASSUME NEW d, Begin(p, d) PROVE OneChange /\ RowsOK'
  BY <1>3, NothingIsOneChange DEF Begin
<1>4. CASE SaveCopy(p)
  <2>1. CASE UNCHANGED rbac
    BY <2>1, NothingIsOneChange
  <2>2. CASE SaveRole(op[p].role, op[p].copy) /\ UNCHANGED <<now, catalog, assignments>>
    <3>1. op[p].role \in RoleIds
      BY <1>4 DEF SaveCopy, RInv, Shape
    <3>2. PICK role : roles' = [roles EXCEPT ![op[p].role] = role]
      BY <2>2 DEF SaveRole
    <3> QED
      BY <2>2, <3>1, <3>2, OneRoleIsOneChange
  <2> QED
    BY <1>4, <2>1, <2>2 DEF SaveCopy
<1>5. ASSUME NEW n, SeedDefaultRoles(p, n) PROVE OneChange /\ RowsOK'
  <2>1. PICK r : r = IF NameTaken(n) THEN CHOOSE id \in RoleIds : roles[id].name = n ELSE NewRole
    OBVIOUS
  <2>2. r \in RoleIds
    BY <1>5, <2>1, FreeIsFree DEF SeedDefaultRoles, NameTaken
  <2>3. PICK role : role = Role(n, TRUE, roles[r].keys)
    OBVIOUS
  <2>4. roles' = [roles EXCEPT ![r] = role] /\ UNCHANGED <<assignments, now>>
    BY <1>5, <2>1, <2>3 DEF SeedDefaultRoles
  <2> QED
    BY <2>2, <2>4, OneRoleIsOneChange
<1>6. CASE SeedLinks(p)
  <2>1. op[p].role \in RoleIds /\ UNCHANGED <<assignments, now>>
    BY <1>6 DEF SeedLinks, RInv, Shape
  <2>2. CASE UNCHANGED roles
    BY <2>1, <2>2, NoRoleIsOneChange
  <2>3. CASE roles' = [roles EXCEPT ![op[p].role].keys = @ \union SeedRoles[op[p].name]]
    <3>1. PICK role : roles' = [roles EXCEPT ![op[p].role] = role]
      BY <2>3
    <3> QED
      BY <2>1, <3>1, OneRoleIsOneChange
  <2> QED
    BY <1>6, <2>2, <2>3 DEF SeedLinks
<1>7. ASSUME NEW u, NEW r \in RoleIds, NEW o, NEW e, AssignRoleToUser(p, u, r, o, e) PROVE OneChange /\ RowsOK'
  BY <1>7, SavedRowOK DEF AssignRoleToUser
<1>8. CASE DropFound(p)
  BY <1>8, DroppedRowOK DEF DropFound
<1>9. ASSUME NEW r, NEW k, AssignPermissionToRole(p, r, k) \/ RevokePermissionFromRole(p, r, k)
      PROVE OneChange /\ RowsOK'
  BY <1>3, <1>9 DEF AssignPermissionToRole, RevokePermissionFromRole
<1>10. ASSUME NEW a, NEW byTuple, RevokeRoleFromUser(p, a, byTuple) PROVE OneChange /\ RowsOK'
  BY <1>3, <1>10 DEF RevokeRoleFromUser
<1> QED
  BY <1>1, <1>2, <1>4, <1>5, <1>6, <1>7, <1>8, <1>9, <1>10 DEF RoleStep

\* Nor one of a route.
LEMMA RouteStepChange ==
    ASSUME RInv, RowsOK, NEW p \in Procs, RouteStep(p) PROVE OneChange /\ RowsOK'
<1> DEFINE c == op[p]
<1>1. ASSUME NEW d, Begin(p, d) PROVE OneChange /\ RowsOK'
  BY <1>1, NothingIsOneChange DEF Begin
<1>2. CASE RouteCheck(p) \/ RouteFails(p)
  BY <1>2, NothingIsOneChange DEF RouteCheck, RouteFails, Reads
<1>3. CASE RouteWrite(p)
  <2>1. c.pc = "routeWrite" /\ Accepted(c) /\ WriteRoles(c) /\ now' = now
    BY <1>3 DEF RouteWrite
  <2>2. c.route \in RoleRoutes => c.role \in RoleIds
    BY <2>1 DEF RInv, Shape, RouteFields
  <2>3. CASE c.route = "create" /\ roles' = [roles EXCEPT ![NewRole] = Role(c.args.name, FALSE, {})] /\ UNCHANGED assignments
    <3>1. PICK role : roles' = [roles EXCEPT ![NewRole] = role]
      BY <2>3
    <3>2. NewRole \in RoleIds
      BY <2>1, <2>3, FreeIsFree DEF Accepted
    <3> QED
      BY <2>1, <2>3, <3>1, <3>2, OneRoleIsOneChange
  <2>4. CASE c.route = "update" /\ roles' = [roles EXCEPT ![c.args.role].name = c.args.name] /\ UNCHANGED assignments
    <3>1. PICK role : roles' = [roles EXCEPT ![c.args.role] = role]
      BY <2>4
    <3>2. c.args.role \in RoleIds
      BY <2>1, <2>4 DEF RInv, Harmless
    <3> QED
      BY <2>1, <2>4, <3>1, <3>2, OneRoleIsOneChange
  <2>5. CASE c.route \in {"grant", "revoke"} /\ UNCHANGED assignments
             /\ \E role : roles' = [roles EXCEPT ![c.role] = role]
    BY <2>1, <2>2, <2>5, OneRoleIsOneChange DEF RoleRoutes
  <2>6. CASE c.route = "delete" /\ DeleteRole(c.role)
    BY <2>1, <2>2, <2>6, DeletedRoleOK DEF RoleRoutes
  <2>7. CASE c.route = "assign" /\ SaveAssignment(c.args.target, c.role, c.args.org, c.args.expires) /\ UNCHANGED roles
    BY <2>2, <2>7, SavedRowOK DEF RoleRoutes
  <2>8. CASE c.route = "unassign" /\ DropRow(c.args.row) /\ UNCHANGED roles
    BY <2>8, DroppedRowOK
  <2> QED
    BY <2>1, <2>3, <2>4, <2>5, <2>6, <2>7, <2>8 DEF WriteRoles
<1>4. ASSUME NEW u, NEW o, NEW r, NEW n, CreateRoleRoute(p, u, o, n) \/ UpdateRoleRoute(p, u, o, r, n)
      PROVE OneChange /\ RowsOK'
  BY <1>1, <1>4 DEF CreateRoleRoute, UpdateRoleRoute
<1>5. ASSUME NEW u, NEW o, NEW r, NEW k, NEW route, PermissionRoute(p, u, o, r, k, route) \/ DeleteRoleRoute(p, u, o, r)
      PROVE OneChange /\ RowsOK'
  BY <1>1, <1>5 DEF PermissionRoute, DeleteRoleRoute
<1>6. ASSUME NEW u, NEW o, NEW r, NEW t, NEW e, AssignRoute(p, u, o, r, t, e) PROVE OneChange /\ RowsOK'
  BY <1>1, <1>6 DEF AssignRoute
<1>7. ASSUME NEW u, NEW o, NEW a, RevokeAssignmentRoute(p, u, o, a) PROVE OneChange /\ RowsOK'
  BY <1>1, <1>7 DEF RevokeAssignmentRoute
<1> QED
  BY <1>2, <1>3, <1>4, <1>5, <1>6, <1>7 DEF RouteStep

\* Publications, dry runs and checks leave roles and rows alone.
LEMMA OtherStepChange ==
    ASSUME RInv, RowsOK, NEW p \in Procs, PolicyStep(p) \/ CheckStep(p) PROVE UNCHANGED rbac /\ OneChange /\ RowsOK'
<1>1. UNCHANGED rbac
  BY DEF PolicyStep, CheckStep, CreatePolicy, PublishNewVersion, SavePolicy, InvalidatePublished, InvalidateByHand,
         PolicySimulate, SimulateFixture, Report, ResolvePrincipal, AuthorizeAction, ReadRows, Guard, Answer, FailClosed,
         ReadRole, CacheGet, LoadPolicies, CacheSet, Decide, Begin, Reads
<1> QED
  BY <1>1, NothingIsOneChange

\* Where calls are that are not about roles and assignments.
OtherPcs == AskPcs \union {"saveVersion", "simulate", "exited"}

\* The call of p goes on as d, and the others notice if a table changed.
Moves(p, d) == (Goto(p, d) /\ UNCHANGED rbac) \/ Becomes(p, d)

\* What a move does to the calls.
LEMMA MovesIs ==
    ASSUME RInv, NEW p \in Procs, NEW d, Moves(p, d)
    PROVE  Others(p) /\ op'[p] = d
<1>1. CASE Goto(p, d) /\ UNCHANGED rbac
  BY <1>1, GotoIs, GotoLeaves DEF Goto
<1>2. CASE Becomes(p, d)
  BY <1>2, BecomesIs DEF Becomes
<1> QED
  BY <1>1, <1>2 DEF Moves

\* A step on roles and assignments is a move of a call that is no check.
LEMMA RoleStepMoves ==
    ASSUME RInv, NEW p \in Procs, RoleStep(p)
    PROVE  \E d : Moves(p, d) /\ d.pc \notin OtherPcs
<1>0. Idle.pc \notin OtherPcs
  BY DEF Idle, OtherPcs, AskPcs
<1>1. ASSUME NEW k, DefinePermission(p, k) PROVE Moves(p, Idle)
  BY <1>1 DEF DefinePermission, Once, Moves
<1>2. ASSUME NEW n, NEW s, NEW ks, CreateRole(p, n, s, ks) PROVE Moves(p, Idle)
  BY <1>2 DEF CreateRole, Once, Moves
<1>3. ASSUME NEW d, Begin(p, d) PROVE Moves(p, d)
  BY <1>3 DEF Begin, Moves
<1>4. ASSUME NEW r, NEW copy PROVE RoleCall(r, copy).pc \notin OtherPcs
  BY DEF RoleCall, OtherPcs, AskPcs
<1>5. ASSUME NEW r, NEW k, AssignPermissionToRole(p, r, k) \/ RevokePermissionFromRole(p, r, k)
      PROVE  \E d : Moves(p, d) /\ d.pc \notin OtherPcs
  BY <1>3, <1>4, <1>5 DEF AssignPermissionToRole, RevokePermissionFromRole
<1>6. CASE SaveCopy(p)
  BY <1>6 DEF SaveCopy, Return, Moves, Goto, Idle, OtherPcs, AskPcs
<1>7. ASSUME NEW n, SeedDefaultRoles(p, n) PROVE \E d : Moves(p, d) /\ d.pc \notin OtherPcs
  <2>1. PICK r : Becomes(p, [pc |-> "seedLinks", role |-> r, name |-> n, clean |-> TRUE])
    BY <1>7 DEF SeedDefaultRoles
  <2> QED
    BY <2>1 DEF Moves, OtherPcs, AskPcs
<1>8. CASE SeedLinks(p)
  BY <1>0, <1>8 DEF SeedLinks, Moves
<1>9. ASSUME NEW u, NEW r, NEW o, NEW e, AssignRoleToUser(p, u, r, o, e) PROVE Moves(p, Idle)
  BY <1>9 DEF AssignRoleToUser, Once, Moves
<1>10. ASSUME NEW a, NEW byTuple, RevokeRoleFromUser(p, a, byTuple)
       PROVE  \E d : Moves(p, d) /\ d.pc \notin OtherPcs
  <2>1. Begin(p, [pc |-> "dropRow", row |-> a])
    BY <1>10 DEF RevokeRoleFromUser
  <2> QED
    BY <1>3, <2>1 DEF OtherPcs, AskPcs
<1>11. CASE DropFound(p)
  BY <1>0, <1>11 DEF DropFound, Moves
<1> QED
  BY <1>0, <1>1, <1>2, <1>5, <1>6, <1>7, <1>8, <1>9, <1>10, <1>11 DEF RoleStep

\* So is a step of a route.
LEMMA RouteStepMoves ==
    ASSUME RInv, NEW p \in Procs, RouteStep(p)
    PROVE  \E d : Moves(p, d) /\ d.pc \notin OtherPcs
<1>0. Idle.pc \notin OtherPcs
  BY DEF Idle, OtherPcs, AskPcs
<1>1. ASSUME NEW route, NEW args, Begin(p, RouteCall(route, args))
      PROVE  \E d : Moves(p, d) /\ d.pc \notin OtherPcs
  BY <1>1 DEF Begin, Moves, RouteCall, OtherPcs, AskPcs
<1>2. ASSUME NEW route, NEW r, NEW args, Begin(p, OnRole(route, r, args))
      PROVE  \E d : Moves(p, d) /\ d.pc \notin OtherPcs
  BY <1>2 DEF Begin, Moves, OnRole, OtherPcs, AskPcs
<1>3. ASSUME Return(p), UNCHANGED rbac PROVE Moves(p, Idle)
  BY <1>3 DEF Return, Moves
<1>4. CASE RouteCheck(p)
  <2>1. UNCHANGED rbac /\ DOMAIN op[p] = RouteFields
    BY <1>4 DEF RouteCheck, Reads, RInv, Shape
  <2>2. CASE Return(p)
    BY <1>0, <1>3, <2>1, <2>2
  <2>3. CASE Goto(p, [op[p] EXCEPT !.pc = "routeWrite", !.clean = TRUE])
    <3>1. [op[p] EXCEPT !.pc = "routeWrite", !.clean = TRUE].pc = "routeWrite"
      BY <2>1 DEF RouteFields
    <3> QED
      BY <2>1, <2>3, <3>1 DEF Moves, OtherPcs, AskPcs
  <2> QED
    BY <1>4, <2>2, <2>3 DEF RouteCheck
<1>5. CASE RouteWrite(p)
  BY <1>0, <1>5 DEF RouteWrite, Moves
<1>6. CASE RouteFails(p)
  BY <1>0, <1>3, <1>6 DEF RouteFails, Reads
<1>7. ASSUME NEW u, NEW o, NEW r, NEW n, CreateRoleRoute(p, u, o, n) \/ UpdateRoleRoute(p, u, o, r, n)
      PROVE  \E d : Moves(p, d) /\ d.pc \notin OtherPcs
  BY <1>1, <1>7 DEF CreateRoleRoute, UpdateRoleRoute
<1>8. ASSUME NEW u, NEW o, NEW r, NEW k, NEW route, PermissionRoute(p, u, o, r, k, route) \/ DeleteRoleRoute(p, u, o, r)
      PROVE  \E d : Moves(p, d) /\ d.pc \notin OtherPcs
  BY <1>2, <1>8 DEF PermissionRoute, DeleteRoleRoute
<1>9. ASSUME NEW u, NEW o, NEW r, NEW t, NEW e, AssignRoute(p, u, o, r, t, e)
      PROVE  \E d : Moves(p, d) /\ d.pc \notin OtherPcs
  BY <1>2, <1>9 DEF AssignRoute
<1>10. ASSUME NEW u, NEW o, NEW a, RevokeAssignmentRoute(p, u, o, a)
       PROVE  \E d : Moves(p, d) /\ d.pc \notin OtherPcs
  BY <1>1, <1>10 DEF RevokeAssignmentRoute
<1> QED
  BY <1>4, <1>5, <1>6, <1>7, <1>8, <1>9, <1>10 DEF RouteStep

\* And a step of publication or of a dry run, unless it concerns the cache alone.
LEMMA PolicyStepMoves ==
    ASSUME RInv, NEW p \in Procs, PolicyStep(p)
    PROVE  (op' = op /\ UNCHANGED rbac) \/ \E d : Moves(p, d) /\ d.pc \notin AskPcs
<1>1. CASE \E id \in PolicyIds, rules \in RuleSets :
              \/ \E draft \in BOOLEAN : CreatePolicy(p, id, rules, draft)
              \/ PublishNewVersion(p, id, rules)
  <2>1. PICK id, n, v : Begin(p, PublishCall(id, n, v))
    BY <1>1 DEF CreatePolicy, PublishNewVersion
  <2> QED
    BY <2>1 DEF Begin, Moves, PublishCall, AskPcs
<1>2. CASE SavePolicy(p)
  BY <1>2 DEF SavePolicy, Moves, AskPcs
<1>3. CASE InvalidatePublished(p)
  BY <1>3 DEF InvalidatePublished, Return, Moves, Idle, AskPcs
<1>4. CASE InvalidateByHand(p)
  BY <1>4 DEF InvalidateByHand
<1>7. "pc" \in DOMAIN op[p]
  BY DEF RInv, Shape
<1>8. ASSUME UNCHANGED rbac, op' = [op EXCEPT ![p] = op'[p]], op'[p].pc \notin AskPcs
      PROVE  \E d : Moves(p, d) /\ d.pc \notin AskPcs
  <2>1. PICK d : d = op'[p]
    OBVIOUS
  <2> QED
    BY <1>8, <2>1 DEF Moves, Goto
<1>5. CASE \E f \in Files, id \in PolicyIds : PolicySimulate(p, f, id)
  <2>1. PICK f, id : PolicySimulate(p, f, id)
    BY <1>5
  <2>2. PICK d : d = op'[p]
    OBVIOUS
  <2>3. PICK x, y, z : /\ x = IF f.source = "stored" THEN id ELSE "none"
                       /\ y = f.draft
                       /\ z = IF f.source = "stored" THEN Len(policies[id]) ELSE 0
    OBVIOUS
  <2>4. /\ UNCHANGED rbac /\ op' = [op EXCEPT ![p] = op'[p]]
        /\ \/ d = [pc |-> "simulate", fixtures |-> f.fixtures, results |-> <<>>, exit |-> 0,
                  policy |-> x, draft |-> y, from |-> z]
           \/ d = [pc |-> "exited", exit |-> 2]
    BY <2>1, <2>2, <2>3, PolicySimulateIs
  <2>5. d.pc \notin AskPcs
    BY <2>4 DEF AskPcs
  <2> QED
    BY <1>8, <2>2, <2>4, <2>5
<1>6. CASE SimulateFixture(p) \/ Report(p)
  <2>1. UNCHANGED rbac /\ op' = [op EXCEPT ![p] = op'[p]]
    BY <1>6, SimulateFixtureIs, ReportIs
  <2>2. CASE SimulateFixture(p)
    BY <1>7, <1>8, <2>1, <2>2, SimulateFixtureIs DEF AskPcs
  <2>3. CASE Report(p)
    BY <1>7, <1>8, <2>1, <2>3, ReportIs DEF AskPcs
  <2> QED
    BY <1>6, <2>2, <2>3
<1> QED
  BY <1>1, <1>2, <1>3, <1>4, <1>5, <1>6 DEF PolicyStep

\* What a check knows does not depend on more than the tables and the call.
LEMMA UnchangedCheck ==
    ASSUME RowsOK, NEW q \in Procs, CheckOK(op[q]), op'[q] = op[q], UNCHANGED rbac
    PROVE  CheckOK(op[q])'
<1>1. /\ roles' = roles /\ assignments' = assignments /\ now' = now
      /\ Concrete' = Concrete /\ RoleIds' = RoleIds /\ AskPcs' = AskPcs
  BY DEF rbac, Concrete, RoleIds, AskPcs
<1>2. (HeldNow(op[q]))' = HeldNow(op[q]) /\ (ActiveNow(op[q]))' = ActiveNow(op[q])
  BY <1>1 DEF HeldNow, ActiveNow
<1>3. \A ks : Gives(ks)' = Gives(ks)
  BY DEF Gives, Denotes, Concrete
<1> QED
  BY <1>1, <1>2, <1>3 DEF CheckOK

\* What a guard asks for is concrete.
Asked(for, asks) == for = "guard" => asks.keys \subseteq Concrete

\* A step of a check, which leaves the tables alone.
LEMMA BeginsKnowing ==
    ASSUME RInv, NEW p \in Procs, NEW for, NEW u, NEW o, NEW asks, Begin(p, Asking(for, u, o, asks)),
           Asked(for, asks)
    PROVE  CheckOK(op[p])'
<1>1. PICK holds : holds = Holds(roles, assignments, now, u, o)
  OBVIOUS
<1>2. PICK d : d = [pc |-> "readRows", for |-> for, user |-> u, org |-> o, asks |-> asks,
       todo |-> {}, granted |-> {}, held |-> holds, always |-> holds, writes |-> 0,
       value |-> <<>>, loaded |-> <<>>, excused |-> FALSE, failed |-> FALSE, decision |-> "none"]
  OBVIOUS
<1>3. UNCHANGED rbac /\ op'[p] = d
  BY <1>1, <1>2, GotoIs DEF Begin, Goto, Asking
<1>4. /\ d.pc = "readRows" /\ d.for = for /\ d.asks = asks /\ d.granted = {}
      /\ d.user = u /\ d.org = o /\ d.held = holds /\ d.always = holds
  BY <1>2
<1>5. (HeldNow(op[p]))' = holds /\ Concrete' = Concrete
  BY <1>1, <1>3, <1>4 DEF HeldNow, rbac, Concrete
<1>6. d.for = "guard" => d.asks.keys \subseteq Concrete
  BY <1>4 DEF Asked
<1> QED
  BY <1>3, <1>4, <1>5, <1>6 DEF CheckOK, AskPcs

\* A step of a check that changes neither what it has held nor whom it is about.
LEMMA SameHeld ==
    ASSUME NEW p \in Procs, UNCHANGED rbac, CheckOK(op[p]), op[p].pc \in AskPcs,
           op'[p].user = op[p].user, op'[p].org = op[p].org, op'[p].held = op[p].held,
           op'[p].always = op[p].always, op'[p].writes = op[p].writes, op'[p].for = op[p].for,
           op'[p].asks = op[p].asks
    PROVE  /\ (HeldNow(op[p]))' = HeldNow(op[p]) /\ (ActiveNow(op[p]))' = ActiveNow(op[p])
           /\ HeldNow(op[p]) \subseteq op'[p].held /\ op'[p].always \subseteq HeldNow(op[p])
           /\ op'[p].writes = 0 => op'[p].held = HeldNow(op[p]) /\ op'[p].always = HeldNow(op[p])
           /\ op'[p].for = "guard" => op'[p].asks.keys \subseteq Concrete
           /\ Concrete' = Concrete /\ RoleIds' = RoleIds /\ roles' = roles
           /\ \A ks : Gives(ks)' = Gives(ks)
  BY DEF CheckOK, HeldNow, ActiveNow, rbac, Concrete, RoleIds, Gives, Denotes

\* After the first query the check knows which roles the user has at that moment.
LEMMA ReadRowsKnows ==
    ASSUME RInv, RowsOK, NEW p \in Procs, CheckOK(op[p]), ReadRows(p)
    PROVE  CheckOK(op[p])'
<1> DEFINE c == op[p]
           d == op'[p]
<1>1. /\ c.pc = "readRows" /\ c.granted = {} /\ UNCHANGED rbac
      /\ d.pc = "readRoles" /\ d.todo = ActiveNow(c)
      /\ d.user = c.user /\ d.org = c.org /\ d.held = c.held /\ d.always = c.always /\ d.writes = c.writes
      /\ d.for = c.for /\ d.asks = c.asks /\ d.granted = c.granted
  BY ReadRowsIs DEF AskFields, ActiveNow, CheckOK, AskPcs
<1>2. /\ (HeldNow(c))' = HeldNow(c) /\ (ActiveNow(c))' = ActiveNow(c)
      /\ HeldNow(c) \subseteq d.held /\ d.always \subseteq HeldNow(c)
      /\ d.writes = 0 => d.held = HeldNow(c) /\ d.always = HeldNow(c)
      /\ d.for = "guard" => d.asks.keys \subseteq Concrete
      /\ Concrete' = Concrete /\ RoleIds' = RoleIds /\ roles' = roles
      /\ \A ks : Gives(ks)' = Gives(ks)
  BY <1>1, SameHeld DEF AskPcs
<1>3. ActiveNow(c) \subseteq RoleIds
  BY ActiveIsRole DEF ActiveNow
<1>4. \A x : x \in HeldNow(c) <=> \E r \in ActiveNow(c) : x \in Gives(roles[r].keys)
  BY HoldsIs DEF HeldNow, ActiveNow
<1>5. Gives({}) = {}
  BY DEF Gives
<1>6. ASSUME NEW r \in d.todo PROVE Gives(roles[r].keys) \subseteq d.held
  BY <1>1, <1>2, <1>4
<1>7. ASSUME NEW x \in d.always PROVE \E r \in d.todo : x \in Gives(roles[r].keys)
  BY <1>1, <1>2, <1>4
<1> QED
  BY <1>1, <1>2, <1>3, <1>5, <1>6, <1>7 DEF CheckOK, AskPcs

\* What two sets of permissions give together.
LEMMA GivesUnion ==
    ASSUME NEW A, NEW B
    PROVE  Gives(A \union B) = Gives(A) \union Gives(B)
  BY DEF Gives

\* After each of the others it knows what one more of them grants.
LEMMA ReadRoleKnows ==
    ASSUME RInv, RowsOK, NEW p \in Procs, CheckOK(op[p]), NEW r \in RoleIds, ReadRole(p, r)
    PROVE  CheckOK(op[p])'
<1> DEFINE c == op[p]
           d == op'[p]
<1>1. /\ c.pc = "readRoles" /\ r \in c.todo /\ UNCHANGED rbac
      /\ d.pc = "readRoles" /\ d.todo = c.todo \ {r} /\ d.granted = c.granted \union roles[r].keys
      /\ d.user = c.user /\ d.org = c.org /\ d.held = c.held /\ d.always = c.always /\ d.writes = c.writes
      /\ d.for = c.for /\ d.asks = c.asks
  BY ReadRoleIs DEF AskFields
<1>2. /\ (HeldNow(c))' = HeldNow(c) /\ (ActiveNow(c))' = ActiveNow(c)
      /\ HeldNow(c) \subseteq d.held /\ d.always \subseteq HeldNow(c)
      /\ d.writes = 0 => d.held = HeldNow(c) /\ d.always = HeldNow(c)
      /\ d.for = "guard" => d.asks.keys \subseteq Concrete
      /\ Concrete' = Concrete /\ RoleIds' = RoleIds /\ roles' = roles
      /\ \A ks : Gives(ks)' = Gives(ks)
  BY <1>1, SameHeld DEF AskPcs
<1>3. \A x : x \in HeldNow(c) <=> \E i \in ActiveNow(c) : x \in Gives(roles[i].keys)
  BY HoldsIs DEF HeldNow, ActiveNow
<1>4. /\ c.todo \subseteq RoleIds
      /\ c.writes = 0 =>
           /\ c.todo \subseteq ActiveNow(c)
           /\ \A i \in ActiveNow(c) : i \in c.todo \/ roles[i].keys \subseteq c.granted
           /\ Gives(c.granted) \subseteq HeldNow(c)
      /\ c.writes <= 1 =>
           /\ Gives(c.granted) \subseteq c.held
           /\ \A i \in c.todo : Gives(roles[i].keys) \subseteq c.held
           /\ \A x \in c.always : x \in Gives(c.granted) \/ \E i \in c.todo : x \in Gives(roles[i].keys)
  BY <1>1 DEF CheckOK, AskPcs
<1>5. Gives(d.granted) = Gives(c.granted) \union Gives(roles[r].keys)
  BY <1>1, GivesUnion
<1>6. ASSUME d.writes = 0
      PROVE  /\ d.todo \subseteq ActiveNow(c)
             /\ \A i \in ActiveNow(c) : i \in d.todo \/ roles[i].keys \subseteq d.granted
             /\ Gives(d.granted) \subseteq HeldNow(c)
  BY <1>1, <1>3, <1>4, <1>5, <1>6
<1>7. ASSUME d.writes <= 1
      PROVE  /\ Gives(d.granted) \subseteq d.held
             /\ \A i \in d.todo : Gives(roles[i].keys) \subseteq d.held
             /\ \A x \in d.always : x \in Gives(d.granted) \/ \E i \in d.todo : x \in Gives(roles[i].keys)
  BY <1>1, <1>4, <1>5, <1>7
<1> QED
  BY <1>1, <1>2, <1>4, <1>6, <1>7 DEF CheckOK, AskPcs

\* All roles are read: what was read is what the user holds.
LEMMA ReadAll ==
    ASSUME RowsOK, NEW c, CheckOK(c), c.pc = "readRoles", c.todo = {}, c.writes = 0
    PROVE  Gives(c.granted) = HeldNow(c)
<1>1. \A x : x \in HeldNow(c) <=> \E i \in ActiveNow(c) : x \in Gives(roles[i].keys)
  BY HoldsIs DEF HeldNow, ActiveNow
<1>2. /\ \A i \in ActiveNow(c) : roles[i].keys \subseteq c.granted
      /\ Gives(c.granted) \subseteq HeldNow(c)
  BY DEF CheckOK, AskPcs
<1>3. HeldNow(c) \subseteq Gives(c.granted)
  BY <1>1, <1>2, GivesIs
<1> QED
  BY <1>2, <1>3

\* Once no role is left, what it has collected is what the user holds, or all but one change of it.
LEMMA GuardKnows ==
    ASSUME RInv, RowsOK, NEW p \in Procs, CheckOK(op[p]), Guard(p)
    PROVE  CheckOK(op[p])'
<1> DEFINE c == op[p]
           d == op'[p]
<1>1. /\ c.pc = "readRoles" /\ c.todo = {} /\ UNCHANGED rbac /\ c.for = "guard"
      /\ d.pc = IF Suffice(c) THEN "allowed" ELSE "forbidden"
      /\ d.user = c.user /\ d.org = c.org /\ d.held = c.held /\ d.always = c.always /\ d.writes = c.writes
      /\ d.for = c.for /\ d.asks = c.asks
  BY GuardIs DEF AskFields
<1>2. /\ (HeldNow(c))' = HeldNow(c)
      /\ HeldNow(c) \subseteq d.held /\ d.always \subseteq HeldNow(c)
      /\ d.writes = 0 => d.held = HeldNow(c) /\ d.always = HeldNow(c)
      /\ d.for = "guard" => d.asks.keys \subseteq Concrete
      /\ Concrete' = Concrete
  BY <1>1, SameHeld DEF AskPcs
<1>3. c.writes <= 1 => Gives(c.granted) \subseteq c.held /\ c.always \subseteq Gives(c.granted)
  BY <1>1 DEF CheckOK, AskPcs
<1>4. \A k \in c.asks.keys : HasPermission(c.granted, k) <=> k \in Gives(c.granted)
  BY <1>1, <1>2, HasIsGives
<1>5. Suffice(c) <=> IF c.asks.mode = "all" THEN c.asks.keys \subseteq Gives(c.granted)
                     ELSE c.asks.keys \intersect Gives(c.granted) # {}
  BY <1>4 DEF Suffice
<1>6. d.pc \in {"allowed", "forbidden"} /\ (d.pc = "allowed" <=> Suffice(c))
  BY <1>1
<1> HIDE DEF c, d
<1>7. d.writes <= 1 =>
        /\ d.pc = "allowed" => IF d.asks.mode = "all" THEN d.asks.keys \subseteq d.held
                               ELSE d.asks.keys \intersect d.held # {}
        /\ (IF d.asks.mode = "all" THEN d.asks.keys \subseteq d.always
            ELSE d.asks.keys \intersect d.always # {}) => d.pc = "allowed"
  BY <1>1, <1>3, <1>5, <1>6
<1> USE DEF c, d
<1> QED
  BY <1>2, <1>6, <1>7 DEF CheckOK, AskPcs

\* A check of an action goes on with what it has read.
LEMMA ActionKnows ==
    ASSUME RInv, RowsOK, NEW p \in Procs, CheckOK(op[p]), UNCHANGED rbac, op[p].pc \in AskPcs,
           \A f \in {"user", "org", "held", "always", "writes", "for", "asks", "granted"} : op'[p][f] = op[p][f],
           \/ op'[p].pc = "decided"
           \/ op'[p].pc \in {"load", "evaluate"} /\ op[p].pc = "readRoles" /\ op[p].todo = {}
           \/ op'[p].pc \in {"store", "evaluate"} /\ op[p].pc \in {"load", "store"}
    PROVE  CheckOK(op[p])'
<1> DEFINE c == op[p]
           d == op'[p]
<1>1. /\ d.user = c.user /\ d.org = c.org /\ d.held = c.held /\ d.always = c.always /\ d.writes = c.writes
      /\ d.for = c.for /\ d.asks = c.asks /\ d.granted = c.granted
  OBVIOUS
<1>2. /\ (HeldNow(c))' = HeldNow(c)
      /\ HeldNow(c) \subseteq d.held /\ d.always \subseteq HeldNow(c)
      /\ d.writes = 0 => d.held = HeldNow(c) /\ d.always = HeldNow(c)
      /\ d.for = "guard" => d.asks.keys \subseteq Concrete
      /\ Concrete' = Concrete
      /\ \A ks : Gives(ks)' = Gives(ks)
  BY <1>1, SameHeld
<1>3. d.pc # "decided" /\ d.writes = 0 => Gives(d.granted) = HeldNow(c)
  <2>1. CASE c.pc = "readRoles" /\ c.todo = {}
    BY <1>1, <2>1, ReadAll
  <2>2. CASE c.pc \in {"load", "store"}
    BY <1>1, <2>2 DEF CheckOK, AskPcs
  <2> QED
    BY <2>1, <2>2
<1>4. d.pc \in {"load", "store", "evaluate", "decided"}
  OBVIOUS
<1> QED
  BY <1>2, <1>3, <1>4 DEF CheckOK, AskPcs

\* Each step of a check keeps what it knows, and the others need notice nothing.
LEMMA CheckStepKnows ==
    ASSUME RInv, RowsOK, NEW p \in Procs, CheckOK(op[p]), CheckStep(p)
    PROVE  CheckOK(op[p])' /\ op' = [op EXCEPT ![p] = op'[p]]
<1>1. ASSUME NEW for, NEW u, NEW o, NEW asks, Begin(p, Asking(for, u, o, asks)), Asked(for, asks)
      PROVE  CheckOK(op[p])' /\ op' = [op EXCEPT ![p] = op'[p]]
  <2>1. op' = [op EXCEPT ![p] = op'[p]]
    <3>1. PICK d : d = Asking(for, u, o, asks)
      OBVIOUS
    <3> QED
      BY <1>1, <3>1, GotoIs DEF Begin, Goto
  <2> QED
    BY <1>1, <2>1, BeginsKnowing
<1>2. ASSUME NEW u, NEW o, NEW d \in Demands, ResolvePrincipal(p, u, o, d)
      PROVE  CheckOK(op[p])' /\ op' = [op EXCEPT ![p] = op'[p]]
  <2>1. Asked("guard", d)
    BY AuthorizationAssumption DEF Asked
  <2> QED
    BY <1>1, <1>2, <2>1 DEF ResolvePrincipal
<1>3. ASSUME NEW u, NEW o, NEW rt, NEW x, AuthorizeAction(p, u, o, rt, x)
      PROVE  CheckOK(op[p])' /\ op' = [op EXCEPT ![p] = op'[p]]
  <2>1. PICK asks : asks = [rt |-> rt, context |-> x]
    OBVIOUS
  <2>2. Asked("action", asks)
    BY DEF Asked
  <2> QED
    BY <1>1, <1>3, <2>1, <2>2 DEF AuthorizeAction
<1>4. CASE ReadRows(p)
  BY <1>4, ReadRowsKnows, ReadRowsIs
<1>5. CASE Guard(p)
  BY <1>5, GuardKnows, GuardIs
<1>6. CASE \E r \in RoleIds : ReadRole(p, r)
  BY <1>6, ReadRoleKnows, ReadRoleIs
<1>7. CASE Answer(p)
  <2>1. op'[p] = Idle /\ op' = [op EXCEPT ![p] = op'[p]]
    BY <1>7, GotoIs DEF Answer, Return, Goto
  <2> QED
    BY <2>1, IdleIsShaped DEF CheckOK, AskPcs
<1>8. CASE FailClosed(p)
  <2>1. UNCHANGED rbac /\ op' = [op EXCEPT ![p] = op'[p]] /\ op[p].pc \in AskPcs /\ op'[p].pc = "decided"
    BY <1>8, FailClosedIs DEF AskPcs
  <2>2. \A f \in {"user", "org", "held", "always", "writes", "for", "asks", "granted"} : op'[p][f] = op[p][f]
    BY <1>8, FailClosedIs DEF AskFields
  <2> QED
    BY <2>1, <2>2, ActionKnows
<1>9. CASE CacheGet(p)
  <2>1. /\ UNCHANGED rbac /\ op' = [op EXCEPT ![p] = op'[p]] /\ op[p].pc = "readRoles" /\ op[p].todo = {}
        /\ op'[p].pc \in {"load", "evaluate"}
    BY <1>9, CacheGetIs
  <2>2. \A f \in {"user", "org", "held", "always", "writes", "for", "asks", "granted"} : op'[p][f] = op[p][f]
    BY <1>9, CacheGetIs DEF AskFields
  <2> QED
    BY <2>1, <2>2, ActionKnows DEF AskPcs
<1>10. CASE LoadPolicies(p)
  <2>1. UNCHANGED rbac /\ op' = [op EXCEPT ![p] = op'[p]] /\ op[p].pc = "load" /\ op'[p].pc = "store"
    BY <1>10, LoadPoliciesIs
  <2>2. \A f \in {"user", "org", "held", "always", "writes", "for", "asks", "granted"} : op'[p][f] = op[p][f]
    BY <1>10, LoadPoliciesIs DEF AskFields
  <2> QED
    BY <2>1, <2>2, ActionKnows DEF AskPcs
<1>11. CASE CacheSet(p)
  <2>1. UNCHANGED rbac /\ op' = [op EXCEPT ![p] = op'[p]] /\ op[p].pc = "store" /\ op'[p].pc = "evaluate"
    BY <1>11, CacheSetIs
  <2>2. \A f \in {"user", "org", "held", "always", "writes", "for", "asks", "granted"} : op'[p][f] = op[p][f]
    BY <1>11, CacheSetIs DEF AskFields
  <2> QED
    BY <2>1, <2>2, ActionKnows DEF AskPcs
<1>12. CASE Decide(p)
  <2>1. UNCHANGED rbac /\ op' = [op EXCEPT ![p] = op'[p]] /\ op[p].pc = "evaluate" /\ op'[p].pc = "decided"
    BY <1>12, DecideIs
  <2>2. \A f \in {"user", "org", "held", "always", "writes", "for", "asks", "granted"} : op'[p][f] = op[p][f]
    BY <1>12, DecideIs DEF AskFields
  <2> QED
    BY <2>1, <2>2, ActionKnows DEF AskPcs
<1> QED
  BY <1>2, <1>3, <1>4, <1>5, <1>6, <1>7, <1>8, <1>9, <1>10, <1>11, <1>12 DEF CheckStep

\* A step of another kind ends in a call that is no check.
LEMMA OtherStepKnows ==
    ASSUME RInv, NEW p \in Procs, CheckOK(op[p]), RoleStep(p) \/ RouteStep(p) \/ PolicyStep(p)
    PROVE  Others(p) /\ ((op' = op /\ UNCHANGED rbac) \/ CheckOK(op[p])')
<1>1. CASE \E d : Moves(p, d) /\ d.pc \notin AskPcs
  <2>1. PICK d : Moves(p, d) /\ d.pc \notin AskPcs
    BY <1>1
  <2>2. Others(p) /\ op'[p] = d
    BY <2>1, MovesIs
  <2> QED
    BY <2>1, <2>2 DEF CheckOK, AskPcs
<1>2. CASE op' = op /\ UNCHANGED rbac
  <2>1. Others(p)
    BY <1>2 DEF Others, RInv
  <2> QED
    BY <1>2, <2>1
<1> QED
  BY <1>1, <1>2, RoleStepMoves, RouteStepMoves, PolicyStepMoves DEF OtherPcs

\* Nobody checks anything at first.
LEMMA EInvInit == Init => EInv
<1> SUFFICES ASSUME Init PROVE EInv
  OBVIOUS
<1>1. RInv
  BY RInvInit
<1>2. \A p \in Procs : CheckOK(op[p])
  <2>1. op = [p \in Procs |-> Idle]
    BY DEF Init
  <2> QED
    BY <2>1, IdleIsShaped DEF CheckOK, AskPcs
<1>3. RowsOK
  <2>1. assignments = [a \in RowIds |->
                        CASE a = 1 -> [user |-> "admin", role |-> 1, org |-> "o1", expires |-> Never]
                          [] a = 2 -> [user |-> "ann", role |-> 2, org |-> "o1", expires |-> 1]
                          [] OTHER -> NoRow]
    BY DEF Init
  <2>2. 1 \in RoleIds /\ 2 \in RoleIds
    BY AuthorizationAssumption, RbacAssumption DEF RoleIds
  <2>3. ASSUME NEW a \in RowIds PROVE assignments[a].role = 0 \/ assignments[a].role \in RoleIds
    <3>1. CASE a = 1
      BY <2>1, <2>2, <3>1
    <3>2. CASE a = 2
      BY <2>1, <2>2, <3>2
    <3>3. CASE a # 1 /\ a # 2
      <4>1. assignments[a] = NoRow
        BY <2>1, <3>3
      <4> QED
        BY <4>1 DEF NoRow
    <3> QED
      BY <3>1, <3>2, <3>3
  <2>4. assignments = [a \in RowIds |-> assignments[a]]
    BY <2>1
  <2> QED
    BY <2>3, <2>4 DEF RowsOK
<1> QED
  BY <1>1, <1>2, <1>3 DEF EInv

\* What a check knows it still knows after any step, of its own or of others.
LEMMA EInvNext == ASSUME EInv, [Next]_vars PROVE EInv'
<1>1. RInv /\ RowsOK /\ \A p \in Procs : CheckOK(op[p])
  BY DEF EInv
<1>2. RInv'
  BY <1>1, RInvNext
<1>3. ASSUME NEW p \in Procs, Others(p), CheckOK(op[p])', OneChange, RowsOK'
      PROVE  EInv'
  <2>1. ASSUME NEW q \in Procs PROVE CheckOK(op[q])'
    <3>1. CASE q = p
      BY <1>3, <3>1
    <3>2. CASE op'[q] = Noticed(op[q])
      BY <1>1, <1>3, <3>2, NoticedChecks
    <3>3. CASE op'[q] = op[q] /\ UNCHANGED rbac
      BY <1>1, <3>3, UnchangedCheck
    <3> QED
      BY <1>3, <3>1, <3>2, <3>3 DEF Others
  <2> QED
    BY <1>2, <1>3, <2>1 DEF EInv
<1>4. ASSUME op' = op, UNCHANGED rbac PROVE EInv'
  <2>1. ASSUME NEW q \in Procs PROVE CheckOK(op[q])'
    BY <1>1, <1>4, UnchangedCheck
  <2>2. RowsOK'
    BY <1>1, <1>4, NothingIsOneChange
  <2> QED
    BY <1>2, <2>1, <2>2 DEF EInv
<1>5. CASE Tick
  <2>1. OneChange /\ RowsOK'
    BY <1>1, <1>5, NoRoleIsOneChange DEF Tick
  <2>2. \A q \in Procs : op'[q] = Noticed(op[q])
    BY <1>5 DEF Tick
  <2>3. ASSUME NEW q \in Procs PROVE CheckOK(op[q])'
    BY <1>1, <2>1, <2>2, NoticedChecks
  <2> QED
    BY <1>2, <2>1, <2>3 DEF EInv
<1>6. ASSUME NEW p \in Procs, RoleStep(p) \/ RouteStep(p) \/ PolicyStep(p) PROVE EInv'
  <2>1. OneChange /\ RowsOK'
    BY <1>1, <1>6, RoleStepChange, RouteStepChange, OtherStepChange
  <2>2. Others(p) /\ ((op' = op /\ UNCHANGED rbac) \/ CheckOK(op[p])')
    BY <1>1, <1>6, OtherStepKnows
  <2> QED
    BY <1>3, <1>4, <2>1, <2>2
<1>7. ASSUME NEW p \in Procs, CheckStep(p) PROVE EInv'
  <2>1. UNCHANGED rbac /\ OneChange /\ RowsOK'
    BY <1>1, <1>7, OtherStepChange
  <2>2. CheckOK(op[p])' /\ op' = [op EXCEPT ![p] = op'[p]]
    BY <1>1, <1>7, CheckStepKnows
  <2>3. Others(p)
    BY <1>1, <2>1, <2>2, GotoLeaves
  <2> QED
    BY <1>3, <2>1, <2>2, <2>3
<1>8. CASE UNCHANGED vars
  BY <1>4, <1>8 DEF vars
<1> QED
  BY <1>5, <1>6, <1>7, <1>8 DEF Next

\* If at most one change landed during a check, a guard lets through only what the user held at
\* some moment of it, and refuses only what the user did not hold all along.
THEOREM ChecksAreExact == Spec => []CheckIsExact
<1>1. EInv => CheckIsExact
  BY DEF EInv, CheckIsExact, CheckOK, AskPcs
<1>2. EInv /\ [Next]_vars => EInv'
  BY EInvNext
<1> QED
  BY <1>1, <1>2, EInvInit, PTL DEF Spec

\* A finite set as a sequence has the members of the set.
LEMMA SetAsSequence ==
    ASSUME NEW S, IsFiniteSet(S)
    PROVE  SetToSeq(S) \in Seq(S) /\ ToSet(SetToSeq(S)) = S
<1>1. PICK n : n = Cardinality(S)
  OBVIOUS
<1>2. n \in Nat /\ ExistsBijection(1..n, S)
  BY <1>1, FS_CardinalityType
<1>3. PICK g : g \in Bijection(1..n, S)
  BY <1>2 DEF ExistsBijection
<1>4. g \in [1..n -> S] /\ IsInjective(g)
  BY <1>3 DEF Bijection, Injection
<1>5. PICK f : f = SetToSeq(S)
  OBVIOUS
<1>6. f \in [1..n -> S] /\ IsInjective(f)
  BY <1>1, <1>4, <1>5 DEF SetToSeq
<1>7. f \in Surjection(1..n, S)
  <2>1. f \in Injection(1..n, S)
    BY <1>6 DEF Injection
  <2>2. IsFiniteSet(1..n) /\ Cardinality(1..n) = n
    BY <1>2, FS_Interval
  <2> QED
    BY <1>1, <2>1, <2>2, FS_Injection
<1>8. \A x \in S : \E i \in 1..n : f[i] = x
  BY <1>7 DEF Surjection
<1>9. DOMAIN f = 1..n
  BY <1>6
<1>10. ToSet(f) = S
  BY <1>6, <1>8, <1>9 DEF ToSet
<1>11. f \in Seq(S)
  BY <1>2, <1>6, SeqDef
<1> QED
  BY <1>5, <1>10, <1>11

\* The members of a sequence are finitely many.
LEMMA MembersAreFinite ==
    ASSUME NEW S, NEW s \in Seq(S)
    PROVE  IsFiniteSet(ToSet(s)) /\ ToSet(s) \subseteq S
<1>1. Len(s) \in Nat /\ DOMAIN s = 1..Len(s) /\ s \in [1..Len(s) -> S]
  BY LenProperties
<1>2. s \in Surjection(1..Len(s), ToSet(s))
  BY <1>1 DEF Surjection, ToSet
<1>3. IsFiniteSet(1..Len(s))
  BY <1>1, FS_Interval
<1>4. IsFiniteSet(ToSet(s))
  BY <1>2, <1>3, FS_Surjection
<1> QED
  BY <1>1, <1>4 DEF ToSet

\* Deny overrides: what a list of rules yields, from the effects of the rules that apply.
EffectsOf(rules, context) == {r.effect : r \in {s \in rules : EvaluateCondition(s.condition, context)}}

\* Deny overrides: what a list of rules yields, from the effects of the rules that apply.
LEMMA OverridesIs ==
    ASSUME NEW rules \in Rules, NEW context
    PROVE  LET effect  == DenyOverrides(DeriveRuleOutcomes(rules, context))
               effects == EffectsOf(ToSet(rules), context)
           IN /\ effect \in Effects \union {"NOT_APPLICABLE"}
              /\ effect = "DENY" <=> "DENY" \in effects
              /\ effect = "PERMIT" <=> "DENY" \notin effects /\ "PERMIT" \in effects
              /\ effects \subseteq Effects
<1>1. PICK outcomes : outcomes = DeriveRuleOutcomes(rules, context)
  OBVIOUS
<1>2. PICK n : n = Len(rules)
  OBVIOUS
<1>3. n \in Nat /\ DOMAIN rules = 1..n /\ \A i \in 1..n : rules[i] \in [effect : Effects, condition : Conditions]
  BY <1>2, LenProperties DEF Rules
<1>4. /\ DOMAIN outcomes = 1..n
      /\ \A i \in 1..n : outcomes[i] = IF EvaluateCondition(rules[i].condition, context) THEN rules[i].effect
                                       ELSE "NOT_APPLICABLE"
  BY <1>1, <1>3 DEF DeriveRuleOutcomes
<1>5. \A i \in 1..n : rules[i].effect \in {"PERMIT", "DENY"}
  BY <1>3 DEF Effects
<1>6. Len(outcomes) = n
  <2>1. outcomes \in [1..n -> {"PERMIT", "DENY", "NOT_APPLICABLE"}]
    <3>1. outcomes = [i \in 1..n |-> outcomes[i]]
      BY <1>1, <1>3 DEF DeriveRuleOutcomes
    <3>2. \A i \in 1..n : outcomes[i] \in {"PERMIT", "DENY", "NOT_APPLICABLE"}
      BY <1>4, <1>5
    <3> QED
      BY <3>1, <3>2
  <2>2. outcomes \in Seq({"PERMIT", "DENY", "NOT_APPLICABLE"})
    BY <1>3, <2>1, SeqDef
  <2>3. Len(outcomes) \in Nat /\ DOMAIN outcomes = 1..Len(outcomes)
    BY <2>2, LenProperties
  <2> QED
    BY <1>3, <1>4, <2>3
<1>7. PICK effects : effects = EffectsOf(ToSet(rules), context)
  OBVIOUS
<1>8. \A e : e \in effects <=> \E i \in 1..n : EvaluateCondition(rules[i].condition, context) /\ e = rules[i].effect
  BY <1>3, <1>7 DEF EffectsOf, ToSet
<1>9. ASSUME NEW e \in {"PERMIT", "DENY"} PROVE Contains(outcomes, e) <=> e \in effects
  <2>1. Contains(outcomes, e) <=> \E i \in 1..n : outcomes[i] = e
    BY <1>6 DEF Contains
  <2> QED
    BY <1>4, <1>8, <1>9, <2>1
<1>10. effects \subseteq Effects
  BY <1>5, <1>8 DEF Effects
<1>11. /\ DenyOverrides(outcomes) \in Effects \union {"NOT_APPLICABLE"}
       /\ DenyOverrides(outcomes) = "DENY" <=> Contains(outcomes, "DENY")
       /\ DenyOverrides(outcomes) = "PERMIT" <=> ~Contains(outcomes, "DENY") /\ Contains(outcomes, "PERMIT")
  BY DEF DenyOverrides, Effects
<1> QED
  BY <1>1, <1>7, <1>9, <1>10, <1>11

\* The answer of the two layers together.
LEMMA ComposeIs ==
    ASSUME NEW granted \in BOOLEAN, NEW effect \in Effects \union {"NOT_APPLICABLE"}
    PROVE  Compose(IF granted THEN "grant" ELSE "no-match", effect) = "PERMIT" <=>
             effect # "DENY" /\ (granted \/ effect = "PERMIT")
  BY DEF Compose, Effects, DefaultEffectWhenNoPolicyMatches

Versions == [rules : Rules, status : {"draft", "published"}]

\* Generations only rise, so what was read of them is behind.
Behind(g, rt) == g \in Nat \X Nat /\ g[1] <= globalGeneration /\ g[2] <= generations[rt]

TablesOK ==
    /\ policies \in [PolicyIds -> Seq(Versions)]
    /\ globalGeneration \in Nat /\ generations \in [Resources -> Nat]
    /\ \A e \in entries : e.rt \in Resources /\ Behind(e.generation, e.rt)

\* No publication about the resource type is between its two writes, or has lost the second.
Sure(rt) == rt \notin lost /\ ~Publishing(rt)

\* An entry that can be read has the latest versions, unless it is one of those the cache does not promise.
EntriesOK ==
    \A e \in entries :
      ~e.late /\ e.generation = Generation(e.rt) /\ Sure(e.rt) => e.value = LatestFor(e.rt)

PublishOK(c) ==
    c.pc = "saveVersion" => c.policy \in PolicyIds /\ c.version \in Versions /\ c.number \in Nat

\* What a check of an action has taken from the tables or the cache, and what it answers.
AnswerOK(c) ==
    c.pc \in AskPcs =>
      /\ c.for = "action" => c.asks.rt \in Resources
      /\ c.pc \in {"load", "store", "evaluate", "decided"} => c.for = "action"
      /\ c.pc # "decided" => ~c.failed
      /\ c.pc = "decided" /\ c.failed => c.decision = "DENY"
      /\ c.pc = "store" =>
           /\ Behind(c.loaded, c.asks.rt)
           /\ c.loaded = Generation(c.asks.rt) /\ Sure(c.asks.rt) => c.value = LatestFor(c.asks.rt)
      /\ c.pc \in {"store", "evaluate"} /\ c.writes = 0 /\ ~c.excused => c.value = LatestFor(c.asks.rt)
      /\ c.pc = "decided" /\ ~c.failed /\ c.writes = 0 /\ ~c.excused =>
           (c.decision = "PERMIT" <=> ShouldPermit(c))

DInv ==
    /\ EInv
    /\ TablesOK
    /\ EntriesOK
    /\ \A p \in Procs : PublishOK(op[p]) /\ AnswerOK(op[p])

\* What no step does: lower a generation, or change what is stored of a resource type, or end a publication
\* about it, and leave the generation and the promise.
Steady ==
    \A rt \in Resources :
      /\ globalGeneration <= globalGeneration' /\ generations[rt] <= generations'[rt]
      /\ Generation(rt)' = Generation(rt) /\ Sure(rt)' => Sure(rt) /\ LatestFor(rt)' = LatestFor(rt)

-----------------------------------------------------------------------------
\* What is applicable depends on the policies about the resource type only.
LEMMA LatestIsLocal ==
    ASSUME NEW rt, \A id \in PolicyIds : Target[id] = rt => policies'[id] = policies[id]
    PROVE  LatestFor(rt)' = LatestFor(rt)
<1>1. PICK D : D = {i \in PolicyIds : Target[i] = rt /\ policies[i] # <<>> /\ Last(policies[i]).status = "published"}
  OBVIOUS
<1>2. D = {i \in PolicyIds : Target[i] = rt /\ policies'[i] # <<>> /\ Last(policies'[i]).status = "published"}
  BY <1>1
<1>3. LatestFor(rt) = [id \in D |-> Len(policies[id])]
  BY <1>1 DEF LatestFor
<1>4. LatestFor(rt)' = [id \in D |-> Len(policies'[id])]
  BY <1>2 DEF LatestFor
<1>5. \A id \in D : Len(policies'[id]) = Len(policies[id])
  BY <1>1
<1> QED
  BY <1>3, <1>4, <1>5

\* A call that is no check and no write of a role notices nothing.
LEMMA PlainNoticesNothing ==
    ASSUME NEW c, Shape(c), c.pc \in {"saveVersion", "invalidate", "simulate", "exited", "idle"}
    PROVE  Noticed(c) = c
<1>1. "held" \notin DOMAIN c /\ "clean" \notin DOMAIN c
  BY DEF Shape, AskPcs
<1> QED
  BY <1>1 DEF Noticed

\* A publication goes on while another process steps.
LEMMA PublishingStays ==
    ASSUME RInv, NEW p, Others(p), p \in Procs => op[p].pc # "invalidate", NEW rt
    PROVE  Publishing(rt) => Publishing(rt)'
<1> SUFFICES ASSUME NEW q \in Procs, op[q].pc = "invalidate", op[q].rt = rt
             PROVE  op'[q].pc = "invalidate" /\ op'[q].rt = rt
  BY DEF Publishing
<1>1. q # p
  OBVIOUS
<1>2. Shape(op[q])
  BY DEF RInv
<1>3. op'[q] = op[q]
  BY <1>1, <1>2, PlainNoticesNothing DEF Others
<1> QED
  BY <1>3

\* Steps that leave the versions and the generations alone.
LEMMA QuietIsSteady ==
    ASSUME RInv, TablesOK, NEW p, Others(p), p \in Procs => op[p].pc # "invalidate",
           UNCHANGED <<policies, globalGeneration, generations, lost>>
    PROVE  Steady
<1> SUFFICES ASSUME NEW rt \in Resources
             PROVE  /\ globalGeneration <= globalGeneration' /\ generations[rt] <= generations'[rt]
                    /\ Sure(rt)' => Sure(rt) /\ LatestFor(rt)' = LatestFor(rt)
  BY DEF Steady
<1>1. Sure(rt)' => Sure(rt)
  BY PublishingStays DEF Sure
<1>2. LatestFor(rt)' = LatestFor(rt)
  BY LatestIsLocal
<1>3. globalGeneration \in Nat /\ generations[rt] \in Nat
  BY DEF TablesOK
<1> QED
  BY <1>1, <1>2, <1>3

\* A version is added; the call that adds it is then between the two writes.
LEMMA SavePolicyIs ==
    ASSUME RInv, TablesOK, NEW p \in Procs, PublishOK(op[p]), SavePolicy(p)
    PROVE  /\ Steady /\ Others(p) /\ op'[p].pc = "invalidate"
           /\ \A q \in Procs \ {p} : op'[q] = Noticed(op[q])
           /\ policies' \in [PolicyIds -> Seq(Versions)]
           /\ UNCHANGED <<rbac, globalGeneration, generations, entries, lost>>
<1>1. PICK id, n, v : id = op[p].policy /\ n = op[p].number /\ v = op[p].version
  OBVIOUS
<1>2. id \in PolicyIds /\ n \in Nat /\ v \in Versions /\ op[p].pc = "saveVersion"
  BY <1>1 DEF SavePolicy, PublishOK
<1>3. policies' = [policies EXCEPT ![id] = IF n <= Len(policies[id]) THEN policies[id] ELSE Append(policies[id], v)]
  BY <1>1 DEF SavePolicy, SaveVersion
<1>4. policies[id] \in Seq(Versions)
  BY <1>2 DEF TablesOK
<1>5. PICK versions \in Seq(Versions) : policies' = [policies EXCEPT ![id] = versions]
  <2>1. Append(policies[id], v) \in Seq(Versions)
    BY <1>2, <1>4, AppendProperties
  <2>2. CASE n <= Len(policies[id])
    BY <1>3, <1>4, <2>2
  <2>3. CASE ~(n <= Len(policies[id]))
    BY <1>3, <2>1, <2>3
  <2> QED
    BY <2>2, <2>3
<1>6. policies' \in [PolicyIds -> Seq(Versions)]
  BY <1>5 DEF TablesOK
<1>7. PICK d : d = [pc |-> "invalidate", rt |-> Target[id]]
  OBVIOUS
<1>8. op' = [q \in Procs |-> IF q = p THEN d ELSE Noticed(op[q])]
  BY <1>1, <1>7 DEF SavePolicy, Becomes
<1>9. Others(p) /\ op'[p] = d /\ \A q \in Procs \ {p} : op'[q] = Noticed(op[q])
  BY <1>8, BecomesIs
<1>10. UNCHANGED <<rbac, globalGeneration, generations, entries, lost>>
  BY DEF SavePolicy
<1>11. ASSUME NEW rt \in Resources
       PROVE  /\ globalGeneration <= globalGeneration' /\ generations[rt] <= generations'[rt]
              /\ Sure(rt)' => Sure(rt) /\ LatestFor(rt)' = LatestFor(rt)
  <2>1. globalGeneration \in Nat /\ generations[rt] \in Nat
    BY DEF TablesOK
  <2>2. Sure(rt)' => Sure(rt)
    BY <1>2, <1>9, <1>10, PublishingStays DEF Sure
  <2>3. CASE rt = Target[id]
    <3>1. Publishing(rt)'
      BY <1>7, <1>9, <2>3 DEF Publishing
    <3> QED
      BY <1>10, <2>1, <3>1 DEF Sure
  <2>4. CASE rt # Target[id]
    <3>1. LatestFor(rt)' = LatestFor(rt)
      <4>1. \A i \in PolicyIds : Target[i] = rt => policies'[i] = policies[i]
        BY <1>5, <2>4 DEF TablesOK
      <4> QED
        BY <4>1, LatestIsLocal
    <3> QED
      BY <1>10, <2>1, <2>2, <3>1
  <2> QED
    BY <2>3, <2>4
<1> QED
  BY <1>6, <1>7, <1>9, <1>10, <1>11 DEF Steady

\* The second write of a publication, which raises the generation or is lost.
LEMMA InvalidatePublishedIs ==
    ASSUME RInv, TablesOK, NEW p \in Procs, InvalidatePublished(p)
    PROVE  /\ Steady /\ Others(p) /\ op'[p] = Idle
           /\ UNCHANGED <<rbac, policies, globalGeneration, entries>>
           /\ generations' \in [Resources -> Nat]
<1>1. PICK rt0 : rt0 = op[p].rt
  OBVIOUS
<1>2. /\ op[p].pc = "invalidate" /\ UNCHANGED <<rbac, policies, globalGeneration, entries>>
      /\ \/ generations' = [generations EXCEPT ![rt0] = @ + 1] /\ lost' = lost \ {rt0}
         \/ generations' = generations /\ lost' = lost \union {rt0}
  BY <1>1 DEF InvalidatePublished, InvalidateResourceType, policyTables
<1>3. op'[p] = Idle /\ op' = [op EXCEPT ![p] = op'[p]]
  BY GotoIs DEF InvalidatePublished, Return, Goto
<1>4. Others(p)
  BY <1>2, <1>3, GotoLeaves
<1>5. generations \in [Resources -> Nat] /\ globalGeneration \in Nat
  BY DEF TablesOK
<1>6. generations' \in [Resources -> Nat]
  BY <1>2, <1>5
<1>7. ASSUME NEW rt \in Resources, Sure(rt)', Generation(rt)' = Generation(rt)
      PROVE  Sure(rt)
  <2>1. rt # rt0
    <3>1. CASE generations' = [generations EXCEPT ![rt0] = @ + 1]
      BY <1>5, <1>7, <3>1 DEF Generation
    <3>2. CASE lost' = lost \union {rt0}
      BY <1>7, <3>2 DEF Sure
    <3> QED
      BY <1>2, <3>1, <3>2
  <2>2. rt \notin lost
    BY <1>2, <1>7, <2>1 DEF Sure
  <2>3. ASSUME NEW q \in Procs, op[q].pc = "invalidate", op[q].rt = rt PROVE FALSE
    <3>1. q # p
      BY <1>1, <2>1, <2>3
    <3>2. op'[q] = op[q]
      BY <3>1, <1>3 DEF RInv
    <3> QED
      BY <1>7, <2>3, <3>2 DEF Sure, Publishing
  <2> QED
    BY <2>2, <2>3 DEF Sure, Publishing
<1>8. \A rt \in Resources : globalGeneration <= globalGeneration' /\ generations[rt] <= generations'[rt]
  BY <1>2, <1>5
<1>9. \A rt \in Resources : LatestFor(rt)' = LatestFor(rt)
  BY <1>2, LatestIsLocal
<1> QED
  BY <1>2, <1>3, <1>4, <1>6, <1>7, <1>8, <1>9 DEF Steady

\* The invalidations by hand.
LEMMA InvalidateByHandIs ==
    ASSUME RInv, TablesOK, NEW p \in Procs, InvalidateByHand(p)
    PROVE  /\ Steady /\ op' = op
           /\ UNCHANGED <<rbac, policies, generations>> /\ entries' \subseteq entries
           /\ globalGeneration' \in Nat
<1>1. /\ op' = op /\ UNCHANGED <<rbac, policies, generations>> /\ entries' \subseteq entries
      /\ \/ globalGeneration' = globalGeneration /\ lost' = lost
         \/ globalGeneration' = globalGeneration + 1
  BY DEF InvalidateByHand, Invalidate, InvalidateAll
<1>2. globalGeneration \in Nat /\ generations \in [Resources -> Nat]
  BY DEF TablesOK
<1>3. \A rt : LatestFor(rt)' = LatestFor(rt)
  BY <1>1, LatestIsLocal
<1>4. \A rt : Publishing(rt)' <=> Publishing(rt)
  BY <1>1 DEF Publishing
<1>5. ASSUME NEW rt \in Resources, Sure(rt)', Generation(rt)' = Generation(rt) PROVE Sure(rt)
  BY <1>1, <1>2, <1>4, <1>5 DEF Sure, Generation
<1> QED
  BY <1>1, <1>2, <1>3, <1>5 DEF Steady

-----------------------------------------------------------------------------
\* A generation that is behind stays behind, and is current only if it was.
LEMMA StaysBehind ==
    ASSUME TablesOK, Steady, globalGeneration' \in Nat, generations' \in [Resources -> Nat],
           NEW rt \in Resources, NEW g, Behind(g, rt)
    PROVE  Behind(g, rt)' /\ (g = Generation(rt)' => g = Generation(rt) /\ Generation(rt)' = Generation(rt))
<1>1. /\ globalGeneration \in Nat /\ generations[rt] \in Nat /\ generations'[rt] \in Nat
      /\ globalGeneration <= globalGeneration' /\ generations[rt] <= generations'[rt]
      /\ g \in Nat \X Nat /\ g[1] <= globalGeneration /\ g[2] <= generations[rt]
  BY DEF TablesOK, Steady, Behind
<1>2. g = <<g[1], g[2]>> /\ g[1] \in Nat /\ g[2] \in Nat
  BY <1>1
<1>3. g[1] <= globalGeneration' /\ g[2] <= generations'[rt]
  BY <1>1, <1>2
<1>4. Behind(g, rt)'
  BY <1>1, <1>3 DEF Behind
<1>5. ASSUME g = <<globalGeneration', generations'[rt]>>
      PROVE  globalGeneration = globalGeneration' /\ generations[rt] = generations'[rt]
  BY <1>1, <1>2, <1>5
<1> QED
  BY <1>4, <1>5 DEF Generation

\* So entries that remain are still right.
LEMMA TablesKept ==
    ASSUME TablesOK, EntriesOK, Steady, policies' \in [PolicyIds -> Seq(Versions)], globalGeneration' \in Nat,
           generations' \in [Resources -> Nat], entries' \subseteq entries
    PROVE  TablesOK' /\ EntriesOK'
<1>1. ASSUME NEW e \in entries'
      PROVE  /\ e.rt \in Resources /\ Behind(e.generation, e.rt)'
             /\ ~e.late /\ e.generation = Generation(e.rt)' /\ Sure(e.rt)' => e.value = LatestFor(e.rt)'
  <2>1. PICK rt, g : rt = e.rt /\ g = e.generation
    OBVIOUS
  <2>2. rt \in Resources /\ Behind(g, rt) /\ (~e.late /\ g = Generation(rt) /\ Sure(rt) => e.value = LatestFor(rt))
    BY <2>1 DEF TablesOK, EntriesOK
  <2>3. Behind(g, rt)' /\ (g = Generation(rt)' => g = Generation(rt) /\ Generation(rt)' = Generation(rt))
    BY <2>2, StaysBehind
  <2>4. Generation(rt)' = Generation(rt) /\ Sure(rt)' => Sure(rt) /\ LatestFor(rt)' = LatestFor(rt)
    BY <2>2 DEF Steady
  <2>5. ~e.late /\ g = Generation(rt)' /\ Sure(rt)' => e.value = LatestFor(rt)'
    BY <2>2, <2>3, <2>4
  <2> QED
    BY <2>1, <2>2, <2>3, <2>5
<1>2. EntriesOK'
  BY <1>1 DEF EntriesOK
<1>3. \A e \in entries' : e.rt \in Resources /\ Behind(e.generation, e.rt)'
  BY <1>1
<1> QED
  BY <1>2, <1>3 DEF TablesOK, Versions, Rules, Effects

\* A check that makes no step.
LEMMA OthersAnswer ==
    ASSUME RInv, TablesOK, NEW q \in Procs, AnswerOK(op[q]), Steady, globalGeneration' \in Nat,
           generations' \in [Resources -> Nat],
           op'[q] = Noticed(op[q]) \/ (op'[q] = op[q] /\ UNCHANGED <<rbac, policies>>)
    PROVE  AnswerOK(op[q])'
<1> DEFINE c == op[q]
           d == op'[q]
<1> SUFFICES ASSUME d.pc \in AskPcs PROVE AnswerOK(op[q])'
  BY DEF AnswerOK, AskPcs
<1>1. Shape(c) /\ "pc" \in DOMAIN c
  BY DEF RInv, Shape
<1>2. /\ d.pc = c.pc /\ d.for = c.for /\ d.asks = c.asks /\ d.failed = c.failed /\ d.decision = c.decision
      /\ d.loaded = c.loaded /\ d.value = c.value /\ d.excused = c.excused
      /\ d.writes = 0 => d = c /\ UNCHANGED <<rbac, policies>>
  <2>1. CASE d = c /\ UNCHANGED <<rbac, policies>>
    BY <2>1
  <2>2. CASE d = Noticed(c)
    <3>1. d.pc = c.pc
      BY <1>1, <2>2, NoticedIs
    <3>2. DOMAIN c = AskFields /\ "held" \in DOMAIN c /\ c.writes \in Nat
      BY <1>1, <3>1 DEF Shape
    <3>3. \A f \in {"for", "asks", "failed", "decision", "loaded", "value", "excused"} : d[f] = c[f]
      BY <1>1, <2>2, <3>2, NoticedIs DEF AskFields
    <3>4. d.writes = IF c.writes < 2 THEN c.writes + 1 ELSE c.writes
      BY <1>1, <2>2, <3>2, NoticedIs
    <3>5. d.writes # 0
      BY <3>2, <3>4
    <3> QED
      BY <3>1, <3>3, <3>5
  <2> QED
    BY <2>1, <2>2
<1>3. AnswerOK(c)
  OBVIOUS
<1>4. PICK rt : rt = c.asks.rt
  OBVIOUS
<1>5. c.for = "action" => rt \in Resources
  BY <1>2, <1>3, <1>4 DEF AnswerOK
<1>6. c.pc \in {"load", "store", "evaluate", "decided"} => c.for = "action"
  BY <1>2, <1>3 DEF AnswerOK
<1>12. PICK g : g = c.loaded
  OBVIOUS
<1>7. c.pc = "store" => /\ Behind(g, rt)'
                        /\ g = Generation(rt)' /\ Sure(rt)' => d.value = LatestFor(rt)'
  <2> SUFFICES ASSUME c.pc = "store"
               PROVE  /\ Behind(g, rt)'
                      /\ g = Generation(rt)' /\ Sure(rt)' => c.value = LatestFor(rt)'
    BY <1>2
  <2>1. rt \in Resources /\ Behind(g, rt) /\ (g = Generation(rt) /\ Sure(rt) => c.value = LatestFor(rt))
    BY <1>2, <1>3, <1>4, <1>5, <1>6, <1>12 DEF AnswerOK
  <2>3. Behind(g, rt)' /\ (g = Generation(rt)' => g = Generation(rt) /\ Generation(rt)' = Generation(rt))
    BY <2>1, StaysBehind
  <2>4. Generation(rt)' = Generation(rt) /\ Sure(rt)' => Sure(rt) /\ LatestFor(rt)' = LatestFor(rt)
    BY <2>1 DEF Steady
  <2> QED
    BY <2>1, <2>3, <2>4
<1>8. d.writes = 0 => LatestFor(rt)' = LatestFor(rt) /\ (ShouldPermit(op[q])' <=> ShouldPermit(op[q]))
  <2> SUFFICES ASSUME d = c, UNCHANGED <<rbac, policies>>
               PROVE  LatestFor(rt)' = LatestFor(rt) /\ (ShouldPermit(op[q])' <=> ShouldPermit(op[q]))
    BY <1>2
  <2>1. LatestFor(rt)' = LatestFor(rt)
    BY LatestIsLocal
  <2>2. ShouldPermit(op[q])' <=> ShouldPermit(op[q])
    BY DEF ShouldPermit, rbac
  <2> QED
    BY <2>1, <2>2
<1>9. /\ d.pc # "decided" => ~d.failed
      /\ d.pc = "decided" /\ d.failed => d.decision = "DENY"
  BY <1>2, <1>3 DEF AnswerOK
<1>10. d.pc \in {"store", "evaluate"} /\ d.writes = 0 /\ ~d.excused => d.value = LatestFor(rt)'
  BY <1>2, <1>3, <1>4, <1>8 DEF AnswerOK
<1>11. d.pc = "decided" /\ ~d.failed /\ d.writes = 0 /\ ~d.excused => (d.decision = "PERMIT" <=> ShouldPermit(op[q])')
  BY <1>2, <1>3, <1>8 DEF AnswerOK
<1> QED
  BY <1>2, <1>4, <1>5, <1>6, <1>7, <1>9, <1>10, <1>11, <1>12 DEF AnswerOK

\* The policies that are applicable, and the version of each that counts.
LEMMA LatestIs ==
    ASSUME TablesOK, NEW rt
    PROVE  /\ DOMAIN LatestFor(rt) \subseteq PolicyIds
           /\ \A id \in PolicyIds : id \in DOMAIN LatestFor(rt) <=>
                Target[id] = rt /\ policies[id] # <<>> /\ Last(policies[id]).status = "published"
           /\ \A id \in DOMAIN LatestFor(rt) : /\ policies[id][LatestFor(rt)[id]] = Last(policies[id])
                                               /\ Last(policies[id]).rules \in Rules
<1>1. PICK D : D = {i \in PolicyIds : Target[i] = rt /\ policies[i] # <<>> /\ Last(policies[i]).status = "published"}
  OBVIOUS
<1>2. LatestFor(rt) = [id \in D |-> Len(policies[id])]
  BY <1>1 DEF LatestFor
<1>3. ASSUME NEW id \in D
      PROVE  policies[id][Len(policies[id])] = Last(policies[id]) /\ Last(policies[id]).rules \in Rules
  <2>1. policies[id] \in Seq(Versions) /\ policies[id] # <<>>
    BY <1>1 DEF TablesOK
  <2>2. Len(policies[id]) \in Nat \ {0}
    BY <2>1, EmptySeq
  <2>3. Last(policies[id]) \in Versions
    BY <2>1, <2>2, ElementOfSeq DEF Last
  <2> QED
    BY <2>3 DEF Last, Versions
<1> QED
  BY <1>1, <1>2, <1>3

\* The rules of them, which are finitely many.
LEMMA RulesOfIs ==
    ASSUME TablesOK, NEW rt
    PROVE  /\ \A r : r \in RulesOf(LatestFor(rt)) <=>
                \E id \in PolicyIds : /\ Target[id] = rt /\ policies[id] # <<>>
                                      /\ Last(policies[id]).status = "published"
                                      /\ r \in ToSet(Last(policies[id]).rules)
           /\ IsFiniteSet(RulesOf(LatestFor(rt)))
           /\ RulesOf(LatestFor(rt)) \subseteq [effect : Effects, condition : Conditions]
<1>1. PICK latest : latest = LatestFor(rt)
  OBVIOUS
<1>2. PICK D : D = DOMAIN latest
  OBVIOUS
<1>3. /\ D \subseteq PolicyIds
      /\ \A id \in PolicyIds : id \in D <=>
           Target[id] = rt /\ policies[id] # <<>> /\ Last(policies[id]).status = "published"
      /\ \A id \in D : policies[id][latest[id]] = Last(policies[id]) /\ Last(policies[id]).rules \in Rules
  BY <1>1, <1>2, LatestIs
<1>4. PICK f : f = [id \in D |-> ToSet(Last(policies[id]).rules)]
  OBVIOUS
<1>5. PICK images : images = {f[id] : id \in D}
  OBVIOUS
<1>6. RulesOf(latest) = UNION images
  <2>1. RulesOf(latest) = UNION {ToSet(policies[id][latest[id]].rules) : id \in D}
    BY <1>2 DEF RulesOf
  <2>2. \A id \in D : policies[id][latest[id]].rules = Last(policies[id]).rules
    BY <1>3
  <2>3. \A id \in D : ToSet(policies[id][latest[id]].rules) = f[id]
    BY <1>4, <2>2
  <2> QED
    BY <1>5, <2>1, <2>3
<1>7. IsFiniteSet(D)
  BY <1>3, FS_Subset, PolicyAssumption
<1>8. f \in Surjection(D, images)
  BY <1>4, <1>5 DEF Surjection
<1>9. IsFiniteSet(images)
  BY <1>7, <1>8, FS_Surjection
<1>10. ASSUME NEW id \in D
       PROVE  IsFiniteSet(f[id]) /\ f[id] \subseteq [effect : Effects, condition : Conditions]
  <2>1. Last(policies[id]).rules \in Seq([effect : Effects, condition : Conditions])
    BY <1>3 DEF Rules
  <2>2. PICK rules : rules = Last(policies[id]).rules
    OBVIOUS
  <2>3. IsFiniteSet(ToSet(rules)) /\ ToSet(rules) \subseteq [effect : Effects, condition : Conditions]
    BY <2>1, <2>2, MembersAreFinite
  <2> QED
    BY <1>4, <2>2, <2>3
<1>11. IsFiniteSet(UNION images)
  BY <1>5, <1>9, <1>10, FS_UNION
<1>12. UNION images \subseteq [effect : Effects, condition : Conditions]
  BY <1>5, <1>10
<1>13. \A r : r \in UNION images <=> \E id \in D : r \in ToSet(Last(policies[id]).rules)
  BY <1>4, <1>5
<1> QED
  BY <1>1, <1>3, <1>6, <1>11, <1>12, <1>13

\* What a decision point concludes from the applicable policies.
LEMMA EvaluateIs ==
    ASSUME TablesOK, NEW rt, NEW context
    PROVE  LET effect  == Evaluate(LatestFor(rt), context)
               effects == EffectsOf(RulesOf(LatestFor(rt)), context)
           IN /\ effect \in Effects \union {"NOT_APPLICABLE"}
              /\ effect = "DENY" <=> "DENY" \in effects
              /\ effect = "PERMIT" <=> "DENY" \notin effects /\ "PERMIT" \in effects
<1>1. PICK rules : rules = RulesOf(LatestFor(rt))
  OBVIOUS
<1>2. IsFiniteSet(rules) /\ rules \subseteq [effect : Effects, condition : Conditions]
  BY <1>1, RulesOfIs
<1>3. PICK listed : listed = SetToSeq(rules)
  OBVIOUS
<1>4. listed \in Seq(rules) /\ ToSet(listed) = rules
  BY <1>2, <1>3, SetAsSequence
<1>5. listed \in Rules
  BY <1>2, <1>4, SeqMonotonic DEF Rules
<1>6. Evaluate(LatestFor(rt), context) = DenyOverrides(DeriveRuleOutcomes(listed, context))
  BY <1>1, <1>3 DEF Evaluate
<1> QED
  BY <1>1, <1>4, <1>5, <1>6, OverridesIs

\* What the answer should be, from the latest published versions.
LEMMA ShouldPermitIs ==
    ASSUME TablesOK, NEW c
    PROVE  ShouldPermit(c) <=>
             LET effects == EffectsOf(RulesOf(LatestFor(c.asks.rt)), c.asks.context)
             IN "DENY" \notin effects /\ (ActionKey \in HeldNow(c) \/ "PERMIT" \in effects)
<1>1. PICK rt, context : rt = c.asks.rt /\ context = c.asks.context
  OBVIOUS
<1>2. PICK latest : latest = {Last(policies[id]) : id \in {i \in PolicyIds : Target[i] = rt /\ policies[i] # <<>>}}
  OBVIOUS
<1>3. PICK applicable : applicable = UNION {ToSet(v.rules) : v \in {w \in latest : w.status = "published"}}
  OBVIOUS
<1>4. \A r : r \in applicable <=>
        \E id \in PolicyIds : /\ Target[id] = rt /\ policies[id] # <<>>
                              /\ Last(policies[id]).status = "published"
                              /\ r \in ToSet(Last(policies[id]).rules)
  BY <1>2, <1>3
<1>5. applicable = RulesOf(LatestFor(rt))
  BY <1>4, RulesOfIs
<1>6. PICK effects : effects = EffectsOf(applicable, context)
  OBVIOUS
<1>7. ShouldPermit(c) <=> "DENY" \notin effects /\ (ActionKey \in HeldNow(c) \/ "PERMIT" \in effects)
  BY <1>1, <1>2, <1>3, <1>6 DEF ShouldPermit, EffectsOf, HeldNow
<1> QED
  BY <1>1, <1>5, <1>6, <1>7

\* What the tables say depends on them and on whom the check is about.
LEMMA SameShould ==
    ASSUME NEW q \in Procs, UNCHANGED <<rbac, policies>>, op'[q].asks = op[q].asks,
           op'[q].user = op[q].user, op'[q].org = op[q].org
    PROVE  ShouldPermit(op[q])' <=> ShouldPermit(op[q])
  BY DEF ShouldPermit, rbac

\* A step of a check before it has asked for policies.
LEMMA PlainAnswers ==
    ASSUME NEW p \in Procs, AnswerOK(op[p]), op[p].pc \in AskPcs \ {"decided"},
           op'[p].asks = op[p].asks, op'[p].for = op[p].for, op'[p].failed = op[p].failed,
           \/ op'[p].pc \in {"readRoles", "allowed", "forbidden"}
           \/ op'[p].pc = "load" /\ op[p].for = "action"
    PROVE  AnswerOK(op[p])'
  BY DEF AnswerOK, AskPcs

\* A check that begins has answered nothing.
LEMMA BeginAnswers ==
    ASSUME RInv, NEW p \in Procs, NEW for, NEW u, NEW o, NEW asks, Begin(p, Asking(for, u, o, asks)),
           for = "action" => asks.rt \in Resources
    PROVE  AnswerOK(op[p])'
<1>1. PICK holds : holds = Holds(roles, assignments, now, u, o)
  OBVIOUS
<1>2. PICK d : d = [pc |-> "readRows", for |-> for, user |-> u, org |-> o, asks |-> asks,
       todo |-> {}, granted |-> {}, held |-> holds, always |-> holds, writes |-> 0,
       value |-> <<>>, loaded |-> <<>>, excused |-> FALSE, failed |-> FALSE, decision |-> "none"]
  OBVIOUS
<1>3. op'[p] = d
  BY <1>1, <1>2, GotoIs DEF Begin, Goto, Asking
<1>4. d.pc = "readRows" /\ d.for = for /\ d.asks = asks /\ d.failed = FALSE
  BY <1>2
<1> QED
  BY <1>3, <1>4 DEF AnswerOK, AskPcs

\* One that fails answers DENY.
LEMMA FailClosedAnswers ==
    ASSUME RInv, NEW p \in Procs, AnswerOK(op[p]), FailClosed(p)
    PROVE  AnswerOK(op[p])'
<1>1. /\ op[p].for = "action" /\ op[p].pc \in AskPcs /\ op'[p].pc = "decided" /\ op'[p].decision = "DENY"
      /\ op'[p].failed /\ op'[p].for = op[p].for /\ op'[p].asks = op[p].asks
  <2>1. op[p].for = "action" /\ op[p].pc \in AskPcs
    BY DEF FailClosed, AskPcs
  <2> QED
    BY <2>1, FailClosedIs DEF AskFields
<1> QED
  BY <1>1 DEF AnswerOK, AskPcs

\* A hit is the latest versions, unless the cache does not promise that.
LEMMA CacheGetAnswers ==
    ASSUME RInv, TablesOK, EntriesOK, NEW p \in Procs, AnswerOK(op[p]), CacheGet(p)
    PROVE  AnswerOK(op[p])'
<1> DEFINE c == op[p]
           d == op'[p]
<1>1. /\ c.pc = "readRoles" /\ c.for = "action" /\ policies' = policies
      /\ d.asks = c.asks /\ d.for = c.for /\ d.failed = c.failed
  BY CacheGetIs DEF AskFields
<1>2. CASE d.pc = "load"
  BY <1>1, <1>2, PlainAnswers DEF AskPcs
<1>3. ASSUME d.pc = "evaluate", NEW e \in Reachable(c.asks.rt), d.value = e.value,
             d.excused = (e.late \/ c.asks.rt \in lost \/ Publishing(c.asks.rt))
      PROVE  AnswerOK(op[p])'
  <2>1. e \in entries /\ e.rt = c.asks.rt /\ e.generation = Generation(c.asks.rt)
    BY <1>3 DEF Reachable
  <2>2. ~d.excused => e.value = LatestFor(c.asks.rt)
    BY <1>3, <2>1 DEF EntriesOK, Sure
  <2>3. LatestFor(c.asks.rt)' = LatestFor(c.asks.rt)
    <3>1. PICK rt : rt = c.asks.rt
      OBVIOUS
    <3>2. LatestFor(rt)' = LatestFor(rt)
      BY <1>1, LatestIsLocal
    <3> QED
      BY <1>1, <3>1, <3>2
  <2>4. ~c.failed /\ c.asks.rt \in Resources
    BY <1>1 DEF AnswerOK, AskPcs
  <2> QED
    BY <1>1, <1>3, <2>2, <2>3, <2>4 DEF AnswerOK, AskPcs
<1>4. \/ d.pc = "load"
      \/ d.pc = "evaluate" /\ \E e \in Reachable(c.asks.rt) :
                      /\ d.value = e.value
                      /\ d.excused = (e.late \/ c.asks.rt \in lost \/ Publishing(c.asks.rt))
  BY CacheGetIs
<1> QED
  BY <1>2, <1>3, <1>4

\* The policies are read together with the generations they belong to.
LEMMA LoadPoliciesAnswers ==
    ASSUME RInv, TablesOK, NEW p \in Procs, AnswerOK(op[p]), LoadPolicies(p)
    PROVE  AnswerOK(op[p])'
<1> DEFINE c == op[p]
           d == op'[p]
<1>1. PICK rt : rt = c.asks.rt
  OBVIOUS
<1>2. /\ c.pc = "load" /\ UNCHANGED policyTables /\ d.pc = "store"
      /\ d.value = LatestFor(rt) /\ d.loaded = Generation(rt)
      /\ d.asks = c.asks /\ d.for = c.for /\ d.failed = c.failed
  <2>1. c.pc = "load" /\ UNCHANGED policyTables /\ d.pc = "store"
    BY LoadPoliciesIs
  <2>2. d.value = LatestFor(c.asks.rt) /\ d.loaded = Generation(c.asks.rt)
    BY LoadPoliciesIs
  <2>3. d.asks = c.asks /\ d.for = c.for /\ d.failed = c.failed
    BY LoadPoliciesIs DEF AskFields
  <2> QED
    BY <1>1, <2>1, <2>2, <2>3
<1>3. c.for = "action" /\ rt \in Resources /\ ~c.failed
  BY <1>1, <1>2 DEF AnswerOK, AskPcs
<1>4. LatestFor(rt)' = LatestFor(rt)
  BY <1>2, LatestIsLocal DEF policyTables
<1>5. Behind(Generation(rt), rt)
  BY <1>3 DEF TablesOK, Behind, Generation
<1>6. PICK g : g = Generation(rt)
  OBVIOUS
<1>7. Behind(g, rt)'
  BY <1>2, <1>5, <1>6 DEF Behind, policyTables
<1> QED
  BY <1>1, <1>2, <1>3, <1>4, <1>6, <1>7 DEF AnswerOK, AskPcs

\* The value that is stored is the one the check goes on with.
LEMMA CacheSetAnswers ==
    ASSUME RInv, TablesOK, EntriesOK, Steady, NEW p \in Procs, AnswerOK(op[p]), CacheSet(p)
    PROVE  AnswerOK(op[p])' /\ TablesOK' /\ EntriesOK'
<1> DEFINE c == op[p]
           d == op'[p]
<1>1. PICK rt : rt = c.asks.rt
  OBVIOUS
<1>2. /\ c.pc = "store" /\ UNCHANGED <<policies, globalGeneration, generations, lost>> /\ d.pc = "evaluate"
      /\ d.asks = c.asks /\ d.for = c.for /\ d.failed = c.failed /\ d.value = c.value /\ d.writes = c.writes
      /\ d.excused = c.excused
  BY CacheSetIs DEF AskFields
<1>3. /\ c.for = "action" /\ rt \in Resources /\ ~c.failed /\ Behind(c.loaded, rt)
      /\ c.loaded = Generation(rt) /\ Sure(rt) => c.value = LatestFor(rt)
      /\ c.writes = 0 /\ ~c.excused => c.value = LatestFor(rt)
  BY <1>1, <1>2 DEF AnswerOK, AskPcs
<1>4. LatestFor(rt)' = LatestFor(rt) /\ Generation(rt)' = Generation(rt)
  BY <1>2, LatestIsLocal DEF Generation
<1>5. AnswerOK(op[p])'
  BY <1>1, <1>2, <1>3, <1>4 DEF AnswerOK, AskPcs
<1>6. policies' \in [PolicyIds -> Seq(Versions)] /\ globalGeneration' \in Nat /\ generations' \in [Resources -> Nat]
  BY <1>2 DEF TablesOK
<1>7. CASE entries' = entries
  BY <1>5, <1>6, <1>7, TablesKept
<1>8. CASE entries' = (entries \ Reachable(rt)) \union
                   {[rt |-> rt, generation |-> Generation(rt), value |-> c.value, late |-> c.loaded # Generation(rt)]}
  <2>1. PICK late : late = (c.loaded # Generation(rt))
    OBVIOUS
  <2>2. PICK g : g = Generation(rt)
    OBVIOUS
  <2>3. PICK new : new = [rt |-> rt, generation |-> g, value |-> c.value, late |-> late]
    OBVIOUS
  <2>4. entries' = (entries \ Reachable(rt)) \union {new}
    BY <1>8, <2>1, <2>2, <2>3
  <2>5. new.rt = rt /\ new.generation = g /\ new.value = c.value /\ new.late = late
    BY <2>3
  <2>6. Behind(g, rt)
    BY <1>3, <2>2 DEF TablesOK, Behind, Generation
  <2>7. Behind(g, rt)' /\ g = Generation(rt)'
    BY <1>2, <1>4, <2>2, <2>6 DEF Behind
  <2>8. ~late /\ Sure(rt)' => c.value = LatestFor(rt)'
    BY <1>3, <1>4, <2>1 DEF Steady
  <2>9. ASSUME NEW e \in entries'
        PROVE  /\ e.rt \in Resources /\ Behind(e.generation, e.rt)'
               /\ ~e.late /\ e.generation = Generation(e.rt)' /\ Sure(e.rt)' => e.value = LatestFor(e.rt)'
    <3>1. CASE e = new
      BY <1>3, <2>5, <2>7, <2>8, <3>1
    <3>2. CASE e \in entries
      <4>1. PICK s, h : s = e.rt /\ h = e.generation
        OBVIOUS
      <4>2. s \in Resources /\ Behind(h, s) /\ (~e.late /\ h = Generation(s) /\ Sure(s) => e.value = LatestFor(s))
        BY <3>2, <4>1 DEF TablesOK, EntriesOK
      <4>3. Behind(h, s)' /\ Generation(s)' = Generation(s) /\ LatestFor(s)' = LatestFor(s)
        BY <1>2, <4>2, LatestIsLocal DEF Behind, Generation
      <4>4. Sure(s)' => Sure(s)
        BY <4>2, <4>3 DEF Steady
      <4> QED
        BY <4>1, <4>2, <4>3, <4>4
    <3> QED
      BY <2>4, <3>1, <3>2
  <2>10. EntriesOK'
    BY <2>9 DEF EntriesOK
  <2>11. \A e \in entries' : e.rt \in Resources /\ Behind(e.generation, e.rt)'
    BY <2>9
  <2>12. TablesOK'
    BY <1>6, <2>11 DEF TablesOK, Versions, Rules, Effects
  <2> QED
    BY <1>5, <2>10, <2>12
<1>9. \/ entries' = entries
      \/ entries' = (entries \ Reachable(rt)) \union
                   {[rt |-> rt, generation |-> Generation(rt), value |-> c.value, late |-> c.loaded # Generation(rt)]}
  BY <1>1, CacheSetIs
<1> QED
  BY <1>7, <1>8, <1>9

\* The decision is what the tables say, if nothing was written since the check began.
LEMMA DecideAnswers ==
    ASSUME RInv, RowsOK, TablesOK, NEW p \in Procs, CheckOK(op[p]), AnswerOK(op[p]), Decide(p)
    PROVE  AnswerOK(op[p])'
<1> DEFINE c == op[p]
           d == op'[p]
<1>1. /\ c.pc = "evaluate" /\ UNCHANGED <<rbac, policies>> /\ d.pc = "decided"
      /\ d.decision = Compose(RoleDecision(c), Evaluate(c.value, c.asks.context))
      /\ d.asks = c.asks /\ d.for = c.for /\ d.failed = c.failed /\ d.value = c.value /\ d.writes = c.writes
      /\ d.excused = c.excused /\ d.user = c.user /\ d.org = c.org
  <2>1. c.pc = "evaluate" /\ UNCHANGED <<rbac, policyTables>> /\ d.pc = "decided"
    BY DecideIs
  <2>2. d.decision = Compose(RoleDecision(c), Evaluate(c.value, c.asks.context))
    BY DecideIs
  <2>3. /\ d.asks = c.asks /\ d.for = c.for /\ d.failed = c.failed /\ d.value = c.value /\ d.writes = c.writes
        /\ d.excused = c.excused /\ d.user = c.user /\ d.org = c.org
    BY DecideIs DEF AskFields
  <2> QED
    BY <2>1, <2>2, <2>3 DEF policyTables
<1>2. c.for = "action" /\ c.asks.rt \in Resources /\ ~c.failed
  BY <1>1 DEF AnswerOK, AskPcs
<1>3. ASSUME c.writes = 0, ~c.excused PROVE d.decision = "PERMIT" <=> ShouldPermit(c)
  <2>1. c.value = LatestFor(c.asks.rt) /\ Gives(c.granted) = HeldNow(c)
    BY <1>1, <1>3 DEF AnswerOK, CheckOK, AskPcs
  <2>2. HasPermission(c.granted, ActionKey) <=> ActionKey \in HeldNow(c)
    BY <2>1, HasIsGives, AuthorizationAssumption
  <2>3. PICK effect, effects : /\ effect = Evaluate(LatestFor(c.asks.rt), c.asks.context)
                               /\ effects = EffectsOf(RulesOf(LatestFor(c.asks.rt)), c.asks.context)
    OBVIOUS
  <2>4. /\ effect \in Effects \union {"NOT_APPLICABLE"}
        /\ effect = "DENY" <=> "DENY" \in effects
        /\ effect = "PERMIT" <=> "DENY" \notin effects /\ "PERMIT" \in effects
    BY <2>3, EvaluateIs
  <2>5. PICK granted \in BOOLEAN : granted = HasPermission(c.granted, ActionKey)
    BY DEF HasPermission
  <2>6. d.decision = Compose(IF granted THEN "grant" ELSE "no-match", effect)
    BY <1>1, <2>1, <2>3, <2>5 DEF RoleDecision
  <2>7. d.decision = "PERMIT" <=> effect # "DENY" /\ (granted \/ effect = "PERMIT")
    BY <2>4, <2>6, ComposeIs
  <2>8. ShouldPermit(c) <=> "DENY" \notin effects /\ (ActionKey \in HeldNow(c) \/ "PERMIT" \in effects)
    BY <2>3, ShouldPermitIs
  <2> QED
    BY <2>2, <2>4, <2>5, <2>7, <2>8
<1>4. ShouldPermit(op[p])' <=> ShouldPermit(op[p])
  BY <1>1, SameShould
<1> QED
  BY <1>1, <1>2, <1>3, <1>4 DEF AnswerOK, AskPcs

\* What a step of a check does to the tables of policies and to the cache.
LEMMA CheckStepTables ==
    ASSUME RInv, TablesOK, NEW p \in Procs, CheckStep(p)
    PROVE  /\ UNCHANGED <<rbac, policies, globalGeneration, generations, lost>>
           /\ op[p].pc # "invalidate" /\ op'[p].pc # "saveVersion"
           /\ entries' \subseteq entries \/ CacheSet(p)
<1>1. ASSUME NEW d, Begin(p, d) PROVE /\ UNCHANGED <<rbac, policies, globalGeneration, generations, lost, entries>>
                                      /\ op[p].pc # "invalidate" /\ op'[p] = d
  BY <1>1, GotoIs DEF Begin, Goto, policyTables
<1>2. CASE \E u \in Users, o \in Orgs :
         \/ \E d \in Demands : ResolvePrincipal(p, u, o, d)
         \/ \E rt \in Resources, x \in Contexts : AuthorizeAction(p, u, o, rt, x)
  <2>1. PICK for, u, o, asks : Begin(p, Asking(for, u, o, asks))
    BY <1>2 DEF ResolvePrincipal, AuthorizeAction
  <2>2. PICK d : d = Asking(for, u, o, asks)
    OBVIOUS
  <2>3. d.pc = "readRows"
    BY <2>2 DEF Asking
  <2> QED
    BY <1>1, <2>1, <2>2, <2>3
<1>3. CASE ReadRows(p)
  BY <1>3, ReadRowsIs DEF policyTables
<1>4. CASE Guard(p)
  BY <1>4, GuardIs DEF policyTables
<1>5. CASE Answer(p)
  <2>1. op'[p] = Idle
    BY <1>5, GotoIs DEF Answer, Return, Goto
  <2> QED
    BY <1>5, <2>1 DEF Answer, Reads, policyTables, Idle
<1>6. CASE FailClosed(p)
  BY <1>6, FailClosedIs DEF policyTables
<1>7. CASE \E r \in RoleIds : ReadRole(p, r)
  BY <1>7, ReadRoleIs DEF policyTables, AskFields
<1>8. CASE CacheGet(p)
  BY <1>8, CacheGetIs
<1>9. CASE LoadPolicies(p)
  BY <1>9, LoadPoliciesIs DEF policyTables
<1>10. CASE CacheSet(p)
  BY <1>10, CacheSetIs
<1>11. CASE Decide(p)
  BY <1>11, DecideIs DEF policyTables
<1> QED
  BY <1>2, <1>3, <1>4, <1>5, <1>6, <1>7, <1>8, <1>9, <1>10, <1>11 DEF CheckStep

\* A step of a check answers from what it has read, and leaves the cache right.
LEMMA CheckStepAnswers ==
    ASSUME RInv, RowsOK, TablesOK, EntriesOK, NEW p \in Procs, CheckOK(op[p]), AnswerOK(op[p]), CheckStep(p)
    PROVE  AnswerOK(op[p])' /\ Steady /\ TablesOK' /\ EntriesOK'
<1>1. /\ UNCHANGED <<rbac, policies, globalGeneration, generations, lost>>
      /\ op[p].pc # "invalidate" /\ (entries' \subseteq entries \/ CacheSet(p))
  BY CheckStepTables
<1>2. Steady
  <2>1. op' = [op EXCEPT ![p] = op'[p]]
    BY CheckStepKnows
  <2>2. Others(p)
    BY <1>1, <2>1, GotoLeaves
  <2> QED
    BY <1>1, <2>2, QuietIsSteady
<1>3. TablesOK' /\ EntriesOK'
  <2>1. policies' \in [PolicyIds -> Seq(Versions)] /\ globalGeneration' \in Nat /\ generations' \in [Resources -> Nat]
    BY <1>1 DEF TablesOK
  <2> QED
    BY <1>1, <1>2, <2>1, TablesKept, CacheSetAnswers
<1>4. ASSUME NEW u, NEW o, NEW d, ResolvePrincipal(p, u, o, d) PROVE AnswerOK(op[p])'
  BY <1>4, BeginAnswers DEF ResolvePrincipal
<1>5. ASSUME NEW u, NEW o, NEW rt \in Resources, NEW x, AuthorizeAction(p, u, o, rt, x) PROVE AnswerOK(op[p])'
  <2>1. PICK asks : asks = [rt |-> rt, context |-> x]
    OBVIOUS
  <2>2. asks.rt \in Resources /\ Begin(p, Asking("action", u, o, asks))
    BY <1>5, <2>1 DEF AuthorizeAction
  <2> QED
    BY <2>2, BeginAnswers
<1>6. ASSUME ReadRows(p) PROVE AnswerOK(op[p])'
  <2>1. /\ op[p].pc = "readRows" /\ op'[p].pc = "readRoles" /\ op'[p].asks = op[p].asks
        /\ op'[p].for = op[p].for /\ op'[p].failed = op[p].failed
    BY <1>6, ReadRowsIs DEF AskFields
  <2> QED
    BY <2>1, PlainAnswers DEF AskPcs
<1>7. ASSUME Guard(p) PROVE AnswerOK(op[p])'
  <2>1. /\ op[p].pc = "readRoles" /\ op'[p].pc \in {"allowed", "forbidden"} /\ op'[p].asks = op[p].asks
        /\ op'[p].for = op[p].for /\ op'[p].failed = op[p].failed
    BY <1>7, GuardIs DEF AskFields
  <2> QED
    BY <2>1, PlainAnswers DEF AskPcs
<1>8. ASSUME \E r \in RoleIds : ReadRole(p, r) PROVE AnswerOK(op[p])'
  <2>1. /\ op[p].pc = "readRoles" /\ op'[p].pc = "readRoles" /\ op'[p].asks = op[p].asks
        /\ op'[p].for = op[p].for /\ op'[p].failed = op[p].failed
    BY <1>8, ReadRoleIs DEF AskFields
  <2> QED
    BY <2>1, PlainAnswers DEF AskPcs
<1>9. ASSUME Answer(p) PROVE AnswerOK(op[p])'
  <2>1. op'[p] = Idle
    BY <1>9, GotoIs DEF Answer, Return, Goto
  <2> QED
    BY <2>1, IdleIsShaped DEF AnswerOK, AskPcs
<1> QED
  BY <1>2, <1>3, <1>4, <1>5, <1>6, <1>7, <1>8, <1>9, FailClosedAnswers, CacheGetAnswers, LoadPoliciesAnswers,
     CacheSetAnswers, DecideAnswers DEF CheckStep

-----------------------------------------------------------------------------
\* Use cases and routes leave policies alone.
LEMMA RoleOrRouteTables ==
    ASSUME NEW p \in Procs, RoleStep(p) \/ RouteStep(p)
    PROVE  UNCHANGED <<policyTables, lost>> /\ op[p].pc # "invalidate"
<1>1. CASE RoleStep(p)
  BY <1>1 DEF RoleStep, DefinePermission, CreateRole, AssignPermissionToRole, RevokePermissionFromRole, SaveCopy,
     SeedDefaultRoles, SeedLinks, AssignRoleToUser, RevokeRoleFromUser, DropFound, Once, Begin
<1>2. CASE RouteStep(p)
  BY <1>2 DEF RouteStep, CreateRoleRoute, UpdateRoleRoute, PermissionRoute, DeleteRoleRoute, AssignRoute,
     RevokeAssignmentRoute, RouteCheck, RouteWrite, RouteFails, Begin, Reads
<1> QED
  BY <1>1, <1>2

\* The first step of a publication, and a step of a dry run.
LEMMA PolicyStepTables ==
    ASSUME RInv, TablesOK, NEW p \in Procs, PolicyStep(p)
    PROVE  \/ SavePolicy(p) \/ InvalidatePublished(p) \/ InvalidateByHand(p)
           \/ /\ UNCHANGED <<rbac, policyTables, lost>> /\ op[p].pc # "invalidate"
              /\ op' = [op EXCEPT ![p] = op'[p]] /\ PublishOK(op[p])'
<1>1. ASSUME NEW id \in PolicyIds, NEW rules \in RuleSets, NEW status \in {"draft", "published"}, NEW n \in Nat,
             Begin(p, PublishCall(id, n, Version(rules, status)))
      PROVE  /\ UNCHANGED <<rbac, policyTables, lost>> /\ op[p].pc # "invalidate"
             /\ op' = [op EXCEPT ![p] = op'[p]] /\ PublishOK(op[p])'
  <2>1. PICK v : v = Version(rules, status)
    OBVIOUS
  <2>2. v \in Versions
    BY <2>1, AuthorizationAssumption DEF Versions, Version
  <2>3. PICK d : d = [pc |-> "saveVersion", policy |-> id, number |-> n, version |-> v]
    OBVIOUS
  <2>4. UNCHANGED <<rbac, policyTables, lost>> /\ op[p].pc # "invalidate" /\ op'[p] = d
        /\ op' = [op EXCEPT ![p] = op'[p]]
    BY <1>1, <2>1, <2>3, GotoIs DEF Begin, Goto, PublishCall
  <2>5. PublishOK(d)
    BY <2>2, <2>3 DEF PublishOK
  <2> QED
    BY <2>4, <2>5 DEF PublishOK, Versions, Rules, Effects
<1>2. CASE \E id \in PolicyIds, rules \in RuleSets, draft \in BOOLEAN : CreatePolicy(p, id, rules, draft)
  <2>1. PICK id \in PolicyIds, rules \in RuleSets, draft \in BOOLEAN : CreatePolicy(p, id, rules, draft)
    BY <1>2
  <2>2. PICK status \in {"draft", "published"} : status = IF draft THEN "draft" ELSE "published"
    OBVIOUS
  <2> QED
    BY <1>1, <2>1, <2>2 DEF CreatePolicy
<1>3. CASE \E id \in PolicyIds, rules \in RuleSets : PublishNewVersion(p, id, rules)
  <2>1. PICK id \in PolicyIds, rules \in RuleSets : PublishNewVersion(p, id, rules)
    BY <1>3
  <2>2. Len(policies[id]) + 1 \in Nat
    BY LenProperties DEF TablesOK
  <2> QED
    BY <1>1, <2>1, <2>2 DEF PublishNewVersion
<1>4. CASE \E f \in Files, id \in PolicyIds : PolicySimulate(p, f, id)
  <2>1. PICK d : Begin(p, d) /\ d.pc # "saveVersion"
    BY <1>4 DEF PolicySimulate
  <2>2. op'[p] = d /\ op' = [op EXCEPT ![p] = op'[p]]
    BY <2>1, GotoIs DEF Begin, Goto
  <2> QED
    BY <2>1, <2>2 DEF Begin, PublishOK
<1>5. "pc" \in DOMAIN op[p]
  BY DEF RInv, Shape
<1>6. CASE SimulateFixture(p)
  <2>1. /\ UNCHANGED <<rbac, policyTables, lost>> /\ op[p].pc # "invalidate" /\ op[p].pc # "saveVersion"
        /\ op' = [op EXCEPT ![p] = op'[p]]
    BY <1>6, SimulateFixtureIs DEF SimulateFixture
  <2>2. op'[p].pc # "saveVersion"
    BY <1>5, <1>6, <2>1, SimulateFixtureIs
  <2> QED
    BY <2>1, <2>2 DEF PublishOK
<1>7. CASE Report(p)
  <2>1. /\ UNCHANGED <<rbac, policyTables, lost>> /\ op[p].pc # "invalidate"
        /\ op' = [op EXCEPT ![p] = op'[p]]
    BY <1>7, ReportIs DEF Report, Reads
  <2>2. op'[p].pc # "saveVersion"
    BY <1>5, <1>7, ReportIs
  <2> QED
    BY <2>1, <2>2 DEF PublishOK
<1> QED
  BY <1>2, <1>3, <1>4, <1>6, <1>7 DEF PolicyStep

\* A call that writes a version keeps what it writes.
LEMMA OthersPublish ==
    ASSUME RInv, NEW q \in Procs, PublishOK(op[q]), op'[q] = Noticed(op[q]) \/ op'[q] = op[q]
    PROVE  PublishOK(op[q])'
<1>1. Shape(op[q]) /\ "pc" \in DOMAIN op[q]
  BY DEF RInv, Shape
<1>2. op'[q].pc = op[q].pc
  BY <1>1, NoticedIs
<1>3. op[q].pc = "saveVersion" => op'[q] = op[q]
  BY <1>1, PlainNoticesNothing
<1> QED
  BY <1>2, <1>3 DEF PublishOK, Versions, Rules, Effects

\* All that a step has to show.
LEMMA DInvKept ==
    ASSUME DInv, EInv', NEW p, Others(p), Steady, TablesOK', EntriesOK',
           \A q \in Procs \ {p} : op'[q] = Noticed(op[q]) \/ (op'[q] = op[q] /\ UNCHANGED <<rbac, policies>>),
           p \in Procs => PublishOK(op[p])' /\ AnswerOK(op[p])'
    PROVE  DInv'
<1>1. globalGeneration' \in Nat /\ generations' \in [Resources -> Nat]
  BY DEF TablesOK
<1>2. ASSUME NEW q \in Procs PROVE PublishOK(op[q])' /\ AnswerOK(op[q])'
  <2>1. CASE q = p
    BY <2>1
  <2>2. CASE q # p
    BY <1>1, <2>2, OthersPublish, OthersAnswer DEF DInv, EInv
  <2> QED
    BY <2>1, <2>2
<1> QED
  BY <1>2 DEF DInv

\* An idle process has nothing to publish and nothing to answer.
LEMMA IdleAnswers == PublishOK(Idle) /\ AnswerOK(Idle) /\ Idle.pc = "idle"
  BY IdleIsShaped DEF PublishOK, AnswerOK, AskPcs

\* A step that is no check and leaves the tables of policies alone.
LEMMA QuietKeepsDInv ==
    ASSUME DInv, EInv', NEW p, Others(p), UNCHANGED <<policyTables, lost>>,
           p \in Procs => op[p].pc # "invalidate" /\ PublishOK(op[p])' /\ AnswerOK(op[p])'
    PROVE  DInv'
<1>1. RInv /\ TablesOK /\ EntriesOK
  BY DEF DInv, EInv
<1>2. UNCHANGED <<policies, globalGeneration, generations, entries>>
  BY DEF policyTables
<1>3. Steady
  BY <1>1, <1>2, QuietIsSteady
<1>4. TablesOK' /\ EntriesOK'
  <2>1. policies' \in [PolicyIds -> Seq(Versions)] /\ globalGeneration' \in Nat /\ generations' \in [Resources -> Nat]
    BY <1>1, <1>2 DEF TablesOK
  <2> QED
    BY <1>1, <1>2, <1>3, <2>1, TablesKept
<1>5. \A q \in Procs \ {p} : op'[q] = Noticed(op[q]) \/ (op'[q] = op[q] /\ UNCHANGED <<rbac, policies>>)
  BY <1>2 DEF Others
<1> QED
  BY <1>3, <1>4, <1>5, DInvKept

\* The cache starts with the latest versions.
LEMMA DInvInit == Init => DInv
<1> SUFFICES ASSUME Init PROVE DInv
  OBVIOUS
<1>1. op = [p \in Procs |-> Idle]
  BY DEF Init
<1>2. PICK history \in [PolicyIds -> {<<>>} \union {<<Version(rules, "published")>> : rules \in OldRules}] :
         PolicyInit(history)
  BY DEF Init
<1>3. /\ policies = history /\ globalGeneration = 0 /\ generations = [rt \in Resources |-> 0]
      /\ entries = {[rt |-> rt, generation |-> <<0, 0>>, value |-> LatestFor(rt), late |-> FALSE] : rt \in Resources}
  BY <1>2 DEF PolicyInit
<1>4. policies \in [PolicyIds -> Seq(Versions)]
  <2>1. ASSUME NEW rules \in OldRules PROVE <<Version(rules, "published")>> \in Seq(Versions)
    <3>1. Version(rules, "published") \in Versions
      BY AuthorizationAssumption DEF Version, Versions
    <3> QED
      BY <3>1
  <2>2. <<>> \in Seq(Versions)
    OBVIOUS
  <2> QED
    BY <1>2, <1>3, <2>1, <2>2
<1>5. ASSUME NEW e \in entries
      PROVE  e.rt \in Resources /\ Behind(e.generation, e.rt) /\ e.value = LatestFor(e.rt)
  <2>1. PICK rt \in Resources : e = [rt |-> rt, generation |-> <<0, 0>>, value |-> LatestFor(rt), late |-> FALSE]
    BY <1>3
  <2>2. e.rt = rt /\ e.generation = <<0, 0>> /\ e.value = LatestFor(rt)
    BY <2>1
  <2> QED
    BY <1>3, <2>2 DEF Behind
<1>6. TablesOK /\ EntriesOK
  BY <1>3, <1>4, <1>5 DEF TablesOK, EntriesOK
<1> QED
  BY <1>1, <1>6, EInvInit, IdleAnswers DEF DInv

\* Entries, what checks have read and what they answer stay right, whoever steps.
LEMMA DInvNext == ASSUME DInv, [Next]_vars PROVE DInv'
<1>1. EInv /\ RInv /\ RowsOK /\ TablesOK /\ EntriesOK
      /\ \A q \in Procs : CheckOK(op[q]) /\ PublishOK(op[q]) /\ AnswerOK(op[q])
  BY DEF DInv, EInv
<1>2. EInv'
  BY <1>1, EInvNext
<1>3. \A q \in Procs : op'[q].pc \notin AskPcs => AnswerOK(op[q])'
  BY DEF AnswerOK, AskPcs
<1>4. ASSUME NEW p \in Procs, RoleStep(p) \/ RouteStep(p) PROVE DInv'
  <2>1. PICK d : Moves(p, d) /\ d.pc \notin OtherPcs
    BY <1>1, <1>4, RoleStepMoves, RouteStepMoves
  <2>2. Others(p) /\ op'[p] = d
    BY <1>1, <2>1, MovesIs
  <2>3. PublishOK(op[p])' /\ AnswerOK(op[p])'
    BY <1>3, <2>1, <2>2 DEF OtherPcs, PublishOK
  <2> QED
    BY <1>2, <1>4, <2>2, <2>3, RoleOrRouteTables, QuietKeepsDInv
<1>5. ASSUME NEW p \in Procs, PolicyStep(p) PROVE DInv'
  <2>1. CASE SavePolicy(p)
    <3>1. /\ Steady /\ Others(p) /\ op'[p].pc = "invalidate"
          /\ \A q \in Procs \ {p} : op'[q] = Noticed(op[q])
          /\ policies' \in [PolicyIds -> Seq(Versions)]
          /\ UNCHANGED <<rbac, globalGeneration, generations, entries, lost>>
      BY <1>1, <2>1, SavePolicyIs
    <3>2. TablesOK' /\ EntriesOK'
      <4>1. globalGeneration' \in Nat /\ generations' \in [Resources -> Nat]
        BY <1>1, <3>1 DEF TablesOK
      <4> QED
        BY <1>1, <3>1, <4>1, TablesKept
    <3>3. PublishOK(op[p])' /\ AnswerOK(op[p])'
      BY <1>3, <3>1 DEF AskPcs, PublishOK
    <3> QED
      BY <1>2, <3>1, <3>2, <3>3, DInvKept
  <2>2. CASE InvalidatePublished(p)
    <3>1. /\ Steady /\ Others(p) /\ op'[p] = Idle
          /\ UNCHANGED <<rbac, policies, globalGeneration, entries>>
          /\ generations' \in [Resources -> Nat]
      BY <1>1, <2>2, InvalidatePublishedIs
    <3>2. TablesOK' /\ EntriesOK'
      <4>1. globalGeneration' \in Nat /\ policies' \in [PolicyIds -> Seq(Versions)]
        BY <1>1, <3>1 DEF TablesOK
      <4> QED
        BY <1>1, <3>1, <4>1, TablesKept
    <3>3. PublishOK(op[p])' /\ AnswerOK(op[p])'
      BY <1>3, <3>1, IdleAnswers DEF AskPcs, PublishOK
    <3>4. \A q \in Procs \ {p} : op'[q] = Noticed(op[q]) \/ (op'[q] = op[q] /\ UNCHANGED <<rbac, policies>>)
      BY <3>1 DEF Others
    <3> QED
      BY <1>2, <3>1, <3>2, <3>3, <3>4, DInvKept
  <2>3. CASE InvalidateByHand(p)
    <3>1. /\ Steady /\ op' = op
          /\ UNCHANGED <<rbac, policies, generations>> /\ entries' \subseteq entries
          /\ globalGeneration' \in Nat
      BY <1>1, <2>3, InvalidateByHandIs
    <3>2. TablesOK' /\ EntriesOK'
      <4>1. generations' \in [Resources -> Nat] /\ policies' \in [PolicyIds -> Seq(Versions)]
        BY <1>1, <3>1 DEF TablesOK
      <4> QED
        BY <1>1, <3>1, <4>1, TablesKept
    <3>3. PICK none : none \notin Procs
      BY NoSetContainsEverything
    <3>4. Others(none)
      BY <1>1, <3>1 DEF Others, RInv
    <3>5. \A q \in Procs \ {none} : op'[q] = Noticed(op[q]) \/ (op'[q] = op[q] /\ UNCHANGED <<rbac, policies>>)
      BY <3>1
    <3> QED
      BY <1>2, <3>1, <3>2, <3>3, <3>4, <3>5, DInvKept
  <2>4. CASE /\ UNCHANGED <<rbac, policyTables, lost>> /\ op[p].pc # "invalidate"
             /\ op' = [op EXCEPT ![p] = op'[p]] /\ PublishOK(op[p])'
    <3>1. Others(p)
      BY <1>1, <2>4, GotoLeaves
    <3>2. AnswerOK(op[p])'
      <4>1. CASE op' = op /\ UNCHANGED rbac
        <5>1. UNCHANGED <<policies, globalGeneration, generations, lost>>
          BY <2>4 DEF policyTables
        <5>2. Steady
          BY <1>1, <2>4, <3>1, <5>1, QuietIsSteady
        <5>3. globalGeneration' \in Nat /\ generations' \in [Resources -> Nat]
          BY <1>1, <5>1 DEF TablesOK
        <5> QED
          BY <1>1, <4>1, <5>1, <5>2, <5>3, OthersAnswer
      <4>2. CASE \E d : Moves(p, d) /\ d.pc \notin AskPcs
        <5>1. op'[p].pc \notin AskPcs
          BY <1>1, <4>2, MovesIs
        <5> QED
          BY <1>3, <5>1
      <4> QED
        BY <1>1, <1>5, <4>1, <4>2, PolicyStepMoves
    <3> QED
      BY <1>2, <2>4, <3>1, <3>2, QuietKeepsDInv
  <2> QED
    BY <1>1, <1>5, <2>1, <2>2, <2>3, <2>4, PolicyStepTables
<1>6. ASSUME NEW p \in Procs, CheckStep(p) PROVE DInv'
  <2>1. AnswerOK(op[p])' /\ Steady /\ TablesOK' /\ EntriesOK'
    BY <1>1, <1>6, CheckStepAnswers
  <2>2. UNCHANGED <<rbac, policies>> /\ op'[p].pc # "saveVersion"
    BY <1>1, <1>6, CheckStepTables
  <2>3. op' = [op EXCEPT ![p] = op'[p]]
    BY <1>1, <1>6, CheckStepKnows
  <2>4. Others(p)
    BY <1>1, <2>2, <2>3, GotoLeaves
  <2>5. \A q \in Procs \ {p} : op'[q] = Noticed(op[q]) \/ (op'[q] = op[q] /\ UNCHANGED <<rbac, policies>>)
    BY <2>2, <2>4 DEF Others
  <2>6. PublishOK(op[p])'
    BY <2>2 DEF PublishOK
  <2> QED
    BY <1>2, <2>1, <2>4, <2>5, <2>6, DInvKept
<1>7. CASE Tick \/ UNCHANGED vars
  <2>1. PICK none : none \notin Procs
    BY NoSetContainsEverything
  <2>2. Others(none)
    <3>1. CASE Tick
      BY <3>1 DEF Tick, Others
    <3>2. CASE UNCHANGED vars
      BY <1>1, <3>2 DEF vars, Others, RInv
    <3> QED
      BY <1>7, <3>1, <3>2
  <2>3. UNCHANGED <<policyTables, lost>>
    BY <1>7 DEF Tick, vars
  <2> QED
    BY <1>2, <2>1, <2>2, <2>3, QuietKeepsDInv
<1> QED
  BY <1>4, <1>5, <1>6, <1>7 DEF Next

\* A check that could not be made answers DENY, and one during which nothing was written answers what
\* the tables say, unless it read an entry that the cache does not promise.
THEOREM DecisionsAreCurrent == Spec => []DecisionIsCurrent
<1>1. DInv => DecisionIsCurrent
  BY DEF DInv, DecisionIsCurrent, AnswerOK, AskPcs
<1>2. DInv /\ [Next]_vars => DInv'
  BY DInvNext
<1> QED
  BY <1>1, <1>2, DInvInit, PTL DEF Spec

\* The versions of the policy that a dry run can have seen, and what a version gives a fixture.
Seen(c) == IF c.policy = "none" THEN {c.draft}
           ELSE {policies[c.policy][v].rules : v \in {n \in DOMAIN policies[c.policy] : n >= c.from}}

Yields(rules, x, effect) ==
    LET effects == EffectsOf(ToSet(rules), x) IN
      CASE effect = "DENY"   -> "DENY" \in effects
        [] effect = "PERMIT" -> effects = {"PERMIT"}
        [] OTHER             -> effects = {}

Earned(c, i) == \E rules \in Seen(c) : Yields(rules, c.fixtures[i].context, c.fixtures[i].expected)

\* What a dry run works on, and what it has found so far.
Subject(c) ==
    /\ c.policy \in PolicyIds \union {"none"} /\ c.from \in Nat /\ c.draft \in Rules
    /\ c.policy # "none" => c.from <= Len(policies[c.policy])
    /\ c.fixtures # <<>> /\ c.fixtures \in Seq(ToSet(c.fixtures))

DryRunOK(c) ==
    /\ c.pc = "simulate" =>
         /\ DOMAIN c = SimFields /\ Subject(c)
         /\ c.results \in Seq(BOOLEAN) /\ Len(c.results) <= Len(c.fixtures)
         /\ \A i \in DOMAIN c.results : c.results[i] => Earned(c, i)
    /\ c.pc = "exited" /\ c.exit = 0 => Subject(c) /\ \A i \in DOMAIN c.fixtures : Earned(c, i)

SInv == DInv /\ \A p \in Procs : DryRunOK(op[p])

\* Versions are appended, never changed.
Grown ==
    \A id \in PolicyIds :
      /\ Len(policies[id]) <= Len(policies'[id])
      /\ \A v \in DOMAIN policies[id] : v \in DOMAIN policies'[id] /\ policies'[id][v] = policies[id][v]

-----------------------------------------------------------------------------
\* The effect of a version is the one that its applicable rules add up to.
LEMMA YieldsIs ==
    ASSUME NEW rules \in Rules, NEW x
    PROVE  Yields(rules, x, DenyOverrides(DeriveRuleOutcomes(rules, x)))
<1>1. PICK effect : effect = DenyOverrides(DeriveRuleOutcomes(rules, x))
  OBVIOUS
<1>2. PICK effects : effects = EffectsOf(ToSet(rules), x)
  OBVIOUS
<1>3. /\ effect \in {"PERMIT", "DENY", "NOT_APPLICABLE"}
      /\ effect = "DENY" <=> "DENY" \in effects
      /\ effect = "PERMIT" <=> "DENY" \notin effects /\ "PERMIT" \in effects
      /\ effects \subseteq {"PERMIT", "DENY"}
  BY <1>1, <1>2, OverridesIs DEF Effects
<1>4. CASE effect = "DENY"
  BY <1>1, <1>2, <1>3, <1>4 DEF Yields
<1>5. CASE effect = "PERMIT"
  BY <1>1, <1>2, <1>3, <1>5 DEF Yields
<1>6. CASE effect = "NOT_APPLICABLE"
  <2>1. effects = {}
    BY <1>3, <1>6
  <2> QED
    BY <1>1, <1>2, <1>6, <2>1 DEF Yields
<1> QED
  BY <1>3, <1>4, <1>5, <1>6

\* Each step of the system appends a version or leaves the versions alone.
LEMMA PoliciesGrow == ASSUME DInv, [Next]_vars PROVE Grown
<1>1. RInv /\ TablesOK /\ \A q \in Procs : PublishOK(op[q])
  BY DEF DInv, EInv
<1>2. \A id \in PolicyIds : policies[id] \in Seq(Versions) /\ Len(policies[id]) \in Nat
  BY <1>1, LenProperties DEF TablesOK
<1>3. ASSUME NEW p \in Procs, SavePolicy(p) PROVE Grown
  <2>1. PICK i, n, v : i = op[p].policy /\ n = op[p].number /\ v = op[p].version
    OBVIOUS
  <2>2. i \in PolicyIds /\ v \in Versions
    BY <1>1, <1>3, <2>1 DEF SavePolicy, PublishOK
  <2>3. policies' = [policies EXCEPT ![i] = IF n <= Len(policies[i]) THEN policies[i] ELSE Append(policies[i], v)]
    BY <1>3, <2>1 DEF SavePolicy, SaveVersion
  <2>4. \/ policies' = policies
        \/ policies' = [policies EXCEPT ![i] = Append(policies[i], v)]
    BY <1>1, <2>2, <2>3 DEF TablesOK
  <2>5. CASE policies' = policies
    BY <1>2, <2>5 DEF Grown
  <2>6. CASE policies' = [policies EXCEPT ![i] = Append(policies[i], v)]
    <3>1. ASSUME NEW id \in PolicyIds
          PROVE  /\ Len(policies[id]) <= Len(policies'[id])
                 /\ \A w \in DOMAIN policies[id] : w \in DOMAIN policies'[id] /\ policies'[id][w] = policies[id][w]
      <4>1. CASE id = i
        <5>1. PICK old \in Seq(Versions) : old = policies[i]
          BY <1>2, <2>2
        <5>2. policies'[id] = Append(old, v)
          BY <1>1, <2>2, <2>6, <4>1, <5>1 DEF TablesOK
        <5>3. /\ Len(Append(old, v)) = Len(old) + 1 /\ Len(old) \in Nat
              /\ DOMAIN Append(old, v) = 1..Len(old) + 1 /\ DOMAIN old = 1..Len(old)
              /\ \A w \in 1..Len(old) : Append(old, v)[w] = old[w]
          BY <2>2, AppendProperties, LenProperties
        <5> QED
          BY <4>1, <5>1, <5>2, <5>3
      <4>2. CASE id # i
        BY <1>1, <1>2, <2>6, <4>2 DEF TablesOK
      <4> QED
        BY <4>1, <4>2
    <3> QED
      BY <3>1 DEF Grown
  <2> QED
    BY <2>4, <2>5, <2>6
<1>4. policies' = policies => Grown
  BY <1>2 DEF Grown
<1>5. ASSUME NEW p \in Procs, PolicyStep(p) PROVE SavePolicy(p) \/ policies' = policies
  BY <1>1, <1>5, PolicyStepTables DEF policyTables, InvalidatePublished, InvalidateByHand, InvalidateResourceType,
     Invalidate, InvalidateAll, Expire
<1>6. ASSUME NEW p \in Procs, RoleStep(p) \/ RouteStep(p) \/ CheckStep(p) PROVE policies' = policies
  BY <1>1, <1>6, RoleOrRouteTables, CheckStepTables DEF policyTables
<1>7. CASE Tick \/ UNCHANGED vars
  BY <1>4, <1>7 DEF Tick, vars, policyTables
<1> QED
  BY <1>3, <1>4, <1>5, <1>6, <1>7 DEF Next

\* What a dry run can have seen it can still have seen after any step.
LEMMA SeenStays ==
    ASSUME TablesOK, TablesOK', Grown, NEW c, Subject(c)
    PROVE  Subject(c)' /\ \A i : Earned(c, i) => Earned(c, i)'
<1>1. CASE c.policy = "none"
  BY <1>1 DEF Subject, Earned, Seen, Yields, EffectsOf, Rules, Effects
<1>2. CASE c.policy # "none"
  <2>1. PICK id \in PolicyIds : id = c.policy
    BY <1>2 DEF Subject
  <2>2. Len(policies[id]) \in Nat /\ Len(policies'[id]) \in Nat
    <3>1. policies[id] \in Seq(Versions) /\ policies'[id] \in Seq(Versions)'
      BY DEF TablesOK
    <3> QED
      BY <3>1, LenProperties DEF Versions, Rules, Effects
  <2>3. Subject(c)'
    BY <1>2, <2>1, <2>2 DEF Subject, Grown, Rules, Effects
  <2>4. ASSUME NEW rules \in Seen(c) PROVE rules \in Seen(c)'
    <3>1. PICK v \in DOMAIN policies[id] : v >= c.from /\ rules = policies[id][v].rules
      BY <1>2, <2>1, <2>4 DEF Seen
    <3>2. v \in DOMAIN policies'[id] /\ policies'[id][v] = policies[id][v]
      BY <3>1 DEF Grown
    <3> QED
      BY <1>2, <2>1, <3>1, <3>2 DEF Seen
  <2> QED
    BY <2>3, <2>4 DEF Earned, Yields, EffectsOf
<1> QED
  BY <1>1, <1>2

\* What a call goes on as decides whether it is right.
LEMMA GoesOnRight ==
    ASSUME NEW q, NEW d, op'[q] = d, DryRunOK(d)'
    PROVE  DryRunOK(op[q])'
<1>1. Subject(op[q])' <=> Subject(d)'
  BY DEF Subject, Rules, Effects
<1>2. ASSUME NEW i PROVE Earned(op[q], i)' <=> Earned(d, i)'
  BY DEF Earned, Seen
<1> QED
  BY <1>1, <1>2 DEF DryRunOK

\* A dry run of another process stays right.
LEMMA OthersDryRun ==
    ASSUME RInv, TablesOK, TablesOK', Grown, NEW q \in Procs, DryRunOK(op[q]),
           op'[q] = Noticed(op[q]) \/ op'[q] = op[q]
    PROVE  DryRunOK(op[q])'
<1>1. Shape(op[q]) /\ "pc" \in DOMAIN op[q]
  BY DEF RInv, Shape
<1>2. CASE op[q].pc \notin {"simulate", "exited"}
  <2>1. op'[q].pc = op[q].pc
    BY <1>1, NoticedIs
  <2> QED
    BY <1>2, <2>1 DEF DryRunOK
<1>3. CASE op[q].pc \in {"simulate", "exited"}
  <2>1. op'[q] = op[q]
    BY <1>1, <1>3, PlainNoticesNothing
  <2>2. PICK c : c = op[q]
    OBVIOUS
  <2>3. DryRunOK(c)
    BY <2>2
  <2>4. Subject(c) => Subject(c)' /\ \A i : Earned(c, i) => Earned(c, i)'
    BY SeenStays
  <2>5. DryRunOK(c)'
    BY <2>3, <2>4 DEF DryRunOK
  <2>6. op'[q] = c
    BY <2>1, <2>2
  <2> QED
    BY <2>5, <2>6, GoesOnRight
<1> QED
  BY <1>2, <1>3

\* A dry run starts with nothing found.
LEMMA SimulateBeginsRight ==
    ASSUME RInv, TablesOK, NEW p \in Procs, NEW f \in Files, NEW id \in PolicyIds, PolicySimulate(p, f, id)
    PROVE  DryRunOK(op[p])' /\ UNCHANGED <<rbac, policyTables>> /\ op' = [op EXCEPT ![p] = op'[p]]
<1>1. UNCHANGED <<rbac, policyTables>> /\ op' = [op EXCEPT ![p] = op'[p]]
  BY PolicySimulateIs
<1>2. PICK d : d = op'[p]
  OBVIOUS
<1>3. CASE d = [pc |-> "exited", exit |-> 2]
  <2>1. d.pc = "exited" /\ d.exit = 2
    BY <1>3
  <2> QED
    BY <1>1, <1>2, <2>1 DEF DryRunOK
<1>4. CASE ValidFixtures(f.fixtures) /\
           d = [pc |-> "simulate", fixtures |-> f.fixtures, results |-> <<>>, exit |-> 0,
                policy |-> IF f.source = "stored" THEN id ELSE "none",
                draft |-> f.draft, from |-> IF f.source = "stored" THEN Len(policies[id]) ELSE 0]
  <2>1. PICK policy, from : /\ policy = IF f.source = "stored" THEN id ELSE "none"
                            /\ from = IF f.source = "stored" THEN Len(policies[id]) ELSE 0
    OBVIOUS
  <2>2. policies' = policies /\ Len(policies[id]) \in Nat
    BY <1>1, LenProperties DEF policyTables, TablesOK
  <2>3. d = [pc |-> "simulate", fixtures |-> f.fixtures, results |-> <<>>, exit |-> 0, policy |-> policy,
             draft |-> f.draft, from |-> from]
    BY <1>4, <2>1
  <2>4. /\ DOMAIN d = SimFields /\ d.pc = "simulate" /\ d.fixtures = f.fixtures /\ d.results = <<>>
        /\ d.policy = policy /\ d.draft = f.draft /\ d.from = from
    BY <2>3 DEF SimFields
  <2>5. /\ policy \in PolicyIds \union {"none"} /\ from \in Nat
        /\ policy # "none" => from <= Len(policies[policy])
    BY <2>1, <2>2
  <2>6. f.fixtures # <<>> /\ f.fixtures \in Seq(ToSet(f.fixtures)) /\ f.draft \in Rules
    BY <1>4, AuthorizationAssumption DEF ValidFixtures
  <2>7. Subject(d)'
    BY <2>2, <2>4, <2>5, <2>6 DEF Subject, Rules, Effects
  <2>8. DryRunOK(d)'
    <3>1. d.results \in Seq(BOOLEAN) /\ Len(d.results) = 0 /\ DOMAIN d.results = {}
      BY <2>4
    <3>2. Len(d.fixtures) \in Nat
      BY <2>4, <2>6, LenProperties
    <3> QED
      BY <2>4, <2>7, <3>1, <3>2 DEF DryRunOK
  <2> QED
    BY <1>1, <1>2, <2>8, GoesOnRight
<1> QED
  BY <1>2, <1>3, <1>4, PolicySimulateIs

\* A fixture adds what the version that is looked up gives it, or ends the run with 2.
LEMMA SimulateFixtureRight ==
    ASSUME RInv, TablesOK, NEW p \in Procs, DryRunOK(op[p]), SimulateFixture(p)
    PROVE  DryRunOK(op[p])' /\ UNCHANGED <<rbac, policyTables>> /\ op' = [op EXCEPT ![p] = op'[p]]
<1>1. PICK c : c = op[p]
  OBVIOUS
<1>2. PICK d : d = op'[p]
  OBVIOUS
<1>3. UNCHANGED <<rbac, policyTables>> /\ op' = [op EXCEPT ![p] = op'[p]] /\ policies' = policies
  BY SimulateFixtureIs DEF policyTables
<1>4. c.pc = "simulate" /\ Len(c.results) < Len(c.fixtures)
  BY <1>1, SimulateFixtureIs
<1>5. /\ DOMAIN c = SimFields /\ Subject(c)
      /\ c.results \in Seq(BOOLEAN) /\ Len(c.results) <= Len(c.fixtures)
      /\ \A i \in DOMAIN c.results : c.results[i] => Earned(c, i)
  BY <1>1, <1>4 DEF DryRunOK
<1>6. CASE d = [c EXCEPT !.pc = "exited", !.exit = 2]
  <2>1. d.pc = "exited" /\ d.exit = 2
    BY <1>5, <1>6 DEF SimFields
  <2> QED
    BY <1>2, <1>3, <2>1 DEF DryRunOK
<1>7. CASE /\ c.policy # "none" => policies[c.policy] # <<>>
           /\ d = [c EXCEPT !.results = Append(@, Result(c))]
  <2>1. PICK n, passed : n = Len(c.results) /\ passed = Result(c)
    OBVIOUS
  <2>2. passed \in BOOLEAN
    BY <2>1 DEF Result
  <2>3. /\ DOMAIN d = SimFields /\ d.pc = "simulate" /\ d.results = Append(c.results, passed)
        /\ d.fixtures = c.fixtures /\ d.policy = c.policy /\ d.draft = c.draft /\ d.from = c.from
    BY <1>4, <1>5, <1>7, <2>1 DEF SimFields
  <2>4. n \in Nat /\ Len(c.fixtures) \in Nat /\ n + 1 <= Len(c.fixtures)
    BY <1>4, <1>5, <2>1, LenProperties DEF Subject
  <2>5. /\ d.results \in Seq(BOOLEAN) /\ Len(d.results) = n + 1 /\ DOMAIN d.results = 1..n + 1
        /\ DOMAIN c.results = 1..n
        /\ \A i \in 1..n : d.results[i] = c.results[i]
        /\ d.results[n + 1] = passed
    BY <1>5, <2>1, <2>2, <2>3, AppendProperties, LenProperties
  <2>6. Subject(d)'
    BY <1>3, <1>5, <2>3 DEF Subject, Rules, Effects
  <2>7. ASSUME NEW i PROVE Earned(d, i)' <=> Earned(c, i)
    BY <1>3, <2>3 DEF Earned, Seen
  <2>8. passed => Earned(c, n + 1)
    <3>1. PICK rules, fixture : rules = SimulatedRules(c) /\ fixture = c.fixtures[n + 1]
      OBVIOUS
    <3>2. rules \in Seen(c) /\ rules \in Rules
      <4>1. CASE c.policy = "none"
        BY <1>5, <3>1, <4>1 DEF Subject, SimulatedRules, Seen
      <4>2. CASE c.policy # "none"
        <5>1. PICK id \in PolicyIds : id = c.policy
          BY <1>5, <4>2 DEF Subject
        <5>2. PICK versions \in Seq(Versions) : versions = policies[id]
          BY DEF TablesOK
        <5>3. versions # <<>>
          BY <1>7, <4>2, <5>1, <5>2
        <5>4. Len(versions) \in DOMAIN versions /\ Last(versions) = versions[Len(versions)]
              /\ versions[Len(versions)] \in Versions
          BY <5>2, <5>3, LenProperties DEF Last
        <5>5. Len(versions) >= c.from
          BY <1>5, <4>2, <5>1, <5>2, LenProperties DEF Subject
        <5>6. rules = versions[Len(versions)].rules
          BY <3>1, <4>2, <5>1, <5>2, <5>4 DEF SimulatedRules
        <5> QED
          BY <4>2, <5>1, <5>2, <5>4, <5>5, <5>6 DEF Seen, Versions
      <4> QED
        BY <4>1, <4>2
    <3>3. passed <=> DenyOverrides(DeriveRuleOutcomes(rules, fixture.context)) = fixture.expected
      BY <2>1, <3>1 DEF Result
    <3>4. passed => Yields(rules, fixture.context, fixture.expected)
      BY <3>2, <3>3, YieldsIs
    <3> QED
      BY <3>1, <3>2, <3>4 DEF Earned
  <2>9. ASSUME NEW i \in 1..n + 1, d.results[i] PROVE Earned(d, i)'
    <3>1. CASE i \in 1..n
      BY <1>5, <2>5, <2>7, <2>9, <3>1
    <3>2. CASE i = n + 1
      BY <2>5, <2>7, <2>8, <2>9, <3>2
    <3> QED
      BY <2>4, <3>1, <3>2
  <2>10. DryRunOK(d)'
    BY <2>3, <2>4, <2>5, <2>6, <2>9 DEF DryRunOK
  <2> QED
    BY <1>2, <1>3, <2>10, GoesOnRight
<1> QED
  BY <1>1, <1>2, <1>6, <1>7, SimulateFixtureIs

\* All of them have passed when as many have as there are.
LEMMA AllPassed ==
    ASSUME NEW results \in Seq(BOOLEAN), Passed(results) = Len(results)
    PROVE  \A i \in DOMAIN results : results[i]
<1>1. DOMAIN results = 1..Len(results) /\ Len(results) \in Nat
  BY LenProperties
<1>2. PICK good : good = {i \in DOMAIN results : results[i]}
  OBVIOUS
<1>3. IsFiniteSet(1..Len(results)) /\ Cardinality(1..Len(results)) = Len(results)
  <2>1. PICK n \in Nat : n = Len(results)
    BY <1>1
  <2>2. PICK one \in Int : one = 1
    OBVIOUS
  <2>3. n \in Int
    OBVIOUS
  <2>4. IsFiniteSet(one..n) /\ Cardinality(one..n) = IF one > n THEN 0 ELSE n - one + 1
    BY <2>3, FS_Interval
  <2>5. (IF one > n THEN 0 ELSE n - one + 1) = n
    BY <2>2
  <2> QED
    BY <2>1, <2>2, <2>4, <2>5
<1>4. Cardinality(good) = Len(results) /\ good \in SUBSET (1..Len(results))
  BY <1>1, <1>2 DEF Passed
<1>5. good = 1..Len(results)
  BY <1>3, <1>4, FS_Subset
<1> QED
  BY <1>1, <1>2, <1>5

\* The report exits 0 only if all fixtures have passed.
LEMMA ReportRight ==
    ASSUME RInv, NEW p \in Procs, DryRunOK(op[p]), Report(p)
    PROVE  DryRunOK(op[p])' /\ UNCHANGED <<rbac, policyTables>> /\ op' = [op EXCEPT ![p] = op'[p]]
<1>1. PICK c : c = op[p]
  OBVIOUS
<1>2. PICK d : d = op'[p]
  OBVIOUS
<1>3. UNCHANGED <<rbac, policyTables>> /\ op' = [op EXCEPT ![p] = op'[p]] /\ policies' = policies
  BY ReportIs DEF policyTables
<1>4. PICK x : x = IF Passed(c.results) = Len(c.results) THEN 0 ELSE 1
  OBVIOUS
<1>5. c.pc = "simulate" /\ Len(c.results) = Len(c.fixtures) /\ d = [c EXCEPT !.pc = "exited", !.exit = x]
  BY <1>1, <1>2, <1>4, ReportIs
<1>6. /\ DOMAIN c = SimFields /\ Subject(c) /\ c.results \in Seq(BOOLEAN)
      /\ \A i \in DOMAIN c.results : c.results[i] => Earned(c, i)
  BY <1>1, <1>5 DEF DryRunOK
<1>7. /\ d.pc = "exited" /\ d.exit = x
      /\ d.fixtures = c.fixtures /\ d.policy = c.policy /\ d.draft = c.draft /\ d.from = c.from
  BY <1>5, <1>6 DEF SimFields
<1>8. Subject(d)'
  BY <1>3, <1>6, <1>7 DEF Subject, Rules, Effects
<1>9. ASSUME NEW i PROVE Earned(d, i)' <=> Earned(c, i)
  BY <1>3, <1>7 DEF Earned, Seen
<1>10. x = 0 => \A i \in DOMAIN c.results : Earned(c, i)
  BY <1>4, <1>6, AllPassed
<1>11. DOMAIN d.fixtures = DOMAIN c.results
  BY <1>5, <1>6, <1>7, LenProperties DEF Subject
<1>12. DryRunOK(d)'
  BY <1>7, <1>8, <1>9, <1>10, <1>11 DEF DryRunOK
<1> QED
  BY <1>2, <1>3, <1>12, GoesOnRight

\* A step of a check is no dry run.
LEMMA CheckIsNoDryRun ==
    ASSUME RInv, NEW p \in Procs, CheckStep(p)
    PROVE  DryRunOK(op[p])'
<1>1. RInv'
  BY CheckStepOK
<1>2. DOMAIN op'[p] = AskFields => op'[p].pc \in AskPcs
  BY <1>1 DEF RInv, Shape, AskFields
<1>3. DOMAIN op'[p] = AskFields => DryRunOK(op[p])'
  BY <1>2 DEF DryRunOK, AskPcs
<1>4. CASE \E u \in Users, o \in Orgs :
         \/ \E d \in Demands : ResolvePrincipal(p, u, o, d)
         \/ \E rt \in Resources, x \in Contexts : AuthorizeAction(p, u, o, rt, x)
  <2>1. PICK for, u, o, asks : Begin(p, Asking(for, u, o, asks))
    BY <1>4 DEF ResolvePrincipal, AuthorizeAction
  <2> QED
    BY <1>3, <2>1, AskingBegins
<1>5. CASE Answer(p)
  <2>1. op'[p] = Idle
    BY <1>5, GotoIs DEF Answer, Return, Goto
  <2> QED
    BY <2>1 DEF DryRunOK, Idle
<1>6. CASE ReadRows(p)
  BY <1>3, <1>6, ReadRowsIs
<1>7. CASE Guard(p)
  BY <1>3, <1>7, GuardIs
<1>8. CASE FailClosed(p)
  BY <1>3, <1>8, FailClosedIs
<1>9. CASE \E r \in RoleIds : ReadRole(p, r)
  BY <1>3, <1>9, ReadRoleIs
<1>10. CASE CacheGet(p)
  BY <1>3, <1>10, CacheGetIs
<1>11. CASE LoadPolicies(p)
  BY <1>3, <1>11, LoadPoliciesIs
<1>12. CASE CacheSet(p)
  BY <1>3, <1>12, CacheSetIs
<1>13. CASE Decide(p)
  BY <1>3, <1>13, DecideIs
<1> QED
  BY <1>4, <1>5, <1>6, <1>7, <1>8, <1>9, <1>10, <1>11, <1>12, <1>13 DEF CheckStep

\* A step of a publication is none either, and those of a dry run do as they should.
LEMMA PolicyStepIsRight ==
    ASSUME RInv, TablesOK, NEW p \in Procs, PublishOK(op[p]), DryRunOK(op[p]), PolicyStep(p)
    PROVE  (op' = op /\ UNCHANGED rbac) \/ (DryRunOK(op[p])' /\ Others(p))
<1>1. CASE \E id \in PolicyIds, rules \in RuleSets :
              \/ \E draft \in BOOLEAN : CreatePolicy(p, id, rules, draft)
              \/ PublishNewVersion(p, id, rules)
  <2>1. PICK id, n, v : Begin(p, PublishCall(id, n, v))
    BY <1>1 DEF CreatePolicy, PublishNewVersion
  <2>2. PICK d : d = op'[p]
    OBVIOUS
  <2>3. d = [pc |-> "saveVersion", policy |-> id, number |-> n, version |-> v]
        /\ UNCHANGED rbac /\ op' = [op EXCEPT ![p] = op'[p]]
    BY <2>1, <2>2, PublishBegins
  <2>4. d.pc = "saveVersion"
    BY <2>3
  <2> QED
    BY <2>2, <2>3, <2>4, GotoLeaves DEF DryRunOK
<1>2. CASE SavePolicy(p)
  BY <1>2, SavePolicyIs DEF DryRunOK
<1>3. CASE InvalidatePublished(p)
  <2>1. Others(p) /\ op'[p] = Idle
    BY <1>3, InvalidatePublishedIs
  <2> QED
    BY <2>1 DEF DryRunOK, Idle
<1>4. CASE InvalidateByHand(p)
  BY <1>4, InvalidateByHandIs
<1>5. CASE \E f \in Files, id \in PolicyIds : PolicySimulate(p, f, id)
  BY <1>5, SimulateBeginsRight, GotoLeaves
<1>6. CASE SimulateFixture(p)
  BY <1>6, SimulateFixtureRight, GotoLeaves
<1>7. CASE Report(p)
  BY <1>7, ReportRight, GotoLeaves
<1> QED
  BY <1>1, <1>2, <1>3, <1>4, <1>5, <1>6, <1>7 DEF PolicyStep

\* All that a step has to show.
LEMMA SInvKept ==
    ASSUME SInv, DInv', Grown, NEW p, Others(p), p \in Procs => DryRunOK(op[p])'
    PROVE  SInv'
<1>1. RInv /\ TablesOK /\ TablesOK' /\ \A q \in Procs : DryRunOK(op[q])
  BY DEF SInv, DInv, EInv
<1>2. ASSUME NEW q \in Procs PROVE DryRunOK(op[q])'
  <2>1. CASE q = p
    BY <2>1
  <2>2. CASE q # p
    BY <1>1, <2>2, OthersDryRun DEF Others
  <2> QED
    BY <2>1, <2>2
<1> QED
  BY <1>2 DEF SInv

\* Nothing runs at first.
LEMMA SInvInit == Init => SInv
<1> SUFFICES ASSUME Init PROVE SInv
  OBVIOUS
<1>1. \A p \in Procs : op[p] = Idle
  BY DEF Init
<1>2. Idle.pc = "idle"
  BY DEF Idle
<1> QED
  BY <1>1, <1>2, DInvInit DEF SInv, DryRunOK

\* What has been found by a dry run stays true of the versions that it can have seen.
LEMMA SInvNext == ASSUME SInv, [Next]_vars PROVE SInv'
<1>1. DInv /\ RInv /\ RowsOK /\ TablesOK
      /\ \A q \in Procs : PublishOK(op[q]) /\ CheckOK(op[q]) /\ DryRunOK(op[q])
  BY DEF SInv, DInv, EInv
<1>2. DInv' /\ Grown
  BY <1>1, DInvNext, PoliciesGrow
<1>3. PICK none : none \notin Procs
  BY NoSetContainsEverything
<1>4. ASSUME NEW p \in Procs, RoleStep(p) \/ RouteStep(p) PROVE SInv'
  <2>1. PICK d : Moves(p, d) /\ d.pc \notin OtherPcs
    BY <1>1, <1>4, RoleStepMoves, RouteStepMoves
  <2>2. Others(p) /\ op'[p] = d
    BY <1>1, <2>1, MovesIs
  <2>3. DryRunOK(op[p])'
    BY <2>1, <2>2 DEF OtherPcs, DryRunOK
  <2> QED
    BY <1>2, <2>2, <2>3, SInvKept
<1>5. ASSUME op' = op, UNCHANGED rbac PROVE SInv'
  <2>1. Others(none)
    <3>1. op' = [q \in Procs |-> op'[q]]
      BY <1>1, <1>5 DEF RInv
    <3> QED
      BY <3>1, <1>5 DEF Others
  <2> QED
    BY <1>2, <1>3, <2>1, SInvKept
<1>6. ASSUME NEW p \in Procs, PolicyStep(p) PROVE SInv'
  BY <1>1, <1>2, <1>5, <1>6, PolicyStepIsRight, SInvKept
<1>7. ASSUME NEW p \in Procs, CheckStep(p) PROVE SInv'
  <2>1. DryRunOK(op[p])'
    BY <1>1, <1>7, CheckIsNoDryRun
  <2>2. Others(p)
    BY <1>1, <1>7, CheckStepKnows, CheckStepTables, GotoLeaves
  <2> QED
    BY <1>2, <2>1, <2>2, SInvKept
<1>8. CASE Tick
  <2>1. Others(none)
    BY <1>8 DEF Tick, Others
  <2> QED
    BY <1>2, <1>3, <2>1, SInvKept
<1>9. CASE UNCHANGED vars
  BY <1>5, <1>9 DEF vars
<1> QED
  BY <1>4, <1>6, <1>7, <1>8, <1>9 DEF Next

\* The dry run that gates a change exits 0 only if there was a fixture and each names what a version of
\* the policy that was current during the run gives it, whoever published meanwhile.
THEOREM GreenIsEarned == Spec => []GreenMeansGreen
<1>1. SInv => GreenMeansGreen
  BY DEF SInv, GreenMeansGreen, DryRunOK, Subject, Earned, Seen, Yields, EffectsOf
<1>2. SInv /\ [Next]_vars => SInv'
  BY SInvNext
<1> QED
  BY <1>1, <1>2, SInvInit, PTL DEF Spec
=============================================================================
