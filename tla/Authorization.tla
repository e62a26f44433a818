---------------------------- MODULE Authorization ----------------------------
(***************************************************************************)
(* The authorization context on several processes: the use cases and the   *)
(* admin routes that change roles and assignments, the permission checker  *)
(* and the guards, the publication of policies, AuthorizeAction with its   *)
(* policy cache, and the dry run of a policy.  A step is what a call does  *)
(* between two awaits, unless merging two of them changes no table.        *)
(***************************************************************************)
EXTENDS Rbac, PolicyCache

CONSTANTS Procs,
          RuleSets,     \* rule lists a policy may have
          OldRules,     \* the ones of them it may start with
          Contexts,     \* attribute contexts
          Demands,      \* what guards ask for: [mode, keys]
          Files,        \* fixture files of the dry run
          ActionKey,    \* the permission an action on a resource type asks for
          MaxCalls, MaxFaults

ASSUME AuthorizationAssumption ==
    /\ {MaxCalls, MaxFaults} \subseteq Nat
    /\ {"admin", "ann"} \subseteq Users /\ "o1" \in Orgs
    /\ {"super-admin", "team"} \subseteq Names /\ "super-admin" \in DOMAIN SeedRoles
    /\ MaxRoles >= 2 /\ MaxRows >= 2
    /\ OldRules \subseteq RuleSets /\ RuleSets \subseteq Rules
    /\ \A f \in Files : f.draft \in Rules /\ f.fixtures \in Seq(ToSet(f.fixtures))
    /\ {<<"roles", "write">>, Wildcard} \subseteq Keys
    /\ ActionKey \in Concrete /\ \A d \in Demands : d.keys \subseteq Concrete

VARIABLES op,           \* the call each process is in
          calls, faults,
          lost          \* resource types whose last invalidation did not reach the cache

budget == <<calls, faults>>
vars == <<rbac, policyTables, op, budget, lost>>

RolesWrite == <<"roles", "write">>

\* The seed's catalog: what its roles are linked to, and what guards the admin routes.
SeedPermissions == {RolesWrite, Wildcard} \union UNION {SeedRoles[n] : n \in DOMAIN SeedRoles}

Idle == [pc |-> "idle"]

Init ==
    /\ now = 0
    /\ catalog = SeedPermissions \union {ActionKey}
    /\ roles = [r \in RoleIds |-> CASE r = 1 -> Role("super-admin", TRUE, SeedRoles["super-admin"])
                                   [] r = 2 -> Role("team", FALSE, {ActionKey})
                                   [] OTHER -> NoRole]
    /\ assignments = [a \in RowIds |->
                        CASE a = 1 -> [user |-> "admin", role |-> 1, org |-> "o1", expires |-> Never]
                          [] a = 2 -> [user |-> "ann", role |-> 2, org |-> "o1", expires |-> 1]
                          [] OTHER -> NoRow]
    /\ \E history \in [PolicyIds -> {<<>>} \union {<<Version(rules, "published")>> : rules \in OldRules}] :
         PolicyInit(history)
    /\ op = [p \in Procs |-> Idle]
    /\ calls = 0
    /\ faults = 0
    /\ lost = {}

-----------------------------------------------------------------------------
(* What a user holds, said without the code's operators: the concrete      *)
(* permissions that the keys of unexpired assignments stand for.           *)

Denotes(k) == {c \in Concrete : k[1] \in {"*", c[1]} /\ k[2] \in {"*", c[2]}}

Holds(rs, rows, t, u, o) ==
    UNION {Denotes(k) : k \in UNION {rs[rows[a].role].keys :
               a \in {b \in RowIds : rows[b].role # 0 /\ rows[b].user = u /\ rows[b].org = o
                                     /\ rows[b].expires > t}}}

\* What the other calls in progress notice of a step that changes a table or the clock.
Noticed(c) ==
    CASE "held" \in DOMAIN c ->
           LET holds == Holds(roles', assignments', now', c.user, c.org) IN
             [c EXCEPT !.held = @ \union holds, !.always = @ \intersect holds,
                       !.writes = IF @ < 2 THEN @ + 1 ELSE @]
      [] "clean" \in DOMAIN c -> [c EXCEPT !.clean = @ /\ roles'[c.role] = roles[c.role]]
      [] OTHER -> c

Becomes(p, c) == op' = [q \in Procs |-> IF q = p THEN c ELSE Noticed(op[q])]
Goto(p, c)    == op' = [op EXCEPT ![p] = c]
Return(p)     == Goto(p, Idle)

Begin(p, c) ==
    /\ op[p].pc = "idle"
    /\ calls < MaxCalls
    /\ calls' = calls + 1
    /\ Goto(p, c)
    /\ UNCHANGED <<rbac, policyTables, faults, lost>>

Reads == UNCHANGED <<rbac, policyTables, budget, lost>>

\* A store or a provider does not answer.
Fault == faults < MaxFaults /\ faults' = faults + 1

-----------------------------------------------------------------------------
(* Use cases on the catalog and on roles                                   *)

\* A use case that is one write, whatever it read before.
Once(p) ==
    /\ op[p].pc = "idle"
    /\ calls < MaxCalls
    /\ calls' = calls + 1
    /\ Becomes(p, Idle)
    /\ UNCHANGED <<policyTables, faults, lost>>

DefinePermission(p, key) ==
    /\ key \notin catalog
    /\ SavePermission(key)
    /\ UNCHANGED <<now, roles, assignments>>
    /\ Once(p)

CreateRole(p, name, system, keys) ==
    /\ MayHold(system, keys)
    /\ ~NameTaken(name) /\ FreeRoles # {}
    /\ SaveRole(NewRole, Role(name, system, keys))
    /\ UNCHANGED <<now, catalog, assignments>>
    /\ Once(p)

\* `clean` says that no other call has changed the role since this one read it.
RoleCall(r, copy) == [pc |-> "saveRole", role |-> r, copy |-> copy, clean |-> TRUE]

\* A copy of the role is loaded, changed and written back as a whole.
AssignPermissionToRole(p, r, key) ==
    /\ Exists(r)
    /\ IsGlobalWildcard(key) => roles[r].system
    /\ key \in catalog
    /\ Begin(p, RoleCall(r, Grant(roles[r], key)))

RevokePermissionFromRole(p, r, key) ==
    /\ Exists(r)
    /\ ~roles[r].system
    /\ Begin(p, RoleCall(r, Revoke(roles[r], key)))

\* The upsert finds the row by its id, so it brings back a role deleted meanwhile; it
\* fails if another role has taken the name.
SaveCopy(p) ==
    LET c == op[p] IN
    /\ c.pc = "saveRole"
    /\ IF \E r \in RoleIds \ {c.role} : roles[r].name = c.copy.name
       THEN Return(p) /\ UNCHANGED rbac
       ELSE SaveRole(c.role, c.copy) /\ UNCHANGED <<now, catalog, assignments>> /\ Becomes(p, Idle)
    /\ UNCHANGED <<policyTables, budget, lost>>

\* The seed makes each default role a system role, by name, and then adds its permissions.
SeedDefaultRoles(p, name) ==
    /\ NameTaken(name) \/ FreeRoles # {}
    /\ LET r == IF NameTaken(name) THEN CHOOSE id \in RoleIds : roles[id].name = name ELSE NewRole IN
         /\ roles' = [roles EXCEPT ![r] = Role(name, TRUE, @.keys)]
         /\ UNCHANGED <<now, catalog, assignments>>
         /\ op[p].pc = "idle" /\ calls < MaxCalls /\ calls' = calls + 1
         /\ Becomes(p, [pc |-> "seedLinks", role |-> r, name |-> name, clean |-> TRUE])
    /\ UNCHANGED <<policyTables, faults, lost>>

SeedLinks(p) ==
    LET c == op[p] IN
    /\ c.pc = "seedLinks"
    /\ IF Exists(c.role)
       THEN roles' = [roles EXCEPT ![c.role].keys = @ \union SeedRoles[c.name]]
       ELSE UNCHANGED roles
    /\ UNCHANGED <<now, catalog, assignments, policyTables, budget, lost>>
    /\ Becomes(p, Idle)

-----------------------------------------------------------------------------
(* Use cases on assignments                                                *)

\* An unexpired assignment makes the call return it; an expired one makes the insertion
\* fail.  The domain refuses an expiry that is not in the future.
AssignRoleToUser(p, u, r, o, expires) ==
    /\ CanAssign(u, r, o)
    /\ now < expires
    /\ SaveAssignment(u, r, o, expires)
    /\ UNCHANGED <<now, catalog, roles>>
    /\ Once(p)

\* By its id, or by user, role and organization, which finds unexpired assignments only.
RevokeRoleFromUser(p, a, byTuple) ==
    /\ IsRow(a)
    /\ byTuple => IsActive(assignments[a], now)
    /\ Begin(p, [pc |-> "dropRow", row |-> a])

\* The delete is by id and finds either the row or nothing.
DropFound(p) ==
    /\ op[p].pc = "dropRow"
    /\ DropRow(op[p].row)
    /\ UNCHANGED <<now, catalog, roles, policyTables, budget, lost>>
    /\ Becomes(p, Idle)

-----------------------------------------------------------------------------
(* The admin routes: permission of the caller, checks, one write           *)

\* A route with its arguments; a route on a role first looks it up.
RouteCall(route, args) == [pc |-> "routeWrite", route |-> route, args |-> args]
OnRole(route, r, args) ==
    [pc |-> "routeCheck", route |-> route, role |-> r, clean |-> TRUE, args |-> args]

RequireRolesWrite(u, o) == RouteHasPermission(u, o, RolesWrite)

CreateRoleRoute(p, u, o, name) ==
    /\ RequireRolesWrite(u, o)
    /\ Begin(p, RouteCall("create", [name |-> name]))

UpdateRoleRoute(p, u, o, r, name) ==
    /\ RequireRolesWrite(u, o)
    /\ Begin(p, RouteCall("update", [role |-> r, name |-> name]))

PermissionRoute(p, u, o, r, key, route) ==
    /\ RequireRolesWrite(u, o)
    /\ Begin(p, OnRole(route, r, [key |-> key]))

DeleteRoleRoute(p, u, o, r) ==
    /\ RequireRolesWrite(u, o)
    /\ Begin(p, OnRole("delete", r, <<>>))

AssignRoute(p, u, o, r, target, expires) ==
    /\ RequireRolesWrite(u, o)
    /\ Begin(p, OnRole("assign", r, [user |-> u, org |-> o, target |-> target, expires |-> expires]))

RevokeAssignmentRoute(p, u, o, a) ==
    /\ RequireRolesWrite(u, o)
    /\ Begin(p, RouteCall("unassign", [row |-> a]))

\* An actor may give a role to itself only when it has every permission of it.
CanGrantSelf(c) == \A k \in roles[c.role].keys : RouteHasPermission(c.args.user, c.args.org, k)

\* Mutant of Refused: a system role can be deleted.
RefusedUnlessMissing(c) ==
    \/ ~Exists(c.role)
    \/ c.route = "grant" /\ (c.args.key \notin catalog \/ (IsGlobalWildcard(c.args.key) /\ ~roles[c.role].system))
    \/ c.route = "revoke" /\ (c.args.key \notin catalog \/ roles[c.role].system)
    \/ c.route = "assign" /\ c.args.user = c.args.target /\ ~CanGrantSelf(c)

Refused(c) ==
    \/ ~Exists(c.role)
    \/ c.route = "grant" /\ (c.args.key \notin catalog \/ (IsGlobalWildcard(c.args.key) /\ ~roles[c.role].system))
    \/ c.route = "revoke" /\ (c.args.key \notin catalog \/ roles[c.role].system)
    \/ c.route = "delete" /\ roles[c.role].system
    \/ c.route = "assign" /\ c.args.user = c.args.target /\ ~CanGrantSelf(c)

RouteCheck(p) ==
    /\ op[p].pc = "routeCheck"
    /\ IF Refused(op[p]) THEN Return(p)
       ELSE Goto(p, [op[p] EXCEPT !.pc = "routeWrite", !.clean = TRUE])
    /\ Reads

\* Whether the database accepts the write.
Accepted(c) ==
    CASE c.route = "create"            -> ~NameTaken(c.args.name) /\ FreeRoles # {}
      [] c.route = "update"            -> /\ Exists(c.args.role)
                                          /\ \A r \in RoleIds \ {c.args.role} : roles[r].name # c.args.name
      [] c.route \in {"grant", "delete"} -> Exists(c.role)
      [] c.route = "revoke"            -> TRUE
      [] c.route = "assign"            -> CanAssign(c.args.target, c.role, c.args.org)
      [] c.route = "unassign"          -> IsRow(c.args.row)

WriteRoles(c) ==
    \/ c.route = "create" /\ roles' = [roles EXCEPT ![NewRole] = Role(c.args.name, FALSE, {})] /\ UNCHANGED assignments
    \/ c.route = "update" /\ roles' = [roles EXCEPT ![c.args.role].name = c.args.name] /\ UNCHANGED assignments
    \/ c.route = "grant" /\ roles' = [roles EXCEPT ![c.role] = Grant(@, c.args.key)] /\ UNCHANGED assignments
    \/ c.route = "revoke" /\ roles' = [roles EXCEPT ![c.role] = Revoke(@, c.args.key)] /\ UNCHANGED assignments
    \/ c.route = "delete" /\ DeleteRole(c.role)
    \/ c.route = "assign" /\ SaveAssignment(c.args.target, c.role, c.args.org, c.args.expires) /\ UNCHANGED roles
    \/ c.route = "unassign" /\ DropRow(c.args.row) /\ UNCHANGED roles

RouteWrite(p) ==
    /\ op[p].pc = "routeWrite"
    /\ Accepted(op[p])
    /\ WriteRoles(op[p])
    /\ UNCHANGED <<now, catalog, policyTables, budget, lost>>
    /\ Becomes(p, Idle)

RouteFails(p) ==
    /\ op[p].pc = "routeWrite"
    /\ ~Accepted(op[p])
    /\ Return(p)
    /\ Reads

-----------------------------------------------------------------------------
(* PermissionChecker, the hook that keeps its answer on the request, and   *)
(* the guards                                                              *)

\* A call that asks what a user holds, and for the properties what the user has held.
Asking(for, u, o, asks) ==
    LET holds == Holds(roles, assignments, now, u, o) IN
      [pc |-> "readRows", for |-> for, user |-> u, org |-> o, asks |-> asks,
       todo |-> {}, granted |-> {}, held |-> holds, always |-> holds, writes |-> 0,
       value |-> <<>>, loaded |-> <<>>, excused |-> FALSE, failed |-> FALSE, decision |-> "none"]

ResolvePrincipal(p, u, o, demand) ==
    Begin(p, Asking("guard", u, o, demand))

\* The assignments are read first, then each role on its own.
ReadRows(p) ==
    LET c == op[p] IN
    /\ c.pc = "readRows"
    /\ Goto(p, [c EXCEPT !.pc = "readRoles", !.todo = ActiveRoles(assignments, c.user, c.org, now)])
    /\ Reads

ReadRole(p, r) ==
    /\ op[p].pc = "readRoles"
    /\ r \in op[p].todo
    /\ Goto(p, [op[p] EXCEPT !.todo = @ \ {r}, !.granted = @ \union roles[r].keys])
    /\ Reads

HasPermission(granted, required) == \E k \in granted : Matches(k, required)

Guard(p) ==
    LET c == op[p] IN
    /\ c.pc = "readRoles" /\ c.todo = {} /\ c.for = "guard"
    /\ Goto(p, [c EXCEPT !.pc =
           IF IF c.asks.mode = "all" THEN \A k \in c.asks.keys : HasPermission(c.granted, k)
              ELSE \E k \in c.asks.keys : HasPermission(c.granted, k)
           THEN "allowed" ELSE "forbidden"])
    /\ Reads

Answer(p) ==
    /\ op[p].pc \in {"allowed", "forbidden", "decided", "exited"}
    /\ Return(p)
    /\ Reads

-----------------------------------------------------------------------------
(* Publication of policies                                                 *)

PublishCall(id, number, v) == [pc |-> "saveVersion", policy |-> id, number |-> number, version |-> v]

\* Policy.create makes version 1, as a draft or published.
CreatePolicy(p, id, rules, draft) ==
    /\ policies[id] = <<>>
    /\ Begin(p, PublishCall(id, 1, Version(rules, IF draft THEN "draft" ELSE "published")))

\* Policy.publishNewVersion counts on from the version that was loaded.
PublishNewVersion(p, id, rules) ==
    /\ policies[id] # <<>> /\ Len(policies[id]) < MaxVersions
    /\ Begin(p, PublishCall(id, Len(policies[id]) + 1, Version(rules, "published")))

SavePolicy(p) ==
    LET c == op[p] IN
    /\ c.pc = "saveVersion"
    /\ SaveVersion(c.policy, c.number, c.version)
    /\ UNCHANGED <<rbac, globalGeneration, generations, entries, budget, lost>>
    /\ Becomes(p, [pc |-> "invalidate", rt |-> Target[c.policy]])

\* Through ResilientPolicyCache: a failure is reported and the publication succeeds.
InvalidatePublished(p) ==
    /\ op[p].pc = "invalidate"
    /\ \/ InvalidateResourceType(op[p].rt) /\ lost' = lost \ {op[p].rt} /\ UNCHANGED faults
       \/ Fault /\ lost' = lost \union {op[p].rt} /\ UNCHANGED policyTables
    /\ Return(p)
    /\ UNCHANGED <<rbac, calls>>

\* The two other invalidations.
InvalidateByHand(p) ==
    /\ op[p].pc = "idle" /\ calls < MaxCalls /\ calls' = calls + 1
    /\ \/ \E rt \in Resources : Reachable(rt) # {} /\ Invalidate(rt) /\ UNCHANGED lost
       \/ entries # {} /\ InvalidateAll /\ lost' = {}
    /\ UNCHANGED <<rbac, op, faults>>

-----------------------------------------------------------------------------
(* AuthorizeAction, AuthorizationService, and a decision point that keeps   *)
(* the applicable policies in the cache                                    *)

AuthorizeAction(p, u, o, rt, context) ==
    Begin(p, Asking("action", u, o, [rt |-> rt, context |-> context]))

\* The resource's attributes, the role store or the policy store cannot be read.
FailClosed(p) ==
    /\ op[p].pc \in {"readRows", "readRoles", "load"} /\ op[p].for = "action"
    /\ Fault
    /\ Goto(p, [op[p] EXCEPT !.pc = "decided", !.decision = "DENY", !.failed = TRUE])
    /\ UNCHANGED <<rbac, policyTables, calls, lost>>

\* Entries stored late, entries a lost invalidation left, and a publication that is
\* between its two writes are what the cache does not promise.
Publishing(rt) == \E q \in Procs : op[q].pc = "invalidate" /\ op[q].rt = rt

\* A miss: nothing is stored, the entry's time to live has passed, or the cache fails.
CacheGet(p) ==
    LET c == op[p]
        hit == Reachable(c.asks.rt) IN
    /\ c.pc = "readRoles" /\ c.todo = {} /\ c.for = "action"
    /\ \/ /\ UNCHANGED faults
          /\ Expire(hit)
          /\ Goto(p, [c EXCEPT !.pc = "load"])
       \/ /\ Fault
          /\ UNCHANGED policyTables
          /\ Goto(p, [c EXCEPT !.pc = "load"])
       \/ /\ UNCHANGED <<policyTables, faults>>
          /\ \E e \in hit :
               Goto(p, [c EXCEPT !.pc = "evaluate", !.value = e.value,
                                 !.excused = e.late \/ c.asks.rt \in lost \/ Publishing(c.asks.rt)])
    /\ UNCHANGED <<rbac, calls, lost>>

LoadPolicies(p) ==
    /\ op[p].pc = "load"
    /\ Goto(p, [op[p] EXCEPT !.pc = "store", !.value = LatestFor(op[p].asks.rt),
                             !.loaded = Generation(op[p].asks.rt)])
    /\ Reads

CacheSet(p) ==
    LET c == op[p] IN
    /\ c.pc = "store"
    /\ Goto(p, [c EXCEPT !.pc = "evaluate"])
    /\ \/ /\ Set(c.asks.rt, c.value, c.loaded # Generation(c.asks.rt))
          /\ UNCHANGED <<policies, globalGeneration, generations, faults>>
       \/ Fault /\ UNCHANGED policyTables
    /\ UNCHANGED <<rbac, calls, lost>>

Decide(p) ==
    LET c == op[p]
        roleDecision == IF HasPermission(c.granted, ActionKey) THEN "grant" ELSE "no-match" IN
    /\ c.pc = "evaluate"
    /\ Goto(p, [c EXCEPT !.pc = "decided",
                         !.decision = Compose(roleDecision, Evaluate(c.value, c.asks.context))])
    /\ Reads

-----------------------------------------------------------------------------
(* The dry run of a policy (policy-simulate)                               *)

\* The arguments and the file can be read and have no unknown fields.
Parses(f) == f.shape = "good"

\* A stored policy, or a draft; one that a flag names replaces the one in the file.
NamesPolicy(f) == f.source \in {"stored", "draft"}

\* Mutant of ValidFixtures: there may be none.
NamedFixtures(fs) == \A i \in DOMAIN fs : fs[i].name # ""

ValidFixtures(fs) ==
    /\ fs # <<>>
    /\ \A i \in DOMAIN fs : fs[i].name # ""
    /\ IsInjective([i \in DOMAIN fs |-> fs[i].name])

PolicySimulate(p, f, id) ==
    Begin(p, IF Parses(f) /\ NamesPolicy(f) /\ ValidFixtures(f.fixtures)
             THEN [pc |-> "simulate", fixtures |-> f.fixtures, results |-> <<>>, exit |-> 0,
                   policy |-> IF f.source = "stored" THEN id ELSE "none",
                   draft |-> f.draft, from |-> IF f.source = "stored" THEN Len(policies[id]) ELSE 0]
             ELSE [pc |-> "exited", exit |-> 2])

\* The engine looks a stored policy up again for each fixture.
SimulatedRules(c) == IF c.policy = "none" THEN c.draft ELSE Last(policies[c.policy]).rules

\* One fixture; the engine throws when it cannot reach the policy.
SimulateFixture(p) ==
    LET c == op[p]
        f == c.fixtures[Len(c.results) + 1] IN
    /\ c.pc = "simulate" /\ Len(c.results) < Len(c.fixtures)
    /\ \/ /\ c.policy # "none"
          /\ IF policies[c.policy] = <<>> THEN UNCHANGED faults ELSE Fault
          /\ Goto(p, [c EXCEPT !.pc = "exited", !.exit = 2])
       \/ /\ c.policy # "none" => policies[c.policy] # <<>>
          /\ UNCHANGED faults
          /\ Goto(p, [c EXCEPT !.results = Append(@,
                 DenyOverrides(DeriveRuleOutcomes(SimulatedRules(c), f.context)) = f.expected)])
    /\ UNCHANGED <<rbac, policyTables, calls, lost>>

Passed(results) == Cardinality({i \in DOMAIN results : results[i]})

Report(p) ==
    LET c == op[p] IN
    /\ c.pc = "simulate" /\ Len(c.results) = Len(c.fixtures)
    /\ Goto(p, [c EXCEPT !.pc = "exited",
                         !.exit = IF Passed(c.results) = Len(c.results) THEN 0 ELSE 1])
    /\ Reads

-----------------------------------------------------------------------------
Tick ==
    /\ now < MaxTime
    /\ now' = now + 1
    /\ UNCHANGED <<catalog, roles, assignments, policyTables, budget, lost>>
    /\ op' = [q \in Procs |-> Noticed(op[q])]

RoleStep(p) ==
    \/ \E k \in Keys : DefinePermission(p, k)
    \/ \E n \in Names, s \in BOOLEAN, ks \in SUBSET {ActionKey, Wildcard} : CreateRole(p, n, s, ks)
    \/ \E r \in RoleIds, k \in Keys : \/ AssignPermissionToRole(p, r, k)
                                      \/ RevokePermissionFromRole(p, r, k)
    \/ SaveCopy(p)
    \/ \E n \in DOMAIN SeedRoles : SeedDefaultRoles(p, n)
    \/ SeedLinks(p)
    \/ \E u \in Users, r \in RoleIds, o \in Orgs, e \in {1, Never} : AssignRoleToUser(p, u, r, o, e)
    \/ \E a \in RowIds, byTuple \in BOOLEAN : RevokeRoleFromUser(p, a, byTuple)
    \/ DropFound(p)

RouteStep(p) ==
    \/ \E u \in Users, o \in Orgs, r \in RoleIds :
         \/ \E n \in Names : CreateRoleRoute(p, u, o, n) \/ UpdateRoleRoute(p, u, o, r, n)
         \/ \E k \in Keys, route \in {"grant", "revoke"} : PermissionRoute(p, u, o, r, k, route)
         \/ DeleteRoleRoute(p, u, o, r)
         \/ \E t \in Users, e \in {1, Never} : AssignRoute(p, u, o, r, t, e)
    \/ \E u \in Users, o \in Orgs, a \in RowIds : RevokeAssignmentRoute(p, u, o, a)
    \/ RouteCheck(p) \/ RouteWrite(p) \/ RouteFails(p)

PolicyStep(p) ==
    \/ \E id \in PolicyIds, rules \in RuleSets :
         \/ \E draft \in BOOLEAN : CreatePolicy(p, id, rules, draft)
         \/ PublishNewVersion(p, id, rules)
    \/ SavePolicy(p) \/ InvalidatePublished(p) \/ InvalidateByHand(p)
    \/ \E f \in Files, id \in PolicyIds : PolicySimulate(p, f, id)
    \/ SimulateFixture(p) \/ Report(p)

CheckStep(p) ==
    \/ \E u \in Users, o \in Orgs :
         \/ \E d \in Demands : ResolvePrincipal(p, u, o, d)
         \/ \E rt \in Resources, x \in Contexts : AuthorizeAction(p, u, o, rt, x)
    \/ ReadRows(p) \/ Guard(p) \/ Answer(p) \/ FailClosed(p)
    \/ \E r \in RoleIds : ReadRole(p, r)
    \/ CacheGet(p) \/ LoadPolicies(p) \/ CacheSet(p) \/ Decide(p)

Next ==
    \/ \E p \in Procs : RoleStep(p) \/ RouteStep(p) \/ PolicyStep(p) \/ CheckStep(p)
    \/ Tick

Spec == Init /\ [][Next]_vars

-----------------------------------------------------------------------------
(* Properties                                                              *)

\* PermissionChecker reads the assignments and then the roles, one by one, and a guard may
\* use the answer later.  If at most one change landed during the check, a guard lets
\* through only what the user held at some moment of it, and refuses only what the user
\* did not hold all along.
CheckIsExact ==
    \A p \in Procs :
      LET c == op[p]
          Covers(held) == IF c.asks.mode = "all" THEN c.asks.keys \subseteq held
                          ELSE c.asks.keys \intersect held # {}
      IN c.pc \in {"allowed", "forbidden"} /\ c.writes <= 1 =>
           /\ c.pc = "allowed" => Covers(c.held)
           /\ Covers(c.always) => c.pc = "allowed"

\* What the answer of AuthorizeAction should be, from the tables alone.
ShouldPermit(c) ==
    LET latest == {Last(policies[id]) : id \in {i \in PolicyIds : Target[i] = c.asks.rt /\ policies[i] # <<>>}}
        applicable == UNION {ToSet(v.rules) : v \in {w \in latest : w.status = "published"}}
        effects == {r.effect : r \in {s \in applicable : EvaluateCondition(s.condition, c.asks.context)}}
    IN /\ "DENY" \notin effects
       /\ ActionKey \in Holds(roles, assignments, now, c.user, c.org) \/ "PERMIT" \in effects

\* AuthorizeAction through roles, attribute policies and the policy cache: a check during
\* which nothing changed answers what the tables say now, although the policies come from
\* an entry some other process stored; a check that could not be made answers DENY.
DecisionIsCurrent ==
    \A p \in Procs :
      LET c == op[p] IN
        c.pc = "decided" =>
          /\ c.failed => c.decision = "DENY"
          /\ ~c.failed /\ c.writes = 0 /\ ~c.excused => (c.decision = "PERMIT" <=> ShouldPermit(c))

\* System roles are what an installation recovers with: no step deletes one, makes it an
\* ordinary role or takes a permission from it, except the write of a call that decided on
\* a version of the role that another call has changed since.
SystemRolesStand ==
    [][\A r \in RoleIds :
         roles[r].system =>
           \/ roles'[r].system /\ roles[r].keys \subseteq roles'[r].keys
           \/ \E p \in Procs : /\ "clean" \in DOMAIN op[p] /\ op'[p] # op[p]
                             /\ op[p].role = r /\ ~op[p].clean]_vars

\* The dry run that gates a change exits 0 only if there was something to check and every
\* fixture names the effect that a version of the policy current during the run gives it.
GreenMeansGreen ==
    \A p \in Procs :
      LET c == op[p]
          versions == IF c.policy = "none" THEN {c.draft}
                      ELSE {policies[c.policy][v].rules :
                              v \in {n \in DOMAIN policies[c.policy] : n >= c.from}}
          Gives(rules, x, effect) ==
            LET effects == {r.effect : r \in {s \in ToSet(rules) : EvaluateCondition(s.condition, x)}} IN
              CASE effect = "DENY"   -> "DENY" \in effects
                [] effect = "PERMIT" -> effects = {"PERMIT"}
                [] OTHER             -> effects = {}
      IN c.pc = "exited" /\ c.exit = 0 =>
           /\ c.fixtures # <<>>
           /\ \A i \in DOMAIN c.fixtures : \E rules \in versions :
                Gives(rules, c.fixtures[i].context, c.fixtures[i].expected)
=============================================================================
