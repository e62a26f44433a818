----------------------------- MODULE PolicyCache -----------------------------
(***************************************************************************)
(* The append-only table of policy versions and the cache in front of it.  *)
(* An entry's key holds the generations that were current when it was      *)
(* written, so that raising a generation makes it unreachable.             *)
(***************************************************************************)
EXTENDS PolicyEngine

CONSTANTS PolicyIds, Resources,
          Target,      \* the resource type each policy is about
          MaxVersions

ASSUME PolicyAssumption ==
    MaxVersions \in Nat /\ IsFiniteSet(PolicyIds) /\ Target \in [PolicyIds -> Resources]

VARIABLES policies,    \* by id: the versions saved, each with its rules and status
          globalGeneration,
          generations, \* by resource type
          entries      \* cached values, with the generations in their key

policyTables == <<policies, globalGeneration, generations, entries>>

Version(rules, status) == [rules |-> rules, status |-> status]

\* PolicyRepository.save inserts the version unless one with its number is there.
SaveVersion(id, number, v) ==
    policies' = [policies EXCEPT ![id] = IF number <= Len(@) THEN @ ELSE Append(@, v)]

\* findApplicableTo: for each policy about the resource, its latest version, unless that
\* is not published.
LatestFor(rt) ==
    [id \in {i \in PolicyIds : /\ Target[i] = rt /\ policies[i] # <<>>
                               /\ Last(policies[i]).status = "published"} |-> Len(policies[id])]

RulesOf(snapshot) == UNION {ToSet(policies[id][snapshot[id]].rules) : id \in DOMAIN snapshot}

\* What a decision point concludes from the applicable policies.
Evaluate(snapshot, context) ==
    DenyOverrides(DeriveRuleOutcomes(SetToSeq(RulesOf(snapshot)), context))

-----------------------------------------------------------------------------
Generation(rt) == <<globalGeneration, generations[rt]>>

Reachable(rt) == {e \in entries : e.rt = rt /\ e.generation = Generation(rt)}

\* The generations are read when the value is stored, not when it was loaded.
Set(rt, value, late) ==
    entries' = (entries \ Reachable(rt)) \union
               {[rt |-> rt, generation |-> Generation(rt), value |-> value, late |-> late]}

Invalidate(rt) ==
    /\ entries' = entries \ Reachable(rt)
    /\ UNCHANGED <<policies, globalGeneration, generations>>

\* Mutant of InvalidateResourceType: the generation of the resource type is not raised.
RaisesNothing(rt) == UNCHANGED policyTables

InvalidateResourceType(rt) ==
    /\ generations' = [generations EXCEPT ![rt] = @ + 1]
    /\ UNCHANGED <<policies, globalGeneration, entries>>

InvalidateAll ==
    /\ globalGeneration' = globalGeneration + 1
    /\ UNCHANGED <<policies, generations, entries>>

\* The time to live of entries has passed.
Expire(es) ==
    /\ entries' = entries \ es
    /\ UNCHANGED <<policies, globalGeneration, generations>>

\* The versions published so far, with the latest of them in the cache.
PolicyInit(history) ==
    /\ policies = history
    /\ globalGeneration = 0
    /\ generations = [rt \in Resources |-> 0]
    /\ entries = {[rt |-> rt, generation |-> <<0, 0>>, value |-> LatestFor(rt), late |-> FALSE] :
                    rt \in Resources}
=============================================================================
