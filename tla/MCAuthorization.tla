--------------------------- MODULE MCAuthorization ---------------------------
EXTENDS Authorization, PolicyLinter

Symmetry == Permutations(Procs)

MCKeys == {<<"roles", "write">>, <<"docs", "read">>, <<"docs", "*">>, <<"*", "*">>}
MCActionKey == <<"docs", "read">>
MCSeedRoles == ("super-admin" :> {<<"*", "*">>})
MCTarget == [id \in PolicyIds |-> "docs"]
MCDemands == {[mode |-> "all", keys |-> {<<"docs", "read">>}],
              [mode |-> "any", keys |-> {<<"docs", "read">>, <<"roles", "write">>}]}

Level(n) == [clearance |-> <<"number", n>>]
MCContexts == {Level(1), [clearance |-> Missing]}

Low == Comparison("clearance", "lt", <<"number", 2>>)
MCRuleSets == {<<Rule("PERMIT", Always), Rule("DENY", Low)>>,
               <<Rule("PERMIT", And(<<Not(Low), Comparison("clearance", "neq", <<"number", 3>>)>>))>>}
MCOldRules == {<<Rule("PERMIT", Always), Rule("DENY", Low)>>}

Fixture(name, expected, context) == [name |-> name, expected |-> expected, context |-> context]
File(source, fixtures) ==
    [shape |-> "good", source |-> source, draft |-> <<Rule("DENY", Low)>>, fixtures |-> fixtures]
MCFiles == {File("stored", <<Fixture("a", "DENY", Level(1)), Fixture("b", "PERMIT", [clearance |-> Missing])>>),
            File("draft", <<Fixture("a", "DENY", Level(1)), Fixture("b", "NOT_APPLICABLE", Level(2))>>),
            File("stored", <<>>), [File("draft", <<>>) EXCEPT !.shape = "unreadable"]}

\* The linter against its meaning, on every list of two rules over one attribute: without a
\* conflict among analyzed rules the three combining algorithms agree on every context, and a
\* rule that is shadowed never decides under first-applicable.
Values == {<<"number", 1>>, <<"number", 2>>}
Leaves == {Comparison("clearance", o, v) : o \in {"eq", "neq"}, v \in Values}
LintedRules == {Rule(e, c) : e \in {"PERMIT", "DENY"},
                             c \in Leaves \union {And(<<a, b>>) : a, b \in Leaves} \union {Always, Not(Low)}}
MCConditions == {Always, Low, Not(Low), Comparison("clearance", "neq", <<"number", 3>>),
                 And(<<Not(Low), Comparison("clearance", "neq", <<"number", 3>>)>>)}
                \union Leaves \union {And(<<a, b>>) : a, b \in Leaves}
LintedContexts == {[clearance |-> v] : v \in Values \union {<<"number", 3>>, Missing}}

ASSUME LinterIsSound ==
    \A r1, r2 \in LintedRules, x \in LintedContexts :
      LET rules == <<r1, r2>>
          outcomes == DeriveRuleOutcomes(rules, x)
      IN /\ AnalyzedPairs(rules) # {} /\ Conflicts(rules) = {} =>
              Cardinality({DenyOverrides(outcomes), PermitOverrides(outcomes), FirstApplicable(outcomes)}) = 1
         /\ Shadows(rules) # {} /\ outcomes[2] # "NOT_APPLICABLE" => FirstApplicable(outcomes) = outcomes[1]
=============================================================================
