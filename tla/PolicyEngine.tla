----------------------------- MODULE PolicyEngine ----------------------------
(***************************************************************************)
(* Attribute policies: the condition tree and its evaluation, the rules of *)
(* a policy combined into one effect, and the composition with the answer  *)
(* of the role layer.  A context maps attributes to values; Missing is an  *)
(* attribute that no provider supplied.                                    *)
(***************************************************************************)
EXTENDS Integers, Sequences, FiniteSets, SequencesExt

CONSTANT Conditions  \* condition trees, with all their parts

Missing == <<"missing">>

Always             == [kind |-> "always"]
Comparison(a, o, v) == [kind |-> "comparison", attribute |-> a, operator |-> o, value |-> v]
And(cs)            == [kind |-> "and", operands |-> cs]
Or(cs)             == [kind |-> "or", operands |-> cs]
Not(c)             == [kind |-> "not", operand |-> c]
Rule(e, c)         == [effect |-> e, condition |-> c]

Effects == {"PERMIT", "DENY"}
Rules   == Seq([effect : Effects, condition : Conditions])

ASSUME ConditionsAssumption ==
    \A c \in Conditions :
        /\ c.kind \in {"and", "or"} => \A i \in DOMAIN c.operands : c.operands[i] \in Conditions
        /\ c.kind = "not" => c.operand \in Conditions

\* A value is <<type, content>>: the content of a date is an instant, and a string that a
\* date is compared with stands for the instant it parses to; the content of a list is a set.
SameValue(actual, value) ==
    /\ {actual[1], value[1]} = IF actual[1] = "date" THEN {"date", "string"} ELSE {actual[1]}
    /\ actual[1] # "list"
    /\ actual[2] = value[2]

EvaluateComparison(c, context) ==
    LET actual == context[c.attribute] IN
      /\ actual # Missing
      /\ CASE c.operator = "eq"  -> SameValue(actual, c.value)
           [] c.operator = "neq" -> ~SameValue(actual, c.value)
           [] c.operator \in {"lt", "lte", "gt", "gte"} ->
                /\ actual[1] \in {"number", "date"} /\ c.value[1] = "number"
                /\ CASE c.operator = "lt"  -> actual[2] < c.value[2]
                     [] c.operator = "lte" -> actual[2] <= c.value[2]
                     [] c.operator = "gt"  -> actual[2] > c.value[2]
                     [] OTHER              -> actual[2] >= c.value[2]
           [] c.operator = "in"       -> c.value[1] = "list" /\ actual[1] # "list" /\ actual \in c.value[2]
           [] c.operator = "contains" -> actual[1] = "list" /\ c.value[1] # "list" /\ c.value \in actual[2]

EvaluateCondition(condition, context) ==
    LET holds[c \in Conditions] ==
          CASE c.kind = "always"     -> TRUE
            [] c.kind = "comparison" -> EvaluateComparison(c, context)
            [] c.kind = "and"        -> \A i \in DOMAIN c.operands : holds[c.operands[i]]
            [] c.kind = "or"         -> \E i \in DOMAIN c.operands : holds[c.operands[i]]
            [] c.kind = "not"        -> ~holds[c.operand]
    IN holds[condition]

DeriveRuleOutcomes(rules, context) ==
    [i \in DOMAIN rules |-> IF EvaluateCondition(rules[i].condition, context) THEN rules[i].effect
                            ELSE "NOT_APPLICABLE"]

-----------------------------------------------------------------------------
(* Combining algorithms                                                    *)

DenyOverrides(outcomes) ==
    IF Contains(outcomes, "DENY") THEN "DENY"
    ELSE IF Contains(outcomes, "PERMIT") THEN "PERMIT" ELSE "NOT_APPLICABLE"

PermitOverrides(outcomes) ==
    IF Contains(outcomes, "PERMIT") THEN "PERMIT"
    ELSE IF Contains(outcomes, "DENY") THEN "DENY" ELSE "NOT_APPLICABLE"

FirstApplicable(outcomes) ==
    LET applicable == SelectSeq(outcomes, LAMBDA e : e # "NOT_APPLICABLE") IN
      IF applicable = <<>> THEN "NOT_APPLICABLE" ELSE Head(applicable)

\* AuthorizationService.authorize, once both layers have answered.  The precedence it
\* runs under is the only one the constructor accepts.
DefaultEffectWhenNoPolicyMatches == "DENY"

Compose(roleDecision, effect) ==
    IF roleDecision = "deny" THEN "DENY"
    ELSE IF effect # "NOT_APPLICABLE" THEN effect
    ELSE IF roleDecision = "grant" THEN "PERMIT" ELSE DefaultEffectWhenNoPolicyMatches
=============================================================================
