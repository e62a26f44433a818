----------------------------- MODULE PolicyLinter -----------------------------
(***************************************************************************)
(* The linter of a policy set: which pairs of rules can apply to one       *)
(* context with different effects, and which rule hides a later one.       *)
(***************************************************************************)
EXTENDS PolicyEngine

Unanalyzed == {[kind |-> "unanalyzed"]}

\* The comparisons a condition is the conjunction of, or Unanalyzed.
RECURSIVE ExtractConstraints(_)
ExtractConstraints(c) ==
    CASE c.kind = "comparison" /\ c.operator \in {"eq", "neq"} -> {c}
      [] c.kind = "and" ->
           LET parts == {ExtractConstraints(c.operands[i]) : i \in DOMAIN c.operands} IN
             IF Unanalyzed \in parts THEN Unanalyzed ELSE UNION parts
      [] OTHER -> Unanalyzed

Implies(broader, narrower) == broader \subseteq narrower

Incompatible(l, r) ==
    /\ l.attribute = r.attribute
    /\ \/ l.operator = "eq" /\ r.operator = "eq" /\ l.value # r.value
       \/ l.operator # r.operator /\ l.value = r.value

Overlaps(a, b) == ~\E l \in a, r \in b : Incompatible(l, r)

Constraints(rules, i) == ExtractConstraints(rules[i].condition)

Pairs(rules) == {ij \in (DOMAIN rules) \X (DOMAIN rules) : ij[1] < ij[2]}

AnalyzedPairs(rules) == {ij \in Pairs(rules) : /\ Constraints(rules, ij[1]) # Unanalyzed
                                               /\ Constraints(rules, ij[2]) # Unanalyzed}

Conflicts(rules) ==
    {ij \in AnalyzedPairs(rules) :
        /\ rules[ij[1]].effect # rules[ij[2]].effect
        /\ Overlaps(Constraints(rules, ij[1]), Constraints(rules, ij[2]))}

Shadows(rules) ==
    {ij \in AnalyzedPairs(rules) :
        Implies(Constraints(rules, ij[1]), Constraints(rules, ij[2]))}
=============================================================================
