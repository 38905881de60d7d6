---------------------------- MODULE ReviewDomain ----------------------------
(***************************************************************************)
(* Rules, evidence, findings, the completed Review and the comparison of   *)
(* two Reviews: the pure operators of rules.py, evidence.py and domain.py. *)
(* An observation's position in its Review is its identity.  Digests,      *)
(* times and narratives are left out.                                      *)
(***************************************************************************)
EXTENDS Integers, FiniteSets, Sequences

Decisive == {"PASS", "FAIL"}
Unknown == {"NOT_APPLICABLE", "INCONCLUSIVE", "ERROR"}

Weight == [INFO |-> 0, LOW |-> 2, MEDIUM |-> 7, HIGH |-> 15, CRITICAL |-> 30]

-----------------------------------------------------------------------------
(* Evidence admission. *)

\* A registered collector may hand in these kinds, about the Review's target.
Admissible(observation, kinds, target) ==
    observation.kind \in kinds /\ observation.subject = target

\* The positions that are admitted; one refusal refuses the whole Review.
Evidence(observations, kinds, target) ==
    {n \in DOMAIN observations : Admissible(observations[n], kinds, target)}

-----------------------------------------------------------------------------
(* Rule evaluation. *)

\* A rule's scheme is {} when it applies to any.
Applies(rule, scheme) == rule.scheme = {} \/ scheme \in rule.scheme

Matches(rule, observations) ==
    {n \in DOMAIN observations :
        observations[n].kind = rule.kind /\ observations[n].key = rule.key}

\* The value says whether the thing is present, or is something else.
WellFormed(observation) == "present" \in DOMAIN observation.value

Holds(rule, observation) == observation.value.present = rule.expected

\* Mutant: the last of several observations decides.
OutcomeByLast(rule, scheme, observations) ==
    LET found == Matches(rule, observations)
        last == CHOOSE n \in found : \A k \in found : k <= n
    IN  CASE ~Applies(rule, scheme) -> "NOT_APPLICABLE"
          [] Applies(rule, scheme) /\ found = {} -> "INCONCLUSIVE"
          [] OTHER -> IF ~WellFormed(observations[last]) THEN "ERROR"
                      ELSE IF Holds(rule, observations[last]) THEN "PASS" ELSE "FAIL"

\* Only one well-formed observation decides.
Outcome(rule, scheme, observations) ==
    LET found == Matches(rule, observations)
        it == observations[CHOOSE n \in found : TRUE]
    IN  CASE ~Applies(rule, scheme) -> "NOT_APPLICABLE"
          [] Applies(rule, scheme) /\ found = {} -> "INCONCLUSIVE"
          [] Applies(rule, scheme) /\ Cardinality(found) > 1 -> "ERROR"
          [] OTHER -> IF ~WellFormed(it) THEN "ERROR"
                      ELSE IF Holds(rule, it) THEN "PASS" ELSE "FAIL"

\* Only a decisive evaluation names its evidence.
Evaluation(rule, scheme, observations) ==
    LET outcome == Outcome(rule, scheme, observations) IN
    [rule |-> rule.id, version |-> rule.version, outcome |-> outcome,
     evidence |-> IF outcome \in Decisive THEN Matches(rule, observations) ELSE {}]

Evaluations(rules, scheme, observations) ==
    {Evaluation(rule, scheme, observations) : rule \in rules}

Finding(rule, scheme, observations) ==
    [rule |-> rule.id, version |-> rule.version, severity |-> rule.severity,
     evidence |-> Evaluation(rule, scheme, observations).evidence]

\* Mutant: whatever is not a pass is a finding.
FindingsUnlessPassed(rules, scheme, observations) ==
    {Finding(rule, scheme, observations) :
        rule \in {r \in rules : Outcome(r, scheme, observations) # "PASS"}}

Findings(rules, scheme, observations) ==
    {Finding(rule, scheme, observations) :
        rule \in {r \in rules : Outcome(r, scheme, observations) = "FAIL"}}

-----------------------------------------------------------------------------
(* The completed Review. *)

\* The sum of the findings' weights, severity by severity.
Risk(findings) ==
    LET Weighed(severity) ==
            Weight[severity] * Cardinality({f \in findings : f.severity = severity})
    IN  Weighed("INFO") + Weighed("LOW") + Weighed("MEDIUM") + Weighed("HIGH")
        + Weighed("CRITICAL")

\* Mutant: the score is not clamped.
ScoreUnclamped(findings) == 100 - Risk(findings)

Score(findings) == IF Risk(findings) > 100 THEN 0 ELSE 100 - Risk(findings)

\* What RuleEngine and CompletedReview make of a collection.
Review(target, rules, scheme, observations, kinds) ==
    [target |-> target,
     observations |-> observations,
     evidence |-> Evidence(observations, kinds, target),
     evaluations |-> Evaluations(rules, scheme, observations),
     findings |-> Findings(rules, scheme, observations),
     score |-> Score(Findings(rules, scheme, observations))]

\* The constructors' checks: evidence is of this Review's observations and
\* subject, decisive evaluations and findings name admitted evidence, and a
\* finding is of one failed evaluation with the same rule and evidence.
Accepted(review) ==
    /\ \A n \in review.evidence :
        n \in DOMAIN review.observations
        /\ review.observations[n].subject = review.target
    /\ \A e \in review.evaluations :
        /\ e.evidence \subseteq review.evidence
        /\ e.outcome = "FAIL" => e.evidence # {}
        /\ e.outcome \in Unknown => e.evidence = {}
    /\ \A f \in review.findings :
        /\ f.evidence # {}
        /\ f.evidence \subseteq review.evidence
        /\ \E e \in review.evaluations :
            /\ e.outcome = "FAIL"
            /\ e.rule = f.rule /\ e.version = f.version
            /\ e.evidence = f.evidence

-----------------------------------------------------------------------------
(* The comparison of two Reviews. *)

RulesOf(review) == {e.rule : e \in review.evaluations}
EvaluationOf(review, rule) == CHOOSE e \in review.evaluations : e.rule = rule

\* A comparison is refused across targets, or where a rule was evaluated twice.
Comparable(previous, current) ==
    /\ previous.target = current.target
    /\ \A review \in {previous, current} :
        Cardinality(review.evaluations) = Cardinality(RulesOf(review))
    /\ RulesOf(previous) \cup RulesOf(current) # {}

\* Mutant: an outcome that is not a failure any more counts as resolved.
ChangeToResolved(old, new) ==
    CASE old.version # new.version -> "COVERAGE_CHANGED"
      [] old.version = new.version ->
         IF old.outcome = "FAIL" /\ new.outcome # "FAIL" THEN "RESOLVED"
         ELSE IF old.outcome = "NOT_APPLICABLE" /\ new.outcome = "FAIL" THEN "NEW"
         ELSE IF old.outcome \in Unknown \/ new.outcome \in Unknown THEN "COVERAGE_CHANGED"
         ELSE IF old.outcome = new.outcome THEN "UNCHANGED" ELSE "REGRESSED"

\* Mutant: a rule's new version is compared with its old one.
ChangeAcrossVersions(old, new) ==
    IF old.outcome = "NOT_APPLICABLE" /\ new.outcome = "FAIL" THEN "NEW"
    ELSE IF old.outcome \in Unknown \/ new.outcome \in Unknown THEN "COVERAGE_CHANGED"
    ELSE IF old.outcome = new.outcome THEN "UNCHANGED"
    ELSE IF new.outcome = "PASS" THEN "RESOLVED" ELSE "REGRESSED"

\* What the comparison says of a rule both Reviews evaluated.
Change(old, new) ==
    CASE old.version # new.version -> "COVERAGE_CHANGED"
      [] old.version = new.version ->
         IF old.outcome = "NOT_APPLICABLE" /\ new.outcome = "FAIL" THEN "NEW"
         ELSE IF old.outcome \in Unknown \/ new.outcome \in Unknown THEN "COVERAGE_CHANGED"
         ELSE IF old.outcome = new.outcome THEN "UNCHANGED"
         ELSE IF new.outcome = "PASS" THEN "RESOLVED" ELSE "REGRESSED"

\* A rule only one of them evaluated is a coverage change.
Diff(previous, current) ==
    [rule \in RulesOf(previous) \cup RulesOf(current) |->
        IF rule \in RulesOf(previous) \cap RulesOf(current)
        THEN Change(EvaluationOf(previous, rule), EvaluationOf(current, rule))
        ELSE "COVERAGE_CHANGED"]

=============================================================================
