------------------------ MODULE ReviewDomain_proofs -------------------------
(* Lemmas about the rule engine, for any rules and any observations. *)
EXTENDS ReviewDomain, FiniteSetTheorems, TLAPS

-----------------------------------------------------------------------------
(* What the rule engine returns. *)

\* A PASS or a FAIL has exactly one match, and it is well formed.
LEMMA OutcomeDecides ==
    ASSUME NEW rule, NEW scheme, NEW observations, IsFiniteSet(DOMAIN observations),
           Outcome(rule, scheme, observations) \in Decisive
    PROVE  \E n \in DOMAIN observations : /\ Matches(rule, observations) = {n}
                                          /\ WellFormed(observations[n])
                                          /\ Outcome(rule, scheme, observations) = "PASS"
                                                <=> Holds(rule, observations[n])
<1> DEFINE found == Matches(rule, observations)
           it == CHOOSE n \in found : TRUE
<1>1. found \subseteq DOMAIN observations /\ IsFiniteSet(found)
  <2>1. found \subseteq DOMAIN observations
    BY DEF Matches
  <2> QED
    BY <2>1, FS_Subset
<1>2. Applies(rule, scheme)
  BY DEF Outcome, Decisive
<1>3. found # {}
  BY <1>2 DEF Outcome, Decisive
<1>4. ~(Cardinality(found) > 1)
  BY <1>2, <1>3 DEF Outcome, Decisive
<1>5. /\ WellFormed(observations[it])
      /\ Outcome(rule, scheme, observations) = "PASS" <=> Holds(rule, observations[it])
  BY <1>2, <1>3, <1>4 DEF Outcome, Decisive
<1>6. Cardinality(found) \in Nat /\ Cardinality(found) # 0
  BY <1>1, <1>3, FS_CardinalityType, FS_EmptySet
<1>7. Cardinality(found) = 1
  BY <1>4, <1>6
<1>8. PICK n : found = {n}
  BY <1>1, <1>7, FS_Singleton
<1>9. it = n
  BY <1>8
<1> QED
  BY <1>1, <1>5, <1>8, <1>9

\* An evaluation names all that its rule matched, or nothing.
LEMMA EvaluationNames ==
    ASSUME NEW rule, NEW scheme, NEW observations, IsFiniteSet(DOMAIN observations),
           NEW e, e = Evaluation(rule, scheme, observations)
    PROVE  /\ e.evidence \subseteq DOMAIN observations
           /\ e.outcome = Outcome(rule, scheme, observations)
           /\ e.rule = rule.id /\ e.version = rule.version
           /\ e.outcome \in Decisive => e.evidence = Matches(rule, observations)
           /\ e.outcome \notin Decisive => e.evidence = {}
BY DEF Evaluation, Matches

\* The constructors accept what the engine makes of admitted observations.
LEMMA ReviewIsAccepted ==
    ASSUME NEW target, NEW rules, NEW scheme, NEW observations, NEW kinds,
           IsFiniteSet(DOMAIN observations),
           Evidence(observations, kinds, target) = DOMAIN observations
    PROVE  Accepted(Review(target, rules, scheme, observations, kinds))
<1> DEFINE review == Review(target, rules, scheme, observations, kinds)
<1>1. /\ review.target = target /\ review.observations = observations
      /\ review.evidence = DOMAIN observations
      /\ review.evaluations = Evaluations(rules, scheme, observations)
      /\ review.findings = Findings(rules, scheme, observations)
  BY DEF Review
<1> HIDE DEF review
<1>2. \A n \in review.evidence : /\ n \in DOMAIN review.observations
                                 /\ review.observations[n].subject = review.target
  BY <1>1 DEF Evidence, Admissible
<1>3. ASSUME NEW e \in review.evaluations
      PROVE  /\ e.evidence \subseteq review.evidence
             /\ e.outcome = "FAIL" => e.evidence # {}
             /\ e.outcome \in Unknown => e.evidence = {}
  <2>1. PICK rule \in rules : e = Evaluation(rule, scheme, observations)
    BY <1>1 DEF Evaluations
  <2>2. e.outcome = "FAIL" => e.evidence # {}
    BY <2>1, EvaluationNames, OutcomeDecides DEF Decisive
  <2>3. e.outcome \in Unknown => e.evidence = {}
    BY <2>1, EvaluationNames DEF Decisive, Unknown
  <2> QED
    BY <1>1, <2>1, <2>2, <2>3, EvaluationNames
<1>4. ASSUME NEW f \in review.findings
      PROVE  /\ f.evidence # {}
             /\ f.evidence \subseteq review.evidence
             /\ \E e \in review.evaluations :
                 /\ e.outcome = "FAIL"
                 /\ e.rule = f.rule /\ e.version = f.version
                 /\ e.evidence = f.evidence
  <2>1. PICK rule \in rules : /\ Outcome(rule, scheme, observations) = "FAIL"
                              /\ f = Finding(rule, scheme, observations)
    BY <1>1 DEF Findings
  <2> DEFINE e == Evaluation(rule, scheme, observations)
  <2>2. e \in review.evaluations
    BY <1>1 DEF Evaluations
  <2>3. f.rule = rule.id /\ f.version = rule.version /\ f.evidence = e.evidence
    BY <2>1 DEF Finding
  <2> HIDE DEF e
  <2>4. e.outcome = "FAIL" /\ e.rule = rule.id /\ e.version = rule.version
    BY <2>1, EvaluationNames DEF e
  <2> QED
    BY <1>3, <2>2, <2>3, <2>4
<1> QED
  BY <1>2, <1>3, <1>4 DEF Accepted, review

-----------------------------------------------------------------------------
(* The risk of a set of findings, or of the rules they are of. *)

Severities == {"INFO", "LOW", "MEDIUM", "HIGH", "CRITICAL"}

OfSeverity(findings, severity) == {f \in findings : f.severity = severity}

\* The risk is linear in what there is of each severity.
LEMMA RiskCounts ==
    ASSUME NEW findings, IsFiniteSet(findings)
    PROVE  LET N(severity) == Cardinality(OfSeverity(findings, severity)) IN
           /\ \A severity \in Severities :
                IsFiniteSet(OfSeverity(findings, severity)) /\ N(severity) \in Nat
           /\ Risk(findings)
                = 2 * N("LOW") + 7 * N("MEDIUM") + 15 * N("HIGH") + 30 * N("CRITICAL")
<1> DEFINE N(severity) == Cardinality(OfSeverity(findings, severity))
<1>1. \A severity \in Severities :
        IsFiniteSet(OfSeverity(findings, severity)) /\ N(severity) \in Nat
  <2> SUFFICES ASSUME NEW severity \in Severities
               PROVE  IsFiniteSet(OfSeverity(findings, severity)) /\ N(severity) \in Nat
    OBVIOUS
  <2>1. OfSeverity(findings, severity) \in SUBSET findings
    BY DEF OfSeverity
  <2> QED
    BY <2>1, FS_Subset, FS_CardinalityType
<1>2. /\ Weight["INFO"] = 0 /\ Weight["LOW"] = 2 /\ Weight["MEDIUM"] = 7
      /\ Weight["HIGH"] = 15 /\ Weight["CRITICAL"] = 30
  BY DEF Weight
<1>3. Risk(findings)
        = 0 * N("INFO") + 2 * N("LOW") + 7 * N("MEDIUM") + 15 * N("HIGH") + 30 * N("CRITICAL")
  BY <1>2 DEF Risk, OfSeverity
<1>4. /\ N("INFO") \in Nat /\ N("LOW") \in Nat /\ N("MEDIUM") \in Nat
      /\ N("HIGH") \in Nat /\ N("CRITICAL") \in Nat
  BY <1>1 DEF Severities
<1> HIDE DEF N
<1>5. Risk(findings) = 2 * N("LOW") + 7 * N("MEDIUM") + 15 * N("HIGH") + 30 * N("CRITICAL")
  BY <1>3, <1>4
<1> QED
  BY <1>1, <1>5 DEF N

LEMMA RiskIsNatural ==
    ASSUME NEW findings, IsFiniteSet(findings)
    PROVE  Risk(findings) \in Nat
<1> DEFINE N(severity) == Cardinality(OfSeverity(findings, severity))
<1>1. /\ N("LOW") \in Nat /\ N("MEDIUM") \in Nat /\ N("HIGH") \in Nat /\ N("CRITICAL") \in Nat
      /\ Risk(findings) = 2 * N("LOW") + 7 * N("MEDIUM") + 15 * N("HIGH") + 30 * N("CRITICAL")
  BY RiskCounts DEF Severities
<1> HIDE DEF N
<1> QED
  BY <1>1

\* No findings, no risk.
LEMMA NoRisk == Risk({}) = 0
<1>1. \A severity : Cardinality(OfSeverity({}, severity)) = 0
  <2>1. \A severity : OfSeverity({}, severity) = {}
    BY DEF OfSeverity
  <2> QED
    BY <2>1, FS_EmptySet
<1>2. IsFiniteSet({})
  BY FS_EmptySet
<1> QED
  BY <1>1, <1>2, RiskCounts

\* Fewer findings are less risk.
LEMMA RiskGrows ==
    ASSUME NEW findings, IsFiniteSet(findings), NEW fewer, fewer \subseteq findings
    PROVE  IsFiniteSet(fewer) /\ Risk(fewer) <= Risk(findings)
<1> DEFINE N(severity) == Cardinality(OfSeverity(findings, severity))
           M(severity) == Cardinality(OfSeverity(fewer, severity))
<1>1. IsFiniteSet(fewer)
  BY FS_Subset
<1>2. \A severity \in Severities : M(severity) <= N(severity)
  <2> SUFFICES ASSUME NEW severity \in Severities
               PROVE  M(severity) <= N(severity)
    OBVIOUS
  <2>1. OfSeverity(fewer, severity) \in SUBSET OfSeverity(findings, severity)
    BY DEF OfSeverity
  <2>2. IsFiniteSet(OfSeverity(findings, severity))
    BY RiskCounts
  <2> QED
    BY <2>1, <2>2, FS_Subset
<1>3. /\ N("LOW") \in Nat /\ N("MEDIUM") \in Nat /\ N("HIGH") \in Nat /\ N("CRITICAL") \in Nat
      /\ Risk(findings) = 2 * N("LOW") + 7 * N("MEDIUM") + 15 * N("HIGH") + 30 * N("CRITICAL")
  BY RiskCounts DEF Severities
<1>4. /\ M("LOW") \in Nat /\ M("MEDIUM") \in Nat /\ M("HIGH") \in Nat /\ M("CRITICAL") \in Nat
      /\ Risk(fewer) = 2 * M("LOW") + 7 * M("MEDIUM") + 15 * M("HIGH") + 30 * M("CRITICAL")
  BY <1>1, RiskCounts DEF Severities
<1>5. /\ M("LOW") <= N("LOW") /\ M("MEDIUM") <= N("MEDIUM")
      /\ M("HIGH") <= N("HIGH") /\ M("CRITICAL") <= N("CRITICAL")
  BY <1>2 DEF Severities
<1> HIDE DEF N, M
<1> QED
  BY <1>1, <1>3, <1>4, <1>5

LEMMA ScoreIsAPercentage ==
    ASSUME NEW findings, IsFiniteSet(findings)
    PROVE  Score(findings) \in 0..100
BY RiskIsNatural DEF Score

LEMMA ScoreFalls ==
    ASSUME NEW findings, IsFiniteSet(findings), NEW fewer, IsFiniteSet(fewer),
           Risk(fewer) <= Risk(findings)
    PROVE  Score(fewer) >= Score(findings)
BY RiskIsNatural DEF Score

-----------------------------------------------------------------------------
(* The findings of a Review, and the rules that failed. *)

OneRuleEach(rules) == \A r, s \in rules : r.id = s.id => r = s

Failing(rules, scheme, observations) ==
    {r \in rules : Outcome(r, scheme, observations) = "FAIL"}

FindingsOf(Q, scheme, observations) == {Finding(r, scheme, observations) : r \in Q}

\* Of the rules with these ids.
Among(ids, found) == {f \in found : f.rule \in ids}
Failed(ids, rules) == {r \in rules : r.id \in ids}

\* Each failed rule has one finding, of its id and severity.
LEMMA FindingOfEach ==
    ASSUME NEW rules, IsFiniteSet(rules), OneRuleEach(rules), NEW scheme, NEW observations,
           NEW Q \in SUBSET Failing(rules, scheme, observations)
    PROVE  LET found == FindingsOf(Q, scheme, observations) IN
           IsFiniteSet(found) /\ IsFiniteSet(Q) /\ Cardinality(found) = Cardinality(Q)
<1> DEFINE found == {Finding(r, scheme, observations) : r \in Q}
           of == [r \in Q |-> Finding(r, scheme, observations)]
<1>1. Q \in SUBSET rules
  BY DEF Failing
<1>2. IsFiniteSet(Q)
  BY <1>1, FS_Subset
<1>3. \A r \in Q : Finding(r, scheme, observations).rule = r.id
  BY DEF Finding
<1>4. \A r, s \in Q : of[r] = of[s] => r = s
  BY <1>1, <1>3 DEF OneRuleEach
<1>5. of \in Bijection(Q, found)
  BY <1>4 DEF Bijection, Injection, Surjection, IsInjective
<1>6. ExistsBijection(Q, found)
  BY <1>5 DEF ExistsBijection
<1>7. IsFiniteSet(found) /\ Cardinality(found) = Cardinality(Q)
  BY <1>2, <1>6, FS_Bijection
<1> QED
  BY <1>2, <1>7 DEF FindingsOf

\* The findings are those of the rules that failed.
LEMMA FindingsAreOfFailing ==
    ASSUME NEW rules, NEW scheme, NEW observations, NEW ids
    PROVE  Among(ids, Findings(rules, scheme, observations))
             = FindingsOf(Failed(ids, Failing(rules, scheme, observations)), scheme, observations)
<1> DEFINE found == Among(ids, Findings(rules, scheme, observations))
           failed == Failed(ids, Failing(rules, scheme, observations))
<1>1. \A r : Finding(r, scheme, observations).rule = r.id
  BY DEF Finding
<1>2. ASSUME NEW f \in found
      PROVE  \E r \in failed : f = Finding(r, scheme, observations)
  <2>1. PICK r \in rules : /\ Outcome(r, scheme, observations) = "FAIL"
                           /\ f = Finding(r, scheme, observations)
    BY <1>2 DEF Findings, Among
  <2>2. f.rule \in ids
    BY <1>2 DEF Among
  <2>3. r \in failed
    BY <1>1, <2>1, <2>2 DEF Failing, Failed
  <2> QED
    BY <2>1, <2>3
<1>3. ASSUME NEW r \in failed
      PROVE  Finding(r, scheme, observations) \in found
  <2>1. r \in rules /\ Outcome(r, scheme, observations) = "FAIL" /\ r.id \in ids
    BY <1>3 DEF Failing, Failed
  <2>2. Finding(r, scheme, observations) \in Findings(rules, scheme, observations)
    BY <2>1 DEF Findings
  <2> QED
    BY <1>1, <2>1, <2>2 DEF Among
<1> HIDE DEF found, failed
<1>4. found = FindingsOf(failed, scheme, observations)
  BY <1>2, <1>3 DEF FindingsOf
<1> QED
  BY <1>4 DEF found, failed

\* The risk of the findings about some rules is the risk of those that failed.
LEMMA RiskOfRules ==
    ASSUME NEW rules, IsFiniteSet(rules), OneRuleEach(rules), NEW scheme, NEW observations,
           NEW ids
    PROVE  LET found == Among(ids, Findings(rules, scheme, observations))
               failed == Failed(ids, Failing(rules, scheme, observations))
           IN  IsFiniteSet(found) /\ IsFiniteSet(failed) /\ Risk(found) = Risk(failed)
<1> DEFINE found == Among(ids, Findings(rules, scheme, observations))
           failed == Failed(ids, Failing(rules, scheme, observations))
<1>1. \A r : Finding(r, scheme, observations).severity = r.severity
  BY DEF Finding
<1>2. found = FindingsOf(failed, scheme, observations)
  BY FindingsAreOfFailing
<1>3. failed \in SUBSET Failing(rules, scheme, observations)
  BY DEF Failed
<1> HIDE DEF found, failed
<1>4. IsFiniteSet(found) /\ IsFiniteSet(failed)
  BY <1>2, <1>3, FindingOfEach
<1>5. ASSUME NEW severity \in Severities
      PROVE  Cardinality(OfSeverity(found, severity)) = Cardinality(OfSeverity(failed, severity))
  <2>1. OfSeverity(found, severity)
          = FindingsOf(OfSeverity(failed, severity), scheme, observations)
    <3>1. \A r \in failed : Finding(r, scheme, observations) \in found
      BY <1>2 DEF FindingsOf
    <3>2. \A f \in found : \E r \in failed : f = Finding(r, scheme, observations)
      BY <1>2 DEF FindingsOf
    <3> QED
      BY <1>1, <3>1, <3>2 DEF OfSeverity, FindingsOf
  <2>2. OfSeverity(failed, severity) \in SUBSET Failing(rules, scheme, observations)
    BY <1>3 DEF OfSeverity
  <2> QED
    BY <2>1, <2>2, FindingOfEach
<1>6. Risk(found) = Risk(failed)
  BY <1>4, <1>5, RiskCounts DEF Severities
<1> QED
  BY <1>4, <1>6 DEF found, failed

LEMMA FindingsAreFinite ==
    ASSUME NEW rules, IsFiniteSet(rules), OneRuleEach(rules), NEW scheme, NEW observations
    PROVE  /\ IsFiniteSet(Findings(rules, scheme, observations))
           /\ IsFiniteSet(Failing(rules, scheme, observations))
           /\ Risk(Findings(rules, scheme, observations))
                = Risk(Failing(rules, scheme, observations))
<1> DEFINE ids == {r.id : r \in rules}
<1>1. Among(ids, Findings(rules, scheme, observations)) = Findings(rules, scheme, observations)
  <2>1. \A f \in Findings(rules, scheme, observations) : f.rule \in ids
    BY DEF Findings, Finding
  <2> HIDE DEF ids
  <2> QED
    BY <2>1 DEF Among
<1>2. Failed(ids, Failing(rules, scheme, observations)) = Failing(rules, scheme, observations)
  BY DEF Failing, Failed
<1> HIDE DEF ids
<1> QED
  BY <1>1, <1>2, RiskOfRules

-----------------------------------------------------------------------------
(* The comparison. *)

LEMMA OutcomeIsKnown ==
    ASSUME NEW rule, NEW scheme, NEW observations
    PROVE  Outcome(rule, scheme, observations) \in Decisive \cup Unknown
BY DEF Outcome, Decisive, Unknown

\* A Review evaluates each rule once, under its id.
LEMMA EvaluationsAreByRule ==
    ASSUME NEW target, NEW rules, OneRuleEach(rules), NEW scheme, NEW observations, NEW kinds,
           NEW review, review = Review(target, rules, scheme, observations, kinds)
    PROVE  /\ \A id : id \in RulesOf(review) <=> \E r \in rules : r.id = id
           /\ \A r \in rules : EvaluationOf(review, r.id) = Evaluation(r, scheme, observations)
<1>1. review.evaluations = Evaluations(rules, scheme, observations)
  BY DEF Review
<1>2. \A r : Evaluation(r, scheme, observations).rule = r.id
  BY DEF Evaluation
<1>3. \A id : id \in RulesOf(review) <=> \E r \in rules : r.id = id
  BY <1>1, <1>2 DEF RulesOf, Evaluations
<1>4. ASSUME NEW r \in rules
      PROVE  EvaluationOf(review, r.id) = Evaluation(r, scheme, observations)
  <2>1. Evaluation(r, scheme, observations) \in review.evaluations
    BY <1>1 DEF Evaluations
  <2>2. \A e \in review.evaluations : e.rule = r.id => e = Evaluation(r, scheme, observations)
    BY <1>1, <1>2 DEF Evaluations, OneRuleEach
  <2> QED
    BY <1>2, <2>1, <2>2 DEF EvaluationOf
<1> QED
  BY <1>3, <1>4

Changes == {"NEW", "COVERAGE_CHANGED", "UNCHANGED", "RESOLVED", "REGRESSED"}

\* What each word of the comparison says of two outcomes.
LEMMA ChangeSays ==
    ASSUME NEW old, NEW new, old.outcome \in Decisive \cup Unknown,
           new.outcome \in Decisive \cup Unknown
    PROVE  LET change == Change(old, new) IN
           /\ change \in Changes
           /\ change # "COVERAGE_CHANGED" => old.version = new.version
           /\ change = "NEW" => old.outcome = "NOT_APPLICABLE" /\ new.outcome = "FAIL"
           /\ change = "UNCHANGED" => old.outcome = new.outcome
           /\ change = "RESOLVED" => old.outcome = "FAIL" /\ new.outcome = "PASS"
           /\ change = "REGRESSED" => old.outcome = "PASS" /\ new.outcome = "FAIL"
<1>1. CASE old.version # new.version
  BY <1>1 DEF Change, Changes
<1>2. CASE old.version = new.version
  BY <1>2 DEF Change, Changes, Decisive, Unknown
<1> QED
  BY <1>1, <1>2

\* A word other than COVERAGE_CHANGED is about one rule of one version, which
\* both Reviews evaluated.
LEMMA DiffSays ==
    ASSUME NEW R, NEW S, OneRuleEach(R), OneRuleEach(S),
           \A r \in R, s \in S : r.id = s.id /\ r.version = s.version => r = s,
           NEW s1, NEW s2, NEW o1, NEW o2, NEW t1, NEW t2, NEW kinds,
           NEW previous, previous = Review(t1, R, s1, o1, kinds),
           NEW current, current = Review(t2, S, s2, o2, kinds),
           NEW id \in DOMAIN Diff(previous, current)
    PROVE  LET change == Diff(previous, current)[id] IN
           /\ change \in Changes
           /\ change # "COVERAGE_CHANGED" =>
                \E r \in R \cap S :
                    /\ r.id = id
                    /\ change = "NEW" => Outcome(r, s1, o1) = "NOT_APPLICABLE"
                    /\ change = "UNCHANGED" => Outcome(r, s1, o1) = Outcome(r, s2, o2)
                    /\ change = "RESOLVED" => Outcome(r, s2, o2) = "PASS"
                    /\ change = "REGRESSED" => Outcome(r, s1, o1) = "PASS"
<1> DEFINE change == Diff(previous, current)[id]
<1>1. id \in RulesOf(previous) \cup RulesOf(current)
  BY DEF Diff
<1>2. CASE id \in RulesOf(previous) \cap RulesOf(current)
  <2>1. PICK r \in R : r.id = id
    BY <1>2, EvaluationsAreByRule
  <2>2. PICK s \in S : s.id = id
    BY <1>2, EvaluationsAreByRule
  <2> DEFINE old == Evaluation(r, s1, o1)
             new == Evaluation(s, s2, o2)
  <2>3. EvaluationOf(previous, id) = old /\ EvaluationOf(current, id) = new
    <3>1. \A q \in R : EvaluationOf(previous, q.id) = Evaluation(q, s1, o1)
      BY EvaluationsAreByRule
    <3>2. \A q \in S : EvaluationOf(current, q.id) = Evaluation(q, s2, o2)
      BY EvaluationsAreByRule
    <3> QED
      BY <2>1, <2>2, <3>1, <3>2
  <2>4. /\ old.outcome = Outcome(r, s1, o1) /\ old.version = r.version
        /\ new.outcome = Outcome(s, s2, o2) /\ new.version = s.version
    BY DEF Evaluation
  <2>5. change = Change(old, new)
    BY <1>1, <1>2, <2>3 DEF Diff
  <2>6. old.outcome \in Decisive \cup Unknown /\ new.outcome \in Decisive \cup Unknown
    BY <2>4, OutcomeIsKnown
  <2> HIDE DEF old, new, change
  <2>7. /\ change \in Changes
        /\ change # "COVERAGE_CHANGED" => old.version = new.version
        /\ change = "NEW" => old.outcome = "NOT_APPLICABLE" /\ new.outcome = "FAIL"
        /\ change = "UNCHANGED" => old.outcome = new.outcome
        /\ change = "RESOLVED" => old.outcome = "FAIL" /\ new.outcome = "PASS"
        /\ change = "REGRESSED" => old.outcome = "PASS" /\ new.outcome = "FAIL"
    BY <2>5, <2>6, ChangeSays
  <2>8. change # "COVERAGE_CHANGED" => r = s
    BY <2>1, <2>2, <2>4, <2>7
  <2>9. change # "COVERAGE_CHANGED" =>
          \E q \in R \cap S :
              /\ q.id = id
              /\ change = "NEW" => Outcome(q, s1, o1) = "NOT_APPLICABLE"
              /\ change = "UNCHANGED" => Outcome(q, s1, o1) = Outcome(q, s2, o2)
              /\ change = "RESOLVED" => Outcome(q, s2, o2) = "PASS"
              /\ change = "REGRESSED" => Outcome(q, s1, o1) = "PASS"
    <3> SUFFICES ASSUME change # "COVERAGE_CHANGED"
                 PROVE  /\ r \in R \cap S /\ r.id = id
                        /\ change = "NEW" => Outcome(r, s1, o1) = "NOT_APPLICABLE"
                        /\ change = "UNCHANGED" => Outcome(r, s1, o1) = Outcome(r, s2, o2)
                        /\ change = "RESOLVED" => Outcome(r, s2, o2) = "PASS"
                        /\ change = "REGRESSED" => Outcome(r, s1, o1) = "PASS"
      OBVIOUS
    <3>1. r = s
      BY <2>8
    <3> QED
      BY <2>1, <2>4, <2>7, <3>1
  <2> QED
    BY <2>7, <2>9 DEF change
<1>3. CASE id \notin RulesOf(previous) \cap RulesOf(current)
  BY <1>1, <1>3 DEF Diff, Changes
<1> QED
  BY <1>2, <1>3

=============================================================================
