------------------------- MODULE ReviewStore_proofs -------------------------
(* Theorems about ReviewStore, for every value of its constants: any set of *)
(* releases, any provider's collections, any number of requests.            *)
EXTENDS ReviewStore, ReviewDomain_proofs

-----------------------------------------------------------------------------
(* The store. *)

\* About keeps the positions, kinds and keys of a collection.
LEMMA AboutKeepsPositions ==
    ASSUME NEW c \in Collection, NEW target
    PROVE  /\ DOMAIN About(target, c.observations) = DOMAIN c.observations
           /\ IsFiniteSet(DOMAIN About(target, c.observations))
BY CollectionsAreFinite DEF About

LEMMA AcceptedWhenAdmitted ==
    ASSUME NEW q \in Request, NEW c \in Collection, Admitted(ReviewFor(q, c))
    PROVE  Accepted(ReviewFor(q, c))
<1> DEFINE observations == About(task[q].target, c.observations)
<1>1. Evidence(observations, Kinds, task[q].target) = DOMAIN observations
  BY DEF Admitted, ReviewFor, Review
<1>2. IsFiniteSet(DOMAIN observations)
  BY AboutKeepsPositions
<1> QED
  BY <1>1, <1>2, ReviewIsAccepted DEF ReviewFor

\* The engine never makes a Review that the domain's constructors refuse.
THEOREM EngineMakesReviews == Spec => []EngineIsAccepted
<1>1. EngineIsAccepted
  BY AcceptedWhenAdmitted DEF EngineIsAccepted
<1> QED
  BY <1>1, PTL

\* Append only: whatever identity the factory returns, a stored Review stays.
THEOREM StoredReviewsStay == Spec => ReviewsAreImmutable
<1>1. [Next]_vars => [\A id \in DOMAIN reviews :
                        id \in DOMAIN reviews' /\ reviews'[id] = reviews[id]]_vars
  <2> SUFFICES ASSUME Next, NEW id \in DOMAIN reviews
               PROVE  id \in DOMAIN reviews' /\ reviews'[id] = reviews[id]
    OBVIOUS
  <2>1. UNCHANGED reviews \/ \E i \in ReviewId : \E review : Add(i, review)
    BY DEF Next, Submit, AssessmentFails, Assess, Drop
  <2> QED
    BY <2>1 DEF Add, Stored
<1> QED
  BY <1>1, PTL DEF Spec, ReviewsAreImmutable

-----------------------------------------------------------------------------
(* What is stored was made by the engine, from a release and a collection. *)

MadeBy(review, target, R, c) ==
    review = Review(target, R, c.scheme, About(target, c.observations), Kinds)

StoreInv ==
    /\ StoreTypeOK
    /\ \A q \in Request : pc[q] = "assessing" => task[q] \in [target : Target, rules : Ruleset]
    /\ \A id \in DOMAIN reviews :
        \E target \in Target, R \in Ruleset, c \in Collection : MadeBy(reviews[id], target, R, c)

LEMMA RulesOnce == \A R \in Ruleset : IsFiniteSet(R) /\ OneRuleEach(R)
BY VersionsAreFixed, RulesetsAreFinite DEF OneRuleEach

LEMMA MadeIsTyped ==
    ASSUME NEW review, NEW target \in Target, NEW R \in Ruleset, NEW c \in Collection,
           MadeBy(review, target, R, c)
    PROVE  review.target \in Target /\ review.score \in 0..100
<1> DEFINE observations == About(target, c.observations)
<1>1. /\ review.target = target
      /\ review.score = Score(Findings(R, c.scheme, observations))
  BY DEF MadeBy, Review
<1>2. IsFiniteSet(Findings(R, c.scheme, observations))
  BY RulesOnce, FindingsAreFinite
<1> QED
  BY <1>1, <1>2, ScoreIsAPercentage

LEMMA StoreNext == StoreInv /\ [Next]_vars => StoreInv'
<1> SUFFICES ASSUME StoreInv, [Next]_vars
             PROVE  StoreInv'
  OBVIOUS
<1> USE DEF StoreInv, StoreTypeOK
<1>1. CASE UNCHANGED vars
  BY <1>1 DEF vars
<1>2. ASSUME NEW q \in Request, Submit(q)
      PROVE  StoreInv'
  BY <1>2 DEF Submit
<1>3. ASSUME NEW q \in Request, AssessmentFails(q) \/ Drop(q)
      PROVE  StoreInv'
  BY <1>3 DEF AssessmentFails, Drop
<1>4. ASSUME NEW q \in Request, Assess(q)
      PROVE  StoreInv'
  <2>1. /\ pc[q] = "assessing" /\ task' = task
        /\ \E state \in {"created", "conflict", "refused"} : pc' = [pc EXCEPT ![q] = state]
    BY <1>4 DEF Assess
  <2>2. CASE UNCHANGED reviews
    BY <2>1, <2>2
  <2>3. CASE \E c \in Collection, id \in ReviewId : Add(id, ReviewFor(q, c))
    <3>1. PICK c \in Collection, id \in ReviewId : Add(id, ReviewFor(q, c))
      BY <2>3
    <3>2. task[q].target \in Target /\ task[q].rules \in Ruleset
      BY <2>1
    <3>3. MadeBy(ReviewFor(q, c), task[q].target, task[q].rules, c)
      BY DEF ReviewFor, MadeBy
    <3>4. /\ DOMAIN reviews' = DOMAIN reviews \cup {id}
          /\ reviews'[id] = ReviewFor(q, c)
          /\ \A i \in DOMAIN reviews : reviews'[i] = reviews[i]
      BY <3>1 DEF Add, Stored
    <3>5. ASSUME NEW i \in DOMAIN reviews'
          PROVE  \E target \in Target, R \in Ruleset, d \in Collection :
                    MadeBy(reviews'[i], target, R, d)
      BY <3>2, <3>3, <3>4
    <3>6. \A i \in DOMAIN reviews' :
            reviews'[i].target \in Target /\ reviews'[i].score \in 0..100
      BY <3>5, MadeIsTyped
    <3>7. DOMAIN reviews' \subseteq ReviewId
      BY <3>4
    <3>8. /\ pc' \in [Request -> {"idle", "assessing", "created", "conflict", "failed",
                                  "refused", "dropped"}]
          /\ \A p \in Request :
               pc'[p] = "assessing" => task'[p] \in [target : Target, rules : Ruleset]
      BY <2>1
    <3>9. StoreTypeOK'
      BY <2>1, <3>6, <3>7, <3>8
    <3>10. \A i \in DOMAIN reviews' :
             \E target \in Target, R \in Ruleset, d \in Collection :
                MadeBy(reviews'[i], target, R, d)
      BY <3>5
    <3> HIDE DEF StoreTypeOK
    <3> QED
      BY <3>8, <3>9, <3>10 DEF MadeBy
  <2> QED
    BY <1>4, <2>2, <2>3 DEF Assess
<1> QED
  BY <1>1, <1>2, <1>3, <1>4 DEF Next

\* The invariant holds throughout: completed_reviews holds only what the engine
\* made, of a release's ruleset and a provider's collection.
THEOREM StoreInvariant == Spec => []StoreInv
<1>1. Init => StoreInv
  BY DEF Init, StoreInv, StoreTypeOK
<1> QED
  BY <1>1, StoreNext, PTL DEF Spec

\* Types, and a score of every stored Review between 0 and 100.
THEOREM StoreTypeCorrect == Spec => []StoreTypeOK
<1>1. StoreInv => StoreTypeOK
  BY DEF StoreInv
<1> QED
  BY <1>1, StoreInvariant, PTL

-----------------------------------------------------------------------------
(* What the outcomes of a stored Review rest on. *)

\* The PASS or FAIL of one Review rests on its one match.
Observed(r) ==
    \A e \in r.evaluations : e.outcome \in Decisive =>
        \E rule \in UNION Ruleset, n \in r.evidence :
            /\ e.rule = rule.id /\ e.version = rule.version
            /\ e.evidence = {n} /\ Matches(rule, r.observations) = {n}
            /\ WellFormed(r.observations[n])
            /\ e.outcome = "PASS" <=> Holds(rule, r.observations[n])

LEMMA ReviewIsObserved ==
    ASSUME StoreInv, NEW q \in Request, NEW c \in Collection,
           pc[q] = "assessing", Admitted(ReviewFor(q, c))
    PROVE  Observed(ReviewFor(q, c))
<1> DEFINE review == ReviewFor(q, c)
           observations == About(task[q].target, c.observations)
<1>1. /\ review.observations = observations
      /\ review.evaluations = Evaluations(task[q].rules, c.scheme, observations)
      /\ review.evidence = DOMAIN observations
  BY DEF Admitted, ReviewFor, Review
<1>2. IsFiniteSet(DOMAIN observations)
  BY AboutKeepsPositions
<1>3. task[q].rules \in Ruleset
  BY DEF StoreInv
<1> HIDE DEF review, observations
<1>4. ASSUME NEW e \in review.evaluations, e.outcome \in Decisive
      PROVE  \E rule \in UNION Ruleset, n \in review.evidence :
                /\ e.rule = rule.id /\ e.version = rule.version
                /\ e.evidence = {n} /\ Matches(rule, review.observations) = {n}
                /\ WellFormed(review.observations[n])
                /\ e.outcome = "PASS" <=> Holds(rule, review.observations[n])
  <2>1. PICK rule \in task[q].rules : e = Evaluation(rule, c.scheme, observations)
    BY <1>1 DEF Evaluations
  <2>2. /\ e.outcome = Outcome(rule, c.scheme, observations)
        /\ e.rule = rule.id /\ e.version = rule.version
        /\ e.evidence = Matches(rule, observations)
    BY <1>2, <1>4, <2>1, EvaluationNames
  <2>3. PICK n \in DOMAIN observations :
           /\ Matches(rule, observations) = {n}
           /\ WellFormed(observations[n])
           /\ e.outcome = "PASS" <=> Holds(rule, observations[n])
    BY <1>2, <1>4, <2>2, OutcomeDecides
  <2>4. rule \in UNION Ruleset
    BY <1>3
  <2> QED
    BY <1>1, <2>2, <2>3, <2>4
<1> QED
  BY <1>4 DEF Observed, review

LEMMA ObservedNext == StoreInv /\ OutcomesAreObserved /\ [Next]_vars => OutcomesAreObserved'
<1> SUFFICES ASSUME StoreInv, OutcomesAreObserved, [Next]_vars, NEW id \in DOMAIN reviews'
             PROVE  Observed(reviews'[id])
  BY DEF OutcomesAreObserved, Observed
<1>1. \A i \in DOMAIN reviews : Observed(reviews[i])
  BY DEF OutcomesAreObserved, Observed
<1>2. CASE UNCHANGED reviews
  BY <1>1, <1>2
<1>3. CASE \E q \in Request, c \in Collection, i \in ReviewId :
            /\ pc[q] = "assessing"
            /\ Admitted(ReviewFor(q, c))
            /\ Add(i, ReviewFor(q, c))
  BY <1>1, <1>3, ReviewIsObserved DEF Add
<1> QED
  BY <1>2, <1>3 DEF Next, vars, Submit, AssessmentFails, Assess, Drop

\* What could not be observed is never stored as a PASS or a FAIL, and what was
\* observed is stored as what it is.
THEOREM UnknownIsNeverDecided == Spec => []OutcomesAreObserved
<1>1. Init => OutcomesAreObserved
  BY DEF Init, OutcomesAreObserved
<1> QED
  BY <1>1, ObservedNext, StoreInvariant, PTL DEF Spec

-----------------------------------------------------------------------------
(* Answers and Reviews are counted one for one: an insertion adds a request  *)
(* that was not answered and an identity that was not stored.                *)
Answered == {q \in Request : pc[q] = "created"}

CountInv ==
    /\ IsFiniteSet(Answered)
    /\ IsFiniteSet(DOMAIN reviews)
    /\ EachCreatedIsStored

LEMMA CountNext == StoreInv /\ CountInv /\ [Next]_vars => CountInv'
<1> SUFFICES ASSUME StoreInv, CountInv, [Next]_vars
             PROVE  CountInv'
  OBVIOUS
<1>1. Cardinality(Answered) = Cardinality(DOMAIN reviews)
  BY DEF CountInv, EachCreatedIsStored, Answered
<1>2. pc \in [Request -> {"idle", "assessing", "created", "conflict", "failed",
                          "refused", "dropped"}]
  BY DEF StoreInv, StoreTypeOK
<1>3. CASE Answered' = Answered /\ UNCHANGED reviews
  BY <1>3 DEF CountInv, EachCreatedIsStored, Answered
<1>4. ASSUME NEW q \in Request, NEW c \in Collection, NEW id \in ReviewId,
             pc[q] = "assessing", pc' = [pc EXCEPT ![q] = "created"],
             Add(id, ReviewFor(q, c))
      PROVE  CountInv'
  <2>1. Answered' = Answered \cup {q} /\ q \notin Answered
    BY <1>2, <1>4 DEF Answered
  <2>2. DOMAIN reviews' = DOMAIN reviews \cup {id} /\ id \notin DOMAIN reviews
    BY <1>4 DEF Add, Stored
  <2>3. /\ IsFiniteSet(Answered') /\ IsFiniteSet(DOMAIN reviews')
        /\ Cardinality(Answered') = Cardinality(Answered) + 1
        /\ Cardinality(DOMAIN reviews') = Cardinality(DOMAIN reviews) + 1
    BY <2>1, <2>2, FS_AddElement DEF CountInv
  <2> QED
    BY <1>1, <2>3 DEF CountInv, EachCreatedIsStored, Answered
<1>5. ASSUME NEW q \in Request, Assess(q), UNCHANGED reviews
      PROVE  Answered' = Answered
  <2>1. /\ pc[q] = "assessing"
        /\ pc' = [pc EXCEPT ![q] = "conflict"] \/ pc' = [pc EXCEPT ![q] = "refused"]
    BY <1>5 DEF Assess, Add, Stored
  <2> QED
    BY <1>2, <2>1 DEF Answered
<1>6. ASSUME NEW q \in Request, Submit(q) \/ AssessmentFails(q) \/ Drop(q)
      PROVE  Answered' = Answered /\ UNCHANGED reviews
  BY <1>2, <1>6 DEF Submit, AssessmentFails, Drop, Answered
<1>7. CASE UNCHANGED vars
  BY <1>3, <1>7 DEF vars, Answered
<1> QED
  BY <1>3, <1>4, <1>5, <1>6, <1>7 DEF Next, Assess

\* Every answer that says created stands for a stored Review of its own.
THEOREM AnswersAreStored == Spec => []EachCreatedIsStored
<1>1. Init => CountInv
  <2> SUFFICES ASSUME Init
               PROVE  CountInv
    OBVIOUS
  <2>1. Answered = {} /\ DOMAIN reviews = {}
    BY DEF Init, Answered
  <2>2. IsFiniteSet({}) /\ Cardinality({}) = 0
    BY FS_EmptySet
  <2> QED
    BY <2>1, <2>2 DEF CountInv, EachCreatedIsStored, Answered
<1>2. CountInv => EachCreatedIsStored
  BY DEF CountInv
<1> QED
  BY <1>1, <1>2, CountNext, StoreInvariant, PTL DEF Spec

-----------------------------------------------------------------------------
(* The comparison of stored Reviews. *)

\* Any two outcomes, read in both directions.
LEMMA ChangeReadsBothWays ==
    ASSUME NEW old, NEW new, old.outcome \in Decisive \cup Unknown,
           new.outcome \in Decisive \cup Unknown
    PROVE  Change(new, old) \in Back(Change(old, new))
<1>1. CASE old.version # new.version
  BY <1>1 DEF Change, Back
<1>2. CASE old.version = new.version
  <2> DEFINE there == Change(old, new)
             back == Change(new, old)
  <2>1. /\ old.outcome = "NOT_APPLICABLE" /\ new.outcome = "FAIL" => there = "NEW"
        /\ new.outcome = "NOT_APPLICABLE" /\ old.outcome = "FAIL" => back = "NEW"
    BY <1>2 DEF Change
  <2>2. CASE old.outcome \in Unknown \/ new.outcome \in Unknown
    BY <1>2, <2>2 DEF Change, Back, Unknown
  <2>3. CASE ~(old.outcome \in Unknown \/ new.outcome \in Unknown)
    BY <1>2, <2>3 DEF Change, Back, Unknown, Decisive
  <2> QED
    BY <2>2, <2>3
<1> QED
  BY <1>1, <1>2

LEMMA MadeReadsBothWays ==
    ASSUME NEW t1 \in Target, NEW R \in Ruleset, NEW c \in Collection,
           NEW previous, MadeBy(previous, t1, R, c),
           NEW t2 \in Target, NEW S \in Ruleset, NEW d \in Collection,
           NEW current, MadeBy(current, t2, S, d),
           NEW id \in DOMAIN Diff(previous, current)
    PROVE  Diff(current, previous)[id] \in Back(Diff(previous, current)[id])
<1> DEFINE o1 == About(t1, c.observations)
           o2 == About(t2, d.observations)
<1>1. /\ previous = Review(t1, R, c.scheme, o1, Kinds)
      /\ current = Review(t2, S, d.scheme, o2, Kinds)
  BY DEF MadeBy
<1>2. OneRuleEach(R) /\ OneRuleEach(S)
  BY RulesOnce
<1>3. id \in RulesOf(previous) \cup RulesOf(current)
  BY DEF Diff
<1> HIDE DEF o1, o2
<1>4. CASE id \in RulesOf(previous) \cap RulesOf(current)
  <2>1. /\ \A i : i \in RulesOf(previous) <=> \E r \in R : r.id = i
        /\ \A r \in R : EvaluationOf(previous, r.id) = Evaluation(r, c.scheme, o1)
    BY <1>1, <1>2, EvaluationsAreByRule
  <2>2. /\ \A i : i \in RulesOf(current) <=> \E s \in S : s.id = i
        /\ \A s \in S : EvaluationOf(current, s.id) = Evaluation(s, d.scheme, o2)
    <3>1. current = Review(t2, S, d.scheme, o2, Kinds) /\ OneRuleEach(S)
      BY <1>1, <1>2
    <3> QED
      BY <3>1, EvaluationsAreByRule
  <2>3. PICK r \in R : r.id = id
    BY <1>4, <2>1
  <2>4. PICK s \in S : s.id = id
    BY <1>4, <2>2
  <2> DEFINE old == Evaluation(r, c.scheme, o1)
             new == Evaluation(s, d.scheme, o2)
  <2>5. EvaluationOf(previous, id) = old /\ EvaluationOf(current, id) = new
    BY <2>1, <2>2, <2>3, <2>4
  <2>6. old.outcome \in Decisive \cup Unknown /\ new.outcome \in Decisive \cup Unknown
    <3>1. /\ old.outcome = Outcome(r, c.scheme, o1)
          /\ new.outcome = Outcome(s, d.scheme, o2)
      BY DEF Evaluation
    <3> HIDE DEF old, new
    <3> QED
      BY <3>1, OutcomeIsKnown
  <2> HIDE DEF old, new
  <2>7. /\ Diff(previous, current)[id] = Change(old, new)
        /\ Diff(current, previous)[id] = Change(new, old)
    BY <1>3, <1>4, <2>5 DEF Diff
  <2> QED
    BY <2>6, <2>7, ChangeReadsBothWays
<1>5. CASE id \notin RulesOf(previous) \cap RulesOf(current)
  BY <1>3, <1>5 DEF Diff, Back
<1> QED
  BY <1>4, <1>5

\* Whichever two stored Reviews are compared, of whichever releases, the two
\* directions agree.
THEOREM ComparisonReadsBothWays == Spec => []DiffReadsBothWays
<1>1. StoreInv => DiffReadsBothWays
  <2> SUFFICES ASSUME StoreInv, NEW p \in Pairs,
                      NEW id \in DOMAIN Diff(reviews[p[1]], reviews[p[2]])
               PROVE  Diff(reviews[p[2]], reviews[p[1]])[id]
                        \in Back(Diff(reviews[p[1]], reviews[p[2]])[id])
    BY DEF DiffReadsBothWays
  <2>1. p[1] \in DOMAIN reviews /\ p[2] \in DOMAIN reviews
    BY DEF Pairs
  <2>2. PICK t1 \in Target, R \in Ruleset, c \in Collection : MadeBy(reviews[p[1]], t1, R, c)
    BY <2>1 DEF StoreInv
  <2>3. PICK t2 \in Target, S \in Ruleset, d \in Collection : MadeBy(reviews[p[2]], t2, S, d)
    BY <2>1 DEF StoreInv
  <2> QED
    BY <2>2, <2>3, MadeReadsBothWays
<1> QED
  BY <1>1, StoreInvariant, PTL

\* The rules of one word of the comparison.
Said(diff, changes) == {id \in DOMAIN diff : diff[id] \in changes}

LEMMA MadeExplainsRisk ==
    ASSUME NEW t1 \in Target, NEW R \in Ruleset, NEW c \in Collection,
           NEW previous, MadeBy(previous, t1, R, c),
           NEW t2 \in Target, NEW S \in Ruleset, NEW d \in Collection,
           NEW current, MadeBy(current, t2, S, d)
    PROVE  LET With(changes) == Said(Diff(previous, current), changes) IN
           /\ RiskOf(current, With({"UNCHANGED"})) = RiskOf(previous, With({"UNCHANGED"}))
           /\ RiskOf(current, With({"RESOLVED"})) = 0
           /\ RiskOf(previous, With({"REGRESSED", "NEW"})) = 0
           /\ With({"COVERAGE_CHANGED"}) = {} /\ With({"REGRESSED", "NEW"}) = {}
               => current.score >= previous.score
<1> DEFINE o1 == About(t1, c.observations)
           o2 == About(t2, d.observations)
           diff == Diff(previous, current)
           With(changes) == Said(diff, changes)
           was == Failing(R, c.scheme, o1)
           is == Failing(S, d.scheme, o2)
<1>1. /\ previous = Review(t1, R, c.scheme, o1, Kinds)
      /\ current = Review(t2, S, d.scheme, o2, Kinds)
  BY DEF MadeBy
<1>2. /\ OneRuleEach(R) /\ IsFiniteSet(R) /\ OneRuleEach(S) /\ IsFiniteSet(S)
      /\ \A r \in R, s \in S : r.id = s.id /\ r.version = s.version => r = s
  BY RulesOnce, VersionsAreFixed
<1> HIDE DEF o1, o2
<1>3. ASSUME NEW ids
      PROVE  /\ RiskOf(previous, ids) = Risk(Failed(ids, was))
             /\ RiskOf(current, ids) = Risk(Failed(ids, is))
  <2>1. /\ previous.findings = Findings(R, c.scheme, o1)
        /\ current.findings = Findings(S, d.scheme, o2)
    BY <1>1 DEF Review
  <2>2. /\ RiskOf(previous, ids) = Risk(Among(ids, previous.findings))
        /\ RiskOf(current, ids) = Risk(Among(ids, current.findings))
    BY DEF RiskOf, Among
  <2> QED
    BY <1>2, <2>1, <2>2, RiskOfRules
<1>4. ASSUME NEW id \in DOMAIN diff
      PROVE  /\ diff[id] \in Changes
             /\ diff[id] # "COVERAGE_CHANGED" =>
                  \E r \in R \cap S :
                    /\ r.id = id
                    /\ diff[id] = "NEW" => Outcome(r, c.scheme, o1) = "NOT_APPLICABLE"
                    /\ diff[id] = "UNCHANGED" =>
                         Outcome(r, c.scheme, o1) = Outcome(r, d.scheme, o2)
                    /\ diff[id] = "RESOLVED" => Outcome(r, d.scheme, o2) = "PASS"
                    /\ diff[id] = "REGRESSED" => Outcome(r, c.scheme, o1) = "PASS"
  BY <1>1, <1>2, <1>4, DiffSays
<1>5. /\ \A r : r \in was <=> r \in R /\ Outcome(r, c.scheme, o1) = "FAIL"
      /\ \A r : r \in is <=> r \in S /\ Outcome(r, d.scheme, o2) = "FAIL"
  BY DEF Failing
<1>6. /\ \A id : id \in DOMAIN diff <=> id \in RulesOf(previous) \cup RulesOf(current)
      /\ \A r \in R : r.id \in DOMAIN diff
      /\ \A s \in S : s.id \in DOMAIN diff
  <2>1. DOMAIN diff = RulesOf(previous) \cup RulesOf(current)
    BY DEF Diff
  <2>2. \A r \in R : r.id \in RulesOf(previous)
    BY <1>1, <1>2, EvaluationsAreByRule
  <2>3. \A s \in S : s.id \in RulesOf(current)
    BY <1>1, <1>2, EvaluationsAreByRule
  <2> QED
    BY <2>1, <2>2, <2>3
<1>7. /\ IsFiniteSet(was) /\ IsFiniteSet(is)
      /\ previous.score = Score(Findings(R, c.scheme, o1))
      /\ current.score = Score(Findings(S, d.scheme, o2))
      /\ IsFiniteSet(Findings(R, c.scheme, o1)) /\ IsFiniteSet(Findings(S, d.scheme, o2))
      /\ Risk(Findings(R, c.scheme, o1)) = Risk(was)
      /\ Risk(Findings(S, d.scheme, o2)) = Risk(is)
  BY <1>1, <1>2, FindingsAreFinite DEF Review
<1> HIDE DEF diff, was, is
<1>8. RiskOf(current, With({"UNCHANGED"})) = RiskOf(previous, With({"UNCHANGED"}))
  <2>1. \A id \in With({"UNCHANGED"}) :
          \E r \in R \cap S : /\ r.id = id
                              /\ Outcome(r, c.scheme, o1) = Outcome(r, d.scheme, o2)
    BY <1>4 DEF Said
  <2>2. Failed(With({"UNCHANGED"}), was) = Failed(With({"UNCHANGED"}), is)
    <3>1. ASSUME NEW r \in was, r.id \in With({"UNCHANGED"})
          PROVE  r \in is
      BY <1>2, <1>5, <2>1, <3>1 DEF OneRuleEach
    <3>2. ASSUME NEW s \in is, s.id \in With({"UNCHANGED"})
          PROVE  s \in was
      BY <1>2, <1>5, <2>1, <3>2 DEF OneRuleEach
    <3> QED
      BY <3>1, <3>2 DEF Failed
  <2> QED
    BY <1>3, <2>2
<1>9. RiskOf(current, With({"RESOLVED"})) = 0
  <2>1. \A id \in With({"RESOLVED"}) :
          \E r \in S : r.id = id /\ Outcome(r, d.scheme, o2) = "PASS"
    BY <1>4 DEF Said
  <2>2. Failed(With({"RESOLVED"}), is) = {}
    BY <1>2, <1>5, <2>1 DEF Failed, OneRuleEach
  <2> QED
    BY <1>3, <2>2, NoRisk
<1>10. RiskOf(previous, With({"REGRESSED", "NEW"})) = 0
  <2>1. \A id \in With({"REGRESSED", "NEW"}) :
          \E r \in R : r.id = id /\ Outcome(r, c.scheme, o1) \in {"PASS", "NOT_APPLICABLE"}
    BY <1>4 DEF Said
  <2>2. Failed(With({"REGRESSED", "NEW"}), was) = {}
    BY <1>2, <1>5, <2>1 DEF Failed, OneRuleEach
  <2> QED
    BY <1>3, <2>2, NoRisk
<1>11. ASSUME With({"COVERAGE_CHANGED"}) = {}, With({"REGRESSED", "NEW"}) = {}
       PROVE  current.score >= previous.score
  <2>1. is \subseteq was
    <3> SUFFICES ASSUME NEW s \in is
                 PROVE  s \in was
      OBVIOUS
    <3>1. s \in S /\ Outcome(s, d.scheme, o2) = "FAIL" /\ s.id \in DOMAIN diff
      BY <1>5, <1>6
    <3>2. diff[s.id] \in {"UNCHANGED", "RESOLVED"}
      BY <1>4, <1>11, <3>1 DEF Said, Changes
    <3>3. PICK r \in R \cap S :
             /\ r.id = s.id
             /\ diff[s.id] = "UNCHANGED" => Outcome(r, c.scheme, o1) = Outcome(r, d.scheme, o2)
             /\ diff[s.id] = "RESOLVED" => Outcome(r, d.scheme, o2) = "PASS"
      BY <1>4, <3>1, <3>2
    <3>4. r = s
      BY <1>2, <3>1, <3>3 DEF OneRuleEach
    <3> QED
      BY <1>5, <3>1, <3>2, <3>3, <3>4
  <2>2. Risk(is) <= Risk(was)
    BY <1>7, <2>1, RiskGrows
  <2> QED
    BY <1>7, <2>2, ScoreFalls
<1> QED
  BY <1>8, <1>9, <1>10, <1>11 DEF diff

\* Whichever two stored Reviews are compared, the comparison explains their
\* risk: what it does not call a regression or a change of coverage never lowers
\* the score.
THEOREM ComparisonExplainsRisk == Spec => []DiffExplainsRisk
<1>1. StoreInv => DiffExplainsRisk
  <2> SUFFICES ASSUME StoreInv, NEW p \in Pairs
               PROVE  LET previous == reviews[p[1]]
                          current == reviews[p[2]]
                          With(changes) == Said(Diff(previous, current), changes)
                      IN  /\ RiskOf(current, With({"UNCHANGED"}))
                                = RiskOf(previous, With({"UNCHANGED"}))
                          /\ RiskOf(current, With({"RESOLVED"})) = 0
                          /\ RiskOf(previous, With({"REGRESSED", "NEW"})) = 0
                          /\ With({"COVERAGE_CHANGED"}) = {} /\ With({"REGRESSED", "NEW"}) = {}
                              => current.score >= previous.score
    BY DEF DiffExplainsRisk, Said
  <2>1. p[1] \in DOMAIN reviews /\ p[2] \in DOMAIN reviews
    BY DEF Pairs
  <2>2. PICK t1 \in Target, R \in Ruleset, c \in Collection : MadeBy(reviews[p[1]], t1, R, c)
    BY <2>1 DEF StoreInv
  <2>3. PICK t2 \in Target, S \in Ruleset, d \in Collection : MadeBy(reviews[p[2]], t2, S, d)
    BY <2>1 DEF StoreInv
  <2> QED
    BY <2>2, <2>3, MadeExplainsRisk
<1> QED
  BY <1>1, StoreInvariant, PTL

=============================================================================
