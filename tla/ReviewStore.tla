----------------------------- MODULE ReviewStore -----------------------------
(***************************************************************************)
(* The reference reviews: commands and requests that assess a target and   *)
(* add the completed Review to the append-only store, and what reading and *)
(* comparing stored Reviews returns.                                       *)
(*                                                                         *)
(* The API and the command line are processes of any release, so each      *)
(* request carries the ruleset of its own.  What a provider collects is    *)
(* one of Collection; the reference collector has a module of its own.     *)
(***************************************************************************)
EXTENDS ReviewDomain

CONSTANTS
    Request,    \* POSTs to /v1/reference/reviews, and CLI review commands
    ReviewId,   \* what the id factory may return
    Target,     \* normalized origins
    Ruleset,    \* sets of rules
    Collection, \* [scheme, observations]: what a provider may have collected
    Kinds,      \* the kinds of observations its collector is registered for
    None        \* no value

\* One release's rule of one version is every release's; a Review evaluates a
\* rule once.
ASSUME VersionsAreFixed ==
    \A R, S \in Ruleset : \A r \in R, s \in S :
        r.id = s.id /\ (R = S \/ r.version = s.version) => r = s

\* A ruleset is a tuple, and so is what a provider hands in.
ASSUME RulesetsAreFinite == \A R \in Ruleset : IsFiniteSet(R)
ASSUME CollectionsAreFinite == \A c \in Collection : IsFiniteSet(DOMAIN c.observations)

VARIABLES
    pc,         \* where each request is
    task,       \* its target and its release's ruleset
    reviews     \* the table completed_reviews, by review_id

vars == <<pc, task, reviews>>

\* "refused" is an InvariantViolation on the way, "conflict" the 409.
StoreTypeOK ==
    /\ pc \in [Request -> {"idle", "assessing", "created", "conflict", "failed",
                           "refused", "dropped"}]
    /\ task \in [Request -> [target : Target, rules : Ruleset] \cup {None}]
    /\ DOMAIN reviews \subseteq ReviewId
    /\ \A id \in DOMAIN reviews :
        /\ reviews[id].target \in Target
        /\ reviews[id].score \in 0..100

Init ==
    /\ pc = [q \in Request |-> "idle"]
    /\ task = [q \in Request |-> None]
    /\ reviews = [id \in {} |-> None]

Submit(q) ==
    /\ pc[q] = "idle"
    /\ \E target \in Target, rules \in Ruleset :
        task' = [task EXCEPT ![q] = [target |-> target, rules |-> rules]]
    /\ pc' = [pc EXCEPT ![q] = "assessing"]
    /\ UNCHANGED reviews

\* A rejected target or a failed collection: 422 or 502, and nothing stored.
AssessmentFails(q) ==
    /\ pc[q] = "assessing"
    /\ pc' = [pc EXCEPT ![q] = "failed"]
    /\ UNCHANGED <<task, reviews>>

\* The observations are about the target the Review was asked for.
About(target, observations) ==
    [n \in DOMAIN observations |-> [kind |-> observations[n].kind, key |-> observations[n].key,
                                    subject |-> target, value |-> observations[n].value]]

Stored(id) == id \in DOMAIN reviews

\* Mutant: a Review replaces the one that has its identity.
AddOrReplace(id, review) ==
    reviews' = [i \in DOMAIN reviews \cup {id} |-> IF i = id THEN review ELSE reviews[i]]

Add(id, review) ==
    /\ ~Stored(id)
    /\ reviews' = [i \in DOMAIN reviews \cup {id} |-> IF i = id THEN review ELSE reviews[i]]

\* What a collection becomes for a request.
ReviewFor(q, c) ==
    Review(task[q].target, task[q].rules, c.scheme, About(task[q].target, c.observations), Kinds)

Admitted(review) == review.evidence = DOMAIN review.observations

\* Everything after the last await of the collection: admission, evaluation,
\* the constructors' checks and the insertion.
Assess(q) ==
    /\ pc[q] = "assessing"
    /\ \E c \in Collection, id \in ReviewId :
        LET review == ReviewFor(q, c) IN
        \/ /\ Admitted(review) /\ Accepted(review)
           /\ Add(id, review)
           /\ pc' = [pc EXCEPT ![q] = "created"]
        \/ /\ Admitted(review) /\ Accepted(review)
           /\ Stored(id)
           /\ pc' = [pc EXCEPT ![q] = "conflict"]
           /\ UNCHANGED reviews
        \/ /\ ~(Admitted(review) /\ Accepted(review))
           /\ pc' = [pc EXCEPT ![q] = "refused"]
           /\ UNCHANGED reviews
    /\ UNCHANGED task

\* The process stops, or the client goes away.
Drop(q) ==
    /\ pc[q] = "assessing"
    /\ pc' = [pc EXCEPT ![q] = "dropped"]
    /\ UNCHANGED <<task, reviews>>

Next == \E q \in Request : Submit(q) \/ AssessmentFails(q) \/ Assess(q) \/ Drop(q)

Spec == Init /\ [][Next]_vars

-----------------------------------------------------------------------------
(* Properties. *)

\* "A completed Review is immutable. A rescan creates a new Review": whatever
\* identity the factory returns, no assessment changes or removes a row.
ReviewsAreImmutable ==
    [][\A id \in DOMAIN reviews : id \in DOMAIN reviews' /\ reviews'[id] = reviews[id]]_vars

\* The rule engine never makes what the constructors of the domain refuse:
\* whatever a provider collects for a request, once admitted, is a Review.
EngineIsAccepted ==
    \A q \in Request, c \in Collection :
        pc[q] = "assessing" /\ Admitted(ReviewFor(q, c)) => Accepted(ReviewFor(q, c))

\* "Missing, unsupported, timed-out, malformed, and untested facts never become
\* PASS": a stored PASS or FAIL names a rule of some release and rests on the one
\* observation of what that rule asks about, which was admitted, is well formed,
\* and says what the outcome says.
OutcomesAreObserved ==
    \A id \in DOMAIN reviews :
        LET r == reviews[id] IN
        \A e \in r.evaluations : e.outcome \in Decisive =>
            \E rule \in UNION Ruleset, n \in r.evidence :
                /\ e.rule = rule.id /\ e.version = rule.version
                /\ e.evidence = {n} /\ Matches(rule, r.observations) = {n}
                /\ WellFormed(r.observations[n])
                /\ e.outcome = "PASS" <=> Holds(rule, r.observations[n])

\* A 201 is the answer to the request whose Review is stored: as many requests
\* were answered so as there are Reviews, although the factory may give two of
\* them one identity and requests stop or fail at any point.
EachCreatedIsStored ==
    Cardinality({q \in Request : pc[q] = "created"}) = Cardinality(DOMAIN reviews)

Pairs == {p \in (DOMAIN reviews) \X (DOMAIN reviews) :
            p[1] # p[2] /\ Comparable(reviews[p[1]], reviews[p[2]])}

Back(change) ==
    CASE change = "RESOLVED" -> {"REGRESSED"}
      [] change = "REGRESSED" -> {"RESOLVED"}
      [] change = "UNCHANGED" -> {"UNCHANGED"}
      [] change = "NEW" -> {"COVERAGE_CHANGED"}
      [] change = "COVERAGE_CHANGED" -> {"COVERAGE_CHANGED", "NEW"}

\* "ReviewDiff distinguishes improvement, regression, unchanged risk, and
\* coverage change": read backwards, what was resolved has regressed, and what
\* changed its coverage is neither.
DiffReadsBothWays ==
    \A p \in Pairs :
        LET there == Diff(reviews[p[1]], reviews[p[2]])
            back == Diff(reviews[p[2]], reviews[p[1]])
        IN  \A rule \in DOMAIN there : back[rule] \in Back(there[rule])

RiskOf(review, rules) == Risk({f \in review.findings : f.rule \in rules})

\* The comparison explains the risk: over the rules whose coverage is the same,
\* the findings of the two Reviews differ exactly by what has newly failed or
\* regressed and what was resolved.
DiffExplainsRisk ==
    \A p \in Pairs :
        LET previous == reviews[p[1]]
            current == reviews[p[2]]
            diff == Diff(previous, current)
            With(changes) == {rule \in DOMAIN diff : diff[rule] \in changes}
        IN  /\ RiskOf(current, With({"UNCHANGED"})) = RiskOf(previous, With({"UNCHANGED"}))
            /\ RiskOf(current, With({"RESOLVED"})) = 0
            /\ RiskOf(previous, With({"REGRESSED", "NEW"})) = 0
            /\ With({"COVERAGE_CHANGED"}) = {} /\ With({"REGRESSED", "NEW"}) = {}
                => current.score >= previous.score

=============================================================================
