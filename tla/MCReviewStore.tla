---------------------------- MODULE MCReviewStore ----------------------------
EXTENDS ReviewStore, TLC

CONSTANTS q1, q2, v1, v2, s1, s2

Rule(id, version, key, scheme, severity) ==
    [id |-> id, version |-> version, kind |-> "HTTP_HEADER", key |-> key, expected |-> TRUE,
     scheme |-> scheme, severity |-> severity]

Hsts == Rule("HSTS", 1, "hsts", {"https"}, "MEDIUM")
Csp == Rule("CSP", 1, "csp", {}, "MEDIUM")
StricterCsp == Rule("CSP", 2, "csp", {}, "HIGH")
Sniff == Rule("NOSNIFF", 1, "sniff", {}, "LOW")

\* Enough critical rules to exhaust the score.
Critical == {Rule(id, 1, "csp", {}, "CRITICAL") : id \in {"C1", "C2", "C3", "C4"}}

\* A release, one with a stricter rule, and one that drops and adds a rule,
\* and one with many severe ones.
Releases == {{Hsts, Csp}, {Hsts, StricterCsp}, {Csp, Sniff}, {Hsts} \cup Critical}

Header(key, present) ==
    [kind |-> "HTTP_HEADER", key |-> key, value |-> [present |-> present]]
Malformed(key) == [kind |-> "HTTP_HEADER", key |-> key, value |-> [text |-> "?"]]
Response == [kind |-> "HTTP_RESPONSE", key |-> "response-0", value |-> [scheme |-> "https"]]
Stray == [kind |-> "PORT", key |-> "csp", value |-> [present |-> TRUE]]

\* What the reference collector hands in: a response, then each header once.
ReferenceCollection ==
    {[scheme |-> scheme,
      observations |-> <<Response, Header("hsts", h), Header("csp", c), Header("sniff", TRUE)>>] :
        scheme \in {"http", "https"}, h \in BOOLEAN, c \in BOOLEAN}

\* What any provider may hand in: nothing, one thing or two, in any order.
AnyObservation ==
    {Header("hsts", TRUE), Header("csp", TRUE), Header("csp", FALSE), Malformed("csp"), Stray}
AnyCollection ==
    {[scheme |-> scheme, observations |-> observations] :
        scheme \in {"http", "https"},
        observations \in UNION {[1..n -> AnyObservation] : n \in 0..2}}

MCCollection == ReferenceCollection \cup AnyCollection

MCKinds == {"HTTP_RESPONSE", "HTTP_HEADER"}

MCSymmetry ==
    Permutations({q1, q2}) \cup Permutations({v1, v2}) \cup Permutations({s1, s2})

=============================================================================
