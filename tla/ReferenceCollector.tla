------------------------- MODULE ReferenceCollector -------------------------
(***************************************************************************)
(* One assessment by the reference provider: the redirect loop of          *)
(* provider.py with the checks of targets.py and transport.py at each hop, *)
(* then admission, evaluation and the completed Review.                    *)
(*                                                                         *)
(* External: name resolution, the connected peer and the site's answers,   *)
(* each of which may change from one hop to the next.  A URL is a model    *)
(* value with a scheme and an origin; what normalize_redirect rejects is   *)
(* a Location outside Url.                                                 *)
(***************************************************************************)
EXTENDS ReviewDomain

CONSTANTS
    Url,            \* URLs that normalization admits
    Start,          \* the target's origin, as normalize_origin returns it
    SchemeOf, OriginOf,
    Address, Public,    \* addresses, and those validate_public_ip admits
    Header,         \* the security headers observed
    Rules,          \* the reference ruleset
    MaxRedirects,
    Elsewhere       \* a Location that normalization rejects

ASSUME StartIsHttps == Start \in Url /\ SchemeOf[Start] = "https"
ASSUME Schemes == SchemeOf \in [Url -> {"http", "https"}]
ASSUME PublicAddresses == Public \subseteq Address
ASSUME RedirectBound == MaxRedirects \in Nat
ASSUME ElsewhereIsNoUrl == Elsewhere \notin Url

\* The headers are a constant tuple, and each rule of the reference ruleset
\* has an id of its own and is about one of them.
ASSUME HeadersAreListed == IsFiniteSet(Header)
ASSUME RulesAreOfHeaders == \A r \in Rules : r.kind = "HTTP_HEADER" /\ r.key \in Header
ASSUME OneRuleForAnId == \A q, r \in Rules : q.id = r.id => q = r

VARIABLES
    pc,
    current,        \* the URL of this hop
    hop,            \* redirect_count
    visited,
    answers,        \* the admitted DNS answers of this hop
    observations,
    sent            \* <<URL, peer>> of every request sent

vars == <<pc, current, hop, visited, answers, observations, sent>>

Ended == {"completed", "rejected", "failed"}

CollectorTypeOK ==
    /\ pc \in {"entering", "resolving", "fetching"} \cup Ended
    /\ current \in Url
    /\ hop \in 0..MaxRedirects
    /\ visited \subseteq Url
    /\ answers \subseteq Address
    /\ sent \in Seq(Url \X Address)

Init ==
    /\ pc = "entering"
    /\ current = Start
    /\ hop = 0
    /\ visited = {}
    /\ answers = {}
    /\ observations = <<>>
    /\ sent = <<>>

-----------------------------------------------------------------------------
(* One hop. *)

Enter ==
    /\ pc = "entering"
    /\ \/ current \in visited /\ pc' = "failed" /\ UNCHANGED visited
       \/ current \notin visited /\ pc' = "resolving" /\ visited' = visited \cup {current}
    /\ UNCHANGED <<current, hop, answers, observations, sent>>

\* One answer that is not public refuses them all.
Admits(found) == found # {} /\ found \subseteq Public

\* Mutant: a refused resolution is tried again.
ResolveUntilAdmitted ==
    /\ pc = "resolving"
    /\ \E found \in SUBSET Address :
        \/ Admits(found) /\ answers' = found /\ pc' = "fetching" /\ UNCHANGED visited
        \/ /\ ~Admits(found)
           /\ pc' = "entering"
           /\ visited' = visited \ {current}
           /\ UNCHANGED answers
    /\ UNCHANGED <<current, hop, observations, sent>>

\* The name is resolved anew at every hop.
Resolve ==
    /\ pc = "resolving"
    /\ \E found \in SUBSET Address :
        \/ Admits(found) /\ answers' = found /\ pc' = "fetching"
        \/ ~Admits(found) /\ pc' = "rejected" /\ UNCHANGED answers
    /\ UNCHANGED <<current, hop, visited, observations, sent>>

Observation(kind, key, value) ==
    [kind |-> kind, key |-> key, subject |-> OriginOf[Start], value |-> value]

ResponseAt(peer) ==
    Observation("HTTP_RESPONSE", hop, [scheme |-> SchemeOf[current], peer |-> peer])

\* Mutant: a downgrade is judged by where the assessment started.
RedirectFromStart(url) ==
    Observation("HTTP_REDIRECT", hop,
        [to |-> OriginOf[url],
         downgrade |-> SchemeOf[current] = "https" /\ SchemeOf[Start] = "http"])

RedirectTo(url) ==
    Observation("HTTP_REDIRECT", hop,
        [to |-> OriginOf[url],
         downgrade |-> SchemeOf[current] = "https" /\ SchemeOf[url] = "http"])

\* One fact for each header, in a fixed order.
HeaderFacts(present) ==
    LET order == CHOOSE s \in [1..Cardinality(Header) -> Header] :
                    \A m, n \in DOMAIN s : s[m] = s[n] => m = n
    IN  [n \in 1..Cardinality(Header) |->
            Observation("HTTP_HEADER", order[n], [present |-> order[n] \in present])]

\* Mutant: the connected peer is not compared with the answers.
ConnectAnywhere(peer) == peer \in Address

\* The connection goes to one of the admitted answers; a peer that is not one
\* of them is not sent anything.
Connect(peer) == peer \in answers /\ peer \in Public

ConnectionFails ==
    /\ pc = "fetching"
    /\ \/ pc' = "failed"
       \/ \E peer \in Address : ~Connect(peer) /\ pc' = "rejected"
    /\ UNCHANGED <<current, hop, visited, answers, observations, sent>>

\* The request is sent and its answer is not usable.
ExchangeFails ==
    /\ pc = "fetching"
    /\ \E peer \in Address : Connect(peer) /\ sent' = Append(sent, <<current, peer>>)
    /\ pc' = "failed"
    /\ UNCHANGED <<current, hop, visited, answers, observations>>

\* An answer that is no redirect ends the collection with its headers.
FetchFinal ==
    /\ pc = "fetching"
    /\ \E peer \in Address, present \in SUBSET Header :
        /\ Connect(peer)
        /\ sent' = Append(sent, <<current, peer>>)
        /\ observations' = Append(observations, ResponseAt(peer)) \o HeaderFacts(present)
    /\ pc' = "completed"
    /\ UNCHANGED <<current, hop, visited, answers>>

WithinLimit == hop < MaxRedirects

\* Scheme, userinfo, port, host name and path are what the policy admits.
Normalizes(location) == location \in Url

\* A redirect with one admissible Location below the limit is followed.
FetchRedirect ==
    /\ pc = "fetching"
    /\ WithinLimit
    /\ \E peer \in Address, url \in Url \cup {Elsewhere} :
        /\ Connect(peer)
        /\ Normalizes(url)
        /\ sent' = Append(sent, <<current, peer>>)
        /\ observations' = observations \o <<ResponseAt(peer), RedirectTo(url)>>
        /\ current' = url
    /\ hop' = hop + 1
    /\ pc' = "entering"
    /\ UNCHANGED <<visited, answers>>

\* Any other redirect is not followed.
FetchRefused ==
    /\ pc = "fetching"
    /\ \E peer \in Address, locations \in UNION {[1..n -> Url \cup {Elsewhere}] : n \in 0..2} :
        /\ Connect(peer)
        /\ sent' = Append(sent, <<current, peer>>)
        /\ observations' = Append(observations, ResponseAt(peer))
        /\ \/ (Len(locations) # 1 \/ ~WithinLimit) /\ pc' = "failed"
           \/ Len(locations) = 1 /\ WithinLimit /\ ~Normalizes(locations[1]) /\ pc' = "rejected"
    /\ UNCHANGED <<current, hop, visited, answers>>

Step ==
    \/ Enter \/ Resolve \/ ConnectionFails \/ ExchangeFails
    \/ FetchFinal \/ FetchRedirect \/ FetchRefused

Next == Step

Spec == Init /\ [][Next]_vars

\* Every await ends: the transport's carry timeouts and getaddrinfo returns.
FairSpec == Spec /\ WF_vars(Step)

-----------------------------------------------------------------------------
(* The Review of a completed collection. *)

RegisteredKinds == {"HTTP_RESPONSE", "HTTP_REDIRECT", "HTTP_HEADER"}

\* Mutant: the rules are evaluated for the scheme of the target.
AssessedAtStart ==
    Review(OriginOf[Start], Rules, SchemeOf[Start], observations, RegisteredKinds)

Assessed == Review(OriginOf[Start], Rules, SchemeOf[current], observations, RegisteredKinds)

-----------------------------------------------------------------------------
(* Properties. *)

\* "DNS answers, selected destination, redirect targets, and connected peer
\* addresses are validated": no hop sends a request to an address that is not
\* public, however the answers change between the hops.
RequestsArePublic == \A n \in DOMAIN sent : sent[n][2] \in Public

\* "Requests, redirects ... are bounded": a request per URL, and one more than
\* the redirects; the loop never runs past its bound (the `raise` after it).
RequestsAreBounded ==
    /\ Len(sent) <= MaxRedirects + 1
    /\ \A m, n \in DOMAIN sent : sent[m][1] = sent[n][1] => m = n

Of(kind) == {n \in DOMAIN observations : observations[n].kind = kind}

\* A completed collection tells the way it went: one response for each request
\* in order, a redirect between two, the headers of the last; and when it ends
\* without TLS, a redirect that says downgrade.
ObservationsTellTheWay ==
    pc = "completed" =>
        /\ {<<observations[n].key, observations[n].value.peer>> : n \in Of("HTTP_RESPONSE")}
            = {<<n - 1, sent[n][2]>> : n \in DOMAIN sent}
        /\ \A n \in Of("HTTP_REDIRECT") :
            observations[n].value.to = OriginOf[sent[observations[n].key + 2][1]]
        /\ Cardinality(Of("HTTP_REDIRECT")) + 1 = Len(sent)
        /\ SchemeOf[current] = "http" =>
            \E n \in Of("HTTP_REDIRECT") : observations[n].value.downgrade

\* A completed collection is a Review: everything is admitted, the constructors
\* accept it, and every rule is decided by the last response, or does not apply
\* to its scheme.  Nothing is INCONCLUSIVE, ERROR, or judged for another scheme.
CompletedIsDecided ==
    pc = "completed" =>
        /\ Assessed.evidence = DOMAIN observations
        /\ Accepted(Assessed)
        /\ \A e \in Assessed.evaluations :
            IF e.outcome \in Decisive
            THEN \A r \in Rules : r.id = e.rule => Applies(r, SchemeOf[sent[Len(sent)][1]])
            ELSE e.outcome = "NOT_APPLICABLE"

\* An assessment ends.
AssessmentEnds == <>(pc \in Ended)

=============================================================================
