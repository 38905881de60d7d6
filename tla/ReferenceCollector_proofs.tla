---------------------- MODULE ReferenceCollector_proofs ----------------------
(* Theorems about ReferenceCollector, for every site, every resolver and    *)
(* every bound on redirects.                                                *)
EXTENDS ReferenceCollector, ReviewDomain_proofs, SequenceTheorems

\* The URLs that were requested.
Requested == {sent[n][1] : n \in DOMAIN sent}

\* A hop has sent one request for each redirect before it, each to a URL of
\* its own; from Enter on, the current URL is visited and not yet requested.
HopInv ==
    /\ Requested \subseteq visited
    /\ \A m, n \in DOMAIN sent : sent[m][1] = sent[n][1] => m = n
    /\ pc \in {"entering", "resolving", "fetching"} => Len(sent) = hop
    /\ pc \in {"resolving", "fetching"} => current \notin Requested /\ current \in visited
    /\ pc \in Ended => Len(sent) <= hop + 1

IInv ==
    /\ CollectorTypeOK
    /\ HopInv
    /\ RequestsArePublic

-----------------------------------------------------------------------------
LEMMA InitInv == Init => IInv
BY StartIsHttps, RedirectBound
   DEF Init, IInv, CollectorTypeOK, HopInv, Requested, RequestsArePublic, Ended

\* What sending one more request does to the hops.
LEMMA SendKeeps ==
    ASSUME IInv, pc = "fetching", NEW peer \in Address, Connect(peer),
           sent' = Append(sent, <<current, peer>>), UNCHANGED visited
    PROVE  /\ sent' \in Seq(Url \X Address)
           /\ Len(sent') = hop + 1
           /\ Requested' \subseteq visited'
           /\ \A m, n \in DOMAIN sent' : sent'[m][1] = sent'[n][1] => m = n
           /\ RequestsArePublic'
<1>1. /\ sent \in Seq(Url \X Address) /\ current \in Url /\ hop \in Nat
      /\ Len(sent) = hop /\ current \notin Requested /\ current \in visited
      /\ Requested \subseteq visited
      /\ \A m, n \in DOMAIN sent : sent[m][1] = sent[n][1] => m = n
  BY RedirectBound DEF IInv, CollectorTypeOK, HopInv
<1>2. sent' \in Seq(Url \X Address) /\ Len(sent') = Len(sent) + 1 /\ Len(sent) \in Nat
  BY <1>1
<1>3. DOMAIN sent = 1..Len(sent) /\ DOMAIN sent' = 1..(Len(sent) + 1)
  BY <1>1, <1>2
<1>4. /\ \A n \in 1..Len(sent) : sent'[n] = sent[n]
      /\ sent'[Len(sent) + 1] = <<current, peer>>
  BY <1>1, <1>2
<1>5. \A n \in 1..Len(sent) : sent[n][1] # current
  BY <1>1, <1>3 DEF Requested
<1>6. \A n \in DOMAIN sent' : n \in 1..Len(sent) \/ n = Len(sent) + 1
  BY <1>2, <1>3
<1>7. Requested' \subseteq visited'
  BY <1>1, <1>3, <1>4, <1>6 DEF Requested
<1>8. \A m, n \in DOMAIN sent' : sent'[m][1] = sent'[n][1] => m = n
  BY <1>1, <1>3, <1>4, <1>5, <1>6
<1>9. RequestsArePublic'
  BY <1>3, <1>4, <1>6 DEF IInv, RequestsArePublic, Connect
<1> QED
  BY <1>1, <1>2, <1>7, <1>8, <1>9

\* A request that ends the assessment.
LEMMA LastRequest ==
    ASSUME IInv, pc = "fetching", NEW peer \in Address, Connect(peer),
           sent' = Append(sent, <<current, peer>>), pc' \in Ended,
           UNCHANGED <<current, hop, visited, answers>>
    PROVE  IInv'
<1>1. CollectorTypeOK'
  BY SendKeeps DEF IInv, CollectorTypeOK
<1>2. HopInv'
  BY <1>1, SendKeeps, RedirectBound DEF HopInv, Ended, CollectorTypeOK
<1> QED
  BY <1>1, <1>2, SendKeeps DEF IInv

LEMMA NextInv == IInv /\ [Next]_vars => IInv'
<1> SUFFICES ASSUME IInv, [Next]_vars
             PROVE  IInv'
  OBVIOUS
<1>1. CollectorTypeOK /\ HopInv /\ RequestsArePublic /\ hop \in Nat
  BY RedirectBound DEF IInv, CollectorTypeOK
<1>2. CASE UNCHANGED vars
  BY <1>2 DEF vars, IInv, CollectorTypeOK, HopInv, Requested, RequestsArePublic
<1>3. CASE Enter
  BY <1>1, <1>3 DEF Enter, IInv, CollectorTypeOK, HopInv, Requested, RequestsArePublic, Ended
<1>4. CASE Resolve
  BY <1>1, <1>4 DEF Resolve, IInv, CollectorTypeOK, HopInv, Requested, RequestsArePublic, Ended
<1>5. CASE ConnectionFails
  BY <1>1, <1>5
     DEF ConnectionFails, IInv, CollectorTypeOK, HopInv, Requested, RequestsArePublic, Ended
<1>6. CASE ExchangeFails \/ FetchFinal \/ FetchRefused
  BY <1>6, LastRequest DEF ExchangeFails, FetchFinal, FetchRefused, Ended
<1>7. CASE FetchRedirect
  <2>1. PICK peer \in Address, url \in Url \cup {Elsewhere} :
           /\ Connect(peer) /\ Normalizes(url)
           /\ sent' = Append(sent, <<current, peer>>)
           /\ current' = url
    BY <1>7 DEF FetchRedirect
  <2>2. /\ pc = "fetching" /\ pc' = "entering" /\ hop' = hop + 1 /\ hop < MaxRedirects
        /\ UNCHANGED <<visited, answers>>
    BY <1>7 DEF FetchRedirect, WithinLimit
  <2>3. CollectorTypeOK'
    BY <1>1, <2>1, <2>2, SendKeeps, RedirectBound DEF CollectorTypeOK, Normalizes
  <2>4. HopInv'
    BY <1>1, <2>1, <2>2, SendKeeps DEF HopInv, Ended
  <2> QED
    BY <2>1, <2>2, <2>3, <2>4, SendKeeps DEF IInv
<1> QED
  BY <1>2, <1>3, <1>4, <1>5, <1>6, <1>7 DEF Next, Step

\* The invariant holds throughout: each hop of _collect sends one request, to a
\* URL not requested before.
THEOREM CollectorInvariant == Spec => []IInv
BY InitInv, NextInv, PTL DEF Spec

-----------------------------------------------------------------------------
\* Types, the redirect counter's bound among them.
THEOREM CollectorTypeCorrect == Spec => []CollectorTypeOK
<1>1. IInv => CollectorTypeOK
  BY DEF IInv
<1> QED
  BY <1>1, CollectorInvariant, PTL

\* However names resolve from hop to hop, only public addresses are contacted.
THEOREM OnlyPublicIsContacted == Spec => []RequestsArePublic
<1>1. IInv => RequestsArePublic
  BY DEF IInv
<1> QED
  BY <1>1, CollectorInvariant, PTL

\* A site cannot make the collector send more requests than its bound, or two
\* to one URL: the loop ends by its own checks.
THEOREM CollectionIsBounded == Spec => []RequestsAreBounded
<1>1. IInv => RequestsAreBounded
  <2> SUFFICES ASSUME IInv
               PROVE  RequestsAreBounded
    OBVIOUS
  <2>1. hop \in Nat /\ hop <= MaxRedirects /\ MaxRedirects \in Nat
    BY RedirectBound DEF IInv, CollectorTypeOK
  <2>2. Len(sent) \in Nat
    BY DEF IInv, CollectorTypeOK
  <2>3. Len(sent) <= hop + 1
    BY <2>1, <2>2 DEF IInv, HopInv, CollectorTypeOK
  <2> QED
    BY <2>1, <2>2, <2>3 DEF IInv, HopInv, RequestsAreBounded
<1> QED
  BY <1>1, CollectorInvariant, PTL

-----------------------------------------------------------------------------
(* What the observations say of the way. *)

Told ==
    [kind : {"HTTP_RESPONSE"}, key : Nat, subject : {OriginOf[Start]},
     value : [scheme : {"http", "https"}, peer : Address]]
    \cup [kind : {"HTTP_REDIRECT"}, key : Nat, subject : {OriginOf[Start]},
          value : [to : {OriginOf[url] : url \in Url}, downgrade : BOOLEAN]]
    \cup [kind : {"HTTP_HEADER"}, key : Header, subject : {OriginOf[Start]},
          value : [present : BOOLEAN]]

\* The URL of the k-th hop, the one that has not been requested yet included.
UrlAt(k) == IF k <= Len(sent) THEN sent[k][1] ELSE current

ResponseTold(k) ==
    /\ 2 * k - 1 <= Len(observations)
    /\ observations[2 * k - 1].kind = "HTTP_RESPONSE"
    /\ observations[2 * k - 1].key = k - 1
    /\ observations[2 * k - 1].value.peer = sent[k][2]

RedirectTold(k) ==
    /\ 2 * k <= Len(observations)
    /\ observations[2 * k].kind = "HTTP_REDIRECT"
    /\ observations[2 * k].key = k - 1
    /\ observations[2 * k].value.to = OriginOf[UrlAt(k + 1)]

\* Responses and redirects alternate, and a way that left TLS says where.
TrailInv ==
    /\ observations \in Seq(Told)
    /\ \A k \in 1..Len(sent) : ResponseTold(k)
    /\ \A k \in 1..hop : RedirectTold(k)
    /\ SchemeOf[current] = "http" =>
        \E k \in 1..hop : observations[2 * k].value.downgrade

\* The last hop sent its request to the current URL, and its headers follow
\* in their order.
Headers == Cardinality(Header)

HeaderAt == CHOOSE s \in [1..Headers -> Header] : \A m, n \in DOMAIN s : s[m] = s[n] => m = n

HeadersInv ==
    /\ Len(sent) = hop + 1
    /\ sent[hop + 1][1] = current
    /\ Len(observations) = 2 * hop + 1 + Headers
    /\ \A m \in 1..Headers :
        LET o == observations[2 * hop + 1 + m] IN
        o.kind = "HTTP_HEADER" /\ o.key = HeaderAt[m] /\ "present" \in DOMAIN o.value

WayInv ==
    /\ pc \in {"entering", "resolving", "fetching"} => TrailInv /\ Len(observations) = 2 * hop
    /\ pc = "completed" => TrailInv /\ HeadersInv

\* The order of the headers has each of them once.
LEMMA EveryHeaderIsListed ==
    /\ Headers \in Nat
    /\ HeaderAt \in [1..Headers -> Header]
    /\ \A m, n \in 1..Headers : HeaderAt[m] = HeaderAt[n] => m = n
    /\ \A h \in Header : \E m \in 1..Headers : HeaderAt[m] = h
<1>1. Headers \in Nat /\ ExistsBijection(1..Headers, Header)
  BY HeadersAreListed, FS_CardinalityType DEF Headers
<1>2. \E s \in [1..Headers -> Header] : \A m, n \in DOMAIN s : s[m] = s[n] => m = n
  BY <1>1 DEF ExistsBijection, Bijection, Injection, IsInjective
<1>3. /\ HeaderAt \in [1..Headers -> Header]
      /\ \A m, n \in 1..Headers : HeaderAt[m] = HeaderAt[n] => m = n
  BY <1>2 DEF HeaderAt
<1>4. HeaderAt \in Injection(1..Headers, Header)
  BY <1>3 DEF Injection, IsInjective
<1>5. IsFiniteSet(1..Headers) /\ Cardinality(1..Headers) = Headers
  BY <1>1, FS_Interval
<1>6. HeaderAt \in Surjection(1..Headers, Header)
  BY <1>4, <1>5, HeadersAreListed, FS_Injection DEF Headers
<1> QED
  BY <1>1, <1>3, <1>6 DEF Surjection

\* What the collector writes down of one answer.
LEMMA WhatIsTold ==
    ASSUME IInv, NEW peer \in Address, NEW url \in Url, NEW present
    PROVE  /\ ResponseAt(peer) \in Told
           /\ RedirectTo(url) \in Told
           /\ HeaderFacts(present) \in Seq(Told)
           /\ Len(HeaderFacts(present)) = Headers
           /\ \A m \in 1..Headers :
                HeaderFacts(present)[m]
                    = Observation("HTTP_HEADER", HeaderAt[m], [present |-> HeaderAt[m] \in present])
<1>1. current \in Url /\ hop \in Nat /\ SchemeOf[current] \in {"http", "https"}
  BY Schemes, RedirectBound DEF IInv, CollectorTypeOK
<1>2. ResponseAt(peer) \in Told
  BY <1>1 DEF ResponseAt, Observation, Told
<1>3. RedirectTo(url) \in Told
  BY <1>1 DEF RedirectTo, Observation, Told
<1>4. HeaderFacts(present)
        = [m \in 1..Headers |->
            Observation("HTTP_HEADER", HeaderAt[m], [present |-> HeaderAt[m] \in present])]
  BY DEF HeaderFacts, HeaderAt, Headers
<1>5. \A m \in 1..Headers :
        Observation("HTTP_HEADER", HeaderAt[m], [present |-> HeaderAt[m] \in present]) \in Told
  BY EveryHeaderIsListed DEF Observation, Told
<1> QED
  BY <1>2, <1>3, <1>4, <1>5, EveryHeaderIsListed

-----------------------------------------------------------------------------
LEMMA InitWay == Init => WayInv
BY StartIsHttps DEF Init, WayInv, TrailInv

\* One more request, and what it adds after the observations so far.
LEMMA TrailGrows ==
    ASSUME IInv, TrailInv, pc = "fetching", Len(observations) = 2 * hop,
           NEW peer \in Address, sent' = Append(sent, <<current, peer>>),
           NEW rest \in Seq(Told), observations' = Append(observations, ResponseAt(peer)) \o rest
    PROVE  /\ observations' \in Seq(Told)
           /\ Len(observations') = 2 * hop + 1 + Len(rest)
           /\ Len(sent) = hop /\ Len(sent') = hop + 1
           /\ \A k \in 1..hop : sent'[k] = sent[k]
           /\ sent'[hop + 1] = <<current, peer>>
           /\ \A n \in 1..(2 * hop) : observations'[n] = observations[n]
           /\ \A m \in 1..Len(rest) : observations'[2 * hop + 1 + m] = rest[m]
           /\ \A k \in 1..(hop + 1) : ResponseTold(k)'
<1>1. /\ sent \in Seq(Url \X Address) /\ current \in Url /\ hop \in Nat
      /\ Len(sent) = hop
  BY RedirectBound DEF IInv, CollectorTypeOK, HopInv
<1>2. /\ Len(sent') = hop + 1
      /\ \A k \in 1..hop : sent'[k] = sent[k]
      /\ sent'[hop + 1] = <<current, peer>>
  BY <1>1
<1> DEFINE told == Append(observations, ResponseAt(peer))
<1>3. ResponseAt(peer) \in Told
  BY <1>1, WhatIsTold
<1>4. observations \in Seq(Told)
  BY DEF TrailInv
<1>5. /\ told \in Seq(Told) /\ Len(told) = 2 * hop + 1
      /\ told[2 * hop + 1] = ResponseAt(peer)
      /\ \A n \in 1..(2 * hop) : told[n] = observations[n]
  BY <1>1, <1>3, <1>4
<1> HIDE DEF told
<1>6. observations' = told \o rest
  BY DEF told
<1>7. Len(rest) \in Nat
  OBVIOUS
<1>8. /\ observations' \in Seq(Told)
      /\ Len(observations') = 2 * hop + 1 + Len(rest)
      /\ \A n \in 1..(2 * hop + 1 + Len(rest)) :
           observations'[n] = IF n <= 2 * hop + 1 THEN told[n] ELSE rest[n - (2 * hop + 1)]
  <2>1. /\ told \o rest \in Seq(Told)
        /\ Len(told \o rest) = Len(told) + Len(rest)
        /\ \A i \in 1..(Len(told) + Len(rest)) :
             (told \o rest)[i] = IF i <= Len(told) THEN told[i] ELSE rest[i - Len(told)]
    BY <1>5, ConcatProperties, Zenon
  <2> QED
    BY <1>5, <1>6, <2>1
<1>9. \A n \in 1..(2 * hop) : observations'[n] = observations[n]
  BY <1>1, <1>5, <1>7, <1>8
<1>10. observations'[2 * hop + 1] = ResponseAt(peer)
  BY <1>1, <1>5, <1>7, <1>8
<1>11. ASSUME NEW m \in 1..Len(rest)
       PROVE  observations'[2 * hop + 1 + m] = rest[m]
  <2>1. 2 * hop + 1 + m \in 1..(2 * hop + 1 + Len(rest)) /\ ~(2 * hop + 1 + m <= 2 * hop + 1)
    BY <1>1, <1>7
  <2>2. (2 * hop + 1 + m) - (2 * hop + 1) = m
    BY <1>1, <1>7
  <2> QED
    BY <1>8, <2>1, <2>2
<1>12. ASSUME NEW k \in 1..(hop + 1)
       PROVE  ResponseTold(k)'
  <2>1. CASE k \in 1..hop
    <3>1. 2 * k - 1 \in 1..(2 * hop) /\ 2 * k - 1 <= Len(observations')
      BY <1>1, <1>7, <1>8, <2>1
    <3>2. ResponseTold(k)
      BY <1>1, <2>1 DEF TrailInv
    <3>3. observations'[2 * k - 1] = observations[2 * k - 1] /\ sent'[k] = sent[k]
      BY <1>2, <1>9, <2>1, <3>1
    <3> QED
      BY <3>1, <3>2, <3>3 DEF ResponseTold
  <2>2. CASE k = hop + 1
    <3>1. 2 * k - 1 = 2 * hop + 1 /\ 2 * k - 1 <= Len(observations') /\ hop = k - 1
      BY <1>1, <1>7, <1>8, <2>2
    <3>2. observations'[2 * k - 1] = ResponseAt(peer) /\ sent'[k] = <<current, peer>>
      BY <1>2, <1>10, <2>2, <3>1
    <3>3. /\ ResponseAt(peer).kind = "HTTP_RESPONSE" /\ ResponseAt(peer).key = k - 1
          /\ ResponseAt(peer).value.peer = peer
      BY <3>1 DEF ResponseAt, Observation
    <3>4. sent'[k][2] = peer
      <4>1. <<current, peer>>[2] = peer
        OBVIOUS
      <4> QED
        BY <3>2, <4>1, Zenon
    <3>5. /\ observations'[2 * k - 1].kind = "HTTP_RESPONSE"
          /\ observations'[2 * k - 1].key = k - 1
          /\ observations'[2 * k - 1].value.peer = sent'[k][2]
      BY <3>2, <3>3, <3>4, Zenon
    <3> QED
      BY <3>1, <3>5 DEF ResponseTold
  <2>3. k \in 1..hop \/ k = hop + 1
    BY <1>1
  <2> QED
    BY <2>1, <2>2, <2>3
<1> QED
  BY <1>1, <1>2, <1>8, <1>9, <1>11, <1>12

\* A followed redirect.
LEMMA RedirectWay ==
    ASSUME IInv, WayInv, FetchRedirect
    PROVE  TrailInv' /\ Len(observations') = 2 * hop'
<1>1. PICK peer \in Address, url \in Url :
         /\ sent' = Append(sent, <<current, peer>>)
         /\ observations' = observations \o <<ResponseAt(peer), RedirectTo(url)>>
         /\ current' = url
  BY DEF FetchRedirect, Normalizes
<1>2. pc = "fetching" /\ hop' = hop + 1 /\ TrailInv /\ Len(observations) = 2 * hop
  BY DEF FetchRedirect, WayInv
<1>3. hop \in Nat /\ current \in Url
  BY RedirectBound DEF IInv, CollectorTypeOK
<1> DEFINE rest == <<RedirectTo(url)>>
<1>4. ResponseAt(peer) \in Told /\ RedirectTo(url) \in Told
  BY <1>1, WhatIsTold
<1>5. observations' = Append(observations, ResponseAt(peer)) \o rest
  <2>1. observations \in Seq(Told)
    BY <1>2 DEF TrailInv
  <2>2. /\ <<ResponseAt(peer)>> \in Seq(Told) /\ rest \in Seq(Told)
        /\ Append(observations, ResponseAt(peer)) = observations \o <<ResponseAt(peer)>>
        /\ <<ResponseAt(peer), RedirectTo(url)>> = <<ResponseAt(peer)>> \o rest
    BY <1>4, <2>1
  <2> QED
    BY <1>1, <2>1, <2>2, ConcatAssociative
<1>6. rest \in Seq(Told) /\ Len(rest) = 1 /\ rest[1] = RedirectTo(url)
  BY <1>4
<1> HIDE DEF rest
<1>7. /\ observations' \in Seq(Told)
      /\ Len(observations') = 2 * hop + 2
      /\ Len(sent) = hop /\ Len(sent') = hop + 1
      /\ \A k \in 1..hop : sent'[k] = sent[k]
      /\ sent'[hop + 1] = <<current, peer>>
      /\ \A n \in 1..(2 * hop) : observations'[n] = observations[n]
      /\ observations'[2 * hop + 2] = RedirectTo(url)
      /\ \A k \in 1..(hop + 1) : ResponseTold(k)'
  <2>1. /\ observations' \in Seq(Told)
        /\ Len(observations') = 2 * hop + 1 + Len(rest)
        /\ Len(sent) = hop /\ Len(sent') = hop + 1
        /\ \A k \in 1..hop : sent'[k] = sent[k]
        /\ sent'[hop + 1] = <<current, peer>>
        /\ \A n \in 1..(2 * hop) : observations'[n] = observations[n]
        /\ \A m \in 1..Len(rest) : observations'[2 * hop + 1 + m] = rest[m]
        /\ \A k \in 1..(hop + 1) : ResponseTold(k)'
    BY <1>1, <1>2, <1>5, <1>6, TrailGrows
  <2>2. observations'[2 * hop + 1 + 1] = RedirectTo(url) /\ 2 * hop + 1 + 1 = 2 * hop + 2
    BY <1>3, <1>6, <2>1
  <2> QED
    BY <1>3, <1>6, <2>1, <2>2
<1>8. \A k \in 1..Len(sent') : ResponseTold(k)'
  BY <1>3, <1>7
<1>9. ASSUME NEW k \in 1..hop'
      PROVE  RedirectTold(k)'
  <2>1. CASE k \in 1..hop
    <3>1. 2 * k \in 1..(2 * hop) /\ 2 * k <= Len(observations')
      BY <1>3, <1>7, <2>1
    <3>2. RedirectTold(k)
      BY <1>2, <2>1 DEF TrailInv
    <3>3. observations'[2 * k] = observations[2 * k]
      BY <1>7, <3>1
    <3>4. UrlAt(k + 1)' = UrlAt(k + 1)
      <4>1. CASE k < hop
        <5>1. k + 1 \in 1..hop
          BY <1>3, <2>1, <4>1
        <5> QED
          BY <1>3, <1>7, <5>1 DEF UrlAt
      <4>2. CASE k = hop
        <5>1. UrlAt(k + 1) = current
          BY <1>3, <1>7, <4>2 DEF UrlAt
        <5>2. UrlAt(k + 1)' = current
          BY <1>3, <1>7, <4>2 DEF UrlAt
        <5> QED
          BY <5>1, <5>2
      <4> QED
        BY <1>3, <2>1, <4>1, <4>2
    <3> QED
      BY <3>1, <3>2, <3>3, <3>4 DEF RedirectTold
  <2>2. CASE k = hop + 1
    <3>1. 2 * k = 2 * hop + 2 /\ 2 * k <= Len(observations')
      <4>1. 2 * k = 2 * hop + 2
        BY <1>3, <2>2
      <4> QED
        BY <1>3, <1>7, <4>1
    <3>2. UrlAt(k + 1)' = url
      BY <1>1, <1>3, <1>7, <2>2 DEF UrlAt
    <3>3. observations'[2 * k] = RedirectTo(url)
      BY <1>7, <3>1
    <3>4. /\ RedirectTo(url).kind = "HTTP_REDIRECT" /\ RedirectTo(url).key = k - 1
          /\ RedirectTo(url).value.to = OriginOf[url]
      BY <1>3, <2>2 DEF RedirectTo, Observation
    <3> QED
      BY <3>1, <3>2, <3>3, <3>4 DEF RedirectTold
  <2>3. k \in 1..hop \/ k = hop + 1
    BY <1>2, <1>3
  <2> QED
    BY <2>1, <2>2, <2>3
<1>10. ASSUME SchemeOf[current'] = "http"
       PROVE  \E k \in 1..hop' : observations'[2 * k].value.downgrade
  <2>1. CASE SchemeOf[current] = "https"
    <3>1. observations'[2 * (hop + 1)] = RedirectTo(url)
      BY <1>3, <1>7
    <3>2. RedirectTo(url).value.downgrade
      BY <1>1, <1>10, <2>1 DEF RedirectTo, Observation
    <3>3. hop + 1 \in 1..hop'
      BY <1>2, <1>3
    <3> QED
      BY <3>1, <3>2, <3>3
  <2>2. CASE SchemeOf[current] = "http"
    <3>1. PICK k \in 1..hop : observations[2 * k].value.downgrade
      BY <1>2, <2>2 DEF TrailInv
    <3>2. 2 * k \in 1..(2 * hop) /\ k \in 1..hop'
      BY <1>2, <1>3
    <3> QED
      BY <1>7, <3>1, <3>2
  <2> QED
    BY <1>3, <2>1, <2>2, Schemes
<1>11. Len(observations') = 2 * hop'
  BY <1>2, <1>3, <1>7
<1> QED
  BY <1>7, <1>8, <1>9, <1>10, <1>11 DEF TrailInv

\* The last answer.
LEMMA FinalWay ==
    ASSUME IInv, WayInv, FetchFinal
    PROVE  TrailInv' /\ HeadersInv'
<1>1. PICK peer \in Address, present \in SUBSET Header :
         /\ sent' = Append(sent, <<current, peer>>)
         /\ observations' = Append(observations, ResponseAt(peer)) \o HeaderFacts(present)
  BY DEF FetchFinal
<1>2. /\ pc = "fetching" /\ hop' = hop /\ current' = current
      /\ TrailInv /\ Len(observations) = 2 * hop
  BY DEF FetchFinal, WayInv
<1>3. hop \in Nat /\ current \in Url /\ Headers \in Nat
  BY RedirectBound, EveryHeaderIsListed DEF IInv, CollectorTypeOK
<1> DEFINE rest == HeaderFacts(present)
<1>4. /\ rest \in Seq(Told) /\ Len(rest) = Headers
      /\ \A m \in 1..Headers :
           rest[m] = Observation("HTTP_HEADER", HeaderAt[m], [present |-> HeaderAt[m] \in present])
  BY <1>1, <1>3, WhatIsTold
<1>5. observations' = Append(observations, ResponseAt(peer)) \o rest
  BY <1>1
<1> HIDE DEF rest
<1>6. /\ observations' \in Seq(Told)
      /\ Len(observations') = 2 * hop + 1 + Headers
      /\ Len(sent) = hop /\ Len(sent') = hop + 1
      /\ \A k \in 1..hop : sent'[k] = sent[k]
      /\ sent'[hop + 1] = <<current, peer>>
      /\ \A n \in 1..(2 * hop) : observations'[n] = observations[n]
      /\ \A m \in 1..Headers : observations'[2 * hop + 1 + m] = rest[m]
      /\ \A k \in 1..(hop + 1) : ResponseTold(k)'
  BY <1>1, <1>2, <1>4, <1>5, TrailGrows
<1>7. \A k \in 1..Len(sent') : ResponseTold(k)'
  BY <1>6
<1>8. ASSUME NEW k \in 1..hop'
      PROVE  RedirectTold(k)'
  <2>1. k \in 1..hop
    BY <1>2
  <2>2. 2 * k \in 1..(2 * hop) /\ 2 * k <= Len(observations')
    BY <1>3, <1>6, <2>1
  <2>3. RedirectTold(k)
    BY <1>2, <2>1 DEF TrailInv
  <2>4. observations'[2 * k] = observations[2 * k]
    BY <1>6, <2>2
  <2>5. UrlAt(k + 1)' = UrlAt(k + 1)
    <3>1. CASE k < hop
      <4>1. k + 1 \in 1..hop
        BY <1>3, <2>1, <3>1
      <4> QED
        BY <1>3, <1>6, <4>1 DEF UrlAt
    <3>2. CASE k = hop
      <4>1. UrlAt(k + 1) = current
        BY <1>3, <1>6, <3>2 DEF UrlAt
      <4>2. UrlAt(k + 1)' = sent'[hop + 1][1]
        BY <1>3, <1>6, <3>2 DEF UrlAt
      <4>3. <<current, peer>>[1] = current
        OBVIOUS
      <4>4. sent'[hop + 1][1] = current
        BY <1>6, <4>3, Zenon
      <4> QED
        BY <4>1, <4>2, <4>4
    <3> QED
      BY <1>3, <2>1, <3>1, <3>2
  <2> QED
    BY <2>2, <2>3, <2>4, <2>5 DEF RedirectTold
<1>9. ASSUME SchemeOf[current'] = "http"
      PROVE  \E k \in 1..hop' : observations'[2 * k].value.downgrade
  <2>1. PICK k \in 1..hop : observations[2 * k].value.downgrade
    BY <1>2, <1>9 DEF TrailInv
  <2>2. 2 * k \in 1..(2 * hop)
    BY <1>3
  <2> QED
    BY <1>2, <1>6, <2>1, <2>2
<1>10. TrailInv'
  BY <1>6, <1>7, <1>8, <1>9 DEF TrailInv
<1>11. ASSUME NEW m \in 1..Headers
       PROVE  LET o == observations'[2 * hop' + 1 + m] IN
              o.kind = "HTTP_HEADER" /\ o.key = HeaderAt[m] /\ "present" \in DOMAIN o.value
  <2>1. observations'[2 * hop' + 1 + m]
          = Observation("HTTP_HEADER", HeaderAt[m], [present |-> HeaderAt[m] \in present])
    BY <1>2, <1>4, <1>6
  <2> QED
    BY <2>1 DEF Observation
<1>12. sent'[hop' + 1][1] = current'
  <2>1. <<current, peer>>[1] = current
    OBVIOUS
  <2> QED
    BY <1>2, <1>6, <2>1, Zenon
<1> QED
  BY <1>2, <1>6, <1>10, <1>11, <1>12 DEF HeadersInv, Headers, HeaderAt

LEMMA NextWay == IInv /\ WayInv /\ [Next]_vars => WayInv'
<1> SUFFICES ASSUME IInv, WayInv, [Next]_vars
             PROVE  WayInv'
  OBVIOUS
<1>1. ASSUME UNCHANGED <<current, hop, observations, sent>>, pc' # "completed",
             pc \in {"entering", "resolving", "fetching"}
      PROVE  WayInv'
  BY <1>1 DEF WayInv, TrailInv, ResponseTold, RedirectTold, UrlAt
<1>2. CASE UNCHANGED vars
  BY <1>2 DEF vars, WayInv, TrailInv, HeadersInv, Headers, HeaderAt,
              ResponseTold, RedirectTold, UrlAt
<1>3. CASE Enter \/ Resolve \/ ConnectionFails
  BY <1>1, <1>3 DEF Enter, Resolve, ConnectionFails
<1>4. CASE ExchangeFails \/ FetchRefused
  BY <1>4 DEF ExchangeFails, FetchRefused, WayInv
<1>5. CASE FetchRedirect
  <2>1. pc' = "entering"
    BY <1>5 DEF FetchRedirect
  <2> QED
    BY <1>5, <2>1, RedirectWay DEF WayInv
<1>6. CASE FetchFinal
  <2>1. pc' = "completed"
    BY <1>6 DEF FetchFinal
  <2> QED
    BY <1>6, <2>1, FinalWay DEF WayInv
<1> QED
  BY <1>2, <1>3, <1>4, <1>5, <1>6 DEF Next, Step

\* The invariant holds throughout: what _collect has appended so far tells each
\* request and each redirect of the way, in order.
THEOREM WayInvariant == Spec => [](IInv /\ WayInv)
<1>1. Init => IInv /\ WayInv
  BY InitInv, InitWay
<1>2. IInv /\ WayInv /\ [Next]_vars => (IInv /\ WayInv)'
  BY NextInv, NextWay
<1> QED
  BY <1>1, <1>2, PTL DEF Spec

-----------------------------------------------------------------------------
LEMMA Halves == \A n \in Nat : \E k \in Nat : n = 2 * k \/ n = 2 * k + 1
<1> SUFFICES ASSUME NEW n \in Nat
             PROVE  \E k \in Nat : n = 2 * k \/ n = 2 * k + 1
  OBVIOUS
<1>1. /\ n \div 2 \in Nat /\ n % 2 \in 0..1
      /\ n = 2 * (n \div 2) + (n % 2)
  OBVIOUS
<1> QED
  BY <1>1

\* Where a completed collection has each kind.
LEMMA WhereKindsAre ==
    ASSUME IInv, WayInv, pc = "completed"
    PROVE  /\ Of("HTTP_RESPONSE") = {2 * k - 1 : k \in 1..Len(sent)}
           /\ Of("HTTP_REDIRECT") = {2 * k : k \in 1..hop}
           /\ Of("HTTP_HEADER") = {2 * hop + 1 + m : m \in 1..Headers}
           /\ DOMAIN observations = 1..(2 * hop + 1 + Headers)
           /\ Len(sent) = hop + 1
           /\ hop \in Nat
           /\ Headers \in Nat
<1>1. /\ TrailInv /\ HeadersInv /\ hop \in Nat /\ Headers \in Nat
      /\ Len(sent) = hop + 1
  BY RedirectBound, EveryHeaderIsListed DEF WayInv, HeadersInv, IInv, CollectorTypeOK
<1>2. DOMAIN observations = 1..(2 * hop + 1 + Headers)
  BY <1>1 DEF TrailInv, HeadersInv
<1>3. ASSUME NEW n \in DOMAIN observations
      PROVE  \/ \E k \in 1..(hop + 1) : n = 2 * k - 1
             \/ \E k \in 1..hop : n = 2 * k
             \/ \E m \in 1..Headers : n = 2 * hop + 1 + m
  <2>1. CASE n <= 2 * hop + 1
    <3>1. PICK k \in Nat : n = 2 * k \/ n = 2 * k + 1
      <4>1. n \in Nat
        BY <1>2
      <4> QED
        BY <4>1, Halves
    <3>2. CASE n = 2 * k
      <4>1. k \in 1..hop
        BY <1>1, <1>2, <2>1, <3>2
      <4> QED
        BY <3>2, <4>1
    <3>3. CASE n = 2 * k + 1
      <4>1. k + 1 \in 1..(hop + 1) /\ n = 2 * (k + 1) - 1
        BY <1>1, <1>2, <2>1, <3>3
      <4> QED
        BY <4>1
    <3> QED
      BY <3>1, <3>2, <3>3
  <2>2. CASE n > 2 * hop + 1
    <3>1. n - (2 * hop + 1) \in 1..Headers /\ n = 2 * hop + 1 + (n - (2 * hop + 1))
      BY <1>1, <1>2, <2>2
    <3> QED
      BY <3>1
  <2> QED
    BY <1>1, <1>2, <2>1, <2>2
<1>4. ASSUME NEW k \in 1..(hop + 1)
      PROVE  2 * k - 1 \in DOMAIN observations /\ observations[2 * k - 1].kind = "HTTP_RESPONSE"
  <2>1. 2 * k - 1 \in DOMAIN observations
    BY <1>1, <1>2
  <2> QED
    BY <1>1, <2>1 DEF TrailInv, ResponseTold
<1>5. ASSUME NEW k \in 1..hop
      PROVE  2 * k \in DOMAIN observations /\ observations[2 * k].kind = "HTTP_REDIRECT"
  <2>1. 2 * k \in DOMAIN observations
    BY <1>1, <1>2
  <2> QED
    BY <1>1, <2>1 DEF TrailInv, RedirectTold
<1>6. ASSUME NEW m \in 1..Headers
      PROVE  /\ 2 * hop + 1 + m \in DOMAIN observations
             /\ observations[2 * hop + 1 + m].kind = "HTTP_HEADER"
  <2>1. 2 * hop + 1 + m \in DOMAIN observations
    BY <1>1, <1>2
  <2> QED
    BY <1>1, <2>1 DEF HeadersInv
<1>7. Of("HTTP_RESPONSE") = {2 * k - 1 : k \in 1..(hop + 1)}
  BY <1>3, <1>4, <1>5, <1>6 DEF Of
<1>8. Of("HTTP_REDIRECT") = {2 * k : k \in 1..hop}
  BY <1>3, <1>4, <1>5, <1>6 DEF Of
<1>9. Of("HTTP_HEADER") = {2 * hop + 1 + m : m \in 1..Headers}
  BY <1>3, <1>4, <1>5, <1>6 DEF Of
<1> QED
  BY <1>1, <1>2, <1>7, <1>8, <1>9

LEMMA TheWayIsTold == IInv /\ WayInv => ObservationsTellTheWay
<1> SUFFICES ASSUME IInv, WayInv, pc = "completed"
             PROVE  /\ {<<observations[n].key, observations[n].value.peer>> :
                            n \in Of("HTTP_RESPONSE")}
                        = {<<n - 1, sent[n][2]>> : n \in DOMAIN sent}
                    /\ \A n \in Of("HTTP_REDIRECT") :
                        observations[n].value.to = OriginOf[sent[observations[n].key + 2][1]]
                    /\ Cardinality(Of("HTTP_REDIRECT")) + 1 = Len(sent)
                    /\ SchemeOf[current] = "http" =>
                        \E n \in Of("HTTP_REDIRECT") : observations[n].value.downgrade
  BY DEF ObservationsTellTheWay
<1>1. TrailInv /\ HeadersInv
  BY DEF WayInv
<1>2. DOMAIN sent = 1..Len(sent) /\ Len(sent) = hop + 1 /\ hop \in Nat
  BY WhereKindsAre DEF IInv, CollectorTypeOK
<1>3. {<<observations[n].key, observations[n].value.peer>> : n \in Of("HTTP_RESPONSE")}
        = {<<n - 1, sent[n][2]>> : n \in DOMAIN sent}
  <2>1. \A k \in 1..Len(sent) :
          <<observations[2 * k - 1].key, observations[2 * k - 1].value.peer>>
            = <<k - 1, sent[k][2]>>
    BY <1>1 DEF TrailInv, ResponseTold
  <2>2. Of("HTTP_RESPONSE") = {2 * k - 1 : k \in 1..Len(sent)}
    BY WhereKindsAre
  <2>3. ASSUME NEW n \in Of("HTTP_RESPONSE")
        PROVE  \E k \in DOMAIN sent :
                <<observations[n].key, observations[n].value.peer>> = <<k - 1, sent[k][2]>>
    <3>1. PICK k \in 1..Len(sent) : n = 2 * k - 1
      BY <2>2
    <3> QED
      BY <1>2, <2>1, <3>1, Zenon
  <2>4. ASSUME NEW k \in DOMAIN sent
        PROVE  \E n \in Of("HTTP_RESPONSE") :
                <<k - 1, sent[k][2]>> = <<observations[n].key, observations[n].value.peer>>
    <3>1. 2 * k - 1 \in Of("HTTP_RESPONSE")
      BY <1>2, <2>2
    <3> QED
      BY <1>2, <2>1, <3>1, Zenon
  <2> DEFINE told == {<<observations[n].key, observations[n].value.peer>> :
                         n \in Of("HTTP_RESPONSE")}
             way == {<<n - 1, sent[n][2]>> : n \in DOMAIN sent}
  <2>5. told \subseteq way
    BY <2>3
  <2>6. way \subseteq told
    BY <2>4
  <2>7. told = way
    BY <2>5, <2>6
  <2> QED
    BY <2>7
<1>4. \A n \in Of("HTTP_REDIRECT") :
        observations[n].value.to = OriginOf[sent[observations[n].key + 2][1]]
  <2> SUFFICES ASSUME NEW n \in Of("HTTP_REDIRECT")
               PROVE  observations[n].value.to = OriginOf[sent[observations[n].key + 2][1]]
    OBVIOUS
  <2>1. PICK k \in 1..hop : n = 2 * k
    BY WhereKindsAre
  <2>2. observations[n].key = k - 1 /\ observations[n].value.to = OriginOf[UrlAt(k + 1)]
    BY <1>1, <2>1 DEF TrailInv, RedirectTold
  <2>3. UrlAt(k + 1) = sent[k + 1][1]
    BY <1>2 DEF UrlAt
  <2>4. observations[n].key + 2 = k + 1
    BY <1>2, <2>2
  <2> QED
    BY <2>2, <2>3, <2>4
<1>5. Cardinality(Of("HTTP_REDIRECT")) = hop
  <2> DEFINE double == [k \in 1..hop |-> 2 * k]
  <2>1. Of("HTTP_REDIRECT") = {2 * k : k \in 1..hop}
    BY WhereKindsAre
  <2>2. double \in Bijection(1..hop, Of("HTTP_REDIRECT"))
    BY <1>2, <2>1 DEF Bijection, Injection, Surjection, IsInjective
  <2>3. ExistsBijection(1..hop, Of("HTTP_REDIRECT"))
    BY <2>2 DEF ExistsBijection
  <2> QED
    BY <1>2, <2>3, FS_CountingElements
<1>6. SchemeOf[current] = "http" =>
        \E n \in Of("HTTP_REDIRECT") : observations[n].value.downgrade
  BY <1>1, WhereKindsAre DEF TrailInv
<1> QED
  BY <1>2, <1>3, <1>4, <1>5, <1>6

\* Whatever the site answers, a completed collection tells the way it went.
THEOREM CompletedTellsTheWay == Spec => []ObservationsTellTheWay
BY TheWayIsTold, WayInvariant, PTL

-----------------------------------------------------------------------------
(* What is decided. *)

\* In a completed collection a rule has one well-formed observation, and so a
\* rule that applies is decided.
LEMMA RulesAreDecided ==
    ASSUME IInv, WayInv, pc = "completed", NEW rule \in Rules
    PROVE  LET outcome == Outcome(rule, SchemeOf[current], observations) IN
           IF Applies(rule, SchemeOf[current]) THEN outcome \in Decisive
           ELSE outcome = "NOT_APPLICABLE"
<1>1. HeadersInv
  BY DEF WayInv
<1>2. rule.kind = "HTTP_HEADER" /\ rule.key \in Header
  BY RulesAreOfHeaders
<1>3. PICK m \in 1..Headers : HeaderAt[m] = rule.key
  BY <1>2, EveryHeaderIsListed
<1> DEFINE here == 2 * hop + 1 + m
           found == Matches(rule, observations)
<1>4. here \in found
  <2>1. here \in Of("HTTP_HEADER")
    BY WhereKindsAre
  <2> QED
    BY <1>1, <1>2, <1>3, <2>1 DEF Matches, HeadersInv, Of
<1>5. ASSUME NEW n \in found
      PROVE  n = here
  <2>1. n \in Of("HTTP_HEADER") /\ observations[n].key = rule.key
    BY <1>2 DEF Matches, Of
  <2>2. PICK l \in 1..Headers : n = 2 * hop + 1 + l
    BY <2>1, WhereKindsAre
  <2>3. HeaderAt[l] = HeaderAt[m]
    BY <1>1, <1>3, <2>1, <2>2 DEF HeadersInv
  <2> QED
    BY <1>3, <2>2, <2>3, EveryHeaderIsListed
<1>6. found = {here}
  BY <1>4, <1>5
<1>7. Cardinality(found) = 1 /\ found # {} /\ (CHOOSE n \in found : TRUE) = here
  BY <1>6, FS_Singleton
<1>8. WellFormed(observations[here])
  BY <1>1, <1>3 DEF WellFormed, HeadersInv
<1> HIDE DEF here, found
<1>9. CASE Applies(rule, SchemeOf[current])
  <2>1. WellFormed(observations[CHOOSE n \in found : TRUE]) /\ ~(Cardinality(found) > 1)
    <3>1. WellFormed(observations[CHOOSE n \in found : TRUE])
      BY <1>7, <1>8, Zenon
    <3> QED
      BY <1>7, <3>1
  <2>2. Outcome(rule, SchemeOf[current], observations) \in {"PASS", "FAIL"}
    BY <1>7, <1>9, <2>1 DEF Outcome, found
  <2> QED
    BY <1>9, <2>2 DEF Decisive
<1>10. CASE ~Applies(rule, SchemeOf[current])
  BY <1>10 DEF Outcome
<1> QED
  BY <1>9, <1>10

LEMMA AllIsDecided == IInv /\ WayInv => CompletedIsDecided
<1> SUFFICES ASSUME IInv, WayInv, pc = "completed"
             PROVE  /\ Assessed.evidence = DOMAIN observations
                    /\ Accepted(Assessed)
                    /\ \A e \in Assessed.evaluations :
                        IF e.outcome \in Decisive
                        THEN \A r \in Rules :
                                r.id = e.rule => Applies(r, SchemeOf[sent[Len(sent)][1]])
                        ELSE e.outcome = "NOT_APPLICABLE"
  BY DEF CompletedIsDecided
<1>1. TrailInv /\ HeadersInv
  BY DEF WayInv
<1>2. IsFiniteSet(DOMAIN observations)
  <2>1. DOMAIN observations = 1..Len(observations) /\ Len(observations) \in Int
    BY <1>1 DEF TrailInv
  <2> QED
    BY <2>1, FS_Interval
<1>3. Evidence(observations, RegisteredKinds, OriginOf[Start]) = DOMAIN observations
  <2>1. \A n \in DOMAIN observations : observations[n] \in Told
    BY <1>1 DEF TrailInv
  <2>2. \A o \in Told : o.kind \in RegisteredKinds /\ o.subject = OriginOf[Start]
    BY DEF Told, RegisteredKinds
  <2> QED
    BY <2>1, <2>2 DEF Evidence, Admissible
<1>4. /\ Assessed.evidence = DOMAIN observations
      /\ Assessed.evaluations = Evaluations(Rules, SchemeOf[current], observations)
  BY <1>3 DEF Assessed, Review
<1>5. Accepted(Assessed)
  BY <1>2, <1>3, ReviewIsAccepted DEF Assessed
<1>6. sent[Len(sent)][1] = current
  BY <1>1 DEF HeadersInv
<1>7. ASSUME NEW e \in Assessed.evaluations
      PROVE  IF e.outcome \in Decisive
             THEN \A r \in Rules : r.id = e.rule => Applies(r, SchemeOf[current])
             ELSE e.outcome = "NOT_APPLICABLE"
  <2>1. PICK rule \in Rules : e = Evaluation(rule, SchemeOf[current], observations)
    BY <1>4 DEF Evaluations
  <2>2. /\ e.outcome = Outcome(rule, SchemeOf[current], observations)
        /\ e.rule = rule.id
    BY <2>1 DEF Evaluation
  <2>3. CASE Applies(rule, SchemeOf[current])
    BY <2>2, <2>3, RulesAreDecided, OneRuleForAnId
  <2>4. CASE ~Applies(rule, SchemeOf[current])
    <3>1. e.outcome = "NOT_APPLICABLE"
      BY <2>2, <2>4, RulesAreDecided
    <3> QED
      BY <3>1 DEF Decisive
  <2> QED
    BY <2>3, <2>4
<1> QED
  BY <1>4, <1>5, <1>6, <1>7

\* Whatever the site answers, a completed collection makes a Review that the
\* constructors accept and in which every rule is decided for the last scheme.
THEOREM CompletedDecides == Spec => []CompletedIsDecided
BY AllIsDecided, WayInvariant, PTL

=============================================================================
