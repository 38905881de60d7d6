------------------------ MODULE MCReferenceCollector ------------------------
EXTENDS ReferenceCollector

CONSTANTS home, page, plain, other, far, inner, front, back

MCSchemeOf == [u \in Url |-> IF u = plain THEN "http" ELSE "https"]
MCOriginOf == [u \in Url |-> IF u \in {home, page} THEN "https://home"
                             ELSE IF u = plain THEN "http://home" ELSE "https://other"]

Rule(id, key, scheme, severity) ==
    [id |-> id, version |-> 1, kind |-> "HTTP_HEADER", key |-> key, expected |-> TRUE,
     scheme |-> scheme, severity |-> severity]

MCRules == {Rule("HSTS", "hsts", {"https"}, "MEDIUM"), Rule("CSP", "csp", {}, "MEDIUM")}

=============================================================================
