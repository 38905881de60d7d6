---------------------- MODULE MCCeloSettlementVerifier ----------------------
EXTENDS CeloSettlementVerifier, TLC

CONSTANTS c1, c2, t1, t2, a1, s1, s2

\* Both transactions submit a1: a claim may name either.
MCRuns == [t \in {t1, t2} |-> a1]

MCSymmetry == Permutations({c1, c2}) \cup Permutations({t1, t2}) \cup Permutations({s1, s2})

=============================================================================
