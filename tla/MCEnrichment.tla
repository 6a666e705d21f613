---------------------------- MODULE MCEnrichment ----------------------------
\* One viewer and the worker; a host with two services; two feeds, of which
\* one or both report the host.
EXTENDS Enrichment, TLC
CONSTANTS w, v, s1, s2, f1, f2
Answer(g1, g2) == f1 :> g1 @@ f2 :> g2
MCOutcomes == {Answer("strong", "absent"), Answer("strong", "strong")}
MCSure == {Answer("strong", "strong")}
MCSymmetry == Permutations({s1, s2})
=============================================================================
