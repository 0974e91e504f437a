-------------------------- MODULE MCUpstreamPause --------------------------
\* UpstreamPause for TLC: upstreams, and requests, are interchangeable.
EXTENDS UpstreamPause, TLC
Symmetry == Permutations(Upstreams) \cup Permutations(Requests)
=============================================================================
