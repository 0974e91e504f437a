-------------------------- MODULE MCCheckBatcher --------------------------
\* CheckBatcher for TLC.  No symmetry: the runs check liveness.
EXTENDS CheckBatcher
=============================================================================
