----------------------------- MODULE MCKeyLease -----------------------------
(* KeyLease for TLC.  Calls, leases and key pairs are only compared.        *)
EXTENDS KeyLease

Symmetry == Permutations(Calls) \cup Permutations(Leases) \cup Permutations(Pairs)

\* A lease that was given up stays given up, and a key service that was drained
\* for a reset never touches its database again.
LeaseStaysDown == NoAutoRelogin /\ DrainedIsQuiet
=============================================================================
