---------------------------- MODULE MCRateLimit ----------------------------
(* Small instances of RateLimit for TLC. *)
EXTENDS RateLimit

CONSTANTS k1, k2, k3

\* No definition names a key.
KeySymmetry == Permutations(Keys)

=============================================================================
