-------------------------- MODULE MCFingerprintSet --------------------------
(* A small instance of FingerprintSet for TLC: four keys in memory, a table *)
(* of eight slots that grows to sixteen, hashes that collide and wrap.      *)
EXTENDS FingerprintSet

CONSTANTS k1, k2, k3, k4, k5, k6

MCFingerprints == {k1, k2, k3, k4, k5, k6}
MCHashes == {0, 6, 7, 15}
FingerprintSymmetry == Permutations(MCFingerprints)
=============================================================================
