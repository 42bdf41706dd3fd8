-------------------------- MODULE MCManifestStore --------------------------
(* ManifestStore for TLC: two sessions, two crates.  Sessions are not
   interchangeable (one is plain, one fail-fast); crates are. *)
EXTENDS ManifestStore, TLC

CONSTANTS b1, b2

CrateSymmetry == Permutations(Crates)
=============================================================================
