-------------------------- MODULE MCAtomicInstall --------------------------
(* The installers are interchangeable. *)
EXTENDS AtomicInstall, TLC

Symmetry == Permutations(Installer)
=============================================================================
