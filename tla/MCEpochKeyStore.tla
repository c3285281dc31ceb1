-------------------------- MODULE MCEpochKeyStore --------------------------
(* Small instances of EpochKeyStore for TLC.                               *)
EXTENDS EpochKeyStore, TLC

\* Containers, roles and key bytes are compared only for equality.
StoreSymmetry ==
  Permutations(Container) \cup Permutations(Role) \cup Permutations(Key)

=============================================================================
