-------------------------- MODULE MCStorageEngine --------------------------
(* Model values for TLC's runs of StorageEngine; the .cfg files pick which *)
(* keys clients may address with the generic commands.                     *)
EXTENDS StorageEngine, TLC

SignedSeconds == {-1, 0, 1, 2}

Symmetry == Permutations(Users)
=============================================================================
