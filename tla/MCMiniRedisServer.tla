------------------------- MODULE MCMiniRedisServer -------------------------
(* Model values for TLC's runs of MiniRedisServer. *)
EXTENDS MiniRedisServer, TLC

Symmetry == Permutations(Clients)
=============================================================================
