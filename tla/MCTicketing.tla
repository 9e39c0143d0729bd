---------------------------- MODULE MCTicketing ----------------------------
(* Model values for TLC's runs of Ticketing. *)
EXTENDS Ticketing, TLC

Symmetry == Permutations(Threads) \cup Permutations(Users) \cup Permutations(PaymentIds)
=============================================================================
