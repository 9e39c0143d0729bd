--------------------------- MODULE MCTicketingDB ---------------------------
(* Model values for TLC's runs of TicketingDB. *)
EXTENDS TicketingDB, TLC

Symmetry == Permutations(Clients) \cup Permutations(ReservationIds)
              \cup Permutations(PaymentIds)
=============================================================================
