----------------------------- MODULE MCOutboxRelay ----------------------------
(* Instances of OutboxRelay for TLC.  Workers, endpoints and administrators  *)
(* are interchangeable, events are not: they are claimed in order.           *)
EXTENDS OutboxRelay, TLC

Symmetry == Permutations(Workers) \cup Permutations(Endpoints)
===============================================================================
