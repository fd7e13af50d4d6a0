---------------------------- MODULE MCSessionClock ----------------------------
(* Small instances of SessionClock: days become ticks, 30 and 15 days 6 and 4. *)
EXTENDS SessionClock, TLC

Symmetry == Permutations(Requests)
=============================================================================
