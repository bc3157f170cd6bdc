------------------------- MODULE MCSessionScheduler -------------------------
(* SessionScheduler on small instances. *)
EXTENDS SessionScheduler, TLC

CONSTANTS a, b, c, d

FourSessions == {a, b, c, d}
ThreeSessions == {a, b, c}
SessionSymmetry == Permutations(FourSessions)

=============================================================================
