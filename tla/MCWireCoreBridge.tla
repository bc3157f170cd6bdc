-------------------------- MODULE MCWireCoreBridge --------------------------
(* WireCoreBridge on small instances. *)
EXTENDS WireCoreBridge, TLC

CONSTANTS s1, s2, s3, s4, none

MCSlots == {s1, s2, s3, s4}

(* Slots are interchangeable names; used by the runs without liveness. *)
SlotSymmetry == Permutations(MCSlots)

=============================================================================
