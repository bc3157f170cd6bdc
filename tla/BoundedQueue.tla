---------------------------- MODULE BoundedQueue ----------------------------
(***************************************************************************)
(* The drop-oldest queue that both ends of the WireCore bridge keep: the   *)
(* frames WireCoreSupervisor::postRequest holds back while it is not       *)
(* connected, and the P2-P4 work the sidecar's BoundedQueue accepts.       *)
(* Neither blocks its producer: on overflow the oldest element goes.       *)
(***************************************************************************)
EXTENDS Naturals, Sequences

(* Mutant: off by one at the limit. *)
PushDropLate(q, x, cap) ==
  Append(IF Len(q) > cap THEN Tail(q) ELSE q, x)

(* push on a queue of capacity cap; the capacities of the code are not 0. *)
PushDropOldest(q, x, cap) ==
  Append(IF Len(q) >= cap THEN Tail(q) ELSE q, x)

(* How many elements that push discards. *)
Overflow(q, cap) == IF Len(q) >= cap THEN 1 ELSE 0

=============================================================================
