------------------------- MODULE MCWireCoreRuntime --------------------------
(* WireCoreRuntime on small instances. *)
EXTENDS WireCoreRuntime, TLC

CONSTANTS c1, c2

MCClients == {c1, c2}

(* One peer sends enough to overflow its queue around a cancel, the other  *)
(* interferes.                                                             *)
MCFrames == (c1 :> 3) @@ (c2 :> 1)

=============================================================================
