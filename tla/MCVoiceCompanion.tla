------------------------- MODULE MCVoiceCompanion -------------------------
(* VoiceCompanion on small instances. *)
EXTENDS VoiceCompanion

=============================================================================
