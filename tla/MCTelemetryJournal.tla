------------------------ MODULE MCTelemetryJournal ------------------------
(* TelemetryJournal on small instances. *)
EXTENDS TelemetryJournal

TwoTimes == {0, 1}

=============================================================================
