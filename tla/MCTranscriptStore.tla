------------------------- MODULE MCTranscriptStore -------------------------
(* TranscriptStore on small instances. *)
EXTENDS TranscriptStore

(* init_schema (without the update trigger: no row is ever updated), and a *)
(* second migration with a statement that cannot be repeated.              *)
TwoMigrations ==
  << [version |-> 1, script |-> <<"transcripts", "transcripts_fts",
                                  "transcripts_ai", "transcripts_ad">>],
     [version |-> 2, script |-> <<"t2", "t2_index">>] >>

StrictObjects == {"t2"}

=============================================================================
