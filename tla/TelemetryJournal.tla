-------------------------- MODULE TelemetryJournal --------------------------
(***************************************************************************)
(* TelemetryEngine of wire-telemetry: a ring of recent events in memory    *)
(* and an append-only journal of JSON lines that a new process recovers    *)
(* the ring from.  A process may crash at any point, inside an append too, *)
(* and an append may fail half way.                                        *)
(***************************************************************************)
EXTENDS Integers, Sequences, FiniteSets, BoundedQueue

CONSTANTS
  Capacity,       \* of the ring
  Fingerprints,
  Times,          \* values of an event's t
  CoalesceWindow, \* the 5_000 of record_coalesced
  MaxEvents       \* bound: events offered

ASSUME TelemetryAssumption ==
  /\ Capacity \in Nat \ {0}
  /\ Times \subseteq Int
  /\ MaxEvents \in Nat

VARIABLES
  hasJournal,     \* journal.is_some()
  journal,        \* what the appends left in the file, in order
  enabled,
  ring,           \* buffer.events
  droppedTotal,
  coalescedTotal,
  nextId,         \* history: events are numbered in the order they happen
  acked,          \* history: events record() answered Ok for
  damaged,        \* history: some append left less than a line behind
  safe,           \* history: events acknowledged before that
  books           \* history of this process: events offered while enabled,
                  \* events refused with an error, events recovered

vars == <<hasJournal, journal, enabled, ring, droppedTotal, coalescedTotal,
          nextId, acked, damaged, safe, books>>

Events == [id : 1..MaxEvents, fp : Fingerprints, t : Times]

(* What one append leaves in the file: the record and its newline, the     *)
(* record alone (writeln! writes the newline with a second call), or a     *)
(* part of the record.                                                     *)
Remains == {"line", "bare", "torn"}

Books == [offered : Nat, failed : Nat, recovered : Nat]

TypeOK ==
  /\ hasJournal \in BOOLEAN
  /\ journal \in Seq([event : Events, left : Remains])
  /\ enabled \in BOOLEAN
  /\ ring \in Seq(Events)
  /\ Len(ring) <= Capacity
  /\ droppedTotal \in Nat
  /\ coalescedTotal \in Nat
  /\ nextId \in 1..(MaxEvents + 1)
  /\ acked \subseteq Events
  /\ damaged \in BOOLEAN
  /\ safe \subseteq Events
  /\ books \in Books

NoBooks == [offered |-> 0, failed |-> 0, recovered |-> 0]

Init ==
  /\ hasJournal \in BOOLEAN
  /\ journal = <<>>
  /\ enabled = FALSE
  /\ ring = <<>>
  /\ droppedTotal = 0
  /\ coalescedTotal = 0
  /\ nextId = 1
  /\ acked = {}
  /\ damaged = FALSE
  /\ safe = {}
  /\ books = NoBooks

-----------------------------------------------------------------------------
(* The engine's operations.  A call while capture is disabled, and one     *)
(* whose payload is over the bound, changes nothing.                       *)

Enable ==
  /\ enabled' = TRUE
  /\ UNCHANGED <<hasJournal, journal, ring, droppedTotal, coalescedTotal,
                 nextId, acked, damaged, safe, books>>

Disable ==
  /\ enabled' = FALSE
  /\ UNCHANGED <<hasJournal, journal, ring, droppedTotal, coalescedTotal,
                 nextId, acked, damaged, safe, books>>

(* Mutant: a full ring discards an event without counting it. *)
PushUncounted(e) ==
  /\ ring' = PushDropOldest(ring, e, Capacity)
  /\ UNCHANGED droppedTotal

(* push, and the caller's dropped_total += dropped. *)
PushEvent(e) ==
  /\ ring' = PushDropOldest(ring, e, Capacity)
  /\ droppedTotal' = droppedTotal + Overflow(ring, Capacity)

(* The next event to be offered, whatever it is. *)
NewEvents == [id : {nextId}, fp : Fingerprints, t : Times]

Offered(e) ==
  /\ enabled
  /\ nextId <= MaxEvents
  /\ e \in NewEvents
  /\ nextId' = nextId + 1

(* append_journal, and what it leaves behind when it is interrupted. *)
AppendJournal(e, left) ==
  /\ journal' = Append(journal, [event |-> e, left |-> left])
  /\ damaged' = (damaged \/ left # "line")

(* Mutant: the event is acknowledged before its line is written. *)
RecordUnwritten(e) ==
  /\ Offered(e)
  /\ UNCHANGED <<journal, damaged>>
  /\ PushEvent(e)
  /\ acked' = acked \cup {e}
  /\ safe' = IF damaged THEN safe ELSE safe \cup {e}
  /\ books' = [books EXCEPT !.offered = @ + 1]
  /\ UNCHANGED <<hasJournal, enabled, coalescedTotal>>

Record(e) ==
  /\ Offered(e)
  /\ IF hasJournal THEN AppendJournal(e, "line")
                   ELSE UNCHANGED <<journal, damaged>>
  /\ PushEvent(e)
  /\ acked' = acked \cup {e}
  /\ safe' = IF damaged THEN safe ELSE safe \cup {e}
  /\ books' = [books EXCEPT !.offered = @ + 1]
  /\ UNCHANGED <<hasJournal, enabled, coalescedTotal>>

(* append_journal fails: at open, or after part of the bytes were written. *)
RecordFails(e) ==
  /\ Offered(e)
  /\ hasJournal
  /\ \/ UNCHANGED <<journal, damaged>>
     \/ \E left \in {"bare", "torn"} : AppendJournal(e, left)
  /\ books' = [books EXCEPT !.offered = @ + 1, !.failed = @ + 1]
  /\ UNCHANGED <<hasJournal, enabled, ring, droppedTotal, coalescedTotal,
                 acked, safe>>

Distance(a, b) == IF a <= b THEN b - a ELSE a - b

(* The newest event of the ring is like this one, and recent. *)
Repeats(e) ==
  /\ ring # <<>>
  /\ ring[Len(ring)].fp = e.fp
  /\ Distance(e.t, ring[Len(ring)].t) < CoalesceWindow

(* record_coalesced: a repetition is counted, anything else goes to the    *)
(* ring, and neither reaches the journal.                                  *)
RecordCoalesced(e) ==
  /\ Offered(e)
  /\ \/ /\ Repeats(e)
        /\ coalescedTotal' = coalescedTotal + 1
        /\ UNCHANGED <<ring, droppedTotal>>
     \/ /\ ~Repeats(e)
        /\ PushEvent(e)
        /\ UNCHANGED coalescedTotal
  /\ books' = [books EXCEPT !.offered = @ + 1]
  /\ UNCHANGED <<hasJournal, journal, enabled, acked, damaged, safe>>

-----------------------------------------------------------------------------
(* Crash and recovery. *)

(* A line parses if it holds one whole record: what follows an append      *)
(* without a newline is on the same line and spoils it.                    *)
Parses(n) ==
  \/ journal[n].left = "line"
  \/ journal[n].left = "bare" /\ n = Len(journal)

(* The appends that recovery reaches: it stops at the first malformed line. *)
Recoverable == {n \in DOMAIN journal : \A m \in 1..n : Parses(m)}

(* Mutant: the first Capacity events are kept. *)
OldestOf(s) == IF Len(s) <= Capacity THEN s ELSE SubSeq(s, 1, Capacity)

(* What is left of s when its elements are pushed one by one. *)
NewestOf(s) ==
  IF Len(s) <= Capacity THEN s
                        ELSE SubSeq(s, Len(s) - Capacity + 1, Len(s))

RecoverJournal ==
  /\ ring' = NewestOf(ring \o [n \in 1..Cardinality(Recoverable) |->
                                 journal[n].event])
  /\ books' = [books EXCEPT !.recovered = @ + (Len(ring') - Len(ring))]
  /\ UNCHANGED <<hasJournal, journal, enabled, droppedTotal, coalescedTotal,
                 nextId, acked, damaged, safe>>

(* A new process: a new engine, with capture off and an empty ring. *)
NewProcess ==
  /\ enabled' = FALSE
  /\ ring' = <<>>
  /\ droppedTotal' = 0
  /\ coalescedTotal' = 0
  /\ books' = NoBooks

Crash ==
  /\ NewProcess
  /\ UNCHANGED <<hasJournal, journal, nextId, acked, damaged, safe>>

(* The crash comes inside record's append, or after it. *)
CrashInRecord(e) ==
  /\ Offered(e)
  /\ hasJournal
  /\ \E left \in Remains : AppendJournal(e, left)
  /\ NewProcess
  /\ UNCHANGED <<hasJournal, acked, safe>>

(* The host recovers into a new engine, before it records anything.  (The  *)
(* code lets it recover at any time, see README.)                          *)
Next ==
  \/ Enable
  \/ Disable
  \/ \E e \in NewEvents : Record(e)
  \/ \E e \in NewEvents : RecordFails(e)
  \/ \E e \in NewEvents : RecordCoalesced(e)
  \/ ring = <<>> /\ RecoverJournal
  \/ Crash
  \/ \E e \in NewEvents : CrashInRecord(e)

Spec == Init /\ [][Next]_vars

-----------------------------------------------------------------------------
(* Properties. *)

(* Recovery brings the event back. *)
Survives(e) == \E n \in Recoverable : journal[n].event = e

(* What a crash can never take: an event that record acknowledged is       *)
(* recovered by every later process, whatever else is appended, unless an  *)
(* append before it was cut short.                                         *)
AckedSurvives == hasJournal => \A e \in safe : Survives(e)

(* The ring is a stretch of recent history, across crashes and recoveries: *)
(* in the order the events happened, each once, and since its oldest event *)
(* without a gap in what was acknowledged and can be recovered.            *)
RingIsRecentHistory ==
  /\ \A i, j \in DOMAIN ring : i < j => ring[i].id < ring[j].id
  /\ ring # <<>> =>
       \A e \in acked :
         (Survives(e) /\ e.id >= ring[1].id) => \E i \in DOMAIN ring : ring[i] = e

(* Every event offered to an enabled engine is in the ring, or counted in  *)
(* dropped_total or coalesced_total, or its caller was told of an error.   *)
EventsAccounted ==
  books.offered + books.recovered
    = books.failed + coalescedTotal + droppedTotal + Len(ring)

(* "a crash loses at most the current in-memory tail": what this process   *)
(* acknowledged and no longer holds in the ring can be recovered.          *)
CrashLosesOnlyTail ==
  hasJournal =>
    \A e \in acked :
      e.id >= nextId - books.offered =>
        Survives(e) \/ \E i \in DOMAIN ring : ring[i] = e

=============================================================================
