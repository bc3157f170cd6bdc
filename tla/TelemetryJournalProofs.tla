----------------------- MODULE TelemetryJournalProofs -----------------------
(***************************************************************************)
(* Proofs about the telemetry journal, for every capacity of the ring and  *)
(* every number of events, crashes and cut-short appends.                  *)
(***************************************************************************)
EXTENDS TelemetryJournal, SequenceTheorems, FiniteSetTheorems, TLAPS

Entries == [event : Events, left : Remains]

(* Events are numbered as they happen: the journal is in their order, and  *)
(* whatever is kept is older than the next one.                            *)
Chronicle ==
  /\ \A i, j \in DOMAIN journal :
       i < j => journal[i].event.id < journal[j].event.id
  /\ \A i \in DOMAIN journal : journal[i].event.id < nextId
  /\ \A i \in DOMAIN ring : ring[i].id < nextId
  /\ \A e \in acked : e.id < nextId

(* Nothing is spoilt before the first damage, and a safe event has a line  *)
(* of its own behind nothing but lines.                                    *)
SafeLines ==
  /\ ~damaged => \A n \in DOMAIN journal : journal[n].left = "line"
  /\ hasJournal =>
       \A e \in safe : \E n \in DOMAIN journal :
         /\ journal[n].event = e
         /\ \A m \in 1..n : journal[m].left = "line"

IInv ==
  /\ TypeOK
  /\ EventsAccounted
  /\ Chronicle
  /\ SafeLines
  /\ RingIsRecentHistory

-----------------------------------------------------------------------------
(* The ring and the journal as sequences. *)

(* A place of the ring holds an event, one of the journal an entry. *)
LEMMA PlacesAreTyped ==
  ASSUME TypeOK
  PROVE  /\ Len(ring) \in Nat /\ DOMAIN ring = 1..Len(ring)
         /\ \A i \in DOMAIN ring : ring[i] \in Events
         /\ Len(journal) \in Nat /\ DOMAIN journal = 1..Len(journal)
         /\ \A i \in DOMAIN journal : /\ journal[i].event \in Events
                                      /\ journal[i].left \in Remains
<1>1. /\ ring \in Seq(Events)
      /\ journal \in Seq(Entries)
  BY DEF TypeOK, Entries
<1>2. \A i \in DOMAIN journal : journal[i] \in Entries
  BY <1>1, ElementOfSeq, LenProperties
<1>3. \A i \in DOMAIN ring : ring[i] \in Events
  BY <1>1, ElementOfSeq, LenProperties
<1> QED
  BY <1>1, <1>2, <1>3, LenProperties DEF Entries

(* RingBuffer::push: the new event is last, the others move up by the      *)
(* number of events that were discarded.                                   *)
LEMMA PushShifts ==
  \A r \in Seq(Events), x \in Events :
    Len(r) <= Capacity =>
      LET p == PushDropOldest(r, x, Capacity)
          d == Overflow(r, Capacity)
      IN  /\ p \in Seq(Events)
          /\ d \in {0, 1}
          /\ Len(p) = Len(r) + 1 - d
          /\ Len(p) \in 1..Capacity
          /\ p[Len(p)] = x
          /\ \A i \in 1..(Len(p) - 1) : i + d \in DOMAIN r /\ p[i] = r[i + d]
<1> SUFFICES ASSUME NEW r \in Seq(Events), NEW x \in Events, Len(r) <= Capacity
             PROVE  LET p == PushDropOldest(r, x, Capacity)
                        d == Overflow(r, Capacity)
                    IN  /\ p \in Seq(Events)
                        /\ d \in {0, 1}
                        /\ Len(p) = Len(r) + 1 - d
                        /\ Len(p) \in 1..Capacity
                        /\ p[Len(p)] = x
                        /\ \A i \in 1..(Len(p) - 1) :
                             i + d \in DOMAIN r /\ p[i] = r[i + d]
  BY Zenon
<1> DEFINE p == PushDropOldest(r, x, Capacity)
           d == Overflow(r, Capacity)
<1>1. Len(r) \in Nat /\ DOMAIN r = 1..Len(r) /\ Capacity \in Nat \ {0}
  BY LenProperties, TelemetryAssumption
<1>2. CASE Len(r) >= Capacity
  <2>1. r # <<>>
    BY <1>1, <1>2, EmptySeq
  <2>2. /\ Tail(r) \in Seq(Events)
        /\ Len(Tail(r)) = Len(r) - 1
        /\ \A i \in 1..Len(Tail(r)) : Tail(r)[i] = r[i + 1]
    BY <2>1, HeadTailProperties
  <2>3. p = Append(Tail(r), x) /\ d = 1
    BY <1>2 DEF PushDropOldest, Overflow
  <2> DEFINE t == Tail(r)
  <2>4. /\ Append(t, x) \in Seq(Events)
        /\ Len(Append(t, x)) = Len(t) + 1
        /\ \A i \in 1..Len(t) : Append(t, x)[i] = t[i]
        /\ Append(t, x)[Len(t) + 1] = x
    BY <2>2, AppendProperties
  <2> QED
    BY <1>1, <1>2, <2>2, <2>3, <2>4
<1>3. CASE ~(Len(r) >= Capacity)
  <2>1. p = Append(r, x) /\ d = 0
    BY <1>3 DEF PushDropOldest, Overflow
  <2>2. /\ Append(r, x) \in Seq(Events)
        /\ Len(Append(r, x)) = Len(r) + 1
        /\ \A i \in 1..Len(r) : Append(r, x)[i] = r[i]
        /\ Append(r, x)[Len(r) + 1] = x
    BY AppendProperties
  <2> QED
    BY <1>1, <1>3, <2>1, <2>2
<1> QED
  BY <1>2, <1>3

(* append_journal adds one entry behind the others. *)
LEMMA AppendExtends ==
  ASSUME TypeOK, NEW e \in Events, NEW left \in Remains,
         AppendJournal(e, left)
  PROVE  /\ journal' \in Seq(Entries)
         /\ Len(journal') = Len(journal) + 1
         /\ DOMAIN journal' = 1..(Len(journal) + 1)
         /\ \A i \in DOMAIN journal : journal'[i] = journal[i]
         /\ journal'[Len(journal) + 1].event = e
         /\ journal'[Len(journal) + 1].left = left
<1> DEFINE new == [event |-> e, left |-> left]
<1>1. new \in Entries /\ journal \in Seq(Entries)
  BY DEF TypeOK, Entries
<1>2. journal' = Append(journal, new)
  BY DEF AppendJournal
<1>3. new.event = e /\ new.left = left
  OBVIOUS
<1> HIDE DEF new
<1> QED
  BY <1>1, <1>2, <1>3, AppendProperties, LenProperties

(* There are n numbers up to n. *)
LEMMA CountToN == \A n \in Nat : IsFiniteSet(1..n) /\ Cardinality(1..n) = n
<1> SUFFICES ASSUME NEW n \in Nat
             PROVE  IsFiniteSet(1..n) /\ Cardinality(1..n) = n
  OBVIOUS
<1>1. /\ IsFiniteSet(1..n)
      /\ Cardinality(1..n) = IF 1 > n THEN 0 ELSE n - 1 + 1
  BY FS_Interval
<1> QED
  BY <1>1

(* Recovery reaches exactly the first entries of the journal. *)
LEMMA RecoverableIsPrefix ==
  ASSUME TypeOK
  PROVE  /\ Cardinality(Recoverable) \in 0..Len(journal)
         /\ Recoverable = 1..Cardinality(Recoverable)
<1>1. Len(journal) \in Nat /\ DOMAIN journal = 1..Len(journal)
  BY PlacesAreTyped
<1>2. /\ IsFiniteSet(1..Len(journal))
      /\ Cardinality(1..Len(journal)) = Len(journal)
  BY <1>1, CountToN, Zenon
<1>3. Recoverable \in SUBSET (1..Len(journal))
  BY <1>1 DEF Recoverable
<1>4. /\ IsFiniteSet(Recoverable)
      /\ Cardinality(Recoverable) <= Len(journal)
  <2>1. /\ IsFiniteSet(Recoverable)
        /\ Cardinality(Recoverable) <= Cardinality(1..Len(journal))
    BY <1>2, <1>3, FS_Subset, Zenon
  <2> QED
    BY <1>2, <2>1
<1>5. Cardinality(Recoverable) \in Nat
  BY <1>4, FS_CardinalityType
<1> DEFINE k == Cardinality(Recoverable)
<1>6. ASSUME NEW n \in Recoverable PROVE n \in 1..k
  <2>1. n \in Nat /\ n >= 1
    BY <1>1, <1>3
  <2>2. 1..n \in SUBSET Recoverable
    <3>1. \A m \in 1..n : m \in DOMAIN journal /\ 1..m \subseteq 1..n
      BY <1>1, <1>3, <2>1
    <3> QED
      BY <3>1 DEF Recoverable
  <2>3. Cardinality(1..n) = n
    BY <2>1, CountToN
  <2>4. Cardinality(1..n) <= k
    BY <1>4, <2>2, FS_Subset, Zenon
  <2> QED
    BY <1>5, <2>1, <2>3, <2>4
<1>7. Recoverable \in SUBSET (1..k)
  BY <1>6
<1>8. IsFiniteSet(1..k) /\ Cardinality(1..k) = k
  BY <1>5, CountToN
<1>9. Recoverable = 1..k
  BY <1>7, <1>8, FS_Subset
<1> QED
  BY <1>1, <1>4, <1>5, <1>9

(* recover_journal into an empty ring leaves the last events of the part   *)
(* of the journal it reaches.                                              *)
LEMMA RecoveryShifts ==
  ASSUME TypeOK, ring = <<>>, RecoverJournal
  PROVE  \E d \in Nat :
           /\ ring' \in Seq(Events)
           /\ Len(ring') <= Capacity
           /\ d + Len(ring') = Cardinality(Recoverable)
           /\ \A i \in 1..Len(ring') : i + d \in DOMAIN journal
                                       /\ ring'[i] = journal[i + d].event
<1> DEFINE k == Cardinality(Recoverable)
           s == [n \in 1..k |-> journal[n].event]
<1>1. /\ k \in Nat /\ k <= Len(journal) /\ Len(journal) \in Nat
      /\ DOMAIN journal = 1..Len(journal)
      /\ \A n \in DOMAIN journal : journal[n].event \in Events
      /\ Capacity \in Nat \ {0}
  BY RecoverableIsPrefix, PlacesAreTyped, TelemetryAssumption
<1> HIDE DEF k
<1>2. \A n \in 1..k : n \in DOMAIN journal /\ s[n] \in Events
  BY <1>1
<1>3. s \in [1..k -> Events] /\ Len(s) = k
  BY <1>1, <1>2
<1>4. s \in Seq(Events)
  BY <1>1, <1>3
<1>5. <<>> \o s = s
  BY <1>4, ConcatEmptySeq
<1>6. ring' = NewestOf(s)
  BY <1>5 DEF RecoverJournal, k
<1>7. CASE k <= Capacity
  <2>1. ring' = s
    BY <1>3, <1>6, <1>7 DEF NewestOf
  <2> QED
    <3>1. \A i \in 1..k : i + 0 \in DOMAIN journal
                           /\ ring'[i] = journal[i + 0].event
      BY <1>1, <1>2, <2>1
    <3>2. Len(ring') = k /\ ring' \in Seq(Events) /\ 0 + k = k
      BY <1>1, <1>3, <1>4, <2>1
    <3> HIDE DEF s
    <3>3. /\ ring' \in Seq(Events)
          /\ Len(ring') <= Capacity
          /\ 0 + Len(ring') = Cardinality(Recoverable)
      BY <1>7, <3>2 DEF k
    <3>4. \A i \in 1..Len(ring') : i + 0 \in DOMAIN journal
                                   /\ ring'[i] = journal[i + 0].event
      <4>1. Len(ring') = k
        BY <3>2
      <4> QED
        BY <3>1, <4>1, Zenon
    <3>5. 0 \in Nat
      OBVIOUS
    <3> QED
      BY <3>3, <3>4, <3>5, Zenon
<1>8. CASE ~(k <= Capacity)
  <2> DEFINE d == k - Capacity
  <2>1. d \in Nat /\ d + Capacity = k
    BY <1>1, <1>8
  <2>2. ring' = SubSeq(s, d + 1, k)
    BY <1>3, <1>6, <1>8 DEF NewestOf
  <2>3. \A i \in (d + 1)..k : s[i] \in Events
    BY <1>2, <2>1
  <2> HIDE DEF d, s
  <2>4. /\ SubSeq(s, d + 1, k) \in Seq(Events)
        /\ Len(SubSeq(s, d + 1, k)) = IF d + 1 <= k THEN k - (d + 1) + 1 ELSE 0
        /\ \A i \in 1..(k - (d + 1) + 1) :
             SubSeq(s, d + 1, k)[i] = s[d + 1 + i - 1]
    BY <1>1, <2>1, <2>3, SubSeqProperties
  <2>5. /\ ring' \in Seq(Events)
        /\ Len(ring') = Capacity
        /\ \A i \in 1..Capacity : ring'[i] = s[i + d] /\ i + d \in 1..k
    BY <1>1, <2>1, <2>2, <2>4
  <2>6. \A i \in 1..Capacity : i + d \in DOMAIN journal
                               /\ ring'[i] = journal[i + d].event
    BY <1>2, <2>5 DEF s
  <2>7. /\ ring' \in Seq(Events)
        /\ Len(ring') <= Capacity
        /\ d + Len(ring') = k
    BY <1>1, <2>1, <2>5
  <2>8. \A i \in 1..Len(ring') : i + d \in DOMAIN journal
                                 /\ ring'[i] = journal[i + d].event
    <3>1. Len(ring') = Capacity
      BY <2>5
    <3> QED
      BY <2>6, <3>1, Zenon
  <2>9. d + Len(ring') = Cardinality(Recoverable)
    BY <2>7 DEF k
  <2>10. d \in Nat
    BY <2>1
  <2> QED
    BY <2>7, <2>8, <2>9, <2>10, Zenon
<1> QED
  BY <1>7, <1>8

-----------------------------------------------------------------------------
(* What pushing and appending do to the invariant. *)

(* The event that is offered is an event, newer than all that are kept. *)
LEMMA OfferedIsNew ==
  ASSUME TypeOK, NEW e \in NewEvents, Offered(e)
  PROVE  /\ e \in Events /\ e.id = nextId
         /\ nextId \in Nat /\ nextId' = nextId + 1
         /\ nextId' \in 1..(MaxEvents + 1)
<1>1. nextId \in 1..MaxEvents /\ nextId' = nextId + 1
  BY TelemetryAssumption DEF TypeOK, Offered
<1>2. e \in Events /\ e.id = nextId
  BY <1>1 DEF NewEvents, Events
<1> QED
  BY <1>1, <1>2, TelemetryAssumption

(* A push keeps the ring a stretch of history. *)
LEMMA PushKeepsHistory ==
  ASSUME IInv, NEW e \in NewEvents, Offered(e), PushEvent(e)
  PROVE  /\ ring' \in Seq(Events) /\ Len(ring') <= Capacity
         /\ droppedTotal' \in Nat
         /\ Len(ring') \in Nat
         /\ Len(ring') + droppedTotal' = Len(ring) + droppedTotal + 1
         /\ \A i, j \in DOMAIN ring' : i < j => ring'[i].id < ring'[j].id
         /\ \A i \in DOMAIN ring' : ring'[i].id < nextId'
         /\ \E i \in DOMAIN ring' : ring'[i] = e
         /\ \A a \in acked :
              (Survives(a) /\ a.id >= ring'[1].id)
                => \E i \in DOMAIN ring' : ring'[i] = a
<1> DEFINE d == Overflow(ring, Capacity)
<1>1. TypeOK /\ Chronicle /\ RingIsRecentHistory
  BY DEF IInv
<1>2. /\ ring \in Seq(Events) /\ Len(ring) <= Capacity
      /\ droppedTotal \in Nat
  BY <1>1 DEF TypeOK
<1>3. /\ Len(ring) \in Nat /\ DOMAIN ring = 1..Len(ring)
      /\ \A i \in DOMAIN ring : ring[i] \in Events
  BY <1>1, PlacesAreTyped
<1>4. /\ e \in Events /\ e.id = nextId
      /\ nextId \in Nat /\ nextId' = nextId + 1
  BY <1>1, OfferedIsNew
<1>5. ring' = PushDropOldest(ring, e, Capacity) /\ droppedTotal' = droppedTotal + d
  BY DEF PushEvent
<1>6. /\ ring' \in Seq(Events)
      /\ d \in {0, 1}
      /\ Len(ring') = Len(ring) + 1 - d
      /\ Len(ring') \in 1..Capacity
      /\ ring'[Len(ring')] = e
      /\ \A i \in 1..(Len(ring') - 1) : i + d \in DOMAIN ring
                                         /\ ring'[i] = ring[i + d]
  BY <1>2, <1>4, <1>5, PushShifts
<1> HIDE DEF d
<1>7. Len(ring') \in Nat /\ DOMAIN ring' = 1..Len(ring')
  <2>1. \A r \in Seq(Events) : Len(r) \in Nat /\ DOMAIN r = 1..Len(r)
    BY LenProperties
  <2>2. ring' \in Seq(Events)
    BY <1>6
  <2> QED
    BY <2>1, <2>2
<1>8. /\ \A i, j \in DOMAIN ring : i < j => ring[i].id < ring[j].id
      /\ \A i \in DOMAIN ring : ring[i].id < nextId
      /\ \A i \in DOMAIN ring : ring[i].id \in Nat
      /\ \A a \in acked : a.id < nextId /\ a.id \in Nat
  <2>1. \A x \in Events : x.id \in Nat
    BY TelemetryAssumption DEF Events
  <2>2. acked \subseteq Events
    BY <1>1 DEF TypeOK
  <2>3. /\ \A i, j \in DOMAIN ring : i < j => ring[i].id < ring[j].id
        /\ \A i \in DOMAIN ring : ring[i].id < nextId
        /\ \A a \in acked : a.id < nextId
    BY <1>1 DEF Chronicle, RingIsRecentHistory
  <2> QED
    BY <1>3, <2>1, <2>2, <2>3
<1>9. \A i \in DOMAIN ring' : i \in 1..(Len(ring') - 1) \/ i = Len(ring')
  BY <1>7
<1>10. \A i \in DOMAIN ring' : ring'[i].id < nextId' /\ ring'[i].id \in Nat
  BY <1>4, <1>6, <1>8, <1>9
<1>11. ASSUME NEW i \in DOMAIN ring', NEW j \in DOMAIN ring', i < j
       PROVE  ring'[i].id < ring'[j].id
  <2>1. i \in 1..(Len(ring') - 1) /\ i \in Nat /\ j \in Nat
    BY <1>7, <1>11
  <2>2. i + d \in DOMAIN ring /\ ring'[i] = ring[i + d]
    BY <1>6, <2>1
  <2>3. CASE j = Len(ring')
    BY <1>4, <1>6, <1>8, <2>2, <2>3
  <2>4. CASE j \in 1..(Len(ring') - 1)
    <3>1. j + d \in DOMAIN ring /\ ring'[j] = ring[j + d]
      BY <1>6, <2>4
    <3>2. i + d < j + d
      BY <1>6, <1>11, <2>1
    <3> QED
      BY <1>8, <2>2, <3>1, <3>2
  <2> QED
    BY <1>9, <2>3, <2>4
<1>12. \E i \in DOMAIN ring' : ring'[i] = e
  BY <1>6, <1>7
<1>13. ASSUME NEW a \in acked, Survives(a), a.id >= ring'[1].id
       PROVE  \E i \in DOMAIN ring' : ring'[i] = a
  <2>1. a.id < nextId /\ a.id \in Nat
    BY <1>8
  <2>2. Len(ring') # 1
    BY <1>4, <1>6, <1>13, <2>1
  <2>3. /\ 1 \in 1..(Len(ring') - 1)
        /\ 1 + d \in DOMAIN ring
        /\ ring'[1] = ring[1 + d]
    <3>1. 1 \in 1..(Len(ring') - 1)
      BY <1>6, <2>2
    <3> QED
      BY <1>6, <3>1
  <2>4. 1 \in DOMAIN ring /\ ring # <<>>
    BY <1>3, <2>3, EmptySeq
  <2>5. a.id >= ring[1].id
    <3>1. d = 0 \/ ring[1].id < ring[1 + d].id
      <4>1. d = 0 \/ 1 < 1 + d
        BY <1>6
      <4> QED
        BY <1>8, <2>3, <2>4, <4>1
    <3>2. ring[1].id \in Nat /\ ring[1 + d].id \in Nat
      BY <1>8, <2>3, <2>4
    <3>3. a.id >= ring[1 + d].id
      BY <1>13, <2>3
    <3>4. CASE d = 0
      <4>1. 1 + d = 1
        BY <3>4
      <4> QED
        BY <3>3, <4>1
    <3> QED
      BY <2>1, <3>1, <3>2, <3>3, <3>4
  <2>6. PICK n \in DOMAIN ring : ring[n] = a
    BY <1>1, <1>13, <2>4, <2>5 DEF RingIsRecentHistory
  <2>7. n >= 1 + d
    <3>1. CASE n < 1 + d
      <4>1. ring[n].id < ring[1 + d].id
        BY <1>8, <2>3, <3>1
      <4> QED
        BY <1>8, <1>13, <2>1, <2>3, <2>6, <4>1
    <3> QED
      BY <1>3, <1>6, <3>1
  <2>8. n - d \in 1..(Len(ring') - 1) /\ (n - d) + d = n
    BY <1>3, <1>6, <2>7
  <2>9. ring'[n - d] = a
    BY <1>6, <2>6, <2>8
  <2> QED
    BY <1>7, <2>8, <2>9
<1> QED
  BY <1>2, <1>3, <1>5, <1>6, <1>7, <1>10, <1>11, <1>12, <1>13, TelemetryAssumption

(* An append revives nothing, keeps the order, and spoils no safe line. *)
LEMMA AppendKeepsJournal ==
  ASSUME IInv, NEW e \in NewEvents, Offered(e), NEW left \in Remains,
         AppendJournal(e, left), UNCHANGED hasJournal
  PROVE  /\ journal' \in Seq(Entries)
         /\ damaged' \in BOOLEAN
         /\ \A i, j \in DOMAIN journal' :
              i < j => journal'[i].event.id < journal'[j].event.id
         /\ \A i \in DOMAIN journal' : journal'[i].event.id < nextId'
         /\ \A a \in acked : Survives(a)' => Survives(a)
         /\ ~damaged' => \A n \in DOMAIN journal' : journal'[n].left = "line"
         /\ hasJournal' =>
              \A a \in safe : \E n \in DOMAIN journal' :
                /\ journal'[n].event = a
                /\ \A m \in 1..n : journal'[m].left = "line"
         /\ ~damaged /\ left = "line" =>
              \E n \in DOMAIN journal' :
                /\ journal'[n].event = e
                /\ \A m \in 1..n : journal'[m].left = "line"
<1> DEFINE l == Len(journal)
<1>1. TypeOK /\ Chronicle /\ SafeLines
  BY DEF IInv
<1>2. /\ l \in Nat /\ DOMAIN journal = 1..l
      /\ \A i \in DOMAIN journal : journal[i].event \in Events
  BY <1>1, PlacesAreTyped
<1>3. /\ e \in Events /\ e.id = nextId
      /\ nextId \in Nat /\ nextId' = nextId + 1
  BY <1>1, OfferedIsNew
<1>4. /\ journal' \in Seq(Entries)
      /\ Len(journal') = l + 1
      /\ DOMAIN journal' = 1..(l + 1)
      /\ \A i \in DOMAIN journal : journal'[i] = journal[i]
      /\ journal'[l + 1].event = e
      /\ journal'[l + 1].left = left
  BY <1>1, <1>3, AppendExtends
<1> HIDE DEF l
<1>5. \A i \in DOMAIN journal' : i \in DOMAIN journal \/ i = l + 1
  BY <1>2, <1>4
<1>6. \A x \in Events : x.id \in Nat
  BY TelemetryAssumption DEF Events
<1>7. /\ \A i, j \in DOMAIN journal :
           i < j => journal[i].event.id < journal[j].event.id
      /\ \A i \in DOMAIN journal : journal[i].event.id < nextId
      /\ \A i \in DOMAIN journal : journal[i].event.id \in Nat
      /\ \A a \in acked : a.id < nextId /\ a.id \in Nat
  <2>1. acked \subseteq Events
    BY <1>1 DEF TypeOK
  <2>2. /\ \A i, j \in DOMAIN journal :
             i < j => journal[i].event.id < journal[j].event.id
        /\ \A i \in DOMAIN journal : journal[i].event.id < nextId
        /\ \A a \in acked : a.id < nextId
    BY <1>1 DEF Chronicle
  <2> QED
    BY <1>2, <1>6, <2>1, <2>2
<1>8. \A i \in DOMAIN journal' : journal'[i].event.id < nextId'
  BY <1>3, <1>4, <1>5, <1>7
<1>9. ASSUME NEW i \in DOMAIN journal', NEW j \in DOMAIN journal', i < j
      PROVE  journal'[i].event.id < journal'[j].event.id
  <2>1. i \in DOMAIN journal
    BY <1>2, <1>4, <1>9
  <2>2. CASE j \in DOMAIN journal
    BY <1>4, <1>7, <1>9, <2>1, <2>2
  <2>3. CASE j = l + 1
    BY <1>3, <1>4, <1>7, <2>1, <2>3
  <2> QED
    BY <1>5, <2>2, <2>3
<1>10. ASSUME NEW a \in acked, Survives(a)' PROVE Survives(a)
  <2>1. PICK n \in Recoverable' : journal'[n].event = a
    BY <1>10 DEF Survives
  <2>2. n \in DOMAIN journal' /\ \A m \in 1..n : Parses(m)'
    BY <2>1 DEF Recoverable
  <2>3. n # l + 1
    BY <1>3, <1>4, <1>7, <2>1
  <2>4. n \in DOMAIN journal /\ journal[n].event = a
    BY <1>4, <1>5, <2>1, <2>2, <2>3
  <2>5. ASSUME NEW m \in 1..n PROVE Parses(m)
    <3>1. m \in DOMAIN journal /\ m # Len(journal') /\ journal'[m] = journal[m]
      BY <1>2, <1>4, <2>4
    <3>2. journal[m].left = "line"
      BY <2>2, <3>1 DEF Parses
    <3> QED
      BY <3>2 DEF Parses
  <2> QED
    BY <2>4, <2>5 DEF Survives, Recoverable
<1>11. damaged' = (damaged \/ left # "line")
  BY DEF AppendJournal
<1>12. damaged' \in BOOLEAN
  BY <1>1, <1>11, Zenon DEF TypeOK
<1>13. ~damaged' => \A n \in DOMAIN journal' : journal'[n].left = "line"
  BY <1>1, <1>4, <1>5, <1>11 DEF SafeLines
<1>14. ASSUME hasJournal', NEW a \in safe
       PROVE  \E n \in DOMAIN journal' :
                /\ journal'[n].event = a
                /\ \A m \in 1..n : journal'[m].left = "line"
  <2>1. PICK n \in DOMAIN journal :
          /\ journal[n].event = a
          /\ \A m \in 1..n : journal[m].left = "line"
    BY <1>1, <1>14 DEF SafeLines
  <2>2. n \in DOMAIN journal' /\ \A m \in 1..n : m \in DOMAIN journal
    BY <1>2, <1>4
  <2> QED
    BY <1>4, <2>1, <2>2
<1>15. ASSUME ~damaged, left = "line"
       PROVE  \E n \in DOMAIN journal' :
                /\ journal'[n].event = e
                /\ \A m \in 1..n : journal'[m].left = "line"
  <2>1. l + 1 \in DOMAIN journal' /\ 1..(l + 1) = DOMAIN journal'
    BY <1>2, <1>4
  <2>2. ~damaged'
    BY <1>11, <1>15
  <2> QED
    BY <1>4, <1>13, <2>1, <2>2
<1> QED
  BY <1>4, <1>8, <1>9, <1>10, <1>12, <1>13, <1>14, <1>15

(* A step that leaves the journal alone neither loses nor revives anything. *)
LEMMA UntouchedJournal ==
  ASSUME UNCHANGED journal
  PROVE  \A a : Survives(a)' <=> Survives(a)
BY DEF Survives, Recoverable, Parses

(* A step that leaves journal, acknowledgements and numbering alone keeps  *)
(* what the invariant says of them; the ring may be emptied.               *)
LEMMA QuietStep ==
  ASSUME IInv, UNCHANGED <<hasJournal, journal, nextId, acked, damaged, safe>>,
         ring' = ring \/ ring' = <<>>
  PROVE  Chronicle' /\ SafeLines' /\ RingIsRecentHistory'
<1>1. <<>> \in Seq(Events) /\ DOMAIN <<>> = {}
  BY EmptySeq
<1>2. Chronicle'
  BY <1>1 DEF IInv, Chronicle
<1>3. SafeLines'
  BY DEF IInv, SafeLines
<1>4. RingIsRecentHistory'
  <2>1. \A a : Survives(a)' <=> Survives(a)
    BY UntouchedJournal
  <2> QED
    BY <1>1, <2>1 DEF IInv, RingIsRecentHistory
<1> QED
  BY <1>2, <1>3, <1>4

-----------------------------------------------------------------------------
(* The invariant is inductive. *)

(* An engine starts with nothing in memory and nothing in the journal. *)
LEMMA InitIInv == Init => IInv
<1> SUFFICES ASSUME Init PROVE IInv
  OBVIOUS
<1>1. /\ <<>> \in Seq(Events) /\ <<>> \in Seq(Entries)
      /\ Len(<<>>) = 0 /\ DOMAIN <<>> = {}
  BY EmptySeq
<1>2. NoBooks \in Books /\ 1 \in 1..(MaxEvents + 1) /\ 0 <= Capacity
  BY TelemetryAssumption DEF NoBooks, Books
<1>3. hasJournal \in BOOLEAN /\ enabled \in BOOLEAN /\ damaged \in BOOLEAN
  BY Zenon DEF Init
<1>4. /\ journal \in Seq([event : Events, left : Remains])
      /\ ring \in Seq(Events) /\ Len(ring) <= Capacity
      /\ droppedTotal \in Nat /\ coalescedTotal \in Nat
      /\ nextId \in 1..(MaxEvents + 1)
      /\ acked \subseteq Events /\ safe \subseteq Events /\ books \in Books
  BY <1>1, <1>2 DEF Init, Entries
<1>5. TypeOK
  BY <1>3, <1>4, Zenon DEF TypeOK
<1>6. EventsAccounted
  BY <1>1 DEF Init, EventsAccounted, NoBooks
<1>7. Chronicle /\ SafeLines /\ RingIsRecentHistory
  BY <1>1 DEF Init, Chronicle, SafeLines, RingIsRecentHistory
<1> QED
  BY <1>5, <1>6, <1>7 DEF IInv

(* One more event was offered: it failed (x), was coalesced (y), or went   *)
(* to the ring (z).                                                        *)
LEMMA BooksBalance ==
  ASSUME IInv, NEW x \in Nat, NEW y \in Nat, NEW z \in Nat, x + y + z = 1,
         books' = [offered |-> books.offered + 1, failed |-> books.failed + x,
                   recovered |-> books.recovered],
         coalescedTotal' = coalescedTotal + y,
         droppedTotal' \in Nat, Len(ring') \in Nat,
         Len(ring') + droppedTotal' = Len(ring) + droppedTotal + z
  PROVE  books' \in Books /\ coalescedTotal' \in Nat /\ EventsAccounted'
<1>1. /\ books \in Books /\ coalescedTotal \in Nat /\ droppedTotal \in Nat
      /\ Len(ring) \in Nat
  BY PlacesAreTyped DEF IInv, TypeOK
<1>2. PICK o \in Nat, f \in Nat, r \in Nat, l \in Nat, m \in Nat :
        /\ books.offered = o /\ books.failed = f /\ books.recovered = r
        /\ Len(ring) = l /\ Len(ring') = m
  BY <1>1 DEF Books
<1>3. PICK c \in Nat, d \in Nat, n \in Nat :
        coalescedTotal = c /\ droppedTotal = d /\ droppedTotal' = n
  BY <1>1
<1>4. /\ books' \in Books
      /\ books'.offered = o + 1 /\ books'.failed = f + x /\ books'.recovered = r
  BY <1>2 DEF Books
<1>5. o + r = f + c + d + l
  BY <1>2, <1>3 DEF IInv, EventsAccounted
<1>6. m + n = l + d + z
  BY <1>2, <1>3
<1>7. (o + 1) + r = (f + x) + (c + y) + n + m
  BY <1>5, <1>6
<1>8. coalescedTotal' = c + y
  BY <1>3
<1>9. EventsAccounted'
  BY <1>2, <1>3, <1>4, <1>7, <1>8 DEF EventsAccounted
<1> QED
  BY <1>4, <1>8, <1>9

(* record keeps the invariant, with a journal and without one. *)
LEMMA RecordIInv ==
  ASSUME IInv, NEW e \in NewEvents, Record(e)
  PROVE  IInv'
<1>1. /\ Offered(e) /\ PushEvent(e)
      /\ acked' = acked \cup {e}
      /\ safe' = IF damaged THEN safe ELSE safe \cup {e}
      /\ books' = [books EXCEPT !.offered = @ + 1]
      /\ UNCHANGED <<hasJournal, enabled, coalescedTotal>>
  BY DEF Record
<1>2. TypeOK /\ EventsAccounted /\ Chronicle /\ SafeLines
  BY DEF IInv
<1>3. /\ e \in Events /\ e.id = nextId
      /\ nextId \in Nat /\ nextId' = nextId + 1
      /\ nextId' \in 1..(MaxEvents + 1)
  BY <1>1, <1>2, OfferedIsNew
<1>4. /\ ring' \in Seq(Events) /\ Len(ring') <= Capacity
      /\ droppedTotal' \in Nat
      /\ Len(ring') \in Nat
      /\ Len(ring') + droppedTotal' = Len(ring) + droppedTotal + 1
      /\ \A i, j \in DOMAIN ring' : i < j => ring'[i].id < ring'[j].id
      /\ \A i \in DOMAIN ring' : ring'[i].id < nextId'
      /\ \E i \in DOMAIN ring' : ring'[i] = e
      /\ \A a \in acked :
           (Survives(a) /\ a.id >= ring'[1].id)
             => \E i \in DOMAIN ring' : ring'[i] = a
  BY <1>1, PushKeepsHistory
<1>5. /\ journal' \in Seq([event : Events, left : Remains])
      /\ damaged' \in BOOLEAN
      /\ \A i, j \in DOMAIN journal' :
           i < j => journal'[i].event.id < journal'[j].event.id
      /\ \A i \in DOMAIN journal' : journal'[i].event.id < nextId'
      /\ \A a \in acked : Survives(a)' => Survives(a)
      /\ SafeLines'
  <2>1. CASE hasJournal
    <3>1. AppendJournal(e, "line") /\ "line" \in Remains
      BY <2>1 DEF Record, Remains
    <3>2. /\ journal' \in Seq(Entries)
          /\ damaged' \in BOOLEAN
          /\ \A i, j \in DOMAIN journal' :
               i < j => journal'[i].event.id < journal'[j].event.id
          /\ \A i \in DOMAIN journal' : journal'[i].event.id < nextId'
          /\ \A a \in acked : Survives(a)' => Survives(a)
          /\ ~damaged' => \A n \in DOMAIN journal' : journal'[n].left = "line"
          /\ hasJournal' =>
               \A a \in safe : \E n \in DOMAIN journal' :
                 /\ journal'[n].event = a
                 /\ \A m \in 1..n : journal'[m].left = "line"
          /\ ~damaged =>
               \E n \in DOMAIN journal' :
                 /\ journal'[n].event = e
                 /\ \A m \in 1..n : journal'[m].left = "line"
      BY <1>1, <3>1, AppendKeepsJournal
    <3>3. \A a \in safe' : a \in safe \/ (~damaged /\ a = e)
      BY <1>1
    <3>4. SafeLines'
      BY <3>2, <3>3 DEF SafeLines
    <3> QED
      BY <3>2, <3>4 DEF Entries
  <2>2. CASE ~hasJournal
    <3>1. UNCHANGED <<journal, damaged, hasJournal>>
      BY <1>1, <2>2 DEF Record
    <3>2. \A a : Survives(a)' <=> Survives(a)
      BY <3>1, UntouchedJournal
    <3>3. \A i \in DOMAIN journal : journal[i].event.id < nextId'
      <4>1. \A i \in DOMAIN journal : journal[i].event.id \in Nat
        BY <1>2, PlacesAreTyped, TelemetryAssumption DEF Events
      <4> QED
        BY <1>2, <1>3, <4>1 DEF Chronicle
    <3>4. SafeLines'
      BY <1>2, <2>2, <3>1 DEF SafeLines
    <3>5. journal' \in Seq([event : Events, left : Remains]) /\ damaged' \in BOOLEAN
      BY <1>2, <3>1, Zenon DEF TypeOK
    <3> QED
      BY <1>2, <3>1, <3>2, <3>3, <3>4, <3>5 DEF Chronicle
  <2> QED
    BY <2>1, <2>2
<1>6. books' \in Books /\ coalescedTotal' \in Nat /\ EventsAccounted'
  <2>1. books \in Books /\ coalescedTotal \in Nat
    BY <1>2 DEF TypeOK
  <2>2. /\ books' = [offered |-> books.offered + 1, failed |-> books.failed + 0,
                     recovered |-> books.recovered]
        /\ coalescedTotal' = coalescedTotal + 0
    BY <1>1, <2>1 DEF Books
  <2>3. 0 \in Nat /\ 1 \in Nat /\ 0 + 0 + 1 = 1
    OBVIOUS
  <2> QED
    BY <1>4, <2>2, <2>3, BooksBalance
<1>7. TypeOK'
  <2>1. acked' \subseteq Events /\ safe' \subseteq Events
    BY <1>1, <1>2, <1>3 DEF TypeOK
  <2> QED
    BY <1>1, <1>2, <1>3, <1>4, <1>5, <1>6, <2>1, Zenon DEF TypeOK
<1>8. Chronicle'
  <2>1. \A a \in acked : a.id \in Nat /\ a.id < nextId
    BY <1>2, TelemetryAssumption DEF TypeOK, Events, Chronicle
  <2>2. \A a \in acked' : a.id < nextId'
    BY <1>1, <1>3, <2>1
  <2> QED
    BY <1>4, <1>5, <2>2 DEF Chronicle
<1>9. RingIsRecentHistory'
  <2>1. \A a \in acked' : (Survives(a)' /\ a.id >= ring'[1].id)
                            => \E i \in DOMAIN ring' : ring'[i] = a
    BY <1>1, <1>4, <1>5
  <2> QED
    BY <1>4, <2>1 DEF RingIsRecentHistory
<1> QED
  BY <1>5, <1>6, <1>7, <1>8, <1>9 DEF IInv

(* A step that appends to the journal, or fails to, without pushing. *)
LEMMA AppendWithoutPush ==
  ASSUME IInv, NEW e \in NewEvents, Offered(e),
         UNCHANGED <<hasJournal, acked, safe>>,
         ring' = ring \/ ring' = <<>>,
         \/ UNCHANGED <<journal, damaged>>
         \/ \E left \in Remains : AppendJournal(e, left)
  PROVE  /\ journal' \in Seq([event : Events, left : Remains])
         /\ damaged' \in BOOLEAN
         /\ nextId' \in 1..(MaxEvents + 1)
         /\ Chronicle' /\ SafeLines' /\ RingIsRecentHistory'
<1>1. TypeOK /\ Chronicle /\ SafeLines /\ RingIsRecentHistory
  BY DEF IInv
<1>2. /\ nextId \in Nat /\ nextId' = nextId + 1
      /\ nextId' \in 1..(MaxEvents + 1)
  BY <1>1, OfferedIsNew
<1>3. \A x \in Events : x.id \in Nat
  BY TelemetryAssumption DEF Events
<1>4. /\ \A i \in DOMAIN journal : journal[i].event \in Events
      /\ \A i \in DOMAIN ring : ring[i] \in Events
      /\ acked \subseteq Events
  BY <1>1, PlacesAreTyped DEF TypeOK
<1>5. DOMAIN <<>> = {}
  OBVIOUS
<1>6. /\ \A i \in DOMAIN ring' : ring'[i].id < nextId'
      /\ \A a \in acked' : a.id < nextId'
  BY <1>1, <1>2, <1>3, <1>4, <1>5 DEF Chronicle
<1>7. /\ journal' \in Seq([event : Events, left : Remains])
      /\ damaged' \in BOOLEAN
      /\ \A i, j \in DOMAIN journal' :
           i < j => journal'[i].event.id < journal'[j].event.id
      /\ \A i \in DOMAIN journal' : journal'[i].event.id < nextId'
      /\ \A a \in acked : Survives(a)' => Survives(a)
      /\ SafeLines'
  <2>1. CASE UNCHANGED <<journal, damaged>>
    <3>1. \A a : Survives(a)' <=> Survives(a)
      BY <2>1, UntouchedJournal
    <3>2. \A i \in DOMAIN journal : journal[i].event.id < nextId'
      BY <1>1, <1>2, <1>3, <1>4 DEF Chronicle
    <3>3. SafeLines'
      BY <1>1, <2>1 DEF SafeLines
    <3>4. /\ journal' \in Seq([event : Events, left : Remains])
          /\ damaged' \in BOOLEAN
      BY <1>1, <2>1, Zenon DEF TypeOK
    <3> QED
      BY <1>1, <2>1, <3>1, <3>2, <3>3, <3>4 DEF Chronicle
  <2>2. ASSUME NEW left \in Remains, AppendJournal(e, left)
        PROVE  /\ journal' \in Seq(Entries)
               /\ damaged' \in BOOLEAN
               /\ \A i, j \in DOMAIN journal' :
                    i < j => journal'[i].event.id < journal'[j].event.id
               /\ \A i \in DOMAIN journal' : journal'[i].event.id < nextId'
               /\ \A a \in acked : Survives(a)' => Survives(a)
               /\ SafeLines'
    <3>1. /\ journal' \in Seq(Entries)
          /\ damaged' \in BOOLEAN
          /\ \A i, j \in DOMAIN journal' :
               i < j => journal'[i].event.id < journal'[j].event.id
          /\ \A i \in DOMAIN journal' : journal'[i].event.id < nextId'
          /\ \A a \in acked : Survives(a)' => Survives(a)
          /\ ~damaged' => \A n \in DOMAIN journal' : journal'[n].left = "line"
          /\ hasJournal' =>
               \A a \in safe : \E n \in DOMAIN journal' :
                 /\ journal'[n].event = a
                 /\ \A m \in 1..n : journal'[m].left = "line"
      BY <2>2, AppendKeepsJournal
    <3> QED
      BY <3>1 DEF SafeLines
  <2> QED
    BY <2>1, <2>2 DEF Entries
<1>8. Chronicle'
  BY <1>6, <1>7 DEF Chronicle
<1>9. RingIsRecentHistory'
  BY <1>1, <1>5, <1>7 DEF RingIsRecentHistory
<1> QED
  BY <1>2, <1>7, <1>8, <1>9

(* A record that fails keeps the invariant, whatever it left behind. *)
LEMMA RecordFailsIInv ==
  ASSUME IInv, NEW e \in NewEvents, RecordFails(e)
  PROVE  IInv'
<1>1. /\ Offered(e)
      /\ books' = [books EXCEPT !.offered = @ + 1, !.failed = @ + 1]
      /\ UNCHANGED <<hasJournal, enabled, ring, droppedTotal, coalescedTotal,
                     acked, safe>>
      /\ \/ UNCHANGED <<journal, damaged>>
         \/ \E left \in Remains : AppendJournal(e, left)
  BY DEF RecordFails, Remains
<1>2. TypeOK /\ EventsAccounted
  BY DEF IInv
<1>3. /\ journal' \in Seq([event : Events, left : Remains])
      /\ damaged' \in BOOLEAN
      /\ nextId' \in 1..(MaxEvents + 1)
      /\ Chronicle' /\ SafeLines' /\ RingIsRecentHistory'
  BY <1>1, AppendWithoutPush
<1>4. books' \in Books /\ coalescedTotal' \in Nat /\ EventsAccounted'
  <2>1. /\ books \in Books /\ coalescedTotal \in Nat
        /\ droppedTotal \in Nat /\ Len(ring) \in Nat
    BY <1>2, PlacesAreTyped DEF TypeOK
  <2>2. /\ books' = [offered |-> books.offered + 1, failed |-> books.failed + 1,
                     recovered |-> books.recovered]
    BY <1>1, <2>1 DEF Books
  <2>3. coalescedTotal' = coalescedTotal + 0
    BY <1>1, <2>1
  <2>4. droppedTotal' = droppedTotal /\ ring' = ring
    BY <1>1
  <2>5. /\ droppedTotal' \in Nat /\ Len(ring') \in Nat
        /\ Len(ring') + droppedTotal' = Len(ring) + droppedTotal + 0
    BY <2>1, <2>4
  <2>6. 0 \in Nat /\ 1 \in Nat /\ 1 + 0 + 0 = 1
    OBVIOUS
  <2> QED
    BY <2>2, <2>3, <2>5, <2>6, BooksBalance
<1>5. TypeOK'
  BY <1>1, <1>2, <1>3, <1>4, Zenon DEF TypeOK
<1> QED
  BY <1>3, <1>4, <1>5 DEF IInv

(* A crash inside record, whatever it left behind. *)
LEMMA CrashInRecordIInv ==
  ASSUME IInv, NEW e \in NewEvents, CrashInRecord(e)
  PROVE  IInv'
<1>1. /\ Offered(e) /\ NewProcess
      /\ UNCHANGED <<hasJournal, acked, safe>>
      /\ \E left \in Remains : AppendJournal(e, left)
  BY DEF CrashInRecord
<1>2. /\ ring' = <<>> /\ enabled' = FALSE /\ droppedTotal' = 0
      /\ coalescedTotal' = 0 /\ books' = NoBooks
  BY <1>1 DEF NewProcess
<1>3. /\ journal' \in Seq([event : Events, left : Remains])
      /\ damaged' \in BOOLEAN
      /\ nextId' \in 1..(MaxEvents + 1)
      /\ Chronicle' /\ SafeLines' /\ RingIsRecentHistory'
  BY <1>1, <1>2, AppendWithoutPush
<1>4. /\ ring' \in Seq(Events) /\ Len(ring') = 0 /\ 0 <= Capacity
      /\ droppedTotal' \in Nat /\ coalescedTotal' \in Nat /\ books' \in Books
  BY <1>2, EmptySeq, TelemetryAssumption DEF NoBooks, Books
<1>5. EventsAccounted'
  BY <1>2, <1>4 DEF EventsAccounted, NoBooks
<1>6. TypeOK'
  BY <1>1, <1>2, <1>3, <1>4, Zenon DEF TypeOK, IInv
<1> QED
  BY <1>3, <1>5, <1>6 DEF IInv

(* record_coalesced keeps the invariant. *)
LEMMA RecordCoalescedIInv ==
  ASSUME IInv, NEW e \in NewEvents, RecordCoalesced(e)
  PROVE  IInv'
<1>1. /\ Offered(e)
      /\ books' = [books EXCEPT !.offered = @ + 1]
      /\ UNCHANGED <<hasJournal, journal, enabled, acked, damaged, safe>>
  BY DEF RecordCoalesced
<1>2. /\ TypeOK /\ Chronicle /\ RingIsRecentHistory
      /\ books \in Books /\ coalescedTotal \in Nat
      /\ droppedTotal \in Nat /\ Len(ring) \in Nat
  BY PlacesAreTyped DEF IInv, TypeOK
<1>3. /\ books' = [offered |-> books.offered + 1, failed |-> books.failed + 0,
                   recovered |-> books.recovered]
      /\ 0 \in Nat /\ 1 \in Nat /\ 0 + 0 + 1 = 1 /\ 0 + 1 + 0 = 1
  BY <1>1, <1>2 DEF Books
<1>4. CASE Repeats(e)
  <2>1. coalescedTotal' = coalescedTotal + 1 /\ UNCHANGED <<ring, droppedTotal>>
    BY <1>4 DEF RecordCoalesced
  <2>2. /\ droppedTotal' \in Nat /\ Len(ring') \in Nat
        /\ Len(ring') + droppedTotal' = Len(ring) + droppedTotal + 0
    BY <1>2, <2>1
  <2>3. books' \in Books /\ coalescedTotal' \in Nat /\ EventsAccounted'
    BY <1>3, <2>1, <2>2, BooksBalance
  <2>4. /\ nextId' \in 1..(MaxEvents + 1)
        /\ Chronicle' /\ SafeLines' /\ RingIsRecentHistory'
    BY <1>1, <2>1, AppendWithoutPush
  <2>5. TypeOK'
    BY <1>1, <1>2, <2>1, <2>3, <2>4, Zenon DEF TypeOK
  <2> QED
    BY <2>3, <2>4, <2>5 DEF IInv
<1>5. CASE ~Repeats(e)
  <2>1. PushEvent(e) /\ UNCHANGED coalescedTotal
    BY <1>5 DEF RecordCoalesced
  <2>2. /\ ring' \in Seq(Events) /\ Len(ring') <= Capacity
        /\ droppedTotal' \in Nat
        /\ Len(ring') \in Nat
        /\ Len(ring') + droppedTotal' = Len(ring) + droppedTotal + 1
        /\ \A i, j \in DOMAIN ring' : i < j => ring'[i].id < ring'[j].id
        /\ \A i \in DOMAIN ring' : ring'[i].id < nextId'
        /\ \A a \in acked :
             (Survives(a) /\ a.id >= ring'[1].id)
               => \E i \in DOMAIN ring' : ring'[i] = a
    BY <1>1, <2>1, PushKeepsHistory
  <2>3. coalescedTotal' = coalescedTotal + 0
    BY <1>2, <2>1
  <2>4. books' \in Books /\ coalescedTotal' \in Nat /\ EventsAccounted'
    BY <1>3, <2>2, <2>3, BooksBalance
  <2>5. /\ nextId \in Nat /\ nextId' = nextId + 1
        /\ nextId' \in 1..(MaxEvents + 1)
    BY <1>1, <1>2, OfferedIsNew
  <2>6. TypeOK'
    BY <1>1, <1>2, <2>2, <2>4, <2>5, Zenon DEF TypeOK
  <2>7. Chronicle'
    <3>1. \A x \in Events : x.id \in Nat
      BY TelemetryAssumption DEF Events
    <3>2. /\ \A i \in DOMAIN journal : journal[i].event \in Events
          /\ acked \subseteq Events
      BY <1>2, PlacesAreTyped DEF TypeOK
    <3>3. /\ \A i \in DOMAIN journal : journal[i].event.id < nextId'
          /\ \A a \in acked : a.id < nextId'
      BY <1>2, <2>5, <3>1, <3>2 DEF Chronicle
    <3> QED
      BY <1>1, <1>2, <2>2, <3>3 DEF Chronicle
  <2>8. SafeLines'
    BY <1>1 DEF IInv, SafeLines
  <2>9. RingIsRecentHistory'
    <3>1. \A a : Survives(a)' <=> Survives(a)
      BY <1>1, UntouchedJournal
    <3> QED
      BY <1>1, <2>2, <3>1 DEF RingIsRecentHistory
  <2> QED
    BY <2>4, <2>6, <2>7, <2>8, <2>9 DEF IInv
<1> QED
  BY <1>4, <1>5

(* Recovery into an empty ring keeps the invariant. *)
LEMMA RecoverIInv ==
  ASSUME IInv, ring = <<>>, RecoverJournal
  PROVE  IInv'
<1>1. /\ books' = [books EXCEPT !.recovered = @ + (Len(ring') - Len(ring))]
      /\ UNCHANGED <<hasJournal, journal, enabled, droppedTotal,
                     coalescedTotal, nextId, acked, damaged, safe>>
  BY DEF RecoverJournal
<1>2. /\ TypeOK /\ Chronicle
      /\ books \in Books /\ coalescedTotal \in Nat /\ droppedTotal \in Nat
      /\ Len(ring) = 0
  BY EmptySeq DEF IInv, TypeOK
<1>3. PICK d \in Nat :
        /\ ring' \in Seq(Events)
        /\ Len(ring') <= Capacity
        /\ d + Len(ring') = Cardinality(Recoverable)
        /\ \A i \in 1..Len(ring') : i + d \in DOMAIN journal
                                    /\ ring'[i] = journal[i + d].event
  BY <1>2, RecoveryShifts
<1>4. Len(ring') \in Nat /\ DOMAIN ring' = 1..Len(ring')
  <2>1. \A r \in Seq(Events) : Len(r) \in Nat /\ DOMAIN r = 1..Len(r)
    BY LenProperties
  <2>2. ring' \in Seq(Events)
    BY <1>3
  <2> QED
    BY <2>1, <2>2
<1>5. books' \in Books /\ EventsAccounted'
  <2>1. PICK o \in Nat, f \in Nat, r \in Nat, m \in Nat :
          /\ books.offered = o /\ books.failed = f /\ books.recovered = r
          /\ Len(ring') = m
    BY <1>2, <1>4 DEF Books
  <2>2. PICK c \in Nat, n \in Nat : coalescedTotal = c /\ droppedTotal = n
    BY <1>2
  <2>3. books' = [offered |-> o, failed |-> f, recovered |-> r + m]
    <3>1. Len(ring') - Len(ring) = m
      BY <1>2, <2>1
    <3> QED
      BY <1>1, <1>2, <2>1, <3>1 DEF Books
  <2>4. /\ books' \in Books /\ books'.offered = o /\ books'.failed = f
        /\ books'.recovered = r + m
    BY <2>3 DEF Books
  <2>5. o + r = f + c + n + 0
    BY <1>2, <2>1, <2>2 DEF IInv, EventsAccounted
  <2>6. o + (r + m) = f + c + n + m
    BY <2>5
  <2>7. EventsAccounted'
    BY <1>1, <2>1, <2>2, <2>4, <2>6 DEF EventsAccounted
  <2> QED
    BY <2>4, <2>7
<1>6. TypeOK'
  BY <1>1, <1>2, <1>3, <1>5, Zenon DEF TypeOK
<1>7. /\ \A i, j \in DOMAIN journal :
           i < j => journal[i].event.id < journal[j].event.id
      /\ \A i \in DOMAIN journal : journal[i].event.id < nextId
      /\ \A i \in DOMAIN journal : journal[i].event.id \in Nat
      /\ DOMAIN journal \subseteq Nat
  <2>1. \A x \in Events : x.id \in Nat
    BY TelemetryAssumption DEF Events
  <2>2. /\ \A i \in DOMAIN journal : journal[i].event \in Events
        /\ DOMAIN journal \subseteq Nat
    BY <1>2, PlacesAreTyped
  <2> QED
    BY <1>2, <2>1, <2>2 DEF Chronicle
<1>8. Chronicle'
  BY <1>1, <1>2, <1>3, <1>4, <1>7 DEF Chronicle
<1>9. SafeLines'
  BY <1>1 DEF IInv, SafeLines
<1>10. RingIsRecentHistory'
  <2>1. \A i, j \in DOMAIN ring' : i < j => ring'[i].id < ring'[j].id
    <3> SUFFICES ASSUME NEW i \in DOMAIN ring', NEW j \in DOMAIN ring', i < j
                 PROVE  ring'[i].id < ring'[j].id
      OBVIOUS
    <3>1. /\ i + d \in DOMAIN journal /\ ring'[i] = journal[i + d].event
          /\ j + d \in DOMAIN journal /\ ring'[j] = journal[j + d].event
      BY <1>3, <1>4
    <3>2. i + d < j + d
      BY <1>4
    <3> QED
      BY <1>7, <3>1, <3>2
  <2>2. ASSUME ring' # <<>>, NEW a \in acked', Survives(a)', a.id >= ring'[1].id
        PROVE  \E i \in DOMAIN ring' : ring'[i] = a
    <3>1. PICK n \in Recoverable : journal[n].event = a
      BY <1>1, <2>2, UntouchedJournal DEF Survives
    <3>2. n \in 1..(d + Len(ring')) /\ n \in DOMAIN journal
      BY <1>2, <1>3, <3>1, RecoverableIsPrefix DEF Recoverable
    <3>3. 1 \in DOMAIN ring'
      <4>1. Len(ring') # 0
        BY <1>3, <2>2, EmptySeq
      <4> QED
        BY <1>4, <4>1
    <3>4. 1 + d \in DOMAIN journal /\ ring'[1] = journal[1 + d].event
      BY <1>3, <1>4, <3>3
    <3>5. n >= 1 + d
      <4>1. CASE n < 1 + d
        <5>1. a.id < ring'[1].id
          BY <1>7, <3>1, <3>2, <3>4, <4>1
        <5>2. a.id \in Nat /\ ring'[1].id \in Nat
          BY <1>7, <3>1, <3>2, <3>4
        <5> QED
          BY <2>2, <5>1, <5>2
      <4> QED
        BY <3>2, <4>1
    <3>6. n - d \in 1..Len(ring') /\ (n - d) + d = n
      BY <1>4, <3>2, <3>5
    <3>7. ring'[n - d] = a
      BY <1>3, <3>1, <3>6
    <3> QED
      BY <1>4, <3>6, <3>7
  <2> QED
    BY <2>1, <2>2 DEF RingIsRecentHistory
<1> QED
  BY <1>5, <1>6, <1>8, <1>9, <1>10 DEF IInv

(* Every step keeps the invariant. *)
LEMMA NextIInv == IInv /\ [Next]_vars => IInv'
<1> SUFFICES ASSUME IInv, [Next]_vars PROVE IInv'
  OBVIOUS
<1>1. TypeOK /\ EventsAccounted
  BY DEF IInv
<1>2. CASE Enable \/ Disable
  <2>1. /\ UNCHANGED <<hasJournal, journal, ring, droppedTotal, coalescedTotal,
                       nextId, acked, damaged, safe, books>>
        /\ enabled' \in BOOLEAN
    BY <1>2, Zenon DEF Enable, Disable
  <2>2. TypeOK' /\ EventsAccounted'
    BY <1>1, <2>1, Zenon DEF TypeOK, EventsAccounted
  <2> QED
    BY <2>1, <2>2, QuietStep DEF IInv
<1>3. ASSUME NEW e \in NewEvents, Record(e) PROVE IInv'
  BY <1>3, RecordIInv
<1>4. ASSUME NEW e \in NewEvents, RecordFails(e) PROVE IInv'
  BY <1>4, RecordFailsIInv
<1>5. ASSUME NEW e \in NewEvents, RecordCoalesced(e) PROVE IInv'
  BY <1>5, RecordCoalescedIInv
<1>6. CASE ring = <<>> /\ RecoverJournal
  BY <1>6, RecoverIInv
<1>7. CASE Crash
  <2>1. /\ UNCHANGED <<hasJournal, journal, nextId, acked, damaged, safe>>
        /\ ring' = <<>> /\ enabled' = FALSE /\ droppedTotal' = 0
        /\ coalescedTotal' = 0 /\ books' = NoBooks
    BY <1>7 DEF Crash, NewProcess
  <2>2. /\ ring' \in Seq(Events) /\ Len(ring') = 0 /\ Len(ring') <= Capacity
        /\ droppedTotal' \in Nat /\ coalescedTotal' \in Nat /\ books' \in Books
    BY <2>1, EmptySeq, TelemetryAssumption DEF NoBooks, Books
  <2>3. TypeOK'
    BY <1>1, <2>1, <2>2, Zenon DEF TypeOK
  <2>4. EventsAccounted'
    BY <2>1, <2>2 DEF EventsAccounted, NoBooks
  <2> QED
    BY <2>1, <2>3, <2>4, QuietStep DEF IInv
<1>8. ASSUME NEW e \in NewEvents, CrashInRecord(e) PROVE IInv'
  BY <1>8, CrashInRecordIInv
<1>9. CASE UNCHANGED vars
  <2>1. UNCHANGED <<hasJournal, journal, nextId, acked, damaged, safe>>
        /\ ring' = ring
    BY <1>9 DEF vars
  <2>2. TypeOK' /\ EventsAccounted'
    BY <1>1, <1>9, Zenon DEF TypeOK, EventsAccounted, vars
  <2> QED
    BY <2>1, <2>2, QuietStep DEF IInv
<1> QED
  BY <1>2, <1>3, <1>4, <1>5, <1>6, <1>7, <1>8, <1>9 DEF Next

-----------------------------------------------------------------------------
(* The theorems. *)

(* The inductive invariant holds in every reachable state. *)
THEOREM InvariantHolds == Spec => []IInv
BY InitIInv, NextIInv, PTL DEF Spec

(* Every variable keeps its type; the ring never outgrows its capacity. *)
THEOREM TypeCorrect == Spec => []TypeOK
<1>1. IInv => TypeOK
  BY DEF IInv
<1> QED
  BY <1>1, InvariantHolds, PTL

(* An event that record acknowledged before any append was cut short is    *)
(* recovered by every later process, however often it crashes and whatever *)
(* is appended behind it.                                                  *)
THEOREM AcknowledgedIsDurable == Spec => []AckedSurvives
<1>1. IInv => AckedSurvives
  <2> SUFFICES ASSUME IInv, hasJournal, NEW e \in safe PROVE Survives(e)
    BY DEF AckedSurvives
  <2>1. PICK n \in DOMAIN journal :
          /\ journal[n].event = e
          /\ \A m \in 1..n : journal[m].left = "line"
    BY DEF IInv, SafeLines
  <2>2. n \in Recoverable
    BY <2>1 DEF Recoverable, Parses
  <2> QED
    BY <2>1, <2>2 DEF Survives
<1> QED
  BY <1>1, InvariantHolds, PTL

(* The ring holds events in the order they happened, each once, and leaves *)
(* out nothing recoverable since its oldest one, across crashes and        *)
(* recoveries.                                                             *)
THEOREM RingIsHistory == Spec => []RingIsRecentHistory
<1>1. IInv => RingIsRecentHistory
  BY DEF IInv
<1> QED
  BY <1>1, InvariantHolds, PTL

(* dropped_total and coalesced_total account for every event that is not   *)
(* in the ring and was not refused with an error.                          *)
THEOREM EveryEventIsAccounted == Spec => []EventsAccounted
<1>1. IInv => EventsAccounted
  BY DEF IInv
<1> QED
  BY <1>1, InvariantHolds, PTL

=============================================================================
