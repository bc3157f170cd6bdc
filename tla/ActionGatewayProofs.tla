------------------------ MODULE ActionGatewayProofs -------------------------
(***************************************************************************)
(* What the gateway's operations keep, for every command database, pacing  *)
(* and context: lemmas for the proofs about any of its users; and, from    *)
(* them, that callers which hold proposals and come back with them at will *)
(* get nothing past the gate.                                              *)
(***************************************************************************)
EXTENDS GatewayCallers, SequenceTheorems, FiniteSetTheorems, TLAPS

(* The wall clock, set back at most MaxSkew, never reaches zero. *)
ClockStarted == StartTime <= time

(* What evaluate approves of, and the gateway sends without asking. *)
PolicyAllows(p) ==
  LET policy == EvaluateCommand(rules, p.command, p.args)
  IN ~policy.denied /\ policy.argOk

PolicyConfirms(p) == EvaluateCommand(rules, p.command, p.args).confirm

(* Proposals, sent or not, carry numbers that were given out. *)
LEMMA ProposalIds ==
  /\ \A p \in Proposals : p.id \in 1..MaxProposals
  /\ \A sent \in SendRecords : sent.proposal \in Proposals
BY DEF Proposals, SendRecords

(* now_ms() is a natural number. *)
LEMMA NowIsNat ==
  ASSUME GatewayTypeOK, ClockStarted
  PROVE  Now \in Nat
BY GatewayAssumption DEF GatewayTypeOK, ClockStarted, Now

(* A gateway starts with its state well typed and its clock running. *)
LEMMA GatewayStarts ==
  ASSUME GatewayInit
  PROVE  GatewayTypeOK /\ ClockStarted
<1>1. tempo \in [lastSend : Nat, start : Nat, count : 0..MaxBurst]
  BY PolicyAssumption DEF GatewayInit, NewTempo
<1>2. queue \in Seq(1..MaxProposals) /\ sends \in Seq(SendRecords)
  BY DEF GatewayInit
<1>3. seq \in 0..MaxProposals /\ skew \in 0..MaxSkew /\ time \in Nat
  BY GatewayAssumption DEF GatewayInit
<1>4. ClockStarted
  BY GatewayAssumption DEF GatewayInit, ClockStarted
<1>5. stopEngaged \in BOOLEAN /\ rules \in RuleLists
  BY Zenon DEF GatewayInit
<1> QED
  BY <1>1, <1>2, <1>3, <1>4, <1>5, Zenon DEF GatewayTypeOK

(* propose numbers a proposal one past the last and records whether the    *)
(* database asks for confirmation.                                         *)
LEMMA NewProposalIsProposal ==
  ASSUME GatewayTypeOK, seq < MaxProposals,
         NEW command \in Commands, NEW args \in Args
  PROVE  /\ NewProposal(command, args) \in Proposals
         /\ NewProposal(command, args).id = seq + 1
         /\ NewProposal(command, args).confirm
              <=> PolicyConfirms(NewProposal(command, args))
<1>1. EvaluateCommand(rules, command, args).confirm \in BOOLEAN
  <2> DEFINE rule == Head(RulesFor(rules, command))
  <2>1. CASE RulesFor(rules, command) = <<>>
    BY <2>1 DEF EvaluateCommand
  <2>2. CASE RulesFor(rules, command) # <<>> /\ rule.deny
    BY <2>2 DEF EvaluateCommand
  <2>3. CASE RulesFor(rules, command) # <<>> /\ ~rule.deny
    <3>1. EvaluateCommand(rules, command, args)
            = [denied |-> FALSE,
               confirm |-> RequiresConfirmation(rule.tier) /\ ~rule.allowlisted,
               argOk |-> ValidateArgs(rule.arg, args)]
      BY <2>3 DEF EvaluateCommand
    <3> QED
      BY <3>1
  <2> QED
    BY <2>1, <2>2, <2>3
<1>2. seq + 1 \in 1..MaxProposals
  BY GatewayAssumption DEF GatewayTypeOK
<1> QED
  BY <1>1, <1>2 DEF NewProposal, Proposals, PolicyConfirms

(* should_send leaves a well typed HumanTempo, its count within the burst. *)
LEMMA TempoStaysTyped ==
  ASSUME NEW t \in [lastSend : Nat, start : Nat, count : 0..MaxBurst],
         NEW now \in Nat
  PROVE  TempoAfter(t, now) \in [lastSend : Nat, start : Nat, count : 0..MaxBurst]
<1>1. RolledTempo(t, now) \in [lastSend : Nat, start : Nat, count : 0..MaxBurst]
  <2>1. 0 \in 0..MaxBurst
    BY PolicyAssumption
  <2> QED
    BY <2>1 DEF RolledTempo
<1>2. SendsNow(t, now) => RolledTempo(t, now).count < MaxBurst
  BY DEF SendsNow
<1>3. CASE SendsNow(t, now)
  <2> DEFINE rolled == RolledTempo(t, now)
  <2>1. rolled.count + 1 \in 0..MaxBurst
    BY <1>1, <1>2, <1>3, PolicyAssumption
  <2>2. TempoAfter(t, now)
          = [rolled EXCEPT !.lastSend = now, !.count = rolled.count + 1]
    BY <1>3 DEF TempoAfter
  <2> HIDE DEF rolled
  <2> QED
    BY <1>1, <2>1, <2>2 DEF rolled
<1>4. CASE ~SendsNow(t, now)
  BY <1>1, <1>4 DEF TempoAfter
<1> QED
  BY <1>3, <1>4

(* approve_and_send sends nothing, or the one proposal it was given: with  *)
(* the emergency stop released, allowed by the database and in need of no  *)
(* confirmation.                                                           *)
LEMMA GatewaySendIsGated ==
  ASSUME NEW p, NEW ctx, NEW ok, NEW by, GatewaySend(p, ctx, ok, by)
  PROVE  \/ sends' = sends
         \/ /\ sends' = Append(sends, Sent(p, by))
            /\ ~stopEngaged
            /\ PolicyAllows(p)
            /\ ~PolicyConfirms(p)
            /\ ~p.confirm
BY DEF GatewaySend, GatewaySends, Approves, Denies, NeedsConfirmation,
       PolicyAllows, PolicyConfirms

(* approve_and_send keeps the gateway's state well typed. *)
LEMMA GatewaySendStaysTyped ==
  ASSUME GatewayTypeOK, ClockStarted, NEW p \in Proposals, NEW ctx, NEW ok,
         NEW by \in {"gateway", "auto", "confirmed"},
         GatewaySend(p, ctx, ok, by)
  PROVE  GatewayTypeOK' /\ ClockStarted'
<1>1. tempo' \in [lastSend : Nat, start : Nat, count : 0..MaxBurst]
  BY NowIsNat, TempoStaysTyped DEF GatewaySend, GatewayTypeOK
<1>2. Sent(p, by) \in SendRecords
  BY DEF Sent, SendRecords, GatewayTypeOK
<1>3. sends' \in Seq(SendRecords)
  BY <1>2 DEF GatewaySend, GatewayTypeOK
<1> QED
  BY <1>1, <1>3 DEF GatewaySend, GatewayTypeOK, ClockStarted

(* So do time passing and the wall clock being set back. *)
LEMMA ClockStaysTyped ==
  ASSUME GatewayTypeOK, ClockStarted, Tick \/ SetClockBack
  PROVE  GatewayTypeOK' /\ ClockStarted'
BY GatewayAssumption DEF Tick, SetClockBack, GatewayTypeOK, ClockStarted

(* And a step that leaves the gateway alone. *)
LEMMA GatewayUntouched ==
  ASSUME GatewayTypeOK, ClockStarted, UNCHANGED gatewayVars
  PROVE  GatewayTypeOK' /\ ClockStarted'
BY DEF gatewayVars, GatewayTypeOK, ClockStarted

(* An operation that numbers a proposal keeps the types. *)
LEMMA NumberingStaysTyped ==
  ASSUME GatewayTypeOK, ClockStarted, seq < MaxProposals, seq' = seq + 1,
         UNCHANGED <<rules, tempo, queue, stopEngaged, time, skew, sends>>
  PROVE  GatewayTypeOK' /\ ClockStarted'
BY GatewayAssumption DEF GatewayTypeOK, ClockStarted

(* Pulling or releasing the emergency stop keeps the types. *)
LEMMA StopStaysTyped ==
  ASSUME GatewayTypeOK, ClockStarted, EngageStop \/ ReleaseStop,
         UNCHANGED <<rules, tempo, seq, time, skew, sends>>
  PROVE  GatewayTypeOK' /\ ClockStarted'
<1>1. queue' \in Seq(1..MaxProposals)
  <2>1. CASE queue' = <<>>
    BY <2>1
  <2>2. CASE queue' = queue
    BY <2>2 DEF GatewayTypeOK
  <2> QED
    BY <2>1, <2>2 DEF EngageStop, ReleaseStop
<1>2. stopEngaged' \in BOOLEAN
  BY Zenon DEF EngageStop, ReleaseStop
<1> QED
  BY <1>1, <1>2, Zenon DEF GatewayTypeOK, ClockStarted

-----------------------------------------------------------------------------
(* Burst windows.  T gives the times of some events; a window of w         *)
(* milliseconds, which began at start and has counted count of them, takes *)
(* at most cap.                                                            *)

Within(T, lo, hi) == {n \in DOMAIN T : lo <= T[n] /\ T[n] < hi}
Since(T, lo) == {n \in DOMAIN T : lo <= T[n]}

(* The window has counted every event since it began, the windows before   *)
(* it that a span of w can reach took at most cap, and so no span of w     *)
(* holds more than two windows' worth.                                     *)
WindowInv(T, start, count, now, cap, w) ==
  /\ start <= now
  /\ \A n \in DOMAIN T : T[n] <= now
  /\ \A n \in DOMAIN T : start <= T[n] => Elapsed(T[n], start) < w
  /\ Cardinality(Since(T, start)) <= count
  /\ Cardinality(Within(T, start - w, start)) <= cap
  /\ \A lo \in Nat : Cardinality(Within(T, lo, lo + w)) <= 2 * cap

(* Elapsed time modulo the range of the clock never exceeds the true one.  *)
LEMMA ElapsedIsBounded ==
  /\ \A now, since \in Nat : since <= now => Elapsed(now, since) <= now - since
  /\ \A now \in Nat : Elapsed(now, now) = 0
<1>1. ClockRange \in Nat /\ ClockRange > 0
  BY PolicyAssumption
<1>2. \A a \in Nat : a % ClockRange <= a
  BY <1>1
<1>3. 0 % ClockRange = 0
  BY <1>1
<1> QED
  BY <1>2, <1>3 DEF Elapsed

(* The sets of events are finite. *)
LEMMA EventsAreFinite ==
  ASSUME NEW T, IsFiniteSet(DOMAIN T), NEW lo, NEW hi
  PROVE  /\ IsFiniteSet(Since(T, lo)) /\ Cardinality(Since(T, lo)) \in Nat
         /\ IsFiniteSet(Within(T, lo, hi)) /\ Cardinality(Within(T, lo, hi)) \in Nat
<1>1. Since(T, lo) \subseteq DOMAIN T /\ Within(T, lo, hi) \subseteq DOMAIN T
  BY DEF Since, Within
<1>2. IsFiniteSet(Since(T, lo)) /\ IsFiniteSet(Within(T, lo, hi))
  BY <1>1, FS_Subset
<1> QED
  BY <1>2, FS_CardinalityType

(* A window that is over is replaced by one that begins now. *)
LEMMA RollKeepsWindow ==
  ASSUME NEW T, IsFiniteSet(DOMAIN T), \A n \in DOMAIN T : T[n] \in Nat,
         NEW start \in Nat, NEW count \in Nat, NEW now \in Nat,
         NEW cap \in Nat, NEW w \in Nat, count <= cap,
         WindowInv(T, start, count, now, cap, w),
         Elapsed(now, start) >= w
  PROVE  WindowInv(T, now, 0, now, cap, w)
<1>1. /\ start <= now
      /\ \A n \in DOMAIN T : T[n] <= now
      /\ \A n \in DOMAIN T : start <= T[n] => Elapsed(T[n], start) < w
      /\ Cardinality(Since(T, start)) <= count
      /\ \A lo \in Nat : Cardinality(Within(T, lo, lo + w)) <= 2 * cap
  BY DEF WindowInv
<1>2. Elapsed(now, start) \in Int /\ now - start >= w
  <2>1. Elapsed(now, start) \in Int
    BY PolicyAssumption DEF Elapsed
  <2> QED
    BY <1>1, <2>1, ElapsedIsBounded
<1>3. ASSUME NEW n \in DOMAIN T PROVE T[n] < now
  <2>1. CASE T[n] = now
    <3>1. Elapsed(now, start) < w
      BY <1>1, <2>1
    <3> QED
      BY <1>2, <3>1
  <2>2. T[n] \in Nat /\ T[n] <= now
    BY <1>1
  <2> QED
    BY <2>1, <2>2
<1>4. Since(T, now) = {}
  BY <1>3 DEF Since
<1>5. Within(T, now - w, now) \subseteq Since(T, start)
  BY <1>2 DEF Within, Since
<1>6. Cardinality(Within(T, now - w, now)) <= Cardinality(Since(T, start))
  BY <1>5, EventsAreFinite, FS_Subset
<1>7. Cardinality(Within(T, now - w, now)) <= cap
  <2>1. /\ Cardinality(Within(T, now - w, now)) \in Nat
        /\ Cardinality(Since(T, start)) \in Nat
    BY EventsAreFinite
  <2> QED
    BY <1>1, <1>6, <2>1
<1>8. \A n \in DOMAIN T : now <= T[n] => Elapsed(T[n], now) < w
  BY <1>3
<1>9. Cardinality(Since(T, now)) <= 0
  BY <1>4, FS_EmptySet
<1> QED
  BY <1>1, <1>7, <1>8, <1>9 DEF WindowInv

(* Time passes, and a window may count what never became an event. *)
LEMMA CountKeepsWindow ==
  ASSUME NEW T, IsFiniteSet(DOMAIN T), \A n \in DOMAIN T : T[n] \in Nat,
         NEW start \in Nat, NEW count \in Nat, NEW now \in Nat,
         NEW cap \in Nat, NEW w \in Nat,
         WindowInv(T, start, count, now, cap, w),
         NEW count2 \in Nat, count <= count2, NEW now2 \in Nat, now <= now2
  PROVE  WindowInv(T, start, count2, now2, cap, w)
<1>1. Cardinality(Since(T, start)) <= count2
  <2>1. Cardinality(Since(T, start)) \in Nat
    BY EventsAreFinite
  <2> QED
    BY <2>1 DEF WindowInv
<1>2. start <= now2 /\ \A n \in DOMAIN T : T[n] <= now2
  BY DEF WindowInv
<1> QED
  BY <1>1, <1>2 DEF WindowInv

(* The window takes one more event. *)
LEMMA TakeKeepsWindow ==
  ASSUME NEW T, IsFiniteSet(DOMAIN T), \A n \in DOMAIN T : T[n] \in Nat,
         NEW start \in Nat, NEW count \in Nat, NEW now \in Nat,
         NEW cap \in Nat, NEW w \in Nat, count < cap,
         WindowInv(T, start, count, now, cap, w),
         Elapsed(now, start) < w,
         NEW k, k \notin DOMAIN T,
         NEW U, DOMAIN U = DOMAIN T \cup {k}, U[k] = now,
         \A n \in DOMAIN T : U[n] = T[n]
  PROVE  WindowInv(U, start, count + 1, now, cap, w)
<1>1. /\ start <= now
      /\ \A n \in DOMAIN T : T[n] <= now
      /\ \A n \in DOMAIN T : start <= T[n] => Elapsed(T[n], start) < w
      /\ Cardinality(Since(T, start)) <= count
      /\ Cardinality(Within(T, start - w, start)) <= cap
      /\ \A lo \in Nat : Cardinality(Within(T, lo, lo + w)) <= 2 * cap
  BY DEF WindowInv
<1>2. \A n \in DOMAIN U : n = k \/ n \in DOMAIN T
  OBVIOUS
<1>3. IsFiniteSet(DOMAIN U)
  BY FS_AddElement
<1>4. \A n \in DOMAIN U : U[n] \in Nat /\ U[n] <= now
  BY <1>1, <1>2
<1>5. \A n \in DOMAIN U : start <= U[n] => Elapsed(U[n], start) < w
  BY <1>1, <1>2
<1>6. Cardinality(Since(U, start)) <= count + 1
  <2>1. Since(U, start) = Since(T, start) \cup {k} /\ k \notin Since(T, start)
    BY <1>1, <1>2 DEF Since
  <2>2. IsFiniteSet(Since(T, start)) /\ Cardinality(Since(T, start)) \in Nat
    BY EventsAreFinite
  <2>3. Cardinality(Since(U, start)) = Cardinality(Since(T, start)) + 1
    BY <2>1, <2>2, FS_AddElement
  <2> QED
    BY <1>1, <2>2, <2>3
<1>7. Cardinality(Within(U, start - w, start)) <= cap
  <2>1. Within(U, start - w, start) = Within(T, start - w, start)
    BY <1>1, <1>2 DEF Within
  <2> QED
    BY <1>1, <2>1
<1>8. ASSUME NEW lo \in Nat
      PROVE  Cardinality(Within(U, lo, lo + w)) <= 2 * cap
  <2>1. CASE lo <= now /\ now < lo + w
    <3> DEFINE A == Since(U, start)
               B == Within(U, start - w, start)
               C == Within(U, lo, lo + w)
    <3>1. C \subseteq A \cup B
      <4> SUFFICES ASSUME NEW n \in C PROVE n \in A \cup B
        OBVIOUS
      <4>1. n \in DOMAIN U /\ lo <= U[n] /\ U[n] \in Nat
        BY <1>4 DEF Within
      <4>2. start - w <= U[n]
        BY <1>1, <2>1, <4>1
      <4> QED
        BY <4>1, <4>2 DEF Since, Within
    <3>2. /\ IsFiniteSet(A) /\ Cardinality(A) \in Nat
          /\ IsFiniteSet(B) /\ Cardinality(B) \in Nat
          /\ IsFiniteSet(C) /\ Cardinality(C) \in Nat
      BY <1>3, EventsAreFinite
    <3>3. Cardinality(A) <= count + 1 /\ Cardinality(B) <= cap
      BY <1>6, <1>7
    <3> HIDE DEF A, B, C
    <3>4. /\ IsFiniteSet(A \cup B)
          /\ Cardinality(A \cup B)
               = Cardinality(A) + Cardinality(B) - Cardinality(A \cap B)
      BY <3>2, FS_Union
    <3>5. Cardinality(A \cap B) \in Nat
      BY <3>2, FS_Intersection, FS_CardinalityType
    <3>6. Cardinality(C) <= Cardinality(A \cup B)
      BY <3>1, <3>4, FS_Subset
    <3>7. Cardinality(C) <= 2 * cap
      BY <3>2, <3>3, <3>4, <3>5, <3>6
    <3> QED
      BY <3>7 DEF C
  <2>2. CASE ~(lo <= now /\ now < lo + w)
    <3>1. Within(U, lo, lo + w) = Within(T, lo, lo + w)
      BY <1>2, <2>2 DEF Within
    <3> QED
      BY <1>1, <3>1
  <2> QED
    BY <2>1, <2>2
<1> QED
  BY <1>1, <1>4, <1>5, <1>6, <1>7, <1>8 DEF WindowInv

(* The sends that the pacing governs, and when they were made.             *)
PacedSends == {n \in DOMAIN sends : sends[n].by # "confirmed"}
PacedTimes == [n \in PacedSends |-> sends[n].at]

(* The pacing's invariant: while the wall clock was not set back, the      *)
(* window HumanTempo keeps is one of these.                                *)
BurstInv ==
  skew = 0 /\ BurstWindow > 0 =>
    WindowInv(PacedTimes, tempo.start, tempo.count, time, MaxBurst, BurstWindow)

(* The sends are finitely many, at natural times.                          *)
LEMMA PacedTimesAreTimes ==
  ASSUME GatewayTypeOK
  PROVE  /\ IsFiniteSet(DOMAIN PacedTimes)
         /\ DOMAIN PacedTimes = PacedSends
         /\ \A n \in DOMAIN PacedTimes : PacedTimes[n] \in Nat
<1>1. sends \in Seq(SendRecords)
  BY DEF GatewayTypeOK
<1>2. DOMAIN sends = 1..Len(sends) /\ Len(sends) \in Nat
  BY <1>1
<1>3. IsFiniteSet(DOMAIN sends)
  BY <1>2, FS_Interval
<1>4. DOMAIN PacedTimes = PacedSends
  BY DEF PacedTimes
<1>5. IsFiniteSet(DOMAIN PacedTimes)
  BY <1>3, <1>4, FS_Subset DEF PacedSends
<1>6. ASSUME NEW n \in PacedSends PROVE PacedTimes[n] \in Nat
  <2>1. sends[n] \in SendRecords
    BY <1>1 DEF PacedSends
  <2> QED
    BY <2>1 DEF PacedTimes, SendRecords
<1> QED
  BY <1>4, <1>5, <1>6

(* A gateway starts with nothing sent.                                     *)
LEMMA BurstStarts ==
  ASSUME GatewayInit
  PROVE  BurstInv
<1>1. DOMAIN PacedTimes = {} /\ DOMAIN sends = {}
  BY DEF GatewayInit, PacedTimes, PacedSends
<1>2. tempo.start = 0 /\ tempo.count = 0 /\ time = StartTime
  BY DEF GatewayInit, NewTempo
<1>3. ASSUME NEW lo, NEW hi
      PROVE  Since(PacedTimes, lo) = {} /\ Within(PacedTimes, lo, hi) = {}
  BY <1>1 DEF Since, Within
<1>4. Cardinality({}) = 0
  BY FS_EmptySet
<1>5. 0 <= StartTime /\ 0 <= MaxBurst /\ 0 <= 2 * MaxBurst
  BY GatewayAssumption, PolicyAssumption
<1>6. WindowInv(PacedTimes, 0, 0, StartTime, MaxBurst, BurstWindow)
  <2>1. Cardinality(Since(PacedTimes, 0)) <= 0
    BY <1>3, <1>4
  <2>2. Cardinality(Within(PacedTimes, 0 - BurstWindow, 0)) <= MaxBurst
    BY <1>3, <1>4, <1>5
  <2>3. \A lo \in Nat :
          Cardinality(Within(PacedTimes, lo, lo + BurstWindow)) <= 2 * MaxBurst
    BY <1>3, <1>4, <1>5
  <2>4. /\ \A n \in DOMAIN PacedTimes : PacedTimes[n] <= StartTime
        /\ \A n \in DOMAIN PacedTimes :
             0 <= PacedTimes[n] => Elapsed(PacedTimes[n], 0) < BurstWindow
    BY <1>1
  <2> QED
    BY <1>5, <2>1, <2>2, <2>3, <2>4, Zenon DEF WindowInv
<1> QED
  BY <1>2, <1>6 DEF BurstInv

(* A step that paces nothing keeps the window, however much time passes.   *)
LEMMA BurstUntouched ==
  ASSUME GatewayTypeOK, BurstInv, tempo' = tempo, PacedTimes' = PacedTimes,
         time' \in Nat, time <= time', skew' = 0 => skew = 0
  PROVE  BurstInv'
<1> SUFFICES ASSUME skew' = 0, BurstWindow > 0
             PROVE  WindowInv(PacedTimes, tempo.start, tempo.count, time',
                              MaxBurst, BurstWindow)
  BY Zenon DEF BurstInv
<1>1. WindowInv(PacedTimes, tempo.start, tempo.count, time, MaxBurst, BurstWindow)
  BY DEF BurstInv
<1>2. tempo.start \in Nat /\ tempo.count \in Nat /\ time \in Nat
  BY PolicyAssumption DEF GatewayTypeOK
<1>3. tempo.count <= tempo.count /\ MaxBurst \in Nat /\ BurstWindow \in Nat
  BY <1>2, PolicyAssumption
<1>4. /\ IsFiniteSet(DOMAIN PacedTimes)
      /\ \A n \in DOMAIN PacedTimes : PacedTimes[n] \in Nat
  BY PacedTimesAreTimes
<1> QED
  BY <1>1, <1>2, <1>3, <1>4, CountKeepsWindow, Zenon

(* A send the autopilot makes itself is not paced.                         *)
LEMMA UnpacedSend ==
  ASSUME GatewayTypeOK, NEW p,
         sends' = sends \/ sends' = Append(sends, Sent(p, "confirmed"))
  PROVE  PacedTimes' = PacedTimes
<1>1. CASE sends' = sends
  BY <1>1 DEF PacedTimes, PacedSends
<1>2. CASE sends' = Append(sends, Sent(p, "confirmed"))
  <2>1. sends \in Seq(SendRecords)
    BY DEF GatewayTypeOK
  <2>2. /\ DOMAIN sends' = DOMAIN sends \cup {Len(sends) + 1}
        /\ \A n \in DOMAIN sends : sends'[n] = sends[n]
        /\ sends'[Len(sends) + 1].by = "confirmed"
    BY <1>2, <2>1 DEF Sent
  <2>3. PacedSends' = PacedSends
    BY <2>2 DEF PacedSends
  <2>4. \A n \in PacedSends : sends'[n].at = sends[n].at
    BY <2>2 DEF PacedSends
  <2> QED
    BY <2>3, <2>4 DEF PacedTimes
<1> QED
  BY <1>1, <1>2

(* A paced send is one more event, now.                                    *)
LEMMA PacedSend ==
  ASSUME GatewayTypeOK, NEW p, NEW by, by # "confirmed",
         sends' = Append(sends, Sent(p, by))
  PROVE  /\ Len(sends) + 1 \notin DOMAIN PacedTimes
         /\ DOMAIN PacedTimes' = DOMAIN PacedTimes \cup {Len(sends) + 1}
         /\ PacedTimes'[Len(sends) + 1] = time
         /\ \A n \in DOMAIN PacedTimes : PacedTimes'[n] = PacedTimes[n]
<1>1. sends \in Seq(SendRecords)
  BY DEF GatewayTypeOK
<1>2. /\ DOMAIN sends' = DOMAIN sends \cup {Len(sends) + 1}
      /\ \A n \in DOMAIN sends : sends'[n] = sends[n]
      /\ sends'[Len(sends) + 1].by = by
      /\ sends'[Len(sends) + 1].at = time
      /\ Len(sends) + 1 \notin DOMAIN sends
  BY <1>1 DEF Sent
<1>3. PacedSends' = PacedSends \cup {Len(sends) + 1}
  BY <1>2 DEF PacedSends
<1>4. DOMAIN PacedTimes = PacedSends /\ DOMAIN PacedTimes' = PacedSends'
  BY DEF PacedTimes
<1>5. \A n \in PacedSends : sends'[n].at = sends[n].at
  BY <1>2 DEF PacedSends
<1> QED
  BY <1>2, <1>3, <1>4, <1>5 DEF PacedTimes, PacedSends

(* approve_and_send keeps it: the window is rolled over when it is over,   *)
(* and takes the send when it is not full.                                 *)
LEMMA GatewaySendKeepsBurst ==
  ASSUME GatewayTypeOK, ClockStarted, BurstInv, NEW p, NEW ctx, NEW ok,
         NEW by, by # "confirmed", GatewaySend(p, ctx, ok, by)
  PROVE  BurstInv'
<1> SUFFICES ASSUME skew = 0, BurstWindow > 0
             PROVE  WindowInv(PacedTimes', tempo'.start, tempo'.count, time,
                              MaxBurst, BurstWindow)
  <2>1. time' = time /\ skew' = skew
    BY DEF GatewaySend
  <2> QED
    BY <2>1, Zenon DEF BurstInv
<1> DEFINE rolled == RolledTempo(tempo, time)
           T == PacedTimes
<1>0. tempo \in [lastSend : Nat, start : Nat, count : 0..MaxBurst]
  BY DEF GatewayTypeOK
<1>1. Now = time /\ time \in Nat
  BY DEF Now, GatewayTypeOK
<1>2. /\ WindowInv(T, tempo.start, tempo.count, time, MaxBurst, BurstWindow)
      /\ tempo.start \in Nat /\ tempo.count \in Nat /\ tempo.count <= MaxBurst
      /\ MaxBurst \in Nat /\ BurstWindow \in Nat
  BY <1>0, PolicyAssumption DEF BurstInv
<1>3. IsFiniteSet(DOMAIN T) /\ \A n \in DOMAIN T : T[n] \in Nat
  BY PacedTimesAreTimes
<1>4. /\ WindowInv(T, rolled.start, rolled.count, time, MaxBurst, BurstWindow)
      /\ Elapsed(time, rolled.start) < BurstWindow
      /\ rolled.start \in Nat /\ rolled.count \in Nat
      /\ rolled \in [lastSend : Nat, start : Nat, count : 0..MaxBurst]
  <2>1. CASE WindowOver(tempo, time)
    <3>1. Elapsed(time, tempo.start) >= BurstWindow
      BY <2>1 DEF WindowOver
    <3>2. WindowInv(T, time, 0, time, MaxBurst, BurstWindow)
      BY <1>1, <1>2, <1>3, <3>1, RollKeepsWindow, Zenon
    <3>3. rolled = [tempo EXCEPT !.start = time, !.count = 0]
      BY <2>1 DEF RolledTempo
    <3>4. /\ rolled.start = time /\ rolled.count = 0
          /\ rolled.start \in Nat /\ rolled.count \in Nat
          /\ rolled \in [lastSend : Nat, start : Nat, count : 0..MaxBurst]
      <4>1. 0 \in 0..MaxBurst
        BY <1>2
      <4>2. rolled.start = time /\ rolled.count = 0
        BY <1>0, <3>3
      <4>3. rolled \in [lastSend : Nat, start : Nat, count : 0..MaxBurst]
        BY <1>0, <1>1, <3>3, <4>1
      <4> HIDE DEF rolled
      <4> QED
        BY <1>1, <4>2, <4>3
    <3>5. Elapsed(time, time) < BurstWindow
      BY <1>1, ElapsedIsBounded
    <3> HIDE DEF rolled
    <3> QED
      BY <1>1, <3>2, <3>4, <3>5, Zenon
  <2>2. CASE ~WindowOver(tempo, time)
    <3>1. rolled = tempo
      BY <2>2 DEF RolledTempo
    <3>2. Elapsed(time, tempo.start) < BurstWindow
      <4>1. Elapsed(time, tempo.start) \in Int
        BY <1>1, <1>2, PolicyAssumption DEF Elapsed
      <4> QED
        BY <1>2, <2>2, <4>1 DEF WindowOver
    <3> HIDE DEF rolled
    <3> QED
      BY <1>0, <1>2, <3>1, <3>2, Zenon
  <2> QED
    BY <2>1, <2>2
<1>5. TempoAfter(tempo, time)
        = IF SendsNow(tempo, time)
            THEN [rolled EXCEPT !.lastSend = time, !.count = rolled.count + 1]
            ELSE rolled
  BY DEF TempoAfter
<1>6. SendsNow(tempo, time) => rolled.count < MaxBurst
  BY DEF SendsNow
<1> HIDE DEF rolled
<1>7. CASE GatewaySends(p, ctx) /\ ok
  <2>1. SendsNow(tempo, time) /\ tempo' = TempoAfter(tempo, time)
        /\ sends' = Append(sends, Sent(p, by))
    BY <1>1, <1>7 DEF GatewaySend, GatewaySends
  <2>2. tempo'.start = rolled.start /\ tempo'.count = rolled.count + 1
    BY <1>4, <1>5, <2>1
  <2>3. /\ Len(sends) + 1 \notin DOMAIN T
        /\ DOMAIN PacedTimes' = DOMAIN T \cup {Len(sends) + 1}
        /\ PacedTimes'[Len(sends) + 1] = time
        /\ \A n \in DOMAIN T : PacedTimes'[n] = T[n]
    BY <2>1, PacedSend, Zenon
  <2>4. rolled.count < MaxBurst
    BY <1>6, <2>1
  <2> HIDE DEF T
  <2>5. WindowInv(PacedTimes', rolled.start, rolled.count + 1, time, MaxBurst, BurstWindow)
    BY <1>1, <1>2, <1>3, <1>4, <2>3, <2>4, TakeKeepsWindow, Zenon
  <2> QED
    BY <2>2, <2>5, Zenon
<1>8. CASE ~(GatewaySends(p, ctx) /\ ok)
  <2>1. sends' = sends
    BY <1>8 DEF GatewaySend
  <2>2. PacedTimes' = T
    BY <2>1 DEF PacedTimes, PacedSends
  <2>3. \/ tempo' = tempo
        \/ tempo' = rolled
        \/ tempo' = [rolled EXCEPT !.lastSend = time, !.count = rolled.count + 1]
    BY <1>1, <1>5, Zenon DEF GatewaySend
  <2>4. CASE tempo' = tempo
    BY <1>2, <2>2, <2>4, Zenon
  <2>5. CASE tempo' = rolled
    BY <1>4, <2>2, <2>5, Zenon
  <2>6. CASE tempo' = [rolled EXCEPT !.lastSend = time, !.count = rolled.count + 1]
    <3>1. tempo'.start = rolled.start /\ tempo'.count = rolled.count + 1
      BY <1>4, <2>6
    <3>2. rolled.count + 1 \in Nat /\ rolled.count <= rolled.count + 1 /\ time <= time
      BY <1>1, <1>4
    <3> HIDE DEF T
    <3>3. WindowInv(T, rolled.start, rolled.count + 1, time, MaxBurst, BurstWindow)
      BY <1>1, <1>2, <1>3, <1>4, <3>2, CountKeepsWindow, Zenon
    <3> QED
      BY <2>2, <3>1, <3>3, Zenon DEF T
  <2> QED
    BY <2>3, <2>4, <2>5, <2>6
<1> QED
  BY <1>7, <1>8

(* In such a window no span holds more than two windows' worth of sends.   *)
LEMMA WindowBoundsBurst ==
  ASSUME GatewayTypeOK, BurstInv
  PROVE  BurstBudget
<1> SUFFICES ASSUME skew = 0, NEW n \in DOMAIN sends
             PROVE  Cardinality(PacedWithin(sends[n].at, BurstWindow)) <= 2 * MaxBurst
  BY DEF BurstBudget
<1>1. sends \in Seq(SendRecords)
  BY DEF GatewayTypeOK
<1>2. \A m \in DOMAIN sends : sends[m].at \in Nat
  <2>1. \A m \in DOMAIN sends : sends[m] \in SendRecords
    BY <1>1
  <2>2. \A sent \in SendRecords : sent.at \in Nat
    BY DEF SendRecords
  <2> QED
    BY <2>1, <2>2, Zenon
<1>3. sends[n].at \in Nat
  BY <1>2
<1>4. CASE BurstWindow > 0
  <2>1. PacedWithin(sends[n].at, BurstWindow)
          = Within(PacedTimes, sends[n].at, sends[n].at + BurstWindow)
    BY DEF PacedWithin, Within, PacedTimes, PacedSends
  <2>2. \A lo \in Nat :
          Cardinality(Within(PacedTimes, lo, lo + BurstWindow)) <= 2 * MaxBurst
    BY <1>4, Zenon DEF BurstInv, WindowInv
  <2> QED
    BY <1>3, <2>1, <2>2, Zenon
<1>5. CASE BurstWindow = 0
  <2>1. PacedWithin(sends[n].at, BurstWindow) = {}
    BY <1>2, <1>3, <1>5 DEF PacedWithin
  <2>2. Cardinality({}) = 0 /\ 0 <= 2 * MaxBurst
    BY FS_EmptySet, PolicyAssumption
  <2> QED
    BY <2>1, <2>2
<1> QED
  BY <1>4, <1>5, PolicyAssumption

-----------------------------------------------------------------------------
(* The callers. *)

CallersIInv == CallersTypeOK /\ ClockStarted /\ GateHolds

(* The database never changes, so that a send that was gated stays so. *)
LEMMA GateStays ==
  ASSUME GatewayTypeOK, GateHolds, rules' = rules, sends' = sends
  PROVE  GateHolds'
BY DEF GateHolds

(* approve_and_send by any caller adds at most one send, and a gated one. *)
LEMMA GateSends ==
  ASSUME CallersTypeOK, GateHolds,
         NEW p \in held, NEW ctx, NEW ok, ApproveAndSend(p, ctx, ok)
  PROVE  GateHolds'
<1>1. CASE sends' = sends
  BY <1>1, GateStays DEF CallersTypeOK, ApproveAndSend, GatewaySend
<1>2. CASE /\ sends' = Append(sends, Sent(p, "gateway"))
           /\ ~stopEngaged
           /\ PolicyAllows(p)
           /\ ~PolicyConfirms(p)
  <2>1. rules' = rules /\ sends \in Seq(SendRecords)
    BY DEF ApproveAndSend, GatewaySend, CallersTypeOK, GatewayTypeOK
  <2>2. /\ Sent(p, "gateway").proposal = p
        /\ Sent(p, "gateway").stopped = stopEngaged
    BY DEF Sent
  <2>3. \A n \in DOMAIN sends' :
          \/ n \in DOMAIN sends /\ sends'[n] = sends[n]
          \/ sends'[n] = Sent(p, "gateway")
    BY <1>2, <2>1
  <2> QED
    BY <1>2, <2>1, <2>2, <2>3 DEF GateHolds, PolicyAllows, PolicyConfirms
<1> QED
  BY <1>1, <1>2, GatewaySendIsGated DEF ApproveAndSend

(* The invariant holds in every reachable state.                           *)
LEMMA CallersInvariantHolds == CallersSpec => []CallersIInv
<1>1. CallersInit => CallersIInv
  <2> SUFFICES ASSUME CallersInit PROVE CallersIInv
    OBVIOUS
  <2>1. DOMAIN sends = {}
    BY DEF CallersInit, GatewayInit
  <2> QED
    BY <2>1, GatewayStarts DEF CallersInit, CallersIInv, CallersTypeOK, GateHolds
<1>2. CallersIInv /\ [CallersNext]_callersVars => CallersIInv'
  <2> SUFFICES ASSUME CallersIInv, [CallersNext]_callersVars PROVE CallersIInv'
    OBVIOUS
  <2> USE DEF CallersIInv, CallersTypeOK
  <2>1. ASSUME NEW command \in Commands, NEW args \in Args,
               CallersPropose(command, args)
        PROVE  CallersIInv'
    BY <2>1, NewProposalIsProposal, NumberingStaysTyped, GateStays DEF CallersPropose
  <2>2. ASSUME NEW p \in held, NEW ctx \in GateContexts, NEW ok \in BOOLEAN,
               ApproveAndSend(p, ctx, ok)
        PROVE  CallersIInv'
    <3>1. GatewayTypeOK' /\ ClockStarted'
      BY <2>2, GatewaySendStaysTyped DEF ApproveAndSend
    <3> QED
      BY <2>2, <3>1, GateSends DEF ApproveAndSend
  <2>3. ASSUME NEW p \in held, QueueEntry(p)
        PROVE  CallersIInv'
    <3>1. p.id \in 1..MaxProposals
      BY DEF Proposals
    <3>2. GatewayTypeOK' /\ ClockStarted'
      BY <2>3, <3>1 DEF QueueEntry, GatewayTypeOK, ClockStarted
    <3> QED
      BY <2>3, <3>2, GateStays DEF QueueEntry
  <2>4. CASE CallersEngageStop
    BY <2>4, StopStaysTyped, GateStays DEF CallersEngageStop
  <2>5. CASE CallersReleaseStop
    BY <2>5, StopStaysTyped, GateStays DEF CallersReleaseStop
  <2>6. CASE (Tick \/ SetClockBack) /\ UNCHANGED held
    BY <2>6, ClockStaysTyped, GateStays DEF Tick, SetClockBack
  <2>7. CASE UNCHANGED callersVars
    BY <2>7, GatewayUntouched, GateStays DEF callersVars, gatewayVars
  <2> QED
    BY <2>1, <2>2, <2>3, <2>4, <2>5, <2>6, <2>7 DEF CallersNext
<1> QED
  BY <1>1, <1>2, PTL DEF CallersSpec

(* The type invariant and the gate hold in every reachable state: whatever *)
(* proposals the callers keep, and whenever they come back with them.      *)
THEOREM GateAlwaysHolds == CallersSpec => [](CallersTypeOK /\ GateHolds)
<1>1. CallersIInv => CallersTypeOK /\ GateHolds
  BY DEF CallersIInv
<1> QED
  BY <1>1, CallersInvariantHolds, PTL

(* The proposals callers hold and the gateway's own state keep their type: *)
(* HumanTempo's burst count, for one, never passes max_burst.              *)
THEOREM CallersTypeCorrect == CallersSpec => []CallersTypeOK
  BY GateAlwaysHolds, PTL

(* Every step of the callers keeps the pacing's window.                    *)
LEMMA CallersKeepBurst ==
  CallersIInv /\ BurstInv /\ [CallersNext]_callersVars => BurstInv'
<1> SUFFICES ASSUME CallersIInv, BurstInv, [CallersNext]_callersVars
             PROVE  BurstInv'
  OBVIOUS
<1> USE DEF CallersIInv, CallersTypeOK
<1>1. ASSUME UNCHANGED <<tempo, sends>>, UNCHANGED <<time, skew>> \/ Tick \/ SetClockBack
      PROVE  BurstInv'
  <2>1. PacedTimes' = PacedTimes
    BY <1>1 DEF PacedTimes, PacedSends
  <2>2. time' \in Nat /\ time <= time' /\ (skew' = 0 => skew = 0)
    BY <1>1, GatewayAssumption DEF Tick, SetClockBack, GatewayTypeOK
  <2> QED
    BY <1>1, <2>1, <2>2, BurstUntouched
<1>2. ASSUME NEW p \in held, NEW ctx \in GateContexts, NEW ok \in BOOLEAN,
             ApproveAndSend(p, ctx, ok)
      PROVE  BurstInv'
  <2>1. GatewaySend(p, ctx, ok, "gateway") /\ "gateway" # "confirmed"
    BY <1>2 DEF ApproveAndSend
  <2> QED
    BY <2>1, GatewaySendKeepsBurst, Zenon
<1>3. CASE \E command \in Commands, args \in Args : CallersPropose(command, args)
  BY <1>1, <1>3 DEF CallersPropose
<1>4. CASE \E p \in held : QueueEntry(p)
  BY <1>1, <1>4 DEF QueueEntry
<1>5. CASE CallersEngageStop \/ CallersReleaseStop
  BY <1>1, <1>5 DEF CallersEngageStop, CallersReleaseStop
<1>6. CASE Tick \/ SetClockBack
  BY <1>1, <1>6 DEF Tick, SetClockBack
<1>7. CASE UNCHANGED callersVars
  BY <1>1, <1>7 DEF callersVars, gatewayVars
<1> QED
  BY <1>2, <1>3, <1>4, <1>5, <1>6, <1>7 DEF CallersNext

(* However the callers interleave, as long as the wall clock was not set   *)
(* back no span of burst_window_ms, wherever it starts, holds more than    *)
(* two windows' worth of sends.                                            *)
THEOREM CallersKeepBurstBudget == CallersSpec => []BurstBudget
<1>1. CallersInit => BurstInv
  BY BurstStarts DEF CallersInit
<1>2. CallersIInv /\ BurstInv => BurstBudget
  BY WindowBoundsBurst DEF CallersIInv, CallersTypeOK
<1> QED
  BY <1>1, <1>2, CallersKeepBurst, CallersInvariantHolds, PTL DEF CallersSpec

=============================================================================
