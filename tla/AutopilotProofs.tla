-------------------------- MODULE AutopilotProofs ---------------------------
(***************************************************************************)
(* The autopilot's safety for every command database, allowlist, capacity, *)
(* rate and number of proposals.                                           *)
(***************************************************************************)
EXTENDS Autopilot, ActionGatewayProofs, FiniteSetTheorems

(* A pending proposal was numbered, has no audit entry yet, and is pending *)
(* once.                                                                   *)
PendingOpen ==
  /\ \A i \in DOMAIN pending :
       pending[i].id <= seq /\ outcome[pending[i].id] = "none"
  /\ \A i, j \in DOMAIN pending : pending[i].id = pending[j].id => i = j

(* A number not given out yet has no audit entry; a sent one has. *)
NumbersSettled ==
  /\ \A id \in 1..MaxProposals : id > seq => outcome[id] = "none"
  /\ \A n \in DOMAIN sends : outcome[sends[n].proposal.id] # "none"

(* The database allows what is pending, and its answer on confirmation is  *)
(* still the one the proposal recorded.                                    *)
PendingAllowed ==
  \A i \in DOMAIN pending : /\ PolicyAllows(pending[i])
                            /\ pending[i].confirm <=> PolicyConfirms(pending[i])

IInv ==
  /\ TypeOK
  /\ ClockStarted
  /\ PendingOpen
  /\ NumbersSettled
  /\ PendingAllowed
  /\ StoppedMeansQuiet
  /\ SentAtMostOnce
  /\ OnlyPolicySends
  /\ PendingDisciplined
  /\ AuditAccountsForAll

-----------------------------------------------------------------------------
(* Lemmas on the queue and the audit. *)

(* pending.remove(n) keeps the others, in their order. *)
LEMMA WithoutAtKeepsOthers ==
  ASSUME NEW S, NEW s \in Seq(S), NEW n \in DOMAIN s
  PROVE  /\ WithoutAt(s, n) \in Seq(S)
         /\ Len(WithoutAt(s, n)) = Len(s) - 1
         /\ \A i \in DOMAIN WithoutAt(s, n) :
              \E j \in DOMAIN s \ {n} :
                /\ WithoutAt(s, n)[i] = s[j]
                /\ j = IF i < n THEN i ELSE i + 1
<1>1. Len(s) - 1 \in Nat
  OBVIOUS
<1>2. \A i \in 1..(Len(s) - 1) :
        (IF i < n THEN s[i] ELSE s[i + 1]) \in S
  OBVIOUS
<1>3. WithoutAt(s, n) \in Seq(S)
  BY <1>1, <1>2 DEF WithoutAt
<1>4. DOMAIN WithoutAt(s, n) = 1..(Len(s) - 1)
  BY DEF WithoutAt
<1>5. Len(WithoutAt(s, n)) = Len(s) - 1
  BY <1>1, <1>3, <1>4
<1>6. ASSUME NEW i \in DOMAIN WithoutAt(s, n)
      PROVE  \E j \in DOMAIN s \ {n} :
               /\ WithoutAt(s, n)[i] = s[j]
               /\ j = IF i < n THEN i ELSE i + 1
  <2> DEFINE j == IF i < n THEN i ELSE i + 1
  <2>1. j \in DOMAIN s \ {n}
    BY <1>4, <1>6
  <2>2. WithoutAt(s, n)[i] = s[j]
    BY <1>4, <1>6 DEF WithoutAt
  <2> QED
    BY <2>1, <2>2
<1> QED
  BY <1>3, <1>5, <1>6

Audited == {id \in 1..MaxProposals : outcome[id] # "none"}

(* The audit names finitely many proposals. *)
LEMMA AuditedIsFinite ==
  IsFiniteSet(Audited) /\ Cardinality(Audited) \in Nat
<1>1. IsFiniteSet(1..MaxProposals)
  BY FS_Interval, GatewayAssumption
<1>2. IsFiniteSet(Audited)
  BY <1>1, FS_Subset DEF Audited
<1> QED
  BY <1>2, FS_CardinalityType

(* An audit entry for a proposal that had none counts once. *)
LEMMA AuditEntryCounts ==
  ASSUME TypeOK, NEW id \in 1..MaxProposals, outcome[id] = "none",
         NEW o \in Outcomes \ {"none"},
         outcome' = [outcome EXCEPT ![id] = o]
  PROVE  Cardinality(Audited') = Cardinality(Audited) + 1
<1>1. Audited' = Audited \cup {id}
  BY DEF Audited, TypeOK
<1>2. id \notin Audited
  BY DEF Audited
<1> QED
  BY <1>1, <1>2, AuditedIsFinite, FS_AddElement

-----------------------------------------------------------------------------
(* The initial state and the steps that touch neither queue nor audit. *)

(* A new engine satisfies the invariant. *)
LEMMA InitIInv == Init => IInv
<1> SUFFICES ASSUME Init PROVE IInv
  OBVIOUS
<1>1. GatewayTypeOK /\ ClockStarted
  BY GatewayStarts DEF Init
<1>2. DOMAIN pending = {} /\ DOMAIN sends = {} /\ Len(pending) = 0
  BY DEF Init, GatewayInit
<1>3. TypeOK
  <2>1. pending \in Seq(Proposals) /\ accepted \in Seq(Nat)
    BY DEF Init
  <2>2. /\ windowStart \in Nat /\ windowCount \in 0..RateCap
        /\ bulkCancelled \in 0..MaxProposals
    BY AutopilotAssumption, GatewayAssumption DEF Init
  <2>3. outcome \in [1..MaxProposals -> Outcomes]
    BY DEF Init, Outcomes
  <2>4. mode \in Modes /\ active \in BOOLEAN /\ stale \in BOOLEAN
    BY Zenon DEF Init
  <2> QED
    BY <1>1, <2>1, <2>2, <2>3, <2>4, Zenon DEF TypeOK
<1>4. PendingOpen /\ PendingAllowed
  BY <1>2 DEF PendingOpen, PendingAllowed
<1>5. NumbersSettled
  BY <1>2 DEF Init, NumbersSettled
<1>6. StoppedMeansQuiet
  BY <1>2 DEF Init, GatewayInit, StoppedMeansQuiet
<1>7. SentAtMostOnce /\ OnlyPolicySends
  BY <1>2 DEF SentAtMostOnce, OnlyPolicySends
<1>8. PendingDisciplined
  BY <1>2, AutopilotAssumption DEF Init, PendingDisciplined
<1>9. AuditAccountsForAll
  <2>1. {id \in 1..MaxProposals : outcome[id] # "none"} = {}
    BY DEF Init
  <2>2. seq = 0 /\ bulkCancelled = 0
    BY DEF Init, GatewayInit
  <2> QED
    BY <1>2, <2>1, <2>2, FS_EmptySet DEF AuditAccountsForAll
<1> QED
  BY <1>1, <1>3, <1>4, <1>5, <1>6, <1>7, <1>8, <1>9 DEF IInv

(* The parts of IInv about the queue, the audit and the sends. *)
LEMMA QueueUntouched ==
  ASSUME IInv,
         UNCHANGED <<rules, seq, sends, mode, pending, outcome, bulkCancelled>>,
         stopEngaged' => stopEngaged,
         active => active'
  PROVE  /\ PendingOpen' /\ NumbersSettled' /\ PendingAllowed'
         /\ StoppedMeansQuiet' /\ SentAtMostOnce' /\ OnlyPolicySends'
         /\ PendingDisciplined' /\ AuditAccountsForAll'
<1>1. PendingOpen' /\ NumbersSettled' /\ PendingAllowed'
  BY DEF IInv, PendingOpen, NumbersSettled, PendingAllowed, PolicyAllows,
         PolicyConfirms
<1>2. StoppedMeansQuiet' /\ SentAtMostOnce' /\ OnlyPolicySends'
  BY DEF IInv, StoppedMeansQuiet, SentAtMostOnce, OnlyPolicySends
<1>3. PendingDisciplined' /\ AuditAccountsForAll'
  BY DEF IInv, PendingDisciplined, AuditAccountsForAll
<1> QED
  BY <1>1, <1>2, <1>3

-----------------------------------------------------------------------------
(* A proposal leaves the queue: confirmed, auto-sent or cancelled. *)

(* What the autopilot may send, and how. *)
MaySend(p, by) ==
  /\ ~stopEngaged
  /\ PolicyAllows(p)
  /\ PolicyConfirms(p) => by = "confirmed"
  /\ by = "auto" => mode = "allowlist-auto" /\ p.command \in Allowlist

(* The step removes pending[n], audits it and sends it at most once. *)
Settles(n, o, by) ==
  /\ RemoveAt(n)
  /\ outcome' = [outcome EXCEPT ![pending[n].id] = o]
  /\ \/ sends' = sends
     \/ sends' = Append(sends, Sent(pending[n], by)) /\ MaySend(pending[n], by)
  /\ UNCHANGED <<rules, seq, stopEngaged, mode, active, stale, windowStart,
                 windowCount, bulkCancelled, accepted>>

(* A proposal that leaves the queue with its audit entry, sent at most     *)
(* once, keeps the invariant.                                              *)
LEMMA SettlingKeepsInvariant ==
  ASSUME IInv, GatewayTypeOK', ClockStarted',
         NEW n \in DOMAIN pending, NEW o \in Outcomes \ {"none"},
         NEW by \in {"gateway", "auto", "confirmed"}, Settles(n, o, by)
  PROVE  IInv'
<1> DEFINE p == pending[n]
<1>0. /\ pending \in Seq(Proposals) /\ outcome \in [1..MaxProposals -> Outcomes]
      /\ sends \in Seq(SendRecords) /\ seq \in Nat
  BY DEF IInv, TypeOK, GatewayTypeOK
<1>1. p \in Proposals /\ p.id \in 1..MaxProposals
  BY <1>0, ProposalIds
<1>2. p.id <= seq /\ outcome[p.id] = "none"
  BY DEF IInv, PendingOpen
<1>3. /\ pending' \in Seq(Proposals)
      /\ Len(pending') = Len(pending) - 1
      /\ \A i \in DOMAIN pending' :
           \E j \in DOMAIN pending \ {n} :
             /\ pending'[i] = pending[j]
             /\ j = IF i < n THEN i ELSE i + 1
  BY <1>0, WithoutAtKeepsOthers DEF Settles, RemoveAt
<1>4. outcome' = [outcome EXCEPT ![p.id] = o]
  BY DEF Settles
<1>5. \/ sends' = sends
      \/ sends' = Append(sends, Sent(p, by)) /\ MaySend(p, by)
  BY DEF Settles
<1>6. UNCHANGED <<rules, seq, stopEngaged, mode, active, stale, windowStart,
                  windowCount, bulkCancelled, accepted>>
  BY DEF Settles
<1>7. Sent(p, by).proposal = p /\ Sent(p, by).stopped = stopEngaged
        /\ Sent(p, by).by = by
  BY DEF Sent
<1>8. \A m \in DOMAIN sends' :
        \/ m \in DOMAIN sends /\ sends'[m] = sends[m]
        \/ m = Len(sends) + 1 /\ sends'[m] = Sent(p, by) /\ MaySend(p, by)
  BY <1>0, <1>5
<1> HIDE DEF p
<1>9. outcome' \in [1..MaxProposals -> Outcomes]
  BY <1>0, <1>1, <1>4
<1>10. TypeOK'
  BY <1>3, <1>6, <1>9 DEF IInv, TypeOK
<1>11. PendingOpen'
  <2>1. ASSUME NEW i \in DOMAIN pending'
        PROVE  pending'[i].id <= seq' /\ outcome'[pending'[i].id] = "none"
    <3>1. PICK j \in DOMAIN pending \ {n} : pending'[i] = pending[j]
      BY <1>3, <2>1
    <3>2. pending[j].id # p.id /\ pending[j].id \in 1..MaxProposals
      BY <1>0, ProposalIds DEF IInv, PendingOpen, p
    <3>3. pending[j].id <= seq /\ outcome[pending[j].id] = "none"
      BY DEF IInv, PendingOpen
    <3> QED
      BY <1>0, <1>4, <1>6, <3>1, <3>2, <3>3
  <2>2. ASSUME NEW i1 \in DOMAIN pending', NEW i2 \in DOMAIN pending',
               pending'[i1].id = pending'[i2].id
        PROVE  i1 = i2
    <3>1. PICK j1 \in DOMAIN pending \ {n} :
            pending'[i1] = pending[j1] /\ j1 = IF i1 < n THEN i1 ELSE i1 + 1
      BY <1>3, <2>2
    <3>2. PICK j2 \in DOMAIN pending \ {n} :
            pending'[i2] = pending[j2] /\ j2 = IF i2 < n THEN i2 ELSE i2 + 1
      BY <1>3, <2>2
    <3>3. j1 = j2
      BY <2>2, <3>1, <3>2 DEF IInv, PendingOpen
    <3> QED
      BY <1>0, <1>3, <3>1, <3>2, <3>3
  <2> QED
    BY <2>1, <2>2 DEF PendingOpen
<1>12. NumbersSettled'
  <2>1. \A id \in 1..MaxProposals : id > seq' => outcome'[id] = "none"
    BY <1>0, <1>1, <1>2, <1>4, <1>6 DEF IInv, NumbersSettled
  <2>2. ASSUME NEW m \in DOMAIN sends'
        PROVE  outcome'[sends'[m].proposal.id] # "none"
    <3>1. CASE m \in DOMAIN sends /\ sends'[m] = sends[m]
      <4>1. sends[m].proposal.id \in 1..MaxProposals
        BY <1>0, <3>1, ProposalIds
      <4>2. outcome[sends[m].proposal.id] # "none"
        BY <3>1 DEF IInv, NumbersSettled
      <4> QED
        BY <1>0, <1>1, <1>4, <3>1, <4>1, <4>2
    <3>2. CASE sends'[m] = Sent(p, by)
      BY <1>0, <1>1, <1>4, <1>7, <3>2
    <3> QED
      BY <1>8, <3>1, <3>2
  <2> QED
    BY <2>1, <2>2 DEF NumbersSettled
<1>13. PendingAllowed'
  BY <1>3, <1>6 DEF IInv, PendingAllowed, PolicyAllows, PolicyConfirms
<1>14. StoppedMeansQuiet'
  <2>1. ~stopEngaged
    <3>1. pending # <<>>
      BY <1>0
    <3> QED
      BY <3>1 DEF IInv, StoppedMeansQuiet
  <2>2. \A m \in DOMAIN sends' : ~sends'[m].stopped
    BY <1>7, <1>8, <2>1 DEF IInv, StoppedMeansQuiet
  <2> QED
    BY <1>6, <2>1, <2>2 DEF StoppedMeansQuiet
<1>15. SentAtMostOnce'
  <2>1. \A m \in DOMAIN sends : sends[m].proposal.id # p.id
    BY <1>2 DEF IInv, NumbersSettled
  <2> QED
    BY <1>7, <1>8, <2>1 DEF IInv, SentAtMostOnce
<1>16. OnlyPolicySends'
  <2> SUFFICES ASSUME NEW m \in DOMAIN sends'
               PROVE  LET q == sends'[m].proposal
                          policy == EvaluateCommand(rules, q.command, q.args)
                      IN /\ ~policy.denied /\ policy.argOk
                         /\ policy.confirm => sends'[m].by = "confirmed"
                         /\ sends'[m].by = "auto" => mode = "allowlist-auto"
                                                       /\ q.command \in Allowlist
    BY <1>6 DEF OnlyPolicySends
  <2>1. CASE m \in DOMAIN sends /\ sends'[m] = sends[m]
    BY <2>1 DEF IInv, OnlyPolicySends
  <2>2. CASE sends'[m] = Sent(p, by) /\ MaySend(p, by)
    BY <1>7, <2>2 DEF MaySend, PolicyAllows, PolicyConfirms
  <2> QED
    BY <1>8, <2>1, <2>2
<1>17. PendingDisciplined'
  <2>1. pending # <<>>
    BY <1>0
  <2> QED
    BY <1>0, <1>3, <1>6, <2>1, AutopilotAssumption DEF IInv, PendingDisciplined
<1>18. AuditAccountsForAll'
  <2>1. Cardinality(Audited') = Cardinality(Audited) + 1
    BY <1>1, <1>2, <1>4, AuditEntryCounts DEF IInv
  <2> QED
    BY <1>0, <1>3, <1>6, <2>1, AuditedIsFinite
       DEF IInv, TypeOK, AuditAccountsForAll, Audited
<1> QED
  BY <1>10, <1>11, <1>12, <1>13, <1>14, <1>15, <1>16, <1>17, <1>18 DEF IInv

-----------------------------------------------------------------------------
(* The whole queue is cancelled: disable and emergency_stop. *)

(* pending.clear() with its audit entry keeps it, whatever else is reset. *)
LEMMA CancellingKeepsInvariant ==
  ASSUME IInv, GatewayTypeOK', ClockStarted', CancelPending,
         UNCHANGED <<rules, seq, sends, mode, windowStart, windowCount, outcome,
                     accepted>>,
         active' \in BOOLEAN, stale' \in BOOLEAN
  PROVE  IInv'
<1>0. /\ pending \in Seq(Proposals) /\ seq \in 0..MaxProposals
      /\ bulkCancelled \in Nat
  BY GatewayAssumption DEF IInv, TypeOK, GatewayTypeOK
<1>1. pending' = <<>> /\ bulkCancelled' = bulkCancelled + Len(pending)
  BY DEF CancelPending
<1>2. DOMAIN pending' = {} /\ Len(pending') = 0 /\ pending' \in Seq(Proposals)
  BY <1>1
<1>3. AuditAccountsForAll'
  BY <1>0, <1>1, <1>2, AuditedIsFinite DEF IInv, AuditAccountsForAll, Audited
<1>4. bulkCancelled' \in 0..MaxProposals
  <2>1. seq = Len(pending) + bulkCancelled + Cardinality(Audited)
    BY DEF IInv, AuditAccountsForAll, Audited
  <2> QED
    BY <1>0, <1>1, <2>1, AuditedIsFinite, GatewayAssumption
<1>5. TypeOK'
  <2>1. /\ mode' \in Modes /\ windowStart' \in Nat /\ windowCount' \in 0..RateCap
        /\ outcome' \in [1..MaxProposals -> Outcomes] /\ accepted' \in Seq(Nat)
    BY DEF IInv, TypeOK
  <2> QED
    BY <1>2, <1>4, <2>1, Zenon DEF TypeOK
<1>6. PendingOpen' /\ PendingAllowed'
  BY <1>2 DEF PendingOpen, PendingAllowed
<1>7. NumbersSettled' /\ SentAtMostOnce' /\ OnlyPolicySends'
  BY DEF IInv, NumbersSettled, SentAtMostOnce, OnlyPolicySends
<1>8. StoppedMeansQuiet'
  BY <1>1 DEF IInv, StoppedMeansQuiet
<1>9. PendingDisciplined'
  BY <1>1, <1>2, AutopilotAssumption DEF PendingDisciplined
<1> QED
  BY <1>3, <1>5, <1>6, <1>7, <1>8, <1>9 DEF IInv

-----------------------------------------------------------------------------
(* propose. *)

(* roll_window, also when the proposal goes no further. *)
LEMMA RollingStaysTyped ==
  ASSUME IInv, RollWindow
  PROVE  windowStart' \in Nat /\ CountNow \in 0..RateCap
BY NowIsNat, AutopilotAssumption DEF IInv, TypeOK, RollWindow, CountNow

(* propose keeps it: refused, rejected, denied or accepted. *)
LEMMA ProposeKeepsInvariant ==
  ASSUME IInv, NEW command \in Commands, NEW args \in Args,
         NEW ctx \in GateContexts, Propose(command, args, ctx)
  PROVE  IInv'
<1> DEFINE p == NewProposal(command, args)
<1>0. /\ pending \in Seq(Proposals) /\ outcome \in [1..MaxProposals -> Outcomes]
      /\ sends \in Seq(SendRecords) /\ seq \in Nat
  BY DEF IInv, TypeOK, GatewayTypeOK
<1>1. /\ UNCHANGED <<mode, active, stale, bulkCancelled>>
      /\ seq < MaxProposals /\ mode # "disabled" /\ active
  BY DEF Propose
<1>2. p \in Proposals /\ p.id = seq + 1 /\ (p.confirm <=> PolicyConfirms(p))
  BY <1>1, NewProposalIsProposal DEF IInv, TypeOK
<1>3. p.id \in 1..MaxProposals /\ outcome[p.id] = "none"
  BY <1>0, <1>2, ProposalIds DEF IInv, NumbersSettled
<1>4. \A i \in DOMAIN pending : pending[i].id \in 1..MaxProposals
                                 /\ pending[i].id # p.id
  BY <1>0, <1>2, ProposalIds DEF IInv, PendingOpen
<1>5. \A n \in DOMAIN sends : sends[n].proposal.id \in 1..MaxProposals
                               /\ sends[n].proposal.id # p.id
  BY <1>0, <1>3, ProposalIds DEF IInv, NumbersSettled
<1>6. \/ ProposeRefused \/ ProposeInvalid
      \/ ProposeDenied(p, ctx) \/ ProposeAccepted(p, ctx)
  BY DEF Propose
<1> HIDE DEF p
<1>7. CASE ProposeRefused \/ ProposeInvalid
  <2>1. /\ UNCHANGED <<gatewayVars, pending, outcome, accepted>>
        /\ RollWindow /\ windowCount' = CountNow
    BY <1>7 DEF ProposeRefused, ProposeInvalid
  <2>2. GatewayTypeOK' /\ ClockStarted'
    BY <2>1, GatewayUntouched DEF IInv, TypeOK
  <2>3. TypeOK'
    BY <1>1, <2>1, <2>2, RollingStaysTyped DEF IInv, TypeOK
  <2> QED
    BY <1>1, <2>1, <2>2, <2>3, QueueUntouched DEF IInv, gatewayVars
<1>8. CASE ProposeDenied(p, ctx)
  <2>1. /\ UNCHANGED <<rules, tempo, queue, stopEngaged, time, skew, sends,
                       pending, accepted>>
        /\ seq' = seq + 1 /\ RollWindow /\ windowCount' = CountNow
        /\ outcome' = [outcome EXCEPT ![p.id] = "denied"]
    BY <1>8 DEF ProposeDenied
  <2>2. GatewayTypeOK' /\ ClockStarted'
    BY <1>1, <2>1, NumberingStaysTyped DEF IInv, TypeOK
  <2>3. outcome' \in [1..MaxProposals -> Outcomes]
    BY <1>0, <1>3, <2>1 DEF Outcomes
  <2>4. TypeOK'
    BY <1>1, <2>1, <2>2, <2>3, RollingStaysTyped DEF IInv, TypeOK
  <2>5. PendingOpen'
    BY <1>0, <1>3, <1>4, <2>1 DEF IInv, PendingOpen
  <2>6. NumbersSettled'
    BY <1>0, <1>2, <1>3, <1>5, <2>1 DEF IInv, NumbersSettled
  <2>7. PendingAllowed' /\ StoppedMeansQuiet'
    BY <2>1 DEF IInv, PendingAllowed, PolicyAllows, PolicyConfirms,
                StoppedMeansQuiet
  <2>8. SentAtMostOnce' /\ OnlyPolicySends' /\ PendingDisciplined'
    BY <1>1, <2>1 DEF IInv, SentAtMostOnce, OnlyPolicySends, PendingDisciplined
  <2>9. AuditAccountsForAll'
    <3>1. "denied" \in Outcomes \ {"none"}
      BY DEF Outcomes
    <3>2. Cardinality(Audited') = Cardinality(Audited) + 1
      BY <1>3, <2>1, <3>1, AuditEntryCounts DEF IInv
    <3>3. seq = Len(pending) + bulkCancelled + Cardinality(Audited)
      BY DEF IInv, AuditAccountsForAll, Audited
    <3>4. Len(pending) \in Nat /\ bulkCancelled \in Nat
      BY <1>0, GatewayAssumption DEF IInv, TypeOK
    <3>5. seq' = Len(pending') + bulkCancelled' + Cardinality(Audited')
      BY <1>0, <1>1, <2>1, <3>2, <3>3, <3>4, AuditedIsFinite
    <3> QED
      BY <3>5 DEF AuditAccountsForAll, Audited
  <2> QED
    BY <2>2, <2>4, <2>5, <2>6, <2>7, <2>8, <2>9 DEF IInv
<1>9. CASE ProposeAccepted(p, ctx)
  <2>1. /\ UNCHANGED <<rules, tempo, queue, stopEngaged, time, skew, sends,
                       outcome>>
        /\ seq' = seq + 1 /\ RollWindow
        /\ CountNow < RateCap /\ windowCount' = CountNow + 1
        /\ Len(pending) < Capacity
        /\ pending' = Append(pending, p)
        /\ accepted' = Append(accepted, time)
    BY <1>9 DEF ProposeAccepted
  <2>2. ~stopEngaged /\ PolicyAllows(p)
    BY <1>9 DEF ProposeAccepted, Denies, PolicyAllows
  <2>3. GatewayTypeOK' /\ ClockStarted'
    BY <1>1, <2>1, NumberingStaysTyped DEF IInv, TypeOK
  <2>4. /\ windowStart' \in Nat /\ windowCount' \in 0..RateCap
        /\ pending' \in Seq(Proposals) /\ accepted' \in Seq(Nat)
    <3>1. windowStart' \in Nat /\ windowCount' \in 0..RateCap
      BY <2>1, RollingStaysTyped, AutopilotAssumption
    <3>2. pending' \in Seq(Proposals)
      BY <1>0, <1>2, <2>1
    <3>3. accepted' \in Seq(Nat)
      BY <2>1 DEF IInv, TypeOK, GatewayTypeOK
    <3> QED
      BY <3>1, <3>2, <3>3
  <2>5. TypeOK'
    BY <1>1, <2>1, <2>3, <2>4 DEF IInv, TypeOK
  <2>6. \A i \in DOMAIN pending' :
          \/ i \in DOMAIN pending /\ pending'[i] = pending[i]
          \/ i = Len(pending) + 1 /\ pending'[i] = p
    BY <1>0, <2>1
  <2>7. PendingOpen'
    <3>1. \A i \in DOMAIN pending' :
            pending'[i].id <= seq' /\ outcome'[pending'[i].id] = "none"
      BY <1>0, <1>2, <1>3, <1>4, <2>1, <2>6 DEF IInv, PendingOpen
    <3>2. \A i, j \in DOMAIN pending' : pending'[i].id = pending'[j].id => i = j
      BY <1>4, <2>6 DEF IInv, PendingOpen
    <3> QED
      BY <3>1, <3>2 DEF PendingOpen
  <2>8. NumbersSettled'
    BY <1>0, <2>1 DEF IInv, NumbersSettled
  <2>9. PendingAllowed'
    BY <1>2, <2>1, <2>2, <2>6
       DEF IInv, PendingAllowed, PolicyAllows, PolicyConfirms
  <2>10. StoppedMeansQuiet'
    BY <2>1, <2>2 DEF IInv, StoppedMeansQuiet
  <2>11. SentAtMostOnce' /\ OnlyPolicySends'
    BY <1>1, <2>1 DEF IInv, SentAtMostOnce, OnlyPolicySends
  <2>12. Len(pending') = Len(pending) + 1
    BY <1>0, <2>1
  <2>13. PendingDisciplined'
    BY <1>0, <1>1, <2>1, <2>12, AutopilotAssumption DEF PendingDisciplined
  <2>14. AuditAccountsForAll'
    <3>1. Audited' = Audited
      BY <2>1 DEF Audited
    <3>2. seq = Len(pending) + bulkCancelled + Cardinality(Audited)
      BY DEF IInv, AuditAccountsForAll, Audited
    <3>3. Len(pending) \in Nat /\ bulkCancelled \in Nat
      BY <1>0, GatewayAssumption DEF IInv, TypeOK
    <3>4. seq' = Len(pending') + bulkCancelled' + Cardinality(Audited')
      BY <1>0, <1>1, <2>1, <2>12, <3>1, <3>2, <3>3, AuditedIsFinite
    <3> QED
      BY <3>4 DEF AuditAccountsForAll, Audited
  <2> QED
    BY <2>3, <2>5, <2>7, <2>8, <2>9, <2>10, <2>11, <2>13, <2>14 DEF IInv
<1> QED
  BY <1>6, <1>7, <1>8, <1>9

-----------------------------------------------------------------------------
(* confirm_and_send, auto_send, cancel. *)

(* confirm_and_send keeps it, through the gateway or past it. *)
LEMMA ConfirmKeepsInvariant ==
  ASSUME IInv, NEW n \in DOMAIN pending, NEW ctx \in GateContexts,
         NEW ok \in BOOLEAN, ConfirmAndSend(n, ctx, ok)
  PROVE  IInv'
<1> DEFINE p == pending[n]
<1>1. p \in Proposals /\ ~stopEngaged
  <2>1. pending \in Seq(Proposals) /\ pending # <<>>
    BY DEF IInv, TypeOK
  <2> QED
    BY <2>1 DEF IInv, StoppedMeansQuiet
<1>2. UNCHANGED <<mode, active, stale, windowStart, windowCount, bulkCancelled,
                  accepted>>
  BY DEF ConfirmAndSend
<1>3. CASE ConfirmApproved(n, ctx, ok)
  <2>1. GatewaySend(p, ctx, ok, "gateway") /\ RemoveAt(n)
    BY <1>3 DEF ConfirmApproved
  <2>2. GatewayTypeOK' /\ ClockStarted'
    BY <1>1, <2>1, GatewaySendStaysTyped DEF IInv, TypeOK
  <2>3. PICK o \in {"sent", "paced"} :
          outcome' = [outcome EXCEPT ![p.id] = o]
    BY <1>3 DEF ConfirmApproved, AuditGatewaySend
  <2>4. o \in Outcomes \ {"none"}
    BY DEF Outcomes
  <2>5. \/ sends' = sends
        \/ sends' = Append(sends, Sent(p, "gateway")) /\ MaySend(p, "gateway")
    BY <2>1, GatewaySendIsGated DEF MaySend
  <2>6. Settles(n, o, "gateway")
    BY <1>2, <2>1, <2>3, <2>5 DEF Settles, GatewaySend
  <2> QED
    BY <2>2, <2>4, <2>6, SettlingKeepsInvariant
<1>4. CASE ConfirmRisky(n, ok)
  <2>1. /\ RemoveAt(n)
        /\ sends' = sends \/ sends' = Append(sends, Sent(p, "confirmed"))
        /\ UNCHANGED <<rules, tempo, queue, stopEngaged, seq, time, skew>>
    BY <1>4 DEF ConfirmRisky
  <2>2. GatewayTypeOK' /\ ClockStarted'
    <3>1. Sent(p, "confirmed") \in SendRecords
      BY <1>1 DEF Sent, SendRecords, IInv, TypeOK, GatewayTypeOK
    <3>2. sends' \in Seq(SendRecords)
      <4>1. sends \in Seq(SendRecords)
        BY DEF IInv, TypeOK, GatewayTypeOK
      <4> QED
        BY <2>1, <3>1, <4>1
    <3> QED
      BY <2>1, <3>2 DEF IInv, TypeOK, GatewayTypeOK, ClockStarted
  <2>3. PICK o \in {"sent", "send-failed"} :
          outcome' = [outcome EXCEPT ![p.id] = o]
    BY <1>4 DEF ConfirmRisky
  <2>4. o \in Outcomes \ {"none"}
    BY DEF Outcomes
  <2>5. MaySend(p, "confirmed")
    BY <1>1 DEF MaySend, IInv, PendingAllowed
  <2>6. Settles(n, o, "confirmed")
    BY <1>2, <2>1, <2>3, <2>5 DEF Settles
  <2> QED
    BY <2>2, <2>4, <2>6, SettlingKeepsInvariant
<1> QED
  BY <1>3, <1>4 DEF ConfirmAndSend

(* So does an allowlisted auto-send. *)
LEMMA AutoSendKeepsInvariant ==
  ASSUME IInv, NEW n \in DOMAIN pending, NEW ctx \in GateContexts,
         NEW ok \in BOOLEAN, AutoSend(n, ctx, ok)
  PROVE  IInv'
<1> DEFINE p == pending[n]
<1>1. p \in Proposals
  BY DEF IInv, TypeOK
<1>2. /\ GatewaySend(p, ctx, ok, "auto") /\ RemoveAt(n)
      /\ UNCHANGED <<mode, active, stale, windowStart, windowCount,
                     bulkCancelled, accepted>>
  BY DEF AutoSend
<1>3. GatewayTypeOK' /\ ClockStarted'
  BY <1>1, <1>2, GatewaySendStaysTyped DEF IInv, TypeOK
<1>4. PICK o \in {"sent", "paced"} : outcome' = [outcome EXCEPT ![p.id] = o]
  BY DEF AutoSend, AuditGatewaySend
<1>5. o \in Outcomes \ {"none"}
  BY DEF Outcomes
<1>6. \/ sends' = sends
      \/ sends' = Append(sends, Sent(p, "auto")) /\ MaySend(p, "auto")
  BY <1>2, GatewaySendIsGated DEF AutoSend, MayAutoSend, MaySend
<1>7. Settles(n, o, "auto")
  BY <1>2, <1>4, <1>6 DEF Settles, GatewaySend
<1> QED
  BY <1>3, <1>5, <1>7, SettlingKeepsInvariant

(* So does cancelling one proposal. *)
LEMMA CancelKeepsInvariant ==
  ASSUME IInv, NEW n \in DOMAIN pending, Cancel(n)
  PROVE  IInv'
<1>1. GatewayTypeOK' /\ ClockStarted'
  BY GatewayUntouched DEF Cancel, IInv, TypeOK
<1>2. Settles(n, "cancelled", "gateway")
  BY DEF Cancel, Settles, gatewayVars
<1>3. "cancelled" \in Outcomes \ {"none"}
  BY DEF Outcomes
<1> QED
  BY <1>1, <1>2, <1>3, SettlingKeepsInvariant

-----------------------------------------------------------------------------
(* Every step. *)

(* Every operation keeps the invariant. *)
LEMMA NextIInv == IInv /\ [Next]_vars => IInv'
<1> SUFFICES ASSUME IInv, [Next]_vars PROVE IInv'
  OBVIOUS
<1>1. ASSUME UNCHANGED <<gatewayVars, mode, pending, windowStart, windowCount,
                         outcome, bulkCancelled, accepted>>,
             active' \in BOOLEAN, stale' \in BOOLEAN, active => active'
      PROVE  IInv'
  <2>1. GatewayTypeOK' /\ ClockStarted'
    BY <1>1, GatewayUntouched DEF IInv, TypeOK
  <2>2. TypeOK'
    BY <1>1, <2>1, Zenon DEF IInv, TypeOK
  <2> QED
    BY <1>1, <2>1, <2>2, QueueUntouched DEF IInv, gatewayVars
<1>2. CASE Enable
  BY <1>1, <1>2, Zenon DEF Enable
<1>3. CASE Disable
  <2>1. GatewayTypeOK' /\ ClockStarted'
    BY <1>3, GatewayUntouched DEF Disable, IInv, TypeOK
  <2>2. active' \in BOOLEAN /\ stale' \in BOOLEAN
    BY <1>3, Zenon DEF Disable
  <2> QED
    BY <1>3, <2>1, <2>2, CancellingKeepsInvariant DEF Disable, gatewayVars
<1>4. CASE SetStale
  BY <1>1, <1>4, Zenon DEF SetStale, IInv, TypeOK
<1>5. CASE ClearStale
  BY <1>1, <1>5, Zenon DEF ClearStale, IInv, TypeOK
<1>6. CASE \E command \in Commands, args \in Args, ctx \in GateContexts :
             Propose(command, args, ctx)
  BY <1>6, ProposeKeepsInvariant
<1>7. CASE \E n \in DOMAIN pending :
             \/ \E ctx \in GateContexts, ok \in BOOLEAN :
                  \/ ConfirmAndSend(n, ctx, ok)
                  \/ AutoSend(n, ctx, ok)
             \/ Cancel(n)
  BY <1>7, ConfirmKeepsInvariant, AutoSendKeepsInvariant, CancelKeepsInvariant
<1>8. CASE EmergencyStop
  <2>1. GatewayTypeOK' /\ ClockStarted'
    BY <1>8, StopStaysTyped DEF EmergencyStop, IInv, TypeOK
  <2>2. active' \in BOOLEAN /\ stale' \in BOOLEAN
    BY <1>8, Zenon DEF EmergencyStop, IInv, TypeOK
  <2> QED
    BY <1>8, <2>1, <2>2, CancellingKeepsInvariant DEF EmergencyStop
<1>9. CASE ReleaseEmergencyStop
  <2>1. GatewayTypeOK' /\ ClockStarted'
    BY <1>9, StopStaysTyped DEF ReleaseEmergencyStop, IInv, TypeOK
  <2>2. UNCHANGED autopilotVars
    BY <1>9 DEF ReleaseEmergencyStop
  <2>3. TypeOK'
    BY <2>1, <2>2, Zenon DEF IInv, TypeOK, autopilotVars
  <2> QED
    BY <1>9, <2>1, <2>2, <2>3, QueueUntouched
       DEF ReleaseEmergencyStop, ReleaseStop, IInv, autopilotVars
<1>10. CASE (Tick \/ SetClockBack) /\ UNCHANGED autopilotVars
  <2>1. GatewayTypeOK' /\ ClockStarted'
    BY <1>10, ClockStaysTyped DEF IInv, TypeOK
  <2>2. TypeOK'
    BY <1>10, <2>1, Zenon DEF IInv, TypeOK, autopilotVars
  <2>3. UNCHANGED <<rules, seq, sends, stopEngaged>>
    BY <1>10 DEF Tick, SetClockBack
  <2> QED
    BY <1>10, <2>1, <2>2, <2>3, QueueUntouched DEF IInv, autopilotVars
<1>11. CASE UNCHANGED vars
  BY <1>1, <1>11, Zenon DEF vars, autopilotVars, IInv, TypeOK
<1> QED
  BY <1>2, <1>3, <1>4, <1>5, <1>6, <1>7, <1>8, <1>9, <1>10, <1>11 DEF Next

(* The inductive invariant holds in every reachable state. *)
THEOREM InvariantHolds == Spec => []IInv
BY InitIInv, NextIInv, PTL DEF Spec

(* Every variable keeps its type. *)
THEOREM TypeCorrect == Spec => []TypeOK
<1>1. IInv => TypeOK
  BY DEF IInv
<1> QED
  BY <1>1, InvariantHolds, PTL

(* With the emergency stop engaged nothing is pending and nothing is sent, *)
(* although a confirmed send does not ask the gateway.                     *)
THEOREM StopIsQuiet == Spec => []StoppedMeansQuiet
<1>1. IInv => StoppedMeansQuiet
  BY DEF IInv
<1> QED
  BY <1>1, InvariantHolds, PTL

(* No proposal is sent twice. *)
THEOREM NothingIsSentTwice == Spec => []SentAtMostOnce
<1>1. IInv => SentAtMostOnce
  BY DEF IInv
<1> QED
  BY <1>1, InvariantHolds, PTL

(* Everything sent was allowed by the database, confirmed where it had to  *)
(* be, and auto-sent only from the allowlist.                              *)
THEOREM PolicyGovernsSends == Spec => []OnlyPolicySends
<1>1. IInv => OnlyPolicySends
  BY DEF IInv
<1> QED
  BY <1>1, InvariantHolds, PTL

(* The queue is bounded by its capacity and empty while disabled. *)
THEOREM QueueIsDisciplined == Spec => []PendingDisciplined
<1>1. IInv => PendingDisciplined
  BY DEF IInv
<1> QED
  BY <1>1, InvariantHolds, PTL

(* Every numbered proposal is pending or accounted for in the audit. *)
THEOREM NothingIsDropped == Spec => []AuditAccountsForAll
<1>1. IInv => AuditAccountsForAll
  BY DEF IInv
<1> QED
  BY <1>1, InvariantHolds, PTL

-----------------------------------------------------------------------------
(* The two paces: of accepted proposals and of sends. *)

(* While the wall clock was not set back, the window propose counts in is  *)
(* a burst window.                                                         *)
RateInv ==
  skew = 0 /\ RateWindow > 0 =>
    WindowInv(accepted, windowStart, windowCount, time, RateCap, RateWindow)

(* What the window lemmas ask of the accepted proposals.                   *)
LEMMA AcceptedAreTimes ==
  ASSUME TypeOK
  PROVE  /\ DOMAIN accepted = 1..Len(accepted) /\ Len(accepted) \in Nat
         /\ IsFiniteSet(DOMAIN accepted)
         /\ \A n \in DOMAIN accepted : accepted[n] \in Nat
         /\ windowStart \in Nat /\ windowCount \in Nat /\ windowCount <= RateCap
         /\ time \in Nat /\ RateCap \in Nat /\ RateWindow \in Nat
<1>1. accepted \in Seq(Nat)
  BY DEF TypeOK
<1>2. DOMAIN accepted = 1..Len(accepted) /\ Len(accepted) \in Nat
  BY <1>1
<1>3. IsFiniteSet(DOMAIN accepted)
  BY <1>2, FS_Interval
<1>4. \A n \in DOMAIN accepted : accepted[n] \in Nat
  BY <1>1
<1>5. /\ windowStart \in Nat /\ windowCount \in Nat /\ windowCount <= RateCap
      /\ time \in Nat /\ RateCap \in Nat /\ RateWindow \in Nat
  BY AutopilotAssumption DEF TypeOK, GatewayTypeOK
<1> QED
  BY <1>2, <1>3, <1>4, <1>5

(* A new engine has accepted nothing.                                      *)
LEMMA RateStarts ==
  ASSUME Init
  PROVE  RateInv
<1>1. DOMAIN accepted = {}
  BY DEF Init
<1>2. windowStart = 0 /\ windowCount = 0 /\ time = StartTime
  BY DEF Init, GatewayInit
<1>3. ASSUME NEW lo, NEW hi
      PROVE  Since(accepted, lo) = {} /\ Within(accepted, lo, hi) = {}
  BY <1>1 DEF Since, Within
<1>4. Cardinality({}) = 0
  BY FS_EmptySet
<1>5. 0 <= StartTime /\ 0 <= RateCap /\ 0 <= 2 * RateCap
  BY GatewayAssumption, AutopilotAssumption
<1>6. WindowInv(accepted, 0, 0, StartTime, RateCap, RateWindow)
  <2>1. Cardinality(Since(accepted, 0)) <= 0
    BY <1>3, <1>4
  <2>2. Cardinality(Within(accepted, 0 - RateWindow, 0)) <= RateCap
    BY <1>3, <1>4, <1>5
  <2>3. \A lo \in Nat :
          Cardinality(Within(accepted, lo, lo + RateWindow)) <= 2 * RateCap
    BY <1>3, <1>4, <1>5
  <2>4. /\ \A n \in DOMAIN accepted : accepted[n] <= StartTime
        /\ \A n \in DOMAIN accepted :
             0 <= accepted[n] => Elapsed(accepted[n], 0) < RateWindow
    BY <1>1
  <2> QED
    BY <1>5, <2>1, <2>2, <2>3, <2>4, Zenon DEF WindowInv
<1> QED
  BY <1>2, <1>6 DEF RateInv

(* A step that leaves the window and the accepted proposals alone keeps    *)
(* it, however much time passes.                                           *)
LEMMA RateUntouched ==
  ASSUME TypeOK, RateInv, UNCHANGED <<windowStart, windowCount, accepted>>,
         time' \in Nat, time <= time', skew' = 0 => skew = 0
  PROVE  RateInv'
<1> SUFFICES ASSUME skew' = 0, RateWindow > 0
             PROVE  WindowInv(accepted, windowStart, windowCount, time',
                              RateCap, RateWindow)
  BY Zenon DEF RateInv
<1>1. WindowInv(accepted, windowStart, windowCount, time, RateCap, RateWindow)
  BY DEF RateInv
<1>2. windowCount <= windowCount
  BY AcceptedAreTimes
<1> QED
  BY <1>1, <1>2, AcceptedAreTimes, CountKeepsWindow, Zenon

(* roll_window opens a window that is not over and not over its count.     *)
LEMMA RollingKeepsRate ==
  ASSUME TypeOK, RateInv, RollWindow, skew = 0, RateWindow > 0
  PROVE  /\ WindowInv(accepted, windowStart', CountNow, time, RateCap, RateWindow)
         /\ Elapsed(time, windowStart') < RateWindow
         /\ windowStart' \in Nat /\ CountNow \in Nat
<1>1. Now = time
  BY DEF Now, TypeOK, GatewayTypeOK
<1>2. WindowInv(accepted, windowStart, windowCount, time, RateCap, RateWindow)
  BY DEF RateInv
<1>3. CASE WindowRolls
  <2>1. windowStart' = time /\ CountNow = 0 /\ 0 \in Nat
    BY <1>1, <1>3 DEF RollWindow, CountNow
  <2>2. Elapsed(time, windowStart) >= RateWindow
    BY <1>1, <1>3 DEF WindowRolls
  <2>3. WindowInv(accepted, time, 0, time, RateCap, RateWindow)
    BY <1>2, <2>2, AcceptedAreTimes, RollKeepsWindow, Zenon
  <2>4. Elapsed(time, time) < RateWindow
    BY AcceptedAreTimes, ElapsedIsBounded
  <2> QED
    BY <2>1, <2>3, <2>4, AcceptedAreTimes, Zenon
<1>4. CASE ~WindowRolls
  <2>1. windowStart' = windowStart /\ CountNow = windowCount
    BY <1>4 DEF RollWindow, CountNow
  <2>2. Elapsed(time, windowStart) < RateWindow
    <3>1. Elapsed(time, windowStart) \in Int
      BY AcceptedAreTimes, PolicyAssumption DEF Elapsed
    <3> QED
      BY <1>1, <1>4, <3>1, AcceptedAreTimes DEF WindowRolls
  <2> QED
    BY <1>2, <2>1, <2>2, AcceptedAreTimes, Zenon
<1> QED
  BY <1>3, <1>4

(* propose rolls the window whatever becomes of the proposal, and counts   *)
(* it when it is accepted.                                                 *)
LEMMA ProposeKeepsRate ==
  ASSUME TypeOK, RateInv, NEW command, NEW args, NEW ctx,
         Propose(command, args, ctx)
  PROVE  RateInv'
<1> SUFFICES ASSUME skew = 0, RateWindow > 0
             PROVE  WindowInv(accepted', windowStart', windowCount', time,
                              RateCap, RateWindow)
  <2>1. time' = time /\ skew' = skew
    BY DEF Propose, ProposeRefused, ProposeInvalid, ProposeDenied,
           ProposeAccepted, gatewayVars
  <2> QED
    BY <2>1, Zenon DEF RateInv
<1>1. RollWindow
  BY DEF Propose, ProposeRefused, ProposeInvalid, ProposeDenied, ProposeAccepted
<1>2. /\ WindowInv(accepted, windowStart', CountNow, time, RateCap, RateWindow)
      /\ Elapsed(time, windowStart') < RateWindow
      /\ windowStart' \in Nat /\ CountNow \in Nat
  BY <1>1, RollingKeepsRate, Zenon
<1>3. \/ windowCount' = CountNow /\ accepted' = accepted
      \/ /\ CountNow < RateCap
         /\ windowCount' = CountNow + 1
         /\ accepted' = Append(accepted, time)
  BY DEF Propose, ProposeRefused, ProposeInvalid, ProposeDenied, ProposeAccepted
<1>4. CASE windowCount' = CountNow /\ accepted' = accepted
  BY <1>2, <1>4, Zenon
<1>5. CASE /\ CountNow < RateCap
           /\ windowCount' = CountNow + 1
           /\ accepted' = Append(accepted, time)
  <2>1. accepted \in Seq(Nat)
    BY DEF TypeOK
  <2>2. /\ Len(accepted) + 1 \notin DOMAIN accepted
        /\ DOMAIN accepted' = DOMAIN accepted \cup {Len(accepted) + 1}
        /\ accepted'[Len(accepted) + 1] = time
        /\ \A n \in DOMAIN accepted : accepted'[n] = accepted[n]
    BY <1>5, <2>1
  <2>3. WindowInv(accepted', windowStart', CountNow + 1, time, RateCap, RateWindow)
    BY <1>2, <1>5, <2>2, AcceptedAreTimes, TakeKeepsWindow, Zenon
  <2> QED
    BY <1>5, <2>3, Zenon
<1> QED
  BY <1>3, <1>4, <1>5

(* Nothing but propose, of the autopilot's operations, touches the window  *)
(* of accepted proposals, and nothing turns the wall clock forward again.  *)
LEMMA OthersLeaveRate ==
  ASSUME TypeOK, [Next]_vars
  PROVE  \/ \E command \in Commands, args \in Args, ctx \in GateContexts :
              Propose(command, args, ctx)
         \/ /\ UNCHANGED <<windowStart, windowCount, accepted>>
            /\ UNCHANGED <<time, skew>> \/ Tick \/ SetClockBack
<1>1. CASE Enable \/ Disable \/ SetStale \/ ClearStale
  BY <1>1 DEF Enable, Disable, SetStale, ClearStale, gatewayVars
<1>2. CASE EmergencyStop \/ ReleaseEmergencyStop
  BY <1>2 DEF EmergencyStop, ReleaseEmergencyStop, autopilotVars
<1>3. ASSUME NEW n, NEW ctx, NEW ok, ConfirmAndSend(n, ctx, ok) \/ AutoSend(n, ctx, ok)
      PROVE  UNCHANGED <<windowStart, windowCount, accepted, time, skew>>
  BY <1>3 DEF ConfirmAndSend, ConfirmApproved, ConfirmRisky, AutoSend, GatewaySend
<1>4. ASSUME NEW n, Cancel(n)
      PROVE  UNCHANGED <<windowStart, windowCount, accepted, time, skew>>
  BY <1>4 DEF Cancel, gatewayVars
<1>5. CASE (Tick \/ SetClockBack) /\ UNCHANGED autopilotVars
  BY <1>5 DEF autopilotVars
<1>6. CASE UNCHANGED vars
  BY <1>6 DEF vars, gatewayVars, autopilotVars
<1> QED
  BY <1>1, <1>2, <1>3, <1>4, <1>5, <1>6 DEF Next

(* Real time only advances, and the wall clock stays set back.             *)
LEMMA ClockSteps ==
  ASSUME TypeOK, UNCHANGED <<time, skew>> \/ Tick \/ SetClockBack
  PROVE  time' \in Nat /\ time <= time' /\ (skew' = 0 => skew = 0)
BY GatewayAssumption DEF Tick, SetClockBack, TypeOK, GatewayTypeOK

(* Every operation keeps the window of accepted proposals.                 *)
LEMMA NextKeepsRate == IInv /\ RateInv /\ [Next]_vars => RateInv'
<1> SUFFICES ASSUME TypeOK, RateInv, [Next]_vars PROVE RateInv'
  BY DEF IInv
<1>1. CASE \E command \in Commands, args \in Args, ctx \in GateContexts :
             Propose(command, args, ctx)
  BY <1>1, ProposeKeepsRate, Zenon
<1>2. CASE /\ UNCHANGED <<windowStart, windowCount, accepted>>
           /\ UNCHANGED <<time, skew>> \/ Tick \/ SetClockBack
  <2>1. time' \in Nat /\ time <= time' /\ (skew' = 0 => skew = 0)
    BY <1>2, ClockSteps
  <2> QED
    BY <1>2, <2>1, RateUntouched
<1> QED
  BY <1>1, <1>2, OthersLeaveRate

(* In such a window no span holds more than two windows' worth.            *)
LEMMA WindowBoundsRate ==
  ASSUME TypeOK, RateInv
  PROVE  RateBudget
<1> SUFFICES ASSUME skew = 0, NEW n \in DOMAIN accepted
             PROVE  Cardinality({m \in DOMAIN accepted :
                      /\ accepted[n] <= accepted[m]
                      /\ accepted[m] < accepted[n] + RateWindow}) <= 2 * RateCap
  BY DEF RateBudget
<1>1. accepted[n] \in Nat
  BY AcceptedAreTimes
<1>2. {m \in DOMAIN accepted : /\ accepted[n] <= accepted[m]
                               /\ accepted[m] < accepted[n] + RateWindow}
        = Within(accepted, accepted[n], accepted[n] + RateWindow)
  BY DEF Within
<1>3. CASE RateWindow > 0
  <2>1. \A lo \in Nat :
          Cardinality(Within(accepted, lo, lo + RateWindow)) <= 2 * RateCap
    BY <1>3, Zenon DEF RateInv, WindowInv
  <2> QED
    BY <1>1, <1>2, <2>1, Zenon
<1>4. CASE RateWindow = 0
  <2>1. Within(accepted, accepted[n], accepted[n] + RateWindow) = {}
    BY <1>1, <1>4, AcceptedAreTimes DEF Within
  <2>2. Cardinality({}) = 0 /\ 0 <= 2 * RateCap
    BY FS_EmptySet, AutopilotAssumption
  <2> QED
    BY <1>2, <2>1, <2>2
<1> QED
  BY <1>3, <1>4, AutopilotAssumption

(* As long as the wall clock was not set back, no span of window_ms,       *)
(* wherever it starts, holds more accepted proposals than two windows      *)
(* allow.                                                                  *)
THEOREM RateIsBudgeted == Spec => []RateBudget
<1>1. Init => RateInv
  BY RateStarts
<1>2. IInv /\ RateInv => RateBudget
  BY WindowBoundsRate DEF IInv
<1> QED
  BY <1>1, <1>2, NextKeepsRate, InvariantHolds, PTL DEF Spec

(* Every operation keeps the pacing's window: auto-sends and confirmations *)
(* of approved proposals go through the gateway, the autopilot's own sends *)
(* are not paced.                                                          *)
LEMMA NextKeepsBurst == IInv /\ BurstInv /\ [Next]_vars => BurstInv'
<1> SUFFICES ASSUME IInv, BurstInv, [Next]_vars PROVE BurstInv'
  OBVIOUS
<1>0. TypeOK /\ GatewayTypeOK /\ ClockStarted
  BY DEF IInv, TypeOK
<1>1. ASSUME UNCHANGED <<tempo, sends>>, UNCHANGED <<time, skew>> \/ Tick \/ SetClockBack
      PROVE  BurstInv'
  <2>1. PacedTimes' = PacedTimes
    BY <1>1 DEF PacedTimes, PacedSends
  <2>2. time' \in Nat /\ time <= time' /\ (skew' = 0 => skew = 0)
    BY <1>0, <1>1, ClockSteps
  <2> QED
    BY <1>0, <1>1, <2>1, <2>2, BurstUntouched
<1>2. ASSUME NEW p, NEW ctx, NEW ok, NEW by, by # "confirmed",
             GatewaySend(p, ctx, ok, by)
      PROVE  BurstInv'
  BY <1>0, <1>2, GatewaySendKeepsBurst, Zenon
<1>3. ASSUME NEW n, NEW ok, ConfirmRisky(n, ok)
      PROVE  BurstInv'
  <2>1. /\ sends' = sends \/ sends' = Append(sends, Sent(pending[n], "confirmed"))
        /\ UNCHANGED <<tempo, time, skew>>
    BY <1>3 DEF ConfirmRisky
  <2>2. PacedTimes' = PacedTimes
    BY <1>0, <2>1, UnpacedSend
  <2>3. time' \in Nat /\ time <= time' /\ (skew' = 0 => skew = 0)
    BY <1>0, <2>1, ClockSteps
  <2> QED
    BY <1>0, <2>1, <2>2, <2>3, BurstUntouched
<1>4. ASSUME NEW n, NEW ctx, NEW ok, ConfirmAndSend(n, ctx, ok) \/ AutoSend(n, ctx, ok)
      PROVE  BurstInv'
  <2>1. \/ ConfirmRisky(n, ok)
        \/ GatewaySend(pending[n], ctx, ok, "gateway")
        \/ GatewaySend(pending[n], ctx, ok, "auto")
    BY <1>4, Zenon DEF ConfirmAndSend, ConfirmApproved, AutoSend
  <2>2. "gateway" # "confirmed" /\ "auto" # "confirmed"
    OBVIOUS
  <2> QED
    BY <1>2, <1>3, <2>1, <2>2, Zenon
<1>5. CASE Enable \/ Disable \/ SetStale \/ ClearStale
  BY <1>1, <1>5 DEF Enable, Disable, SetStale, ClearStale, gatewayVars
<1>6. CASE EmergencyStop \/ ReleaseEmergencyStop
  BY <1>1, <1>6 DEF EmergencyStop, ReleaseEmergencyStop
<1>7. ASSUME NEW command, NEW args, NEW ctx, Propose(command, args, ctx)
      PROVE  BurstInv'
  BY <1>1, <1>7 DEF Propose, ProposeRefused, ProposeInvalid, ProposeDenied,
                    ProposeAccepted, gatewayVars
<1>8. ASSUME NEW n, Cancel(n)
      PROVE  BurstInv'
  BY <1>1, <1>8 DEF Cancel, gatewayVars
<1>9. CASE (Tick \/ SetClockBack) /\ UNCHANGED autopilotVars
  BY <1>1, <1>9 DEF Tick, SetClockBack
<1>10. CASE UNCHANGED vars
  BY <1>1, <1>10 DEF vars, gatewayVars
<1> QED
  BY <1>4, <1>5, <1>6, <1>7, <1>8, <1>9, <1>10 DEF Next

(* The autopilot, too, keeps HumanTempo's budget in every span, for all    *)
(* the sends it leaves to the gateway.                                     *)
THEOREM BurstIsBudgeted == Spec => []BurstBudget
<1>1. Init => BurstInv
  BY BurstStarts DEF Init
<1>2. IInv /\ BurstInv => BurstBudget
  BY WindowBoundsBurst DEF IInv, TypeOK
<1> QED
  BY <1>1, <1>2, NextKeepsBurst, InvariantHolds, PTL DEF Spec

=============================================================================
