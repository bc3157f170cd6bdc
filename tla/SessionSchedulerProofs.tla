----------------------- MODULE SessionSchedulerProofs -----------------------
(***************************************************************************)
(* Proofs about the session scheduler, for every number of sessions and    *)
(* every queue capacity: the rotation stays complete, no session with work *)
(* is bypassed more than once by each other one, and the stop is final.    *)
(***************************************************************************)
EXTENDS SessionScheduler, SequenceTheorems, FiniteSetTheorems, TLAPS

(* The session at position p that has work was bypassed no more often than *)
(* there are sessions behind it: whoever was served since it got its work  *)
(* is behind it now.  A stopped scheduler rotates without serving.         *)
BehindWhenBypassed ==
  ~stopped => \A p \in DOMAIN roundRobin :
    backlog[roundRobin[p]] > 0
      => bypassed[roundRobin[p]] + p <= Len(roundRobin)

(* bypassed counts from the moment the session has work. *)
IdleIsNotBypassed == \A s \in Sessions : backlog[s] = 0 => bypassed[s] = 0

StoppedIsCanceled == stopped => \A s \in sessions : state[s] = "canceled"

IInv ==
  /\ TypeOK
  /\ RotationComplete
  /\ BypassBounded
  /\ BehindWhenBypassed
  /\ IdleIsNotBypassed
  /\ StoppedIsCanceled

-----------------------------------------------------------------------------
(* Lemmas about the rotation. *)

InRotation == {roundRobin[n] : n \in DOMAIN roundRobin}

(* A position of the rotation names a session. *)
LEMMA PositionIsSession ==
  ASSUME TypeOK, NEW p \in DOMAIN roundRobin
  PROVE  /\ DOMAIN roundRobin = 1..Len(roundRobin)
         /\ Len(roundRobin) \in Nat
         /\ roundRobin[p] \in Sessions
  BY LenProperties, ElementOfSeq DEF TypeOK

(* Moving the first n ids to the back one by one shifts the others forward *)
(* and loses none.                                                         *)
LEMMA RotatedShifts ==
  ASSUME TypeOK, NEW n \in DOMAIN roundRobin
  PROVE  /\ Rotated(n) \in Seq(Sessions)
         /\ Len(Rotated(n)) = Len(roundRobin)
         /\ \A i \in 1..Len(roundRobin) :
              Rotated(n)[i] = IF i <= Len(roundRobin) - n
                                THEN roundRobin[i + n]
                                ELSE roundRobin[i + n - Len(roundRobin)]
  <1> DEFINE L == Len(roundRobin)
             back == SubSeq(roundRobin, n + 1, L)
             front == SubSeq(roundRobin, 1, n)
  <1>1. /\ L \in Nat /\ n \in 1..L
        /\ \A i \in 1..L : roundRobin[i] \in Sessions
    BY PositionIsSession
  <1>2. /\ back \in Seq(Sessions)
        /\ Len(back) = L - n
        /\ \A i \in 1..(L - n) : back[i] = roundRobin[n + i]
    <2>1. \A i \in (n + 1)..L : roundRobin[i] \in Sessions
      BY <1>1
    <2>2. /\ back \in Seq(Sessions)
          /\ Len(back) = IF n + 1 <= L THEN L - (n + 1) + 1 ELSE 0
          /\ \A i \in 1..(L - (n + 1) + 1) : back[i] = roundRobin[n + 1 + i - 1]
      BY <1>1, <2>1, SubSeqProperties
    <2> HIDE DEF back
    <2> QED BY <1>1, <2>2
  <1>3. /\ front \in Seq(Sessions)
        /\ Len(front) = n
        /\ \A i \in 1..n : front[i] = roundRobin[i]
    <2>1. \A i \in 1..n : roundRobin[i] \in Sessions
      BY <1>1
    <2>2. /\ front \in Seq(Sessions)
          /\ Len(front) = IF 1 <= n THEN n - 1 + 1 ELSE 0
          /\ \A i \in 1..(n - 1 + 1) : front[i] = roundRobin[1 + i - 1]
      BY <1>1, <2>1, SubSeqProperties
    <2> HIDE DEF front
    <2> QED BY <1>1, <2>2
  <1>4. /\ back \o front \in Seq(Sessions)
        /\ Len(back \o front) = Len(back) + Len(front)
        /\ \A i \in 1..(Len(back) + Len(front)) :
             (back \o front)[i] = IF i <= Len(back) THEN back[i]
                                                    ELSE front[i - Len(back)]
    BY <1>2, <1>3, ConcatProperties
  <1>5. Rotated(n) = back \o front
    BY DEF Rotated
  <1> HIDE DEF back, front, L
  <1>6. ASSUME NEW i \in 1..L
        PROVE  (back \o front)[i] = IF i <= L - n THEN roundRobin[i + n]
                                                 ELSE roundRobin[i + n - L]
    <2>1. CASE i <= L - n
      <3>1. i \in 1..(L - n) /\ i \in 1..(Len(back) + Len(front))
        BY <1>1, <1>2, <1>3, <2>1
      <3> QED BY <1>1, <1>2, <1>4, <2>1, <3>1
    <2>2. CASE i > L - n
      <3>1. /\ i \in 1..(Len(back) + Len(front))
            /\ i - (L - n) \in 1..n
            /\ i - (L - n) = i + n - L
        BY <1>1, <1>2, <1>3, <2>2
      <3>2. (back \o front)[i] = front[i - (L - n)]
        BY <1>1, <1>2, <1>4, <2>2, <3>1
      <3> QED BY <1>1, <1>3, <2>2, <3>1, <3>2
    <2>3. i <= L - n \/ i > L - n
      BY <1>1
    <2> QED BY <2>1, <2>2, <2>3, Zenon
  <1>7. Len(back \o front) = L
    BY <1>1, <1>2, <1>3, <1>4
  <1>8. Rotated(n) \in Seq(Sessions) /\ Len(Rotated(n)) = L
    BY <1>4, <1>5, <1>7
  <1>9. \A i \in 1..L : Rotated(n)[i] = IF i <= L - n THEN roundRobin[i + n]
                                              ELSE roundRobin[i + n - L]
    BY <1>5, <1>6, Zenon
  <1> USE DEF L
  <1> QED BY <1>8, <1>9, Zenon

(* A rotation keeps the ids distinct and the set of them. *)
LEMMA RotatedKeepsSessions ==
  ASSUME TypeOK, RotationComplete, NEW n \in DOMAIN roundRobin,
         roundRobin' = Rotated(n)
  PROVE  /\ InRotation' = InRotation
         /\ \A i, j \in DOMAIN roundRobin' :
              roundRobin'[i] = roundRobin'[j] => i = j
  <1> DEFINE L == Len(roundRobin)
             from(i) == IF i <= L - n THEN i + n ELSE i + n - L
  <1>1. /\ L \in Nat /\ n \in 1..L /\ DOMAIN roundRobin = 1..L
    BY PositionIsSession
  <1>2. /\ DOMAIN roundRobin' = 1..L
        /\ \A i \in 1..L : roundRobin'[i] = roundRobin[from(i)]
    BY RotatedShifts, LenProperties
  <1> HIDE DEF L
  <1>3. \A i, j \in 1..L : roundRobin[i] = roundRobin[j] => i = j
    BY <1>1 DEF RotationComplete
  <1>4. ASSUME NEW i \in 1..L, NEW j \in 1..L, roundRobin'[i] = roundRobin'[j]
        PROVE  i = j
    <2>1. from(i) \in 1..L /\ from(j) \in 1..L
      BY <1>1
    <2>2. from(i) = from(j)
      BY <1>2, <1>3, <1>4, <2>1
    <2> QED BY <1>1, <2>2
  <1>5. InRotation' \subseteq InRotation
    <2>1. ASSUME NEW i \in 1..L PROVE roundRobin'[i] \in InRotation
      <3>1. from(i) \in 1..L
        BY <1>1
      <3> HIDE DEF from
      <3> QED BY <1>1, <1>2, <3>1 DEF InRotation
    <2> QED BY <1>2, <2>1 DEF InRotation
  <1>6. ASSUME NEW j \in 1..L PROVE roundRobin[j] \in InRotation'
    <2>1. CASE j > n
      <3>1. j - n \in 1..L /\ from(j - n) = j
        BY <1>1, <2>1
      <3> HIDE DEF from
      <3> QED BY <1>2, <3>1 DEF InRotation
    <2>2. CASE j <= n
      <3>1. j - n + L \in 1..L /\ from(j - n + L) = j
        BY <1>1, <2>2
      <3> HIDE DEF from
      <3> QED BY <1>2, <3>1 DEF InRotation
    <2> QED BY <1>1, <2>1, <2>2
  <1>7. InRotation \subseteq InRotation'
    <2>1. InRotation = {roundRobin[j] : j \in 1..L}
      BY <1>1 DEF InRotation
    <2> QED BY <1>6, <2>1
  <1> QED BY <1>2, <1>4, <1>5, <1>7

(* sessions.len() is the length of the rotation. *)
LEMMA SessionCount ==
  ASSUME TypeOK, RotationComplete
  PROVE  Cardinality(sessions) = Len(roundRobin)
  <1> DEFINE L == Len(roundRobin)
  <1>1. L \in Nat /\ DOMAIN roundRobin = 1..L
    BY LenProperties DEF TypeOK
  <1>2. roundRobin \in Bijection(1..L, sessions)
    <2>1. /\ roundRobin \in [1..L -> sessions]
          /\ sessions = {roundRobin[n] : n \in DOMAIN roundRobin}
      BY <1>1, LenProperties, IsASeq DEF TypeOK, RotationComplete
    <2> QED BY <1>1, <2>1 DEF Bijection, Injection, Surjection, IsInjective,
                              RotationComplete
  <1>3. ExistsBijection(1..L, sessions)
    BY <1>2 DEF ExistsBijection
  <1> QED BY <1>1, <1>3, FS_Interval, FS_Bijection

(* What serve_round looks for at a position of the rotation is there: it   *)
(* only asks whether the session has work.                                 *)
LEMMA WorkAtPosition ==
  ASSUME TypeOK, RotationComplete, NEW n \in DOMAIN roundRobin
  PROVE  /\ roundRobin[n] \in sessions
         /\ HasWork(n) <=> backlog[roundRobin[n]] > 0
         /\ ~HasWork(n) <=> backlog[roundRobin[n]] = 0
  <1>1. roundRobin[n] \in sessions /\ roundRobin[n] \in Sessions
    BY PositionIsSession DEF RotationComplete
  <1>2. backlog[roundRobin[n]] \in Nat
    BY <1>1, SchedulerAssumption DEF TypeOK
  <1> QED BY <1>1, <1>2 DEF HasWork

-----------------------------------------------------------------------------
(* The inductive invariant. *)

(* Nothing has been created, queued or served. *)
LEMMA InitIInv == Init => IInv
  <1> SUFFICES ASSUME Init PROVE IInv
    OBVIOUS
  <1> USE DEF Init
  <1>1. /\ roundRobin = <<>> /\ Len(roundRobin) = 0 /\ DOMAIN roundRobin = {}
        /\ roundRobin \in Seq(Sessions)
    BY EmptySeq
  <1>2. TypeOK
    <2>1. 0 \in 0..QueueCapacity
      BY SchedulerAssumption
    <2>2. /\ state \in [Sessions -> States]
          /\ backlog \in [Sessions -> 0..QueueCapacity]
          /\ bypassed \in [Sessions -> Nat]
      BY <2>1 DEF States
    <2> QED BY <1>1, <2>2 DEF TypeOK
  <1>3. RotationComplete
    <2>1. {roundRobin[n] : n \in DOMAIN roundRobin} = {}
      BY <1>1
    <2> QED BY <1>1, <2>1, SchedulerAssumption DEF RotationComplete
  <1>4. BypassBounded /\ IdleIsNotBypassed
    BY DEF BypassBounded, IdleIsNotBypassed
  <1>5. BehindWhenBypassed /\ StoppedIsCanceled
    BY <1>1 DEF BehindWhenBypassed, StoppedIsCanceled
  <1> QED BY <1>2, <1>3, <1>4, <1>5 DEF IInv

(* A step that changes nothing keeps the invariant. *)
LEMMA UnchangedIInv ==
  ASSUME IInv, UNCHANGED vars
  PROVE  IInv'
  <1> USE DEF vars
  <1>1. TypeOK' /\ RotationComplete' /\ StoppedIsCanceled'
    BY DEF IInv, TypeOK, RotationComplete, StoppedIsCanceled
  <1>2. BypassBounded' /\ BehindWhenBypassed' /\ IdleIsNotBypassed'
    BY DEF IInv, BypassBounded, BehindWhenBypassed, IdleIsNotBypassed
  <1> QED BY <1>1, <1>2 DEF IInv

(* create_session appends a new id: the others keep their positions. *)
LEMMA CreateSessionIInv ==
  ASSUME IInv, NEW s \in Sessions, CreateSession(s)
  PROVE  IInv'
  <1> DEFINE L == Len(roundRobin)
  <1>1. /\ L \in Nat /\ DOMAIN roundRobin = 1..L
        /\ \A i \in 1..L : roundRobin[i] \in Sessions
    BY LenProperties, ElementOfSeq DEF IInv, TypeOK
  <1>2. /\ roundRobin' \in Seq(Sessions)
        /\ Len(roundRobin') = L + 1
        /\ \A i \in 1..L : roundRobin'[i] = roundRobin[i]
        /\ roundRobin'[L + 1] = s
    BY AppendProperties DEF IInv, TypeOK, CreateSession
  <1>3. DOMAIN roundRobin' = 1..(L + 1)
    BY <1>2, LenProperties
  <1>4. /\ state' = [state EXCEPT ![s] = "loading"]
        /\ UNCHANGED <<backlog, stopped, bypassed>>
        /\ ~stopped /\ s \notin sessions /\ sessions' = sessions \cup {s}
    BY DEF CreateSession
  <1>5. \A i \in 1..L : roundRobin[i] \in sessions /\ roundRobin[i] # s
    BY <1>1, <1>4 DEF IInv, RotationComplete
  <1>6. L < MaxSessions
    BY SessionCount DEF IInv, CreateSession
  <1> HIDE DEF L
  <1>7. TypeOK'
    BY <1>2, <1>4 DEF IInv, TypeOK, States
  <1>8. RotationComplete'
    <2>1. \A m, n \in 1..(L + 1) : roundRobin'[m] = roundRobin'[n] => m = n
      BY <1>1, <1>2, <1>5 DEF IInv, RotationComplete
    <2>2. Len(roundRobin') <= MaxSessions
      BY <1>1, <1>2, <1>6, SchedulerAssumption
    <2>3. {roundRobin'[n] : n \in 1..(L + 1)} = sessions'
      <3>1. \A n \in 1..(L + 1) : roundRobin'[n] \in sessions'
        <4>1. \A n \in 1..(L + 1) : n \in 1..L \/ n = L + 1
          BY <1>1
        <4> QED BY <1>2, <1>4, <1>5, <4>1
      <3>2. ASSUME NEW t \in sessions
            PROVE  \E n \in 1..(L + 1) : roundRobin'[n] = t
        <4>1. PICK n \in 1..L : roundRobin[n] = t
          BY <1>1 DEF IInv, RotationComplete
        <4> QED BY <1>1, <1>2, <4>1
      <3>3. L + 1 \in 1..(L + 1)
        BY <1>1
      <3> QED BY <1>2, <1>4, <3>1, <3>2, <3>3
    <2>4. \A t \in Sessions : backlog'[t] > 0 => t \in sessions'
      BY <1>4 DEF IInv, RotationComplete
    <2> QED BY <1>3, <2>1, <2>2, <2>3, <2>4 DEF RotationComplete
  <1>9. BypassBounded'
    BY <1>1, <1>2, <1>4 DEF IInv, TypeOK, BypassBounded, L
  <1>10. BehindWhenBypassed'
    <2>1. backlog[s] = 0
      BY <1>4 DEF IInv, TypeOK, RotationComplete, CreateSession
    <2>2. ASSUME NEW p \in 1..(L + 1), backlog[roundRobin'[p]] > 0
          PROVE  bypassed[roundRobin'[p]] + p <= L + 1
      <3>1. p \in 1..L
        BY <1>1, <1>2, <2>1, <2>2
      <3>2. bypassed[roundRobin[p]] + p <= L
        BY <1>1, <1>2, <1>4, <2>2, <3>1 DEF IInv, BehindWhenBypassed, L
      <3>3. bypassed[roundRobin[p]] \in Nat
        BY <1>1, <3>1 DEF IInv, TypeOK
      <3> QED BY <1>1, <1>2, <3>1, <3>2, <3>3
    <2> QED BY <1>2, <1>3, <1>4, <2>2 DEF BehindWhenBypassed
  <1>11. IdleIsNotBypassed' /\ StoppedIsCanceled'
    BY <1>4 DEF IInv, IdleIsNotBypassed, StoppedIsCanceled
  <1> QED BY <1>7, <1>8, <1>9, <1>10, <1>11 DEF IInv

(* set_state changes the state of one session. *)
LEMMA SetStateIInv ==
  ASSUME IInv, NEW s \in Sessions, NEW new \in States, SetState(s, new)
  PROVE  IInv'
  <1>1. /\ state' = [state EXCEPT ![s] = new]
        /\ UNCHANGED <<sessions, roundRobin, backlog, stopped, bypassed>>
        /\ stopped => new = "canceled"
    BY DEF SetState
  <1>2. TypeOK'
    BY <1>1 DEF IInv, TypeOK
  <1>3. RotationComplete' /\ BypassBounded' /\ IdleIsNotBypassed'
    BY <1>1, <1>2 DEF IInv, RotationComplete, BypassBounded, IdleIsNotBypassed
  <1>4. BehindWhenBypassed'
    BY <1>1 DEF IInv, BehindWhenBypassed
  <1>5. StoppedIsCanceled'
    BY <1>1 DEF IInv, TypeOK, StoppedIsCanceled
  <1> QED BY <1>2, <1>3, <1>4, <1>5 DEF IInv

(* enqueue makes one queue longer; a queue that was empty starts with no   *)
(* bypass counted.                                                         *)
LEMMA EnqueueIInv ==
  ASSUME IInv, NEW s \in Sessions, Enqueue(s)
  PROVE  IInv'
  <1> DEFINE L == Len(roundRobin)
  <1>1. /\ L \in Nat /\ DOMAIN roundRobin = 1..L
        /\ \A i \in 1..L : roundRobin[i] \in Sessions
    BY LenProperties, ElementOfSeq DEF IInv, TypeOK
  <1>2. /\ backlog' = [backlog EXCEPT ![s] = backlog[s] + 1]
        /\ UNCHANGED <<sessions, roundRobin, state, stopped, bypassed>>
        /\ ~stopped /\ s \in sessions /\ backlog[s] < QueueCapacity
    BY DEF Enqueue
  <1>3. /\ backlog \in [Sessions -> Nat]
        /\ bypassed \in [Sessions -> Nat]
        /\ \A t \in Sessions : t # s => backlog'[t] = backlog[t]
        /\ backlog'[s] = backlog[s] + 1
    BY <1>2, SchedulerAssumption DEF IInv, TypeOK
  <1>4. TypeOK'
    BY <1>2, <1>3, SchedulerAssumption DEF IInv, TypeOK
  <1>5. RotationComplete'
    BY <1>2, <1>3 DEF IInv, RotationComplete
  <1>6. BehindWhenBypassed'
    <2>1. ASSUME NEW p \in 1..L
          PROVE  bypassed[roundRobin[p]] + p <= L
                   \/ (backlog[roundRobin[p]] = 0 /\ roundRobin[p] # s)
      BY <1>1, <1>2, <1>3 DEF IInv, BehindWhenBypassed, IdleIsNotBypassed
    <2> QED BY <1>1, <1>2, <1>3, <2>1 DEF BehindWhenBypassed
  <1>7. BypassBounded'
    <2>1. ASSUME NEW t \in Sessions, backlog'[t] > 0
          PROVE  bypassed[t] < L
      <3>1. PICK p \in 1..L : roundRobin[p] = t
        BY <1>1, <1>2, <1>5, <2>1 DEF RotationComplete
      <3>2. bypassed[t] + p <= L
        BY <1>1, <1>2, <1>6, <2>1, <3>1 DEF BehindWhenBypassed
      <3> QED BY <1>1, <1>3, <3>1, <3>2
    <2> QED BY <1>2, <2>1 DEF BypassBounded
  <1>8. IdleIsNotBypassed' /\ StoppedIsCanceled'
    BY <1>2, <1>3 DEF IInv, IdleIsNotBypassed, StoppedIsCanceled
  <1> QED BY <1>4, <1>5, <1>6, <1>7, <1>8 DEF IInv

(* Serving the n-th session moves it behind everybody who waits, and each  *)
(* of those is bypassed once more and n positions further ahead.           *)
LEMMA ServeIInv ==
  ASSUME IInv, NEW n \in DOMAIN roundRobin, Serve(n)
  PROVE  IInv'
  <1> DEFINE L == Len(roundRobin)
             s == roundRobin[n]
  <1>1. /\ L \in Nat /\ DOMAIN roundRobin = 1..L /\ n \in 1..L
        /\ \A i \in 1..L : roundRobin[i] \in Sessions
        /\ s \in Sessions
    BY LenProperties, ElementOfSeq DEF IInv, TypeOK
  <1>2. /\ backlog[s] > 0
        /\ \A m \in 1..(n - 1) : backlog[roundRobin[m]] = 0
        /\ backlog' = [backlog EXCEPT ![s] = backlog[s] - 1]
        /\ bypassed' = [t \in Sessions |->
                          IF t = s \/ backlog[t] = 0 THEN 0
                                                     ELSE OnceMore(bypassed[t])]
        /\ roundRobin' = Rotated(n)
        /\ UNCHANGED <<sessions, state, stopped>> /\ ~stopped
    <2>1. HasWork(n) /\ \A m \in 1..(n - 1) : m \in 1..L /\ ~HasWork(m)
      BY <1>1 DEF Serve
    <2>2. /\ backlog[s] > 0
          /\ \A m \in 1..(n - 1) : backlog[roundRobin[m]] = 0
      BY <1>1, <2>1, WorkAtPosition DEF IInv
    <2> QED BY <2>2 DEF Serve, OrderAfterServe
  <1>3. /\ backlog \in [Sessions -> Nat]
        /\ bypassed \in [Sessions -> Nat]
        /\ backlog' \in [Sessions -> Nat]
        /\ \A t \in Sessions : t # s => backlog'[t] = backlog[t]
        /\ backlog'[s] = backlog[s] - 1
    BY <1>1, <1>2, SchedulerAssumption DEF IInv, TypeOK
  <1>4. /\ roundRobin' \in Seq(Sessions)
        /\ Len(roundRobin') = L
        /\ \A i \in 1..L :
             roundRobin'[i] = IF i <= L - n THEN roundRobin[i + n]
                                            ELSE roundRobin[i + n - L]
    BY <1>2, RotatedShifts DEF IInv
  <1>5. DOMAIN roundRobin' = 1..L
    BY <1>4, LenProperties
  <1>6. /\ InRotation' = InRotation
        /\ \A i, j \in DOMAIN roundRobin' :
             roundRobin'[i] = roundRobin'[j] => i = j
    BY <1>2, RotatedKeepsSessions DEF IInv
  <1>7. \A i, j \in 1..L : roundRobin[i] = roundRobin[j] => i = j
    BY <1>1 DEF IInv, RotationComplete
  <1>8. \A p \in 1..L : backlog[roundRobin[p]] > 0
                           => bypassed[roundRobin[p]] + p <= L
    BY <1>1, <1>2 DEF IInv, BehindWhenBypassed
  <1> HIDE DEF L, s
  <1>9. TypeOK'
    <2>1. bypassed' \in [Sessions -> Nat]
      BY <1>2, <1>3, SchedulerAssumption DEF OnceMore
    <2>2. backlog' \in [Sessions -> 0..QueueCapacity]
      BY <1>1, <1>2, SchedulerAssumption DEF IInv, TypeOK
    <2> QED BY <1>2, <1>4, <2>1, <2>2 DEF IInv, TypeOK
  <1>10. RotationComplete'
    <2>1. \A t \in Sessions : backlog'[t] > 0 => backlog[t] > 0
      BY <1>2, <1>3
    <2> QED BY <1>2, <1>4, <1>6, <2>1 DEF IInv, RotationComplete, InRotation, L
  <1>11. BehindWhenBypassed'
    <2>1. ASSUME NEW p \in 1..L, backlog'[roundRobin'[p]] > 0
          PROVE  bypassed'[roundRobin'[p]] + p <= L
      <3>1. CASE p <= L - n
        <4>1. p + n \in 1..L /\ roundRobin'[p] = roundRobin[p + n]
          BY <1>1, <1>4, <3>1
        <4>2. roundRobin[p + n] \in Sessions /\ roundRobin[p + n] # s
          BY <1>1, <1>7, <4>1 DEF s
        <4>3. backlog[roundRobin[p + n]] > 0
          BY <1>3, <2>1, <4>1, <4>2
        <4>4. bypassed[roundRobin[p + n]] + (p + n) <= L
          BY <1>8, <4>1, <4>3
        <4>5. bypassed'[roundRobin[p + n]] = OnceMore(bypassed[roundRobin[p + n]])
          BY <1>2, <4>2, <4>3
        <4>6. bypassed[roundRobin[p + n]] \in Nat
          BY <1>3, <4>2
        <4> QED BY <1>1, <4>1, <4>4, <4>5, <4>6, SchedulerAssumption DEF OnceMore
      <3>2. CASE p > L - n
        <4>1. /\ p + n - L \in 1..n
              /\ roundRobin'[p] = roundRobin[p + n - L]
          BY <1>1, <1>4, <3>2
        <4>2. roundRobin[p + n - L] \in Sessions
          BY <1>1, <4>1
        <4>3. roundRobin[p + n - L] = s \/ backlog[roundRobin[p + n - L]] = 0
          <5>1. p + n - L = n \/ p + n - L \in 1..(n - 1)
            BY <1>1, <4>1
          <5> QED BY <1>2, <5>1 DEF s
        <4>4. bypassed'[roundRobin[p + n - L]] = 0
          BY <1>2, <4>2, <4>3
        <4> QED BY <1>1, <4>1, <4>4
      <3> QED BY <1>1, <3>1, <3>2
    <2> QED BY <1>4, <1>5, <2>1 DEF BehindWhenBypassed
  <1>12. BypassBounded'
    <2>1. ASSUME NEW t \in Sessions, backlog'[t] > 0
          PROVE  bypassed'[t] < L
      <3>1. PICK p \in 1..L : roundRobin'[p] = t
        BY <1>5, <1>10, <2>1 DEF RotationComplete
      <3>2. bypassed'[t] + p <= L
        BY <1>2, <1>4, <1>5, <1>11, <2>1, <3>1 DEF BehindWhenBypassed
      <3>3. bypassed'[t] \in Nat
        BY <1>9 DEF TypeOK
      <3> QED BY <1>1, <3>1, <3>2, <3>3
    <2> QED BY <1>4, <2>1 DEF BypassBounded
  <1>13. IdleIsNotBypassed'
    BY <1>2, <1>3 DEF IInv, IdleIsNotBypassed
  <1>14. StoppedIsCanceled'
    BY <1>2 DEF StoppedIsCanceled
  <1> QED BY <1>9, <1>10, <1>11, <1>12, <1>13, <1>14 DEF IInv

(* A round that serves nothing leaves the order alone or, once stopped,    *)
(* moves one id to the back.                                               *)
LEMMA ServeNothingIInv ==
  ASSUME IInv, ServeNothing
  PROVE  IInv'
  <1>1. UNCHANGED <<sessions, state, backlog, stopped, bypassed>>
    BY DEF ServeNothing
  <1>2. CASE stopped
    <2>1. 1 \in DOMAIN roundRobin /\ roundRobin' = Rotated(1)
      BY <1>2, LenProperties, EmptySeq DEF ServeNothing, IInv, TypeOK
    <2>2. /\ roundRobin' \in Seq(Sessions)
          /\ Len(roundRobin') = Len(roundRobin)
      BY <2>1, RotatedShifts DEF IInv
    <2>3. /\ InRotation' = InRotation
          /\ \A i, j \in DOMAIN roundRobin' :
               roundRobin'[i] = roundRobin'[j] => i = j
      BY <2>1, RotatedKeepsSessions DEF IInv
    <2>4. TypeOK' /\ RotationComplete'
      BY <1>1, <2>2, <2>3 DEF IInv, TypeOK, RotationComplete, InRotation
    <2>5. BypassBounded' /\ BehindWhenBypassed' /\ IdleIsNotBypassed'
      BY <1>1, <1>2, <2>2
         DEF IInv, BypassBounded, BehindWhenBypassed, IdleIsNotBypassed
    <2>6. StoppedIsCanceled'
      BY <1>1 DEF IInv, StoppedIsCanceled
    <2> QED BY <2>4, <2>5, <2>6 DEF IInv
  <1>3. CASE ~stopped
    <2>1. UNCHANGED vars
      BY <1>1, <1>3 DEF ServeNothing, vars
    <2> QED BY <2>1, UnchangedIInv
  <1> QED BY <1>2, <1>3

(* emergency_stop cancels every session. *)
LEMMA EmergencyStopIInv ==
  ASSUME IInv, EmergencyStop
  PROVE  IInv'
  <1>1. /\ stopped' = TRUE
        /\ state' = [s \in Sessions |-> IF s \in sessions THEN "canceled"
                                                          ELSE state[s]]
        /\ UNCHANGED <<sessions, roundRobin, backlog, bypassed>>
    BY DEF EmergencyStop
  <1>2. sessions' = sessions /\ sessions \subseteq Sessions
    BY <1>1 DEF IInv, TypeOK
  <1>3. TypeOK'
    BY <1>1 DEF IInv, TypeOK, States
  <1>4. RotationComplete' /\ BypassBounded' /\ IdleIsNotBypassed'
    BY <1>1, <1>2 DEF IInv, RotationComplete, BypassBounded, IdleIsNotBypassed
  <1>5. BehindWhenBypassed' /\ StoppedIsCanceled'
    BY <1>1, <1>2 DEF BehindWhenBypassed, StoppedIsCanceled
  <1> QED BY <1>3, <1>4, <1>5 DEF IInv

(* Every operation of the scheduler keeps the invariant. *)
LEMMA NextIInv == IInv /\ [Next]_vars => IInv'
  <1> SUFFICES ASSUME IInv, [Next]_vars PROVE IInv'
    OBVIOUS
  <1>1. CASE \E s \in Sessions : CreateSession(s)
    BY <1>1, CreateSessionIInv
  <1>2. CASE \E s \in Sessions : \E new \in States : SetState(s, new)
    BY <1>2, SetStateIInv
  <1>3. CASE \E s \in Sessions : Enqueue(s)
    BY <1>3, EnqueueIInv
  <1>4. CASE ServeNothing
    BY <1>4, ServeNothingIInv
  <1>5. CASE \E n \in DOMAIN roundRobin : Serve(n)
    BY <1>5, ServeIInv
  <1>6. CASE EmergencyStop
    BY <1>6, EmergencyStopIInv
  <1>7. CASE UNCHANGED vars
    BY <1>7, UnchangedIInv
  <1> QED BY <1>1, <1>2, <1>3, <1>4, <1>5, <1>6, <1>7 DEF Next

-----------------------------------------------------------------------------
(* The theorems. *)

(* The inductive invariant holds in every reachable state. *)
THEOREM InvariantHolds == Spec => []IInv
  BY InitIInv, NextIInv, PTL DEF Spec

(* Every variable keeps its type; in particular no session queue outgrows  *)
(* SESSION_QUEUE_CAPACITY.                                                 *)
THEOREM TypeCorrect == Spec => []TypeOK
  <1>1. IInv => TypeOK
    BY DEF IInv
  <1> QED BY <1>1, InvariantHolds, PTL

(* round_robin and the map of sessions agree through creations, services   *)
(* and rotations: each session is in the rotation exactly once, at most    *)
(* MAX_SESSIONS of them, and nothing else is.                              *)
THEOREM RotationIsComplete == Spec => []RotationComplete
  <1>1. IInv => RotationComplete
    BY DEF IInv
  <1> QED BY <1>1, InvariantHolds, PTL

(* "one busy world cannot starve another": serve_round passes a session    *)
(* with queued work over at most once for each other session.              *)
THEOREM BypassIsBounded == Spec => []BypassBounded
  <1>1. IInv => BypassBounded
    BY DEF IInv
  <1> QED BY <1>1, InvariantHolds, PTL

(* After emergency_stop no step queues or serves a command, revives a      *)
(* session or releases the stop.                                           *)
THEOREM StopStaysFinal == Spec => StopIsFinal
  <1> DEFINE Final == stopped => /\ backlog' = backlog
                                 /\ stopped'
                                 /\ \A s \in sessions : state'[s] = "canceled"
  <1>1. IInv /\ [Next]_vars => [Final]_vars
    <2> SUFFICES ASSUME IInv, Next, stopped
                 PROVE  /\ backlog' = backlog
                        /\ stopped'
                        /\ \A s \in sessions : state'[s] = "canceled"
      OBVIOUS
    <2>1. /\ \A s \in sessions : state[s] = "canceled"
          /\ sessions \subseteq Sessions
          /\ state \in [Sessions -> States]
      BY DEF IInv, StoppedIsCanceled, TypeOK
    <2>2. ASSUME NEW s \in Sessions, NEW new \in States, SetState(s, new)
          PROVE  /\ backlog' = backlog
                 /\ stopped'
                 /\ \A t \in sessions : state'[t] = "canceled"
      BY <2>1, <2>2 DEF SetState
    <2>3. CASE ServeNothing
      BY <2>1, <2>3 DEF ServeNothing
    <2>4. CASE EmergencyStop
      BY <2>1, <2>4 DEF EmergencyStop
    <2>5. /\ \A s \in Sessions : ~CreateSession(s) /\ ~Enqueue(s)
          /\ \A n \in DOMAIN roundRobin : ~Serve(n)
      BY DEF CreateSession, Enqueue, Serve
    <2> QED BY <2>2, <2>3, <2>4, <2>5 DEF Next
  <1> QED BY <1>1, InvariantHolds, PTL DEF Spec, StopIsFinal

=============================================================================
