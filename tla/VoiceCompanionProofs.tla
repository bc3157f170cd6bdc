------------------------ MODULE VoiceCompanionProofs ------------------------
(***************************************************************************)
(* Proofs about the voice companion, for every capacity of the queue and   *)
(* every number of jobs.                                                   *)
(***************************************************************************)
EXTENDS VoiceCompanion, SequenceTheorems, TLAPS

IInv ==
  /\ TypeOK
  /\ StoppedMeansSilent
  /\ StateAgrees
  /\ JobIdsNameJobs

(* The queue after the jobs at the places S were cancelled. *)
CancelledAt(S) ==
  [i \in 1..Len(queue) |->
     IF i \in S THEN [queue[i] EXCEPT !.cancelled = TRUE] ELSE queue[i]]

(* What a step may do to the queue: the jobs that were there keep place,   *)
(* number and importance, and none is revived.                             *)
KeepsJobs(q) ==
  /\ q \in Seq(SpeechJobs)
  /\ DOMAIN queue \subseteq DOMAIN q
  /\ \A i \in DOMAIN queue :
       /\ q[i].id = queue[i].id
       /\ q[i].critical = queue[i].critical
       /\ queue[i].cancelled => q[i].cancelled

-----------------------------------------------------------------------------
(* Lemmas about the queue. *)

(* A place of the queue holds a job. *)
LEMMA PlaceHoldsJob ==
  ASSUME TypeOK
  PROVE  /\ Len(queue) \in Nat
         /\ DOMAIN queue = 1..Len(queue)
         /\ \A i \in DOMAIN queue : queue[i] \in SpeechJobs
  BY LenProperties, ElementOfSeq DEF TypeOK

(* Cancelling changes the mark of the chosen jobs and nothing else. *)
LEMMA CancellingKeepsJobs ==
  ASSUME TypeOK, NEW S
  PROVE  /\ KeepsJobs(CancelledAt(S))
         /\ Len(CancelledAt(S)) = Len(queue)
         /\ DOMAIN CancelledAt(S) = DOMAIN queue
         /\ \A i \in DOMAIN queue :
              CancelledAt(S)[i].cancelled = (queue[i].cancelled \/ i \in S)
         /\ \A i \in DOMAIN queue \ S : CancelledAt(S)[i] = queue[i]
<1> DEFINE q == CancelledAt(S)
<1>1. /\ Len(queue) \in Nat
      /\ DOMAIN queue = 1..Len(queue)
      /\ \A i \in 1..Len(queue) : queue[i] \in SpeechJobs
  BY PlaceHoldsJob
<1>2. \A i \in 1..Len(queue) :
        /\ q[i] \in SpeechJobs
        /\ q[i].id = queue[i].id
        /\ q[i].critical = queue[i].critical
        /\ q[i].cancelled = (queue[i].cancelled \/ i \in S)
  <2> SUFFICES ASSUME NEW i \in 1..Len(queue)
               PROVE  /\ q[i] \in SpeechJobs
                      /\ q[i].id = queue[i].id
                      /\ q[i].critical = queue[i].critical
                      /\ q[i].cancelled = (queue[i].cancelled \/ i \in S)
    OBVIOUS
  <2>1. queue[i] \in SpeechJobs
    BY <1>1
  <2>2. CASE i \in S
    <3>1. q[i] = [queue[i] EXCEPT !.cancelled = TRUE]
      BY <2>2 DEF CancelledAt
    <3> QED
      BY <2>1, <2>2, <3>1 DEF SpeechJobs
  <2>3. CASE i \notin S
    <3>1. q[i] = queue[i]
      BY <2>3 DEF CancelledAt
    <3>2. queue[i].cancelled \in BOOLEAN
      BY <2>1 DEF SpeechJobs
    <3> QED
      BY <2>1, <2>3, <3>1, <3>2
  <2> QED
    BY <2>2, <2>3
<1>3. DOMAIN q = 1..Len(queue)
  BY DEF CancelledAt
<1>4. q \in Seq(SpeechJobs) /\ Len(q) = Len(queue)
  <2>1. q \in [1..Len(queue) -> SpeechJobs]
    BY <1>2 DEF CancelledAt
  <2> QED
    BY <1>1, <2>1
<1>5. \A i \in DOMAIN queue \ S : q[i] = queue[i]
  BY <1>1 DEF CancelledAt
<1> QED
  BY <1>1, <1>2, <1>3, <1>4, <1>5 DEF KeepsJobs

(* Cancelling keeps what the invariant says of the queue. *)
LEMMA CancellingKeepsInvariant ==
  ASSUME IInv, NEW S, queue' = CancelledAt(S), UNCHANGED nextJobId
  PROVE  /\ queue' \in Seq(SpeechJobs)
         /\ Len(queue') <= MaxSpeechQueue
         /\ JobIdsNameJobs'
         /\ emergencyStop => \A i \in DOMAIN queue' : queue'[i].cancelled
         /\ queue = <<>> => queue' = <<>>
<1>1. TypeOK
  BY DEF IInv
<1>2. /\ queue' \in Seq(SpeechJobs)
      /\ Len(queue') = Len(queue)
      /\ DOMAIN queue' = DOMAIN queue
      /\ \A i \in DOMAIN queue :
           /\ queue'[i].id = queue[i].id
           /\ queue[i].cancelled => queue'[i].cancelled
  BY <1>1, CancellingKeepsJobs DEF KeepsJobs
<1>3. JobIdsNameJobs'
  BY <1>2 DEF IInv, JobIdsNameJobs
<1>4. emergencyStop => \A i \in DOMAIN queue' : queue'[i].cancelled
  BY <1>2 DEF IInv, StoppedMeansSilent
<1>5. queue = <<>> => queue' = <<>>
  BY <1>2, EmptySeq DEF IInv, TypeOK
<1> QED
  BY <1>1, <1>2, <1>3, <1>4, <1>5 DEF TypeOK

(* The emergency stop cancels every job. *)
LEMMA StopCancelsAll ==
  ASSUME EmergencyStop
  PROVE  queue' = CancelledAt(1..Len(queue))
BY DEF EmergencyStop, Cancelling, CancelledAt

(* cancel_job cancels the jobs with the id. *)
LEMMA CancelJobCancelsNamed ==
  ASSUME NEW id, CancelJob(id)
  PROVE  queue' = CancelledAt({i \in 1..Len(queue) : queue[i].id = id})
BY DEF CancelJob, Cancelling, CancelledAt

(* Barge-in cancels the jobs that are not critical. *)
LEMMA BargeInCancelsNonCritical ==
  ASSUME BargeIn
  PROVE  queue' = CancelledAt({i \in 1..Len(queue) : ~queue[i].critical})
BY DEF BargeIn, Cancelling, CancelledAt, NonCritical

(* Combat cancels summaries that are not critical, or nothing. *)
LEMMA CombatCancelsNarration ==
  ASSUME NEW suppress \in BOOLEAN, SetCombatSuppress(suppress)
  PROVE  \/ queue' = CancelledAt({i \in 1..Len(queue) :
                                    queue[i].summary /\ ~queue[i].critical})
         \/ queue' = queue
BY DEF SetCombatSuppress, Cancelling, CancelledAt, NonCritical

(* Appending a job keeps the others, and the order of the numbers. *)
LEMMA EnqueueKeepsInvariant ==
  ASSUME IInv, NEW summary \in BOOLEAN, NEW critical \in BOOLEAN,
         EnqueueSpeech(summary, critical), ~QueueFull
  PROVE  /\ queue' \in Seq(SpeechJobs)
         /\ Len(queue') <= MaxSpeechQueue
         /\ JobIdsNameJobs'
         /\ KeepsJobs(queue')
         /\ \A i \in DOMAIN queue : queue'[i] = queue[i]
<1> DEFINE new == NewJob(summary, critical)
<1>1. /\ Len(queue) \in Nat
      /\ DOMAIN queue = 1..Len(queue)
      /\ \A i \in DOMAIN queue : queue[i] \in SpeechJobs
      /\ queue \in Seq(SpeechJobs)
  BY PlaceHoldsJob DEF IInv, TypeOK
<1>2. /\ nextJobId \in 1..MaxJobs
      /\ nextJobId' = nextJobId + 1
      /\ queue' = Append(queue, new)
      /\ Len(queue) < MaxSpeechQueue
  BY <1>1, VoiceAssumption
     DEF IInv, TypeOK, EnqueueSpeech, QueueFull, NextJobId
<1>3. new \in SpeechJobs /\ new.id = nextJobId
  BY <1>2 DEF NewJob, SpeechJobs
<1> HIDE DEF new
<1>4. /\ queue' \in Seq(SpeechJobs)
      /\ Len(queue') = Len(queue) + 1
      /\ DOMAIN queue' = 1..(Len(queue) + 1)
      /\ \A i \in DOMAIN queue : queue'[i] = queue[i]
      /\ queue'[Len(queue) + 1] = new
  BY <1>1, <1>2, <1>3, AppendProperties
<1>5. JobIdsNameJobs'
  <2>1. /\ \A i, j \in DOMAIN queue : i < j => queue[i].id < queue[j].id
        /\ \A i \in DOMAIN queue : queue[i].id < nextJobId
    BY DEF IInv, JobIdsNameJobs
  <2>2. \A i \in DOMAIN queue : queue[i].id \in Nat
    BY <1>1 DEF SpeechJobs
  <2>3. \A i \in DOMAIN queue' : i \in DOMAIN queue \/ i = Len(queue) + 1
    BY <1>1, <1>4
  <2>4. \A i \in DOMAIN queue' : queue'[i].id < nextJobId'
    BY <1>2, <1>3, <1>4, <2>1, <2>2, <2>3
  <2>5. \A i, j \in DOMAIN queue' : i < j => queue'[i].id < queue'[j].id
    BY <1>1, <1>2, <1>3, <1>4, <2>1, <2>2, <2>3
  <2> QED
    BY <2>4, <2>5 DEF JobIdsNameJobs
<1>6. KeepsJobs(queue')
  BY <1>1, <1>4 DEF KeepsJobs
<1> QED
  BY <1>1, <1>2, <1>4, <1>5, <1>6, VoiceAssumption

(* Approving a job for remote speech changes nothing else of the queue. *)
LEMMA ApprovalKeepsInvariant ==
  ASSUME IInv, NEW i \in DOMAIN queue, SubmitRemote(i)
  PROVE  /\ queue' \in Seq(SpeechJobs)
         /\ Len(queue') = Len(queue)
         /\ DOMAIN queue' = DOMAIN queue
         /\ \A j \in DOMAIN queue : /\ queue'[j].id = queue[j].id
                                    /\ queue'[j].cancelled = queue[j].cancelled
<1>1. /\ Len(queue) \in Nat
      /\ DOMAIN queue = 1..Len(queue)
      /\ \A j \in DOMAIN queue : queue[j] \in SpeechJobs
      /\ queue \in Seq(SpeechJobs)
  BY PlaceHoldsJob DEF IInv, TypeOK
<1> DEFINE approved == [queue[i] EXCEPT !.remoteApproved = TRUE]
<1>2. /\ approved \in SpeechJobs
      /\ approved.id = queue[i].id
      /\ approved.cancelled = queue[i].cancelled
  BY <1>1 DEF SpeechJobs
<1>3. queue' = [queue EXCEPT ![i] = approved]
  BY DEF SubmitRemote
<1> HIDE DEF approved
<1> QED
  BY <1>1, <1>2, <1>3, ExceptSeq

-----------------------------------------------------------------------------
(* The invariant is inductive. *)

(* The companion starts with an empty queue and the microphone off. *)
LEMMA InitIInv == Init => IInv
<1> SUFFICES ASSUME Init PROVE IInv
  OBVIOUS
<1>1. <<>> \in Seq(SpeechJobs) /\ Len(<<>>) = 0 /\ DOMAIN <<>> = {}
  BY EmptySeq
<1>2. /\ [localOnly |-> TRUE, consented |-> FALSE] \in RemotePolicies
      /\ 1 \in 1..(MaxJobs + 1)
      /\ 0 <= MaxSpeechQueue
  BY VoiceAssumption DEF RemotePolicies
<1>3. TypeOK
  BY <1>1, <1>2 DEF Init, TypeOK, VoiceStates, MicStates
<1>4. StoppedMeansSilent /\ StateAgrees /\ JobIdsNameJobs
  BY <1>1 DEF Init, StoppedMeansSilent, StateAgrees, JobIdsNameJobs
<1> QED
  BY <1>3, <1>4 DEF IInv

(* Emptying the queue keeps what the invariant says of it. *)
LEMMA EmptyQueueIsFine ==
  ASSUME queue' = <<>>
  PROVE  /\ queue' \in Seq(SpeechJobs)
         /\ Len(queue') <= MaxSpeechQueue
         /\ DOMAIN queue' = {}
         /\ JobIdsNameJobs'
<1>1. <<>> \in Seq(SpeechJobs) /\ Len(<<>>) = 0 /\ DOMAIN <<>> = {}
  BY EmptySeq
<1> QED
  BY <1>1, VoiceAssumption DEF JobIdsNameJobs

(* Every step keeps the invariant. *)
LEMMA NextIInv == IInv /\ [Next]_vars => IInv'
<1> SUFFICES ASSUME IInv, [Next]_vars PROVE IInv'
  OBVIOUS
<1>1. /\ TypeOK /\ StoppedMeansSilent /\ StateAgrees /\ JobIdsNameJobs
      /\ queue \in Seq(SpeechJobs) /\ Len(queue) <= MaxSpeechQueue
  BY DEF IInv, TypeOK
<1>2. CASE SetReady
  <2>1. TypeOK'
    BY <1>1, <1>2, Zenon DEF TypeOK, SetReady, VoiceStates, MicStates
  <2>2. StoppedMeansSilent' /\ StateAgrees' /\ JobIdsNameJobs'
    BY <1>1, <1>2 DEF SetReady, StoppedMeansSilent, StateAgrees, JobIdsNameJobs
  <2> QED
    BY <2>1, <2>2 DEF IInv
<1>3. CASE SetDisabled
  <2>1. /\ queue' \in Seq(SpeechJobs)
        /\ Len(queue') <= MaxSpeechQueue
        /\ DOMAIN queue' = {}
        /\ JobIdsNameJobs'
    BY <1>3, EmptyQueueIsFine DEF SetDisabled
  <2>2. TypeOK'
    BY <1>1, <1>3, <2>1, Zenon DEF TypeOK, SetDisabled, VoiceStates, MicStates
  <2>3. StoppedMeansSilent' /\ StateAgrees'
    BY <1>3, <2>1 DEF SetDisabled, StoppedMeansSilent, StateAgrees
  <2> QED
    BY <2>1, <2>2, <2>3 DEF IInv
<1>4. CASE DegradeToText
  <2>1. /\ queue' \in Seq(SpeechJobs)
        /\ Len(queue') <= MaxSpeechQueue
        /\ DOMAIN queue' = {}
        /\ JobIdsNameJobs'
    BY <1>4, EmptyQueueIsFine DEF DegradeToText
  <2>2. TypeOK'
    BY <1>1, <1>4, <2>1, Zenon DEF TypeOK, DegradeToText, VoiceStates, MicStates
  <2>3. StoppedMeansSilent' /\ StateAgrees'
    BY <1>4, <2>1 DEF DegradeToText, StoppedMeansSilent, StateAgrees
  <2> QED
    BY <2>1, <2>2, <2>3 DEF IInv
<1>5. CASE EmergencyStop
  <2>1. queue' = CancelledAt(1..Len(queue)) /\ UNCHANGED nextJobId
    BY <1>5, StopCancelsAll DEF EmergencyStop
  <2>2. /\ queue' \in Seq(SpeechJobs)
        /\ Len(queue') <= MaxSpeechQueue
        /\ JobIdsNameJobs'
    BY <2>1, CancellingKeepsInvariant
  <2>3. TypeOK'
    BY <1>1, <1>5, <2>2, Zenon DEF TypeOK, EmergencyStop, VoiceStates, MicStates
  <2>4. \A i \in DOMAIN queue' : queue'[i].cancelled
    BY <1>1, <2>1, CancellingKeepsJobs, PlaceHoldsJob
  <2>5. StoppedMeansSilent' /\ StateAgrees'
    BY <1>5, <2>4 DEF EmergencyStop, StoppedMeansSilent, StateAgrees
  <2> QED
    BY <2>2, <2>3, <2>5 DEF IInv
<1>6. CASE BeginListen
  <2>1. TypeOK'
    BY <1>1, <1>6, Zenon DEF TypeOK, BeginListen, VoiceStates, MicStates
  <2>2. StoppedMeansSilent' /\ StateAgrees' /\ JobIdsNameJobs'
    BY <1>1, <1>6 DEF BeginListen, StoppedMeansSilent, StateAgrees, JobIdsNameJobs
  <2> QED
    BY <2>1, <2>2 DEF IInv
<1>7. CASE EndListen
  <2>1. TypeOK'
    BY <1>1, <1>7, Zenon DEF TypeOK, EndListen, VoiceStates, MicStates
  <2>2. StoppedMeansSilent' /\ StateAgrees' /\ JobIdsNameJobs'
    BY <1>1, <1>7 DEF EndListen, StoppedMeansSilent, StateAgrees, JobIdsNameJobs
  <2> QED
    BY <2>1, <2>2 DEF IInv
<1>8. ASSUME NEW summary \in BOOLEAN, NEW critical \in BOOLEAN,
             EnqueueSpeech(summary, critical)
      PROVE  IInv'
  <2>1. /\ nextJobId' \in 1..(MaxJobs + 1)
        /\ nextJobId \in Nat
        /\ nextJobId' = nextJobId + 1
    BY <1>1, <1>8, VoiceAssumption DEF TypeOK, EnqueueSpeech, NextJobId
  <2>2. /\ queue' \in Seq(SpeechJobs)
        /\ Len(queue') <= MaxSpeechQueue
        /\ JobIdsNameJobs'
    <3>1. CASE ~QueueFull
      BY <1>8, <3>1, EnqueueKeepsInvariant
    <3>2. CASE QueueFull
      <4>1. queue' = queue
        BY <1>8, <3>2 DEF EnqueueSpeech
      <4>2. \A i \in DOMAIN queue : queue[i].id \in Nat
        BY <1>1, PlaceHoldsJob DEF SpeechJobs
      <4> QED
        BY <1>1, <2>1, <4>1, <4>2 DEF JobIdsNameJobs
    <3> QED
      BY <3>1, <3>2
  <2>3. /\ loadShed' \in BOOLEAN
        /\ UNCHANGED <<state, mic, wakePhrase, emergencyStop, combatSuppress,
                       remote, bargedIn>>
        /\ ~emergencyStop
        /\ state # "disabled" /\ state # "canceled"
    BY <1>1, <1>8, Zenon DEF TypeOK, EnqueueSpeech
  <2>4. TypeOK'
    BY <1>1, <2>1, <2>2, <2>3, Zenon DEF TypeOK
  <2>5. StoppedMeansSilent' /\ StateAgrees'
    BY <1>1, <2>3 DEF StoppedMeansSilent, StateAgrees
  <2> QED
    BY <2>2, <2>4, <2>5 DEF IInv
<1>9. ASSUME NEW id \in 1..MaxJobs, CancelJob(id) PROVE IInv'
  <2>1. /\ queue' \in Seq(SpeechJobs)
        /\ Len(queue') <= MaxSpeechQueue
        /\ JobIdsNameJobs'
        /\ emergencyStop => \A i \in DOMAIN queue' : queue'[i].cancelled
        /\ queue = <<>> => queue' = <<>>
    <3>1. /\ queue' = CancelledAt({i \in 1..Len(queue) : queue[i].id = id})
          /\ UNCHANGED nextJobId
      BY <1>9, CancelJobCancelsNamed DEF CancelJob
    <3> QED
      BY <3>1, CancellingKeepsInvariant
  <2>2. TypeOK'
    BY <1>1, <1>9, <2>1, Zenon DEF TypeOK, CancelJob, MicStates
  <2>3. StoppedMeansSilent' /\ StateAgrees'
    BY <1>1, <1>9, <2>1 DEF CancelJob, StoppedMeansSilent, StateAgrees
  <2> QED
    BY <2>1, <2>2, <2>3 DEF IInv
<1>10. CASE BargeIn
  <2>1. /\ queue' \in Seq(SpeechJobs)
        /\ Len(queue') <= MaxSpeechQueue
        /\ JobIdsNameJobs'
        /\ emergencyStop => \A i \in DOMAIN queue' : queue'[i].cancelled
        /\ queue = <<>> => queue' = <<>>
    <3>1. /\ queue' = CancelledAt({i \in 1..Len(queue) : ~queue[i].critical})
          /\ UNCHANGED nextJobId
      BY <1>10, BargeInCancelsNonCritical DEF BargeIn
    <3> QED
      BY <3>1, CancellingKeepsInvariant
  <2>2. TypeOK'
    BY <1>1, <1>10, <2>1, Zenon DEF TypeOK, BargeIn, MicStates
  <2>3. StoppedMeansSilent' /\ StateAgrees'
    BY <1>1, <1>10, <2>1 DEF BargeIn, StoppedMeansSilent, StateAgrees
  <2> QED
    BY <2>1, <2>2, <2>3 DEF IInv
<1>11. ASSUME NEW suppress \in BOOLEAN, SetCombatSuppress(suppress) PROVE IInv'
  <2>1. /\ queue' \in Seq(SpeechJobs)
        /\ Len(queue') <= MaxSpeechQueue
        /\ JobIdsNameJobs'
        /\ emergencyStop => \A i \in DOMAIN queue' : queue'[i].cancelled
        /\ queue = <<>> => queue' = <<>>
    <3> DEFINE Narration == {i \in 1..Len(queue) :
                               queue[i].summary /\ ~queue[i].critical}
    <3>1. UNCHANGED nextJobId
      BY <1>11 DEF SetCombatSuppress
    <3>2. CASE queue' = CancelledAt(Narration)
      BY <3>1, <3>2, CancellingKeepsInvariant
    <3>3. CASE queue' = queue
      BY <1>1, <3>1, <3>3 DEF JobIdsNameJobs, StoppedMeansSilent
    <3> QED
      BY <1>11, <3>2, <3>3, CombatCancelsNarration
  <2>2. TypeOK'
    BY <1>1, <1>11, <2>1, Zenon DEF TypeOK, SetCombatSuppress, MicStates
  <2>3. StoppedMeansSilent' /\ StateAgrees'
    BY <1>1, <1>11, <2>1 DEF SetCombatSuppress, StoppedMeansSilent, StateAgrees
  <2> QED
    BY <2>1, <2>2, <2>3 DEF IInv
<1>12. ASSUME NEW where \in {"local", "remote"}, SetWakePhrase(where) PROVE IInv'
  <2>1. TypeOK'
    BY <1>1, <1>12, Zenon DEF TypeOK, SetWakePhrase, VoiceStates, MicStates
  <2>2. StoppedMeansSilent' /\ StateAgrees' /\ JobIdsNameJobs'
    BY <1>1, <1>12 DEF SetWakePhrase, StoppedMeansSilent, StateAgrees, JobIdsNameJobs
  <2> QED
    BY <2>1, <2>2 DEF IInv
<1>13. ASSUME NEW policy \in RemotePolicies, SetRemotePolicy(policy) PROVE IInv'
  <2>1. TypeOK'
    BY <1>1, <1>13, Zenon DEF TypeOK, SetRemotePolicy, VoiceStates, MicStates
  <2>2. StoppedMeansSilent' /\ StateAgrees' /\ JobIdsNameJobs'
    BY <1>1, <1>13 DEF SetRemotePolicy, StoppedMeansSilent, StateAgrees, JobIdsNameJobs
  <2> QED
    BY <2>1, <2>2 DEF IInv
<1>14. ASSUME NEW i \in DOMAIN queue, SubmitRemote(i) PROVE IInv'
  <2>1. /\ queue' \in Seq(SpeechJobs)
        /\ Len(queue') = Len(queue)
        /\ DOMAIN queue' = DOMAIN queue
        /\ \A j \in DOMAIN queue : /\ queue'[j].id = queue[j].id
                                   /\ queue'[j].cancelled = queue[j].cancelled
    BY <1>14, ApprovalKeepsInvariant
  <2>2. TypeOK'
    BY <1>1, <1>14, <2>1, Zenon DEF TypeOK, SubmitRemote
  <2>3. JobIdsNameJobs'
    BY <1>1, <1>14, <2>1 DEF SubmitRemote, JobIdsNameJobs
  <2>4. StoppedMeansSilent'
    BY <1>1, <1>14, <2>1 DEF SubmitRemote, StoppedMeansSilent
  <2>5. StateAgrees'
    <3>1. queue # <<>>
      BY <1>1, EmptySeq
    <3> QED
      BY <1>1, <1>14, <3>1 DEF SubmitRemote, StateAgrees
  <2> QED
    BY <2>2, <2>3, <2>4, <2>5 DEF IInv
<1>15. CASE UNCHANGED vars
  BY <1>1, <1>15, Zenon
     DEF vars, IInv, TypeOK, StoppedMeansSilent, StateAgrees, JobIdsNameJobs
<1> QED
  BY <1>2, <1>3, <1>4, <1>5, <1>6, <1>7, <1>8, <1>9, <1>10, <1>11, <1>12,
     <1>13, <1>14, <1>15 DEF Next

-----------------------------------------------------------------------------
(* The theorems. *)

(* The inductive invariant holds in every reachable state. *)
THEOREM InvariantHolds == Spec => []IInv
BY InitIInv, NextIInv, PTL DEF Spec

(* Every variable keeps its type; the queue never outgrows                 *)
(* MAX_SPEECH_QUEUE.                                                       *)
THEOREM TypeCorrect == Spec => []TypeOK
<1>1. IInv => TypeOK
  BY DEF IInv
<1> QED
  BY <1>1, InvariantHolds, PTL

(* After the emergency stop no job that may be spoken is queued and the    *)
(* microphone does not listen, whatever is called afterwards; it shows     *)
(* BargeIn only if barge_in is.                                            *)
THEOREM StopIsSilent == Spec => []StoppedMeansSilent
<1>1. IInv => StoppedMeansSilent
  BY DEF IInv
<1> QED
  BY <1>1, InvariantHolds, PTL

(* Listening needs a state that allows it, a disabled companion holds no   *)
(* jobs, and the microphone of a disabled or canceled one shows it until   *)
(* barge_in is called.                                                     *)
THEOREM StateAndMicAgree == Spec => []StateAgrees
<1>1. IInv => StateAgrees
  BY DEF IInv
<1> QED
  BY <1>1, InvariantHolds, PTL

(* A job id means one job of the queue. *)
THEOREM IdsNameJobs == Spec => []JobIdsNameJobs
<1>1. IInv => JobIdsNameJobs
  BY DEF IInv
<1> QED
  BY <1>1, InvariantHolds, PTL

(* A step that cancels the jobs at the places S, none of them critical or  *)
(* all of them of one number, keeps critical speech.                       *)
LEMMA CancellingKeepsCritical ==
  ASSUME IInv, NEW S, queue' = CancelledAt(S), emergencyStop => emergencyStop',
         \/ \A i \in DOMAIN queue \cap S : ~queue[i].critical
         \/ \A i, j \in DOMAIN queue \cap S : i = j
         \/ emergencyStop'
  PROVE  KeepsCriticalSpeech
<1>1. /\ DOMAIN queue' = DOMAIN queue
      /\ \A i \in DOMAIN queue :
           /\ queue'[i].id = queue[i].id
           /\ queue[i].cancelled => queue'[i].cancelled
           /\ (queue'[i].cancelled /\ ~queue[i].cancelled) => i \in S
           /\ i \notin S => queue'[i] = queue[i]
  BY CancellingKeepsJobs DEF IInv, KeepsJobs
<1>2. ASSUME NEW i \in DOMAIN queue, queue'[i].cancelled, ~queue[i].cancelled,
             queue[i].critical, ~emergencyStop'
      PROVE  \A j \in DOMAIN queue : j # i => queue'[j] = queue[j]
  <2>1. i \in S
    BY <1>1, <1>2
  <2>2. \A j \in DOMAIN queue \cap S : j = i
    BY <1>2, <2>1
  <2> QED
    BY <1>1, <2>2
<1> QED
  BY <1>1, <1>2 DEF KeepsCriticalSpeech

(* Every step keeps critical speech. *)
LEMMA NextKeepsCritical == IInv /\ Next => KeepsCriticalSpeech
<1> SUFFICES ASSUME IInv, Next PROVE KeepsCriticalSpeech
  OBVIOUS
<1>1. ASSUME queue' = queue, emergencyStop' = emergencyStop
      PROVE  KeepsCriticalSpeech
  BY <1>1 DEF KeepsCriticalSpeech
<1>2. ASSUME SetReady \/ BeginListen \/ EndListen
             \/ (\E where \in {"local", "remote"} : SetWakePhrase(where))
             \/ (\E policy \in RemotePolicies : SetRemotePolicy(policy))
      PROVE  KeepsCriticalSpeech
  <2>1. queue' = queue /\ emergencyStop' = emergencyStop
    BY <1>2 DEF SetReady, BeginListen, EndListen, SetWakePhrase, SetRemotePolicy
  <2> QED
    BY <1>1, <2>1
<1>3. CASE SetDisabled \/ DegradeToText
  BY <1>3 DEF SetDisabled, DegradeToText, KeepsCriticalSpeech
<1>4. CASE EmergencyStop
  <2>1. emergencyStop'
    BY <1>4 DEF EmergencyStop
  <2> QED
    BY <1>4, <2>1, StopCancelsAll, CancellingKeepsCritical
<1>5. ASSUME NEW summary \in BOOLEAN, NEW critical \in BOOLEAN,
             EnqueueSpeech(summary, critical)
      PROVE  KeepsCriticalSpeech
  <2>1. emergencyStop' = emergencyStop
    BY <1>5 DEF EnqueueSpeech
  <2>2. CASE QueueFull
    BY <1>1, <1>5, <2>1, <2>2 DEF EnqueueSpeech
  <2>3. CASE ~QueueFull
    <3>1. /\ DOMAIN queue \subseteq DOMAIN queue'
          /\ \A i \in DOMAIN queue : queue'[i] = queue[i]
      BY <1>5, <2>3, EnqueueKeepsInvariant DEF KeepsJobs
    <3> QED
      BY <2>1, <3>1 DEF KeepsCriticalSpeech
  <2> QED
    BY <2>2, <2>3
<1>6. ASSUME NEW id \in 1..MaxJobs, CancelJob(id) PROVE KeepsCriticalSpeech
  <2> DEFINE Named == {i \in 1..Len(queue) : queue[i].id = id}
  <2>1. queue' = CancelledAt(Named) /\ emergencyStop' = emergencyStop
    BY <1>6, CancelJobCancelsNamed DEF CancelJob
  <2>2. \A i, j \in DOMAIN queue : queue[i].id = queue[j].id => i = j
    <3>1. /\ DOMAIN queue \subseteq Nat
          /\ \A i \in DOMAIN queue : queue[i].id \in Nat
      BY PlaceHoldsJob DEF IInv, SpeechJobs
    <3> QED
      BY <3>1 DEF IInv, JobIdsNameJobs
  <2>3. \A i, j \in DOMAIN queue \cap Named : i = j
    BY <2>2
  <2> QED
    BY <2>1, <2>3, CancellingKeepsCritical
<1>7. CASE BargeIn
  <2> DEFINE S == {i \in 1..Len(queue) : ~queue[i].critical}
  <2>1. queue' = CancelledAt(S) /\ emergencyStop' = emergencyStop
    BY <1>7, BargeInCancelsNonCritical DEF BargeIn
  <2>2. \A i \in DOMAIN queue \cap S : ~queue[i].critical
    OBVIOUS
  <2> QED
    BY <2>1, <2>2, CancellingKeepsCritical
<1>8. ASSUME NEW suppress \in BOOLEAN, SetCombatSuppress(suppress)
      PROVE  KeepsCriticalSpeech
  <2> DEFINE S == {i \in 1..Len(queue) : queue[i].summary /\ ~queue[i].critical}
  <2>1. emergencyStop' = emergencyStop /\ (queue' = CancelledAt(S) \/ queue' = queue)
    BY <1>8, CombatCancelsNarration DEF SetCombatSuppress
  <2>2. \A i \in DOMAIN queue \cap S : ~queue[i].critical
    OBVIOUS
  <2> QED
    BY <1>1, <2>1, <2>2, CancellingKeepsCritical
<1>9. ASSUME NEW i \in DOMAIN queue, SubmitRemote(i) PROVE KeepsCriticalSpeech
  <2>1. emergencyStop' = emergencyStop
    BY <1>9 DEF SubmitRemote
  <2>2. /\ DOMAIN queue' = DOMAIN queue
        /\ \A j \in DOMAIN queue : /\ queue'[j].id = queue[j].id
                                   /\ queue'[j].cancelled = queue[j].cancelled
    BY <1>9, ApprovalKeepsInvariant
  <2> QED
    BY <2>1, <2>2 DEF KeepsCriticalSpeech
<1> QED
  BY <1>2, <1>3, <1>4, <1>5, <1>6, <1>7, <1>8, <1>9 DEF Next

(* No step revives a cancelled job, and a critical one is only cancelled   *)
(* by its id or by the emergency stop, which is final.                     *)
THEOREM CriticalSpeechIsKept == Spec => CriticalSpeechKept
<1>1. IInv /\ [Next]_vars => [KeepsCriticalSpeech]_vars
  BY NextKeepsCritical
<1> QED
  BY <1>1, InvariantHolds, PTL DEF Spec, CriticalSpeechKept

=============================================================================
