--------------------------- MODULE VoiceCompanion ---------------------------
(***************************************************************************)
(* VoiceCompanion of wire-voice: the companion's state, the microphone,    *)
(* the bounded queue of speech jobs, wake phrase and remote policy.  The   *)
(* user, the game and the speech workers call it in any order.             *)
(***************************************************************************)
EXTENDS Integers, Sequences

CONSTANTS
  MaxSpeechQueue, \* MAX_SPEECH_QUEUE
  MaxJobs         \* bound: speech jobs offered

ASSUME VoiceAssumption == MaxSpeechQueue \in Nat /\ MaxJobs \in Nat

VARIABLES
  state,
  mic,
  wakePhrase,     \* "none", or where the provider of the wake phrase is
  queue,
  emergencyStop,
  loadShed,
  combatSuppress,
  remote,         \* RemoteSpeechPolicy
  nextJobId,
  bargedIn        \* barge_in was called since the voice was last disabled
                  \* or stopped (history)

vars == <<state, mic, wakePhrase, queue, emergencyStop, loadShed,
          combatSuppress, remote, nextJobId, bargedIn>>

(* The states the code sets. *)
VoiceStates == {"loading", "ready", "disabled", "degraded", "canceled"}
MicStates == {"off", "listening", "barge-in", "error", "disabled"}

(* A job is told by its number; kinds other than summaries are alike. *)
SpeechJobs == [id : 1..MaxJobs, summary : BOOLEAN, critical : BOOLEAN,
               remoteApproved : BOOLEAN, cancelled : BOOLEAN]

(* consented: provider, privacy policy, redaction and a receipt that is    *)
(* not revoked.                                                            *)
RemotePolicies == [localOnly : BOOLEAN, consented : BOOLEAN]

TypeOK ==
  /\ state \in VoiceStates
  /\ mic \in MicStates
  /\ wakePhrase \in {"none", "local", "remote"}
  /\ queue \in Seq(SpeechJobs)
  /\ Len(queue) <= MaxSpeechQueue
  /\ emergencyStop \in BOOLEAN
  /\ loadShed \in BOOLEAN
  /\ combatSuppress \in BOOLEAN
  /\ remote \in RemotePolicies
  /\ nextJobId \in 1..(MaxJobs + 1)
  /\ bargedIn \in BOOLEAN

Init ==
  /\ state = "loading"
  /\ mic = "off"
  /\ wakePhrase = "none"
  /\ queue = <<>>
  /\ emergencyStop = FALSE
  /\ loadShed = FALSE
  /\ combatSuppress = FALSE
  /\ remote = [localOnly |-> TRUE, consented |-> FALSE]
  /\ nextJobId = 1
  /\ bargedIn = FALSE

-----------------------------------------------------------------------------
(* State and microphone. *)

SetReady ==
  /\ state' = "ready"
  /\ UNCHANGED <<mic, wakePhrase, queue, emergencyStop, loadShed,
                 combatSuppress, remote, nextJobId, bargedIn>>

(* Mutant: the microphone keeps listening, the queue its jobs. *)
SetDisabledOnly ==
  /\ state' = "disabled"
  /\ UNCHANGED <<mic, wakePhrase, queue, emergencyStop, loadShed,
                 combatSuppress, remote, nextJobId, bargedIn>>

SetDisabled ==
  /\ state' = "disabled"
  /\ mic' = "disabled"
  /\ queue' = <<>>
  /\ bargedIn' = FALSE
  /\ UNCHANGED <<wakePhrase, emergencyStop, loadShed, combatSuppress, remote,
                 nextJobId>>

DegradeToText ==
  /\ state' = "degraded"
  /\ mic' = "error"
  /\ queue' = <<>>
  /\ UNCHANGED <<wakePhrase, emergencyStop, loadShed, combatSuppress, remote,
                 nextJobId, bargedIn>>

(* The queue with the chosen jobs cancelled. *)
Cancelling(Chosen(_)) ==
  [i \in 1..Len(queue) |->
     IF Chosen(queue[i]) THEN [queue[i] EXCEPT !.cancelled = TRUE]
                         ELSE queue[i]]

EmergencyStop ==
  /\ emergencyStop' = TRUE
  /\ state' = "canceled"
  /\ mic' = "off"
  /\ LET All(job) == TRUE IN queue' = Cancelling(All)
  /\ bargedIn' = FALSE
  /\ UNCHANGED <<wakePhrase, loadShed, combatSuppress, remote, nextJobId>>

(* Mutant: a microphone that was made ready again ignores the stop. *)
BeginListenWhenReady ==
  /\ state \in {"ready", "degraded"}
  /\ mic' = "listening"
  /\ UNCHANGED <<state, wakePhrase, queue, emergencyStop, loadShed,
                 combatSuppress, remote, nextJobId, bargedIn>>

BeginListen ==
  /\ ~emergencyStop
  /\ state \in {"ready", "degraded"}
  /\ mic' = "listening"
  /\ UNCHANGED <<state, wakePhrase, queue, emergencyStop, loadShed,
                 combatSuppress, remote, nextJobId, bargedIn>>

EndListen ==
  /\ mic = "listening"
  /\ mic' = "off"
  /\ UNCHANGED <<state, wakePhrase, queue, emergencyStop, loadShed,
                 combatSuppress, remote, nextJobId, bargedIn>>

-----------------------------------------------------------------------------
(* Speech jobs. *)

NewJob(summary, critical) ==
  [id |-> nextJobId, summary |-> summary, critical |-> critical,
   remoteApproved |-> FALSE, cancelled |-> FALSE]

(* The number is used up by a job that is refused because the queue is     *)
(* full, too.                                                              *)
NextJobId == nextJobId + 1

(* Mutant: off by one at the limit. *)
QueueOverfull == Len(queue) > MaxSpeechQueue

QueueFull == Len(queue) >= MaxSpeechQueue

EnqueueSpeech(summary, critical) ==
  /\ nextJobId <= MaxJobs
  /\ ~emergencyStop
  /\ state \notin {"disabled", "canceled"}
  /\ nextJobId' = NextJobId
  /\ \/ /\ ~QueueFull
        /\ queue' = Append(queue, NewJob(summary, critical))
        /\ UNCHANGED loadShed
     \/ /\ QueueFull
        /\ loadShed' = (loadShed \/ ~critical)
        /\ UNCHANGED queue
  /\ UNCHANGED <<state, mic, wakePhrase, emergencyStop, combatSuppress, remote,
                 bargedIn>>

CancelJob(id) ==
  /\ \E i \in DOMAIN queue : queue[i].id = id
  /\ LET Named(job) == job.id = id IN queue' = Cancelling(Named)
  /\ UNCHANGED <<state, mic, wakePhrase, emergencyStop, loadShed,
                 combatSuppress, remote, nextJobId, bargedIn>>

(* Mutant: barge-in silences everything. *)
AnyJob(job) == TRUE

NonCritical(job) == ~job.critical

(* barge_in looks neither at the state nor at the emergency stop. *)
BargeIn ==
  /\ queue' = Cancelling(NonCritical)
  /\ mic' = "barge-in"
  /\ bargedIn' = TRUE
  /\ UNCHANGED <<state, wakePhrase, emergencyStop, loadShed, combatSuppress,
                 remote, nextJobId>>

SetCombatSuppress(suppress) ==
  /\ combatSuppress' = suppress
  /\ LET Narration(job) == job.summary /\ NonCritical(job)
     IN  queue' = IF suppress THEN Cancelling(Narration) ELSE queue
  /\ UNCHANGED <<state, mic, wakePhrase, emergencyStop, loadShed, remote,
                 nextJobId, bargedIn>>

-----------------------------------------------------------------------------
(* Wake phrase and remote speech. *)

(* Consented, and the provider local unless the policy allows others. *)
SetWakePhrase(where) ==
  /\ remote.localOnly => where = "local"
  /\ wakePhrase' = where
  /\ UNCHANGED <<state, mic, queue, emergencyStop, loadShed, combatSuppress,
                 remote, nextJobId, bargedIn>>

SetRemotePolicy(policy) ==
  /\ remote' = policy
  /\ UNCHANGED <<state, mic, wakePhrase, queue, emergencyStop, loadShed,
                 combatSuppress, nextJobId, bargedIn>>

(* The first job with the id is approved. *)
SubmitRemote(i) ==
  /\ ~remote.localOnly
  /\ remote.consented
  /\ \A j \in 1..(i - 1) : queue[j].id # queue[i].id
  /\ queue' = [queue EXCEPT ![i].remoteApproved = TRUE]
  /\ UNCHANGED <<state, mic, wakePhrase, emergencyStop, loadShed,
                 combatSuppress, remote, nextJobId, bargedIn>>

Next ==
  \/ SetReady \/ SetDisabled \/ DegradeToText \/ EmergencyStop
  \/ BeginListen \/ EndListen
  \/ \E summary, critical \in BOOLEAN : EnqueueSpeech(summary, critical)
  \/ \E id \in 1..MaxJobs : CancelJob(id)
  \/ BargeIn
  \/ \E suppress \in BOOLEAN : SetCombatSuppress(suppress)
  \/ \E where \in {"local", "remote"} : SetWakePhrase(where)
  \/ \E policy \in RemotePolicies : SetRemotePolicy(policy)
  \/ \E i \in DOMAIN queue : SubmitRemote(i)

Spec == Init /\ [][Next]_vars

-----------------------------------------------------------------------------
(* Properties. *)

(* "Cancels all queued speech and denies new work": once the emergency     *)
(* stop was engaged, whatever is called afterwards (set_ready too), no job *)
(* that may still be spoken is in the queue and begin_listen opens no      *)
(* microphone.  The runbook's mic `off` may become Disabled or Error by    *)
(* set_disabled or degrade_to_text; and BargeIn, but only by a barge_in    *)
(* called after the stop, since it asks for neither the stop nor the state. *)
StoppedMeansSilent ==
  emergencyStop =>
    /\ \A i \in DOMAIN queue : queue[i].cancelled
    /\ mic # "listening"
    /\ mic = "barge-in" => bargedIn

(* The microphone listens only in a state that allows it; a disabled       *)
(* companion has nothing left to say and shows its microphone `disabled`,  *)
(* a canceled one `off`, until barge_in, called there too, says otherwise. *)
StateAgrees ==
  /\ mic = "listening" => state \in {"ready", "degraded"}
  /\ state = "disabled" =>
       /\ queue = <<>>
       /\ mic = "disabled" \/ (bargedIn /\ mic = "barge-in")
  /\ state = "canceled" => mic = "off" \/ (bargedIn /\ mic = "barge-in")

(* Numbers name jobs: the queue is in the order of arrival and no number   *)
(* occurs twice, so that cancel_job and submit_remote mean one job.        *)
JobIdsNameJobs ==
  /\ \A i, j \in DOMAIN queue : i < j => queue[i].id < queue[j].id
  /\ \A i \in DOMAIN queue : queue[i].id < nextJobId

(* What a step does to speech that matters. *)
KeepsCriticalSpeech ==
  /\ queue' = <<>> \/ \A i \in DOMAIN queue :
       /\ i \in DOMAIN queue'
       /\ queue'[i].id = queue[i].id
       /\ queue[i].cancelled => queue'[i].cancelled
       /\ (queue'[i].cancelled /\ ~queue[i].cancelled /\ queue[i].critical)
            => \/ emergencyStop'
               \/ \A j \in DOMAIN queue : j # i => queue'[j] = queue[j]
  /\ emergencyStop => emergencyStop'

(* A job leaves the queue only when it is emptied; a cancelled one is      *)
(* never revived; and a critical one is cancelled by name or by the        *)
(* emergency stop alone, not by barge-in or combat; the stop is final.     *)
CriticalSpeechKept == [][KeepsCriticalSpeech]_vars

=============================================================================
