-------------------------- MODULE SessionScheduler --------------------------
(***************************************************************************)
(* The multi-session scheduler of wire-headless: sessions with bounded     *)
(* queues, served round robin.  Commands are interchangeable here, so a    *)
(* queue is its length and a session may enqueue for ever.                 *)
(***************************************************************************)
EXTENDS Integers, Sequences, FiniteSets

CONSTANTS
  Sessions,       \* session ids
  MaxSessions,    \* MAX_SESSIONS
  QueueCapacity   \* SESSION_QUEUE_CAPACITY

ASSUME SchedulerAssumption ==
  /\ MaxSessions \in Nat
  /\ QueueCapacity \in Nat \ {0}

VARIABLES
  sessions,       \* the keys of the map sessions
  roundRobin,     \* round_robin
  state,          \* the state of a session of the map
  backlog,        \* the length of its queue
  stopped,        \* emergency_stop
  bypassed        \* history: commands of other sessions served while this
                  \* one was waiting, counted up to MaxSessions

vars == <<sessions, roundRobin, state, backlog, stopped, bypassed>>

(* The states enqueue and set_state tell apart; "loading" stands for every *)
(* one that is neither Ready nor Canceled.                                 *)
States == {"loading", "ready", "canceled"}

TypeOK ==
  /\ sessions \subseteq Sessions
  /\ roundRobin \in Seq(Sessions)
  /\ state \in [Sessions -> States]
  /\ backlog \in [Sessions -> 0..QueueCapacity]
  /\ stopped \in BOOLEAN
  /\ bypassed \in [Sessions -> Nat]

Init ==
  /\ sessions = {}
  /\ roundRobin = <<>>
  /\ state = [s \in Sessions |-> "loading"]
  /\ backlog = [s \in Sessions |-> 0]
  /\ stopped = FALSE
  /\ bypassed = [s \in Sessions |-> 0]

(* The map and the rotation are two structures; create_session fills both. *)
CreateSession(s) ==
  /\ ~stopped
  /\ Cardinality(sessions) < MaxSessions
  /\ s \notin sessions
  /\ sessions' = sessions \cup {s}
  /\ roundRobin' = Append(roundRobin, s)
  /\ state' = [state EXCEPT ![s] = "loading"]
  /\ UNCHANGED <<backlog, stopped, bypassed>>

(* Mutant: the emergency stop is not looked at. *)
SetStateAnyTime(s, new) ==
  /\ s \in sessions
  /\ state' = [state EXCEPT ![s] = new]
  /\ UNCHANGED <<sessions, roundRobin, backlog, stopped, bypassed>>

SetState(s, new) ==
  /\ stopped => new = "canceled"
  /\ s \in sessions
  /\ state' = [state EXCEPT ![s] = new]
  /\ UNCHANGED <<sessions, roundRobin, backlog, stopped, bypassed>>

(* Mutant: off by one at the limit. *)
EnqueueOverfull(s) ==
  /\ ~stopped
  /\ s \in sessions
  /\ state[s] = "ready"
  /\ backlog[s] <= QueueCapacity
  /\ backlog' = [backlog EXCEPT ![s] = @ + 1]
  /\ UNCHANGED <<sessions, roundRobin, state, stopped, bypassed>>

(* enqueue; command ids are fresh, so that push never finds a duplicate. *)
Enqueue(s) ==
  /\ ~stopped
  /\ s \in sessions
  /\ state[s] = "ready"
  /\ backlog[s] < QueueCapacity
  /\ backlog' = [backlog EXCEPT ![s] = @ + 1]
  /\ UNCHANGED <<sessions, roundRobin, state, stopped, bypassed>>

(* The order after the first n ids were moved to the back one by one. *)
Rotated(n) ==
  SubSeq(roundRobin, n + 1, Len(roundRobin)) \o SubSeq(roundRobin, 1, n)

(* Mutant: the session that was served keeps its place. *)
UnrotatedAfterServe(n) ==
  SubSeq(roundRobin, n, Len(roundRobin)) \o SubSeq(roundRobin, 1, n - 1)

(* Mutant: an id without work is taken off the front and not put back. *)
IdleLostAfterServe(n) ==
  SubSeq(roundRobin, n + 1, Len(roundRobin)) \o SubSeq(roundRobin, n, n)

(* The order after serving the n-th session. *)
OrderAfterServe(n) == Rotated(n)

OnceMore(count) == IF count < MaxSessions THEN count + 1 ELSE count

(* The n-th id of the rotation is found in the map and has a command. *)
HasWork(n) == roundRobin[n] \in sessions /\ backlog[roundRobin[n]] > 0

(* serve_round reaches the n-th session, the first with work, serves one   *)
(* command of it and ends the round.  It does not look at the session's    *)
(* state.                                                                  *)
Serve(n) ==
  /\ ~stopped
  /\ HasWork(n)
  /\ \A m \in 1..(n - 1) : ~HasWork(m)
  /\ LET s == roundRobin[n] IN
       /\ backlog' = [backlog EXCEPT ![s] = @ - 1]
       /\ bypassed' = [t \in Sessions |->
                         IF t = s \/ backlog[t] = 0 THEN 0
                                                    ELSE OnceMore(bypassed[t])]
  /\ roundRobin' = OrderAfterServe(n)
  /\ UNCHANGED <<sessions, state, stopped>>

(* A round that finds no work goes once around; a stopped one moves one    *)
(* session to the back and ends.                                           *)
ServeNothing ==
  /\ roundRobin # <<>>
  /\ stopped \/ \A n \in DOMAIN roundRobin : ~HasWork(n)
  /\ roundRobin' = IF stopped THEN Rotated(1) ELSE roundRobin
  /\ UNCHANGED <<sessions, state, backlog, stopped, bypassed>>

ServeRound == ServeNothing \/ \E n \in DOMAIN roundRobin : Serve(n)

EmergencyStop ==
  /\ stopped' = TRUE
  /\ state' = [s \in Sessions |->
                 IF s \in sessions THEN "canceled" ELSE state[s]]
  /\ UNCHANGED <<sessions, roundRobin, backlog, bypassed>>

Next ==
  \/ \E s \in Sessions :
       \/ CreateSession(s)
       \/ \E new \in States : SetState(s, new)
       \/ Enqueue(s)
  \/ ServeNothing
  \/ \E n \in DOMAIN roundRobin : Serve(n)
  \/ EmergencyStop

Spec == Init /\ [][Next]_vars

(* The host keeps calling serve_round. *)
FairSpec == Spec /\ WF_vars(ServeRound)

-----------------------------------------------------------------------------
(* Properties. *)

(* The rotation and the map agree: each session of the map is in the       *)
(* rotation exactly once and nothing else is, so that no round loses an    *)
(* idle session, reaches one twice or looks for one that does not exist.   *)
RotationComplete ==
  /\ {roundRobin[n] : n \in DOMAIN roundRobin} = sessions
  /\ \A m, n \in DOMAIN roundRobin : roundRobin[m] = roundRobin[n] => m = n
  /\ Len(roundRobin) <= MaxSessions
  /\ \A s \in Sessions : backlog[s] > 0 => s \in sessions

(* "one busy world cannot starve another": a session with queued work is   *)
(* passed over at most once by each other session.                         *)
BypassBounded ==
  \A s \in Sessions : backlog[s] > 0 => bypassed[s] < Len(roundRobin)

(* The emergency stop is final: every session stays canceled, and nothing  *)
(* is queued or served any more.                                           *)
StopIsFinal ==
  [][stopped => /\ backlog' = backlog
                /\ stopped'
                /\ \A s \in sessions : state'[s] = "canceled"]_vars

(* Queued work is served, whatever the other sessions enqueue, unless the  *)
(* emergency stop is engaged.                                              *)
WorkIsServed ==
  \A s \in Sessions : (bypassed[s] > 0) ~> (bypassed[s] = 0 \/ stopped)

=============================================================================
