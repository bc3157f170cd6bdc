--------------------------- MODULE ActionGateway ----------------------------
(***************************************************************************)
(* The deterministic Action Proposal gateway (wire-actions): every         *)
(* automated command is proposed, evaluated against the context, the       *)
(* command database and the emergency stop, paced and sent.  The callers   *)
(* (AI, autopilot, voice, macro, ... ) hold the proposals they were given  *)
(* and may come back with them at any later time, in any order, more than  *)
(* once, and with the emergency stop pulled in between.                    *)
(***************************************************************************)
EXTENDS CommandPolicy, FiniteSets

CONSTANTS
  Commands,       \* normalized commands
  RuleLists,      \* the command databases a gateway may be built with
  GateQueueCapacity,  \* capacity of the VisibleQueue
  GateContexts,   \* the contexts callers evaluate proposals in
  StartTime,      \* now_ms() at construction
  MaxTime,        \* bound: when the run ends
  MaxSkew,        \* bound: how far the wall clock is set back
  MaxProposals    \* bound: proposals made

(* GateContext, without the fields that nothing reads: source_visible and  *)
(* emergency_stop_engaged.                                                 *)
Contexts == [connected : BOOLEAN, automation : BOOLEAN,
             routingStable : BOOLEAN, injection : BOOLEAN]

ASSUME GatewayAssumption ==
  /\ GateQueueCapacity \in Nat
  /\ GateContexts \subseteq Contexts
  /\ MaxTime \in Nat
  /\ MaxSkew \in Nat
  /\ StartTime \in Nat /\ StartTime > MaxSkew
  /\ MaxProposals \in Nat

VARIABLES
  rules,          \* db
  tempo,          \* tempo
  queue,          \* queue.entries, as proposal ids
  stopEngaged,    \* emergency_stop.engaged
  seq,            \* seq, the last proposal id
  time,           \* the time that really passes
  skew,           \* how far the wall clock was set back
  sends           \* history: the commands sent, in order

gatewayVars == <<rules, tempo, queue, stopEngaged, seq, time, skew, sends>>

(* now_ms(): SystemTime, which is not monotonic. *)
Now == time - skew

Args == {"good", "bad"}

Proposals == [id : 1..MaxProposals, command : Commands, args : Args,
              confirm : BOOLEAN]

(* What the history keeps of a send: the proposal, when and by whom it was *)
(* sent, and whether the emergency stop was engaged then.                  *)
SendRecords == [proposal : Proposals, at : Nat, stopped : BOOLEAN,
                by : {"gateway", "auto", "confirmed"}]

GatewayTypeOK ==
  /\ rules \in RuleLists
  /\ tempo \in [lastSend : Nat, start : Nat, count : 0..MaxBurst]
  /\ queue \in Seq(1..MaxProposals)
  /\ stopEngaged \in BOOLEAN
  /\ seq \in 0..MaxProposals
  /\ time \in Nat
  /\ skew \in 0..MaxSkew
  /\ sends \in Seq(SendRecords)

GatewayInit ==
  /\ rules \in RuleLists
  /\ tempo = NewTempo
  /\ queue = <<>>
  /\ stopEngaged = FALSE
  /\ seq = 0
  /\ time = StartTime
  /\ skew = 0
  /\ sends = <<>>

-----------------------------------------------------------------------------
(* The gateway's operations, as used by its callers. *)

(* propose on a non-empty suggestion of legal length, with a database that *)
(* is ready; the refusals change nothing.                                  *)
NewProposal(command, args) ==
  [id |-> seq + 1, command |-> command, args |-> args,
   confirm |-> EvaluateCommand(rules, command, args).confirm]

(* Mutant: the emergency stop is not looked at. *)
DeniesIgnoringStop(p, ctx) ==
  LET policy == EvaluateCommand(rules, p.command, p.args) IN
    \/ ~ctx.connected
    \/ ~ctx.automation
    \/ ctx.injection
    \/ ~ctx.routingStable
    \/ policy.denied
    \/ ~policy.argOk

(* evaluate *)
Denies(p, ctx) ==
  LET policy == EvaluateCommand(rules, p.command, p.args) IN
    \/ stopEngaged
    \/ ~ctx.connected
    \/ ~ctx.automation
    \/ ctx.injection
    \/ ~ctx.routingStable
    \/ policy.denied
    \/ ~policy.argOk

NeedsConfirmation(p) ==
  p.confirm \/ EvaluateCommand(rules, p.command, p.args).confirm

Approves(p, ctx) == ~Denies(p, ctx) /\ ~NeedsConfirmation(p)

Sent(p, by) ==
  [proposal |-> p, at |-> time, stopped |-> stopEngaged, by |-> by]

(* approve_and_send answers Now: approved, and within the pacing. *)
GatewaySends(p, ctx) == Approves(p, ctx) /\ SendsNow(tempo, Now)

(* approve_and_send, where ok is the outcome of the caller's send. *)
GatewaySend(p, ctx, ok, by) ==
  /\ tempo' = IF Approves(p, ctx) THEN TempoAfter(tempo, Now) ELSE tempo
  /\ sends' = IF GatewaySends(p, ctx) /\ ok
                THEN Append(sends, Sent(p, by))
                ELSE sends
  /\ UNCHANGED <<rules, queue, stopEngaged, seq, time, skew>>

(* engage_emergency_stop cancels the visible queue. *)
EngageStop == stopEngaged' = TRUE /\ queue' = <<>>

ReleaseStop == stopEngaged' = FALSE /\ UNCHANGED queue

Tick ==
  /\ time < MaxTime
  /\ time' = time + 1
  /\ UNCHANGED <<rules, tempo, queue, stopEngaged, seq, skew, sends>>

(* The wall clock is set back. *)
SetClockBack ==
  /\ skew < MaxSkew
  /\ skew' = skew + 1
  /\ UNCHANGED <<rules, tempo, queue, stopEngaged, seq, time, sends>>

-----------------------------------------------------------------------------
(* Properties of every user of the gateway. *)

(* The sends that the pacing governs within a span of the given length. *)
PacedWithin(from, length) ==
  {n \in DOMAIN sends : /\ sends[n].by # "confirmed"
                        /\ from <= sends[n].at
                        /\ sends[n].at < from + length}

(* should_send allows max_burst sends per window and windows start at      *)
(* least burst_window_ms apart, so that as long as the wall clock was not  *)
(* set back no span of that length, wherever it starts, holds more than    *)
(* two windows' worth.                                                     *)
BurstBudget ==
  skew = 0 => \A n \in DOMAIN sends :
    Cardinality(PacedWithin(sends[n].at, BurstWindow)) <= 2 * MaxBurst

=============================================================================
