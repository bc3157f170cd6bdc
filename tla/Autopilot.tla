----------------------------- MODULE Autopilot ------------------------------
(***************************************************************************)
(* The opt-in guarded autopilot (wire-autopilot), with the gateway it owns.*)
(* A suggestion becomes a visible pending proposal; it leaves the queue by *)
(* an explicit confirmation, by an allowlisted auto-send, by a cancel, or  *)
(* with everything else when the autopilot is disabled or the emergency    *)
(* stop engaged.  A proposal that needs confirmation is sent by the        *)
(* autopilot itself, past the gateway.                                     *)
(***************************************************************************)
EXTENDS ActionGateway

CONSTANTS
  Modes,          \* the modes an engine may be configured with
  Allowlist,      \* config.allowlist
  Capacity,       \* config.queue_capacity
  RateCap,        \* config.max_actions_per_window
  RateWindow      \* config.window_ms

ASSUME AutopilotAssumption ==
  /\ Modes \subseteq {"disabled", "confirm-every", "allowlist-auto"}
  /\ Capacity \in Nat
  /\ RateCap \in Nat
  /\ RateWindow \in Nat

VARIABLES
  mode,           \* config.mode
  active,         \* active_profile is the configured profile
  stale,          \* stale is set
  pending,        \* pending
  windowStart,    \* window_start_ms
  windowCount,    \* window_count
  outcome,        \* audit: what became of a proposal, by its id
  bulkCancelled,  \* audit: proposals cancelled by "*" entries
  accepted        \* history: when proposals were accepted

autopilotVars == <<mode, active, stale, pending, windowStart, windowCount,
                   outcome, bulkCancelled, accepted>>
vars == <<gatewayVars, autopilotVars>>

Outcomes == {"none", "denied", "sent", "paced", "send-failed", "cancelled"}

TypeOK ==
  /\ GatewayTypeOK
  /\ mode \in Modes
  /\ active \in BOOLEAN
  /\ stale \in BOOLEAN
  /\ pending \in Seq(Proposals)
  /\ windowStart \in Nat
  /\ windowCount \in 0..RateCap
  /\ outcome \in [1..MaxProposals -> Outcomes]
  /\ bulkCancelled \in 0..MaxProposals
  /\ accepted \in Seq(Nat)

Init ==
  /\ GatewayInit
  /\ mode \in Modes
  /\ active = FALSE
  /\ stale = FALSE
  /\ pending = <<>>
  /\ windowStart = 0
  /\ windowCount = 0
  /\ outcome = [id \in 1..MaxProposals |-> "none"]
  /\ bulkCancelled = 0
  /\ accepted = <<>>

WithoutAt(s, n) == [i \in 1..(Len(s) - 1) |-> IF i < n THEN s[i] ELSE s[i + 1]]

-----------------------------------------------------------------------------

(* enable, for the configured profile. *)
Enable ==
  /\ mode # "disabled"
  /\ active' = TRUE
  /\ stale' = FALSE
  /\ UNCHANGED <<gatewayVars, mode, pending, windowStart, windowCount,
                 outcome, bulkCancelled, accepted>>

(* Mutant: the queue survives. *)
KeepPending == UNCHANGED <<pending, bulkCancelled>>

(* pending.clear() and its audit entry. *)
CancelPending ==
  /\ bulkCancelled' = bulkCancelled + Len(pending)
  /\ pending' = <<>>

Disable ==
  /\ CancelPending
  /\ active' = FALSE
  /\ stale' = FALSE
  /\ UNCHANGED <<gatewayVars, mode, windowStart, windowCount, outcome,
                 accepted>>

SetStale ==
  /\ stale' = TRUE
  /\ UNCHANGED <<gatewayVars, mode, active, pending, windowStart, windowCount,
                 outcome, bulkCancelled, accepted>>

ClearStale ==
  /\ stale' = FALSE
  /\ UNCHANGED <<gatewayVars, mode, active, pending, windowStart, windowCount,
                 outcome, bulkCancelled, accepted>>

(* roll_window *)
WindowRolls == Elapsed(Now, windowStart) >= RateWindow

CountNow == IF WindowRolls THEN 0 ELSE windowCount

RollWindow == windowStart' = IF WindowRolls THEN Now ELSE windowStart

(* propose refuses by the rate limit or the full queue: the window has     *)
(* been rolled all the same.                                               *)
ProposeRefused ==
  /\ CountNow >= RateCap \/ Len(pending) >= Capacity
  /\ RollWindow
  /\ windowCount' = CountNow
  /\ UNCHANGED <<gatewayVars, pending, outcome, accepted>>

(* The same for a suggestion that gateway.propose rejects: empty, too long *)
(* or without a command.                                                   *)
ProposeInvalid ==
  /\ CountNow < RateCap
  /\ Len(pending) < Capacity
  /\ RollWindow
  /\ windowCount' = CountNow
  /\ UNCHANGED <<gatewayVars, pending, outcome, accepted>>

ProposeDenied(p, ctx) ==
  /\ CountNow < RateCap
  /\ Len(pending) < Capacity
  /\ Denies(p, ctx)
  /\ seq' = seq + 1
  /\ RollWindow
  /\ windowCount' = CountNow
  /\ outcome' = [outcome EXCEPT ![p.id] = "denied"]
  /\ UNCHANGED <<rules, tempo, queue, stopEngaged, time, skew, sends, pending,
                 accepted>>

(* Mutant: the gate is not asked when a proposal is queued. *)
ProposeUngated(p, ctx) ==
  /\ CountNow < RateCap
  /\ Len(pending) < Capacity
  /\ seq' = seq + 1
  /\ RollWindow
  /\ windowCount' = CountNow + 1
  /\ pending' = Append(pending, p)
  /\ accepted' = Append(accepted, time)
  /\ UNCHANGED <<rules, tempo, queue, stopEngaged, time, skew, sends, outcome>>

(* Mutant: the rate counter is not incremented. *)
ProposeUncounted(p, ctx) ==
  /\ CountNow < RateCap
  /\ Len(pending) < Capacity
  /\ ~Denies(p, ctx)
  /\ seq' = seq + 1
  /\ RollWindow
  /\ windowCount' = CountNow
  /\ pending' = Append(pending, p)
  /\ accepted' = Append(accepted, time)
  /\ UNCHANGED <<rules, tempo, queue, stopEngaged, time, skew, sends, outcome>>

ProposeAccepted(p, ctx) ==
  /\ CountNow < RateCap
  /\ Len(pending) < Capacity
  /\ ~Denies(p, ctx)
  /\ seq' = seq + 1
  /\ RollWindow
  /\ windowCount' = CountNow + 1
  /\ pending' = Append(pending, p)
  /\ accepted' = Append(accepted, time)
  /\ UNCHANGED <<rules, tempo, queue, stopEngaged, time, skew, sends, outcome>>

(* propose, for the active profile. *)
Propose(command, args, ctx) ==
  /\ seq < MaxProposals
  /\ mode # "disabled"
  /\ active
  /\ ~stale
  /\ LET p == NewProposal(command, args) IN
       \/ ProposeRefused
       \/ ProposeInvalid
       \/ ProposeDenied(p, ctx)
       \/ ProposeAccepted(p, ctx)
  /\ UNCHANGED <<mode, active, stale, bulkCancelled>>

-----------------------------------------------------------------------------
(* Sends. *)

(* Mutant: a paced proposal stays in the queue, and so does a sent one. *)
LeaveAt(n) == UNCHANGED pending

RemoveAt(n) == pending' = WithoutAt(pending, n)

(* The audit entry of a send through the gateway follows the tempo         *)
(* decision alone: "sent" for Now, "paced" for every Wait.                 *)
AuditGatewaySend(p, ctx) ==
  outcome' = [outcome EXCEPT ![p.id] =
                IF GatewaySends(p, ctx) THEN "sent" ELSE "paced"]

(* confirm_and_send of a proposal the gateway approved. *)
ConfirmApproved(n, ctx, ok) ==
  LET p == pending[n] IN
    /\ ~p.confirm
    /\ RemoveAt(n)
    /\ GatewaySend(p, ctx, ok, "gateway")
    /\ AuditGatewaySend(p, ctx)

(* confirm_and_send of a proposal that needed confirmation: the autopilot  *)
(* sends it itself and does not look at ctx.                               *)
ConfirmRisky(n, ok) ==
  LET p == pending[n] IN
    /\ p.confirm
    /\ RemoveAt(n)
    /\ sends' = IF ok THEN Append(sends, Sent(p, "confirmed")) ELSE sends
    /\ outcome' = [outcome EXCEPT ![p.id] = IF ok THEN "sent" ELSE "send-failed"]
    /\ UNCHANGED <<rules, tempo, queue, stopEngaged, seq, time, skew>>

ConfirmAndSend(n, ctx, ok) ==
  /\ ConfirmApproved(n, ctx, ok) \/ ConfirmRisky(n, ok)
  /\ UNCHANGED <<mode, active, stale, windowStart, windowCount,
                 bulkCancelled, accepted>>

(* Mutant: the mode is not looked at. *)
AutoSendInAnyMode(n) == ~pending[n].confirm /\ pending[n].command \in Allowlist

MayAutoSend(n) ==
  /\ mode = "allowlist-auto"
  /\ ~pending[n].confirm
  /\ pending[n].command \in Allowlist

AutoSend(n, ctx, ok) ==
  /\ MayAutoSend(n)
  /\ GatewaySend(pending[n], ctx, ok, "auto")
  /\ RemoveAt(n)
  /\ AuditGatewaySend(pending[n], ctx)
  /\ UNCHANGED <<mode, active, stale, windowStart, windowCount,
                 bulkCancelled, accepted>>

(* Mutant: a cancel that leaves no audit entry. *)
CancelSilently(n) ==
  /\ RemoveAt(n)
  /\ UNCHANGED <<gatewayVars, mode, active, stale, windowStart, windowCount,
                 outcome, bulkCancelled, accepted>>

Cancel(n) ==
  /\ RemoveAt(n)
  /\ outcome' = [outcome EXCEPT ![pending[n].id] = "cancelled"]
  /\ UNCHANGED <<gatewayVars, mode, active, stale, windowStart, windowCount,
                 bulkCancelled, accepted>>

EmergencyStop ==
  /\ EngageStop
  /\ CancelPending
  /\ stale' = FALSE
  /\ UNCHANGED <<rules, tempo, seq, time, skew, sends, mode, active,
                 windowStart, windowCount, outcome, accepted>>

ReleaseEmergencyStop ==
  /\ ReleaseStop
  /\ UNCHANGED <<rules, tempo, seq, time, skew, sends, autopilotVars>>

Next ==
  \/ Enable
  \/ Disable
  \/ SetStale
  \/ ClearStale
  \/ \E command \in Commands, args \in Args, ctx \in GateContexts :
       Propose(command, args, ctx)
  \/ \E n \in DOMAIN pending :
       \/ \E ctx \in GateContexts, ok \in BOOLEAN :
            \/ ConfirmAndSend(n, ctx, ok)
            \/ AutoSend(n, ctx, ok)
       \/ Cancel(n)
  \/ EmergencyStop
  \/ ReleaseEmergencyStop
  \/ (Tick \/ SetClockBack) /\ UNCHANGED autopilotVars

Spec == Init /\ [][Next]_vars

-----------------------------------------------------------------------------
(* Properties. *)

(* While the emergency stop is engaged nothing is pending and nothing is   *)
(* sent, although a confirmed send does not ask the gateway: it depends on *)
(* the queue having been cleared and on propose being refused.             *)
StoppedMeansQuiet ==
  /\ stopEngaged => pending = <<>>
  /\ \A n \in DOMAIN sends : ~sends[n].stopped

(* No proposal is sent twice, by whatever mix of confirmations and         *)
(* auto-sends, paced answers and failures.                                 *)
SentAtMostOnce ==
  \A m, n \in DOMAIN sends :
    sends[m].proposal.id = sends[n].proposal.id => m = n

(* A proposal that needs confirmation is only sent by an explicit          *)
(* confirmation, an auto-send only happens in AllowlistAuto mode for an    *)
(* allowlisted command, and a command the database denies is never sent,   *)
(* although the database is consulted when it is proposed and not when it  *)
(* is confirmed.                                                           *)
OnlyPolicySends ==
  \A n \in DOMAIN sends :
    LET p == sends[n].proposal
        policy == EvaluateCommand(rules, p.command, p.args)
    IN /\ ~policy.denied /\ policy.argOk
       /\ policy.confirm => sends[n].by = "confirmed"
       /\ sends[n].by = "auto" => mode = "allowlist-auto"
                                    /\ p.command \in Allowlist

(* A disabled autopilot holds no proposals; an enabled one no more than    *)
(* its capacity.                                                           *)
PendingDisciplined ==
  /\ Len(pending) <= Capacity
  /\ pending # <<>> => active /\ mode # "disabled"

(* Every proposal the gateway numbered is still pending or has an audit    *)
(* entry saying what became of it: "nothing is silently dropped".          *)
AuditAccountsForAll ==
  seq = Len(pending) + bulkCancelled
          + Cardinality({id \in 1..MaxProposals : outcome[id] # "none"})

(* As long as the wall clock was not set back, no span of window_ms holds  *)
(* more accepted proposals than two windows allow.                         *)
RateBudget ==
  skew = 0 => \A n \in DOMAIN accepted :
    Cardinality({m \in DOMAIN accepted :
                   /\ accepted[n] <= accepted[m]
                   /\ accepted[m] < accepted[n] + RateWindow}) <= 2 * RateCap

(* What a comment says, and the code does not keep: "complete audit", an   *)
(* audit entry that says "sent" is about a command that was sent.          *)
AuditIsTruthful ==
  \A id \in 1..MaxProposals :
    outcome[id] = "sent" => \E n \in DOMAIN sends : sends[n].proposal.id = id

=============================================================================
