--------------------------- MODULE GatewayCallers ---------------------------
(***************************************************************************)
(* The Action Proposal gateway used directly, by callers that propose,     *)
(* queue and approve in any order and keep their proposals as long as they *)
(* like.                                                                   *)
(***************************************************************************)
EXTENDS ActionGateway

VARIABLE held  \* the proposals the callers hold

callersVars == <<gatewayVars, held>>

CallersTypeOK == GatewayTypeOK /\ held \subseteq Proposals

CallersInit == GatewayInit /\ held = {}

CallersPropose(command, args) ==
  /\ seq < MaxProposals
  /\ seq' = seq + 1
  /\ held' = held \cup {NewProposal(command, args)}
  /\ UNCHANGED <<rules, tempo, queue, stopEngaged, time, skew, sends>>

ApproveAndSend(p, ctx, ok) ==
  /\ GatewaySend(p, ctx, ok, "gateway")
  /\ UNCHANGED held

(* queue_entry; a full queue refuses the entry. *)
QueueEntry(p) ==
  /\ Len(queue) < GateQueueCapacity
  /\ queue' = Append(queue, p.id)
  /\ UNCHANGED <<rules, tempo, stopEngaged, seq, time, skew, sends, held>>

CallersEngageStop ==
  /\ EngageStop
  /\ UNCHANGED <<rules, tempo, seq, time, skew, sends, held>>

CallersReleaseStop ==
  /\ ReleaseStop
  /\ UNCHANGED <<rules, tempo, seq, time, skew, sends, held>>

CallersNext ==
  \/ \E command \in Commands, args \in Args : CallersPropose(command, args)
  \/ \E p \in held :
       \/ \E ctx \in GateContexts, ok \in BOOLEAN : ApproveAndSend(p, ctx, ok)
       \/ QueueEntry(p)
  \/ CallersEngageStop
  \/ CallersReleaseStop
  \/ Tick /\ UNCHANGED held
  \/ SetClockBack /\ UNCHANGED held

CallersSpec == CallersInit /\ [][CallersNext]_callersVars

-----------------------------------------------------------------------------
(* Properties. *)

(* No caller, with whatever proposal it kept from before and however often *)
(* it comes back with it, gets a command out while the emergency stop is   *)
(* engaged, against the command database, or without the confirmation the  *)
(* command needs.                                                          *)
GateHolds ==
  \A n \in DOMAIN sends :
    LET p == sends[n].proposal
        policy == EvaluateCommand(rules, p.command, p.args)
    IN ~sends[n].stopped /\ ~policy.denied /\ policy.argOk /\ ~policy.confirm

=============================================================================
