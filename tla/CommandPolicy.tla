--------------------------- MODULE CommandPolicy ----------------------------
(***************************************************************************)
(* The deterministic decisions of wire-policy: which commands are denied,  *)
(* need confirmation or carry bad arguments (CommandDatabase::evaluate),   *)
(* and whether a command may be sent now (HumanTempo::should_send).        *)
(*                                                                         *)
(* Arguments are abstracted to whether they meet a checking policy: "good" *)
(* or "bad" for every eq:, min: or max: policy.                            *)
(***************************************************************************)
EXTENDS Integers, Sequences

CONSTANTS
  Destructive,    \* unknown commands that looks_destructive matches
  MinInterval,    \* min_interval_ms
  MaxBurst,       \* max_burst
  BurstWindow,    \* burst_window_ms
  ClockRange      \* 2^64: u64 differences are taken modulo this

ASSUME PolicyAssumption ==
  /\ MinInterval \in Nat
  /\ MaxBurst \in Nat
  /\ BurstWindow \in Nat
  /\ ClockRange \in Nat \ {0}

Tiers == {"safe", "standard", "risky", "destructive"}

(* A CommandRule; arg is "any", "checked" (eq:, min:, max:) or a policy    *)
(* string that validate_args does not know.                                *)
Rule(command, tier, deny, allowlisted, arg) ==
  [command |-> command, tier |-> tier, deny |-> deny,
   allowlisted |-> allowlisted, arg |-> arg]

RequiresConfirmation(tier) == tier \in {"risky", "destructive"}

ValidateArgs(policy, args) ==
  \/ policy = "any"
  \/ policy = "checked" /\ args = "good"

RulesFor(rules, command) ==
  LET Matches(rule) == rule.command = command IN SelectSeq(rules, Matches)

(* CommandDatabase::evaluate: the first rule for the command decides. *)
EvaluateCommand(rules, command, args) ==
  IF RulesFor(rules, command) = <<>>
    THEN [denied |-> FALSE, confirm |-> command \in Destructive,
          argOk |-> TRUE]
    ELSE LET rule == Head(RulesFor(rules, command)) IN
         IF rule.deny
           THEN [denied |-> TRUE, confirm |-> FALSE, argOk |-> FALSE]
           ELSE [denied |-> FALSE,
                 confirm |-> RequiresConfirmation(rule.tier)
                               /\ ~rule.allowlisted,
                 argOk |-> ValidateArgs(rule.arg, args)]

-----------------------------------------------------------------------------
(* HumanTempo: lastSend is last_send_ms, start and count the burst window. *)

NewTempo == [lastSend |-> 0, start |-> 0, count |-> 0]

(* u64 subtraction as a release build computes it. *)
Elapsed(now, since) == (now - since) % ClockRange

WindowOver(t, now) == Elapsed(now, t.start) >= BurstWindow

CoolingDown(t, now) ==
  t.lastSend > 0 /\ Elapsed(now, t.lastSend) < MinInterval

(* The window should_send works in: rolled over before anything else. *)
RolledTempo(t, now) ==
  IF WindowOver(t, now) THEN [t EXCEPT !.start = now, !.count = 0] ELSE t

(* Mutant: off by one at the end of the burst. *)
SendsNowOffByOne(t, now) ==
  /\ ~(WindowOver(t, now) /\ CoolingDown(t, now))
  /\ RolledTempo(t, now).count <= MaxBurst

(* should_send answers Now. *)
SendsNow(t, now) ==
  /\ ~(WindowOver(t, now) /\ CoolingDown(t, now))
  /\ RolledTempo(t, now).count < MaxBurst

(* What it leaves behind; a Wait keeps the rolled-over window. *)
TempoAfter(t, now) ==
  LET rolled == RolledTempo(t, now) IN
    IF SendsNow(t, now)
      THEN [rolled EXCEPT !.lastSend = now, !.count = @ + 1]
      ELSE rolled

=============================================================================
