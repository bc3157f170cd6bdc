---------------------------- MODULE MCAutopilot -----------------------------
(* Autopilot on small instances. *)
EXTENDS Autopilot, TLC

(* "say" may be sent, "buy" needs confirmation, "quit" is denied; "buy"    *)
(* and "put" check their arguments.                                        *)
MCRuleLists == {<<Rule("buy", "risky", FALSE, FALSE, "checked"),
                  Rule("say", "standard", FALSE, FALSE, "any"),
                  Rule("put", "safe", FALSE, FALSE, "checked"),
                  Rule("quit", "destructive", TRUE, FALSE, "any")>>}

Ready == [connected |-> TRUE, automation |-> TRUE, routingStable |-> TRUE,
          injection |-> FALSE]

MCContexts == {Ready, [Ready EXCEPT !.connected = FALSE]}

=============================================================================
