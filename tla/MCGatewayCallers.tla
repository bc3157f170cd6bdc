-------------------------- MODULE MCGatewayCallers --------------------------
(* GatewayCallers on small instances. *)
EXTENDS GatewayCallers, TLC

(* "look" has no rule, "kill" looks destructive, "buy" is risky, "say" is  *)
(* allowlisted, "quit" is denied, "put" checks its arguments.              *)
MCRules == <<Rule("buy", "risky", FALSE, FALSE, "any"),
             Rule("say", "risky", FALSE, TRUE, "any"),
             Rule("put", "safe", FALSE, FALSE, "checked"),
             Rule("quit", "destructive", TRUE, FALSE, "any")>>

MCRuleLists == {MCRules}

Ready == [connected |-> TRUE, automation |-> TRUE, routingStable |-> TRUE,
          injection |-> FALSE]

(* Ready, and each way of not being ready. *)
MCContexts == {Ready, [Ready EXCEPT !.connected = FALSE],
               [Ready EXCEPT !.automation = FALSE],
               [Ready EXCEPT !.routingStable = FALSE],
               [Ready EXCEPT !.injection = TRUE]}

=============================================================================
