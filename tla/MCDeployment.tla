---------------------------- MODULE MCDeployment ----------------------------
(***************************************************************************)
(* Small deployments for TLC: one vendor the service knows and one it does *)
(* not, and the documents that make the build take each of its ways.       *)
(***************************************************************************)
EXTENDS Deployment

CONSTANTS vendor, odd, m, k1, k2

MCModelsOf == [p \in Provider |-> {m}]

Chat(transport, guardrail) ==
  [service |-> "chat", transport |-> transport, guardrail |-> guardrail,
   points |-> Point, profile |-> TRUE, failOpen |-> FALSE]
Agent == [Chat("direct", "none") EXCEPT !.service = "agent"]
Pushed(providers, entries, airs) ==
  [providers |-> providers, services |-> entries, airsKey |-> airs, gatewayKey |-> NoKey]

Inspected(k) == Pushed({vendor, odd}, <<Chat("direct", "api_application")>>, k)
Uninspected == Pushed({vendor}, <<Chat("direct", "none"), Agent>>, k1)
Misspelt == Pushed({vendor}, <<Chat("direct", "other")>>, k2)
Keyless == Inspected(NoKey)
NoVendor == Pushed({odd}, <<Chat("direct", "none")>>, k1)
\* An unnamed entry is the chat service's, and the later one stands.
Twice == Pushed({vendor},
                <<Chat("direct", "api_application"),
                  [Chat("ai_gateway", "none") EXCEPT !.service = ""],
                  [Chat("direct", "none") EXCEPT !.service = "other"]>>, k2)
WithGateway == [Twice EXCEPT !.gatewayKey = k1]
OnlyAgent == Pushed({vendor}, <<Agent>>, k1)

Unrouted == Pushed({vendor}, <<Chat("other", "none")>>, k2)

\* Every way a build can go.
MCBody == {Inspected(k1), Inspected(k2), Uninspected, Misspelt, Unrouted, Keyless,
           NoVendor, Twice, WithGateway, OnlyAgent}
=============================================================================
