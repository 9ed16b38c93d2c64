------------------------------- MODULE MCTurn -------------------------------
(***************************************************************************)
(* Small deployments for TLC: engines that differ in what a turn can tell  *)
(* of them, and two models of which one engine has only the one.           *)
(***************************************************************************)
EXTENDS Turn

CONSTANTS m1, m2

Inspected(points, failOpen) ==
  [models |-> {m1, m2}, default |-> m2, transport |-> "direct",
   inspects |-> TRUE, points |-> points, failOpen |-> failOpen]

Strict == Inspected(Checkpoint, FALSE)
Lenient == [Inspected(Checkpoint, TRUE) EXCEPT !.models = {m1}, !.default = m1]
PromptOnly == Inspected({"prompt"}, FALSE)
\* As mgmtd sends it: the points are switched on, and there is no guardrail.
Uninspected == [Strict EXCEPT !.inspects = FALSE]
ThroughGateway == [Strict EXCEPT !.transport = "ai_gateway"]

MCEngine == {Strict, Lenient, PromptOnly, Uninspected, ThroughGateway}
MCGatewayEngine == {ThroughGateway}
=============================================================================
