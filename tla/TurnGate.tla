------------------------------ MODULE TurnGate ------------------------------
(***************************************************************************)
(* What a guarded turn promises: the prompt does not leave the appliance   *)
(* and the answer is not shown unless the checkpoint in front of it is     *)
(* open. A checkpoint is open when the policy the turn began under does    *)
(* not guard it, when the guardrail ruled for the content, or when the     *)
(* guardrail failed to rule and the policy says to go on (engine: the      *)
(* four rules above Engine._inspect).                                      *)
(***************************************************************************)
CONSTANTS
  Call,        \* turns
  Undecided    \* the turn has not begun; not a Policy

Checkpoint == {"prompt", "response"}
Policy == [guards: SUBSET Checkpoint, failOpen: BOOLEAN]
Ruling == {"unasked", "clear", "against", "failed"}

VARIABLES
  policy,      \* [Call -> Policy], fixed when a turn begins
  ruled,       \* [Call -> [Checkpoint -> Ruling]]
  left,        \* [Call -> BOOLEAN], the prompt went to a vendor
  shown        \* [Call -> BOOLEAN], some of the answer went to the operator

gateVars == <<policy, ruled, left, shown>>

Open(c, k) ==
  /\ policy[c] # Undecided
  /\ \/ k \notin policy[c].guards
     \/ ruled[c][k] = "clear"
     \/ ruled[c][k] = "failed" /\ policy[c].failOpen

GateInit ==
  /\ policy = [c \in Call |-> Undecided]
  /\ ruled = [c \in Call |-> [k \in Checkpoint |-> "unasked"]]
  /\ left = [c \in Call |-> FALSE]
  /\ shown = [c \in Call |-> FALSE]

Begin(c, p) ==
  /\ policy[c] = Undecided
  /\ policy' = [policy EXCEPT ![c] = p]
  /\ UNCHANGED <<ruled, left, shown>>

\* A checkpoint is asked once, and the response's only about an answer.
Rule(c, k, r) ==
  /\ policy[c] # Undecided
  /\ k \in policy[c].guards
  /\ ruled[c][k] = "unasked"
  /\ k = "response" => left[c]
  /\ ruled' = [ruled EXCEPT ![c] = [ruled[c] EXCEPT ![k] = r]]
  /\ UNCHANGED <<policy, left, shown>>

Leave(c) ==
  /\ ~left[c]
  /\ Open(c, "prompt")
  /\ left' = [left EXCEPT ![c] = TRUE]
  /\ UNCHANGED <<policy, ruled, shown>>

Show(c) ==
  /\ ~shown[c]
  /\ left[c]
  /\ Open(c, "response")
  /\ shown' = [shown EXCEPT ![c] = TRUE]
  /\ UNCHANGED <<policy, ruled, left>>

GateNext ==
  \E c \in Call :
    \/ \E p \in Policy : Begin(c, p)
    \/ \E k \in Checkpoint, r \in Ruling \ {"unasked"} : Rule(c, k, r)
    \/ Leave(c)
    \/ Show(c)

GateSpec == GateInit /\ [][GateNext]_gateVars
=============================================================================
