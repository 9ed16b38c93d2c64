-------------------------------- MODULE Turn --------------------------------
(***************************************************************************)
(* A chat turn: grpc/handlers/chat, engine and guardrail/api_application,  *)
(* over the outcomes the transports can give.                              *)
(*                                                                         *)
(* Turns run on the gRPC worker pool, several at once, while ApplyConfig   *)
(* replaces the engine under them; a caller may hang up at any moment,     *)
(* which its worker only notices when it next has something to send.       *)
(***************************************************************************)
EXTENDS Naturals, Sequences

CONSTANTS
  Call,        \* turns
  Engine,      \* the engines a deployment may build for the chat service
  NoEngine,    \* the chat service has none
  Model,       \* qualified model names
  AnyModel,    \* a request that names no model
  Blank,       \* a request without a message
  Undecided,   \* no engine has been read yet
  Unsent,      \* the messages have not gone to any model
  NoRequest,   \* the caller has asked for nothing yet
  Unasked,     \* the checkpoint has not been put to the scan service
  Failed,      \* the scan failed
  MaxPieces,   \* bound: the pieces a reply is streamed in
  MaxPushed    \* bound: how many engines there are one after the other

Checkpoint == {"prompt", "response"}
Transport == {"direct", "ai_gateway"}
EngineType == [models: SUBSET Model, default: Model, transport: Transport,
               inspects: BOOLEAN, points: SUBSET Checkpoint, failOpen: BOOLEAN]
Request == Model \cup {AnyModel, Blank}

\* The two axes of a ScanResponse that make its verdict.
ScanResponse == [action: {"block", "allow"}, category: {"malicious", "benign"}]

ASSUME TurnAssumption ==
  /\ Engine \subseteq EngineType
  /\ \A e \in Engine : e.default \in e.models
  /\ NoEngine \notin Engine
  /\ AnyModel \notin Model /\ Blank \notin Model \cup {AnyModel} /\ Unsent \notin Model
  /\ NoRequest \notin Request
  /\ Undecided \notin [guards: SUBSET Checkpoint, failOpen: BOOLEAN]
  /\ Failed \notin ScanResponse
  /\ Unasked \notin ScanResponse \cup {Failed}
  /\ MaxPieces \in Nat \ {0}
  /\ MaxPushed \in Nat \ {0}

VARIABLES
  pushed,      \* what Core.services has held for chat; the last one is current
  phase,       \* [Call -> Phase]
  request,     \* [Call -> Request], what the caller asked
  asked,       \* [Call -> Nat], which engine was current when it did
  using,       \* [Call -> Nat], which one the handler took; 0: none yet
  answers,     \* [Call -> [Checkpoint -> ...]], what the scan service answered
  verdicts,    \* [Call -> Seq(Verdict)], result.verdicts
  sent,        \* [Call -> Model], the model the messages went to
  text,        \* [Call -> Nat], the pieces of the completion's text
  code,        \* [Call -> Code], result.code, "" for ok
  stream,      \* [Call -> Seq({"delta", "done"})], the chunks the caller got
  listening    \* [Call -> BOOLEAN]

vars == <<pushed, phase, request, asked, using, answers, verdicts, sent, text, code, stream, listening>>

Phase == {"idle", "queued", "prompt", "calling", "response", "answering", "over"}
Code == {"", "open", "raised", "UNCONFIGURED", "BAD_REQUEST", "BLOCKED", "NOT_INSPECTED",
         "UNREACHABLE", "BAD_RESPONSE", "UPSTREAM_ERROR"}
Decision == {"allow", "block", "flagged", "not_inspected"}
Verdict == [decision: Decision, inspected: BOOLEAN, errored: BOOLEAN]
Answer == ScanResponse \cup {Failed, Unasked}

TypeOK ==
  /\ pushed \in Seq(Engine \cup {NoEngine}) /\ Len(pushed) \in 1..MaxPushed
  /\ phase \in [Call -> Phase]
  /\ request \in [Call -> Request \cup {NoRequest}]
  /\ asked \in [Call -> 0..MaxPushed]
  /\ using \in [Call -> 0..MaxPushed]
  /\ answers \in [Call -> [Checkpoint -> Answer]]
  /\ verdicts \in [Call -> Seq(Verdict)]
  /\ sent \in [Call -> Model \cup {Unsent}]
  /\ text \in [Call -> 0..MaxPieces]
  /\ code \in [Call -> Code]
  /\ stream \in [Call -> Seq({"delta", "done"})]
  /\ listening \in [Call -> BOOLEAN]

Init ==
  /\ pushed \in {<<e>> : e \in Engine \cup {NoEngine}}
  /\ phase = [c \in Call |-> "idle"]
  /\ request = [c \in Call |-> NoRequest]
  /\ asked = [c \in Call |-> 0]
  /\ using = [c \in Call |-> 0]
  /\ answers = [c \in Call |-> [k \in Checkpoint |-> Unasked]]
  /\ verdicts = [c \in Call |-> <<>>]
  /\ sent = [c \in Call |-> Unsent]
  /\ text = [c \in Call |-> 0]
  /\ code = [c \in Call |-> "open"]
  /\ stream = [c \in Call |-> <<>>]
  /\ listening = [c \in Call |-> TRUE]

-----------------------------------------------------------------------------
(* The engine a turn runs on.                                              *)

BootEngine == 1                                          \* a mutated form of Current
\* get_engine reads through to what Core holds, at every call.
Current == Len(pushed)

CurrentFor(c) == pushed[Current]                         \* a mutated form of EngineOf
\* The engine the handler of c took, which it keeps.
EngineOf(c) == pushed[using[c]]

Guards(e) == IF e.inspects THEN e.points ELSE {}

ResolvesAny(e, r) == r # Blank                           \* a mutated form of Resolves
\* There is a message, and Catalog.resolve knows the model the request names, if
\* it names one.
Resolves(e, r) == r \in e.models \cup {AnyModel}

\* The model it resolves to.
ModelOf(c) ==
  IF request[c] = AnyModel THEN EngineOf(c).default ELSE request[c]

-----------------------------------------------------------------------------
(* A scan, as a verdict.                                                   *)

CategoryFirst(a) ==                                      \* a mutated form of Ruled
  IF a.category = "benign" THEN "allow" ELSE IF a.action = "block" THEN "block" ELSE "flagged"

\* _to_verdict: what the profile did, then what it thought.
Ruled(a) ==
  IF a.action = "block" THEN "block" ELSE IF a.category = "malicious" THEN "flagged" ELSE "allow"

VerdictOf(a) ==
  IF a = Failed
  THEN [decision |-> "not_inspected", inspected |-> FALSE, errored |-> TRUE]
  ELSE [decision |-> Ruled(a), inspected |-> TRUE, errored |-> FALSE]

PassesUninspected(e, v) == v.decision # "block"          \* a mutated form of Passes
Passes(e, v) ==
  \/ v.decision \in {"allow", "flagged"}
  \/ v.decision = "not_inspected" /\ e.failOpen

StopWord(v) == v.decision                                \* a mutated form of StopCode
StopCode(v) == IF v.decision = "not_inspected" THEN "NOT_INSPECTED" ELSE "BLOCKED"

-----------------------------------------------------------------------------
(* The console's scan object.                                              *)

Precedence == <<"block", "flagged", "not_inspected", "allow">>

\* The verdicts that looked, or failed to.
Reported(vs) == {i \in DOMAIN vs : vs[i].inspected \/ vs[i].errored}

LastSpeaks(vs) ==                                        \* a mutated form of Lead
  vs[CHOOSE i \in Reported(vs) : \A j \in Reported(vs) : j <= i].decision

Lead(vs) ==
  LET told == {vs[i].decision : i \in Reported(vs)}
      At(n) == Precedence[n] \in told
  IN  Precedence[CHOOSE n \in DOMAIN Precedence : At(n) /\ \A m \in 1..(n - 1) : ~At(m)]

Scan(vs) ==
  IF Reported(vs) = {} THEN "absent"
  ELSE IF Lead(vs) = "not_inspected" THEN "uninspected" ELSE Lead(vs)

-----------------------------------------------------------------------------
(* What a transport's complete may come to. Every model of a built engine  *)
(* has its endpoint, so none is BAD_ROUTE.                                 *)

DirectOutcomes == {"", "UNREACHABLE", "BAD_RESPONSE", "UPSTREAM_ERROR", "raised"}
\* Past `__raw__`, _to_completion reads a name that is not defined.
GatewayOutcomes == {"UNREACHABLE", "BAD_RESPONSE", "raised"}

CompletionOf(e) == IF e.transport = "direct" THEN DirectOutcomes ELSE GatewayOutcomes

-----------------------------------------------------------------------------
(* The turn.                                                               *)

\* ApplyConfig replaces the services while turns run.
Push(e) ==
  /\ Len(pushed) < MaxPushed
  /\ pushed' = Append(pushed, e)
  /\ UNCHANGED <<phase, request, asked, using, answers, verdicts, sent, text, code, stream, listening>>

Ask(c, r) ==
  /\ phase[c] = "idle"
  /\ request' = [request EXCEPT ![c] = r]
  /\ phase' = [phase EXCEPT ![c] = "queued"]
  /\ asked' = [asked EXCEPT ![c] = Len(pushed)]
  /\ UNCHANGED <<pushed, using, answers, verdicts, sent, text, code, stream, listening>>

\* The handler takes the current engine, or finds there is none.
Take(c) ==
  /\ phase[c] = "queued"
  /\ using' = [using EXCEPT ![c] = Current]
  /\ UNCHANGED <<pushed, request, asked, answers, verdicts, sent, text, stream, listening>>

Unconfigured(c) ==
  /\ Take(c)
  /\ pushed[Current] = NoEngine
  /\ phase' = [phase EXCEPT ![c] = "answering"]
  /\ code' = [code EXCEPT ![c] = "UNCONFIGURED"]

\* Engine._open refuses the request.
Refuse(c) ==
  /\ Take(c)
  /\ pushed[Current] # NoEngine
  /\ ~Resolves(pushed[Current], request[c])
  /\ phase' = [phase EXCEPT ![c] = "answering"]
  /\ code' = [code EXCEPT ![c] = "BAD_REQUEST"]

Open(c) ==
  /\ Take(c)
  /\ pushed[Current] # NoEngine
  /\ Resolves(pushed[Current], request[c])
  /\ phase' = [phase EXCEPT ![c] = "prompt"]
  /\ UNCHANGED code

\* The turn goes on past checkpoint k: to the model, or to the caller.
Proceed(c, k) ==
  IF k = "prompt"
  THEN phase' = [phase EXCEPT ![c] = "calling"] /\ UNCHANGED code
  ELSE phase' = [phase EXCEPT ![c] = "answering"] /\ code' = [code EXCEPT ![c] = ""]

\* _inspect with no guardrail, or at a point that is switched off.
Skip(c, k) ==
  /\ phase[c] = k
  /\ k \notin Guards(EngineOf(c))
  /\ Proceed(c, k)
  /\ UNCHANGED <<pushed, request, asked, using, answers, verdicts, sent, text, stream, listening>>

\* _inspect at a live point: the verdict is recorded, then acted on.
Inspect(c, k, a) ==
  /\ phase[c] = k
  /\ k \in Guards(EngineOf(c))
  /\ answers' = [answers EXCEPT ![c] = [answers[c] EXCEPT ![k] = a]]
  /\ verdicts' = [verdicts EXCEPT ![c] = Append(verdicts[c], VerdictOf(a))]
  /\ IF Passes(EngineOf(c), VerdictOf(a)) THEN Proceed(c, k)
     ELSE /\ phase' = [phase EXCEPT ![c] = "answering"]
          /\ code' = [code EXCEPT ![c] = StopCode(VerdictOf(a))]
  /\ UNCHANGED <<pushed, request, asked, using, sent, text, stream, listening>>

\* transport.complete, then _accept.
Complete(c, outcome, pieces) ==
  /\ phase[c] = "calling"
  /\ outcome \in CompletionOf(EngineOf(c))
  /\ sent' = [sent EXCEPT ![c] = ModelOf(c)]
  /\ IF outcome = ""
     THEN /\ phase' = [phase EXCEPT ![c] = "response"]
          /\ text' = [text EXCEPT ![c] = pieces]
          /\ UNCHANGED code
     ELSE /\ phase' = [phase EXCEPT ![c] = IF outcome = "raised" THEN "over" ELSE "answering"]
          /\ code' = [code EXCEPT ![c] = outcome]
          /\ UNCHANGED text
  /\ UNCHANGED <<pushed, request, asked, using, answers, verdicts, stream, listening>>

\* What of the reply is still to be sent.
Remaining(c) == IF code[c] = "" THEN text[c] - Len(stream[c]) ELSE 0

Deliver(c) ==
  /\ phase[c] = "answering" /\ listening[c]
  /\ Remaining(c) > 0
  /\ stream' = [stream EXCEPT ![c] = Append(@, "delta")]
  /\ UNCHANGED <<pushed, phase, request, asked, using, answers, verdicts, sent, text, code, listening>>

DoneEarly(c) ==                                          \* a mutated form of Done
  /\ phase[c] = "answering" /\ listening[c]
  /\ stream' = [stream EXCEPT ![c] = Append(@, "done")]
  /\ phase' = [phase EXCEPT ![c] = "over"]
  /\ UNCHANGED <<pushed, request, asked, using, answers, verdicts, sent, text, code, listening>>

\* The last chunk, with the turn document.
Done(c) ==
  /\ phase[c] = "answering" /\ listening[c]
  /\ Remaining(c) = 0
  /\ stream' = [stream EXCEPT ![c] = Append(@, "done")]
  /\ phase' = [phase EXCEPT ![c] = "over"]
  /\ UNCHANGED <<pushed, request, asked, using, answers, verdicts, sent, text, code, listening>>

AbandonAnswer(c) ==                                      \* a mutated form of Abandon
  /\ phase[c] \in {"queued", "answering"} /\ ~listening[c] /\ code[c] = ""
  /\ phase' = [phase EXCEPT ![c] = "over"]
  /\ UNCHANGED <<pushed, request, asked, using, answers, verdicts, sent, text, code, stream, listening>>

\* Nobody is there for the next chunk, or for the handler to be started at all.
Abandon(c) ==
  /\ phase[c] \in {"queued", "answering"} /\ ~listening[c]
  /\ phase' = [phase EXCEPT ![c] = "over"]
  /\ UNCHANGED <<pushed, request, asked, using, answers, verdicts, sent, text, code, stream, listening>>

\* The caller cancels, or its deadline passes, or the shutdown grace ends.
Hangup(c) ==
  /\ phase[c] \notin {"idle", "over"} /\ listening[c]
  /\ listening' = [listening EXCEPT ![c] = FALSE]
  /\ UNCHANGED <<pushed, phase, request, asked, using, answers, verdicts, sent, text, code, stream>>

Handle(c) ==
  \/ Unconfigured(c)
  \/ Refuse(c) \/ Open(c)
  \/ \E k \in Checkpoint : Skip(c, k)
  \/ \E outcome \in Code, pieces \in 1..MaxPieces : Complete(c, outcome, pieces)
  \/ Deliver(c) \/ Done(c) \/ Abandon(c)

Next ==
  \/ \E e \in Engine \cup {NoEngine} : Push(e)
  \/ \E c \in Call :
       \/ \E r \in Request : Ask(c, r)
       \/ Handle(c)
       \/ \E k \in Checkpoint, a \in ScanResponse \cup {Failed} : Inspect(c, k, a)
       \/ Hangup(c)

\* A worker goes on by itself, and a vendor is waited for only so long. A scan
\* has no timeout, so nothing is assumed of Inspect.
Fairness == \A c \in Call : WF_vars(Handle(c))

Safety == Init /\ [][Next]_vars
Spec == Safety /\ Fairness
-----------------------------------------------------------------------------
(* Properties.                                                             *)

\* The policy a turn runs under, for the gate it must keep.
PolicyOf(c) ==
  IF using[c] = 0 THEN Undecided
  ELSE IF EngineOf(c) = NoEngine THEN Undecided
  ELSE [guards |-> Guards(EngineOf(c)), failOpen |-> EngineOf(c).failOpen]

RulingOf(a) ==
  IF a = Unasked THEN "unasked"
  ELSE IF a = Failed THEN "failed"
  ELSE IF a.action = "block" THEN "against" ELSE "clear"

RulingsOf(c) == [k \in Checkpoint |-> RulingOf(answers[c][k])]
Left(c) == sent[c] # Unsent
Shown(c) == stream[c] # <<>> /\ stream[c][1] = "delta"

Gate == INSTANCE TurnGate WITH
  policy <- [c \in Call |-> PolicyOf(c)],
  ruled <- [c \in Call |-> RulingsOf(c)],
  left <- [c \in Call |-> Left(c)],
  shown <- [c \in Call |-> Shown(c)]

\* Whatever is pushed meanwhile, a turn's prompt goes to a vendor only past the
\* prompt checkpoint, and any of the answer goes to the caller only past the
\* response checkpoint, both by the policy of the engine the turn was opened on;
\* each checkpoint is put to the scan service once at most
\* (Engine._inspect, the rules 1, 2 and 4 above it).
KeepsGate == Gate!GateSpec

\* What the scan service was asked in this turn, and answered.
Told(c) == {answers[c][k] : k \in Checkpoint} \ {Unasked}

\* The turn document's scan object and code account for every answer of the scan
\* service: nothing reads as allowed when a scan failed or found anything, a block
\* is never outranked, and a code that says a guardrail stopped the turn has the
\* scan that did (Engine._stopped, console._scan and _lead).
ReportAccountsForTurn ==
  \A c \in Call : phase[c] = "over" /\ "done" \in {stream[c][i] : i \in DOMAIN stream[c]} =>
    LET scan == Scan(verdicts[c])
        ruled == Told(c) \ {Failed}
        blocked == \E a \in ruled : a.action = "block"
    IN  /\ scan = "absent" <=> Told(c) = {}
        /\ scan = "allow" => Told(c) = {[action |-> "allow", category |-> "benign"]}
        /\ scan = "block" <=> blocked
        /\ code[c] = "BLOCKED" <=> blocked
        /\ (\E a \in ruled : a.category = "malicious") => scan \in {"block", "flagged"}
        /\ code[c] = "NOT_INSPECTED" => Failed \in Told(c) /\ ~EngineOf(c).failOpen

\* A caller who is still there gets the document once, last, and before it
\* exactly the pieces of a reply that was answered, none of one that was not
\* (Chat, _chunks).
StreamIsTheDocument ==
  \A c \in Call : phase[c] = "over" /\ listening[c] /\ code[c] # "raised" =>
    /\ stream[c] # <<>>
    /\ \A i \in DOMAIN stream[c] : stream[c][i] = "done" <=> i = Len(stream[c])
    /\ Len(stream[c]) - 1 = IF code[c] = "" THEN text[c] ELSE 0

\* A turn asked for after a push never runs on what was there before it
\* (PretzelAiServicer.get_engine reads through to Core at each call).
NoStaleEngine == \A c \in Call : using[c] # 0 => using[c] >= asked[c]

\* The model the messages go to is one of the engine that the turn was opened on
\* and the very one the caller named, whatever was pushed meanwhile; a name it
\* does not have is refused, never substituted (Catalog.resolve).
NoSubstitution ==
  \A c \in Call : sent[c] # Unsent =>
    /\ sent[c] \in EngineOf(c).models
    /\ request[c] \in {AnyModel, sent[c]}

\* A turn whose scans come back is over at last, with its caller or without, and
\* its worker is free (Chat).
TurnEnds ==
  \A c \in Call :
    []<>(phase[c] \notin Checkpoint) => (phase[c] = "queued" ~> phase[c] = "over")

\* The contract of the stream: "done: true exactly once, on the last chunk", and
\* when the turn failed as well (pretzel_ai.proto, ChatChunk). It is not kept: a
\* transport may raise through Engine.run.
DoneOnLastChunk ==
  \A c \in Call : phase[c] = "over" /\ listening[c] =>
    stream[c] # <<>> /\ stream[c][Len(stream[c])] = "done"
=============================================================================
