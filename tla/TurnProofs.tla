----------------------------- MODULE TurnProofs -----------------------------
(***************************************************************************)
(* Proofs about Turn, for any calls, engines and pushes: types, and that a *)
(* turn keeps the gate of TurnGate and reports to its caller in full.      *)
(***************************************************************************)
EXTENDS Turn, TLAPS

-----------------------------------------------------------------------------
(* The inductive invariant, call by call.                                  *)

\* What a turn holds from its engine: one of those that were current since it was
\* asked for, and a request that this engine resolves once the turn is open.
Opened(c) ==
  /\ using[c] # 0
  /\ EngineOf(c) \in Engine
  /\ Resolves(EngineOf(c), request[c])

EngineInv(c) ==
  /\ using[c] <= Len(pushed) /\ asked[c] <= Len(pushed)
  /\ using[c] # 0 => asked[c] <= using[c]
  /\ phase[c] \in {"idle", "queued"} => using[c] = 0
  /\ phase[c] # "idle" => request[c] \in Request
  /\ phase[c] \in {"prompt", "calling", "response"} => Opened(c)
  /\ sent[c] # Unsent => Opened(c) /\ sent[c] = ModelOf(c)

\* What has not happened yet.
AheadInv(c) ==
  /\ phase[c] \in {"idle", "queued", "prompt"} => answers[c]["prompt"] = Unasked
  /\ phase[c] \in {"idle", "queued", "prompt", "calling", "response"} =>
       answers[c]["response"] = Unasked
  /\ phase[c] \in {"idle", "queued", "prompt", "calling"} => sent[c] = Unsent
  /\ phase[c] \in {"idle", "queued", "prompt", "calling", "response"} => stream[c] = <<>>

Past(c, k) ==
  \/ k \notin Guards(EngineOf(c))
  \/ RulingOf(answers[c][k]) = "clear"
  \/ RulingOf(answers[c][k]) = "failed" /\ EngineOf(c).failOpen

\* What a turn has been through when it gets where it is.
PastInv(c) ==
  /\ phase[c] = "calling" => Past(c, "prompt")
  /\ phase[c] = "response" => sent[c] # Unsent
  /\ phase[c] = "answering" /\ code[c] = "" => sent[c] # Unsent /\ Past(c, "response")

Due(c) == IF code[c] = "" THEN text[c] ELSE 0

StreamInv(c) ==
  /\ phase[c] = "answering" =>
       Len(stream[c]) <= Due(c) /\ \A i \in 1..Len(stream[c]) : stream[c][i] = "delta"
  /\ phase[c] = "over" /\ listening[c] /\ code[c] # "raised" =>
       /\ Len(stream[c]) = Due(c) + 1
       /\ \A i \in 1..Len(stream[c]) : stream[c][i] = "done" <=> i = Len(stream[c])

CallInv(c) == EngineInv(c) /\ AheadInv(c) /\ PastInv(c) /\ StreamInv(c)
TurnInv == TypeOK /\ \A c \in Call : CallInv(c)

-----------------------------------------------------------------------------
(* Types.                                                                  *)

LEMMA AppendType ==
  ASSUME NEW S, NEW s \in Seq(S), NEW x \in S
  PROVE  Append(s, x) \in Seq(S)
OBVIOUS

LEMMA VerdictType ==
  ASSUME NEW a \in ScanResponse \cup {Failed}
  PROVE  VerdictOf(a) \in Verdict /\ StopCode(VerdictOf(a)) \in Code
BY DEF VerdictOf, Ruled, Verdict, Decision, StopCode, Code

LEMMA AskedEngine ==
  ASSUME TypeOK, NEW i \in 1..Len(pushed)
  PROVE  pushed[i] \in Engine \cup {NoEngine}
<1>1. pushed \in Seq(Engine \cup {NoEngine})
  BY DEF TypeOK
<1>2. QED
  BY <1>1

LEMMA InitType == Init => TypeOK
<1> SUFFICES ASSUME Init PROVE TypeOK
  OBVIOUS
<1>1. PICK e \in Engine \cup {NoEngine} : pushed = <<e>>
  BY DEF Init
<1>2. pushed \in Seq(Engine \cup {NoEngine}) /\ Len(pushed) = 1
  BY <1>1
<1>3. \A S : <<>> \in Seq(S)
  OBVIOUS
<1>4. [k \in Checkpoint |-> Unasked] \in [Checkpoint -> Answer]
  BY DEF Answer
<1>5. "idle" \in Phase /\ "open" \in Code /\ 1 \in 1..MaxPushed /\ 0 \in 0..MaxPushed
      /\ 0 \in 0..MaxPieces
  BY TurnAssumption DEF Phase, Code
<1>6. QED
  BY <1>2, <1>3, <1>4, <1>5 DEF Init, TypeOK

LEMMA ProceedType ==
  ASSUME TypeOK, NEW c \in Call, NEW k \in Checkpoint, Proceed(c, k)
  PROVE  phase' \in [Call -> Phase] /\ code' \in [Call -> Code]
BY DEF TypeOK, Proceed, Phase, Code

LEMMA InspectType ==
  ASSUME TypeOK, NEW c \in Call, NEW k \in Checkpoint, NEW a \in ScanResponse \cup {Failed},
         Inspect(c, k, a)
  PROVE  TypeOK'
<1>1. phase' \in [Call -> Phase] /\ code' \in [Call -> Code]
  BY ProceedType, VerdictType DEF TypeOK, Inspect, Phase
<1>2. verdicts' \in [Call -> Seq(Verdict)]
  <2>1. Append(verdicts[c], VerdictOf(a)) \in Seq(Verdict)
    BY AppendType, VerdictType DEF TypeOK
  <2> QED BY <2>1 DEF TypeOK, Inspect
<1>3. answers' \in [Call -> [Checkpoint -> Answer]]
  <2>1. [answers[c] EXCEPT ![k] = a] \in [Checkpoint -> Answer]
    BY DEF TypeOK, Answer
  <2> QED BY <2>1 DEF TypeOK, Inspect
<1>4. QED
  BY <1>1, <1>2, <1>3 DEF TypeOK, Inspect

LEMMA StreamType ==
  ASSUME TypeOK, NEW c \in Call, NEW x \in {"delta", "done"}
  PROVE  [stream EXCEPT ![c] = Append(@, x)] \in [Call -> Seq({"delta", "done"})]
<1>1. Append(stream[c], x) \in Seq({"delta", "done"})
  BY AppendType DEF TypeOK
<1>2. QED
  BY <1>1 DEF TypeOK

LEMMA StepType == TypeOK /\ (\A c \in Call : EngineInv(c)) /\ [Next]_vars => TypeOK'
<1> SUFFICES ASSUME TypeOK, \A c \in Call : EngineInv(c), [Next]_vars PROVE TypeOK'
  OBVIOUS
<1>1. CASE UNCHANGED vars
  BY <1>1 DEF vars, TypeOK
<1>2. ASSUME NEW e \in Engine \cup {NoEngine}, Push(e) PROVE TypeOK'
  <2>1. Append(pushed, e) \in Seq(Engine \cup {NoEngine}) /\ Len(Append(pushed, e)) = Len(pushed) + 1
    BY AppendType DEF TypeOK
  <2>2. Len(pushed) + 1 \in 1..MaxPushed
    BY <1>2, TurnAssumption DEF Push, TypeOK
  <2> QED BY <1>2, <2>1, <2>2 DEF Push, TypeOK
<1>3. ASSUME NEW c \in Call, NEW r \in Request, Ask(c, r) PROVE TypeOK'
  <2>1. Len(pushed) \in 0..MaxPushed
    BY DEF TypeOK
  <2> QED BY <1>3, <2>1 DEF Ask, TypeOK, Phase
<1>4. ASSUME NEW c \in Call, Take(c) PROVE using' \in [Call -> 0..MaxPushed]
  <2>1. Len(pushed) \in 0..MaxPushed
    BY DEF TypeOK
  <2> QED BY <1>4, <2>1 DEF Take, Current, TypeOK
<1>5. ASSUME NEW c \in Call, Unconfigured(c) \/ Refuse(c) \/ Open(c) PROVE TypeOK'
  BY <1>4, <1>5 DEF Unconfigured, Refuse, Open, Take, TypeOK, Phase, Code
<1>6. ASSUME NEW c \in Call, NEW k \in Checkpoint, Skip(c, k) PROVE TypeOK'
  BY <1>6, ProceedType DEF Skip, TypeOK
<1>7. ASSUME NEW c \in Call, NEW outcome \in Code, NEW pieces \in 1..MaxPieces,
             Complete(c, outcome, pieces)
      PROVE  TypeOK'
  <2>1. Opened(c)
    BY <1>7 DEF Complete, EngineInv
  <2>2. ModelOf(c) \in Model
    BY <2>1, TurnAssumption DEF Opened, ModelOf, Resolves, EngineType
  <2>3. pieces \in 0..MaxPieces
    BY TurnAssumption
  <2>4. /\ phase' \in [Call -> Phase] /\ code' \in [Call -> Code]
        /\ text' \in [Call -> 0..MaxPieces]
    BY <1>7, <2>3 DEF Complete, TypeOK, Phase
  <2> QED BY <1>7, <2>2, <2>4 DEF Complete, TypeOK
<1>8. ASSUME NEW c \in Call, Deliver(c) \/ Done(c) PROVE TypeOK'
  <2>1. PICK x \in {"delta", "done"} : stream' = [stream EXCEPT ![c] = Append(@, x)]
    BY <1>8 DEF Deliver, Done
  <2>2. stream' \in [Call -> Seq({"delta", "done"})]
    BY <2>1, StreamType
  <2>3. phase' \in [Call -> Phase]
    BY <1>8 DEF Deliver, Done, TypeOK, Phase
  <2>4. QED
    BY <1>8, <2>2, <2>3 DEF Deliver, Done, TypeOK
<1>9. ASSUME NEW c \in Call, Abandon(c) \/ Hangup(c) PROVE TypeOK'
  BY <1>9 DEF Abandon, Hangup, TypeOK, Phase
<1>10. QED
  BY <1>1, <1>2, <1>3, <1>5, <1>6, <1>7, <1>8, <1>9, InspectType DEF Next, Handle

-----------------------------------------------------------------------------
(* The invariant, one step of one call at a time.                          *)

\* Nothing that is about the call c changes.
Same(c) ==
  /\ phase'[c] = phase[c] /\ request'[c] = request[c] /\ asked'[c] = asked[c]
  /\ using'[c] = using[c] /\ answers'[c] = answers[c] /\ sent'[c] = sent[c]
  /\ text'[c] = text[c] /\ code'[c] = code[c] /\ stream'[c] = stream[c]
  /\ listening'[c] = listening[c]

Others(c) == \A d \in Call \ {c} : Same(d)

LEMMA SameKeeps ==
  ASSUME NEW c \in Call, CallInv(c), Same(c), pushed' = pushed
  PROVE  CallInv(c)'
<1>1. EngineOf(c)' = EngineOf(c)
  BY DEF Same, EngineOf
<1>2. EngineInv(c)'
  BY <1>1 DEF CallInv, Same, EngineInv, Opened, ModelOf, Resolves
<1>3. AheadInv(c)'
  BY DEF CallInv, Same, AheadInv
<1>4. PastInv(c)'
  BY <1>1 DEF CallInv, Same, PastInv, Past, Guards, RulingOf
<1>5. StreamInv(c)'
  BY DEF CallInv, Same, StreamInv, Due
<1>6. QED
  BY <1>2, <1>3, <1>4, <1>5 DEF CallInv

LEMMA PushKeeps ==
  ASSUME TypeOK, NEW e \in Engine \cup {NoEngine}, Push(e), NEW c \in Call, CallInv(c)
  PROVE  CallInv(c)'
<1>1. /\ Len(pushed') = Len(pushed) + 1
      /\ \A i \in 1..Len(pushed) : pushed'[i] = pushed[i]
  BY DEF Push, TypeOK
<1>2. Same(c)
  BY DEF Push, Same
<1>3. using[c] \in Nat /\ asked[c] \in Nat /\ Len(pushed) \in Nat
  BY TurnAssumption DEF TypeOK
<1>4. using[c] # 0 => pushed'[using[c]] = pushed[using[c]]
  BY <1>1, <1>3 DEF CallInv, EngineInv
<1>5. EngineInv(c)'
  BY <1>1, <1>2, <1>3, <1>4 DEF CallInv, EngineInv, Same, Opened, EngineOf, ModelOf, Resolves
<1>6. AheadInv(c)' /\ StreamInv(c)'
  BY <1>2 DEF CallInv, AheadInv, StreamInv, Same, Due
<1>7. PastInv(c)'
  <2>1. /\ phase[c] = "calling" => using[c] # 0
        /\ sent[c] # Unsent => using[c] # 0
    BY DEF CallInv, EngineInv, Opened
  <2>2. QED
    BY <1>2, <1>4, <2>1 DEF CallInv, PastInv, Same, Past, EngineOf, Guards, RulingOf
<1>8. QED
  BY <1>5, <1>6, <1>7 DEF CallInv

LEMMA AskKeeps ==
  ASSUME TypeOK, NEW c \in Call, NEW r \in Request, CallInv(c), Ask(c, r)
  PROVE  CallInv(c)' /\ Others(c)
<1>1. Others(c)
  BY DEF Ask, Others, Same, TypeOK
<1>2. Len(pushed) \in Nat
  BY DEF TypeOK
<1>3. /\ phase[c] = "idle" /\ phase'[c] = "queued"
      /\ request'[c] = r /\ asked'[c] = Len(pushed) /\ using'[c] = using[c]
      /\ answers' = answers /\ sent' = sent /\ stream' = stream /\ pushed' = pushed
  BY DEF Ask, TypeOK
<1>4. EngineInv(c)'
  BY <1>2, <1>3 DEF CallInv, EngineInv, AheadInv
<1>5. AheadInv(c)' /\ PastInv(c)' /\ StreamInv(c)'
  BY <1>3 DEF CallInv, AheadInv, PastInv, StreamInv
<1>6. QED
  BY <1>1, <1>4, <1>5 DEF CallInv

LEMMA TakeKeeps ==
  ASSUME TypeOK, NEW c \in Call, CallInv(c), Unconfigured(c) \/ Refuse(c) \/ Open(c)
  PROVE  CallInv(c)' /\ Others(c)
<1>1. Others(c)
  BY DEF Unconfigured, Refuse, Open, Take, Others, Same, TypeOK
<1>2. Len(pushed) \in Nat \ {0} /\ Current = Len(pushed)
  BY DEF TypeOK, Current
<1>3. /\ phase[c] = "queued" /\ using'[c] = Len(pushed)
      /\ phase'[c] \in {"prompt", "answering"}
      /\ phase'[c] = "answering" => code'[c] # ""
      /\ pushed' = pushed /\ request' = request /\ asked' = asked /\ answers' = answers
      /\ sent' = sent /\ stream' = stream
  BY <1>2 DEF Unconfigured, Refuse, Open, Take, TypeOK
<1>4. phase'[c] = "prompt" => Opened(c)'
  <2>1. SUFFICES ASSUME phase'[c] = "prompt" PROVE Opened(c)'
    OBVIOUS
  <2>2. Open(c)
    BY <2>1 DEF Unconfigured, Refuse, Take, TypeOK
  <2>3. pushed[Len(pushed)] \in Engine \cup {NoEngine}
    BY <1>2, AskedEngine
  <2>4. QED
    BY <1>2, <1>3, <2>2, <2>3 DEF Open, Opened, EngineOf, Resolves
<1>5. asked[c] \in Nat
  BY DEF TypeOK
<1>6. EngineInv(c)'
  <2>1. sent'[c] = Unsent /\ asked'[c] <= Len(pushed') /\ request'[c] \in Request
    BY <1>3 DEF CallInv, EngineInv, AheadInv
  <2>2. using'[c] = Len(pushed') /\ using'[c] # 0 /\ using'[c] <= Len(pushed')
    <3>1. using'[c] = Len(pushed) /\ pushed' = pushed
      BY <1>3
    <3>2. QED
      BY <1>2, <3>1
  <2>3. phase'[c] \notin {"idle", "queued", "calling", "response"}
    BY <1>3
  <2>4. phase'[c] = "prompt"
        \/ phase'[c] \notin {"idle", "queued", "prompt", "calling", "response"}
    BY <2>3
  <2>5. QED
    BY <1>4, <2>1, <2>2, <2>4 DEF EngineInv
<1>7. AheadInv(c)' /\ PastInv(c)'
  BY <1>3 DEF CallInv, AheadInv, PastInv
<1>8. StreamInv(c)'
  <2>1. stream'[c] = <<>> /\ phase'[c] # "over"
    BY <1>3 DEF CallInv, AheadInv
  <2>2. phase'[c] = "answering" => Due(c)' = 0
    BY <1>3 DEF Due
  <2>3. QED
    BY <2>1, <2>2 DEF StreamInv
<1>9. QED
  BY <1>1, <1>6, <1>7, <1>8 DEF CallInv

LEMMA AppendLooks ==
  ASSUME NEW S, NEW s \in Seq(S), NEW x \in S
  PROVE  /\ Len(Append(s, x)) = Len(s) + 1
         /\ \A i \in 1..Len(s) : Append(s, x)[i] = s[i]
         /\ Append(s, x)[Len(s) + 1] = x
OBVIOUS

LEMMA EmptyStream ==
  \A s, n : s = <<>> /\ n \in Nat => Len(s) <= n /\ 1..Len(s) = {}
OBVIOUS

\* A verdict that passes is what opens the checkpoint.
LEMMA PassesOpens ==
  ASSUME NEW e, NEW a \in ScanResponse \cup {Failed}, Passes(e, VerdictOf(a))
  PROVE  RulingOf(a) = "clear" \/ (RulingOf(a) = "failed" /\ e.failOpen)
BY TurnAssumption DEF Passes, VerdictOf, Ruled, RulingOf

\* Going on past a checkpoint that is open, and has been put to the scan service
\* or does not need to be.
LEMMA ProceedKeeps ==
  ASSUME TypeOK, NEW c \in Call, NEW k \in Checkpoint, CallInv(c), phase[c] = k,
         Proceed(c, k), Past(c, k)', UNCHANGED <<pushed, request, asked, using, sent, text, stream, listening>>,
         k = "prompt" => answers'[c]["response"] = answers[c]["response"]
  PROVE  CallInv(c)'
<1>1. EngineOf(c)' = EngineOf(c)
  BY DEF EngineOf
<1>2. Opened(c) /\ Opened(c)'
  BY <1>1 DEF CallInv, EngineInv, Checkpoint, Opened, Resolves
<1>3. CASE k = "prompt"
  <2>1. phase'[c] = "calling" /\ code' = code
    BY <1>3 DEF Proceed, TypeOK
  <2>2. answers'[c]["response"] = Unasked /\ sent'[c] = Unsent /\ stream'[c] = <<>>
    BY <1>3 DEF CallInv, AheadInv
  <2>3. EngineInv(c)'
    BY <1>2, <1>3, <2>1, <2>2 DEF CallInv, EngineInv
  <2>4. AheadInv(c)' /\ PastInv(c)' /\ StreamInv(c)'
    BY <1>3, <2>1, <2>2 DEF AheadInv, PastInv, StreamInv
  <2>5. QED
    BY <2>3, <2>4 DEF CallInv
<1>4. CASE k = "response"
  <2>1. phase'[c] = "answering" /\ code'[c] = ""
    BY <1>4 DEF Proceed, TypeOK
  <2>2. sent'[c] # Unsent /\ stream'[c] = <<>>
    BY <1>4 DEF CallInv, AheadInv, PastInv
  <2>3. EngineInv(c)'
    <3>1. ModelOf(c)' = ModelOf(c)
      BY <1>1 DEF ModelOf
    <3>2. QED
      BY <1>2, <1>4, <2>1, <3>1 DEF CallInv, EngineInv
  <2>4. StreamInv(c)'
    <3>1. text'[c] \in Nat
      BY TurnAssumption DEF TypeOK
    <3>2. Due(c)' \in Nat
      BY <3>1 DEF Due
    <3>3. Len(stream'[c]) <= Due(c)' /\ 1..Len(stream'[c]) = {}
      BY <2>2, <3>2, EmptyStream
    <3>4. QED
      BY <2>1, <3>3 DEF StreamInv
  <2>5. AheadInv(c)' /\ PastInv(c)'
    BY <1>4, <2>1, <2>2 DEF AheadInv, PastInv
  <2>6. QED
    BY <2>3, <2>4, <2>5 DEF CallInv
<1>5. QED
  BY <1>3, <1>4 DEF Checkpoint

LEMMA SkipKeeps ==
  ASSUME TypeOK, NEW c \in Call, NEW k \in Checkpoint, CallInv(c), Skip(c, k)
  PROVE  CallInv(c)' /\ Others(c)
<1>1. Others(c)
  BY DEF Skip, Proceed, Others, Same, TypeOK
<1>2. Past(c, k)'
  BY DEF Skip, Past, EngineOf
<1>3. QED
  BY <1>1, <1>2, ProceedKeeps DEF Skip

\* A turn that ends with a code instead of a reply, at a point where nothing of a
\* reply has been sent.
LEMMA StopKeeps ==
  ASSUME TypeOK, NEW c \in Call, CallInv(c),
         phase[c] \in {"prompt", "calling", "response"},
         phase'[c] \in {"answering", "over"}, code'[c] # "",
         phase'[c] = "over" => code'[c] = "raised",
         sent'[c] \in {sent[c], ModelOf(c)},
         UNCHANGED <<pushed, request, asked, using, stream, listening>>
  PROVE  CallInv(c)'
<1>1. EngineOf(c)' = EngineOf(c)
  BY DEF EngineOf
<1>2. Opened(c) /\ Opened(c)' /\ ModelOf(c)' = ModelOf(c)
  BY <1>1 DEF CallInv, EngineInv, Opened, Resolves, ModelOf
<1>3. EngineInv(c)'
  BY <1>2 DEF CallInv, EngineInv
<1>4. AheadInv(c)' /\ PastInv(c)'
  BY DEF AheadInv, PastInv
<1>5. StreamInv(c)'
  <2>1. stream'[c] = <<>> /\ Due(c)' = 0
    BY DEF CallInv, AheadInv, Due
  <2>2. Len(stream'[c]) <= 0 /\ 1..Len(stream'[c]) = {}
    <3>1. 0 \in Nat
      OBVIOUS
    <3>2. QED
      BY <2>1, <3>1, EmptyStream
  <2>3. Len(stream'[c]) <= Due(c)'
    BY <2>1, <2>2
  <2>4. QED
    BY <2>2, <2>3 DEF StreamInv
<1>6. QED
  BY <1>3, <1>4, <1>5 DEF CallInv

LEMMA InspectKeeps ==
  ASSUME TypeOK, NEW c \in Call, NEW k \in Checkpoint, NEW a \in ScanResponse \cup {Failed},
         CallInv(c), Inspect(c, k, a)
  PROVE  CallInv(c)' /\ Others(c)
<1>1. Others(c)
  BY DEF Inspect, Proceed, Others, Same, TypeOK
<1>2. /\ answers'[c][k] = a
      /\ \A j \in Checkpoint \ {k} : answers'[c][j] = answers[c][j]
  BY DEF Inspect, TypeOK
<1>3. CASE Passes(EngineOf(c), VerdictOf(a))
  <2>1. Past(c, k)'
    BY <1>2, <1>3, PassesOpens DEF Past, EngineOf, Inspect
  <2>2. QED
    BY <1>1, <1>2, <1>3, <2>1, ProceedKeeps DEF Inspect, Checkpoint
<1>4. CASE ~Passes(EngineOf(c), VerdictOf(a))
  <2>1. phase'[c] = "answering" /\ code'[c] = StopCode(VerdictOf(a))
    BY <1>4 DEF Inspect, TypeOK
  <2>2. code'[c] # ""
    BY <2>1 DEF StopCode
  <2>3. QED
    BY <1>1, <2>1, <2>2, StopKeeps DEF Inspect, Checkpoint
<1>5. QED
  BY <1>3, <1>4

LEMMA CompleteKeeps ==
  ASSUME TypeOK, NEW c \in Call, NEW outcome \in Code, NEW pieces \in 1..MaxPieces, CallInv(c),
         Complete(c, outcome, pieces)
  PROVE  CallInv(c)' /\ Others(c)
<1>1. Others(c)
  BY DEF Complete, Others, Same, TypeOK
<1>2. sent'[c] = ModelOf(c) /\ phase[c] = "calling"
  BY DEF Complete, TypeOK
<1>3. Opened(c) /\ EngineOf(c)' = EngineOf(c)
  BY <1>2 DEF CallInv, EngineInv, EngineOf, Complete
<1>4. CASE outcome = ""
  <2>1. phase'[c] = "response"
    BY <1>4 DEF Complete, TypeOK
  <2>2. ModelOf(c) \in Model
    BY <1>3, TurnAssumption DEF Opened, ModelOf, Resolves, EngineType
  <2>3. Opened(c)' /\ ModelOf(c)' = ModelOf(c)
    BY <1>3 DEF Complete, Opened, ModelOf, Resolves
  <2>4. EngineInv(c)'
    BY <1>2, <2>1, <2>3 DEF CallInv, EngineInv, Complete
  <2>5. AheadInv(c)' /\ PastInv(c)' /\ StreamInv(c)'
    BY <1>2, <2>1, <2>2, TurnAssumption
       DEF CallInv, AheadInv, PastInv, StreamInv, Complete
  <2>6. QED
    BY <1>1, <2>4, <2>5 DEF CallInv
<1>5. CASE outcome # ""
  <2>1. /\ phase'[c] \in {"answering", "over"} /\ code'[c] # ""
        /\ phase'[c] = "over" => code'[c] = "raised"
    BY <1>5 DEF Complete, TypeOK
  <2>2. QED
    BY <1>1, <1>2, <2>1, StopKeeps DEF Complete
<1>6. QED
  BY <1>4, <1>5

LEMMA DeliverKeeps ==
  ASSUME TypeOK, NEW c \in Call, CallInv(c), Deliver(c)
  PROVE  CallInv(c)' /\ Others(c)
<1>1. Others(c)
  BY DEF Deliver, Others, Same, TypeOK
<1>2. stream[c] \in Seq({"delta", "done"}) /\ text[c] \in Nat
  BY TurnAssumption DEF TypeOK
<1>3. /\ phase[c] = "answering" /\ phase' = phase /\ code' = code /\ text' = text
      /\ Remaining(c) > 0
      /\ stream'[c] = Append(stream[c], "delta")
  BY DEF Deliver, TypeOK
<1> DEFINE n == Len(stream[c])
<1>8. n \in Nat
  BY <1>2
<1>9. Due(c) = text[c] /\ Due(c)' = Due(c) /\ code[c] = "" /\ n + 1 <= Due(c)
  <2>1. code[c] = ""
    <3>1. code[c] # "" => Remaining(c) = 0
      BY DEF Remaining
    <3>2. Remaining(c) # 0
      <4>1. ~(0 > 0)
        OBVIOUS
      <4>2. QED
        BY <4>1 DEF Deliver
    <3>3. QED
      BY <3>1, <3>2
  <2>2. Remaining(c) = text[c] - n
    BY <2>1 DEF Remaining
  <2>3. Due(c) = text[c] /\ Due(c)' = Due(c)
    BY <1>3, <2>1 DEF Due
  <2>4. n + 1 <= text[c]
    <3> HIDE DEF n
    <3> QED BY <1>2, <1>3, <1>8, <2>2
  <2>5. QED
    BY <2>1, <2>3, <2>4
<1>4. /\ Len(stream'[c]) = Len(stream[c]) + 1
      /\ \A i \in 1..Len(stream[c]) : stream'[c][i] = stream[c][i]
      /\ stream'[c][Len(stream[c]) + 1] = "delta"
  BY <1>2, <1>3, AppendLooks
<1>5. StreamInv(c)'
  <2>1. \A i \in 1..n : stream[c][i] = "delta"
    BY <1>3 DEF CallInv, StreamInv
  <2>2. \A i \in 1..(n + 1) : stream'[c][i] = "delta"
    BY <1>4, <1>8, <2>1
  <2>3. QED
    BY <1>3, <1>4, <1>9, <2>2 DEF StreamInv
<1>6. EngineInv(c)' /\ AheadInv(c)' /\ PastInv(c)'
  BY <1>3 DEF Deliver, CallInv, EngineInv, AheadInv, PastInv, Opened, EngineOf, Resolves, ModelOf,
              Past, Guards, RulingOf
<1>7. QED
  BY <1>1, <1>5, <1>6 DEF CallInv

LEMMA DoneKeeps ==
  ASSUME TypeOK, NEW c \in Call, CallInv(c), Done(c)
  PROVE  CallInv(c)' /\ Others(c)
<1>1. Others(c)
  BY DEF Done, Others, Same, TypeOK
<1>2. stream[c] \in Seq({"delta", "done"}) /\ text[c] \in Nat
  BY TurnAssumption DEF TypeOK
<1>3. /\ phase[c] = "answering" /\ phase'[c] = "over" /\ code' = code /\ text' = text
      /\ Remaining(c) = 0
      /\ stream'[c] = Append(stream[c], "done")
  BY DEF Done, TypeOK
<1>4. Len(stream[c]) = Due(c)
  <2>1. Len(stream[c]) \in Nat /\ Len(stream[c]) <= Due(c)
    BY <1>2, <1>3 DEF CallInv, StreamInv
  <2>2. CASE code[c] = ""
    <3>1. Remaining(c) = text[c] - Len(stream[c]) /\ Due(c) = text[c]
      BY <2>2 DEF Remaining, Due
    <3>2. QED
      BY <1>2, <1>3, <2>1, <3>1
  <2>3. CASE code[c] # ""
    <3>1. Due(c) = 0
      BY <2>3 DEF Due
    <3>2. QED
      BY <2>1, <3>1
  <2>4. QED
    BY <2>2, <2>3
<1>5. /\ Len(stream'[c]) = Len(stream[c]) + 1
      /\ \A i \in 1..Len(stream[c]) : stream'[c][i] = stream[c][i]
      /\ stream'[c][Len(stream[c]) + 1] = "done"
  BY <1>2, <1>3, AppendLooks
<1>6. \A i \in 1..Len(stream[c]) : stream[c][i] = "delta"
  BY <1>3 DEF CallInv, StreamInv
<1>7. \A i \in 1..Len(stream'[c]) : stream'[c][i] = "done" <=> i = Len(stream'[c])
  BY <1>2, <1>5, <1>6
<1>8. Due(c)' = Due(c)
  BY <1>3 DEF Due
<1>9. StreamInv(c)'
  BY <1>3, <1>4, <1>5, <1>7, <1>8 DEF StreamInv
<1>10. EngineInv(c)' /\ AheadInv(c)' /\ PastInv(c)'
  BY <1>3 DEF Done, CallInv, EngineInv, AheadInv, PastInv, Opened, EngineOf, Resolves, ModelOf
<1>11. QED
  BY <1>1, <1>9, <1>10 DEF CallInv

LEMMA LeaveKeeps ==
  ASSUME TypeOK, NEW c \in Call, CallInv(c), Abandon(c) \/ Hangup(c)
  PROVE  CallInv(c)' /\ Others(c)
<1>1. Others(c)
  BY DEF Abandon, Hangup, Others, Same, TypeOK
<1>2. CASE Abandon(c)
  <2>1. phase[c] \in {"queued", "answering"} /\ phase'[c] = "over" /\ ~listening'[c]
    BY <1>2 DEF Abandon, TypeOK
  <2>2. EngineInv(c)' /\ AheadInv(c)' /\ PastInv(c)' /\ StreamInv(c)'
    BY <1>2, <2>1 DEF Abandon, CallInv, EngineInv, AheadInv, PastInv, StreamInv, Opened, EngineOf,
                      Resolves, ModelOf
  <2>3. QED
    BY <1>1, <2>2 DEF CallInv
<1>3. CASE Hangup(c)
  <2>1. phase[c] # "over" /\ phase' = phase
    BY <1>3 DEF Hangup
  <2>2. EngineInv(c)' /\ AheadInv(c)'
    BY <1>3 DEF Hangup, CallInv, EngineInv, AheadInv, Opened, EngineOf, Resolves, ModelOf
  <2>3. PastInv(c)' /\ StreamInv(c)'
    BY <1>3, <2>1 DEF Hangup, CallInv, PastInv, StreamInv, Past, EngineOf, Guards, RulingOf, Due
  <2>4. QED
    BY <1>1, <2>2, <2>3 DEF CallInv
<1>4. QED
  BY <1>2, <1>3

LEMMA InitKeeps == Init => TurnInv
<1> SUFFICES ASSUME Init, NEW c \in Call PROVE CallInv(c)
  BY InitType DEF TurnInv
<1>1. Len(pushed) \in Nat
  BY DEF Init
<1>2. /\ phase[c] = "idle" /\ asked[c] = 0 /\ using[c] = 0 /\ sent[c] = Unsent
      /\ stream[c] = <<>> /\ answers[c]["prompt"] = Unasked /\ answers[c]["response"] = Unasked
  BY DEF Init, Checkpoint
<1>3. EngineInv(c) /\ AheadInv(c) /\ PastInv(c) /\ StreamInv(c)
  BY <1>1, <1>2 DEF EngineInv, AheadInv, PastInv, StreamInv
<1>4. QED
  BY <1>3 DEF CallInv

\* What a step of one call leaves behind, its own part and that of the others.
LEMMA OneCall ==
  ASSUME TurnInv, NEW c \in Call, CallInv(c)', Others(c), pushed' = pushed
  PROVE  \A d \in Call : CallInv(d)'
<1> SUFFICES ASSUME NEW d \in Call PROVE CallInv(d)'
  OBVIOUS
<1>1. CASE d = c
  BY <1>1
<1>2. CASE d # c
  BY <1>2, SameKeeps DEF Others, TurnInv
<1>3. QED
  BY <1>1, <1>2

LEMMA StepKeeps == TurnInv /\ [Next]_vars => TurnInv'
<1> SUFFICES ASSUME TurnInv, [Next]_vars PROVE TurnInv'
  OBVIOUS
<1>1. TypeOK'
  BY StepType DEF TurnInv, CallInv
<1>2. TypeOK /\ \A c \in Call : CallInv(c)
  BY DEF TurnInv
<1>3. CASE UNCHANGED vars
  <2>1. pushed' = pushed /\ \A c \in Call : Same(c)
    BY <1>3 DEF vars, Same
  <2>2. QED
    BY <1>1, <1>2, <2>1, SameKeeps DEF TurnInv
<1>4. ASSUME NEW e \in Engine \cup {NoEngine}, Push(e) PROVE TurnInv'
  BY <1>1, <1>2, <1>4, PushKeeps DEF TurnInv
<1>5. ASSUME NEW c \in Call, NEW r \in Request, Ask(c, r) PROVE TurnInv'
  <2>1. pushed' = pushed
    BY <1>5 DEF Ask
  <2>2. QED
    BY <1>1, <1>2, <1>5, <2>1, AskKeeps, OneCall DEF TurnInv
<1>6. ASSUME NEW c \in Call, Handle(c) PROVE TurnInv'
  <2>1. pushed' = pushed
    BY <1>6 DEF Handle, Unconfigured, Refuse, Open, Take, Skip, Complete, Deliver, Done, Abandon
  <2>2. CallInv(c)' /\ Others(c)
    BY <1>2, <1>6, TakeKeeps, SkipKeeps, CompleteKeeps, DeliverKeeps, DoneKeeps, LeaveKeeps
       DEF Handle
  <2>3. QED
    BY <1>1, <2>1, <2>2, OneCall DEF TurnInv
<1>7. ASSUME NEW c \in Call, NEW k \in Checkpoint, NEW a \in ScanResponse \cup {Failed},
             Inspect(c, k, a)
      PROVE  TurnInv'
  <2>1. pushed' = pushed
    BY <1>7 DEF Inspect
  <2>2. QED
    BY <1>1, <1>2, <1>7, <2>1, InspectKeeps, OneCall DEF TurnInv
<1>8. ASSUME NEW c \in Call, Hangup(c) PROVE TurnInv'
  <2>1. pushed' = pushed
    BY <1>8 DEF Hangup
  <2>2. QED
    BY <1>1, <1>2, <1>8, <2>1, LeaveKeeps, OneCall DEF TurnInv
<1>9. QED
  BY <1>3, <1>4, <1>5, <1>6, <1>7, <1>8 DEF Next

LEMMA TurnCorrect == Spec => []TurnInv
BY InitKeeps, StepKeeps, PTL DEF Spec, Safety

-----------------------------------------------------------------------------
(* A turn keeps the gate: what a step shows of a call, and the step of the *)
(* gate that it is.                                                        *)

SameView(c) ==
  /\ PolicyOf(c)' = PolicyOf(c) /\ RulingsOf(c)' = RulingsOf(c)
  /\ Left(c)' = Left(c) /\ Shown(c)' = Shown(c)

LEMMA SameIsSameView ==
  ASSUME NEW c \in Call, Same(c), pushed' = pushed
  PROVE  SameView(c)
BY DEF Same, SameView, PolicyOf, EngineOf, Guards, RulingsOf, RulingOf, Left, Shown

LEMMA StutterMaps ==
  ASSUME \A c \in Call : SameView(c)
  PROVE  UNCHANGED Gate!gateVars
BY DEF SameView, Gate!gateVars

LEMMA BeginMaps ==
  ASSUME NEW c \in Call, \A d \in Call \ {c} : SameView(d),
         PolicyOf(c) = Undecided, PolicyOf(c)' \in Gate!Policy,
         RulingsOf(c)' = RulingsOf(c), Left(c)' = Left(c), Shown(c)' = Shown(c)
  PROVE  Gate!GateNext
<1>1. Gate!Begin(c, PolicyOf(c)')
  BY DEF Gate!Begin, SameView
<1>2. QED
  BY <1>1 DEF Gate!GateNext

LEMMA RuleMaps ==
  ASSUME NEW c \in Call, \A d \in Call \ {c} : SameView(d),
         NEW k \in Checkpoint, NEW r \in {"clear", "against", "failed"},
         PolicyOf(c) # Undecided, k \in PolicyOf(c).guards, RulingsOf(c)[k] = "unasked",
         k = "response" => Left(c), RulingsOf(c)' = [RulingsOf(c) EXCEPT ![k] = r],
         PolicyOf(c)' = PolicyOf(c), Left(c)' = Left(c), Shown(c)' = Shown(c)
  PROVE  Gate!GateNext
<1>1. Gate!Rule(c, k, r)
  BY DEF Gate!Rule, SameView
<1>2. k \in Gate!Checkpoint /\ r \in Gate!Ruling \ {"unasked"}
  BY DEF Checkpoint, Gate!Checkpoint, Gate!Ruling
<1>3. QED
  BY <1>1, <1>2 DEF Gate!GateNext

OpenView(c, k) ==
  /\ PolicyOf(c) # Undecided
  /\ \/ k \notin PolicyOf(c).guards
     \/ RulingsOf(c)[k] = "clear"
     \/ RulingsOf(c)[k] = "failed" /\ PolicyOf(c).failOpen

LEMMA LeaveMaps ==
  ASSUME NEW c \in Call, \A d \in Call \ {c} : SameView(d),
         ~Left(c), Left(c)', OpenView(c, "prompt"),
         PolicyOf(c)' = PolicyOf(c), RulingsOf(c)' = RulingsOf(c), Shown(c)' = Shown(c)
  PROVE  Gate!GateNext
<1>1. Gate!Open(c, "prompt")
  BY DEF Gate!Open, OpenView
<1>2. Gate!Leave(c)
  BY <1>1 DEF Gate!Leave, SameView, Left
<1>3. QED
  BY <1>2 DEF Gate!GateNext

LEMMA ShowMaps ==
  ASSUME NEW c \in Call, \A d \in Call \ {c} : SameView(d),
         Left(c), ~Shown(c), Shown(c)', OpenView(c, "response"),
         PolicyOf(c)' = PolicyOf(c), RulingsOf(c)' = RulingsOf(c), Left(c)' = Left(c)
  PROVE  Gate!GateNext
<1>1. Gate!Open(c, "response")
  BY DEF Gate!Open, OpenView
<1>2. Gate!Show(c)
  BY <1>1 DEF Gate!Show, SameView, Shown
<1>3. QED
  BY <1>2 DEF Gate!GateNext

\* The policy of a turn that is open is its engine's.
LEMMA OpenedPolicy ==
  ASSUME NEW c \in Call, Opened(c)
  PROVE  /\ PolicyOf(c) = [guards |-> Guards(EngineOf(c)), failOpen |-> EngineOf(c).failOpen]
         /\ PolicyOf(c) \in Gate!Policy /\ PolicyOf(c) # Undecided
         /\ \A k \in Checkpoint : OpenView(c, k) <=> Past(c, k)
<1>1. EngineOf(c) \in EngineType /\ EngineOf(c) # NoEngine /\ using[c] # 0
  BY TurnAssumption DEF Opened
<1>2. PolicyOf(c) = [guards |-> Guards(EngineOf(c)), failOpen |-> EngineOf(c).failOpen]
  BY <1>1 DEF PolicyOf
<1>3. Guards(EngineOf(c)) \in SUBSET Checkpoint /\ EngineOf(c).failOpen \in BOOLEAN
  BY <1>1 DEF Guards, EngineType
<1>4. PolicyOf(c) \in [guards: SUBSET Checkpoint, failOpen: BOOLEAN]
  BY <1>2, <1>3
<1>5. PolicyOf(c) # Undecided
  BY <1>4, TurnAssumption
<1>6. PolicyOf(c) \in Gate!Policy
  BY <1>4 DEF Gate!Policy, Gate!Checkpoint, Checkpoint
<1>7. \A k \in Checkpoint : RulingsOf(c)[k] = RulingOf(answers[c][k])
  BY DEF RulingsOf
<1>8. \A k \in Checkpoint : OpenView(c, k) <=> Past(c, k)
  BY <1>2, <1>5, <1>7 DEF OpenView, Past
<1>9. QED
  BY <1>2, <1>5, <1>6, <1>8

LEMMA InitMaps == Init => Gate!GateInit
<1> SUFFICES ASSUME Init PROVE Gate!GateInit
  OBVIOUS
<1>1. \A c \in Call : PolicyOf(c) = Undecided /\ Left(c) = FALSE /\ Shown(c) = FALSE
  BY DEF Init, PolicyOf, Left, Shown
<1>2. \A c \in Call : RulingsOf(c) = [k \in Gate!Checkpoint |-> "unasked"]
  BY DEF Init, RulingsOf, RulingOf, Checkpoint, Gate!Checkpoint
<1>3. QED
  BY <1>1, <1>2 DEF Gate!GateInit

LEMMA TakeMaps ==
  ASSUME TurnInv, NEW c \in Call, Unconfigured(c) \/ Refuse(c) \/ Open(c)
  PROVE  [Gate!GateNext]_(Gate!gateVars)
<1>1. pushed' = pushed /\ using'[c] = Len(pushed) /\ Len(pushed) \in Nat \ {0}
  BY DEF TurnInv, TypeOK, Unconfigured, Refuse, Open, Take, Current
<1>2. \A d \in Call \ {c} : SameView(d)
  BY <1>1, TakeKeeps, SameIsSameView DEF TurnInv, Others
<1>3. /\ RulingsOf(c)' = RulingsOf(c) /\ Left(c)' = Left(c) /\ Shown(c)' = Shown(c)
  BY DEF Unconfigured, Refuse, Open, Take, RulingsOf, RulingOf, Left, Shown
<1>4. PolicyOf(c) = Undecided
  <2>1. phase[c] = "queued"
    BY DEF Unconfigured, Refuse, Open, Take
  <2>2. QED
    BY <2>1 DEF TurnInv, CallInv, EngineInv, PolicyOf
<1>5. EngineOf(c)' = pushed[Len(pushed)]
  BY <1>1 DEF EngineOf
<1>6. CASE pushed[Len(pushed)] = NoEngine
  <2>1. PolicyOf(c)' = Undecided
    BY <1>1, <1>5, <1>6 DEF PolicyOf
  <2>2. \A d \in Call : SameView(d)
    BY <1>2, <1>3, <1>4, <2>1 DEF SameView
  <2>3. QED
    BY <2>2, StutterMaps
<1>7. CASE pushed[Len(pushed)] # NoEngine
  <2>1. EngineOf(c)' \in EngineType
    BY <1>1, <1>5, <1>7, AskedEngine, TurnAssumption DEF TurnInv
  <2>2. PolicyOf(c)' = [guards |-> Guards(EngineOf(c)'), failOpen |-> EngineOf(c)'.failOpen]
    BY <1>1, <1>5, <1>7 DEF PolicyOf, Guards
  <2>3. Guards(EngineOf(c)') \in SUBSET Checkpoint /\ EngineOf(c)'.failOpen \in BOOLEAN
    BY <2>1 DEF Guards, EngineType
  <2>4. PolicyOf(c)' \in Gate!Policy
    BY <2>2, <2>3 DEF Gate!Policy, Gate!Checkpoint, Checkpoint
  <2>5. QED
    BY <1>2, <1>3, <1>4, <2>4, BeginMaps
<1>8. QED
  BY <1>6, <1>7

LEMMA InspectMaps ==
  ASSUME TurnInv, NEW c \in Call, NEW k \in Checkpoint, NEW a \in ScanResponse \cup {Failed},
         Inspect(c, k, a)
  PROVE  [Gate!GateNext]_(Gate!gateVars)
<1>1. pushed' = pushed /\ phase[c] = k /\ k \in Guards(EngineOf(c))
  BY DEF Inspect
<1>2. \A d \in Call \ {c} : SameView(d)
  BY <1>1, InspectKeeps, SameIsSameView DEF TurnInv, Others
<1>3. Opened(c) /\ answers[c][k] = Unasked /\ (k = "response" => Left(c))
  BY <1>1 DEF TurnInv, CallInv, EngineInv, AheadInv, PastInv, Checkpoint, Left
<1>4. PolicyOf(c) # Undecided /\ k \in PolicyOf(c).guards
  BY <1>1, <1>3, OpenedPolicy
<1>5. PolicyOf(c)' = PolicyOf(c) /\ Left(c)' = Left(c) /\ Shown(c)' = Shown(c)
  BY DEF Inspect, PolicyOf, EngineOf, Guards, Left, Shown
<1>6. RulingsOf(c)[k] = "unasked"
  BY <1>3 DEF RulingsOf, RulingOf
<1>7. RulingOf(a) \in {"clear", "against", "failed"}
  BY TurnAssumption DEF RulingOf
<1>8. RulingsOf(c)' = [RulingsOf(c) EXCEPT ![k] = RulingOf(a)]
  <2>1. answers'[c][k] = a /\ \A j \in Checkpoint \ {k} : answers'[c][j] = answers[c][j]
    BY DEF Inspect, TurnInv, TypeOK
  <2>2. RulingsOf(c)' = [j \in Checkpoint |-> RulingOf(answers'[c][j])]
    BY DEF RulingsOf, RulingOf
  <2>3. QED
    BY <2>1, <2>2 DEF RulingsOf
<1>9. QED
  BY <1>2, <1>3, <1>4, <1>5, <1>6, <1>7, <1>8, RuleMaps

LEMMA CompleteMaps ==
  ASSUME TurnInv, NEW c \in Call, NEW outcome \in Code, NEW pieces \in 1..MaxPieces,
         Complete(c, outcome, pieces)
  PROVE  [Gate!GateNext]_(Gate!gateVars)
<1>1. pushed' = pushed /\ phase[c] = "calling" /\ sent'[c] = ModelOf(c)
  BY DEF Complete, TurnInv, TypeOK
<1>2. \A d \in Call \ {c} : SameView(d)
  BY <1>1, CompleteKeeps, SameIsSameView DEF TurnInv, Others
<1>3. Opened(c) /\ ~Left(c) /\ Past(c, "prompt")
  BY <1>1 DEF TurnInv, CallInv, EngineInv, AheadInv, PastInv, Left
<1>4. OpenView(c, "prompt")
  BY <1>3, OpenedPolicy DEF Checkpoint
<1>5. Left(c)'
  <2>1. ModelOf(c) \in Model
    BY <1>3, TurnAssumption DEF Opened, ModelOf, Resolves, EngineType
  <2>2. QED
    BY <1>1, <2>1, TurnAssumption DEF Left
<1>6. PolicyOf(c)' = PolicyOf(c) /\ RulingsOf(c)' = RulingsOf(c) /\ Shown(c)' = Shown(c)
  BY DEF Complete, PolicyOf, EngineOf, Guards, RulingsOf, RulingOf, Shown
<1>7. QED
  BY <1>2, <1>3, <1>4, <1>5, <1>6, LeaveMaps

LEMMA StreamMaps ==
  ASSUME TurnInv, NEW c \in Call, Deliver(c) \/ Done(c)
  PROVE  [Gate!GateNext]_(Gate!gateVars)
<1>1. pushed' = pushed /\ phase[c] = "answering"
  BY DEF Deliver, Done
<1>2. \A d \in Call \ {c} : SameView(d)
  BY <1>1, DeliverKeeps, DoneKeeps, SameIsSameView DEF TurnInv, Others
<1>3. PolicyOf(c)' = PolicyOf(c) /\ RulingsOf(c)' = RulingsOf(c) /\ Left(c)' = Left(c)
  BY DEF Deliver, Done, PolicyOf, EngineOf, Guards, RulingsOf, RulingOf, Left
<1>4. stream[c] \in Seq({"delta", "done"})
  BY DEF TurnInv, TypeOK
<1>5. PICK x \in {"delta", "done"} :
        /\ stream'[c] = Append(stream[c], x)
        /\ x = "done" => Done(c)
        /\ x = "delta" => Deliver(c)
  BY DEF Deliver, Done, TurnInv, TypeOK
<1>6. stream'[c] # <<>>
      /\ stream'[c][1] = IF stream[c] = <<>> THEN x ELSE stream[c][1]
  BY <1>4, <1>5
<1>7. CASE stream[c] = <<>> /\ x = "delta"
  <2>1. ~Shown(c) /\ Shown(c)'
    BY <1>6, <1>7 DEF Shown
  <2>2. code[c] = ""
    <3>1. Remaining(c) > 0
      BY <1>5, <1>7 DEF Deliver
    <3>2. code[c] # "" => Remaining(c) = 0
      BY DEF Remaining
    <3>3. ~(0 > 0)
      OBVIOUS
    <3>4. QED
      BY <3>1, <3>2, <3>3
  <2>3. Left(c) /\ Opened(c) /\ Past(c, "response")
    BY <1>1, <2>2 DEF TurnInv, CallInv, EngineInv, PastInv, Left
  <2>4. OpenView(c, "response")
    BY <2>3, OpenedPolicy DEF Checkpoint
  <2>5. QED
    BY <1>2, <1>3, <2>1, <2>3, <2>4, ShowMaps
<1>8. CASE ~(stream[c] = <<>> /\ x = "delta")
  <2>1. Shown(c)' = Shown(c)
    BY <1>6, <1>8 DEF Shown
  <2>2. \A d \in Call : SameView(d)
    BY <1>2, <1>3, <2>1 DEF SameView
  <2>3. QED
    BY <2>2, StutterMaps
<1>9. QED
  BY <1>7, <1>8

\* A push leaves the policy of every turn alone: it keeps the engine it took.
LEMMA PushMaps ==
  ASSUME TurnInv, NEW e \in Engine \cup {NoEngine}, Push(e)
  PROVE  UNCHANGED Gate!gateVars
<1> SUFFICES ASSUME NEW c \in Call PROVE SameView(c)
  BY StutterMaps
<1>1. \A i \in 1..Len(pushed) : pushed'[i] = pushed[i]
  BY DEF Push, TurnInv, TypeOK
<1>2. using[c] \in Nat /\ using[c] <= Len(pushed) /\ Len(pushed) \in Nat /\ using' = using
  BY TurnAssumption DEF TurnInv, TypeOK, CallInv, EngineInv, Push
<1>3. using[c] # 0 => EngineOf(c)' = EngineOf(c)
  BY <1>1, <1>2 DEF EngineOf
<1>4. PolicyOf(c)' = PolicyOf(c)
  BY <1>2, <1>3 DEF PolicyOf, Guards
<1>5. RulingsOf(c)' = RulingsOf(c) /\ Left(c)' = Left(c) /\ Shown(c)' = Shown(c)
  BY DEF Push, RulingsOf, RulingOf, Left, Shown
<1>6. QED
  BY <1>4, <1>5 DEF SameView

\* A step that shows nothing of the gate.
LEMMA QuietMaps ==
  ASSUME NEW c \in Call,
         UNCHANGED <<pushed, using, answers, sent, stream>>
  PROVE  UNCHANGED Gate!gateVars
<1>1. \A d \in Call : SameView(d)
  BY DEF SameView, PolicyOf, EngineOf, Guards, RulingsOf, RulingOf, Left, Shown
<1>2. QED
  BY <1>1, StutterMaps

LEMMA StepMaps == TurnInv /\ [Next]_vars => [Gate!GateNext]_(Gate!gateVars)
<1> SUFFICES ASSUME TurnInv, [Next]_vars PROVE [Gate!GateNext]_(Gate!gateVars)
  OBVIOUS
<1>1. CASE UNCHANGED vars
  <2>1. \A d \in Call : SameView(d)
    BY <1>1 DEF vars, SameView, PolicyOf, EngineOf, Guards, RulingsOf, RulingOf, Left, Shown
  <2>2. QED
    BY <2>1, StutterMaps
<1>2. ASSUME NEW e \in Engine \cup {NoEngine}, Push(e) PROVE UNCHANGED Gate!gateVars
  BY <1>2, PushMaps
<1>3. ASSUME NEW c \in Call, NEW r \in Request, Ask(c, r) PROVE UNCHANGED Gate!gateVars
  BY <1>3, QuietMaps DEF Ask
<1>4. ASSUME NEW c \in Call, Handle(c) PROVE [Gate!GateNext]_(Gate!gateVars)
  <2>1. CASE Unconfigured(c) \/ Refuse(c) \/ Open(c)
    BY <2>1, TakeMaps
  <2>2. ASSUME NEW k \in Checkpoint, Skip(c, k) PROVE UNCHANGED Gate!gateVars
    BY <2>2, QuietMaps DEF Skip
  <2>3. ASSUME NEW outcome \in Code, NEW pieces \in 1..MaxPieces, Complete(c, outcome, pieces)
        PROVE  [Gate!GateNext]_(Gate!gateVars)
    BY <2>3, CompleteMaps
  <2>4. CASE Deliver(c) \/ Done(c)
    BY <2>4, StreamMaps
  <2>5. ASSUME Abandon(c) PROVE UNCHANGED Gate!gateVars
    BY <2>5, QuietMaps DEF Abandon
  <2>6. QED
    BY <1>4, <2>1, <2>2, <2>3, <2>4, <2>5 DEF Handle
<1>5. ASSUME NEW c \in Call, NEW k \in Checkpoint, NEW a \in ScanResponse \cup {Failed},
             Inspect(c, k, a)
      PROVE  [Gate!GateNext]_(Gate!gateVars)
  BY <1>5, InspectMaps
<1>6. ASSUME NEW c \in Call, Hangup(c) PROVE UNCHANGED Gate!gateVars
  BY <1>6, QuietMaps DEF Hangup
<1>7. QED
  BY <1>1, <1>2, <1>3, <1>4, <1>5, <1>6 DEF Next

-----------------------------------------------------------------------------
(* The theorems.                                                           *)

\* Every variable of a turn keeps its type, whatever the engines and the calls.
THEOREM TypeCorrect == Spec => []TypeOK
<1>1. TurnInv => TypeOK
  BY DEF TurnInv
<1>2. QED
  BY <1>1, TurnCorrect, PTL

\* No turn that was asked for after a push runs on an engine from before it.
THEOREM NoStaleEngineCorrect == Spec => []NoStaleEngine
<1>1. TurnInv => NoStaleEngine
  <2> SUFFICES ASSUME TurnInv, NEW c \in Call, using[c] # 0 PROVE using[c] >= asked[c]
    BY DEF NoStaleEngine
  <2>1. using[c] \in Nat /\ asked[c] \in Nat /\ asked[c] <= using[c]
    BY TurnAssumption DEF TurnInv, TypeOK, CallInv, EngineInv
  <2>2. QED
    BY <2>1
<1>2. QED
  BY <1>1, TurnCorrect, PTL

\* No turn is served by another model than the one that was asked for.
THEOREM NoSubstitutionCorrect == Spec => []NoSubstitution
<1>1. TurnInv => NoSubstitution
  <2> SUFFICES ASSUME TurnInv, NEW c \in Call, sent[c] # Unsent
               PROVE  sent[c] \in EngineOf(c).models /\ request[c] \in {AnyModel, sent[c]}
    BY DEF NoSubstitution
  <2>1. Opened(c) /\ sent[c] = ModelOf(c)
    BY DEF TurnInv, CallInv, EngineInv
  <2>2. QED
    BY <2>1, TurnAssumption DEF Opened, ModelOf, Resolves
<1>2. QED
  BY <1>1, TurnCorrect, PTL

\* A caller who stays gets the reply in full, and the document once and last.
THEOREM StreamIsTheDocumentCorrect == Spec => []StreamIsTheDocument
<1>1. TurnInv => StreamIsTheDocument
  <2> SUFFICES ASSUME TurnInv, NEW c \in Call,
                      phase[c] = "over", listening[c], code[c] # "raised"
               PROVE  /\ stream[c] # <<>>
                      /\ \A i \in DOMAIN stream[c] : stream[c][i] = "done" <=> i = Len(stream[c])
                      /\ Len(stream[c]) - 1 = IF code[c] = "" THEN text[c] ELSE 0
    BY DEF StreamIsTheDocument
  <2>1. /\ Len(stream[c]) = Due(c) + 1
        /\ \A i \in 1..Len(stream[c]) : stream[c][i] = "done" <=> i = Len(stream[c])
    BY DEF TurnInv, CallInv, StreamInv
  <2>2. Due(c) \in Nat
    <3>1. text[c] \in Nat
      BY TurnAssumption DEF TurnInv, TypeOK
    <3>2. QED
      BY <3>1 DEF Due
  <2>3. stream[c] \in Seq({"delta", "done"})
    BY DEF TurnInv, TypeOK
  <2>4. DOMAIN stream[c] = 1..Len(stream[c])
    BY <2>3
  <2>5. stream[c] # <<>> /\ Len(stream[c]) - 1 = Due(c)
    <3> DEFINE n == Len(stream[c])
    <3>1. n = Due(c) + 1
      BY <2>1
    <3> HIDE DEF n
    <3>2. n - 1 = Due(c) /\ n # 0
      BY <2>2, <3>1
    <3>3. stream[c] = <<>> => n = 0
      BY DEF n
    <3>4. QED
      BY <3>2, <3>3 DEF n
  <2>6. QED
    BY <2>1, <2>4, <2>5 DEF Due
<1>2. QED
  BY <1>1, TurnCorrect, PTL

\* Every turn keeps the gate, whatever is pushed under it: its prompt leaves only
\* past the prompt checkpoint, and its answer is shown only past the response
\* checkpoint, by the policy of the one engine it was opened on.
THEOREM KeepsGateCorrect == Spec => KeepsGate
<1>1. Spec => []TurnInv /\ Init /\ [][Next]_vars
  BY TurnCorrect, PTL DEF Spec, Safety
<1>2. QED
  BY <1>1, InitMaps, StepMaps, PTL DEF KeepsGate, Gate!GateSpec
=============================================================================
