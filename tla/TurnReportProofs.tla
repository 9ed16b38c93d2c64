-------------------------- MODULE TurnReportProofs --------------------------
(***************************************************************************)
(* Proof that a turn's document accounts for every answer of the scan      *)
(* service, for any calls, engines and pushes.                             *)
(***************************************************************************)
EXTENDS TurnProofs, SequenceTheorems

-----------------------------------------------------------------------------
(* The verdicts of a turn are those of the checkpoints that were asked, in *)
(* order; a block among them is what stops it, and nothing else is called  *)
(* one.                                                                    *)

Blocks(a) == a \in ScanResponse /\ a.action = "block"
Blocked(c) == \E k \in Checkpoint : Blocks(answers[c][k])

Listed(p, r) ==
  IF p = Unasked THEN (IF r = Unasked THEN <<>> ELSE <<VerdictOf(r)>>)
  ELSE (IF r = Unasked THEN <<VerdictOf(p)>> ELSE <<VerdictOf(p), VerdictOf(r)>>)

ReportInv(c) ==
  /\ verdicts[c] = Listed(answers[c]["prompt"], answers[c]["response"])
  /\ code[c] = "BLOCKED" <=> Blocked(c)
  /\ phase[c] \notin {"answering", "over"} => code[c] = "open"
  /\ code[c] = "NOT_INSPECTED" =>
       /\ using[c] # 0 /\ ~EngineOf(c).failOpen
       /\ \E k \in Checkpoint : answers[c][k] = Failed

ReportsInv == TurnInv /\ \A c \in Call : ReportInv(c)

LEMMA InitReports == Init => ReportsInv
<1> SUFFICES ASSUME Init, NEW c \in Call PROVE ReportInv(c)
  BY InitKeeps DEF ReportsInv
<1>1. answers[c]["prompt"] = Unasked /\ answers[c]["response"] = Unasked /\ verdicts[c] = <<>>
      /\ code[c] = "open"
  BY DEF Init, Checkpoint
<1>2. \A k \in Checkpoint : answers[c][k] = Unasked
  BY <1>1 DEF Checkpoint
<1>3. ~Blocked(c)
  BY <1>2, TurnAssumption DEF Blocked, Blocks
<1>4. QED
  BY <1>1, <1>3 DEF ReportInv, Listed

\* A step that puts nothing to the scan service for c.
LEMMA NotAsked ==
  ASSUME NEW c \in Call, ReportInv(c),
         answers'[c] = answers[c], verdicts'[c] = verdicts[c],
         \/ code'[c] = code[c]
         \/ code[c] = "open" /\ code'[c] \notin {"BLOCKED", "NOT_INSPECTED"},
         phase'[c] \notin {"answering", "over"} =>
           code'[c] = code[c] /\ phase[c] \notin {"answering", "over"},
         code[c] = "NOT_INSPECTED" => EngineOf(c)' = EngineOf(c) /\ using'[c] = using[c]
  PROVE  ReportInv(c)'
<1>1. Blocked(c)' <=> Blocked(c)
  BY DEF Blocked, Blocks
<1>2. code'[c] = "BLOCKED" <=> code[c] = "BLOCKED"
  BY <1>1 DEF ReportInv
<1>3. verdicts'[c] = Listed(answers'[c]["prompt"], answers'[c]["response"])
  BY DEF ReportInv
<1>4. phase'[c] \notin {"answering", "over"} => code'[c] = "open"
  BY DEF ReportInv
<1>5. code'[c] = "NOT_INSPECTED" =>
        /\ using'[c] # 0 /\ ~EngineOf(c)'.failOpen
        /\ \E k \in Checkpoint : answers'[c][k] = Failed
  <2> SUFFICES ASSUME code'[c] = "NOT_INSPECTED"
               PROVE  /\ using'[c] # 0 /\ ~EngineOf(c)'.failOpen
                      /\ \E k \in Checkpoint : answers'[c][k] = Failed
    OBVIOUS
  <2>1. code[c] = "NOT_INSPECTED"
    OBVIOUS
  <2>2. QED
    BY <2>1 DEF ReportInv
<1>6. QED
  BY <1>1, <1>2, <1>3, <1>4, <1>5 DEF ReportInv

LEMMA SameReport ==
  ASSUME NEW c \in Call, ReportInv(c), Same(c), verdicts'[c] = verdicts[c], pushed' = pushed
  PROVE  ReportInv(c)'
<1>1. EngineOf(c)' = EngineOf(c)
  BY DEF Same, EngineOf
<1>2. QED
  BY <1>1, NotAsked DEF Same

LEMMA PushReports ==
  ASSUME ReportsInv, NEW e \in Engine \cup {NoEngine}, Push(e), NEW c \in Call
  PROVE  ReportInv(c)'
<1>1. using[c] \in Nat /\ using[c] <= Len(pushed) /\ TypeOK
  BY TurnAssumption DEF ReportsInv, TurnInv, CallInv, EngineInv, TypeOK
<1>2. \A i \in 1..Len(pushed) : pushed'[i] = pushed[i]
  BY <1>1 DEF Push, TypeOK
<1>3. using[c] # 0 => EngineOf(c)' = EngineOf(c)
  BY <1>1, <1>2 DEF Push, EngineOf
<1>4. ReportInv(c) /\ (code[c] = "NOT_INSPECTED" => using[c] # 0)
  BY DEF ReportsInv, ReportInv
<1>5. QED
  BY <1>3, <1>4, NotAsked DEF Push

LEMMA AppendPair ==
  ASSUME NEW S, NEW x \in S, NEW y \in S
  PROVE  Append(<<x>>, y) = <<x, y>>
<1> DEFINE one == <<x>>
<1> DEFINE two == <<x, y>>
<1>1. one \in Seq(S) /\ Len(one) = 1 /\ one[1] = x
  OBVIOUS
<1>2. two \in Seq(S) /\ Len(two) = 2 /\ two[1] = x /\ two[2] = y
  OBVIOUS
<1> HIDE DEF one, two
<1>3. Append(one, y) \in Seq(S) /\ Len(Append(one, y)) = 2
  BY <1>1, AppendLooks
<1>4. Append(one, y)[1] = x /\ Append(one, y)[2] = y
  <2>1. /\ \A i \in 1..Len(one) : Append(one, y)[i] = one[i]
        /\ Append(one, y)[Len(one) + 1] = y
    BY <1>1, AppendLooks
  <2>2. 1 \in 1..Len(one) /\ Len(one) + 1 = 2
    BY <1>1
  <2>3. QED
    BY <1>1, <2>1, <2>2
<1>5. \A i \in 1..2 : Append(one, y)[i] = two[i]
  <2>1. \A i \in 1..2 : i = 1 \/ i = 2
    OBVIOUS
  <2>2. QED
    BY <1>2, <1>4, <2>1
<1>6. Append(one, y) = two
  BY <1>2, <1>3, <1>5, SeqEqual
<1>7. QED
  BY <1>6 DEF one, two

LEMMA InspectReports ==
  ASSUME ReportsInv, NEW c \in Call, NEW k \in Checkpoint, NEW a \in ScanResponse \cup {Failed},
         Inspect(c, k, a)
  PROVE  ReportInv(c)'
<1> DEFINE p == answers[c]["prompt"]
<1> DEFINE r == answers[c]["response"]
<1>1. TypeOK /\ CallInv(c) /\ ReportInv(c)
  BY DEF ReportsInv, TurnInv
<1>2. /\ phase[c] = k /\ pushed' = pushed /\ using' = using
      /\ answers'[c] = [answers[c] EXCEPT ![k] = a]
      /\ verdicts'[c] = Append(verdicts[c], VerdictOf(a))
  BY <1>1 DEF Inspect, TypeOK
<1>3. /\ answers[c] \in [Checkpoint -> Answer] /\ verdicts[c] = Listed(p, r)
      /\ code[c] = "open" /\ code \in [Call -> Code] /\ phase \in [Call -> Phase]
  BY <1>1, <1>2 DEF TypeOK, ReportInv, Checkpoint
<1>4. r = Unasked /\ (k = "prompt" => p = Unasked)
  BY <1>1, <1>2 DEF CallInv, AheadInv, Checkpoint
<1>5. a # Unasked
  BY TurnAssumption
<1>6. verdicts'[c] = Listed(answers'[c]["prompt"], answers'[c]["response"])
  <2>1. CASE k = "prompt"
    <3>1. answers'[c]["prompt"] = a /\ answers'[c]["response"] = Unasked /\ verdicts[c] = <<>>
      BY <1>2, <1>3, <1>4, <2>1 DEF Checkpoint, Listed
    <3>2. QED
      BY <1>2, <1>5, <3>1 DEF Listed
  <2>2. CASE k = "response"
    <3>1. /\ answers'[c]["prompt"] = p /\ answers'[c]["response"] = a
          /\ verdicts[c] = (IF p = Unasked THEN <<>> ELSE <<VerdictOf(p)>>)
      BY <1>2, <1>3, <1>4, <2>2 DEF Checkpoint, Listed
    <3>2. CASE p = Unasked
      BY <1>2, <1>5, <3>1, <3>2 DEF Listed
    <3>3. CASE p # Unasked
      <4>1. Append(<<VerdictOf(p)>>, VerdictOf(a)) = <<VerdictOf(p), VerdictOf(a)>>
        <5>1. p \in ScanResponse \cup {Failed}
          BY <1>3, <3>3 DEF Checkpoint, Answer
        <5>2. VerdictOf(p) \in Verdict /\ VerdictOf(a) \in Verdict
          BY <5>1, VerdictType
        <5>3. QED
          BY <5>2, AppendPair
      <4>2. QED
        BY <1>2, <1>5, <3>1, <3>3, <4>1 DEF Listed
    <3>4. QED
      BY <3>2, <3>3
  <2>3. QED
    BY <2>1, <2>2 DEF Checkpoint
<1>7. ~Blocked(c)
  BY <1>1, <1>3 DEF ReportInv
<1>8. Blocked(c)' <=> Blocks(a)
  <2>1. \A j \in Checkpoint : answers'[c][j] = IF j = k THEN a ELSE answers[c][j]
    BY <1>2, <1>3
  <2>2. QED
    BY <1>7, <2>1 DEF Blocked, Blocks
<1>9. CASE Passes(EngineOf(c), VerdictOf(a))
  <2>1. ~Blocks(a)
    BY <1>9, TurnAssumption DEF Passes, VerdictOf, Ruled, Blocks
  <2>2. /\ code'[c] \in {"open", ""}
        /\ phase'[c] \notin {"answering", "over"} => code'[c] = "open"
    BY <1>2, <1>3, <1>9 DEF Inspect, Proceed
  <2>3. QED
    BY <1>6, <1>8, <2>1, <2>2 DEF ReportInv
<1>10. CASE ~Passes(EngineOf(c), VerdictOf(a))
  <2>1. code'[c] = StopCode(VerdictOf(a)) /\ phase'[c] = "answering"
    BY <1>2, <1>3, <1>10 DEF Inspect
  <2>2. CASE a = Failed
    <3>1. code'[c] = "NOT_INSPECTED" /\ ~Blocks(a) /\ ~EngineOf(c).failOpen
      BY <1>10, <2>1, <2>2, TurnAssumption DEF StopCode, VerdictOf, Blocks, Passes
    <3>2. answers'[c][k] = Failed
      BY <1>2, <1>3, <2>2
    <3>3. using[c] # 0
      BY <1>1, <1>2 DEF CallInv, EngineInv, Opened, Checkpoint
    <3>4. EngineOf(c)' = EngineOf(c)
      BY <1>2 DEF EngineOf
    <3>5. QED
      BY <1>2, <1>6, <1>8, <2>1, <3>1, <3>2, <3>3, <3>4 DEF ReportInv
  <2>3. CASE a # Failed
    <3>1. a \in ScanResponse
      BY <2>3
    <3>2. VerdictOf(a).decision = Ruled(a) /\ Ruled(a) \in {"allow", "block", "flagged"}
      BY <2>3 DEF VerdictOf, Ruled
    <3>3. Ruled(a) = "block"
      BY <1>10, <3>2 DEF Passes
    <3>4. Blocks(a) /\ code'[c] = "BLOCKED"
      BY <2>1, <3>1, <3>2, <3>3 DEF Ruled, Blocks, StopCode
    <3>5. QED
      BY <1>6, <1>8, <2>1, <3>4 DEF ReportInv
  <2>4. QED
    BY <2>2, <2>3
<1>11. QED
  BY <1>9, <1>10

LEMMA HandleReports ==
  ASSUME ReportsInv, NEW c \in Call, Handle(c) \/ Hangup(c)
  PROVE  ReportInv(c)'
<1>1. TypeOK /\ ReportInv(c) /\ CallInv(c)
  BY DEF ReportsInv, TurnInv
<1>2. /\ pushed' = pushed /\ answers'[c] = answers[c] /\ verdicts'[c] = verdicts[c]
  BY DEF Handle, Unconfigured, Refuse, Open, Take, Skip, Complete, Deliver, Done, Abandon, Hangup
<1>3. phase[c] \notin {"answering", "over"} => code[c] = "open"
  BY <1>1 DEF ReportInv
<1>4. CASE Deliver(c) \/ Done(c) \/ Abandon(c) \/ Hangup(c)
  <2>1. /\ code' = code /\ using' = using
        /\ phase'[c] \notin {"answering", "over"} => phase[c] \notin {"answering", "over"}
    BY <1>1, <1>4 DEF Deliver, Done, Abandon, Hangup, TypeOK
  <2>2. EngineOf(c)' = EngineOf(c)
    BY <1>2, <2>1 DEF EngineOf
  <2>3. QED
    BY <1>1, <1>2, <2>1, <2>2, NotAsked
<1>5. CASE ~(Deliver(c) \/ Done(c) \/ Abandon(c) \/ Hangup(c))
  <2>1. phase[c] \notin {"answering", "over"} /\ code[c] = "open"
    BY <1>3, <1>5 DEF Handle, Unconfigured, Refuse, Open, Take, Skip, Complete, Checkpoint
  <2>2. code'[c] \notin {"BLOCKED", "NOT_INSPECTED"}
    BY <1>1, <1>5, <2>1 DEF Handle, Unconfigured, Refuse, Open, Take, Skip, Proceed, Complete,
       CompletionOf, DirectOutcomes, GatewayOutcomes, TypeOK
  <2>3. phase'[c] \notin {"answering", "over"} => code'[c] = code[c]
    BY <1>1, <1>5, <2>1 DEF Handle, Unconfigured, Refuse, Open, Take, Skip, Proceed, Complete, TypeOK
  <2>4. QED
    BY <1>1, <1>2, <2>1, <2>2, <2>3, NotAsked
<1>6. QED
  BY <1>4, <1>5

LEMMA AskReports ==
  ASSUME ReportsInv, NEW c \in Call, NEW r \in Request, Ask(c, r)
  PROVE  ReportInv(c)'
<1>1. ReportInv(c) /\ code[c] = "open"
  BY DEF ReportsInv, ReportInv, Ask
<1>2. UNCHANGED <<pushed, using, answers, verdicts, code>> /\ phase[c] = "idle"
  BY DEF Ask
<1>3. QED
  BY <1>1, <1>2, NotAsked

LEMMA StepReports == ReportsInv /\ [Next]_vars => ReportsInv'
<1> SUFFICES ASSUME ReportsInv, [Next]_vars, NEW d \in Call PROVE ReportInv(d)'
  BY StepKeeps DEF ReportsInv
<1>1. TypeOK /\ TurnInv /\ ReportInv(d) /\ \A c \in Call : CallInv(c)
  BY DEF ReportsInv, TurnInv
<1>2. CASE UNCHANGED vars
  BY <1>1, <1>2, SameReport DEF vars, Same
<1>3. ASSUME NEW e \in Engine \cup {NoEngine}, Push(e) PROVE ReportInv(d)'
  BY <1>3, PushReports
<1>4. ASSUME NEW c \in Call,
             Others(c), pushed' = pushed, ReportInv(c)',
             \A b \in Call \ {c} : verdicts'[b] = verdicts[b]
      PROVE  ReportInv(d)'
  BY <1>1, <1>4, SameReport DEF Others
<1>5. ASSUME NEW c \in Call, NEW r \in Request, Ask(c, r) PROVE ReportInv(d)'
  <2>1. Others(c)
    BY <1>1, <1>5, AskKeeps
  <2>2. pushed' = pushed /\ verdicts' = verdicts
    BY <1>5 DEF Ask
  <2>3. QED
    BY <1>4, <1>5, <2>1, <2>2, AskReports
<1>6. ASSUME NEW c \in Call, Handle(c) \/ Hangup(c) PROVE ReportInv(d)'
  <2>1. Others(c)
    BY <1>1, <1>6, TakeKeeps, SkipKeeps, CompleteKeeps, DeliverKeeps, DoneKeeps, LeaveKeeps
       DEF Handle
  <2>2. pushed' = pushed /\ verdicts' = verdicts
    BY <1>6 DEF Handle, Unconfigured, Refuse, Open, Take, Skip, Complete, Deliver, Done,
       Abandon, Hangup
  <2>3. QED
    BY <1>4, <1>6, <2>1, <2>2, HandleReports
<1>7. ASSUME NEW c \in Call, NEW k \in Checkpoint, NEW a \in ScanResponse \cup {Failed},
             Inspect(c, k, a)
      PROVE  ReportInv(d)'
  <2>1. Others(c)
    BY <1>1, <1>7, InspectKeeps
  <2>2. pushed' = pushed /\ \A b \in Call \ {c} : verdicts'[b] = verdicts[b]
    BY <1>1, <1>7 DEF Inspect, TypeOK
  <2>3. QED
    BY <1>4, <1>7, <2>1, <2>2, InspectReports
<1>8. QED
  BY <1>2, <1>3, <1>5, <1>6, <1>7 DEF Next

-----------------------------------------------------------------------------
(* What the scan object says of a list of verdicts.                        *)

Decisions(p, r) == {VerdictOf(a).decision : a \in {p, r} \ {Unasked}}

\* Every verdict looked, or failed to: none is left out of the report.
LEMMA AllReported ==
  ASSUME NEW p \in Answer, NEW r \in Answer
  PROVE  /\ {Listed(p, r)[i].decision : i \in Reported(Listed(p, r))} = Decisions(p, r)
         /\ Reported(Listed(p, r)) = {} <=> p = Unasked /\ r = Unasked
<1>1. \A a : VerdictOf(a).inspected \/ VerdictOf(a).errored
  BY DEF VerdictOf
<1>2. CASE p = Unasked /\ r = Unasked
  <2>1. Reported(<<>>) = {}
    BY DEF Reported
  <2>2. QED
    BY <1>2, <2>1 DEF Listed, Decisions
<1>3. ASSUME NEW a, a # Unasked, Listed(p, r) = <<VerdictOf(a)>>, {p, r} \ {Unasked} = {a}
      PROVE  /\ {Listed(p, r)[i].decision : i \in Reported(Listed(p, r))} = Decisions(p, r)
             /\ Reported(Listed(p, r)) # {}
  <2>1. Reported(<<VerdictOf(a)>>) = {1} /\ <<VerdictOf(a)>>[1] = VerdictOf(a)
    BY <1>1 DEF Reported
  <2>2. QED
    BY <1>3, <2>1 DEF Decisions
<1>4. CASE p # Unasked /\ r = Unasked
  BY <1>3, <1>4 DEF Listed
<1>5. CASE p = Unasked /\ r # Unasked
  BY <1>3, <1>5 DEF Listed
<1>6. CASE p # Unasked /\ r # Unasked
  <2>1. Listed(p, r) = <<VerdictOf(p), VerdictOf(r)>>
    BY <1>6 DEF Listed
  <2>2. Reported(<<VerdictOf(p), VerdictOf(r)>>) = {1, 2}
    BY <1>1 DEF Reported
  <2>3. /\ <<VerdictOf(p), VerdictOf(r)>>[1] = VerdictOf(p)
        /\ <<VerdictOf(p), VerdictOf(r)>>[2] = VerdictOf(r)
    OBVIOUS
  <2>4. {p, r} \ {Unasked} = {p, r}
    BY <1>6
  <2>5. QED
    BY <1>6, <2>1, <2>2, <2>3, <2>4 DEF Decisions
<1>7. QED
  BY <1>2, <1>4, <1>5, <1>6

\* The first of Precedence that is there leads.
LEMMA LeadIs ==
  ASSUME NEW vs, NEW n \in 1..4,
         Precedence[n] \in {vs[i].decision : i \in Reported(vs)},
         \A m \in 1..(n - 1) : Precedence[m] \notin {vs[i].decision : i \in Reported(vs)}
  PROVE  Lead(vs) = Precedence[n]
<1> DEFINE told == {vs[i].decision : i \in Reported(vs)}
<1> DEFINE First(j) == Precedence[j] \in told /\ \A m \in 1..(j - 1) : ~(Precedence[m] \in told)
<1> DEFINE first == CHOOSE j \in DOMAIN Precedence : First(j)
<1>1. DOMAIN Precedence = 1..4
  BY DEF Precedence
<1>2. First(n)
  OBVIOUS
<1>3. first \in 1..4 /\ First(first)
  BY <1>1, <1>2
<1>4. first = n
  <2>1. ~(first < n) /\ ~(n < first)
    <3>1. \A j, k \in 1..4 : j < k => j \in 1..(k - 1)
      OBVIOUS
    <3>2. ~(first < n)
      <4> HIDE DEF first
      <4> QED BY <1>2, <1>3, <3>1
    <3>3. ~(n < first)
      <4> HIDE DEF first
      <4> QED BY <1>2, <1>3, <3>1
    <3>4. QED
      BY <3>2, <3>3
  <2> HIDE DEF first
  <2>2. first \in Int /\ n \in Int
    BY <1>3
  <2>3. QED
    BY <2>1, <2>2
<1>5. Lead(vs) = Precedence[first]
  BY DEF Lead
<1>6. QED
  BY <1>4, <1>5

LEMMA ScanSays ==
  ASSUME NEW p \in Answer, NEW r \in Answer
  PROVE  LET scan == Scan(Listed(p, r))
             D == Decisions(p, r)
         IN  /\ scan = "absent" <=> p = Unasked /\ r = Unasked
             /\ scan = "block" <=> "block" \in D
             /\ scan = "flagged" <=> "block" \notin D /\ "flagged" \in D
             /\ scan = "allow" <=> "block" \notin D /\ "flagged" \notin D /\ "not_inspected" \notin D
                                  /\ "allow" \in D
<1> DEFINE vs == Listed(p, r)
<1> DEFINE D == Decisions(p, r)
<1>1. {vs[i].decision : i \in Reported(vs)} = D /\ (Reported(vs) = {} <=> p = Unasked /\ r = Unasked)
  BY AllReported
<1>2. D \subseteq {"block", "flagged", "not_inspected", "allow"}
  BY DEF Decisions, VerdictOf, Ruled
<1>3. D = {} <=> p = Unasked /\ r = Unasked
  BY DEF Decisions
<1> HIDE DEF vs, D
<1>4. /\ Precedence[1] = "block" /\ Precedence[2] = "flagged"
      /\ Precedence[3] = "not_inspected" /\ Precedence[4] = "allow"
  BY DEF Precedence
<1>5. \A n \in 1..4 :
        Precedence[n] \in D /\ (\A m \in 1..(n - 1) : Precedence[m] \notin D) => Lead(vs) = Precedence[n]
  BY <1>1, LeadIs
<1>6. "block" \in D => Lead(vs) = "block"
  BY <1>4, <1>5
<1>7. "block" \notin D /\ "flagged" \in D => Lead(vs) = "flagged"
  <2>1. 1..(2 - 1) = {1}
    OBVIOUS
  <2>2. QED
    BY <1>4, <1>5, <2>1
<1>8. "block" \notin D /\ "flagged" \notin D /\ "not_inspected" \in D => Lead(vs) = "not_inspected"
  <2>1. \A m \in 1..(3 - 1) : m = 1 \/ m = 2
    OBVIOUS
  <2>2. QED
    BY <1>4, <1>5, <2>1
<1>9. "block" \notin D /\ "flagged" \notin D /\ "not_inspected" \notin D /\ "allow" \in D
        => Lead(vs) = "allow"
  <2>1. \A m \in 1..(4 - 1) : m = 1 \/ m = 2 \/ m = 3
    OBVIOUS
  <2>2. QED
    BY <1>4, <1>5, <2>1
<1>10. QED
  BY <1>1, <1>2, <1>3, <1>6, <1>7, <1>8, <1>9 DEF Scan, vs, D

\* The document of any turn accounts for every answer of the scan service: what it
\* shows as allowed was, a block leads it and stops the turn, and a code that blames
\* a failed scan has one.
THEOREM ReportAccountsForTurnCorrect == Spec => []ReportAccountsForTurn
<1>1. ReportsInv => ReportAccountsForTurn
  <2> SUFFICES ASSUME ReportsInv, NEW c \in Call
               PROVE  LET scan == Scan(verdicts[c])
                          ruled == Told(c) \ {Failed}
                          blocked == \E a \in ruled : a.action = "block"
                      IN  /\ scan = "absent" <=> Told(c) = {}
                          /\ scan = "allow" => Told(c) = {[action |-> "allow", category |-> "benign"]}
                          /\ scan = "block" <=> blocked
                          /\ code[c] = "BLOCKED" <=> blocked
                          /\ (\E a \in ruled : a.category = "malicious") => scan \in {"block", "flagged"}
                          /\ code[c] = "NOT_INSPECTED" => Failed \in Told(c) /\ ~EngineOf(c).failOpen
    BY DEF ReportAccountsForTurn
  <2> DEFINE p == answers[c]["prompt"]
  <2> DEFINE r == answers[c]["response"]
  <2> DEFINE scan == Scan(verdicts[c])
  <2> DEFINE D == Decisions(p, r)
  <2>1. p \in Answer /\ r \in Answer /\ ReportInv(c) /\ verdicts[c] = Listed(p, r)
    BY DEF ReportsInv, TurnInv, TypeOK, ReportInv, Checkpoint
  <2>2. Told(c) = {p, r} \ {Unasked}
    BY DEF Told, Checkpoint
  <2>3. /\ scan = "absent" <=> p = Unasked /\ r = Unasked
        /\ scan = "block" <=> "block" \in D
        /\ scan = "flagged" <=> "block" \notin D /\ "flagged" \in D
        /\ scan = "allow" <=> "block" \notin D /\ "flagged" \notin D /\ "not_inspected" \notin D
                             /\ "allow" \in D
    BY <2>1, ScanSays
  <2>4. \A a \in Told(c) : a = Failed \/ a \in ScanResponse
    BY <2>1, <2>2 DEF Answer
  <2>5. \A a \in ScanResponse : VerdictOf(a).decision = Ruled(a)
    BY TurnAssumption DEF VerdictOf
  <2>6. VerdictOf(Failed).decision = "not_inspected"
    BY DEF VerdictOf
  <2>7. \A x : x \in D <=> \E a \in Told(c) : VerdictOf(a).decision = x
    BY <2>2 DEF Decisions
  <2>8. "block" \in D <=> \E a \in Told(c) \ {Failed} : a.action = "block"
    BY <2>4, <2>5, <2>6, <2>7 DEF Ruled
  <2>9. Blocked(c) <=> \E a \in Told(c) \ {Failed} : a.action = "block"
    BY <2>4, TurnAssumption DEF Blocked, Blocks, Told
  <2>10. ASSUME NEW a \in Told(c) \ {Failed}, a.category = "malicious"
         PROVE  scan \in {"block", "flagged"}
    <3>1. VerdictOf(a).decision \in {"block", "flagged"}
      BY <2>4, <2>5, <2>10 DEF Ruled
    <3>2. QED
      BY <2>3, <2>7, <3>1
  <2>11. ASSUME scan = "allow"
         PROVE  Told(c) = {[action |-> "allow", category |-> "benign"]}
    <3>1. Told(c) # {}
      BY <2>2, <2>3, <2>11
    <3>2. ASSUME NEW a \in Told(c) PROVE a = [action |-> "allow", category |-> "benign"]
      <4>1. VerdictOf(a).decision \notin {"block", "flagged", "not_inspected"}
        BY <2>3, <2>7, <2>11
      <4>2. a \in ScanResponse
        BY <2>4, <2>6, <4>1
      <4>3. a.action # "block" /\ a.category # "malicious"
        BY <2>5, <4>1, <4>2 DEF Ruled
      <4>4. QED
        BY <4>2, <4>3 DEF ScanResponse
    <3>3. QED
      BY <3>1, <3>2
  <2>12. scan = "absent" <=> Told(c) = {}
    BY <2>2, <2>3
  <2>13. code[c] = "NOT_INSPECTED" => Failed \in Told(c) /\ ~EngineOf(c).failOpen
    BY <2>1, TurnAssumption DEF ReportInv, Told
  <2>14. code[c] = "BLOCKED" <=> \E a \in Told(c) \ {Failed} : a.action = "block"
    BY <2>1, <2>9 DEF ReportInv
  <2>15. QED
    BY <2>3, <2>8, <2>10, <2>11, <2>12, <2>13, <2>14
<1>2. QED
  BY <1>1, InitReports, StepReports, PTL DEF Spec, Safety
=============================================================================
