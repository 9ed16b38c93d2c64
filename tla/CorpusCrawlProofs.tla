------------------------- MODULE CorpusCrawlProofs -------------------------
(***************************************************************************)
(* Proofs about CorpusCrawl, for any number of drivers, pages and runs.    *)
(***************************************************************************)
EXTENDS CorpusCrawl, FiniteSetTheorems, TLAPS

\* The answer recorded is always one of the catalogue.
LEMMA JudgeType ==
  ASSUME NEW answer \in Answers, NEW final, NEW scope
  PROVE  Judge(answer, final, scope) \in Collected \cup Excluded \cup Unknown
BY CrawlAssumption DEF Judge, RawReason, Collected, Excluded, Unknown, Read

\* A commit keeps the table well formed.
LEMMA CommitType ==
  ASSUME TypeOK, NEW s \in Session
  PROVE  AfterCommit(s) \in [Url -> Stamp]
BY CrawlAssumption DEF TypeOK, AfterCommit

\* A worklist can be counted.
LEMMA WorklistCount ==
  ASSUME TypeOK, NEW s \in Session
  PROVE  Cardinality(worklist[s]) \in Nat
<1>1. IsFiniteSet(worklist[s])
  BY CrawlAssumption, FS_Subset DEF TypeOK
<1>2. QED
  BY <1>1, FS_CardinalityType

LEMMA NoRowsType == NoRows \in Table /\ NoWrites \in [Url -> Stamp \cup {Unwritten}]
BY DEF NoRows, NoWrites, Table

\* The shared ends of a crawl, for the cases of the step below.
LEMMA EndRunType ==
  ASSUME TypeOK, NEW s \in Session, NEW st \in Closed, EndRun(s, st)
  PROVE  TypeOK'
<1>1. rows' = rows /\ document' = document /\ job' = job /\ lock' = lock
      /\ mine' = mine /\ worklist' = worklist
  BY DEF EndRun, Rollback
<1>2. status' \in [RunId -> Status] /\ listed' \in [RunId -> Nat]
  BY WorklistCount DEF EndRun, Finish, TypeOK, Status
<1>3. seen' \in [Session -> Table]
      /\ pending' \in [Session -> [Url -> Stamp \cup {Unwritten}]]
  BY NoRowsType DEF EndRun, Rollback, TypeOK
<1>4. phase' \in [Session -> Phase] /\ cancel' \in [Session -> BOOLEAN]
  BY DEF EndRun, TypeOK, Phase
<1>5. QED
  BY <1>1, <1>2, <1>3, <1>4 DEF TypeOK

LEMMA ParkedType ==
  ASSUME TypeOK, NEW s \in Session, Parked(s, NoOne)
  PROVE  /\ phase' \in [Session -> Phase]
         /\ mine' \in [Session -> 0..MaxRun]
         /\ worklist' \in [Session -> SUBSET Url]
         /\ seen' \in [Session -> Table]
         /\ pending' \in [Session -> [Url -> Stamp \cup {Unwritten}]]
         /\ cancel' \in [Session -> BOOLEAN]
         /\ lock' \in Session \cup {NoOne}
BY NoRowsType, CorpusAssumption DEF Parked, TypeOK, Phase

-----------------------------------------------------------------------------
LEMMA InitType == Init => TypeOK
<1> SUFFICES ASSUME Init PROVE TypeOK
  OBVIOUS
<1>1. document \in [Url -> Stamp]
  BY CorpusAssumption DEF Init, Stamp
<1>2. job \in [RunId -> Job]
  <2>1. [scope |-> Everything, dry |-> FALSE] \in Job
    BY DEF Job, Scope
  <2>2. QED
    BY <2>1 DEF Init
<1>3. QED
  BY <1>1, <1>2, NoRowsType, CorpusAssumption DEF Init, TypeOK, Status, Phase

LEMMA StepType == TypeOK /\ [Next]_vars => TypeOK'
<1> SUFFICES ASSUME TypeOK, [Next]_vars PROVE TypeOK'
  OBVIOUS
<1>1. CASE UNCHANGED vars
  BY <1>1 DEF vars, TypeOK
<1>2. ASSUME NEW s \in Session, CancelRun(s) PROVE TypeOK'
  BY <1>2, EndRunType DEF CancelRun, Closed
<1>3. ASSUME NEW s \in Session, FailRun(s) PROVE TypeOK'
  BY <1>3, EndRunType DEF FailRun, Closed
<1>4. ASSUME NEW s \in Session, NEW listing \in SUBSET Url, Discover(s, listing)
      PROVE TypeOK'
  <2>1. CASE EndRun(s, "failed")
    BY <2>1, EndRunType DEF Closed
  <2>2. CASE ~EndRun(s, "failed")
    BY <1>4, <2>2 DEF Discover, TypeOK, Phase, Working, database
  <2>3. QED
    BY <2>1, <2>2
<1>5. ASSUME NEW s \in Session, NEW u \in Url, NEW answer \in Answers,
             NEW final \in Lands[u], Take(s, u, answer, final)
      PROVE TypeOK'
  <2>1. final \in Url
    BY CrawlAssumption
  <2> DEFINE reason == Judge(answer, final, job[mine[s]].scope)
  <2>2. [reason |-> reason, final |-> final] \in Row
    BY <2>1, JudgeType DEF Row
  <2>3. seen' \in [Session -> Table]
    <3>1. seen' = [seen EXCEPT ![s][u] = [reason |-> reason, final |-> final]]
      BY <1>5 DEF Take
    <3>2. seen \in [Session -> Table]
      BY DEF TypeOK
    <3> HIDE DEF reason
    <3>3. QED
      BY <2>2, <3>1, <3>2 DEF Table
  <2>4. mine[s] \in Stamp
    BY DEF TypeOK, Stamp
  <2>5. AfterPut(s, final) \in [Url -> Stamp \cup {Unwritten}]
    BY <2>1, <2>4 DEF AfterPut, TypeOK
  <2>6. pending' \in [Session -> [Url -> Stamp \cup {Unwritten}]]
    BY <1>5, <2>5 DEF Take, TypeOK
  <2>7. QED
    BY <1>5, <2>3, <2>6 DEF Take, TypeOK, database
<1>6. ASSUME NEW s \in Session, Heartbeat(s) PROVE TypeOK'
  BY <1>6, CommitType, NoRowsType DEF Heartbeat, TypeOK, Phase, Working
<1>7. ASSUME NEW s \in Session, RetainOnly(s) PROVE TypeOK'
  <2>1. AfterRetainOnly(s) \in [Url -> Stamp \cup {Unwritten}]
    BY DEF AfterRetainOnly, TypeOK, Stamp
  <2>2. pending' \in [Session -> [Url -> Stamp \cup {Unwritten}]]
    BY <1>7, <2>1 DEF RetainOnly, TypeOK
  <2>3. QED
    BY <1>7, <2>2 DEF RetainOnly, TypeOK, Phase, Working, database
<1>8. ASSUME NEW s \in Session, FinishOk(s) PROVE TypeOK'
  <2>1. status' \in [RunId -> Status] /\ listed' \in [RunId -> Nat]
    BY <1>8, WorklistCount DEF FinishOk, TypeOK, Status, Closed
  <2>2. QED
    BY <1>8, <2>1, CommitType, NoRowsType DEF FinishOk, TypeOK, Phase
<1>9. ASSUME NEW s \in Session, Exhaust(s) PROVE TypeOK'
  BY <1>9 DEF Exhaust, TypeOK, Phase, database
<1>10. ASSUME NEW s \in Session, Release(s) PROVE TypeOK'
  BY <1>10, ParkedType DEF Release, TypeOK, database
<1>11. ASSUME NEW s \in Session, CommitLeftover(s) PROVE TypeOK'
  BY <1>11, ParkedType, CommitType DEF CommitLeftover, TypeOK
<1>12. ASSUME NEW s \in Session, NEW r \in RunId, NEW j \in Jobs, Claim(s, r, j)
       PROVE TypeOK'
  <2>1. Claimed(r) \in [RunId -> Status]
    BY DEF Claimed, TypeOK, Status, Closed
  <2>2. mine' \in [Session -> 0..MaxRun]
    BY <1>12 DEF Claim, TypeOK, RunId
  <2>3. QED
    BY <1>12, <2>1, <2>2, CrawlAssumption DEF Claim, TypeOK, Phase, Working
<1>13. ASSUME NEW s \in Session, Cancel(s) PROVE TypeOK'
  BY <1>13 DEF Cancel, TypeOK, database
<1>14. ASSUME NEW s \in Session, Interrupt(s) PROVE TypeOK'
  BY <1>14 DEF Interrupt, TypeOK, Phase, database
<1>15. ASSUME NEW s \in Session, Lose(s) PROVE TypeOK'
  BY <1>15, ParkedType DEF Lose, TypeOK, database
<1>16. QED
  BY <1>1, <1>2, <1>3, <1>4, <1>5, <1>6, <1>7, <1>8, <1>9, <1>10, <1>11, <1>12,
     <1>13, <1>14, <1>15 DEF Next, Progress, Environment

\* Every variable keeps its type in every behaviour of the crawler.
THEOREM TypeCorrect == Spec => []TypeOK
<1>1. QED
  BY InitType, StepType, PTL DEF Spec, Safety

-----------------------------------------------------------------------------
(* One writer. The lock alone does not settle it: a session may be past    *)
(* the lock (interrupted, with a transaction still open) while another has *)
(* claimed. What keeps their writes apart is that each owns a run of its   *)
(* own, already inserted, for as long as it is not idle.                   *)

Held == Working \cup {"done", "closing"}

OwnRuns ==
  /\ \A s \in Session : phase[s] # "idle" => mine[s] \in RunId /\ status[mine[s]] # "none"
  /\ \A s, t \in Session :
       s # t /\ phase[s] # "idle" /\ phase[t] # "idle" => mine[s] # mine[t]

\* The part of OneWriter that is about the lock and the runs.
Holder ==
  /\ \A s \in Session : lock = s <=> phase[s] \in Working \cup {"done", "closing"}
  /\ \A s \in Session : phase[s] \in Working => status[mine[s]] = "running"
  /\ \A r, q \in RunId : status[r] = "running" /\ status[q] = "running" => r = q

WriterInv == TypeOK /\ OwnRuns /\ Holder

LEMMA InitWriter == Init => WriterInv
<1> SUFFICES ASSUME Init PROVE WriterInv
  OBVIOUS
<1>1. TypeOK
  BY InitType
<1>2. OwnRuns
  BY DEF Init, OwnRuns
<1>3. Holder
  BY CrawlAssumption DEF Init, Holder, Working
<1>4. QED
  BY <1>1, <1>2, <1>3 DEF WriterInv

\* A step that leaves the lock, the runs and their owners alone, and keeps
\* each crawl on the same side of the lock.
LEMMA SameOwners ==
  ASSUME WriterInv, NEW s \in Session, lock' = lock, status' = status, mine' = mine,
         phase[s] \in Working, NEW p \in Working, phase' = [phase EXCEPT ![s] = p]
  PROVE  OwnRuns' /\ Holder'
<1>1. p # "idle" /\ phase[s] # "idle"
  BY DEF Working
<1>2. \A t \in Session : phase'[t] = IF t = s THEN p ELSE phase[t]
  BY DEF WriterInv, TypeOK
<1>3. OwnRuns'
  BY <1>1, <1>2 DEF WriterInv, OwnRuns
<1>4. Holder'
  BY <1>2 DEF WriterInv, Holder
<1>5. QED
  BY <1>3, <1>4

\* A run is closed: its crawl still holds the lock, and may no longer write.
LEMMA ClosedOwner ==
  ASSUME WriterInv, NEW s \in Session, NEW p \in {"done", "closing"}, NEW st \in Closed,
         phase[s] \in Held, lock' = lock, mine' = mine,
         phase' = [phase EXCEPT ![s] = p],
         \/ status' = status /\ phase[s] \in {"done", "closing"}
         \/ status' = [status EXCEPT ![mine[s]] = st]
  PROVE  OwnRuns' /\ Holder'
<1>1. phase[s] # "idle" /\ p # "idle" /\ p \notin Working /\ p \in Held
  BY DEF Held, Working
<1>2. \A t \in Session : phase'[t] = IF t = s THEN p ELSE phase[t]
  BY DEF WriterInv, TypeOK
<1>3. \A r \in RunId : status'[r] = status[r] \/ (r = mine[s] /\ status'[r] = st)
  BY DEF WriterInv, TypeOK
<1>4. st # "none" /\ st # "running"
  BY DEF Closed
<1>5. OwnRuns'
  BY <1>1, <1>2, <1>3, <1>4 DEF WriterInv, OwnRuns
<1>6. \A t \in Session : lock' = t <=> phase'[t] \in Working \cup {"done", "closing"}
  BY <1>1, <1>2 DEF WriterInv, Holder, Held
<1>7. \A t \in Session : phase'[t] \in Working => status'[mine'[t]] = "running"
  <2> SUFFICES ASSUME NEW t \in Session, phase'[t] \in Working
               PROVE  status'[mine'[t]] = "running"
    OBVIOUS
  <2>1. t # s /\ phase[t] \in Working /\ phase[t] # "idle"
    BY <1>1, <1>2 DEF Working
  <2>2. mine[t] # mine[s] /\ mine[t] \in RunId
    BY <1>1, <2>1 DEF WriterInv, OwnRuns
  <2>3. status[mine[t]] = "running"
    BY <2>1 DEF WriterInv, Holder
  <2>4. QED
    BY <1>3, <2>2, <2>3
<1>8. \A r, q \in RunId : status'[r] = "running" /\ status'[q] = "running" => r = q
  BY <1>3, <1>4 DEF WriterInv, Holder
<1>9. QED
  BY <1>5, <1>6, <1>7, <1>8 DEF Holder

\* A crawl gives up its lock, if it holds it, and leaves the running ones alone.
LEMMA LeftOwner ==
  ASSUME WriterInv, NEW s \in Session, NEW p \in {"idle", "unlocked"},
         phase[s] # "idle", status' = status,
         lock' = IF lock = s THEN NoOne ELSE lock,
         mine' \in {mine, [mine EXCEPT ![s] = 0]}, p = "unlocked" => mine' = mine,
         phase' = [phase EXCEPT ![s] = p]
  PROVE  OwnRuns' /\ Holder'
<1>1. p \notin Working \cup {"done", "closing"}
  BY DEF Working
<1>2. \A t \in Session : phase'[t] = IF t = s THEN p ELSE phase[t]
  BY DEF WriterInv, TypeOK
<1>3. \A t \in Session : phase'[t] # "idle" => mine'[t] = mine[t] /\ phase[t] # "idle"
  BY <1>2 DEF WriterInv, TypeOK
<1>4. OwnRuns'
  BY <1>3 DEF WriterInv, OwnRuns
<1>5. \A t \in Session : lock' = t <=> phase'[t] \in Working \cup {"done", "closing"}
  BY <1>1, <1>2, CrawlAssumption DEF WriterInv, Holder
<1>6. \A t \in Session : phase'[t] \in Working => status'[mine'[t]] = "running"
  BY <1>1, <1>2, <1>3 DEF WriterInv, Holder, Working
<1>7. QED
  BY <1>4, <1>5, <1>6 DEF WriterInv, Holder

LEMMA ClaimOwner ==
  ASSUME WriterInv, NEW s \in Session, NEW r \in RunId, NEW j \in Jobs, Claim(s, r, j)
  PROVE  OwnRuns' /\ Holder'
<1>1. \A t \in Session : phase'[t] = IF t = s THEN "discover" ELSE phase[t]
  BY DEF Claim, WriterInv, TypeOK
<1>2. \A t \in Session : mine'[t] = IF t = s THEN r ELSE mine[t]
  BY DEF Claim, WriterInv, TypeOK
<1>3. \A q \in RunId : status'[q] = IF q = r THEN "running"
                                   ELSE IF status[q] = "running" THEN "failed" ELSE status[q]
  BY DEF Claim, Claimed
<1>4. \A t \in Session : phase[t] \notin Working \cup {"done", "closing"}
  BY CrawlAssumption DEF Claim, LockFree, WriterInv, Holder
<1>5. status[r] = "none" /\ lock' = s
  BY DEF Claim
<1>6. OwnRuns'
  BY <1>1, <1>2, <1>3, <1>5 DEF WriterInv, OwnRuns
<1>7. Holder'
  BY <1>1, <1>2, <1>3, <1>4, <1>5 DEF Holder, Working
<1>8. QED
  BY <1>6, <1>7

LEMMA EndRunOwner ==
  ASSUME WriterInv, NEW s \in Session, NEW st \in Closed,
         phase[s] \in Working \cup {"done"}, EndRun(s, st)
  PROVE  OwnRuns' /\ Holder'
<1>1. lock' = lock /\ mine' = mine /\ phase' = [phase EXCEPT ![s] = "closing"]
  BY DEF EndRun
<1>2. \/ status' = status /\ phase[s] \in {"done", "closing"}
      \/ status' = [status EXCEPT ![mine[s]] = st]
  BY DEF EndRun, Finish
<1>3. phase[s] \in Held
  BY DEF Held
<1>4. QED
  BY <1>1, <1>2, <1>3, ClosedOwner

LEMMA StepWriter == WriterInv /\ [Next]_vars => WriterInv'
<1> SUFFICES ASSUME WriterInv, [Next]_vars PROVE OwnRuns' /\ Holder'
  BY StepType DEF WriterInv
<1>1. CASE UNCHANGED vars
  BY <1>1 DEF vars, WriterInv, OwnRuns, Holder
<1>2. ASSUME NEW s \in Session, CancelRun(s) PROVE OwnRuns' /\ Holder'
  BY <1>2, EndRunOwner DEF CancelRun, Closed
<1>3. ASSUME NEW s \in Session, FailRun(s) PROVE OwnRuns' /\ Holder'
  BY <1>3, EndRunOwner DEF FailRun, Closed
<1>4. ASSUME NEW s \in Session, NEW listing \in SUBSET Url, Discover(s, listing)
      PROVE OwnRuns' /\ Holder'
  <2>1. phase[s] \in Working
    BY <1>4 DEF Discover, Working
  <2>2. CASE EndRun(s, "failed")
    BY <2>1, <2>2, EndRunOwner DEF Closed
  <2>3. CASE ~EndRun(s, "failed")
    <3>1. lock' = lock /\ status' = status /\ mine' = mine
          /\ phase' = [phase EXCEPT ![s] = "fetch"]
      BY <1>4, <2>3 DEF Discover, database
    <3>2. QED
      BY <2>1, <3>1, SameOwners DEF Working
  <2>4. QED
    BY <2>2, <2>3
<1>5. ASSUME NEW s \in Session, NEW u \in Url, NEW answer \in Answers,
             NEW final \in Lands[u], Take(s, u, answer, final)
      PROVE OwnRuns' /\ Holder'
  BY <1>5 DEF Take, database, WriterInv, OwnRuns, Holder
<1>6. ASSUME NEW s \in Session, Heartbeat(s) PROVE OwnRuns' /\ Holder'
  <2>1. PICK p \in Working : phase' = [phase EXCEPT ![s] = p]
    BY <1>6 DEF Heartbeat, Working
  <2>2. phase[s] \in Working /\ lock' = lock /\ status' = status /\ mine' = mine
    BY <1>6 DEF Heartbeat, Working
  <2>3. QED
    BY <2>1, <2>2, SameOwners
<1>7. ASSUME NEW s \in Session, RetainOnly(s) PROVE OwnRuns' /\ Holder'
  <2>1. phase' = [phase EXCEPT ![s] = "pruned"] /\ phase[s] \in Working
        /\ lock' = lock /\ status' = status /\ mine' = mine
    BY <1>7 DEF RetainOnly, database, Working
  <2>2. QED
    BY <2>1, SameOwners DEF Working
<1>8. ASSUME NEW s \in Session, FinishOk(s) PROVE OwnRuns' /\ Holder'
  <2>1. phase' = [phase EXCEPT ![s] = "done"] /\ phase[s] \in Held
        /\ lock' = lock /\ mine' = mine /\ status' = [status EXCEPT ![mine[s]] = "ok"]
    BY <1>8 DEF FinishOk, Held, Working
  <2>2. QED
    BY <2>1, ClosedOwner DEF Closed
<1>9. ASSUME NEW s \in Session, Exhaust(s) PROVE OwnRuns' /\ Holder'
  <2>1. phase' = [phase EXCEPT ![s] = "closing"] /\ phase[s] = "done"
        /\ lock' = lock /\ mine' = mine /\ status' = status
    BY <1>9 DEF Exhaust, database
  <2>2. QED
    BY <2>1, ClosedOwner DEF Held, Closed
<1>10. ASSUME NEW s \in Session, Release(s) PROVE OwnRuns' /\ Holder'
  BY <1>10, LeftOwner DEF Release, Parked, database
<1>11. ASSUME NEW s \in Session, CommitLeftover(s) PROVE OwnRuns' /\ Holder'
  BY <1>11, LeftOwner DEF CommitLeftover, Parked
<1>12. ASSUME NEW s \in Session, NEW r \in RunId, NEW j \in Jobs, Claim(s, r, j)
       PROVE OwnRuns' /\ Holder'
  BY <1>12, ClaimOwner
<1>13. ASSUME NEW s \in Session, Cancel(s) PROVE OwnRuns' /\ Holder'
  BY <1>13 DEF Cancel, database, WriterInv, OwnRuns, Holder
<1>14. ASSUME NEW s \in Session, Interrupt(s) PROVE OwnRuns' /\ Holder'
  <2>1. lock = s /\ phase[s] # "idle"
    BY <1>14 DEF Interrupt, WriterInv, Holder, Working
  <2>2. QED
    BY <1>14, <2>1, LeftOwner DEF Interrupt, database
<1>15. ASSUME NEW s \in Session, Lose(s) PROVE OwnRuns' /\ Holder'
  BY <1>15, LeftOwner DEF Lose, Parked, database
<1>16. QED
  BY <1>1, <1>2, <1>3, <1>4, <1>5, <1>6, <1>7, <1>8, <1>9, <1>10, <1>11, <1>12,
     <1>13, <1>14, <1>15 DEF Next, Progress, Environment

LEMMA WriterCorrect == Spec => []WriterInv
<1>1. QED
  BY InitWriter, StepWriter, PTL DEF Spec, Safety

-----------------------------------------------------------------------------
(* A closed run stays as it was closed.                                    *)

LEMMA StepFinished ==
  WriterInv /\ [Next]_vars => \A r \in RunId : status[r] \in Closed => status'[r] = status[r]
<1> SUFFICES ASSUME WriterInv, [Next]_vars, NEW r \in RunId, status[r] \in Closed
             PROVE  status'[r] = status[r]
  OBVIOUS
<1>1. status[r] # "running" /\ status[r] # "none"
  BY DEF Closed
<1>2. \A s \in Session : phase[s] \in Working => mine[s] # r
  BY <1>1 DEF WriterInv, Holder
<1>3. CASE UNCHANGED status
  BY <1>3
<1>4. ASSUME NEW s \in Session, NEW st \in Closed, EndRun(s, st),
             phase[s] \in Working \cup {"done"}
      PROVE  status'[r] = status[r]
  BY <1>2, <1>4 DEF EndRun, Finish, WriterInv, TypeOK
<1>5. ASSUME NEW s \in Session, Progress(s) PROVE status'[r] = status[r]
  <2>1. CASE CancelRun(s)
    BY <1>4, <2>1 DEF CancelRun, Closed
  <2>2. ASSUME NEW listing \in SUBSET Url, Discover(s, listing)
        PROVE  status'[r] = status[r]
    <3>1. CASE EndRun(s, "failed")
      BY <1>4, <2>2, <3>1 DEF Discover, Working, Closed
    <3>2. CASE ~EndRun(s, "failed")
      BY <2>2, <3>2 DEF Discover, database
    <3>3. QED
      BY <3>1, <3>2
  <2>3. CASE FinishOk(s)
    BY <1>2, <2>3 DEF FinishOk, Working, WriterInv, TypeOK
  <2>4. CASE UNCHANGED status
    BY <2>4
  <2>5. QED
    BY <1>5, <2>1, <2>2, <2>3, <2>4
       DEF Progress, Take, Heartbeat, RetainOnly, Exhaust, Release, CommitLeftover, database
<1>6. ASSUME NEW s \in Session, Environment(s) PROVE status'[r] = status[r]
  <2>1. CASE FailRun(s)
    BY <1>4, <2>1 DEF FailRun, Closed
  <2>2. ASSUME NEW q \in RunId, NEW j \in Jobs, Claim(s, q, j)
        PROVE  status'[r] = status[r]
    BY <1>1, <2>2 DEF Claim, Claimed
  <2>3. CASE UNCHANGED status
    BY <2>3
  <2>4. QED
    BY <1>6, <2>1, <2>2, <2>3 DEF Environment, Cancel, Interrupt, Lose, database
<1>7. QED
  BY <1>3, <1>5, <1>6 DEF Next, vars

\* How a run ended is settled once, whatever is cancelled, swept or lost later.
THEOREM FinishedForGoodCorrect == Spec => FinishedForGood
<1>1. WriterInv /\ [Next]_vars =>
        [\A r \in RunId : status[r] \in Closed => status'[r] = status[r]]_vars
  BY StepFinished
<1>2. QED
  BY <1>1, WriterCorrect, PTL DEF Spec, Safety, FinishedForGood

-----------------------------------------------------------------------------
(* Traceability. It holds because a document and the observation that      *)
(* explains it travel together: what a transaction owes the corpus is      *)
(* always covered by what the same transaction has observed (Owed), and    *)
(* what a run has committed before is never lost from it (Carried).        *)

Writing == Working \cup {"unlocked"}

MayHold(r, u) == ~job[r].dry /\ u \in Eligible /\ InScope(u, job[r].scope)

Stamped ==
  /\ \A u \in Url : document[u] \in RunId => status[document[u]] # "none"
  /\ \A r \in RunId : status[r] = "none" => rows[r] = NoRows

Carried ==
  \A s \in Session : phase[s] \in Writing =>
    \A v \in Url : rows[mine[s]][v] # NoRow => seen[s][v] = rows[mine[s]][v]

Owed ==
  \A s \in Session, u \in Url : pending[s][u] # Unwritten =>
    /\ phase[s] \in Writing
    /\ pending[s][u] # NoDoc =>
         pending[s][u] = mine[s] /\ MayHold(mine[s], u) /\ u \in CollectedBy(seen[s])

TraceInv == WriterInv /\ Stamped /\ Carried /\ Owed /\ Traceable

LEMMA StampsDiffer == NoDoc \notin RunId /\ 0 \notin RunId /\ RunId \subseteq Stamp
BY CorpusAssumption DEF RunId, Stamp

LEMMA InitTrace == Init => TraceInv
<1> SUFFICES ASSUME Init PROVE TraceInv
  OBVIOUS
<1>1. \A u \in Url : document[u] \notin RunId
  BY StampsDiffer DEF Init
<1>2. \A s \in Session, u \in Url : pending[s][u] = Unwritten
  BY DEF Init, NoWrites
<1>3. \A s \in Session : phase[s] \notin Writing
  BY DEF Init, Writing, Working
<1>4. QED
  BY <1>1, <1>2, <1>3, InitWriter DEF TraceInv, Stamped, Carried, Owed, Traceable, Init

\* A commit publishes nothing that the rows it commits do not account for.
LEMMA CommitTrace ==
  ASSUME TraceInv, NEW s \in Session, phase[s] \in Writing,
         document' = AfterCommit(s), rows' = [rows EXCEPT ![mine[s]] = seen[s]],
         job' = job, \A r \in RunId : status[r] # "none" => status'[r] # "none"
  PROVE  Stamped' /\ Traceable'
<1> DEFINE r == mine[s]
<1>1. r \in RunId /\ status[r] # "none"
  BY DEF TraceInv, WriterInv, OwnRuns, Writing, Working
<1>2. rows'[r] = seen[s] /\ \A q \in RunId : q # r => rows'[q] = rows[q]
  BY <1>1 DEF TraceInv, WriterInv, TypeOK
<1>3. CollectedBy(rows[r]) \subseteq CollectedBy(seen[s])
  BY DEF TraceInv, Carried, CollectedBy
<1>4. \A u \in Url : document'[u] \in RunId =>
        \/ document'[u] = document[u]
        \/ document'[u] = r /\ MayHold(r, u) /\ u \in CollectedBy(seen[s])
  BY StampsDiffer DEF AfterCommit, TraceInv, Owed
<1>5. Stamped'
  BY <1>1, <1>2, <1>4 DEF Stamped, TraceInv
<1>6. \A u \in Url : document[u] \in RunId =>
        MayHold(document[u], u) /\ u \in CollectedBy(rows[document[u]])
  BY DEF TraceInv, Traceable, MayHold
<1>7. \A u \in Url : document'[u] \in RunId =>
        MayHold(document'[u], u) /\ u \in CollectedBy(rows'[document'[u]])
  BY <1>2, <1>3, <1>4, <1>6
<1>8. Traceable'
  BY <1>7 DEF Traceable, MayHold, CollectedBy
<1>9. QED
  BY <1>5, <1>8

\* A step that commits nothing and opens no run keeps what is visible traceable.
LEMMA SameCorpus ==
  ASSUME TraceInv, document' = document, rows' = rows, job' = job,
         \A r \in RunId : status[r] # "none" => status'[r] # "none"
  PROVE  Stamped' /\ Traceable'
BY DEF TraceInv, Stamped, Traceable, CollectedBy

\* A step in which session s, whose transaction ends, writes no more.
LEMMA EndedTransaction ==
  ASSUME TraceInv, NEW s \in Session, phase[s] # "idle", phase'[s] \notin Writing,
         pending' = [pending EXCEPT ![s] = NoWrites],
         \A t \in Session \ {s} :
           phase'[t] = phase[t] /\ mine'[t] = mine[t] /\ seen'[t] = seen[t],
         job' = job, \A q \in RunId : q # mine[s] => rows'[q] = rows[q]
  PROVE  Carried' /\ Owed'
<1>1. \A u \in Url : pending'[s][u] = Unwritten
  BY DEF NoWrites, TraceInv, WriterInv, TypeOK
<1>2. \A t \in Session \ {s} : pending'[t] = pending[t]
  BY DEF TraceInv, WriterInv, TypeOK
<1>3. Owed'
  BY <1>1, <1>2 DEF TraceInv, Owed, MayHold, CollectedBy
<1>4. \A t \in Session \ {s} :
        phase[t] \in Writing => mine[t] # mine[s] /\ mine[t] \in RunId
  BY DEF TraceInv, WriterInv, OwnRuns, Writing, Working
<1>5. Carried'
  BY <1>4 DEF TraceInv, Carried
<1>6. QED
  BY <1>3, <1>5

LEMMA EndRunTrace ==
  ASSUME TraceInv, NEW s \in Session, NEW st \in Closed,
         phase[s] \in Working \cup {"done"}, EndRun(s, st)
  PROVE  Stamped' /\ Carried' /\ Owed' /\ Traceable'
<1>1. \A r \in RunId : status[r] # "none" => status'[r] # "none"
  BY DEF EndRun, Finish, Closed, TraceInv, WriterInv, TypeOK
<1>2. Stamped' /\ Traceable'
  BY <1>1, SameCorpus DEF EndRun, Rollback
<1>3. phase[s] # "idle" /\ phase'[s] \notin Writing
  BY DEF EndRun, TraceInv, WriterInv, TypeOK, Writing, Working
<1>4. Carried' /\ Owed'
  BY <1>3, EndedTransaction DEF EndRun, Rollback, TraceInv, WriterInv, TypeOK
<1>5. QED
  BY <1>2, <1>4

\* The page taken is one the run may hold, and its observation says so.
LEMMA TakeTrace ==
  ASSUME TraceInv, NEW s \in Session, NEW u \in Url, NEW answer \in Answers,
         NEW final \in Lands[u], Take(s, u, answer, final)
  PROVE  Stamped' /\ Carried' /\ Owed' /\ Traceable'
<1> DEFINE r == mine[s]
           reason == Judge(answer, final, job[r].scope)
           row == [reason |-> reason, final |-> final]
           kept == reason \in Collected /\ Writes(r)
<1>1. final \in Url /\ phase[s] \in Writing /\ phase' = phase /\ mine' = mine
      /\ job' = job /\ rows' = rows /\ document' = document /\ status' = status
  BY CrawlAssumption DEF Take, database, Writing, Working
<1>2. Stamped' /\ Traceable'
  BY <1>1, SameCorpus
<1>3. seen[s][u] = NoRow /\ seen' = [seen EXCEPT ![s][u] = row]
  BY DEF Take, Unread
<1>4. \A t \in Session, v \in Url :
        seen'[t][v] = IF t = s /\ v = u THEN row ELSE seen[t][v]
  <2>1. seen \in [Session -> [Url -> Row \cup {NoRow}]]
    BY DEF TraceInv, WriterInv, TypeOK, Table
  <2> HIDE DEF row
  <2>2. QED
    BY <1>3, <2>1
<1>5. Carried'
  <2> SUFFICES ASSUME NEW t \in Session, phase[t] \in Writing, NEW v \in Url,
                      rows[mine[t]][v] # NoRow
               PROVE  seen'[t][v] = rows[mine[t]][v]
    BY <1>1 DEF Carried
  <2>1. seen[t][v] = rows[mine[t]][v]
    BY DEF TraceInv, Carried
  <2>2. ~(t = s /\ v = u)
    BY <1>3, <2>1
  <2>3. QED
    BY <1>4, <2>1, <2>2
<1>6. \A t \in Session : CollectedBy(seen[t]) \subseteq CollectedBy(seen'[t])
  BY <1>3, <1>4 DEF CollectedBy
<1>7. CASE kept
  <2>1. row \in Row
    BY <1>1, JudgeType DEF Row
  <2>2. row # NoRow /\ final \in CollectedBy(seen'[s])
    BY <1>1, <1>4, <1>7, <2>1, CrawlAssumption DEF CollectedBy
  <2>3. final \in Eligible /\ InScope(final, job[r].scope)
    BY <1>7 DEF Judge, Collected, Read
  <2>4. MayHold(r, final)
    BY <1>7, <2>3 DEF MayHold, Writes
  <2>5. pending' = [pending EXCEPT ![s] = [pending[s] EXCEPT ![final] = mine[s]]]
    BY <1>7 DEF Take, AfterPut
  <2>6. \A t \in Session, v \in Url :
          pending'[t][v] = IF t = s /\ v = final THEN mine[s] ELSE pending[t][v]
    BY <1>1, <2>5 DEF TraceInv, WriterInv, TypeOK
  <2>7. Owed'
    <3> SUFFICES ASSUME NEW t \in Session, NEW v \in Url, pending'[t][v] # Unwritten
                 PROVE  /\ phase[t] \in Writing
                        /\ pending'[t][v] # NoDoc =>
                             /\ pending'[t][v] = mine[t]
                             /\ MayHold(mine[t], v)
                             /\ v \in CollectedBy(seen'[t])
      BY <1>1 DEF Owed, MayHold, CollectedBy
    <3>1. CASE t = s /\ v = final
      BY <1>1, <2>2, <2>4, <2>6, <3>1
    <3>2. CASE ~(t = s /\ v = final)
      BY <1>6, <2>6, <3>2 DEF TraceInv, Owed
    <3>3. QED
      BY <3>1, <3>2
  <2>8. QED
    BY <1>2, <1>5, <2>7
<1>8. CASE ~kept
  <2>1. pending' = pending
    BY <1>8 DEF Take, TraceInv, WriterInv, TypeOK
  <2>2. Owed'
    BY <1>1, <1>6, <2>1 DEF TraceInv, Owed, MayHold, CollectedBy
  <2>3. QED
    BY <1>2, <1>5, <2>2
<1>9. QED
  BY <1>7, <1>8

LEMMA RetainTrace ==
  ASSUME TraceInv, NEW s \in Session, RetainOnly(s)
  PROVE  Stamped' /\ Carried' /\ Owed' /\ Traceable'
<1>1. phase[s] \in Writing /\ phase'[s] \in Writing
      /\ \A t \in Session \ {s} : phase'[t] = phase[t]
  BY DEF RetainOnly, TraceInv, WriterInv, TypeOK, Writing, Working
<1>2. mine' = mine /\ seen' = seen /\ job' = job /\ rows' = rows
      /\ document' = document /\ status' = status
  BY DEF RetainOnly, database
<1>3. Stamped' /\ Traceable'
  BY <1>2, SameCorpus
<1>4. Carried'
  BY <1>1, <1>2 DEF TraceInv, Carried
<1>5. \A t \in Session, u \in Url :
        pending'[t][u] = pending[t][u] \/ (t = s /\ pending'[t][u] = NoDoc)
  BY DEF RetainOnly, AfterRetainOnly, TraceInv, WriterInv, TypeOK
<1>6. Owed'
  BY <1>1, <1>2, <1>5 DEF TraceInv, Owed, MayHold, CollectedBy
<1>7. QED
  BY <1>3, <1>4, <1>6

LEMMA ClaimTrace ==
  ASSUME TraceInv, NEW s \in Session, NEW r \in RunId, NEW j \in Jobs, Claim(s, r, j)
  PROVE  Stamped' /\ Carried' /\ Owed' /\ Traceable'
<1>1. document' = document /\ rows' = rows /\ seen' = seen /\ pending' = pending
      /\ status[r] = "none" /\ phase[s] = "idle"
  BY DEF Claim
<1>2. \A q \in RunId : status[q] # "none" => status'[q] # "none" /\ job'[q] = job[q]
  BY <1>1 DEF Claim, Claimed, TraceInv, WriterInv, TypeOK
<1>3. \A t \in Session \ {s} : phase'[t] = phase[t] /\ mine'[t] = mine[t]
  BY DEF Claim, TraceInv, WriterInv, TypeOK
<1>4. \A u \in Url : pending[s][u] = Unwritten
  BY <1>1 DEF TraceInv, Owed, Writing, Working
<1>5. Stamped'
  BY <1>1, <1>2 DEF TraceInv, Stamped
<1>6. \A u \in Url : document[u] \in RunId =>
        status[document[u]] # "none" /\ job'[document[u]] = job[document[u]]
  BY <1>2 DEF TraceInv, Stamped
<1>7. Traceable'
  BY <1>1, <1>6 DEF TraceInv, Traceable, CollectedBy
<1>8. Carried'
  <2>1. rows[r] = NoRows
    BY <1>1 DEF TraceInv, Stamped
  <2>2. \A v \in Url : rows'[mine'[s]][v] = NoRow
    BY <1>1, <2>1 DEF Claim, NoRows, TraceInv, WriterInv, TypeOK
  <2>3. QED
    BY <1>1, <1>3, <2>2 DEF TraceInv, Carried
<1>9. Owed'
  BY <1>1, <1>2, <1>3, <1>4 DEF TraceInv, Owed, MayHold, CollectedBy, WriterInv, OwnRuns, Writing, Working
<1>10. QED
  BY <1>5, <1>7, <1>8, <1>9

LEMMA StepTrace == TraceInv /\ [Next]_vars => TraceInv'
<1> SUFFICES ASSUME TraceInv, [Next]_vars
             PROVE  Stamped' /\ Carried' /\ Owed' /\ Traceable'
  BY StepWriter DEF TraceInv
<1>1. CASE UNCHANGED vars
  BY <1>1 DEF vars, TraceInv, Stamped, Carried, Owed, Traceable, MayHold, CollectedBy
<1>2. ASSUME NEW s \in Session, CancelRun(s)
      PROVE  Stamped' /\ Carried' /\ Owed' /\ Traceable'
  BY <1>2, EndRunTrace DEF CancelRun, Closed
<1>3. ASSUME NEW s \in Session, FailRun(s)
      PROVE  Stamped' /\ Carried' /\ Owed' /\ Traceable'
  BY <1>3, EndRunTrace DEF FailRun, Closed
<1>4. ASSUME NEW s \in Session, NEW listing \in SUBSET Url, Discover(s, listing)
      PROVE  Stamped' /\ Carried' /\ Owed' /\ Traceable'
  <2>1. phase[s] \in Working
    BY <1>4 DEF Discover, Working
  <2>2. CASE EndRun(s, "failed")
    BY <2>1, <2>2, EndRunTrace DEF Closed
  <2>3. CASE ~EndRun(s, "failed")
    <3>1. UNCHANGED <<document, status, job, rows, mine, seen, pending>>
          /\ phase' = [phase EXCEPT ![s] = "fetch"]
      BY <1>4, <2>3 DEF Discover, database
    <3>2. \A t \in Session : phase'[t] \in Writing <=> phase[t] \in Writing
      BY <2>1, <3>1 DEF TraceInv, WriterInv, TypeOK, Writing, Working
    <3>3. Stamped' /\ Traceable'
      BY <3>1, SameCorpus
    <3>4. Carried' /\ Owed'
      BY <3>1, <3>2 DEF TraceInv, Carried, Owed, MayHold, CollectedBy
    <3>5. QED
      BY <3>3, <3>4
  <2>4. QED
    BY <2>2, <2>3
<1>5. ASSUME NEW s \in Session, NEW u \in Url, NEW answer \in Answers,
             NEW final \in Lands[u], Take(s, u, answer, final)
      PROVE  Stamped' /\ Carried' /\ Owed' /\ Traceable'
  BY <1>5, TakeTrace
<1>6. ASSUME NEW s \in Session, Heartbeat(s)
      PROVE  Stamped' /\ Carried' /\ Owed' /\ Traceable'
  <2>1. phase[s] \in Writing /\ phase'[s] \in Writing
        /\ \A t \in Session \ {s} : phase'[t] = phase[t]
    BY <1>6 DEF Heartbeat, TraceInv, WriterInv, TypeOK, Writing, Working
  <2>2. Stamped' /\ Traceable'
    BY <1>6, <2>1, CommitTrace DEF Heartbeat
  <2>3. mine' = mine /\ seen' = seen /\ job' = job
        /\ rows' = [rows EXCEPT ![mine[s]] = seen[s]]
    BY <1>6 DEF Heartbeat
  <2>4. Carried'
    <3> SUFFICES ASSUME NEW t \in Session, phase'[t] \in Writing, NEW u \in Url,
                        rows'[mine[t]][u] # NoRow
                 PROVE  seen[t][u] = rows'[mine[t]][u]
      BY <2>3 DEF Carried
    <3>1. phase[t] \in Writing
      BY <2>1
    <3>2. mine[t] \in RunId /\ mine[s] \in RunId
      BY <2>1, <3>1 DEF TraceInv, WriterInv, OwnRuns, Writing, Working
    <3>3. rows'[mine[t]] = IF mine[t] = mine[s] THEN seen[s] ELSE rows[mine[t]]
      BY <2>3, <3>2 DEF TraceInv, WriterInv, TypeOK
    <3>4. mine[t] = mine[s] => t = s
      BY <2>1, <3>1 DEF TraceInv, WriterInv, OwnRuns, Writing, Working
    <3>5. QED
      BY <3>1, <3>3, <3>4 DEF TraceInv, Carried
  <2>5. \A t \in Session, u \in Url :
          pending'[t][u] = IF t = s THEN Unwritten ELSE pending[t][u]
    BY <1>6 DEF Heartbeat, NoWrites, TraceInv, WriterInv, TypeOK
  <2>6. Owed'
    BY <2>1, <2>3, <2>5 DEF TraceInv, Owed, MayHold, CollectedBy
  <2>7. QED
    BY <2>2, <2>4, <2>6
<1>7. ASSUME NEW s \in Session, RetainOnly(s)
      PROVE  Stamped' /\ Carried' /\ Owed' /\ Traceable'
  BY <1>7, RetainTrace
<1>8. ASSUME NEW s \in Session, FinishOk(s)
      PROVE  Stamped' /\ Carried' /\ Owed' /\ Traceable'
  <2>1. phase[s] \in Writing /\ phase[s] # "idle" /\ phase'[s] \notin Writing
        /\ \A t \in Session \ {s} : phase'[t] = phase[t]
    BY <1>8 DEF FinishOk, TraceInv, WriterInv, TypeOK, Writing, Working
  <2>2. \A r \in RunId : status[r] # "none" => status'[r] # "none"
    BY <1>8 DEF FinishOk, TraceInv, WriterInv, TypeOK
  <2>3. Stamped' /\ Traceable'
    BY <1>8, <2>1, <2>2, CommitTrace DEF FinishOk
  <2>4. Carried' /\ Owed'
    BY <1>8, <2>1, EndedTransaction DEF FinishOk, TraceInv, WriterInv, TypeOK
  <2>5. QED
    BY <2>3, <2>4
<1>9. ASSUME NEW s \in Session, Exhaust(s)
      PROVE  Stamped' /\ Carried' /\ Owed' /\ Traceable'
  <2>1. UNCHANGED <<document, status, job, rows, mine, seen, pending>>
    BY <1>9 DEF Exhaust, database
  <2>2. \A t \in Session : phase'[t] \in Writing <=> phase[t] \in Writing
    BY <1>9 DEF Exhaust, TraceInv, WriterInv, TypeOK, Writing, Working
  <2>3. Stamped' /\ Traceable'
    BY <2>1, SameCorpus
  <2>4. Carried' /\ Owed'
    BY <2>1, <2>2 DEF TraceInv, Carried, Owed, MayHold, CollectedBy
  <2>5. QED
    BY <2>3, <2>4
<1>10. ASSUME NEW s \in Session, phase[s] # "idle", Parked(s, NoOne), UNCHANGED database
       PROVE  Stamped' /\ Carried' /\ Owed' /\ Traceable'
  <2>1. Stamped' /\ Traceable'
    BY <1>10, SameCorpus DEF database
  <2>2. Carried' /\ Owed'
    BY <1>10, EndedTransaction
       DEF Parked, database, TraceInv, WriterInv, TypeOK, Writing, Working
  <2>3. QED
    BY <2>1, <2>2
<1>11. ASSUME NEW s \in Session, CommitLeftover(s)
       PROVE  Stamped' /\ Carried' /\ Owed' /\ Traceable'
  <2>1. phase[s] \in Writing /\ phase[s] # "idle"
    BY <1>11 DEF CommitLeftover, Writing
  <2>2. Stamped' /\ Traceable'
    BY <1>11, <2>1, CommitTrace DEF CommitLeftover
  <2>3. Carried' /\ Owed'
    BY <1>11, <2>1, EndedTransaction
       DEF CommitLeftover, Parked, TraceInv, WriterInv, TypeOK, Writing, Working
  <2>4. QED
    BY <2>2, <2>3
<1>12. ASSUME NEW s \in Session, NEW r \in RunId, NEW j \in Jobs, Claim(s, r, j)
       PROVE  Stamped' /\ Carried' /\ Owed' /\ Traceable'
  BY <1>12, ClaimTrace
<1>13. ASSUME NEW s \in Session, Cancel(s)
       PROVE  Stamped' /\ Carried' /\ Owed' /\ Traceable'
  BY <1>13 DEF Cancel, database, TraceInv, Stamped, Carried, Owed, Traceable, MayHold,
               CollectedBy
<1>14. ASSUME NEW s \in Session, Interrupt(s)
       PROVE  Stamped' /\ Carried' /\ Owed' /\ Traceable'
  <2>1. UNCHANGED <<document, status, job, rows, mine, seen, pending>>
    BY <1>14 DEF Interrupt, database
  <2>2. \A t \in Session : phase'[t] \in Writing <=> phase[t] \in Writing
    BY <1>14 DEF Interrupt, TraceInv, WriterInv, TypeOK, Writing, Working
  <2>3. Stamped' /\ Traceable'
    BY <2>1, SameCorpus
  <2>4. Carried' /\ Owed'
    BY <2>1, <2>2 DEF TraceInv, Carried, Owed, MayHold, CollectedBy
  <2>5. QED
    BY <2>3, <2>4
<1>15. ASSUME NEW s \in Session, Release(s)
       PROVE  Stamped' /\ Carried' /\ Owed' /\ Traceable'
  BY <1>10, <1>15 DEF Release
<1>16. ASSUME NEW s \in Session, Lose(s)
       PROVE  Stamped' /\ Carried' /\ Owed' /\ Traceable'
  BY <1>10, <1>16 DEF Lose
<1>17. QED
  BY <1>1, <1>2, <1>3, <1>4, <1>5, <1>6, <1>7, <1>8, <1>9, <1>11, <1>12, <1>13,
     <1>14, <1>15, <1>16 DEF Next, Progress, Environment

\* Every document in the corpus is accounted for by a committed observation of
\* the run whose stamp it carries, at every moment, whoever reads.
THEOREM TraceableCorrect == Spec => []Traceable
<1>1. TraceInv => Traceable
  BY DEF TraceInv
<1>2. QED
  BY <1>1, InitTrace, StepTrace, PTL DEF Spec, Safety

\* Only a session at the console is ever interrupted: every other way out of a
\* crawl keeps the lock until the transaction is over.
AtConsole == \A s \in Session : phase[s] = "unlocked" => s \in Console

LEMMA StepAtConsole == TypeOK /\ AtConsole /\ [Next]_vars => AtConsole'
<1> SUFFICES ASSUME TypeOK, AtConsole, [Next]_vars, NEW t \in Session, phase'[t] = "unlocked"
             PROVE  t \in Console
  BY DEF AtConsole
<1>1. CASE phase[t] = "unlocked"
  BY <1>1 DEF AtConsole
<1>2. ASSUME phase[t] # "unlocked", NEW s \in Session, Progress(s) \/ Environment(s)
      PROVE  t \in Console
  <2>1. CASE Interrupt(s)
    BY <1>2, <2>1 DEF Interrupt, TypeOK
  <2>2. CASE EndRun(s, "cancelled") \/ EndRun(s, "failed")
    BY <1>2, <2>2 DEF EndRun, TypeOK
  <2>3. CASE \E held \in {NoOne} : Parked(s, held)
    BY <1>2, <2>3 DEF Parked, TypeOK
  <2>4. CASE \E r \in RunId, j \in Jobs : Claim(s, r, j)
    BY <1>2, <2>4 DEF Claim, TypeOK
  <2>5. CASE \E p \in Working \cup {"done", "closing"} : phase' = [phase EXCEPT ![s] = p]
    BY <1>2, <2>5 DEF Working, TypeOK
  <2>6. CASE phase' = phase
    BY <1>2, <2>6
  <2>7. QED
    BY <1>2, <2>1, <2>2, <2>3, <2>4, <2>5, <2>6
       DEF Progress, Environment, CancelRun, FailRun, Cancel, Discover, Take, Heartbeat,
           RetainOnly, FinishOk, Exhaust, Release, CommitLeftover, Lose, Working
<1>3. QED
  BY <1>1, <1>2 DEF Next, vars

\* The advisory lock is held exactly by the crawl that may still write or is
\* closing down, and at most one run is marked running. What a session without
\* the lock still has to commit is left from a crawl an operator interrupted at
\* the console, under a run that no other session writes for; where there is no
\* console, only the holder has anything to commit.
THEOREM OneWriterCorrect == Spec => []OneWriter
<1>1. Init => TraceInv /\ AtConsole
  BY InitTrace DEF Init, AtConsole
<1>2. TraceInv /\ AtConsole /\ [Next]_vars => TraceInv' /\ AtConsole'
  BY StepTrace, StepAtConsole DEF TraceInv, WriterInv
<1>3. TraceInv /\ AtConsole => OneWriter
  <2> SUFFICES ASSUME TraceInv, AtConsole PROVE OneWriter
    OBVIOUS
  <2>1. Holder
    BY DEF TraceInv, WriterInv
  <2>2. ASSUME NEW s \in Session, pending[s] # NoWrites
        PROVE  lock = s \/ (s \in Console /\ phase[s] = "unlocked")
    <3>1. PICK u \in Url : pending[s][u] # Unwritten
      BY <2>2 DEF NoWrites, TraceInv, WriterInv, TypeOK
    <3>2. phase[s] \in Writing
      BY <3>1 DEF TraceInv, Owed
    <3>3. QED
      BY <2>1, <3>2 DEF Writing, Holder, AtConsole
  <2>3. ASSUME NEW s \in Session, NEW t \in Session,
               {phase[s], phase[t]} \subseteq Working \cup {"unlocked"}, mine[s] = mine[t]
        PROVE  s = t
    BY <2>3 DEF TraceInv, WriterInv, OwnRuns, Working
  <2>4. QED
    BY <2>1, <2>2, <2>3 DEF Holder, OneWriter
<1>4. QED
  BY <1>1, <1>2, <1>3, PTL DEF Spec, Safety

-----------------------------------------------------------------------------
(* The coverage floor. A crawl that fetches has been admitted against the  *)
(* last healthy run of its scope, and still is when it completes: while it *)
(* holds the lock nobody else completes, and no run is newer than it.      *)

Fetching == {"fetch", "reconcile", "pruned"}

InOrder == \A r, q \in RunId : q < r /\ status[r] # "none" => status[q] # "none"

NewestWrites ==
  \A s \in Session : phase[s] \in Working => \A q \in RunId : status[q] # "none" => q <= mine[s]

HasLargest ==
  \A scope \in Scope : Healthy(scope) # {} =>
    \E r \in Healthy(scope) : \A q \in Healthy(scope) : q <= r

Admitted ==
  \A s \in Session : phase[s] \in Fetching => ~Refused(worklist[s], job[mine[s]].scope)

CoverInv == WriterInv /\ InOrder /\ NewestWrites /\ HasLargest /\ Admitted /\ CoverageFloor

LEMMA RunIdIsNat == RunId \subseteq Nat /\ \A r \in RunId : r \in Int
BY CorpusAssumption DEF RunId

\* previous_listed reads the newest healthy run of the scope.
LEMMA PreviousIsLargest ==
  ASSUME NEW scope, NEW r \in Healthy(scope), \A q \in Healthy(scope) : q <= r
  PROVE  PreviousListed(scope) = listed[r]
<1> DEFINE n == CHOOSE n \in Healthy(scope) : \A q \in Healthy(scope) : q <= n
<1>1. n \in Healthy(scope) /\ \A q \in Healthy(scope) : q <= n
  OBVIOUS
<1>2. n \in Int /\ r \in Int /\ n <= r /\ r <= n
  <2> HIDE DEF n
  <2> QED BY <1>1, RunIdIsNat DEF Healthy
<1>3. n = r
  <2> HIDE DEF n
  <2> QED BY <1>2
<1>4. Healthy(scope) # {}
  OBVIOUS
<1>5. PreviousListed(scope) = listed[n]
  BY <1>4 DEF PreviousListed
<1>6. QED
  BY <1>3, <1>5

LEMMA InitCover == Init => CoverInv
<1> SUFFICES ASSUME Init PROVE CoverInv
  OBVIOUS
<1>1. \A r \in RunId : status[r] = "none"
  BY DEF Init
<1>2. \A scope : Healthy(scope) = {}
  BY <1>1 DEF Healthy
<1>3. WriterInv
  BY InitWriter
<1>4. InOrder /\ HasLargest /\ CoverageFloor
  BY <1>1, <1>2 DEF InOrder, HasLargest, CoverageFloor
<1>5. NewestWrites /\ Admitted
  BY DEF Init, NewestWrites, Admitted, Working, Fetching
<1>6. QED
  BY <1>3, <1>4, <1>5 DEF CoverInv

\* A step that completes no run leaves what completed runs say.
SameHistory ==
  /\ \A r \in RunId : status'[r] = "ok" <=> status[r] = "ok"
  /\ \A r \in RunId : status[r] = "ok" => listed'[r] = listed[r] /\ job'[r] = job[r]

LEMMA HistoryKept ==
  ASSUME CoverInv, SameHistory
  PROVE  /\ \A scope \in Scope : PreviousListed(scope)' = PreviousListed(scope)
         /\ HasLargest' /\ CoverageFloor'
<1>1. \A scope : Healthy(scope)' = Healthy(scope)
  BY DEF SameHistory, Healthy
<1>2. HasLargest'
  BY <1>1 DEF CoverInv, HasLargest
<1>3. ASSUME NEW scope \in Scope PROVE PreviousListed(scope)' = PreviousListed(scope)
  <2>1. CASE Healthy(scope) = {}
    BY <1>1, <2>1 DEF PreviousListed
  <2>2. CASE Healthy(scope) # {}
    <3>1. PICK r \in Healthy(scope) : \A q \in Healthy(scope) : q <= r
      BY <2>2 DEF CoverInv, HasLargest
    <3>2. PreviousListed(scope) = listed[r]
      BY <3>1, PreviousIsLargest
    <3>3. listed'[r] = listed[r]
      BY DEF SameHistory, Healthy
    <3>4. (CHOOSE n \in Healthy(scope) : \A q \in Healthy(scope) : q <= n) = r
      <4> DEFINE n == CHOOSE n \in Healthy(scope) : \A q \in Healthy(scope) : q <= n
      <4>1. n \in Healthy(scope) /\ \A q \in Healthy(scope) : q <= n
        BY <3>1
      <4> HIDE DEF n
      <4>2. n \in Int /\ r \in Int /\ n <= r /\ r <= n
        BY <3>1, <4>1, RunIdIsNat DEF Healthy
      <4>3. QED
        BY <4>2 DEF n
    <3>5. PreviousListed(scope)' = listed'[r]
      BY <1>1, <2>2, <3>4 DEF PreviousListed
    <3>6. QED
      BY <3>2, <3>3, <3>5
  <2>3. QED
    BY <2>1, <2>2
<1>4. \A r \in RunId : \A scope : r \in Healthy(scope) => job'[r] = job[r] /\ listed'[r] = listed[r]
  BY DEF SameHistory, Healthy
<1>5. \A r \in RunId : r \in Healthy(job'[r].scope) => job'[r] = job[r] /\ listed'[r] = listed[r]
  BY <1>4
<1>6. CoverageFloor'
  BY <1>1, <1>4, <1>5 DEF CoverInv, CoverageFloor
<1>7. QED
  BY <1>2, <1>3, <1>6

\* A step that completes no run and lets no crawl begin to write or to fetch.
LEMMA SameCover ==
  ASSUME CoverInv, WriterInv', SameHistory,
         \A r \in RunId : status'[r] # "none" <=> status[r] # "none",
         \A s \in Session : phase'[s] \in Working =>
           phase[s] \in Working /\ mine'[s] = mine[s] /\ job'[mine[s]] = job[mine[s]],
         \A s \in Session : phase'[s] \in Fetching =>
           phase[s] \in Fetching /\ worklist'[s] = worklist[s]
  PROVE  CoverInv'
<1>1. HasLargest' /\ CoverageFloor'
  BY HistoryKept
<1>2. InOrder' /\ NewestWrites'
  BY DEF CoverInv, InOrder, NewestWrites
<1>3. ASSUME NEW s \in Session, phase'[s] \in Fetching
      PROVE  ~Refused(worklist[s], job[mine[s]].scope)'
  <2>1. phase'[s] \in Working
    BY <1>3 DEF Fetching, Working
  <2>2. job[mine[s]].scope \in Scope
    <3>1. mine[s] \in RunId
      BY <2>1 DEF CoverInv, WriterInv, OwnRuns, Working
    <3>2. QED
      BY <3>1 DEF CoverInv, WriterInv, TypeOK, Job
  <2>3. ~Refused(worklist[s], job[mine[s]].scope)
    BY <1>3 DEF CoverInv, Admitted
  <2>4. PICK scope \in Scope : scope = job[mine[s]].scope
    BY <2>2
  <2>5. PreviousListed(scope)' = PreviousListed(scope)
    BY HistoryKept
  <2>6. job'[mine'[s]].scope = scope /\ worklist'[s] = worklist[s]
    BY <1>3, <2>1, <2>4
  <2>7. ~Refused(worklist[s], scope)
    BY <2>3, <2>4
  <2>8. worklist'[s] # {} /\ ~(10 * Cardinality(worklist'[s]) < 7 * PreviousListed(scope)')
    BY <2>5, <2>6, <2>7 DEF Refused
  <2>9. QED
    BY <2>6, <2>8 DEF Refused, PreviousListed, Healthy
<1>4. QED
  BY <1>1, <1>2, <1>3 DEF CoverInv, Admitted

LEMMA ClaimCover ==
  ASSUME CoverInv, WriterInv', NEW s \in Session, NEW r \in RunId, NEW j \in Jobs, Claim(s, r, j)
  PROVE  CoverInv'
<1>1. /\ status[r] = "none" /\ \A q \in RunId : q < r => status[q] # "none"
      /\ lock = NoOne /\ mine'[s] = r /\ phase'[s] = "discover"
      /\ status' = Claimed(r) /\ job' = [job EXCEPT ![r] = j] /\ listed' = listed
      /\ \A t \in Session \ {s} : phase'[t] = phase[t] /\ mine'[t] = mine[t]
  BY DEF Claim, LockFree, CoverInv, WriterInv, TypeOK
<1>2. \A q \in RunId : status'[q] # "none" <=> q = r \/ status[q] # "none"
  BY <1>1 DEF Claimed
<1>3. SameHistory
  BY <1>1 DEF SameHistory, Claimed, CoverInv, WriterInv, TypeOK
<1>4. \A t \in Session \ {s} : phase[t] \notin Working
  BY <1>1, CrawlAssumption DEF CoverInv, WriterInv, Holder
<1>5. HasLargest' /\ CoverageFloor'
  BY <1>3, HistoryKept
<1>6. InOrder'
  BY <1>1, <1>2, RunIdIsNat DEF CoverInv, InOrder
<1>7. NewestWrites'
  <2>1. ASSUME NEW q \in RunId, q # r, status[q] # "none" PROVE q <= r
    <3>1. ~(r < q)
      BY <1>1, <2>1 DEF CoverInv, InOrder
    <3>2. QED
      BY <3>1, RunIdIsNat
  <2>2. \A q \in RunId : status'[q] # "none" => q <= r
    BY <1>2, <2>1, RunIdIsNat
  <2>3. QED
    BY <1>1, <1>4, <2>2 DEF NewestWrites
<1>8. Admitted'
  BY <1>1, <1>4 DEF Admitted, Fetching, Working
<1>9. QED
  BY <1>5, <1>6, <1>7, <1>8 DEF CoverInv

LEMMA EndRunCover ==
  ASSUME CoverInv, WriterInv', NEW s \in Session, NEW st \in {"cancelled", "failed"},
         phase[s] \in Working \cup {"done"}, EndRun(s, st)
  PROVE  CoverInv'
<1>1. /\ mine' = mine /\ job' = job /\ worklist' = worklist
      /\ \A t \in Session : phase'[t] = IF t = s THEN "closing" ELSE phase[t]
  BY DEF EndRun, CoverInv, WriterInv, TypeOK
<1>2. CASE phase[s] = "done"
  <2>1. UNCHANGED <<status, listed>>
    BY <1>2 DEF EndRun, Finish
  <2>2. QED
    BY <1>1, <2>1, SameCover DEF SameHistory, Working, Fetching
<1>3. CASE phase[s] # "done"
  <2>1. mine[s] \in RunId /\ status[mine[s]] = "running"
    BY <1>3 DEF CoverInv, WriterInv, OwnRuns, Holder, Working
  <2>2. \A r \in RunId : /\ status'[r] = IF r = mine[s] THEN st ELSE status[r]
                         /\ r # mine[s] => listed'[r] = listed[r]
    BY <1>3 DEF EndRun, Finish, CoverInv, WriterInv, TypeOK
  <2>3. QED
    BY <1>1, <2>1, <2>2, SameCover DEF SameHistory, Working, Fetching
<1>4. QED
  BY <1>2, <1>3

\* The run that completes becomes the newest healthy one of its scope, and was
\* admitted against the one that was.
LEMMA FinishCover ==
  ASSUME CoverInv, WriterInv', NEW s \in Session, FinishOk(s)
  PROVE  CoverInv'
<1> DEFINE n == mine[s]
<1>1. /\ phase[s] = "pruned" /\ phase[s] \in Working /\ phase[s] \in Fetching
      /\ job' = job /\ mine' = mine
      /\ \A t \in Session : phase'[t] = IF t = s THEN "done" ELSE phase[t]
  BY DEF FinishOk, Working, Fetching, CoverInv, WriterInv, TypeOK
<1>2. n \in RunId /\ status[n] = "running"
  BY <1>1 DEF CoverInv, WriterInv, OwnRuns, Holder, Working
<1>3. \A r \in RunId : /\ status'[r] = IF r = n THEN "ok" ELSE status[r]
                       /\ listed'[r] = IF r = n THEN Cardinality(worklist[s]) ELSE listed[r]
  BY <1>2 DEF FinishOk, CoverInv, WriterInv, TypeOK
<1>4. \A t \in Session : phase'[t] \notin Working
  <2>1. \A t \in Session : phase[t] \in Working => t = s
    BY <1>1 DEF CoverInv, WriterInv, Holder
  <2>2. QED
    BY <1>1, <2>1 DEF Working
<1>5. InOrder' /\ NewestWrites' /\ Admitted'
  <2>1. InOrder'
    BY <1>2, <1>3 DEF CoverInv, InOrder
  <2>2. NewestWrites' /\ Admitted'
    BY <1>4 DEF NewestWrites, Admitted, Working, Fetching
  <2>3. QED
    BY <2>1, <2>2
<1>6. \A scope : Healthy(scope)' =
        Healthy(scope) \cup (IF Writes(n) /\ job[n].scope = scope THEN {n} ELSE {})
  BY <1>1, <1>2, <1>3 DEF Healthy, Writes
<1>7. \A r \in RunId : status[r] # "none" => r <= n
  BY <1>1 DEF CoverInv, NewestWrites
<1>8. \A scope : \A q \in Healthy(scope) : q <= n /\ q # n
  BY <1>2, <1>7 DEF Healthy
<1>9. HasLargest'
  <2> SUFFICES ASSUME NEW scope \in Scope, Healthy(scope)' # {}
               PROVE  \E r \in Healthy(scope)' : \A q \in Healthy(scope)' : q <= r
    BY DEF HasLargest
  <2>1. CASE Writes(n) /\ job[n].scope = scope
    <3>1. Healthy(scope)' = Healthy(scope) \cup {n}
      BY <1>6, <2>1
    <3>2. n <= n
      <4>1. n \in Int
        BY <1>2, RunIdIsNat
      <4> HIDE DEF n
      <4>2. QED
        BY <4>1
    <3>3. QED
      BY <1>8, <3>1, <3>2
  <2>2. CASE ~(Writes(n) /\ job[n].scope = scope)
    BY <1>6, <2>2 DEF CoverInv, HasLargest
  <2>3. QED
    BY <2>1, <2>2
<1>10. Cardinality(worklist[s]) \in Nat /\ Cardinality(worklist[s]) > 0
  <2>1. TypeOK
    BY DEF CoverInv, WriterInv
  <2>2. worklist[s] # {}
    BY <1>1 DEF CoverInv, Admitted, Refused
  <2>3. IsFiniteSet(worklist[s])
    BY <2>1, CrawlAssumption, FS_Subset DEF TypeOK
  <2>4. Cardinality(worklist[s]) \in Nat
    BY <2>1, WorklistCount
  <2>5. Cardinality(worklist[s]) # 0
    BY <2>2, <2>3, FS_EmptySet
  <2>6. QED
    BY <2>4, <2>5
<1>11. ASSUME NEW q \in Healthy(job[n].scope),
              \A m \in Healthy(job[n].scope) : ~(q < m)
       PROVE  10 * Cardinality(worklist[s]) >= 7 * listed[q]
  <2>1. \A m \in Healthy(job[n].scope) : m <= q
    BY <1>11, RunIdIsNat DEF Healthy
  <2>2. PreviousListed(job[n].scope) = listed[q]
    BY <2>1, PreviousIsLargest
  <2>3. ~(10 * Cardinality(worklist[s]) < 7 * PreviousListed(job[n].scope))
    BY <1>1 DEF CoverInv, Admitted, Refused
  <2>4. listed[q] \in Nat
    BY DEF Healthy, CoverInv, WriterInv, TypeOK
  <2>5. QED
    BY <1>10, <2>2, <2>3, <2>4
<1>12. ASSUME NEW r \in RunId, r \in Healthy(job[r].scope)' PROVE listed'[r] > 0
  <2>1. CASE r = n
    BY <1>3, <1>10, <2>1
  <2>2. CASE r # n
    <3>1. r \in Healthy(job[r].scope)
      BY <1>1, <1>3, <1>12, <2>2 DEF Healthy
    <3>2. QED
      BY <1>3, <2>2, <3>1 DEF CoverInv, CoverageFloor
  <2>3. QED
    BY <2>1, <2>2
<1>13. ASSUME NEW r \in RunId, NEW q \in RunId, q < r, {q, r} \subseteq Healthy(job[r].scope)',
              ~\E m \in Healthy(job[r].scope)' : q < m /\ m < r
       PROVE  10 * listed'[r] >= 7 * listed'[q]
  <2>1. PICK scope : scope = job[r].scope
    OBVIOUS
  <2>2. {q, r} \subseteq Healthy(scope)' /\ ~\E m \in Healthy(scope)' : q < m /\ m < r
    BY <1>1, <1>13, <2>1 DEF Healthy
  <2>3. CASE r = n
    <3>1. Writes(n) /\ q # n
      BY <1>6, <1>8, <1>13, <2>2, <2>3, RunIdIsNat
    <3>2. q \in Healthy(scope)
      BY <1>6, <2>2, <3>1
    <3>3. ASSUME NEW m \in Healthy(scope) PROVE m < n
      <4>1. m \in Int /\ n \in Int
        BY <1>2, RunIdIsNat DEF Healthy
      <4>2. m <= n /\ m # n
        BY <1>8
      <4> HIDE DEF n
      <4>3. QED
        BY <4>1, <4>2
    <3>4. \A m \in Healthy(scope) : ~(q < m)
      BY <1>6, <2>2, <2>3, <3>3
    <3>5. QED
      BY <1>3, <1>11, <2>1, <2>3, <3>1, <3>2, <3>4
  <2>4. CASE r # n
    <3>1. r \in Healthy(scope)
      BY <1>6, <2>2, <2>4
    <3>2. q # n
      BY <1>2, <1>8, <1>13, <3>1, RunIdIsNat
    <3>3. q \in Healthy(scope)
      BY <1>6, <2>2, <3>2
    <3>4. ~\E m \in Healthy(scope) : q < m /\ m < r
      BY <1>6, <2>2
    <3>5. QED
      BY <1>3, <1>13, <2>1, <2>4, <3>1, <3>2, <3>3, <3>4 DEF CoverInv, CoverageFloor
  <2>5. QED
    BY <2>3, <2>4
<1>14. CoverageFloor'
  BY <1>1, <1>12, <1>13 DEF CoverageFloor
<1>15. QED
  BY <1>5, <1>9, <1>14 DEF CoverInv

LEMMA StepCover == CoverInv /\ [Next]_vars => CoverInv'
<1> SUFFICES ASSUME CoverInv, [Next]_vars PROVE CoverInv'
  OBVIOUS
<1>1. WriterInv'
  BY StepWriter DEF CoverInv
<1>2. CASE UNCHANGED vars
  BY <1>1, <1>2, SameCover DEF vars, SameHistory
<1>3. ASSUME NEW s \in Session, CancelRun(s) \/ FailRun(s) PROVE CoverInv'
  BY <1>1, <1>3, EndRunCover DEF CancelRun, FailRun
<1>4. ASSUME NEW s \in Session, NEW listing \in SUBSET Url, Discover(s, listing)
      PROVE  CoverInv'
  <2>1. phase[s] = "discover" /\ phase[s] \in Working
    BY <1>4 DEF Discover, Working
  <2>2. CASE EndRun(s, "failed")
    BY <1>1, <2>1, <2>2, EndRunCover
  <2>3. CASE ~EndRun(s, "failed")
    <3>1. /\ UNCHANGED <<status, listed, job, mine>>
          /\ ~Refused(listing, job[mine[s]].scope)
          /\ \A t \in Session : /\ phase'[t] = IF t = s THEN "fetch" ELSE phase[t]
                                /\ worklist'[t] = IF t = s THEN listing ELSE worklist[t]
      BY <1>4, <2>3 DEF Discover, database, CoverInv, WriterInv, TypeOK
    <3>2. SameHistory
      BY <3>1 DEF SameHistory
    <3>3. HasLargest' /\ CoverageFloor'
      BY <3>2, HistoryKept
    <3>4. InOrder' /\ NewestWrites'
      BY <2>1, <3>1 DEF CoverInv, InOrder, NewestWrites
    <3>5. ASSUME NEW t \in Session, phase'[t] \in Fetching
          PROVE  ~Refused(worklist[t], job[mine[t]].scope)'
      <4>1. ~Refused(worklist'[t], job[mine[t]].scope)
        BY <3>1, <3>5 DEF CoverInv, Admitted
      <4>2. QED
        BY <3>1, <4>1 DEF Refused, PreviousListed, Healthy
    <3>6. QED
      BY <1>1, <3>3, <3>4, <3>5 DEF CoverInv, Admitted
  <2>4. QED
    BY <2>2, <2>3
<1>5. ASSUME NEW s \in Session, UNCHANGED <<status, listed, job, mine, worklist>>,
             NEW p \in Phase, phase' = [phase EXCEPT ![s] = p],
             p \in Working => phase[s] \in Working, p \in Fetching => phase[s] \in Fetching
      PROVE  CoverInv'
  <2>1. \A t \in Session : phase'[t] = IF t = s THEN p ELSE phase[t]
    BY <1>5 DEF CoverInv, WriterInv, TypeOK
  <2>2. QED
    BY <1>1, <1>5, <2>1, SameCover DEF SameHistory
<1>6. ASSUME NEW s \in Session, Heartbeat(s) \/ RetainOnly(s) \/ Exhaust(s) \/ Interrupt(s)
      PROVE  CoverInv'
  <2>1. \E p \in Phase : /\ phase' = [phase EXCEPT ![s] = p]
                         /\ p \in Working => phase[s] \in Working
                         /\ p \in Fetching => phase[s] \in Fetching
    BY <1>6 DEF Heartbeat, RetainOnly, Exhaust, Interrupt, Phase, Working, Fetching
  <2>2. UNCHANGED <<status, listed, job, mine, worklist>>
    BY <1>6 DEF Heartbeat, RetainOnly, Exhaust, Interrupt, database
  <2>3. QED
    BY <1>5, <2>1, <2>2
<1>7. ASSUME NEW s \in Session,
             \/ Cancel(s)
             \/ \E u \in Url, answer \in Answers : \E final \in Lands[u] : Take(s, u, answer, final)
      PROVE  CoverInv'
  <2>1. UNCHANGED <<status, listed, job, mine, worklist, phase>>
    BY <1>7 DEF Cancel, Take, database
  <2>2. QED
    BY <1>1, <2>1, SameCover DEF SameHistory
<1>8. ASSUME NEW s \in Session, Release(s) \/ Lose(s) \/ CommitLeftover(s)
      PROVE  CoverInv'
  <2>1. /\ UNCHANGED <<status, listed, job>>
        /\ phase'[s] = "idle"
        /\ \A t \in Session \ {s} :
             phase'[t] = phase[t] /\ mine'[t] = mine[t] /\ worklist'[t] = worklist[t]
    BY <1>8 DEF Release, Lose, CommitLeftover, Parked, database, CoverInv, WriterInv, TypeOK
  <2>2. QED
    BY <1>1, <2>1, SameCover DEF SameHistory, Working, Fetching
<1>9. QED
  BY <1>1, <1>2, <1>3, <1>4, <1>6, <1>7, <1>8, ClaimCover, FinishCover
     DEF Next, Progress, Environment

\* Whatever is cancelled, lost or interrupted in between, of two successive full runs
\* of a scope that completed the later was offered at least 70% of the earlier's pages.
THEOREM CoverageFloorCorrect == Spec => []CoverageFloor
<1>1. CoverInv => CoverageFloor
  BY DEF CoverInv
<1>2. QED
  BY <1>1, InitCover, StepCover, PTL DEF Spec, Safety
=============================================================================
