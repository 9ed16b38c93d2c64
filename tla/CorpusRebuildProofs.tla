------------------------ MODULE CorpusRebuildProofs ------------------------
(***************************************************************************)
(* Proofs that the crawler implements CorpusRebuild while no operator      *)
(* interrupts it from the keyboard (Console = {}), for any number of       *)
(* drivers, pages, products and runs, and what follows for the corpus.     *)
(***************************************************************************)
EXTENDS CorpusCrawlProofs

-----------------------------------------------------------------------------
(* What the open transaction holds, phase by phase: nothing before the     *)
(* fetches and between their last commit and the prune, no deletion during *)
(* the fetches, and after the prune exactly the deletions of the swap.     *)

Doomed(s, u) ==
  Writes(mine[s]) /\ u \in Superseded(document, mine[s], job[mine[s]].scope)

HoldsNothing(s) == \A u \in Url : pending[s][u] = Unwritten
HoldsPages(s) == \A u \in Url : pending[s][u] # NoDoc
HoldsSwap(s) == \A u \in Url : pending[s][u] = IF Doomed(s, u) THEN NoDoc ELSE Unwritten

Holds(s) ==
  /\ phase[s] # "unlocked"
  /\ phase[s] \in {"idle", "discover", "reconcile"} => HoldsNothing(s)
  /\ phase[s] = "fetch" => HoldsPages(s)
  /\ phase[s] = "pruned" => HoldsSwap(s)

SwapInv == TraceInv /\ \A s \in Session : Holds(s)

LEMMA UnwrittenIsNoStamp == Unwritten # NoDoc /\ \A r \in RunId : r # NoDoc /\ r # Unwritten
BY CrawlAssumption, CorpusAssumption DEF Stamp, RunId

LEMMA InitSwap == Init => SwapInv
BY InitTrace DEF Init, SwapInv, Holds, HoldsNothing, NoWrites

\* A crawl that may write is alone with the corpus.
LEMMA Alone ==
  ASSUME SwapInv, NEW s \in Session, NEW t \in Session,
         phase[s] \in Working, phase[t] \in Working
  PROVE  s = t
BY DEF SwapInv, TraceInv, WriterInv, Holder

\* A step of t that leaves the others, and what they rest on, as they are.
LEMMA OthersHold ==
  ASSUME SwapInv, NEW t \in Session,
         \A s \in Session \ {t} :
           phase'[s] = phase[s] /\ mine'[s] = mine[s] /\ pending'[s] = pending[s],
         UNCHANGED <<document, job>> \/ phase[t] \in Working \/ lock = NoOne
  PROVE  \A s \in Session \ {t} : Holds(s)'
<1> SUFFICES ASSUME NEW s \in Session \ {t} PROVE Holds(s)'
  OBVIOUS
<1>1. Holds(s) /\ s # t /\ phase'[s] = phase[s] /\ mine'[s] = mine[s] /\ pending'[s] = pending[s]
  BY DEF SwapInv
<1>2. CASE phase[s] # "pruned"
  BY <1>1, <1>2 DEF Holds, HoldsNothing, HoldsPages
<1>3. CASE phase[s] = "pruned"
  <2>1. phase[s] \in Working
    BY <1>3 DEF Working
  <2>2. lock = s
    BY <2>1 DEF SwapInv, TraceInv, WriterInv, Holder
  <2>3. UNCHANGED <<document, job>>
    BY <1>1, <2>1, <2>2, Alone, CrawlAssumption
  <2>4. \A u \in Url : Doomed(s, u)' <=> Doomed(s, u)
    BY <1>1, <2>3 DEF Doomed, Writes, Superseded
  <2>5. QED
    BY <1>1, <1>3, <2>4 DEF Holds, HoldsSwap
<1>4. QED
  BY <1>2, <1>3

\* The two ways a transaction ends without being committed, and the ends of a crawl.
LEMMA EndedHolds ==
  ASSUME SwapInv, NEW s \in Session, phase'[s] \in {"idle", "done", "closing"},
         pending' = [pending EXCEPT ![s] = NoWrites]
  PROVE  Holds(s)'
<1>1. pending'[s] = NoWrites
  BY DEF SwapInv, TraceInv, WriterInv, TypeOK
<1>2. QED
  BY <1>1 DEF Holds, HoldsNothing, NoWrites

LEMMA EndRunHolds ==
  ASSUME SwapInv, NEW s \in Session, NEW st, phase[s] \in Working \cup {"done"}, EndRun(s, st)
  PROVE  \A t \in Session : Holds(t)'
<1>1. phase'[s] = "closing" /\ pending' = [pending EXCEPT ![s] = NoWrites]
  BY DEF EndRun, Rollback, SwapInv, TraceInv, WriterInv, TypeOK
<1>2. Holds(s)'
  BY <1>1, EndedHolds
<1>3. \A t \in Session \ {s} : Holds(t)'
  BY OthersHold DEF EndRun, Rollback, SwapInv, TraceInv, WriterInv, TypeOK
<1>4. QED
  BY <1>2, <1>3

LEMMA TakeHolds ==
  ASSUME SwapInv, NEW s \in Session, NEW u \in Url, NEW answer \in Answers,
         NEW final \in Lands[u], Take(s, u, answer, final)
  PROVE  \A t \in Session : Holds(t)'
<1>1. phase[s] = "fetch" /\ phase'[s] = "fetch" /\ mine' = mine /\ phase' = phase
  BY DEF Take
<1>2. mine[s] \in RunId /\ mine[s] # NoDoc
  BY <1>1, UnwrittenIsNoStamp DEF SwapInv, TraceInv, WriterInv, OwnRuns
<1>3. pending'[s] = pending[s] \/ pending'[s] = AfterPut(s, final)
  BY DEF Take, SwapInv, TraceInv, WriterInv, TypeOK
<1>4. \A v \in Url : pending'[s][v] # NoDoc
  BY <1>1, <1>2, <1>3 DEF SwapInv, Holds, HoldsPages, AfterPut, TraceInv, WriterInv, TypeOK
<1>5. Holds(s)'
  BY <1>1, <1>4 DEF Holds, HoldsPages
<1>6. \A t \in Session \ {s} : pending'[t] = pending[t]
  BY DEF Take, SwapInv, TraceInv, WriterInv, TypeOK
<1>7. \A t \in Session \ {s} : Holds(t)'
  BY <1>1, <1>6, OthersHold DEF Take, database
<1>8. QED
  BY <1>5, <1>7

LEMMA RetainHolds ==
  ASSUME SwapInv, NEW s \in Session, RetainOnly(s)
  PROVE  \A t \in Session : Holds(t)'
<1>1. /\ phase[s] = "reconcile" /\ phase'[s] = "pruned"
      /\ UNCHANGED <<document, job, mine>>
      /\ \A t \in Session \ {s} : phase'[t] = phase[t] /\ pending'[t] = pending[t]
  BY DEF RetainOnly, database, SwapInv, TraceInv, WriterInv, TypeOK
<1>2. \A u \in Url : pending[s][u] = Unwritten
  BY <1>1 DEF SwapInv, Holds, HoldsNothing
<1>3. AfterCommit(s) = document
  BY <1>2 DEF AfterCommit, SwapInv, TraceInv, WriterInv, TypeOK
<1>4. pending'[s] = IF Writes(mine[s]) THEN AfterRetainOnly(s) ELSE pending[s]
  BY DEF RetainOnly, SwapInv, TraceInv, WriterInv, TypeOK
<1>5. \A u \in Url : pending'[s][u] = IF Doomed(s, u) THEN NoDoc ELSE Unwritten
  BY <1>2, <1>3, <1>4 DEF AfterRetainOnly, Doomed
<1>6. \A u \in Url : Doomed(s, u)' <=> Doomed(s, u)
  BY <1>1 DEF Doomed, Writes, Superseded
<1>7. Holds(s)'
  BY <1>1, <1>5, <1>6 DEF Holds, HoldsSwap
<1>8. \A t \in Session \ {s} : Holds(t)'
  BY <1>1, OthersHold
<1>9. QED
  BY <1>7, <1>8

LEMMA HeartbeatHolds ==
  ASSUME SwapInv, NEW s \in Session, Heartbeat(s)
  PROVE  \A t \in Session : Holds(t)'
<1>1. /\ phase[s] \in Working /\ phase'[s] \in {"fetch", "reconcile"}
      /\ pending'[s] = NoWrites
      /\ \A t \in Session \ {s} :
           phase'[t] = phase[t] /\ mine'[t] = mine[t] /\ pending'[t] = pending[t]
  BY DEF Heartbeat, Working, SwapInv, TraceInv, WriterInv, TypeOK
<1>2. Holds(s)'
  BY <1>1, UnwrittenIsNoStamp DEF Holds, HoldsNothing, HoldsPages, NoWrites
<1>3. QED
  BY <1>1, <1>2, OthersHold

LEMMA StepSwap == Console = {} /\ SwapInv /\ [Next]_vars => SwapInv'
<1> SUFFICES ASSUME Console = {}, SwapInv, [Next]_vars PROVE \A s \in Session : Holds(s)'
  BY StepTrace DEF SwapInv
<1> USE DEF database
<1>1. CASE UNCHANGED vars
  BY <1>1 DEF vars, SwapInv, Holds, HoldsNothing, HoldsPages, HoldsSwap, Doomed, Writes, Superseded
<1>2. ASSUME NEW t \in Session, NEW st, phase[t] \in Working \cup {"done"}, EndRun(t, st)
      PROVE  \A s \in Session : Holds(s)'
  BY <1>2, EndRunHolds
<1>3. ASSUME NEW t \in Session, CancelRun(t) PROVE \A s \in Session : Holds(s)'
  BY <1>2, <1>3 DEF CancelRun
<1>4. ASSUME NEW t \in Session, FailRun(t) PROVE \A s \in Session : Holds(s)'
  BY <1>2, <1>4 DEF FailRun
<1>5. ASSUME NEW t \in Session, NEW r \in RunId, NEW j \in Jobs, Claim(t, r, j)
      PROVE  \A s \in Session : Holds(s)'
  <2>1. /\ phase[t] = "idle" /\ phase'[t] = "discover" /\ lock = NoOne
        /\ pending' = pending
        /\ \A s \in Session \ {t} : phase'[s] = phase[s] /\ mine'[s] = mine[s]
    BY <1>5 DEF Claim, LockFree, SwapInv, TraceInv, WriterInv, TypeOK
  <2>2. Holds(t)'
    BY <2>1 DEF SwapInv, Holds, HoldsNothing
  <2>3. QED
    BY <2>1, <2>2, OthersHold
<1>6. ASSUME NEW t \in Session, NEW listing \in SUBSET Url, Discover(t, listing)
      PROVE  \A s \in Session : Holds(s)'
  <2>1. CASE EndRun(t, "failed")
    BY <1>2, <1>6, <2>1 DEF Discover, Working
  <2>2. CASE ~EndRun(t, "failed")
    <3>1. /\ phase[t] = "discover" /\ phase'[t] = "fetch" /\ phase[t] \in Working
          /\ UNCHANGED <<document, job, mine, pending>>
          /\ \A s \in Session \ {t} : phase'[s] = phase[s]
      BY <1>6, <2>2 DEF Discover, Working, SwapInv, TraceInv, WriterInv, TypeOK
    <3>2. Holds(t)'
      BY <3>1, UnwrittenIsNoStamp DEF SwapInv, Holds, HoldsNothing, HoldsPages
    <3>3. QED
      BY <3>1, <3>2, OthersHold
  <2>3. QED
    BY <2>1, <2>2
<1>7. ASSUME NEW t \in Session, FinishOk(t) PROVE \A s \in Session : Holds(s)'
  <2>1. /\ phase[t] \in Working /\ phase'[t] = "done"
        /\ pending' = [pending EXCEPT ![t] = NoWrites]
        /\ \A s \in Session \ {t} :
             phase'[s] = phase[s] /\ mine'[s] = mine[s] /\ pending'[s] = pending[s]
    BY <1>7 DEF FinishOk, Working, SwapInv, TraceInv, WriterInv, TypeOK
  <2>2. QED
    BY <2>1, EndedHolds, OthersHold
<1>8. ASSUME NEW t \in Session, Exhaust(t) PROVE \A s \in Session : Holds(s)'
  <2>1. /\ phase'[t] = "closing" /\ UNCHANGED <<document, job, mine, pending>>
        /\ \A s \in Session \ {t} : phase'[s] = phase[s]
    BY <1>8 DEF Exhaust, SwapInv, TraceInv, WriterInv, TypeOK
  <2>2. Holds(t)'
    BY <2>1 DEF Holds
  <2>3. QED
    BY <2>1, <2>2, OthersHold
<1>9. ASSUME NEW t \in Session, Parked(t, NoOne), UNCHANGED database
      PROVE  \A s \in Session : Holds(s)'
  <2>1. /\ phase'[t] = "idle" /\ pending' = [pending EXCEPT ![t] = NoWrites]
        /\ UNCHANGED <<document, job>>
        /\ \A s \in Session \ {t} :
             phase'[s] = phase[s] /\ mine'[s] = mine[s] /\ pending'[s] = pending[s]
    BY <1>9 DEF Parked, SwapInv, TraceInv, WriterInv, TypeOK
  <2>2. QED
    BY <2>1, EndedHolds, OthersHold
<1>10. ASSUME NEW t \in Session, Release(t) PROVE \A s \in Session : Holds(s)'
  BY <1>9, <1>10 DEF Release
<1>11. ASSUME NEW t \in Session, Lose(t) PROVE \A s \in Session : Holds(s)'
  BY <1>9, <1>11 DEF Lose
<1>12. ASSUME NEW t \in Session, Cancel(t) PROVE \A s \in Session : Holds(s)'
  BY <1>12 DEF Cancel, SwapInv, Holds, HoldsNothing, HoldsPages, HoldsSwap, Doomed, Writes,
               Superseded
<1>13. ASSUME NEW t \in Session PROVE ~Interrupt(t) /\ ~CommitLeftover(t)
  BY <1>13 DEF Interrupt, CommitLeftover, SwapInv, Holds
<1>14. QED
  BY <1>1, <1>3, <1>4, <1>5, <1>6, <1>7, <1>8, <1>10, <1>11, <1>12, <1>13,
     TakeHolds, RetainHolds, HeartbeatHolds DEF Next, Progress, Environment

-----------------------------------------------------------------------------
(* The promise, step by step.                                              *)

USE DEF Rebuild!rebuildVars, Rebuild!RunId, Rebuild!Scope, Rebuild!Job, Rebuild!InScope,
        Rebuild!Superseded

LEMMA InitRebuild == Init => Rebuild!RebuildInit
BY DEF Init, Rebuild!RebuildInit, RunId

\* A crawl that ends short closes its run, or has finished it already.
LEMMA EndRunRebuild ==
  ASSUME SwapInv, NEW s \in Session, NEW st \in {"cancelled", "failed"},
         phase[s] \in Working \cup {"done"}, EndRun(s, st)
  PROVE  [Rebuild!RebuildNext]_<<document, status, job>>
<1>1. UNCHANGED <<document, job>>
  BY DEF EndRun, Rollback
<1>2. CASE phase[s] = "done"
  BY <1>1, <1>2 DEF EndRun, Finish
<1>3. CASE phase[s] # "done"
  <2>1. mine[s] \in RunId /\ status[mine[s]] = "running"
    BY <1>3 DEF SwapInv, TraceInv, WriterInv, OwnRuns, Holder, Working
  <2>2. status' = [status EXCEPT ![mine[s]] = st]
    BY <1>3 DEF EndRun, Finish
  <2>3. Rebuild!Close(mine[s], st)
    BY <1>1, <2>1, <2>2 DEF Rebuild!Close
  <2>4. QED
    BY <2>1, <2>3 DEF Rebuild!RebuildNext, RunId
<1>4. QED
  BY <1>2, <1>3

LEMMA ClaimRebuild ==
  ASSUME SwapInv, NEW s \in Session, NEW r \in RunId, NEW j \in Jobs, Claim(s, r, j)
  PROVE  Rebuild!RebuildNext
<1>1. j \in Job
  BY CrawlAssumption
<1>2. Rebuild!Open(r, j)
  BY DEF Claim, Claimed, Rebuild!Open, RunId
<1>3. QED
  BY <1>1, <1>2 DEF Rebuild!RebuildNext, RunId, Job, Scope

\* What a heartbeat commits are pages its run may hold, and no deletion.
LEMMA HeartbeatRebuild ==
  ASSUME SwapInv, NEW s \in Session, Heartbeat(s)
  PROVE  [Rebuild!RebuildNext]_<<document, status, job>>
<1> DEFINE r == mine[s]
<1> DEFINE S == {u \in Url : pending[s][u] # Unwritten}
<1>1. phase[s] = "fetch" /\ document' = AfterCommit(s) /\ UNCHANGED <<status, job>>
  BY DEF Heartbeat
<1>2. r \in RunId /\ status[r] = "running"
  BY <1>1 DEF SwapInv, TraceInv, WriterInv, OwnRuns, Holder, Working
<1>3. \A u \in S : pending[s][u] = r /\ MayHold(r, u)
  BY <1>1 DEF SwapInv, Holds, HoldsPages, TraceInv, Owed
<1>4. document' = [u \in Url |-> IF u \in S THEN r ELSE document[u]]
  BY <1>1, <1>3 DEF AfterCommit
<1>5. CASE S = {}
  <2>1. document' = document
    BY <1>4, <1>5 DEF SwapInv, TraceInv, WriterInv, TypeOK
  <2>2. QED
    BY <1>1, <2>1
<1>6. CASE S # {}
  <2>1. Rebuild!Publish(r, S)
    BY <1>1, <1>2, <1>3, <1>4, <1>6 DEF Rebuild!Publish, MayHold, InScope
  <2>2. S \in SUBSET Url
    OBVIOUS
  <2>3. QED
    BY <1>2, <2>1, <2>2 DEF Rebuild!RebuildNext, RunId
<1>7. QED
  BY <1>5, <1>6

\* What the last commit holds are the deletions of the swap and nothing else.
LEMMA FinishRebuild ==
  ASSUME SwapInv, NEW s \in Session, FinishOk(s)
  PROVE  Rebuild!RebuildNext
<1> DEFINE r == mine[s]
<1>1. /\ phase[s] = "pruned" /\ document' = AfterCommit(s)
      /\ status' = [status EXCEPT ![r] = "ok"] /\ job' = job
  BY DEF FinishOk
<1>2. r \in RunId /\ status[r] = "running"
  BY <1>1 DEF SwapInv, TraceInv, WriterInv, OwnRuns, Holder, Working
<1>3. \A u \in Url : pending[s][u] = IF Doomed(s, u) THEN NoDoc ELSE Unwritten
  BY <1>1 DEF SwapInv, Holds, HoldsSwap
<1>4. \A u \in Url : AfterCommit(s)[u] = IF Doomed(s, u) THEN NoDoc ELSE document[u]
  BY <1>3, UnwrittenIsNoStamp DEF AfterCommit
<1>5. AfterCommit(s) = [u \in Url |-> IF Doomed(s, u) THEN NoDoc ELSE document[u]]
  BY <1>4 DEF AfterCommit
<1>6. Rebuild!Complete(r)
  BY <1>1, <1>2, <1>5 DEF Rebuild!Complete, Doomed, Writes, Superseded, InScope
<1>7. QED
  BY <1>2, <1>6 DEF Rebuild!RebuildNext, RunId

LEMMA StepRebuild ==
  Console = {} /\ SwapInv /\ [Next]_vars => [Rebuild!RebuildNext]_<<document, status, job>>
<1> SUFFICES ASSUME Console = {}, SwapInv, [Next]_vars
             PROVE  [Rebuild!RebuildNext]_<<document, status, job>>
  OBVIOUS
<1>1. CASE UNCHANGED vars
  BY <1>1 DEF vars
<1>2. ASSUME NEW s \in Session, CancelRun(s)
      PROVE  [Rebuild!RebuildNext]_<<document, status, job>>
  BY <1>2, EndRunRebuild DEF CancelRun
<1>3. ASSUME NEW s \in Session, FailRun(s)
      PROVE  [Rebuild!RebuildNext]_<<document, status, job>>
  BY <1>3, EndRunRebuild DEF FailRun
<1>4. ASSUME NEW s \in Session, NEW listing \in SUBSET Url, Discover(s, listing)
      PROVE  [Rebuild!RebuildNext]_<<document, status, job>>
  BY <1>4, EndRunRebuild DEF Discover, Working, database
<1>5. ASSUME NEW s \in Session,
             \/ \E u \in Url, answer \in Answers : \E final \in Lands[u] : Take(s, u, answer, final)
             \/ RetainOnly(s) \/ Exhaust(s) \/ Release(s) \/ Cancel(s) \/ Lose(s)
      PROVE  UNCHANGED <<document, status, job>>
  BY <1>5 DEF Take, RetainOnly, Exhaust, Release, Cancel, Lose, database
<1>6. ASSUME NEW s \in Session PROVE ~Interrupt(s) /\ ~CommitLeftover(s)
  BY DEF Interrupt, CommitLeftover, SwapInv, Holds
<1>7. QED
  BY <1>1, <1>2, <1>3, <1>4, <1>5, <1>6, ClaimRebuild, HeartbeatRebuild, FinishRebuild
     DEF Next, Progress, Environment

\* Where nobody can interrupt a crawl from the keyboard, the crawler implements
\* CorpusRebuild: a preview changes nothing, an open run only adds pages of its
\* own scope, the superseded rows go in the very step that records the run 'ok',
\* and a run that ends short takes nothing with it.
THEOREM KeepsRebuildPromiseCorrect == ASSUME Console = {} PROVE Spec => KeepsRebuildPromise
<1>1. SwapInv /\ [Next]_vars => SwapInv'
  BY StepSwap
<1>2. SwapInv /\ [Next]_vars => [Rebuild!RebuildNext]_<<document, status, job>>
  BY StepRebuild
<1>3. QED
  BY <1>1, <1>2, InitSwap, InitRebuild, PTL
     DEF Spec, Safety, KeepsRebuildPromise, Rebuild!RebuildSpec

\* Where nobody can interrupt a crawl from the keyboard, nothing leaves the corpus
\* except in the step that completes a full run over that page's product.
THEOREM PruneCompletesARunCorrect == ASSUME Console = {} PROVE Spec => PruneCompletesARun
<1> DEFINE Swaps == \A u \in Url : document[u] # NoDoc /\ document'[u] = NoDoc =>
                      \E r \in RunId : /\ status[r] = "running" /\ status'[r] = "ok"
                                       /\ ~job[r].dry /\ InScope(u, job[r].scope)
<1>1. TypeOK /\ [Rebuild!RebuildNext]_<<document, status, job>> => Swaps
  <2> SUFFICES ASSUME TypeOK, [Rebuild!RebuildNext]_<<document, status, job>>, NEW u \in Url,
                      document[u] # NoDoc, document'[u] = NoDoc
               PROVE  \E r \in RunId : /\ status[r] = "running" /\ status'[r] = "ok"
                                       /\ ~job[r].dry /\ InScope(u, job[r].scope)
    OBVIOUS
  <2>1. PICK r \in RunId : \/ \E S \in SUBSET Url : Rebuild!Publish(r, S)
                           \/ Rebuild!Complete(r)
    BY DEF Rebuild!RebuildNext, Rebuild!Open, Rebuild!Close, RunId
  <2>2. ~\E S \in SUBSET Url : Rebuild!Publish(r, S)
    BY UnwrittenIsNoStamp DEF Rebuild!Publish
  <2>3. Rebuild!Complete(r)
    BY <2>1, <2>2
  <2>4. QED
    BY <2>3 DEF Rebuild!Complete, InScope, TypeOK
<1>2. SwapInv /\ [Next]_vars => SwapInv' /\ [Swaps]_vars
  BY <1>1, StepSwap, StepRebuild DEF SwapInv, TraceInv, WriterInv
<1>3. QED
  BY <1>2, InitSwap, PTL DEF Spec, Safety, PruneCompletesARun

\* Whoever cancels, fails, is swept away or is interrupted, a run publishes nothing
\* by ending short.
THEOREM DyingPublishesNothingCorrect == Spec => DyingPublishesNothing
<1> DEFINE Dies == \A r \in RunId : status[r] = "running" /\ status'[r] \in {"cancelled", "failed"}
                     => UNCHANGED <<document, rows>>
<1>1. WriterInv /\ [Next]_vars => Dies
  <2> SUFFICES ASSUME WriterInv, [Next]_vars, NEW r \in RunId,
                      status[r] = "running", status'[r] \in {"cancelled", "failed"}
               PROVE  UNCHANGED <<document, rows>>
    OBVIOUS
  <2>1. status' # status
    OBVIOUS
  <2>2. ASSUME NEW s \in Session, Heartbeat(s) \/ CommitLeftover(s) PROVE FALSE
    BY <2>1, <2>2 DEF Heartbeat, CommitLeftover
  <2>3. ASSUME NEW s \in Session, FinishOk(s) PROVE FALSE
    BY <2>3 DEF FinishOk, WriterInv, TypeOK
  <2>4. QED
    BY <2>2, <2>3 DEF Next, Progress, Environment, CancelRun, FailRun, EndRun, Rollback,
       Discover, Take, RetainOnly, Exhaust, Release, Claim, Cancel, Interrupt, Lose, database, vars
<1>2. QED
  BY <1>1, WriterCorrect, PTL DEF Spec, Safety, DyingPublishesNothing

-----------------------------------------------------------------------------
(* The swap is whole: at the end of the fetches every listed page has been *)
(* observed and no other, and every page observed as collected carries the *)
(* stamp of the run, committed or in its open transaction.                 *)

Kept(s, u) ==
  pending[s][u] = mine[s] \/ (pending[s][u] = Unwritten /\ document[u] = mine[s])

Recorded(s) ==
  /\ phase[s] \in {"idle", "discover"} => seen[s] = NoRows
  /\ phase[s] \in {"fetch", "reconcile", "pruned"} =>
       \A v \in Url : seen[s][v] # NoRow => v \in worklist[s]
  /\ phase[s] \in {"reconcile", "pruned"} => \A v \in worklist[s] : seen[s][v] # NoRow
  /\ phase[s] \in Working /\ Writes(mine[s]) => \A u \in CollectedBy(seen[s]) : Kept(s, u)

WholeInv == SwapInv /\ \A s \in Session : Recorded(s)

LEMMA NothingCollected == CollectedBy(NoRows) = {}
BY DEF CollectedBy, NoRows

LEMMA InitWhole == Init => WholeInv
BY InitSwap, CrawlAssumption DEF Init, WholeInv, Recorded, Working

LEMMA OthersRecorded ==
  ASSUME WholeInv, NEW t \in Session,
         \A s \in Session \ {t} :
           /\ phase'[s] = phase[s] /\ mine'[s] = mine[s] /\ pending'[s] = pending[s]
           /\ seen'[s] = seen[s] /\ worklist'[s] = worklist[s],
         UNCHANGED <<document, job>> \/ phase[t] \in Working \/ lock = NoOne
  PROVE  \A s \in Session \ {t} : Recorded(s)'
<1> SUFFICES ASSUME NEW s \in Session \ {t} PROVE Recorded(s)'
  OBVIOUS
<1>1. /\ Recorded(s) /\ SwapInv
      /\ phase'[s] = phase[s] /\ mine'[s] = mine[s] /\ pending'[s] = pending[s]
      /\ seen'[s] = seen[s] /\ worklist'[s] = worklist[s]
  BY DEF WholeInv
<1>2. CASE phase[s] \notin Working
  BY <1>1, <1>2 DEF Recorded, Working
<1>3. CASE phase[s] \in Working
  <2>1. lock = s
    BY <1>1, <1>3 DEF SwapInv, TraceInv, WriterInv, Holder
  <2>2. UNCHANGED <<document, job>>
    BY <1>1, <1>3, <2>1, Alone, CrawlAssumption
  <2>3. QED
    BY <1>1, <2>2 DEF Recorded, Writes, CollectedBy, Kept
<1>4. QED
  BY <1>2, <1>3

\* A crawl that is over, or parked.
LEMMA EndedRecorded ==
  ASSUME WholeInv, NEW s \in Session, phase'[s] \in {"idle", "done", "closing"},
         phase'[s] = "idle" => seen'[s] = NoRows
  PROVE  Recorded(s)'
BY DEF Recorded, Working

LEMMA EndRunRecorded ==
  ASSUME WholeInv, NEW s \in Session, NEW st, phase[s] \in Working \cup {"done"}, EndRun(s, st)
  PROVE  \A t \in Session : Recorded(t)'
<1>1. /\ phase'[s] = "closing" /\ UNCHANGED <<document, job>>
      /\ \A t \in Session \ {s} :
           /\ phase'[t] = phase[t] /\ mine'[t] = mine[t] /\ pending'[t] = pending[t]
           /\ seen'[t] = seen[t] /\ worklist'[t] = worklist[t]
  BY DEF EndRun, Rollback, WholeInv, SwapInv, TraceInv, WriterInv, TypeOK
<1>2. QED
  BY <1>1, EndedRecorded, OthersRecorded

LEMMA TakeRecorded ==
  ASSUME WholeInv, NEW s \in Session, NEW u \in Url, NEW answer \in Answers,
         NEW final \in Lands[u], Take(s, u, answer, final)
  PROVE  \A t \in Session : Recorded(t)'
<1> DEFINE r == mine[s]
<1> DEFINE reason == Judge(answer, final, job[r].scope)
<1> DEFINE row == [reason |-> reason, final |-> final]
<1>1. /\ phase[s] = "fetch" /\ UNCHANGED <<document, job, phase, mine, worklist>>
      /\ u \in worklist[s] /\ final \in Url
      /\ seen'[s] = [seen[s] EXCEPT ![u] = row]
      /\ pending'[s] = IF reason \in Collected /\ Writes(r) THEN AfterPut(s, final)
                       ELSE pending[s]
      /\ \A t \in Session \ {s} : pending'[t] = pending[t] /\ seen'[t] = seen[t]
  BY CrawlAssumption DEF Take, Unread, database, WholeInv, SwapInv, TraceInv, WriterInv, TypeOK
<1>2. \A v \in Url : seen'[s][v] = IF v = u THEN row ELSE seen[s][v]
  BY <1>1 DEF WholeInv, SwapInv, TraceInv, WriterInv, TypeOK, Table
<1>3. \A v \in Url : seen'[s][v] # NoRow => v \in worklist[s]
  BY <1>1, <1>2 DEF WholeInv, Recorded
<1>4. ASSUME Writes(r), NEW v \in CollectedBy(seen'[s]) PROVE Kept(s, v)'
  <2>1. pending[s] \in [Url -> Stamp \cup {Unwritten}]
    BY DEF WholeInv, SwapInv, TraceInv, WriterInv, TypeOK
  <2>2. v \in CollectedBy(seen[s]) \/ (v = final /\ reason \in Collected)
    BY <1>2, <1>4 DEF CollectedBy
  <2>3. CASE v = final /\ reason \in Collected
    BY <1>1, <1>4, <2>1, <2>3 DEF Kept, AfterPut
  <2>4. CASE v \in CollectedBy(seen[s])
    <3>1. Kept(s, v) /\ v \in Url
      BY <1>1, <1>4, <2>4 DEF WholeInv, Recorded, Working, CollectedBy
    <3>2. QED
      BY <1>1, <2>1, <3>1 DEF Kept, AfterPut
  <2>5. QED
    BY <2>2, <2>3, <2>4
<1>5. Writes(mine[s])' <=> Writes(mine[s])
  BY <1>1 DEF Writes
<1>6. Recorded(s)'
  BY <1>1, <1>3, <1>4, <1>5 DEF Recorded, CollectedBy
<1>7. QED
  BY <1>1, <1>6, OthersRecorded

LEMMA HeartbeatRecorded ==
  ASSUME WholeInv, NEW s \in Session, Heartbeat(s)
  PROVE  \A t \in Session : Recorded(t)'
<1>1. /\ phase[s] = "fetch" /\ phase'[s] = (IF Unread(s) = {} THEN "reconcile" ELSE "fetch")
      /\ document' = AfterCommit(s) /\ pending'[s] = NoWrites
      /\ UNCHANGED <<job, mine, worklist, seen>>
      /\ \A t \in Session \ {s} : phase'[t] = phase[t] /\ pending'[t] = pending[t]
  BY DEF Heartbeat, WholeInv, SwapInv, TraceInv, WriterInv, TypeOK
<1>2. phase'[s] = "reconcile" => \A v \in worklist[s] : seen[s][v] # NoRow
  BY <1>1 DEF Unread
<1>3. mine[s] # Unwritten
  BY <1>1, UnwrittenIsNoStamp DEF WholeInv, SwapInv, TraceInv, WriterInv, OwnRuns
<1>4. ASSUME Writes(mine[s]), NEW u \in CollectedBy(seen[s]) PROVE Kept(s, u)'
  <2>1. Kept(s, u) /\ u \in Url
    BY <1>1, <1>4 DEF WholeInv, Recorded, Working, CollectedBy
  <2>2. document'[u] = mine[s] /\ pending'[s][u] = Unwritten
    BY <1>1, <1>3, <2>1 DEF Kept, AfterCommit, NoWrites
  <2>3. QED
    BY <1>1, <2>2 DEF Kept
<1>5. Recorded(s)'
  BY <1>1, <1>2, <1>4 DEF WholeInv, Recorded, Writes, CollectedBy
<1>6. phase[s] \in Working
  BY <1>1 DEF Working
<1>7. QED
  BY <1>1, <1>5, <1>6, OthersRecorded

LEMMA RetainRecorded ==
  ASSUME WholeInv, NEW s \in Session, RetainOnly(s)
  PROVE  \A t \in Session : Recorded(t)'
<1>1. /\ phase[s] = "reconcile" /\ phase'[s] = "pruned"
      /\ UNCHANGED <<document, job, mine, worklist, seen>>
      /\ \A t \in Session \ {s} : phase'[t] = phase[t] /\ pending'[t] = pending[t]
  BY DEF RetainOnly, database, WholeInv, SwapInv, TraceInv, WriterInv, TypeOK
<1>2. HoldsNothing(s) /\ HoldsSwap(s)'
  BY <1>1, RetainHolds DEF WholeInv, SwapInv, Holds
<1>3. mine[s] # Unwritten
  BY <1>1, UnwrittenIsNoStamp DEF WholeInv, SwapInv, TraceInv, WriterInv, OwnRuns
<1>4. ASSUME Writes(mine[s]), NEW u \in CollectedBy(seen[s]) PROVE Kept(s, u)'
  <2>1. Kept(s, u) /\ u \in Url
    BY <1>1, <1>4 DEF WholeInv, Recorded, Working, CollectedBy
  <2>2. document[u] = mine[s]
    BY <1>2, <1>3, <2>1 DEF Kept, HoldsNothing
  <2>3. ~Doomed(s, u)'
    BY <1>1, <2>2 DEF Doomed, Superseded
  <2>4. pending'[s][u] = Unwritten
    BY <1>2, <2>1, <2>3 DEF HoldsSwap
  <2>5. QED
    BY <1>1, <2>2, <2>4 DEF Kept
<1>5. Recorded(s)'
  BY <1>1, <1>4 DEF WholeInv, Recorded, Writes, CollectedBy
<1>6. QED
  BY <1>1, <1>5, OthersRecorded

LEMMA StepWhole == Console = {} /\ WholeInv /\ [Next]_vars => WholeInv'
<1> SUFFICES ASSUME Console = {}, WholeInv, [Next]_vars PROVE \A s \in Session : Recorded(s)'
  BY StepSwap DEF WholeInv
<1>1. CASE UNCHANGED vars
  BY <1>1 DEF vars, WholeInv, Recorded, Kept, Writes, CollectedBy
<1>2. ASSUME NEW t \in Session, CancelRun(t) \/ FailRun(t) PROVE \A s \in Session : Recorded(s)'
  BY <1>2, EndRunRecorded DEF CancelRun, FailRun
<1>3. ASSUME NEW t \in Session, NEW r \in RunId, NEW j \in Jobs, Claim(t, r, j)
      PROVE  \A s \in Session : Recorded(s)'
  <2>1. /\ phase[t] = "idle" /\ phase'[t] = "discover" /\ lock = NoOne
        /\ UNCHANGED <<seen, worklist, pending>>
        /\ \A s \in Session \ {t} : phase'[s] = phase[s] /\ mine'[s] = mine[s]
    BY <1>3 DEF Claim, LockFree, WholeInv, SwapInv, TraceInv, WriterInv, TypeOK
  <2>2. seen'[t] = NoRows
    BY <2>1 DEF WholeInv, Recorded
  <2>3. CollectedBy(seen[t])' = {}
    BY <2>2, NothingCollected DEF CollectedBy
  <2>4. Recorded(t)'
    BY <2>1, <2>2, <2>3 DEF Recorded
  <2>5. QED
    BY <2>1, <2>4, OthersRecorded
<1>4. ASSUME NEW t \in Session, NEW listing \in SUBSET Url, Discover(t, listing)
      PROVE  \A s \in Session : Recorded(s)'
  <2>1. phase[t] = "discover" /\ phase[t] \in Working
    BY <1>4 DEF Discover, Working
  <2>2. CASE EndRun(t, "failed")
    BY <2>1, <2>2, EndRunRecorded
  <2>3. CASE ~EndRun(t, "failed")
    <3>1. /\ phase'[t] = "fetch" /\ UNCHANGED <<document, job, mine, pending, seen>>
          /\ \A s \in Session \ {t} : phase'[s] = phase[s] /\ worklist'[s] = worklist[s]
      BY <1>4, <2>3 DEF Discover, database, WholeInv, SwapInv, TraceInv, WriterInv, TypeOK
    <3>2. seen'[t] = NoRows
      BY <2>1, <3>1 DEF WholeInv, Recorded
    <3>3. CollectedBy(seen[t])' = {} /\ \A v \in Url : seen'[t][v] = NoRow
      BY <3>2, NothingCollected DEF CollectedBy, NoRows
    <3>4. Recorded(t)'
      BY <3>1, <3>3 DEF Recorded
    <3>5. QED
      BY <2>1, <3>1, <3>4, OthersRecorded
  <2>4. QED
    BY <2>2, <2>3
<1>5. ASSUME NEW t \in Session, FinishOk(t) PROVE \A s \in Session : Recorded(s)'
  <2>1. /\ phase[t] \in Working /\ phase'[t] = "done"
        /\ UNCHANGED <<mine, seen, worklist>>
        /\ \A s \in Session \ {t} : phase'[s] = phase[s] /\ pending'[s] = pending[s]
    BY <1>5 DEF FinishOk, Working, WholeInv, SwapInv, TraceInv, WriterInv, TypeOK
  <2>2. QED
    BY <2>1, EndedRecorded, OthersRecorded
<1>6. ASSUME NEW t \in Session, Exhaust(t) PROVE \A s \in Session : Recorded(s)'
  <2>1. /\ phase'[t] = "closing" /\ UNCHANGED <<document, job, mine, pending, seen, worklist>>
        /\ \A s \in Session \ {t} : phase'[s] = phase[s]
    BY <1>6 DEF Exhaust, database, WholeInv, SwapInv, TraceInv, WriterInv, TypeOK
  <2>2. QED
    BY <2>1, EndedRecorded, OthersRecorded
<1>7. ASSUME NEW t \in Session, Release(t) \/ Lose(t) PROVE \A s \in Session : Recorded(s)'
  <2>1. /\ phase'[t] = "idle" /\ seen'[t] = NoRows /\ UNCHANGED <<document, job>>
        /\ \A s \in Session \ {t} :
             /\ phase'[s] = phase[s] /\ mine'[s] = mine[s] /\ pending'[s] = pending[s]
             /\ seen'[s] = seen[s] /\ worklist'[s] = worklist[s]
    BY <1>7 DEF Release, Lose, Parked, database, WholeInv, SwapInv, TraceInv, WriterInv, TypeOK
  <2>2. QED
    BY <2>1, EndedRecorded, OthersRecorded
<1>8. ASSUME NEW t \in Session, Cancel(t) PROVE \A s \in Session : Recorded(s)'
  BY <1>8 DEF Cancel, database, WholeInv, Recorded, Kept, Writes, CollectedBy
<1>9. ASSUME NEW t \in Session PROVE ~Interrupt(t) /\ ~CommitLeftover(t)
  BY DEF Interrupt, CommitLeftover, WholeInv, SwapInv, Holds
<1>10. QED
  BY <1>1, <1>2, <1>3, <1>4, <1>5, <1>6, <1>7, <1>8, <1>9,
     TakeRecorded, RetainRecorded, HeartbeatRecorded DEF Next, Progress, Environment

\* The step that records a run 'ok'.
LEMMA FinishIsWhole ==
  ASSUME WholeInv, NEW s \in Session, FinishOk(s), NEW r \in RunId, r = mine[s]
  PROVE  /\ listed'[r] = Cardinality({v \in Url : rows'[r][v] # NoRow})
         /\ \A u \in Url :
              document'[u] = IF job[r].dry \/ ~InScope(u, job[r].scope) THEN document[u]
                             ELSE IF u \in CollectedBy(rows'[r]) THEN r ELSE NoDoc
<1>1. /\ phase[s] = "pruned" /\ document' = AfterCommit(s) /\ rows'[r] = seen[s]
      /\ listed'[r] = Cardinality(worklist[s])
  BY DEF FinishOk, WholeInv, SwapInv, TraceInv, WriterInv, TypeOK
<1>2. worklist[s] = {v \in Url : seen[s][v] # NoRow}
  BY <1>1 DEF WholeInv, Recorded, SwapInv, TraceInv, WriterInv, TypeOK
<1>3. \A u \in Url : pending[s][u] = IF Doomed(s, u) THEN NoDoc ELSE Unwritten
  BY <1>1 DEF WholeInv, SwapInv, Holds, HoldsSwap
<1>4. \A u \in Url : document'[u] = IF Doomed(s, u) THEN NoDoc ELSE document[u]
  BY <1>1, <1>3, UnwrittenIsNoStamp DEF AfterCommit
<1>5. ASSUME NEW u \in Url, ~job[r].dry, InScope(u, job[r].scope)
      PROVE  document'[u] = IF u \in CollectedBy(rows'[r]) THEN r ELSE NoDoc
  <2>1. CASE u \in CollectedBy(seen[s])
    <3>1. Kept(s, u)
      BY <1>1, <1>5, <2>1 DEF WholeInv, Recorded, Working, Writes
    <3>2. document[u] = r
      BY <1>3, <3>1, UnwrittenIsNoStamp DEF Kept
    <3>3. QED
      BY <1>1, <1>4, <2>1, <3>2 DEF Doomed, Superseded
  <2>2. CASE u \notin CollectedBy(seen[s])
    <3>1. document[u] # r
      <4>1. ASSUME document[u] = r PROVE u \in CollectedBy(rows[r])
        BY <4>1 DEF WholeInv, SwapInv, TraceInv, Traceable
      <4>2. \A v \in Url : rows[r][v] # NoRow => seen[s][v] = rows[r][v]
        BY <1>1 DEF WholeInv, SwapInv, TraceInv, Carried, Writing, Working
      <4>3. CollectedBy(rows[r]) \subseteq CollectedBy(seen[s])
        BY <4>2 DEF CollectedBy
      <4>4. QED
        BY <2>2, <4>1, <4>3
    <3>2. QED
      BY <1>1, <1>4, <1>5, <2>2, <3>1 DEF Doomed, Writes, Superseded
  <2>3. QED
    BY <1>1, <2>1, <2>2
<1>6. ASSUME NEW u \in Url, job[r].dry \/ ~InScope(u, job[r].scope)
      PROVE  document'[u] = document[u]
  BY <1>4, <1>6 DEF Doomed, Writes, Superseded
<1>7. QED
  BY <1>1, <1>2, <1>5, <1>6

\* Where nobody can interrupt a crawl from the keyboard: in the very step that
\* records a full run 'ok' the corpus of its scope becomes what its observations say
\* it collected, with every listed page observed, and nothing else changes.
THEOREM SwapIsWholeCorrect == ASSUME Console = {} PROVE Spec => SwapIsWhole
<1> DEFINE Whole == \A r \in RunId : status[r] # "ok" /\ status'[r] = "ok" =>
       /\ listed'[r] = Cardinality({v \in Url : rows'[r][v] # NoRow})
       /\ \A u \in Url :
            document'[u] = IF job[r].dry \/ ~InScope(u, job[r].scope) THEN document[u]
                           ELSE IF u \in CollectedBy(rows'[r]) THEN r ELSE NoDoc
<1>1. WholeInv /\ [Next]_vars => Whole
  <2> SUFFICES ASSUME WholeInv, [Next]_vars, NEW r \in RunId, status[r] # "ok", status'[r] = "ok"
               PROVE  \E s \in Session : FinishOk(s) /\ r = mine[s]
    BY FinishIsWhole
  <2>1. status' # status
    OBVIOUS
  <2>2. ASSUME NEW s \in Session, NEW st \in {"cancelled", "failed"}, EndRun(s, st) PROVE FALSE
    BY <2>1, <2>2 DEF EndRun, Finish, WholeInv, SwapInv, TraceInv, WriterInv, TypeOK
  <2>3. ASSUME NEW s \in Session, NEW q \in RunId, NEW j \in Jobs, Claim(s, q, j) PROVE FALSE
    BY <2>3 DEF Claim, Claimed
  <2>4. PICK s \in Session : FinishOk(s)
    BY <2>1, <2>2, <2>3 DEF Next, Progress, Environment, CancelRun, FailRun, Discover, Take,
       Heartbeat, RetainOnly, Exhaust, Release, CommitLeftover, Cancel, Interrupt, Lose,
       database, vars
  <2>5. r = mine[s]
    BY <2>4 DEF FinishOk, WholeInv, SwapInv, TraceInv, WriterInv, TypeOK
  <2>6. QED
    BY <2>4, <2>5
<1>2. WholeInv /\ [Next]_vars => WholeInv'
  BY StepWhole
<1>3. QED
  BY <1>1, <1>2, InitWhole, PTL DEF Spec, Safety, SwapIsWhole
=============================================================================
