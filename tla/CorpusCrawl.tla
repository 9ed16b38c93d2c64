----------------------------- MODULE CorpusCrawl -----------------------------
(***************************************************************************)
(* The corpus refresh: crawler/pipeline.crawl driving crawler/store over   *)
(* PostgreSQL, once per RefreshCorpus call of the server and once per      *)
(* `python -m src.crawler crawl` of the operator.                          *)
(*                                                                         *)
(* Each driver has a database session of its own. What a session has       *)
(* written and not committed is kept in `pending` and `seen`; it reaches   *)
(* `document` and `rows`, which every other session reads, at a commit,    *)
(* and a rollback or the loss of the session drops it. The advisory lock   *)
(* belongs to the session, not to its transaction.                         *)
(***************************************************************************)
EXTENDS Corpus, FiniteSets

CONSTANTS
  Session,     \* the drivers of crawls, one database session each
  Console,     \* those of them an operator runs and may interrupt from the keyboard
  Inherited,   \* the pages the corpus holds before the first run
  Eligible,    \* the pages sitemap.eligible accepts
  Lands,       \* [Url -> SUBSET Url], where a GET of a page may end, redirects followed
  Jobs,        \* the jobs that are asked for
  Answers,     \* which of RawReason the publisher and the network may answer with
  NoOne,       \* the advisory lock is free
  NoRow,       \* no crawl_observation row
  Unwritten    \* this transaction has not written the row

\* extract.REASONS by outcome; the two the pipeline itself gives come last.
Collected == {"technical_topic"}
Excluded == {"navigation_only", "http_404", "excluded_destination"}
Unknown == {"unsupported_template", "fetch_failed", "redirect_outside_scope"}
RawReason == {"technical_topic", "navigation_only", "unsupported_template",
              "http_404", "fetch_failed"}
Read == {"technical_topic", "navigation_only", "unsupported_template"} \* status 200

Row == [reason: Collected \cup Excluded \cup Unknown, final: Url]
Table == [Url -> Row \cup {NoRow}]

ASSUME CrawlAssumption ==
  /\ Console \subseteq Session
  /\ Eligible \subseteq Url
  /\ Lands \in [Url -> SUBSET Url]
  /\ Inherited \subseteq Url
  /\ Jobs \subseteq Job
  /\ Answers \subseteq RawReason
  /\ NoOne \notin Session
  /\ NoRow \notin Row
  /\ Unwritten \notin Stamp
  /\ IsFiniteSet(Url)

VARIABLES
  document,    \* [Url -> Stamp]     techdoc.document, committed
  status,      \* [RunId -> Status]  crawl_run.status
  job,         \* [RunId -> Job]     crawl_run.scope and .dry_run
  listed,      \* [RunId -> Nat]     crawl_run.listed, written by finish_run
  rows,        \* [RunId -> Table]   techdoc.crawl_observation, committed
  lock,        \* the session that holds pg_advisory_lock(LOCK_ID)
  phase,       \* [Session -> Phase] where pipeline.crawl stands
  mine,        \* [Session -> 0..MaxRun]  its run_id
  worklist,    \* [Session -> SUBSET Url] its `listed`
  seen,        \* [Session -> Table] what it has observed, committed or not
  pending,     \* [Session -> [Url -> Stamp \cup {Unwritten}]]  its open transaction
  cancel       \* [Session -> BOOLEAN]    its cancel event

database == <<document, status, job, listed, rows>>
worker == <<phase, mine, worklist, seen, pending, cancel>>
vars == <<document, status, job, listed, rows, lock,
          phase, mine, worklist, seen, pending, cancel>>

Working == {"discover", "fetch", "reconcile", "pruned"}
Phase == Working \cup {"idle", "done", "closing", "unlocked"}

NoRows == [u \in Url |-> NoRow]
NoWrites == [u \in Url |-> Unwritten]

TypeOK ==
  /\ document \in [Url -> Stamp]
  /\ status \in [RunId -> Status]
  /\ job \in [RunId -> Job]
  /\ listed \in [RunId -> Nat]
  /\ rows \in [RunId -> Table]
  /\ lock \in Session \cup {NoOne}
  /\ phase \in [Session -> Phase]
  /\ mine \in [Session -> 0..MaxRun]
  /\ worklist \in [Session -> SUBSET Url]
  /\ seen \in [Session -> Table]
  /\ pending \in [Session -> [Url -> Stamp \cup {Unwritten}]]
  /\ cancel \in [Session -> BOOLEAN]

Init ==
  /\ document = [u \in Url |-> IF u \in Inherited THEN 0 ELSE NoDoc]
  /\ status = [r \in RunId |-> "none"]
  /\ job \in [RunId -> {[scope |-> Everything, dry |-> FALSE]}]
  /\ listed = [r \in RunId |-> 0]
  /\ rows = [r \in RunId |-> NoRows]
  /\ lock = NoOne
  /\ phase = [s \in Session |-> "idle"]
  /\ mine = [s \in Session |-> 0]
  /\ worklist = [s \in Session |-> {}]
  /\ seen = [s \in Session |-> NoRows]
  /\ pending = [s \in Session |-> NoWrites]
  /\ cancel = [s \in Session |-> FALSE]

-----------------------------------------------------------------------------
(* What the statements of crawler/store do.                                *)

LockNotTried == TRUE                                     \* a mutated form
LockFree == lock = NoOne

\* claim: every run still marked running lost its crawler; this one opens.
Claimed(r) ==
  [q \in RunId |-> IF q = r THEN "running"
                   ELSE IF status[q] = "running" THEN "failed" ELSE status[q]]

\* previous_listed: the newest completed run of the scope that was no preview.
Healthy(scope) ==
  {r \in RunId : status[r] = "ok" /\ ~job[r].dry /\ job[r].scope = scope}
PreviousListed(scope) ==
  IF Healthy(scope) = {} THEN 0
  ELSE listed[CHOOSE r \in Healthy(scope) : \A q \in Healthy(scope) : q <= r]

AfterBlindCommit(s) == [u \in Url |-> pending[s][u]]     \* a mutated form

\* commit: what session s has written becomes what every session reads.
AfterCommit(s) ==
  [u \in Url |-> IF pending[s][u] = Unwritten THEN document[u] ELSE pending[s][u]]

\* A row another open transaction has written cannot be written until it ends.
RowFree(s, u) == \A t \in Session \ {s} : pending[t][u] = Unwritten

\* put and retain_only, in the open transaction of session s.
AfterPut(s, u) == [pending[s] EXCEPT ![u] = mine[s]]
AfterRetainingEverywhere(s) ==                           \* a mutated form
  LET doomed == {u \in Url : document[u] \notin {NoDoc, mine[s]}}
  IN  [u \in Url |-> IF u \in doomed THEN NoDoc ELSE pending[s][u]]
AfterRetainOnly(s) ==
  LET doomed == Superseded(AfterCommit(s), mine[s], job[mine[s]].scope)
  IN  [u \in Url |-> IF u \in doomed THEN NoDoc ELSE pending[s][u]]

-----------------------------------------------------------------------------
(* What the pipeline decides.                                              *)

RefusedIfEmpty(listing, scope) == listing = {}           \* a mutated form

\* A sitemap that lists nothing, or less than MIN_COVERAGE of last time.
Refused(listing, scope) ==
  \/ listing = {}
  \/ 10 * Cardinality(listing) < 7 * PreviousListed(scope)

JudgeAnywhere(answer, final, scope) ==                   \* a mutated form
  IF answer \in Read /\ final \notin Eligible THEN "excluded_destination" ELSE answer

\* The reason recorded for an answer, once its destination has been looked at.
Judge(answer, final, scope) ==
  IF answer \in Read /\ final \notin Eligible THEN "excluded_destination"
  ELSE IF answer \in Collected /\ ~InScope(final, scope) THEN "redirect_outside_scope"
  ELSE answer

WritesAlways(r) == TRUE                                  \* a mutated form
Writes(r) == ~job[r].dry

Unread(s) == {u \in worklist[s] : seen[s][u] = NoRow}

-----------------------------------------------------------------------------
(* The drivers.                                                            *)

\* A crawl starts: store.claim up to its commit, and the 'discover' message.
\* Refused by the lock it raises, having changed nothing.
Claim(s, r, j) ==
  /\ phase[s] = "idle"
  /\ LockFree
  /\ status[r] = "none" /\ \A q \in RunId : q < r => status[q] # "none"
  /\ lock' = s
  /\ status' = Claimed(r)
  /\ job' = [job EXCEPT ![r] = j]
  /\ phase' = [phase EXCEPT ![s] = "discover"]
  /\ mine' = [mine EXCEPT ![s] = r]
  /\ UNCHANGED <<document, listed, rows, worklist, seen, pending, cancel>>

\* The caller goes away: the gRPC callback or the closed generator asks the
\* crawl to stop. It will notice at its next check or yield.
Cancel(s) ==
  /\ phase[s] \in Working \cup {"done"}
  /\ ~cancel[s]
  /\ cancel' = [cancel EXCEPT ![s] = TRUE]
  /\ UNCHANGED <<database, lock, phase, mine, worklist, seen, pending>>

KeepWrites(s) ==                                         \* a mutated form
  /\ document' = AfterCommit(s)
  /\ rows' = [rows EXCEPT ![mine[s]] = seen[s]]
  /\ seen' = [seen EXCEPT ![s] = NoRows]
  /\ pending' = [pending EXCEPT ![s] = NoWrites]

\* conn.rollback: what the transaction held never happened.
Rollback(s) ==
  /\ seen' = [seen EXCEPT ![s] = NoRows]
  /\ pending' = [pending EXCEPT ![s] = NoWrites]
  /\ UNCHANGED <<document, rows>>

FinishRegardless(s, st) ==                               \* a mutated form
  /\ status' = [status EXCEPT ![mine[s]] = st]
  /\ UNCHANGED listed

\* finish_run with a status other than 'ok', unless the run has finished.
Finish(s, st) ==
  IF phase[s] = "done" THEN UNCHANGED <<status, listed>>
  ELSE /\ status' = [status EXCEPT ![mine[s]] = st]
       /\ listed' = [listed EXCEPT ![mine[s]] = Cardinality(worklist[s])]

\* Both exception handlers: cancel.set, rollback, finish_run, and on to the finally.
EndRun(s, st) ==
  /\ Rollback(s)
  /\ Finish(s, st)
  /\ phase' = [phase EXCEPT ![s] = "closing"]
  /\ cancel' = [cancel EXCEPT ![s] = TRUE]
  /\ UNCHANGED <<job, lock, mine, worklist>>

CancelUnlessFetching(s) ==                               \* a mutated form
  /\ phase[s] \in {"discover", "reconcile", "pruned", "done"}
  /\ cancel[s]
  /\ EndRun(s, "cancelled")

\* except (GeneratorExit, Cancelled)
CancelRun(s) ==
  /\ phase[s] \in Working \cup {"done"}
  /\ cancel[s]
  /\ EndRun(s, "cancelled")

\* except Exception: the sitemap, a fetch or a statement raised.
FailRun(s) ==
  /\ phase[s] \in Working
  /\ EndRun(s, "failed")

\* The sitemap answers with the pages in `listing`.
Discover(s, listing) ==
  /\ phase[s] = "discover"
  /\ ~cancel[s]
  /\ listing \subseteq {u \in Eligible : InScope(u, job[mine[s]].scope)}
  /\ IF Refused(listing, job[mine[s]].scope) THEN EndRun(s, "failed")
     ELSE /\ phase' = [phase EXCEPT ![s] = "fetch"]
          /\ worklist' = [worklist EXCEPT ![s] = listing]
          /\ UNCHANGED <<database, lock, mine, seen, pending, cancel>>

\* One fetch answers, and its outcome is written: the observation, and the
\* document if it is documentation and the run is no preview.
Take(s, u, answer, final) ==
  LET r == mine[s]
      reason == Judge(answer, final, job[r].scope)
      kept == reason \in Collected /\ Writes(r)
  IN  /\ phase[s] = "fetch"
      /\ ~cancel[s]
      /\ u \in Unread(s)
      /\ kept => RowFree(s, final)
      /\ seen' = [seen EXCEPT ![s][u] = [reason |-> reason, final |-> final]]
      /\ pending' = [pending EXCEPT ![s] = IF kept THEN AfterPut(s, final) ELSE @]
      /\ UNCHANGED <<database, lock, phase, mine, worklist, cancel>>

\* At most once a second, and when nothing is left in flight: the progress is
\* recorded, and everything the transaction holds is committed with it.
Heartbeat(s) ==
  /\ phase[s] = "fetch"
  /\ document' = AfterCommit(s)
  /\ rows' = [rows EXCEPT ![mine[s]] = seen[s]]
  /\ pending' = [pending EXCEPT ![s] = NoWrites]
  /\ phase' = [phase EXCEPT ![s] = IF Unread(s) = {} THEN "reconcile" ELSE "fetch"]
  /\ UNCHANGED <<status, job, listed, lock, mine, worklist, seen, cancel>>

\* The rows this run did not write are deleted, in its open transaction.
RetainOnly(s) ==
  LET after == AfterRetainOnly(s)
  IN  /\ phase[s] = "reconcile"
      /\ ~cancel[s]
      /\ Writes(mine[s]) => \A u \in Url : after[u] # pending[s][u] => RowFree(s, u)
      /\ pending' = [pending EXCEPT ![s] = IF Writes(mine[s]) THEN after ELSE @]
      /\ phase' = [phase EXCEPT ![s] = "pruned"]
      /\ UNCHANGED <<database, lock, mine, worklist, seen, cancel>>

\* finish_run 'ok': the deletion and the run's status, in one commit.
FinishOk(s) ==
  /\ phase[s] = "pruned"
  /\ ~cancel[s]
  /\ document' = AfterCommit(s)
  /\ rows' = [rows EXCEPT ![mine[s]] = seen[s]]
  /\ status' = [status EXCEPT ![mine[s]] = "ok"]
  /\ listed' = [listed EXCEPT ![mine[s]] = Cardinality(worklist[s])]
  /\ pending' = [pending EXCEPT ![s] = NoWrites]
  /\ phase' = [phase EXCEPT ![s] = "done"]
  /\ UNCHANGED <<job, lock, mine, worklist, seen, cancel>>

\* The last message has been read: the generator runs into its finally.
Exhaust(s) ==
  /\ phase[s] = "done"
  /\ phase' = [phase EXCEPT ![s] = "closing"]
  /\ UNCHANGED <<database, lock, mine, worklist, seen, pending, cancel>>

\* A driver with no crawl, as it was before its first one.
Parked(s, held) ==
  /\ phase' = [phase EXCEPT ![s] = "idle"]
  /\ mine' = [mine EXCEPT ![s] = 0]
  /\ worklist' = [worklist EXCEPT ![s] = {}]
  /\ seen' = [seen EXCEPT ![s] = NoRows]
  /\ pending' = [pending EXCEPT ![s] = NoWrites]
  /\ cancel' = [cancel EXCEPT ![s] = FALSE]
  /\ lock' = IF lock = s THEN held ELSE lock

\* finally: once the pool has drained, store.release.
Release(s) ==
  /\ phase[s] = "closing"
  /\ Parked(s, NoOne)
  /\ UNCHANGED database

\* Ctrl-C inside the generator is neither of the exceptions it handles. Only
\* the finally runs, and its first statement gives up the lock...
Interrupt(s) ==
  /\ s \in Console
  /\ phase[s] \in Working
  /\ lock' = NoOne
  /\ phase' = [phase EXCEPT ![s] = "unlocked"]
  /\ UNCHANGED <<database, mine, worklist, seen, pending, cancel>>

\* ...and its second commits whatever the transaction was holding.
CommitLeftover(s) ==
  /\ phase[s] = "unlocked"
  /\ document' = AfterCommit(s)
  /\ rows' = [rows EXCEPT ![mine[s]] = seen[s]]
  /\ Parked(s, NoOne)
  /\ UNCHANGED <<status, job, listed>>

\* The process dies, or its database session does: the server rolls back and
\* frees the session's lock; nobody is left to say how the run ended.
Lose(s) ==
  /\ phase[s] # "idle"
  /\ Parked(s, NoOne)
  /\ UNCHANGED database

Progress(s) ==
  \/ CancelRun(s)
  \/ \E listing \in SUBSET Url : Discover(s, listing)
  \/ \E u \in Url, answer \in Answers : \E final \in Lands[u] : Take(s, u, answer, final)
  \/ Heartbeat(s)
  \/ RetainOnly(s)
  \/ FinishOk(s)
  \/ Exhaust(s)
  \/ Release(s)
  \/ CommitLeftover(s)

Environment(s) ==
  \/ \E r \in RunId, j \in Jobs : Claim(s, r, j)
  \/ FailRun(s)
  \/ Cancel(s)
  \/ Interrupt(s)
  \/ Lose(s)

Next == \E s \in Session : Progress(s) \/ Environment(s)

\* A crawl that has started keeps running: every fetch ends (timeouts, bounded
\* attempts), every statement ends (statement_timeout, lock_timeout), and the
\* caller reads the stream or its connection ends. Nobody owes a call, an
\* exception, a crash or a Ctrl-C.
Fairness == \A s \in Session : WF_vars(Progress(s))

Safety == Init /\ [][Next]_vars
Spec == Safety /\ Fairness

-----------------------------------------------------------------------------
(* Properties.                                                             *)

\* The advisory lock is held exactly by the crawl that may still write or is
\* closing down; a crawl that may write owns the one run marked running. Without
\* the lock, only a session interrupted at the console may still have something
\* to commit, and no other session writes for its run.
OneWriter ==
  /\ \A s \in Session : lock = s <=> phase[s] \in Working \cup {"done", "closing"}
  /\ \A s \in Session : phase[s] \in Working => status[mine[s]] = "running"
  /\ \A r, q \in RunId : status[r] = "running" /\ status[q] = "running" => r = q
  /\ \A s \in Session : pending[s] # NoWrites =>
       lock = s \/ (s \in Console /\ phase[s] = "unlocked")
  /\ \A s, t \in Session :
       {phase[s], phase[t]} \subseteq Working \cup {"unlocked"} /\ mine[s] = mine[t] => s = t

\* The pages whose documents the observations `table` account for.
CollectedBy(table) ==
  {u \in Url : \E v \in Url : /\ table[v] # NoRow
                              /\ table[v].final = u
                              /\ table[v].reason \in Collected}

\* Every document a run has put in the corpus can be traced to the observation
\* that put it there: the run was no preview, the page is one it may hold, and
\* a committed crawl_observation of that run says it was collected. A document
\* is never visible before, or without, the row that explains it.
Traceable ==
  \A u \in Url : document[u] \in RunId =>
    LET r == document[u]
    IN  /\ ~job[r].dry
        /\ u \in Eligible
        /\ InScope(u, job[r].scope)
        /\ u \in CollectedBy(rows[r])

\* How a run ended is settled once: no late cancellation, no abandoned-run
\* sweep and no second finish ever rewrites a closed run.
FinishedForGood ==
  [][\A r \in RunId : status[r] \in Closed => status'[r] = status[r]]_vars

\* When a full run is recorded 'ok' the corpus of its scope is, in that same
\* step, exactly what its observations say it collected, every listed page has
\* been observed, and no other product's page is touched. A preview changes
\* nothing.
SwapIsWhole ==
  [][\A r \in RunId : status[r] # "ok" /\ status'[r] = "ok" =>
       /\ listed'[r] = Cardinality({v \in Url : rows'[r][v] # NoRow})
       /\ \A u \in Url :
            document'[u] = IF job[r].dry \/ ~InScope(u, job[r].scope) THEN document[u]
                           ELSE IF u \in CollectedBy(rows'[r]) THEN r ELSE NoDoc]_vars

\* A run that is cancelled or fails publishes nothing by ending: what its
\* transaction held is gone, and so is any deletion it had begun.
DyingPublishesNothing ==
  [][\A r \in RunId : status[r] = "running" /\ status'[r] \in {"cancelled", "failed"}
        => UNCHANGED <<document, rows>>]_vars

\* Nothing leaves the corpus except in the step that completes a full run over
\* that page's product (docs/corpus-operations.md: "reconciliation does not
\* run on cancellation or failure").
PruneCompletesARun ==
  [][\A u \in Url : document[u] # NoDoc /\ document'[u] = NoDoc =>
       \E r \in RunId : /\ status[r] = "running" /\ status'[r] = "ok"
                        /\ ~job[r].dry /\ InScope(u, job[r].scope)]_vars

\* Of two successive full runs of a scope that completed, the later one was
\* offered at least 70% of the pages the earlier one was, and never none.
CoverageFloor ==
  \A r, q \in RunId :
    /\ r \in Healthy(job[r].scope) => listed[r] > 0
    /\ /\ q < r /\ {q, r} \subseteq Healthy(job[r].scope)
       /\ ~\E m \in Healthy(job[r].scope) : q < m /\ m < r
       => 10 * listed[r] >= 7 * listed[q]

\* The advisory lock is always given up in the end, whether the crawl
\* completes, fails, is cancelled, is interrupted or dies.
LockIsFreed == \A s \in Session : lock = s ~> lock # s

\* What a refresh promises (CorpusRebuild), kept by the crawler.
Rebuild == INSTANCE CorpusRebuild
KeepsRebuildPromise == Rebuild!RebuildSpec

-----------------------------------------------------------------------------
(* What the repository says of a refresh and the code does not do.         *)

\* "a crawl that dies at page 9,000 leaves the previous corpus exactly as it
\* found it" (store.retain_only): no row of a dead run is in the corpus.
DeadRunLeavesPreviousCorpus ==
  \A u \in Url : document[u] \in RunId => status[document[u]] \in {"running", "ok"}

\* "UNKNOWN  not read. A failure on our side, so nothing about the stored copy
\* may change" (extract.py): the swap drops no page it could not read.
UnknownKeepsStoredCopy ==
  [][\A r \in RunId, u \in Url :
       /\ status[r] = "running" /\ status'[r] = "ok"
       /\ rows'[r][u] # NoRow /\ rows'[r][u].final = u /\ rows'[r][u].reason \in Unknown
       /\ document[u] # NoDoc
       => document'[u] # NoDoc]_vars
=============================================================================
