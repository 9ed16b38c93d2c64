---------------------------- MODULE CorpusRebuild ----------------------------
(***************************************************************************)
(* What a corpus refresh promises, with the crawler left out: one run at a *)
(* time; while it is open it may only add pages of its own scope, stamped  *)
(* with its id; the rows of older runs in that scope go in the one step    *)
(* that records the run 'ok'; a run that ends in any other way changes     *)
(* nothing in ending; a preview changes nothing at all.                    *)
(***************************************************************************)
EXTENDS Corpus

VARIABLES
  document,    \* [Url -> Stamp]     techdoc.document, as any reader sees it
  status,      \* [RunId -> Status]  crawl_run.status, "none" before the insert
  job          \* [RunId -> Job]     what the run was asked to do

rebuildVars == <<document, status, job>>

RebuildInit ==
  /\ document \in [Url -> {0, NoDoc}]
  /\ status = [r \in RunId |-> "none"]
  /\ job \in [RunId -> {[scope |-> Everything, dry |-> FALSE]}]

\* A new run opens. A run still marked running belonged to a crawler that is
\* gone, and is closed as failed in the same transaction.
Open(r, j) ==
  /\ status[r] = "none"
  /\ status' = [q \in RunId |-> IF q = r THEN "running"
                                ELSE IF status[q] = "running" THEN "failed"
                                ELSE status[q]]
  /\ job' = [job EXCEPT ![r] = j]
  /\ UNCHANGED document

\* The open run adds the pages in S to the corpus.
Publish(r, S) ==
  /\ status[r] = "running"
  /\ ~job[r].dry
  /\ \A u \in S : InScope(u, job[r].scope)
  /\ document' = [u \in Url |-> IF u \in S THEN r ELSE document[u]]
  /\ UNCHANGED <<status, job>>

\* The open run completes: the swap.
Complete(r) ==
  /\ status[r] = "running"
  /\ status' = [status EXCEPT ![r] = "ok"]
  /\ document' = [u \in Url |->
                    IF ~job[r].dry /\ u \in Superseded(document, r, job[r].scope)
                      THEN NoDoc ELSE document[u]]
  /\ UNCHANGED job

\* The open run ends short of that, and takes nothing with it.
Close(r, st) ==
  /\ status[r] = "running"
  /\ st \in {"cancelled", "failed"}
  /\ status' = [status EXCEPT ![r] = st]
  /\ UNCHANGED <<document, job>>

RebuildNext ==
  \E r \in RunId :
    \/ \E j \in Job : Open(r, j)
    \/ \E S \in SUBSET Url : Publish(r, S)
    \/ Complete(r)
    \/ \E st \in {"cancelled", "failed"} : Close(r, st)

RebuildSpec == RebuildInit /\ [][RebuildNext]_rebuildVars
=============================================================================
