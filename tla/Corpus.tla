------------------------------- MODULE Corpus -------------------------------
(***************************************************************************)
(* The vocabulary of the documentation corpus: pages, the products they    *)
(* belong to, the runs that collect them and what a run may do to them.    *)
(* Shared by the promise (CorpusRebuild) and by the crawler that has to    *)
(* keep it (CorpusCrawl).                                                  *)
(***************************************************************************)
EXTENDS Naturals

CONSTANTS
  Url,         \* canonical page addresses, sitemap.canonical
  Product,     \* product families
  ProductOf,   \* [Url -> Product], sitemap.classify(url)['product']
  Everything,  \* the scope '' of a run over every product
  MaxRun,      \* bound: how many rows techdoc.crawl_run may come to hold
  NoDoc        \* "no row of techdoc.document has this url"

ASSUME CorpusAssumption ==
  /\ ProductOf \in [Url -> Product]
  /\ Everything \notin Product
  /\ MaxRun \in Nat
  /\ NoDoc \notin Nat

RunId == 1..MaxRun                     \* crawl_run.id, in order of insertion
Scope == Product \cup {Everything}
Job == [scope: Scope, dry: BOOLEAN]    \* crawl_run.scope, crawl_run.dry_run
Closed == {"ok", "cancelled", "failed"}
Status == {"none", "running"} \cup Closed

\* document.run_id of the row of a page. 0 is the column's default: a row that
\* is older than the column, credited to no run.
Stamp == (0..MaxRun) \cup {NoDoc}

\* '%s = '' OR product = %s', the clause that limits a scoped run to its own.
InScope(u, scope) == scope = Everything \/ ProductOf[u] = scope

\* The pages whose rows retain_only drops for run r: in its scope, not its own.
Superseded(doc, r, scope) ==
  {u \in Url : doc[u] # NoDoc /\ doc[u] # r /\ InScope(u, scope)}
=============================================================================
