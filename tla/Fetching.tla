------------------------------- MODULE Fetching -------------------------------
(***************************************************************************)
(* What a refresh asks of the publisher: sitemap.fetch walks the sitemap   *)
(* index in one thread, then the pool's threads fetch the pages it lists,  *)
(* all through fetch.download and its one throttle.                        *)
(***************************************************************************)
EXTENDS Download, Sequences, FiniteSets, SequencesExt

CONSTANTS
  Walker,    \* the thread of the refresh
  Fetcher,   \* the pool's threads, FETCH_WORKERS of them
  Map,       \* locations of sitemaps
  Root,      \* SITEMAP_URL
  Page,      \* pages a sitemap may list, in canonical form
  NoPage,    \* a thread has no page to fetch
  NoPlace,   \* an entry without a location, or one off the host
  Site,      \* sites: [Map -> Document]
  MaxDepth,  \* deepest nesting of the index, 4 in the code
  MaxMaps,   \* most maps one walk reads, 100 in the code
  Unlisted   \* no sitemap has named the page

\* A page's lastmod: 0 for none or one that cannot be read.
Moment == Nat
Listed == [page: Page, lastmod: Moment]
Document ==
  [kind: {"index"}, items: Seq(Map \cup {NoPlace})]
    \cup [kind: {"urlset"}, items: Seq(Listed \cup {NoPlace})]
    \cup [kind: {"other"}, items: {<<>>}]

ASSUME FetchingAssumption ==
  /\ Thread = Fetcher \cup {Walker} /\ Walker \notin Fetcher
  /\ Root \in Map
  /\ Site \subseteq [Map -> Document]
  /\ NoPlace \notin Map \cup Listed
  /\ MaxDepth \in Nat /\ MaxMaps \in Nat
  /\ NoPage \notin Page
  /\ Unlisted \notin Moment

VARIABLES
  site,     \* what the publisher serves
  walk,     \* where sitemap.fetch is
  visited,  \* SUBSET Map
  pages,    \* [Page -> Moment \cup {Unlisted}], what it has found
  todo,     \* SUBSET Page, the listed pages no thread has taken
  job,      \* [Fetcher -> Job], the fetch a thread is in
  fetched   \* [Page -> Fetched], what became of each

wvars == <<walk, visited, pages>>
fvars == <<todo, job, fetched>>
vars == <<dvars, site, wvars, fvars>>

Place == [map: Map \cup {NoPlace}, depth: Nat]
\* `stack` is what read has still to descend into, the next one first.
Walk == [phase: {"next", "reading", "listed", "refused", "failed", "cancelled"},
         stack: Seq(Place)]
Fetched == {"none", "read", "excluded", "fetch_failed", "cancelled", "raised"}
Job == [page: Page \cup {NoPage}, round: {0, 1}]
NoJob == [page |-> NoPage, round |-> 0]

TypeOK ==
  /\ DownloadTypeOK
  /\ site \in Site
  /\ walk \in Walk
  /\ visited \in SUBSET Map
  /\ pages \in [Page -> Moment \cup {Unlisted}]
  /\ todo \in SUBSET Page
  /\ job \in [Fetcher -> Job]
  /\ fetched \in [Page -> Fetched]

Init ==
  /\ DownloadInit
  /\ site \in Site
  /\ walk = [phase |-> "next", stack |-> <<[map |-> Root, depth |-> 0]>>]
  /\ visited = {}
  /\ pages = [p \in Page |-> Unlisted]
  /\ todo = {}
  /\ job = [t \in Fetcher |-> NoJob]
  /\ fetched = [p \in Page |-> "none"]

\* Thread t starts a download for a new page or map, and is free again when it
\* is through; the requests counted are those of the download in hand.
Start(t) ==
  /\ get' = [get EXCEPT ![t] = Fresh]
  /\ asked' = [asked EXCEPT ![t] = 0]
  /\ UNCHANGED <<gate, cancel, owed, late, ahead>>
Free(t) ==
  /\ get' = [get EXCEPT ![t] = NoGet]
  /\ asked' = [asked EXCEPT ![t] = 0]
  /\ UNCHANGED <<gate, cancel, owed, late, ahead>>

-----------------------------------------------------------------------------
(* sitemap.fetch.                                                          *)

End(phase) == walk' = [walk EXCEPT !.phase = phase]
Place1 == Head(walk.stack)

\* Read before: nothing to do.
Pass ==
  /\ walk.phase = "next" /\ walk.stack # <<>>
  /\ Place1.map \in visited
  /\ walk' = [walk EXCEPT !.stack = Tail(@)]
  /\ UNCHANGED <<dvars, site, visited, pages, fvars>>

TooFar == Place1.depth > MaxDepth \/ Cardinality(visited) >= MaxMaps

VisitAnew ==                                             \* a mutated form of Visit
  /\ walk.phase = "next" /\ walk.stack # <<>>
  /\ Place1.map \in Map /\ ~TooFar
  /\ End("reading")
  /\ Start(Walker)
  /\ UNCHANGED <<site, visited, pages, fvars>>

Visit ==
  /\ walk.phase = "next" /\ walk.stack # <<>>
  /\ Place1.map \in Map \ visited /\ ~TooFar
  /\ visited' = visited \cup {Place1.map}
  /\ End("reading")
  /\ Start(Walker)
  /\ UNCHANGED <<site, pages, fvars>>

\* An entry that cannot be followed, or one past the bounds.
Refuse ==
  /\ walk.phase = "next" /\ walk.stack # <<>>
  /\ Place1.map \notin visited /\ (Place1.map = NoPlace \/ TooFar)
  /\ End("refused")
  /\ UNCHANGED <<dvars, site, visited, pages, fvars>>

Overwritten(found, item) == [found EXCEPT ![item.page] = item.lastmod]  \* a mutated form
\* The newest lastmod stands, and none never replaces one.
Kept(found, item) ==
  IF found[item.page] = Unlisted \/ (item.lastmod # 0 /\ item.lastmod > found[item.page])
  THEN [found EXCEPT ![item.page] = item.lastmod]
  ELSE found

\* What is found once the entries of a urlset have been gone through in order.
Found(found, items) ==
  LET after[n \in 0..Len(items)] ==
        IF n = 0 THEN found ELSE Kept(after[n - 1], items[n])
  IN  after[Len(items)]

\* The map is there: its entries are gone through in order, those of an index
\* before anything else the walk has left to do.
Read ==
  /\ walk.phase = "reading"
  /\ get[Walker].phase = "over" /\ get[Walker].result = "page"
  /\ LET doc == site[Place1.map]
         inside == [n \in DOMAIN doc.items |->
                      [map |-> doc.items[n], depth |-> Place1.depth + 1]]
     IN
     \/ /\ doc.kind = "index"
        /\ walk' = [phase |-> "next", stack |-> inside \o Tail(walk.stack)]
        /\ UNCHANGED pages
     \/ /\ doc.kind = "urlset" /\ \A n \in DOMAIN doc.items : doc.items[n] # NoPlace
        /\ walk' = [phase |-> "next", stack |-> Tail(walk.stack)]
        /\ pages' = Found(pages, doc.items)
     \/ /\ doc.kind = "other" \/ (doc.kind = "urlset" /\ NoPlace \in ToSet(doc.items))
        /\ End("refused")
        /\ UNCHANGED pages
  /\ Free(Walker)
  /\ UNCHANGED <<site, visited, fvars>>

\* The map is not: a status other than 200, a failed download, a cancellation.
Miss ==
  /\ walk.phase = "reading"
  /\ get[Walker].phase = "over" /\ get[Walker].result # "page"
  /\ End(IF get[Walker].result = "cancelled" THEN "cancelled" ELSE "failed")
  /\ Free(Walker)
  /\ UNCHANGED <<site, visited, pages, fvars>>

ListDated ==                                             \* a mutated form of List
  /\ walk.phase = "next" /\ walk.stack = <<>>
  /\ IF \A p \in Page : pages[p] = Unlisted
     THEN End("refused") /\ UNCHANGED todo
     ELSE End("listed") /\ todo' = {p \in Page : pages[p] \notin {Unlisted, 0}}
  /\ UNCHANGED <<dvars, site, visited, pages, job, fetched>>

\* The walk is done. What it found is what the pool is given.
List ==
  /\ walk.phase = "next" /\ walk.stack = <<>>
  /\ IF \A p \in Page : pages[p] = Unlisted
     THEN End("refused") /\ UNCHANGED todo
     ELSE End("listed") /\ todo' = {p \in Page : pages[p] # Unlisted}
  /\ UNCHANGED <<dvars, site, visited, pages, job, fetched>>

\* A refresh that is over hands out no more pages.
Abandon ==
  /\ cancel /\ todo # {}
  /\ todo' = {}
  /\ UNCHANGED <<dvars, site, wvars, job, fetched>>

WalkOn == Pass \/ Visit \/ Refuse \/ Read \/ Miss \/ List

-----------------------------------------------------------------------------
(* fetch, in one thread of the pool.                                       *)

Take(t) ==
  /\ job[t].page = NoPage
  /\ \E p \in todo :
       /\ todo' = todo \ {p}
       /\ job' = [job EXCEPT ![t] = [page |-> p, round |-> 0]]
  /\ Start(t)
  /\ UNCHANGED <<site, wvars, fetched>>

AgainStill(t) ==                                         \* a mutated form of Again
  /\ job[t].page # NoPage
  /\ get[t].phase = "over" /\ get[t].result = "page"
  /\ get' = [get EXCEPT ![t] = [Fresh EXCEPT !.phase = "paused", !.wait = 2 * Second]]
  /\ UNCHANGED <<gate, cancel, owed, asked, late, ahead, site, wvars, fvars>>

\* The page came without its content root: once more in two seconds.
Again(t) ==
  /\ job[t].page # NoPage
  /\ get[t].phase = "over" /\ get[t].result = "page" /\ job[t].round = 0
  /\ job' = [job EXCEPT ![t].round = 1]
  /\ get' = [get EXCEPT ![t] = [Fresh EXCEPT !.phase = "paused", !.wait = 2 * Second]]
  /\ UNCHANGED <<gate, cancel, owed, asked, late, ahead, site, wvars, todo, fetched>>

Outcome(result) ==
  CASE result = "page" -> "read"
    [] result = "gone" -> "excluded"
    [] result = "failed" -> "fetch_failed"
    [] result = "cancelled" -> "cancelled"
    [] OTHER -> "raised"

Settle(t) ==
  /\ job[t].page # NoPage
  /\ get[t].phase = "over"
  /\ fetched' = [fetched EXCEPT ![job[t].page] = Outcome(get[t].result)]
  /\ job' = [job EXCEPT ![t] = NoJob]
  /\ Free(t)
  /\ UNCHANGED <<site, wvars, todo>>

FetchOn(t) == Take(t) \/ Again(t) \/ Settle(t)

-----------------------------------------------------------------------------
Step(t) ==
  \/ Downloads(t) /\ UNCHANGED <<site, wvars, fvars>>
  \/ t = Walker /\ (WalkOn \/ Abandon)
  \/ t \in Fetcher /\ FetchOn(t)

Next ==
  \/ \E t \in Thread : Step(t)
  \/ (Tick \/ Cancel) /\ UNCHANGED <<site, wvars, fvars>>

\* Threads run, every request ends by its socket timeout or the body's
\* deadline, and time passes; after a cancellation nothing may need it to.
Fairness ==
  /\ \A t \in Thread : WF_vars(Step(t))
  /\ WF_vars(~cancel /\ Tick /\ UNCHANGED <<site, wvars, fvars>>)

Safety == Init /\ [][Next]_vars
Spec == Safety /\ Fairness

-----------------------------------------------------------------------------
(* Properties.                                                             *)

\* Whatever the threads and the answers do, a request starts inside a backoff
\* only if its turn had come before the backoff was noted, and then it is its
\* thread's last one inside: a later and shorter backoff never cuts a longer, and
\* no turn is given until all of them have run out.
BackoffHonoured ==
  [][\A t \in Thread : asked'[t] > asked[t] /\ owed > 0 => t \in ahead /\ t \notin ahead']_<<asked, owed, ahead>>

\* A page costs the publisher at most two rounds of MAX_ATTEMPTS requests and a
\* map one, and a cancelled refresh makes at most one more request per thread:
\* the one whose turn came between the look at the Event and the lock.
RequestsBounded ==
  \A t \in Thread :
    /\ asked[t] <= (IF t = Walker THEN MaxAttempts ELSE 2 * MaxAttempts)
    /\ late[t] <= 1

Inside(m) == IF site[m].kind = "index" THEN ToSet(site[m].items) \ {NoPlace} ELSE {}

\* The maps the index leads to: what every set of maps holds that has the root
\* and, with a map, those inside it.
Reachable ==
  LET closed == {S \in SUBSET Map : Root \in S /\ \A n \in S : Inside(n) \subseteq S}
  IN  {m \in Map : \A S \in closed : m \in S}

\* The lastmods that maps of M give a page, and the newest the index has.
Dates(p, M) ==
  {item.lastmod : item \in {i \in (UNION {ToSet(site[m].items) :
     m \in {r \in M : site[r].kind = "urlset"}}) \ {NoPlace} : i.page = p}}
Newest(p) ==
  LET dates == Dates(p, Reachable) IN IF dates = {} THEN Unlisted ELSE Max(dates)

\* Entries lead deeper than the bound without coming back on themselves.
TooDeep ==
  \E path \in [1..(MaxDepth + 2) -> Map] :
    /\ path[1] = Root
    /\ \A n \in 1..(MaxDepth + 1) : path[n + 1] \in Inside(path[n])
    /\ \A m, n \in DOMAIN path : path[m] = path[n] => m = n

\* More maps than one walk may read.
TooMany == \E S \in SUBSET Reachable : IsFiniteSet(S) /\ Cardinality(S) > MaxMaps

Unusable(m) == site[m].kind = "other" \/ NoPlace \in ToSet(site[m].items)
Flawed == \E m \in Reachable : Unusable(m)

\* A listing is everything the index leads to, each page with its newest
\* lastmod, however the maps nest, repeat or point back: never a part of it, for
\* a rebuild takes it at its word, and never one of an index with a map that
\* cannot be used or with more maps than may be read. A walk that is not listed
\* though every map came has a reason in the index itself.
ListingComplete ==
  /\ walk.phase = "listed" =>
       /\ visited = Reachable
       /\ \A p \in Page : pages[p] = Newest(p)
       /\ ~Flawed /\ ~TooMany
  /\ walk.phase = "refused" =>
       Flawed \/ TooDeep \/ TooMany \/ \A p \in Page : Newest(p) = Unlisted

\* A page that is listed waits for a thread, is with one, or has its outcome:
\* no two threads fetch it, it is fetched no second time, and only a cancelled
\* refresh leaves one out or gives one up. No other page is fetched.
PagesAccounted ==
  /\ \A t, u \in Fetcher : job[t].page = job[u].page /\ job[t].page # NoPage => t = u
  /\ \A p \in Page :
       LET waiting == p \in todo
           taken == \E t \in Fetcher : job[t].page = p
           settled == fetched[p] # "none"
           listed == walk.phase = "listed" /\ Newest(p) # Unlisted
       IN
       /\ waiting \/ taken \/ settled => listed
       /\ listed /\ ~cancel => waiting \/ taken \/ settled
       /\ ~(waiting /\ taken) /\ ~(settled /\ (waiting \/ taken))
       /\ fetched[p] = "cancelled" => cancel

BeingRead(m) == walk.phase = "reading" /\ m = Place1.map
ReadSoFar == {m \in visited : ~BeingRead(m)}
Over == {"listed", "refused", "failed", "cancelled"}

\* What the walk may still do: maps it may read, and places to leave behind
\* before it reads another.
Unread == MaxMaps - Cardinality(ReadSoFar)
Left == 2 * Len(walk.stack) + (IF walk.phase = "next" THEN 1 ELSE 0)

\* An index that repeats itself, or points back at its root, makes the walk
\* longer by nothing: each of its steps ends it, reads one of the maps it may
\* still read, or brings it closer to that, and once over it stays over.
WalkGetsOn ==
  [][/\ walk.phase \notin Over
     /\ \/ walk'.phase \in Over
        \/ Unread' \in Nat /\ Unread' < Unread
        \/ Unread' = Unread /\ Left' \in Nat /\ Left' < Left]_walk

\* The refresh has nothing more to ask of the publisher.
Quiet ==
  /\ walk.phase \in Over
  /\ todo = {} /\ \A t \in Fetcher : job[t].page = NoPage

\* The walk ends though an index may point at itself, and so does every fetch
\* with its retries; a cancelled one wakes from whatever pause it is in.
FetchesEnd == <>Quiet
=============================================================================
