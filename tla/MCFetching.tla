------------------------------ MODULE MCFetching ------------------------------
(***************************************************************************)
(* Small sites for TLC: four maps, of which the walk may read three, two   *)
(* levels below the root, and two pages.                                   *)
(***************************************************************************)
EXTENDS Fetching

CONSTANTS w, f1, f2, r, a, b, c, p, q

Index(items) == [kind |-> "index", items |-> items]
Urls(items) == [kind |-> "urlset", items |-> items]
Of(page, moment) == [page |-> page, lastmod |-> moment]
Other == [kind |-> "other", items |-> <<>>]

SiteOf(top, inA, inB, inC) ==
  [m \in Map |-> CASE m = r -> top [] m = a -> inA [] m = b -> inB [] OTHER -> inC]

\* Two maps that date the same page, in either order, and repeat a map.
Diamond == SiteOf(Index(<<a, b, a>>), Urls(<<Of(p, 2)>>), Urls(<<Of(p, 1), Of(q, 0)>>), Other)
\* Nested, and pointing back at the root and at itself; its one urlset names a
\* page twice, the second time without a lastmod.
Cycle == SiteOf(Index(<<a, b>>), Index(<<r, b, a>>), Urls(<<Of(p, 1), Of(p, 0)>>), Other)
Deep == SiteOf(Index(<<a>>), Index(<<b>>), Index(<<c>>), Urls(<<Of(p, 1)>>))
Wide == SiteOf(Index(<<a, b, c>>), Urls(<<Of(p, 1)>>), Urls(<<Of(p, 1)>>), Urls(<<Of(q, 1)>>))
Torn == SiteOf(Index(<<a, NoPlace>>), Urls(<<Of(p, 1)>>), Other, Other)
TornMap == SiteOf(Urls(<<Of(p, 1), NoPlace>>), Other, Other, Other)
Page404 == SiteOf(Index(<<a>>), Other, Other, Other)
Empty == SiteOf(Index(<<a>>), Urls(<<>>), Other, Other)

MCSite == {Diamond, Cycle, Deep, Wide, Torn, TornMap, Page404, Empty}
=============================================================================
