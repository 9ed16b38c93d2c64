---------------------------- MODULE MCCorpusCrawl ----------------------------
(***************************************************************************)
(* Small corpora for TLC. a1 and a2 belong to product A, b1 to product B;  *)
(* x is a page of A the sitemap policy refuses. a1 may redirect to b1, a2  *)
(* to x.                                                                   *)
(***************************************************************************)
EXTENDS CorpusCrawl, TLC

CONSTANTS a1, a2, b1, x, A, B

MCProductOf == [u \in Url |-> IF u = b1 THEN B ELSE A]
MCEligible == Url \ {x}
MCLands ==
  [u \in Url |-> Url \cap ({u} \cup (IF u = a1 THEN {b1} ELSE {})
                               \cup (IF u = a2 THEN {x} ELSE {}))]

\* Every kind of job, and the three that differ in what they may touch.
MCAllJobs == Job
MCJobs == {[scope |-> Everything, dry |-> FALSE],
           [scope |-> A, dry |-> FALSE],
           [scope |-> A, dry |-> TRUE]}

SessionSymmetry == Permutations(Session)
=============================================================================
