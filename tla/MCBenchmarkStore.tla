-------------------------- MODULE MCBenchmarkStore --------------------------
(***************************************************************************)
(* Small files for TLC: two that are sets, the second with blank lines and *)
(* as many rows as there may be, and one for each way to be refused.       *)
(***************************************************************************)
EXTENDS BenchmarkStore

CONSTANTS p, q, o

Good(id) == [object |-> TRUE, id |-> id, sound |-> TRUE]
Text(lines) == [readable |-> TRUE, lines |-> lines]

One == Text(<<Good(p)>>)
Two == Text(<<Blank, Good(q), Blank, Good(p), Blank>>)
Binary == [Two EXCEPT !.readable = FALSE]
Nothing == Text(<<Blank>>)
Twice == Text(<<Good(p), Good(p)>>)
NotObject == Text(<<Good(p), [Good(q) EXCEPT !.object = FALSE]>>)
Nameless == Text(<<Good(NoId), Good(p)>>)
Unsound == Text(<<Good(p), [Good(q) EXCEPT !.sound = FALSE]>>)
TooLong == Text(<<Good(p), Good(q), Blank, Good(o)>>)

MCFile == {One, Two, Binary, Nothing, Twice, NotObject, Nameless, Unsound, TooLong}
=============================================================================
