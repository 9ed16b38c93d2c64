SPECIFICATION Safety
CONSTANTS
  a1 = a1
  a2 = a2
  b1 = b1
  x = x
  A = A
  B = B
  Session = {s1, s2}
  Console = {}
  Url = {a1, a2, b1}
  Product = {A, B}
  ProductOf <- MCProductOf
  Inherited = {a2, b1}
  Eligible <- MCEligible
  Lands <- MCLands
  Jobs <- MCJobs
  Answers = {"technical_topic", "fetch_failed"}
  Everything = Everything
  MaxRun = 2
  NoDoc = NoDoc
  NoOne = NoOne
  NoRow = NoRow
  Unwritten = Unwritten
INVARIANTS
  TypeOK
  Traceable
  CoverageFloor
PROPERTIES
  FinishedForGood
  SwapIsWhole
  DyingPublishesNothing
  PruneCompletesARun
  KeepsRebuildPromise
SYMMETRY SessionSymmetry
CHECK_DEADLOCK FALSE
