SPECIFICATION Spec
CONSTANTS
  a1 = a1
  a2 = a2
  b1 = b1
  x = x
  A = A
  B = B
  Session = {s1, s2}
  Console = {s2}
  Url = {a2, x}
  Product = {A}
  ProductOf <- MCProductOf
  Inherited = {a2}
  Eligible <- MCEligible
  Lands <- MCLands
  Jobs <- MCAllJobs
  Answers = {"technical_topic", "unsupported_template", "http_404"}
  Everything = Everything
  MaxRun = 2
  NoDoc = NoDoc
  NoOne = NoOne
  NoRow = NoRow
  Unwritten = Unwritten
INVARIANTS
  OneWriter
PROPERTIES
  LockIsFreed
CHECK_DEADLOCK FALSE
