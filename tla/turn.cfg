SPECIFICATION Spec
CONSTANTS
  m1 = m1
  m2 = m2
  Call = {c1}
  Engine <- MCEngine
  NoEngine = NoEngine
  Model = {m1, m2}
  AnyModel = AnyModel
  Blank = Blank
  Undecided = Undecided
  Unsent = Unsent
  NoRequest = NoRequest
  Unasked = Unasked
  Failed = Failed
  MaxPieces = 2
  MaxPushed = 2
INVARIANTS
  TypeOK
  ReportAccountsForTurn
  StreamIsTheDocument
  NoStaleEngine
  NoSubstitution
PROPERTIES
  KeepsGate
  TurnEnds
CHECK_DEADLOCK FALSE
