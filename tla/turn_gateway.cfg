SPECIFICATION Spec
CONSTANTS
  m1 = m1
  m2 = m2
  Call = {c1}
  Engine <- MCGatewayEngine
  NoEngine = NoEngine
  Model = {m1, m2}
  AnyModel = AnyModel
  Blank = Blank
  Undecided = Undecided
  Unsent = Unsent
  NoRequest = NoRequest
  Unasked = Unasked
  Failed = Failed
  MaxPieces = 2
  MaxPushed = 1
INVARIANTS
  DoneOnLastChunk
CHECK_DEADLOCK FALSE
