SPECIFICATION Safety
CONSTANTS
  vendor = vendor
  odd = odd
  m = m
  k1 = k1
  k2 = k2
  Worker = {w1, w2}
  Body <- MCBody
  Provider = {vendor, odd}
  KnownVendor = {vendor}
  ModelsOf <- MCModelsOf
  Model = {m}
  Key = {k1, k2}
  NoKey = NoKey
  MaxPush = 2
  Absent = Absent
  NoEngine = NoEngine
  NoDocument = NoDocument
INVARIANTS
  LiveKeyIsServed
CHECK_DEADLOCK FALSE
