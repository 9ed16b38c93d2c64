SPECIFICATION Spec
CONSTANTS
  w = w
  f1 = f1
  f2 = f2
  r = r
  a = a
  b = b
  c = c
  p = p
  q = q
  Thread = {w, f1, f2}
  Walker = w
  Fetcher = {f1, f2}
  Map = {r, a, b, c}
  Root = r
  Page = {p, q}
  NoPage = NoPage
  NoPlace = NoPlace
  Unlisted = Unlisted
  Site <- MCSite
  MaxDepth = 2
  MaxMaps = 3
  Second = 1
  Spacing = 1
  MaxAttempts = 2
  MaxRetryAfter = 3
  RetryAfter = {0, 9}
INVARIANTS
  TypeOK
  RequestsBounded
  ListingComplete
  PagesAccounted
PROPERTIES
  BackoffHonoured
  WalkGetsOn
  FetchesEnd
CHECK_DEADLOCK FALSE
