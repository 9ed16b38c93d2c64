SPECIFICATION Spec
CONSTANTS
  p = p
  q = q
  o = o
  MaxCall = 3
  File <- MCFile
  NoFile = NoFile
  Blank = Blank
  PromptId = {p, q, o}
  NoId = NoId
  Name = {n1, standard}
  Label = {NoName}
  DefaultName = standard
  NoName = NoName
  NoSet = NoSet
  MaxRows = 2
  Breakdowns = 2
  MaxId = 3
INVARIANTS
  TypeOK
  WholeSets
  FilesBecomeSets
  UploadsAgree
  GoneForGood
  ReadsWholeOrGone
PROPERTIES
  IsCatalogue
  EveryCallAnswered
CHECK_DEADLOCK FALSE
