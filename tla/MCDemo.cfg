SPECIFICATION MCSpec
CONSTANTS
  u = u
  v = v
  w = w
  slash = slash
  n = n
  p = p
  Process = {p, q, r}
  Runs = {p}
  Url = {u, v, w, slash}
  Name = {n, Itself}
  Itself = Itself
  Directory = Directory
  NameOf <- Names
  NoName = NoName
  NoUrl = NoUrl
  Parts = 2
  Page = Page
  Missing = Missing
  NoFile = NoFile
  MaxSlots = 3
  MaxDownloads = 2
  PathMax = 8
  SizeMod = 64
INVARIANTS PathNamesModel EmissionReachesSlots EndsExplained
PROPERTIES FilesStay MainEnds
CHECK_DEADLOCK FALSE
