CONSTANTS
  MaxId = 3
  MaxFile = 2
  Titles = {A, B}
  X = X
  Y = Y
  D1 = D1
  Bodies = {X, Y}
  Databases = {D1, d2}
  Contents <- MCContents
  Everywhere = Everywhere
  NoQuery = NoQuery
  NoFile = NoFile
  OtherFile = OtherFile
  LoggedRuns = {l1, l2, l3}
  PageSize = 2
  NoList = NoList
  SavedIds = {i1}
  ListDbs = {b1, b2}
  Global = Global
  SqlTexts = {s1, s2}
  Unborn = Unborn
  Gone = Gone
  Nothing = Nothing
  MaxCalls = 2
  MaxSwitches = 1
SYMMETRY StoredSymmetry
SPECIFICATION StoredSpec
INVARIANTS
  StoredInv
  FilesImported
  DuplicatesAreRenamed
  PanelFollowsLog
  ListFollowsStore
PROPERTIES
  OwnQueriesStay
  EditsKeepTheQuery
