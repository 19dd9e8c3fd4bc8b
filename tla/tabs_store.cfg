CONSTANTS
  TabIds = {i1, i2, i3}
  Tables = {T1, T2}
  Functions = {F1}
  Renamed = Renamed
  None = None
  MaxTabs = 3
  MaxCounter = 2
  MaxTurns = 1
SYMMETRY Symmetry
SPECIFICATION Spec
INVARIANTS
  TabsInv
  ObjectOpenOnce
  TitleNamesObject
PROPERTIES
  PermanentTabsStay
  TypedSqlStays
