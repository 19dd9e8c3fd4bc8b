CONSTANTS
  Keys = {"objects", "table-columns", "table-info", "ai-suggestions"}
  Databases = {d1, d2}
  None = None
  Urls = {u1, u2}
  Hostless = {u2}
  NoUrl = NoUrl
  DefaultUrl = u1
  MaxConnects = 2
  Catalogues <- MCCatalogues
  Schemas <- MCSchemas
  Public = Public
  NoText = NoText
  NoTab = NoTab
  NotRead = NotRead
  TextA = TextA
  TextT = TextT
SYMMETRY SidesSymmetry
SPECIFICATION SidesSpec
INVARIANTS
  SidesInv
  SidebarFollowsSwitch
  ShownIsServers
  ColumnsAreOfReference
PROPERTIES
  SidebarStaysCurrent
  EditsSurviveCheck
