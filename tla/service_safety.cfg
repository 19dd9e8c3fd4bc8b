CONSTANTS
  Requests = {r1, r2}
  Ops = {o1, o2}
  Tabs = {t1, t2}
  Databases = {d1, d2}
  Boot = Boot
  NoClient = NoClient
  NoRequest = NoRequest
  NoTab = NoTab
  NoDatabase = NoDatabase
  MaxOpenConns = 1
SYMMETRY Symmetry
SPECIFICATION Spec
INVARIANTS
  CurrentClientOpen
  NoLeakedClient
  RegistryLive
  LostOnlyAfterCancel
  HistoryFaithful
PROPERTY ImplementsContract
