CONSTANTS
  Requests = {r1, r2, r3}
  Ops = {o1}
  Tabs = {t1}
  Databases = {d1}
  Boot = Boot
  NoClient = NoClient
  NoRequest = NoRequest
  NoTab = NoTab
  NoDatabase = NoDatabase
  MaxOpenConns = 1
SPECIFICATION Spec
INVARIANT CancelReachesRunning
