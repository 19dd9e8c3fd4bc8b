CONSTANTS
  Runs = {r1}
  Tabs = {t1}
  NoRun = NoRun
SPECIFICATION Spec
INVARIANT UserTitleStays
