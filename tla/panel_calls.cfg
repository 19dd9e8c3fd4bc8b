CONSTANTS
  Runs = {r1, r2, r3}
  Tabs = {t1, t2}
  NoRun = NoRun
  EditorTabs = {e1, e2}
  SavedTabs = {e1}
  NoDialog = NoDialog
  NewQuery = NewQuery
  AiTabs = {a1, a2}
  NoTab = NoTab
  Replies = {m1, m2}
  Typed = Typed
  MaxTurns = 2
  Orders = Orders
  Countries = Countries
  Tables = {Orders, Countries}
  Functions = {f1}
  Nothing = Nothing
  RowCount <- MCRowCount
  Heights = {300, 560}
  FactViews = {"structure"}
  MaxAsked = 2
  MaxKept = 1
  Plans <- MCPlans
  Documents <- MCDocuments
SPECIFICATION PanelSpec
CONSTRAINT FewAtOnce
INVARIANTS
  PanelInv
  SpinnerHasCall
  NamedOnce
  SaveIsOfOneTab
  TurnsFollowEachOther
  EditorShowsTurn
  RowsAreNumberedRight
  PastEndOnlyAfterChange
  PlanIsOutline
