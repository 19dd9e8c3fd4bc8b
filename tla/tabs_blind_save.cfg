CONSTANTS
  Edits = {e1}
  NoTimer = NoTimer
  Nothing = Nothing
  MaxPages = 1
  MaxSaves = 1
SPECIFICATION Spec
INVARIANT OnlyLoadedPagesSave
