CONSTANTS
  Edits = {e1, e2, e3}
  NoTimer = NoTimer
  Nothing = Nothing
  MaxPages = 3
  MaxSaves = 4
SYMMETRY Symmetry
SPECIFICATION Spec
INVARIANTS
  NoSaveBeforeAnswer
  NewestSaveIsCurrent
CHECK_DEADLOCK FALSE
