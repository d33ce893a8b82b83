CONSTANTS
  Downloads = {d1, d2}
  Size = 2
  MaxChanges = 2
  MaxOutages = 1
  Nothing = Nothing
  User = User
  MaxWire = 1
  MaxBody = 2
  MaxTS = 3
  MaxDeleted = 1
  MaxShifts = 2
  MaxNames = 2
  MaxGen = 3
  MaxEdits = 3
SPECIFICATION AllSpec
INVARIANTS OutputIsWhole ReportsAreTrue ProofIsExact NeverQuieter VerdictIsRight
PROPERTIES NothingReplaced CallKeepsPromise
CHECK_DEADLOCK FALSE
