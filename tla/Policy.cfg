CONSTANTS
  Procs = {p1, p2}
  Names = {alice}
  Convs = {c1}
  Statuses = {private, external}
  Absent = Absent
  Nobody = Nobody
  MaxTargets = 1
  MaxProfiles = 1
  MaxListed = 2
  MaxVersions = 2
  MaxGen = 2
SPECIFICATION Spec
SYMMETRY Symmetry
INVARIANTS TypeOK WritesWithinReads WorkflowIsCurrent ReportsAreTrue
PROPERTIES NothingInherited
