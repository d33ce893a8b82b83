CONSTANTS
  Procs = {p1, p2}
  Names = {alice}
  Convs = {c1}
  Statuses = {private}
  Absent = Absent
  Nobody = Nobody
  MaxTargets = 1
  MaxProfiles = 1
  MaxListed = 8
  MaxVersions = 2
  MaxGen = 3
SPECIFICATION Spec
SYMMETRY Symmetry
PROPERTY ResetReplacesStale
