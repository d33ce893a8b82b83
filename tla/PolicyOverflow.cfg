CONSTANTS
  Procs = {p1, p2}
  Names = {alice, bob}
  Convs = {c1}
  Statuses = {private}
  Absent = Absent
  Nobody = Nobody
  MaxTargets = 1
  MaxProfiles = 1
  MaxListed = 8
  MaxVersions = 2
  MaxGen = 2
SPECIFICATION Spec
SYMMETRY Symmetry
INVARIANT PolicyLoadable
