CONSTANTS
  Procs = {p1, p2}
  Versions = {v1, v2}
  MaxMeddle = 2
  MaxUnsynced = 3
  Nobody = Nobody
SPECIFICATION Spec
SYMMETRY Symmetry
INVARIANTS TypeOK VisibleIsComplete VersionKept ReportsAreTrue
PROPERTIES UserFilesAreSafe
