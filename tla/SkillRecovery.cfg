CONSTANTS
  Procs = {p1}
  Versions = {v1}
  MaxMeddle = 0
  MaxUnsynced = 3
  Nobody = Nobody
SPECIFICATION Spec
INVARIANT InterruptionsRecover
