CONSTANTS
  Procs = {p1, p2}
  Names = {alice, bob}
  MaxProfiles = 1
  MaxGen = 3
  Nobody = Nobody
SPECIFICATION Spec
SYMMETRY Symmetry
INVARIANTS TypeOK StoresAgree RetiredNeverUsable RegistryLoadable
PROPERTIES ReportsAreTrue SessionIsCurrent
