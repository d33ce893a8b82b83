CONSTANTS
  Sends = {s1, s2}
  Texts = {hello, other}
  MaxGen = 2
  Nobody = Nobody
SPECIFICATION Spec
SYMMETRY Symmetry
INVARIANTS TypeOK PostsAsApproved ReportIsHonest LockCoversSend
CHECK_DEADLOCK FALSE
