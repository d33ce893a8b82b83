CONSTANTS
  Sends = {s1}
  Texts = {hello}
  MaxGen = 1
  Nobody = Nobody
SPECIFICATION Spec
INVARIANT WorkflowReportIsHonest
CHECK_DEADLOCK FALSE
