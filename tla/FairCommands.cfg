CONSTANTS
  Procs = {p1, p2}
  Names = {alice, bob}
  MaxProfiles = 2
  MaxGen = 2
  Nobody = Nobody
  Texts = {hello}
  SendGens = 1
  MaxSignals = 3
SPECIFICATION AllFair
INVARIANTS EchoIsRestored TokenIsGood
PROPERTIES KeepsPromise LockIsReturned SendersKeepPromise EverySendEnds SignalRestores
CHECK_DEADLOCK FALSE
