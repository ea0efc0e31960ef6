SPECIFICATION FairSpec
CONSTANTS
  c1 = c1
  c2 = c2
  Clients = {c1, c2}
  Owner = c1
INVARIANTS TypeOK TokenUsedOnce
PROPERTIES LostMailRecovers
CHECK_DEADLOCK FALSE
