CONSTANTS
  Subs = {s1, s2}
  Topics = {token}
  Publishers = {p1, p2}
  Callers = {c1}
  Buffer = 1
  MaxPublish = 3
  None = None
SPECIFICATION FairSpec
INVARIANTS TypeOK NoPanic EveryoneOffered NoSilentLoss NoGapPerPublisher
PROPERTY LossIsTold
CHECK_DEADLOCK FALSE
