SPECIFICATION FairSpec
CONSTANTS
  t1 = t1 t2 = t2 t3 = t3
  b1 = b1 a1 = a1
  v1 = v1 v2 = v2 v3 = v3
  Txns = {t1, t2, t3}
  Bills = {b1}
  Accounts = {a1}
  Values = {v1, v2, v3}
  Fee = 50
  MaxAttempts = 2
  NoOwner = NoOwner NoValue = NoValue
INVARIANTS TypeOK OneNumberPerOwner CreationChargedOnce AnswersAreTrue
PROPERTY EveryRequestEnds
