SPECIFICATION FairSpec
CONSTANTS
  d1 = d1 m1 = m1 m2 = m2 w1 = w1 w2 = w2
  Deliveries = {d1}
  Notices = {m1, m2}
  Emails = {m1}
  Bursts <- EachAlone
  Redelivered = {d1, m1}
  Workers = {w1, w2}
  MaxAttempts = 5
  MaxRetries = 5
  MaxNoticeRetries = 3
  NoTask = NoTask
INVARIANTS TypeOK QueuedIsCommitted OutcomesAreEarned UnfinishedIsCarried
PROPERTIES FinishedIsFinal EventuallyFinished
