SPECIFICATION FairSpec
CONSTANTS
  m1 = m1  m2 = m2  m3 = m3
  t1 = t1  t2 = t2
  work = work  dlq = dlq
  None = None
  Msgs = {m1, m2, m3}
  Queues = {work}
  Consumed = {work}
  Pulled = {}
  DeadLetter <- NoDeadLetter
  Threads = {t1, t2}
  MaxBatch = 1
  MaxRetries = 2
  V8 = {}
  Poison = {m3}
  Touched = {}
  Aging = {}
  MaxAttempts = 4
  MaxLeases = 1
INVARIANT
  TypeOK
PROPERTY
  MessageSettles
CHECK_DEADLOCK FALSE
