SPECIFICATION Spec
CONSTANTS
  m1 = m1  m2 = m2  m3 = m3
  t1 = t1  t2 = t2
  work = work  dlq = dlq
  None = None
  Msgs = {m1, m2}
  Queues = {work, dlq}
  Consumed = {work}
  Pulled = {dlq}
  DeadLetter <- WorkDeadLetter
  Threads = {t1, t2}
  MaxBatch = 2
  MaxRetries = 2
  V8 = {}
  Poison = {}
  Touched = {m2}
  Aging = {m2}
  MaxAttempts = 3
  MaxLeases = 2
INVARIANTS
  LeaseExclusive
PROPERTIES
  AckSticks
  FullRetries
CHECK_DEADLOCK FALSE
