\* Cron runs only, one thread per batch: two threads, failures and a restart.
SPECIFICATION Spec
CONSTANTS
  m1 = m1  m2 = m2   t1 = t1  t2 = t2  w1 = w1  w2 = w2  w3 = w3 None = None
  Message = {m1, m2}
  Thread = {t1, t2}
  ThreadOf <- TwoThreads
  BatchSize = 1
  CronWorker = {w1, w2}
  ManualWorker = {}
  MaxVersion = 2
  MaxFaults = 1
INVARIANT TypeOK
PROPERTY ClaudeOnlyWhenPending Converges
