\* Requests overlap the cron runs, on the messages of one thread.
SPECIFICATION Spec
CONSTANTS
  m1 = m1  m2 = m2   t1 = t1  t2 = t2  w1 = w1  w2 = w2  w3 = w3 None = None
  Message = {m1}
  Thread = {t1}
  ThreadOf <- One
  BatchSize = 1
  CronWorker = {w1, w2}
  ManualWorker = {w3}
  MaxVersion = 2
  MaxFaults = 1
PROPERTY Converges RunsGuarded
