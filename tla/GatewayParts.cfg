SPECIFICATION FairSpec
CONSTANTS
  Records = {x1, x2, x3}
  BufferSize = 2
  Ticker = Ticker
  Stopper = Stopper
  Nobody = Nobody
  Monitored = {m1}
  WindowSize = 3
  Thresholds = {5, 8, 9}
  NoWindow = NoWindow
  Upstreams = {s1, s2, s3}
  MaxRetries = 2
  NoAccount = NoAccount
  Providers = {m1, m2}
  BalanceCalls = {c1}
  AtOnce = 1
CHECK_DEADLOCK FALSE
INVARIANTS PartsTypeOK FlushedInOrder PendingAccounts StopFlushesAll HealthFollowsRecent TriesDistinctAccounts
PROPERTIES ImplementsHandoff RequestEnds SweepReportsAll
