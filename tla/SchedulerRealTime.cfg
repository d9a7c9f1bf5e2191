SPECIFICATION Spec
CONSTANTS
  a1 = a1
  a2 = a2
  t1 = t1
  Accounts = {a1}
  Endpoints = {"Messages"}
  Sessions = {}
  Requests = {r1, r2}
  Tiers = {}
  PlatformOf <- ClaudeOnly
  TiersOf <- NoTiers
  MaxConcurrency = 2
  RpmLimit = 3
  ErrorThreshold = 2
  AdminStatuses = {}
  Faults = {"cancel"}
  NoAccount = NoAccount
  NoSession = NoSession
  NoTier = NoTier
  NoLoad = NoLoad
CHECK_DEADLOCK FALSE
INVARIANT CounterIsRealTime
