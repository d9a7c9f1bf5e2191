SPECIFICATION Spec
CONSTANTS
  a1 = a1
  a2 = a2
  t1 = t1
  Accounts = {a1, a2}
  Endpoints = {"Messages", "ChatCompletions"}
  Sessions = {s1}
  Requests = {r1, r2}
  Tiers = {}
  PlatformOf <- TwoPlatforms
  TiersOf <- NoTiers
  MaxConcurrency = 1
  RpmLimit = 2
  ErrorThreshold = 2
  AdminStatuses = {}
  Faults = {}
  NoAccount = NoAccount
  NoSession = NoSession
  NoTier = NoTier
  NoLoad = NoLoad
CHECK_DEADLOCK FALSE
INVARIANT SelectedOnPlatform
