SPECIFICATION Spec
CONSTANTS
  x1 = x1
  x2 = x2
  x3 = x3
  e1 = e1
  e2 = e2
  v1 = v1
  op = op
  cl = cl
  ge = ge
  im = im
  gh = gh
  gg = gg
  wx = wx
  m1 = m1
  m2 = m2
  m3 = m3
  m4 = m4
  m5 = m5
  m6 = m6
  gr1 = gr1
  gr2 = gr2
  ac1 = ac1
  us1 = us1
  q1 = q1
  q2 = q2
  q3 = q3
  hash1 = hash1
  hash2 = hash2
  l1 = l1
  l2 = l2
  l3 = l3
  MaxRules = 4
  Drafts <- Sent
  FirstRules <- TwoRules
  ImportData <- Imported
  RouteRequests <- Routed
  Mentions <- Gemini
  Hours = {0, 1}
  Evaluations = {e1, e2}
  RuleCalls = {v1}
  NoRules = NoRules
  NoRule = NoRule
  NotAList = NotAList
  Unset = Unset
  SessionCalls = {x1, x2, x3}
  MaxVersion = 3
  LastIssue = 1
  Names = {m1, m2}
  FirstName = m1
  NoToken = NoToken
  NoProfile = NoProfile
  SignIns = {x1, x2, x3}
  Browsers = {e1}
  Identities = {gh, gg, wx}
  ProviderOf <- From
  MailsGiven <- Given
  Placeholder <- MadeUp
  Mails = {m1}
  MaxPeople = 3
  NoMail = NoMail
  NoRecord = NoRecord
  RowIDs = {gr1, gr2, ac1, us1}
  FirstRows = {gr1, ac1}
  TableOf <- Tables
  AdminCalls = {x1, x2, x3}
  FieldValues = {1, 2}
  Cleared = 0
  NoEntry = NoEntry
  HandlerCalls = {v1}
  Models = {cl, op, ge, im}
  Allowed = {cl, ge, im}
  PlatformOf <- Begins
  Recommended = {cl, op}
  MappingOf <- Alias
  DefaultImage = im
  Usages = {1, 2}
  LocalCount = 3
  MaxChunks = 2
  NoModel = NoModel
  NoUsage = NoUsage
  Analyses = {e1, e2}
  Questions = {q1, q2, q3}
  KeyOf <- Hash
  ScoreOf <- Scores
  ConfidenceOf <- Trust
  Tiers <- Three
  RemoteProfiles <- Remote
  MaxRetries = 1
  Feedbacks = {v1}
  NoProfileYet = NoProfileYet
  Aliases = {l1, l2, l3}
  Mappings <- Chains
  defaultGlobalMapping <- Default
  EmptyMapping <- Nothing
  MappingCalls = {x1, x2, x3}
  MaxHops = 2
  NoMapping = NoMapping
SYMMETRY Interchangeable
CHECK_DEADLOCK FALSE
INVARIANTS BackendTypeOK RoutesByTable OldTokensDoNotRefresh LogoutEndsSession  OneUserPerIdentity ColumnsHoldLastSent BilledModelIsServed TokensAsReported NeverBelowLocal MappingSurvivesRestart
