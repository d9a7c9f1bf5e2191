SPECIFICATION Spec
CONSTANTS
  u1 = u1
  u2 = u2
  r1 = r1
  r2 = r2
  r3 = r3
  a1 = a1
  a2 = a2
  t1 = t1
  t2 = t2
  b1 = b1
  c1 = c1
  c2 = c2
  k1 = k1
  k2 = k2
  k3 = k3
  d1 = d1
  g1 = g1
  i1 = i1
  p1 = p1
  w1 = w1
  w2 = w2
  id1 = id1
  id2 = id2
  cheap = cheap
  Users = {u1}
  InitialBalance <- Three
  NotCached = NotCached
  Requests = {}
  Adjustments = {}
  TopUps = {}
  Readers = {}
  UserOf <- PaidByU1
  RequestIDs = {id1, id2}
  RequestIDOf <- Retried
  Usage <- Calls3
  Models = {cheap}
  InputPrice <- Prices
  OutputPrice <- Prices
  MinChargeUnit = 2
  AmountOf <- Amounts
  BillingEnabled = TRUE
  DatabaseFails = FALSE
  Codes = {c1}
  Value <- Values
  Expiring = {}
  Redemptions = {k1, k2}
  Redeemer <- ToU1
  CodeOf <- OnCode
  Disablings = {}
  DisabledCode <- OffCode
  InviteCodes = {}
  NoCode = NoCode
  NoUser = NoUser
  CodeRequests = {}
  Invitations = {}
  Recharges = {}
  Transfers = {}
  Caller <- ForUser
  RegisterReward = 1
  Rebate <- OneEach
  Amount <- OneOut
  MinWithdrawal = 1
CHECK_DEADLOCK FALSE
INVARIANTS PaidOnce
