SPECIFICATION Spec
CONSTANTS
  Payments = {p1, p2}
  OrderIDs = {o1, o2}
  ThirdIDs = {t1, t2}
  Blank = Blank
  NullID = NullID
  Calls = {c1, c2}
  AmountDue <- Two
  RefundAmounts = {0, 1}
  Keys = {k1, k2}
  Hashes = {h1, h2}
  Validations = {v1, v2}
  KeyCalls = {d1, d2}
  Expiries = {0, 2}
  LastHour = 1
  NoRow = NoRow
  Arrivals = {q1, q2, q3, q4}
  WindowSeconds = 2
  MaxRequests = 2
  LastSecond = 4
  b1 = b1
  b2 = b2
  b3 = b3
  j1 = j1
  j2 = j2
  i1 = i1
  Chats = {b1, b2, b3}
  Adjusts = {j1, j2}
  IdemKeys = {i1}
  NoKey = NoKey
  KeyOf <- SharedKey
  PriceOf <- Prices
  InitialCred = 3
  Unlocked = Unlocked
SYMMETRY Interchangeable
CHECK_DEADLOCK FALSE
INVARIANTS AccountTypeOK OnePaidPerOrder PendingIsUnidentified RefundsAreBacked CacheFollowsRow RefusedUntilReopened CredBacked RetryIsFree
