\* A user whose key may hold a foreign row, one reserved, two hooks that overlap.
\* Two candidates under a budget of one, two requests.
\* One redemption for two browsers, an invitation that ends before the campaign.
CONSTANTS
  Users = {u1, u2}
  Reserved = {u2}
  Legacy = {u1}
  Hooks = {h1, h2}
  MaxFaults = 1
  MaxChanges = 1
  Nobody = Nobody
  Candidates = {c1, c2}
  Tokens = {t1}
  Shops = {s1}
  SelectOps = {o1}
  Requests = {p1, p2}
  Cleaners = {q1}
  None = None
  Lifetime = 1
  Window = 2
  Limit = 1
  Grace = 2
  InvocationLimit = 2
  LastRequest = 2
  MaxClock = 6
  Browsers = {b1, b2}
  Redemptions = 1
  InviteEnd = 4
  Campaign = 5
  Duration = 2
  TokenLife = 2
  MaxTime = 5
  MaxOperator = 1
  Nothing = Nothing
SPECIFICATION AccessSpec
INVARIANTS EnrolmentSound SecretsSafe ConnectionSound SessionsHold
PROPERTIES EnrolledAtLast SetupSettles
CHECK_DEADLOCK FALSE
