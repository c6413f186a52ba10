SPECIFICATION MCSpec
CONSTANTS
  Names = {n1, n2}
  Tokens = {t1, t2}
  Keys = {k1}
  Requests = {r1, r2}
  Root = Root
  MaxEdits = 2
  alice = alice
  bob = bob
  Name = {alice, bob}
  Key = {p1, p2}
  Secret = {s1, s2}
  Ceremony = {i1, i2}
  Client = {d1, d2}
  Password <- OnePassword
  Policy <- TwoPolicies
  MaxCeremonies = 1
  Trimmed = 1
  MaxStep = 1
  MaxChanges = 3
  Token <- FiveTokens
  Feature = {"backup"}
  Addr = {"conn1", "conn2"}
  Account = {n1, n2}
  Handler = {r1, r2}
  Limit = 3
  Period = 1
  MaxAttempts = 2
  Window = 1
  Ban = 3
  Thresholds <- OneThreshold
  MaxTicks = 2
  MaxLogins = 6
  MaxActs = 1
  MaxTime = 4
  MaxAdmin = 3
SYMMETRY Symmetry
INVARIANTS RolesEarned ChallengeOnce EditsKept SecretProven GuessesLimited TakesEffect
CHECK_DEADLOCK FALSE
