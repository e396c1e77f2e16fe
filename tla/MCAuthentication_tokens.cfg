SPECIFICATION MCSpec
CONSTANTS
  Reqs = {r1, r2}
  Bearers = {t1, t2, a1}
  NoBearer = NoBearer
  AccessTokens = {a1}
  Users = {alice, anonymous}
  NoUser = NoUser
  Anonymous = anonymous
  Lifetime = 2
  MaxTime = 3
  Oidc = TRUE
  Threads = {th1, th2, th3}
  Main = Main
  NoThread = NoThread
  MaxEdits = 3
  Requests = {q1, q2}
  Nobody = Nobody
  NoToken = NoToken
  Secret = "key secret"
  Tokens <- Presented
  KeySets <- JwkSets
INVARIANTS
  TypesOK
  ServesMappings
  AcceptedIsVouched
  RefusedForAReason
PROPERTIES
  ImplementsPromise
  ExpiredGoes
  NeverBack
  Reloads
  EveryTokenAnswered
CHECK_DEADLOCK FALSE
