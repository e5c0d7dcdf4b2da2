SPECIFICATION MCSpec
CONSTANTS
  d1 = d1  d2 = d2  j1 = j1  j2 = j2  s1 = s1  s2 = s2  u1 = u1  u2 = u2  sol = sol  msol = msol
  Daemons = {d1, d2}
  Jobs = {j1, j2}
  Ticks <- MCTicks
  UserOf <- MCUserOf
  Deployments <- MCDeployments
  Loads = {l1, l2}
  Tokens = {t1, t2}
  MaxMoves = 2
  SettingsMoves = 3
  Feeds = {"kraken"}
  StreamPairs = {sol, msol}
  Majors = {sol}
  Inside <- MCInside
  Listings = {{sol}}
  StallAge = 1  StaleAge = 1
  MaxRefs = 1  MaxReleases = 0  MaxFeedFaults = 0
  None = None  NoToken = NoToken
INVARIANT SealedUnderUsersKey
CHECK_DEADLOCK FALSE
