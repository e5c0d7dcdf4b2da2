SPECIFICATION MCFairSpec
CONSTANTS
  d1 = d1  d2 = d2  j1 = j1  j2 = j2  s1 = s1  s2 = s2  u1 = u1  u2 = u2  sol = sol  msol = msol
  Daemons = {d1, d2}
  Jobs = {j1, j2}
  Ticks <- MCTicks
  UserOf <- MCUserOf
  Deployments <- MCDeployments
  Loads = {l1, l2}
  Tokens = {t1, t2}
  MaxMoves = 2
  SettingsMoves = 3
  Feeds = {"kraken", "coinbase", "gemini"}
  StreamPairs = {sol, msol}
  Majors = {sol}
  Inside <- MCInside
  Listings = {{sol}}
  StallAge = 1  StaleAge = 1
  MaxRefs = 2  MaxReleases = 1  MaxFeedFaults = 2
  None = None  NoToken = NoToken
INVARIANTS MCTypeOK OneTickPerJob EnvIsTheUsers KeepsTokens StreamsInStep
PROPERTIES JobsKeepTicking LocksForCause InboxDrains StreamsResume
CHECK_DEADLOCK FALSE
