SPECIFICATION MCSpec
CONSTANTS
  i1 = i1  i2 = i2
  Invoices = {i1, i2}
  Legacy = {i2}
  Hooks = {r1}
  Polls = {r2}
  MaxTime = 1
  Invites = {v1, v2}
  Settlers = {t1, t2}
  Cap = 1
  MaxFaults = 1  MaxFailed = 1
  InviteIds = {n1, n2}  Accounts = {x1, x2}
  Handlers = {h1, h2}  Quota = 1  MaxRedemptions = 2  MaxDropped = 1
  AgentOrders = {a1}
  WebCalls = {w1}
  Delivered = FALSE  Budget = 1  TokenBudget = 1  LastDay = 1
  MaxBuys = 1  MaxSwitches = 1  MaxSlips = 1
  WebFocuses = {"billing", "invites", "credits", "budget", "books", "quote", "sizing", "vault", "stocks", "links", "charts", "verdicts", "sign-in", "command"}
  Amounts = {1}
  Ring = 2
  Venues = {"kraken", "coinbase"}
  Share = 5
  LimitPct = 20
  MaxSales = 3
  MaxDays = 2
  MaxStarts = 3
  OrderIds = {1, 2, 3}
  StaleOrders = {1, 2}
  OrderCost = 2
  NoBook = NoBook
  Tabs = {tab}  Shells = {shell}  ApiKeys = {key}  OauthKeys = {token}  LegacyKeys = {old}
  MaxSeals = 3  VaultMoves = 3  KeyBytes = 3
  Stocks = {"spy"}  Linkable = {"alpaca", "tradestation"}  StockPrices = {2}
  PerTradeUsd = 2  MaxPositionUsd = 3  PdtLimit = 1  PdtDays = 2  KeepDays = 3
  ExtendedHours = TRUE  EquityDays = 4  DayParts = 2  Closed = {3}  EquityTicks = 4  Grants = {1, 2}  MaxRenewals = 2
  Frames = {"entry"}  EntryPolls = 2  KeepBars = 4  KeepPending = 3  SnapLag = 0
  ChartUsers = {u1}  ChartBegin = 0  ChartEnd = 4  MaxCharts = 2  ChartStarts = 1  MaxFlushes = 1
  Readings <- MCReadings
  Browsers = {"phone"}  Subjects = {"sub"}  OwnAccounts = {"ann"}  Confirmed = {"ann"}
  FreshAccounts = {"new1", "new2"}  SignHandlers = {sh1, sh2}  MaxStarts2 = 2
  Processes = {"tui", "command"}  Calls = {"c1", "c2"}  CliUsers = {"ann"}  MaxTokens = 2
INVARIANTS MCTypeOK PaymentsAddUp BonusesHold CreditsScarce MCBooksHonest  MCEquitiesSound MCSignalsSound MCSignInSound SpendAccounted
CHECK_DEADLOCK FALSE
