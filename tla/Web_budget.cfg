SPECIFICATION MCSpec
CONSTANTS
  i1 = i1  i2 = i2
  Invoices = {i1, i2}
  Legacy = {i2}
  Hooks = {r1, r2}
  Polls = {r2}
  MaxTime = 1
  Invites = {v1, v2}
  Settlers = {t1, t2}
  Cap = 1
  MaxFaults = 1  MaxFailed = 1
  InviteIds = {n1}  Accounts = {x1, x2}
  Handlers = {}  Quota = 1  MaxRedemptions = 1  MaxDropped = 0
  AgentOrders = {a1}
  WebCalls = {w1}
  Delivered = FALSE  Budget = 1  TokenBudget = 1  LastDay = 0
  MaxBuys = 1  MaxSwitches = 0  MaxSlips = 0
  WebFocuses = {"budget"}
  Amounts = {1}
  Ring = 2
  Venues = {"kraken", "coinbase"}
  Share = 5
  LimitPct = 20
  MaxSales = 3
  MaxDays = 2
  MaxStarts = 3
  OrderIds = {1, 2, 3}
  StaleOrders = {1, 2}
  OrderCost = 2
  NoBook = NoBook
  Tabs = {tab}  Shells = {shell}  ApiKeys = {key}  OauthKeys = {token}  LegacyKeys = {old}
  MaxSeals = 2  VaultMoves = 0  KeyBytes = 3
  Stocks = {"spy"}  Linkable = {"alpaca"}  StockPrices = {2}
  PerTradeUsd = 2  MaxPositionUsd = 3  PdtLimit = 1  PdtDays = 1  KeepDays = 2
  ExtendedHours = TRUE  EquityDays = 2  DayParts = 1  Closed = {}  EquityTicks = 0  Grants = {1}  MaxRenewals = 0
  Frames = {"entry"}  EntryPolls = 2  KeepBars = 4  KeepPending = 3  SnapLag = 0
  ChartUsers = {}  ChartBegin = 0  ChartEnd = 0  MaxCharts = 0  ChartStarts = 0  MaxFlushes = 0
  Readings <- MCReadings
  Browsers = {}  Subjects = {"sub"}  OwnAccounts = {}  Confirmed = {}
  FreshAccounts = {}  SignHandlers = {}  MaxStarts2 = 0
  Processes = {}  Calls = {}  CliUsers = {}  MaxTokens = 0
INVARIANT SpendWithinCap
CHECK_DEADLOCK FALSE
