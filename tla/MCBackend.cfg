SPECIFICATION BackendSpec
CONSTANTS
  Interval <- Intervals
  MaxSlice = 2
  Slack = 1
  Jitter = 1
  Nap <- Naps
  Start <- Starts
  MaxClock = 12
  MaxBack = 2
  Amounts = {0, 250}
  Limits = {0, 50}
  Parts = {5}
  MaxList = 3
  MaxFiles = 2
  Provider = {"claude", "codex", "cursor", "managed-cursor", "factory", "grok", "kimi", "kiro"}
  Probe = {p1, p2}
  MaxLogin = 2
  MaxTool = 1
  UsageProbe = {p1, p2}
  MinFetchInterval = 1
  Cooldown = 1
  DefaultBackoff = 2
  MaxBackoff = 2
  RetryAfter = {0, 9}
  FirstMoment = 2
  LastMoment = 5
  CopilotProbe = {p1, p2}
  GhToken = {"t1", "t2"}
  CACHE_TTL = 4
  RETRY_AFTER_FAILURE = 2
  REFRESH_TICK = 1
  FileDate = {0, 4, 14}
  Gaps <- TheGaps
  LastTime = 12
  Query = {1, 2, 3}
  Shortcut = {"s1", "s2"}
  MaxPressed = 3
  Connection = {1, 2, 3}
  MAX_CONCURRENT_CONNECTIONS = 2
INVARIANTS
  DueSoon
  RefreshesKeepComing
  LoginKept
  EndpointIsSpared
  GoodLoginIsUsed
  OutageIsNotLogout
  
  PricesAreRenewed
  LoadsAreTheirOwn
  ShownIsRegistered
  SlotsAreGivenBack
PROPERTY NoEarlyRefresh
SYMMETRY Symmetry
\* A script returns, and the instants of the bound end.
CHECK_DEADLOCK FALSE
