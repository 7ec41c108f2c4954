SPECIFICATION MCSpec
CONSTANTS
  None = None
  u1 = u1
  u2 = u2
  b1 = b1
  b2 = b2
  b3 = b3
  c1 = c1
  c2 = c2
  c3 = c3
  Callers <- MCCallers
  Operations <- MCOperations
  Limit <- MCLimit
  Directory = "root"
  Directories <- MCScopes
  Workspaces <- MCScopes
  ExtraKeys = {"directory", "workspace", "limit"}
  LineKinds = {"blank", "comment", "other", "data_object", "data_head", "data_tail", "data_empty", "data_number"}
  MaxLines = 5
  Urls <- MCUrls
  Calls <- MCCalls
  MaxSize = 1
  TTL = 1
  MaxClients = 3
  MaxTime = 1
  InitialInterval = 1
  MaxInterval = 5
  Multiplier = 2
  Timeout = 9
  Enabled = TRUE
  SendTime = 2
  Latency = 2
  Jitter = 1
INVARIANTS BudgetsKept ClientsKept PollingTells
PROPERTIES ExchangeFaithful OutboundEnds
CHECK_DEADLOCK FALSE
