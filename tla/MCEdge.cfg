SPECIFICATION MCSpec
CONSTANTS
  Slots = {1, 2, 3, 4, 5, 6}
  Requests <- MCRequests
  Credentials <- MCCredentials
  AllowedOrigins <- MCOrigins
  PublicSite = "home"
  AllowedHosts <- MCHosts
  BodyLimit = 2
  LogPayloads = TRUE
  LogLimit = 2
  RateLimitEnabled = TRUE
  MaxRequests = 2
  Window = 2
  MaxKeys = 2
  MaxTime = 3
  MaxBytes = 5
  MaxDuration = 4
  IdleTimeout = 2
  Sizes = {1, 2, 3}
  Hold = 2
  StreamTime = 12
INVARIANTS RequestsCleared QuotaIsFair StreamWithinBudget
PROPERTY SilenceEnds
CHECK_DEADLOCK FALSE
