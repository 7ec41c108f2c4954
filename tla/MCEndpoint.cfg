SPECIFICATION MCSpec
CONSTANTS
  Never = Never
  r1 = r1
  r2 = r2
  i1 = i1
  i2 = i2
  Prompts = {r1, r2}
  Owner <- OwnerOf
  Kind <- KindOf
  Identities = {i1, i2}
  Repliers = {p1, p2}
  Calls <- AllCalls
  RequestTTL = 1
  TombstoneTTL = 2
  MaxTime = 3
  DefaultLimit = 1
  MaxLimit = 2
  Base <- MCBase
  Links <- MCLinks
  Configs <- MCConfigs
  Requests <- MCRequests
  Replies <- MCReplies
SYMMETRY Symmetry
INVARIANTS RepliesSettle OpenUntilAnswered EffectsAllowed OutcomesTold ContractsHold
PROPERTY RefinesRegistry
CHECK_DEADLOCK FALSE
