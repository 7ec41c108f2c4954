SPECIFICATION MCSpec
CONSTANTS
  p1 = p1
  p2 = p2
  Starters <- MCStarters
  NoStarter = NoStarter
  Current = 5
  InitialDatabases <- MCInitialDatabases
  MaxFaults = 1
  Processes <- MCProcesses
  InitialFiles <- MCInitialFiles
  Sidecars = 2
  MaxReplaced = 1
INVARIANT SchemaTrue
PROPERTIES SchemaKept StartsInTheEnd ClosedInOrder FileIsPrivate
CHECK_DEADLOCK FALSE
