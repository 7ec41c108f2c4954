SPECIFICATION MCSpec
CONSTANTS
  c1 = c1
  c2 = c2
  c3 = c3
  Tasks = {t1}
  Calls = {c1, c2, c3}
  Wishes <- MCWishes
  AnyMode <- MCAnyMode
  Needs = {"session"}
  MaxChunks = 2
  MaxQueued = 2
  MaxRestarts = 1
INVARIANTS CancelVerdict AnswersAreWhole
PROPERTIES RowIsKept CancelAnswered
CHECK_DEADLOCK FALSE
