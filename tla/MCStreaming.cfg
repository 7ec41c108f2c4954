SPECIFICATION FairSpec
CONSTANTS
    None = None
    t1 = t1
    t2 = t2
    x = x
    a = a
    b = b
    Tokens = {a, b}
    Blank = b
    UserText <- MCUserText
    Turns <- MCTurns
INVARIANTS TextDelivered StreamedText EventsInOrder
PROPERTY TurnEnds
CHECK_DEADLOCK FALSE
