\* Two runs over two people are enough for every race and for a circular wait.
CONSTANTS
    Employees = {1, 2}
    Runs = {r1, r2}
    Amounts = {1, 2, 3}
    Percents <- MCPercents
    Raised <- MCRaised
    Refused = Refused
    Hired <- MCHired
    Offer <- MCOffer
    MaxDay = 2
    FirstId = 3
    LastId = 5
    NoPercent = 0
SPECIFICATION Spec
SYMMETRY Interchangeable
INVARIANTS
    TypeOK
    RaisedOnce
    AllOrNothing
    RepeatIsRecognised
    NoDeadlock
PROPERTY ImplementsLedger
CHECK_DEADLOCK FALSE
