\* One quantization and two record writers race for a destination.
SPECIFICATION Spec
CONSTANTS
    w1 = w1  w2 = w2  w3 = w3
    Writers = {w1, w2, w3}
    Checking = {w1}
    None = None
    MaxLosses = 2
INVARIANTS
    TypeOK
    DestinationWhole
    AnswersTrue
PROPERTY Implements
CHECK_DEADLOCK FALSE
