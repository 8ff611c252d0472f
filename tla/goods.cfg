CONSTANTS
    Goods = {g1, g2, other}
    Rows = {g1, g2}
    MaxInFlight = 3
SPECIFICATION Spec
INVARIANT ListIsOfSheet
INVARIANT DeleteHitsChosen
INVARIANT SentHasConfirmed
PROPERTY WaitingEnds
CHECK_DEADLOCK FALSE
