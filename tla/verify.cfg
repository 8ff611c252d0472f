CONSTANTS
    Users = {u1, u2}
    Single = {u1}
    MaxSearches = 2
    MaxAccepts = 3
    MaxVisits = 2
SPECIFICATION Spec
 
PROPERTY LoadingEnds
CHECK_DEADLOCK FALSE
