SPECIFICATION FairSpec
CONSTANTS
    Plate = {p1, p2, p3}
    Registered = {p1, p2}
    NoPlate = NoPlate
    MaxSessions = 2
    MaxSearches = 2
    MaxTaps = 3
INVARIANT FormTypeOK
 
INVARIANT CorrectionsStayCorrections
INVARIANT ConfirmedAsAsked
PROPERTY SessionEndsForCause
PROPERTY SavingEnds
CHECK_DEADLOCK FALSE
