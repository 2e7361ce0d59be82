SPECIFICATION FairSpec
CONSTANTS
    Proc = {p1, p2}
    Workshop = {w1, w2}
    Plate = {b1}
    Km = {1}
    Name = {n1}
    Photo = {f1, f2}
    Confirm = {TRUE, FALSE}
    MaxRecords = 3
    MaxAttachments = 1
    NoProc = NoProc
    NoName = NoName
    NoService = NoService
    NoRequest = NoRequest
INVARIANT ChainsNeverFork
INVARIANT CapHolds
PROPERTY AppendOnly
PROPERTY CorrectionReplaces
PROPERTY PhotosCarried
PROPERTY RequestsEnd
PROPERTY ImplementsHistory
CHECK_DEADLOCK FALSE
