SPECIFICATION UploadSpec
CONSTANTS
    Proc = {p1, p2, p3}
    Workshop = {w1}
    Plate = {b1}
    Km = {1, 2}
    Name = {}
    Photo = {f1, f2, f3}
    Confirm = {TRUE, FALSE}
    MaxRecords = 2
    MaxAttachments = 1
    NoProc = NoProc
    NoName = NoName
    NoService = NoService
    NoRequest = NoRequest
    Reliable = FALSE
    NoUpload = NoUpload
SYMMETRY Interchangeable
INVARIANT SavedIsKept
INVARIANT SavedIsListed
INVARIANT ShownIsStored
INVARIANT NoOrphans
CHECK_DEADLOCK FALSE
