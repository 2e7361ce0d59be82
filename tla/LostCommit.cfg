SPECIFICATION UploadSpec
CONSTANTS
    Proc = {p1, p2}
    Workshop = {w1}
    Plate = {b1}
    Km = {1}
    Name = {}
    Photo = {f1, f2}
    Confirm = {TRUE}
    MaxRecords = 2
    MaxAttachments = 1
    NoProc = NoProc
    NoName = NoName
    NoService = NoService
    NoRequest = NoRequest
    Reliable = FALSE
    NoUpload = NoUpload
INVARIANT OnlyOrphansRemoved
CHECK_DEADLOCK FALSE
