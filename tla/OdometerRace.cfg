SPECIFICATION Spec
CONSTANTS
    Proc = {p1, p2}
    Workshop = {w1}
    Plate = {b1}
    Km = {1, 2}
    Name = {}
    Photo = {}
    Confirm = {FALSE}
    MaxRecords = 4
    MaxAttachments = 2
    NoProc = NoProc
    NoName = NoName
    NoService = NoService
    NoRequest = NoRequest
PROPERTY LowerMileageRefused
CHECK_DEADLOCK FALSE
