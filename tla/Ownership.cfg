SPECIFICATION Spec
CONSTANTS
    Proc = {p1, p2}
    Screen = {s1, s2}
    Owner = {o1, o2}
    Plate = {b1}
    End = {e1, e2}
    MaxChanges = 3
    NoProc = NoProc
    NoScreen = NoScreen
    NoOwner = NoOwner
    NoPlate = NoPlate
    NoEnd = NoEnd
    NoRequest = NoRequest
    NoAnswer = NoAnswer
SYMMETRY Interchangeable
INVARIANT ReadYourWrites
PROPERTY NeverTaken
PROPERTY ReadsMoveForward
CHECK_DEADLOCK FALSE
