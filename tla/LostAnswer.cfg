SPECIFICATION Spec
CONSTANTS
    Flusher = {s1}
    User = User
    File = {}
    MaxDrafts = 2
    MaxFlushes = 2
INVARIANT AcceptedIsRemoved
CHECK_DEADLOCK FALSE
