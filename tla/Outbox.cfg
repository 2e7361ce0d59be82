SPECIFICATION FairSpec
CONSTANTS
    Flusher = {s1, s2}
    User = User
    File = {f1}
    MaxDrafts = 2
    MaxFlushes = 2
INVARIANT NothingLost
INVARIANT FilesTriedBeforeDeletion
INVARIANT PublishedOnceWhenCalm
INVARIANT DiscardedIsGoneWhenCalm
PROPERTY FlushEnds
CHECK_DEADLOCK FALSE
