SPECIFICATION Spec
CONSTANTS
    a = a
    b = b
    Early = Early
    None = None
    Slot = {a, b}
    Pages = {{a}, {a, b}}
    MaxDrops = 3
CHECK_DEADLOCK FALSE
INVARIANTS
    QuietFileIsMemory
    CropIsOfItsImage
PROPERTIES
    UntouchedSurvive
    ImagesOnlyNewer
    MemoryReachesFile
