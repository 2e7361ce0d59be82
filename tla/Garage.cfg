SPECIFICATION Spec
CONSTANTS
    t1 = t1
    t2 = t2
    p1 = p1
    None = None
    Task = {t1, t2}
    Plate = {p1}
    MaxKm = 2
    MaxBikes = 2
    MaxNotes = 2
INVARIANTS
    GarageTypeOK
    QuietMeansDisk
    NotesStayWithTheirBike
    ScreenHasItsBike
PROPERTIES
    OdometerRises
    TasksEnd
