------------------------------- MODULE Garage -------------------------------
(***************************************************************************)
(* The bikes and notes a rider keeps on the phone                          *)
(* (mobile/lib/storage/garage_store.dart), under the screens that edit     *)
(* them (rider/garage_screen.dart, rider/maintenance_notes_screen.dart):   *)
(* a list in memory over two SQLite tables.                                *)
(*                                                                         *)
(* The screens start a task without waiting for the one before it.  SQLite *)
(* answers the calls of the app one after the other, in the order they     *)
(* were made (a transaction is one of them), and a task that has its       *)
(* answer makes its next call before the rider can touch anything.  So a   *)
(* call and what its task does with the answer are one action, of the task *)
(* at the head of the queue.                                               *)
(***************************************************************************)
EXTENDS Naturals, Sequences, FiniteSets

CONSTANTS
    Task,               \* operations under way at a time
    Plate,
    MaxKm, MaxBikes, MaxNotes,
    None

ASSUME GarageAssumption ==
    /\ MaxKm \in Nat /\ MaxBikes \in Nat /\ MaxNotes \in Nat
    /\ Plate # {}

VARIABLES
    bikes,              \* table bikes, by id
    made,               \* bikes inserted so far: the last id AUTOINCREMENT gave
    notes,              \* table maintenance_notes, by id
    written,            \* notes inserted so far
    list,               \* _bikes: the rows of the last load
    loaded,             \* _loaded
    missed,             \* the last load failed
    queue,              \* tasks waiting for SQLite, in the order of their calls
    job,                \* what each task is doing
    alone,              \* a copy that has had the garage to itself since it started
    screen              \* the notes screen, when it is open

disk == <<bikes, made, notes, written>>

memory == <<list, loaded, missed>>

vars == <<disk, memory, queue, job, alone, screen>>

Km == 0..MaxKm
BikeId == 1..MaxBikes
NoteId == 1..MaxNotes

\* A LocalBike; born tells apart the bikes that had one id.
Bike == [id: BikeId, plate: Plate, km: Km, born: BikeId]

\* One not on the phone yet has no id.
Given == [id: 0..MaxBikes, plate: Plate, km: Km, born: 0..MaxBikes]

\* A mileage of 0 stands for none.
Note == [bike: BikeId, km: Km, born: BikeId]

Job == [op: {"load", "add", "edit", "copy", "remove", "open", "note", "unnote"},
        at: {"first", "write", "list", "notes"},
        bike: Given, note: 0..MaxNotes, here: BOOLEAN]

\* The notes screen, as NotesScreen makes it.
Screen == [bike: Bike, calm: BOOLEAN, km: Km, shown: [NoteId -> Note \cup {None}], fresh: BOOLEAN]

ASSUME NoneAssumption ==
    None \notin Bike /\ None \notin Note /\ None \notin Job /\ None \notin Screen

NoBikes == [i \in BikeId |-> None]
NoNotes == [n \in NoteId |-> None]

Rows(table) == {table[i] : i \in BikeId} \ {None}

The(one) == CHOOSE x \in one : TRUE

WithPlate(table, p) == {b \in Rows(table) : b.plate = p}

NotesOf(i) ==
    [n \in NoteId |-> IF notes[n] # None /\ notes[n].bike = i THEN notes[n] ELSE None]

Init ==
    /\ bikes = NoBikes /\ made = 0
    /\ notes = NoNotes /\ written = 0
    /\ list = NoBikes /\ loaded = FALSE /\ missed = FALSE
    /\ queue = <<>>
    /\ job = [t \in Task |-> None]
    /\ alone = {}
    /\ screen = None

Quiet == \A t \in Task : job[t] = None

Fresh == Quiet /\ ~missed

----------------------------------------------------------------------------
(* What the screens start.                                                 *)

\* Bounds: every task under way may insert a bike, and a note.
RoomFor(count, max) ==
    \E k \in 0..max : k = count /\ Len(queue) < max - k

Start(t, j) ==
    /\ job[t] = None
    /\ job' = [job EXCEPT ![t] = j]
    /\ queue' = Append(queue, t)
    /\ alone' = IF Fresh /\ j.op = "copy" THEN {t} ELSE {}
    /\ UNCHANGED <<disk, memory>>

Doing(op, at, bike) ==
    [op |-> op, at |-> at, bike |-> bike, note |-> 0, here |-> FALSE]

Anything == [id |-> 0, plate |-> The(Plate), km |-> 0, born |-> 0]

EnsureLoaded(t) ==
    /\ ~loaded
    /\ Start(t, Doing("load", "list", Anything))
    /\ UNCHANGED screen

\* _editLocalBike: the dialog gives a plate and a mileage.
AddBike(t) ==
    /\ screen = None /\ RoomFor(made, MaxBikes)
    /\ \E p \in Plate, km \in Km :
          Start(t, Doing("add", "write", [id |-> 0, plate |-> p, km |-> km, born |-> 0]))
    /\ UNCHANGED screen

EditBike(t) ==
    /\ screen = None
    /\ \E b \in Rows(list), p \in Plate, km \in Km :
          Start(t, Doing("edit", "write", [b EXCEPT !.plate = p, !.km = km]))
    /\ UNCHANGED screen

RemoveBike(t) ==
    /\ screen = None
    /\ \E b \in Rows(list) : Start(t, Doing("remove", "write", b))
    /\ UNCHANGED screen

Opening == [Doing("open", "notes", Anything) EXCEPT !.here = TRUE]

\* calm tells whether nothing else was going on when the screen opened, and
\* km what its bike then had to have.
NotesScreen(b, km, calm) ==
    [bike |-> [b EXCEPT !.km = 0], calm |-> calm, km |-> IF calm THEN km ELSE 0,
     shown |-> NoNotes, fresh |-> FALSE]

\* A tap on the tile of a bike of the phone.
OpenNotes(t) ==
    /\ screen = None
    /\ \E b \in Rows(list) :
          /\ Start(t, Opening)
          /\ screen' = NotesScreen(b, b.km, Fresh)

\* A bug kept for comparison: a copy that exists is taken as it is.
AheadNever(b, existing) == FALSE

Ahead(b, existing) == b.km > existing.km

\* localCopy, once the list is loaded: a copy that needs nothing, or else the
\* row to write.
UpToDate(table, b) == {e \in WithPlate(table, b.plate) : ~Ahead(b, e)}

Copied(table, b) ==
    IF WithPlate(table, b.plate) = {} THEN b
    ELSE [The(WithPlate(table, b.plate)) EXCEPT !.km = b.km]

\* _openNotes: a tap on the tile of a bike of the account.
OpenAccountBike(t) ==
    /\ screen = None /\ RoomFor(made, MaxBikes)
    /\ \E p \in Plate, km \in Km :
          LET b == [id |-> 0, plate |-> p, km |-> km, born |-> 0] IN
          \/ /\ ~loaded
             /\ Start(t, Doing("copy", "first", b))
             /\ UNCHANGED screen
          \/ /\ loaded /\ UpToDate(list, b) = {}
             /\ Start(t, Doing("copy", "write", Copied(list, b)))
             /\ UNCHANGED screen
          \/ /\ loaded
             /\ \E e \in UpToDate(list, b) :
                   /\ Start(t, Opening)
                   /\ screen' = NotesScreen(e, km, Fresh)

\* _edit: a note that is new, or one the screen shows.
EditNote(t) ==
    /\ screen # None /\ RoomFor(written, MaxNotes)
    /\ \E n \in 0..MaxNotes, km \in Km :
          /\ n = 0 \/ (n \in NoteId /\ screen.shown[n] # None)
          /\ Start(t, [Doing("note", "write", [screen.bike EXCEPT !.km = km])
                          EXCEPT !.note = n, !.here = TRUE])
    /\ UNCHANGED screen

RemoveNote(t) ==
    /\ screen # None
    /\ \E n \in {m \in NoteId : screen.shown[m] # None} :
          Start(t, [Doing("unnote", "write", screen.bike) EXCEPT !.note = n, !.here = TRUE])
    /\ UNCHANGED screen

\* A bug kept for comparison: its tasks end with the screen, their calls do not.
LeaveCancels ==
    /\ screen # None
    /\ screen' = None
    /\ job' = [t \in Task |-> IF job[t] # None /\ job[t].here THEN None ELSE job[t]]
    /\ UNCHANGED <<disk, memory, queue, alone>>

\* Back: the tasks of the screen go on and find it unmounted.
Leave ==
    /\ screen # None
    /\ screen' = None
    /\ job' = [t \in Task |-> IF job[t] = None THEN None ELSE [job[t] EXCEPT !.here = FALSE]]
    /\ UNCHANGED <<disk, memory, queue, alone>>

----------------------------------------------------------------------------
(* What SQLite answers, to the task at the head of the queue.              *)

At(t, ops, at) ==
    /\ queue # <<>> /\ t = Head(queue)
    /\ job[t].op \in ops /\ job[t].at = at

Become(t, j) ==
    /\ job' = [job EXCEPT ![t] = j]
    /\ queue' = Append(Tail(queue), t)
    /\ UNCHANGED alone

\* A task that has written forgets what (a copy goes on to find its bike).
Then(t, at) ==
    Become(t, [job[t] EXCEPT !.at = at, !.note = 0,
                             !.bike = IF job[t].op = "copy" THEN @ ELSE Anything])

Ends(t) ==
    /\ job' = [job EXCEPT ![t] = None]
    /\ queue' = Tail(queue)
    /\ alone' = alone \ {t}

\* A screen that is gone asks for nothing more.
ThenNotes(t) == IF job[t].here THEN Then(t, "notes") ELSE Ends(t)

\* A bug kept for comparison: ids of removed bikes are given again.
LowestFree == CHOOSE i \in BikeId : bikes[i] = None /\ \A k \in 1..i - 1 : bikes[k] # None

NextId == made + 1

\* UNIQUE (plate).
PlateTaken(b) == \E other \in Rows(bikes) : other.plate = b.plate /\ other.id # b.id

Inserted(b) ==
    /\ bikes' = [bikes EXCEPT ![NextId] = [b EXCEPT !.id = NextId, !.born = made + 1]]
    /\ made' = made + 1

\* An UPDATE whose bike is gone changes no row.
Updated(b) ==
    /\ bikes' = IF bikes[b.id] = None THEN bikes
                ELSE [bikes EXCEPT ![b.id].plate = b.plate, ![b.id].km = b.km]
    /\ UNCHANGED made

SaveBike(t) ==
    LET b == job[t].bike IN
    /\ At(t, {"add", "edit", "copy"}, "write")
    /\ IF PlateTaken(b)
       THEN Ends(t) /\ UNCHANGED <<bikes, made>>
       ELSE Then(t, "list") /\ IF b.id = 0 THEN Inserted(b) ELSE Updated(b)
    /\ UNCHANGED <<notes, written, memory, screen>>

AfterRemove(t) == Then(t, "list")

DeleteBike(t) ==
    LET i == job[t].bike.id IN
    /\ At(t, {"remove"}, "write")
    /\ bikes' = [bikes EXCEPT ![i] = None]
    /\ notes' = [n \in NoteId |-> IF NotesOf(i)[n] = None THEN notes[n] ELSE None]
    /\ AfterRemove(t)
    /\ UNCHANGED <<made, written, memory, screen>>

\* The notes after a note was saved: an INSERT, or an UPDATE of what is there.
NoteSaved(j) ==
    LET n == IF j.note = 0 THEN written + 1 ELSE j.note IN
    IF j.note # 0 /\ notes[n] = None THEN notes
    ELSE [notes EXCEPT ![n] = [bike |-> j.bike.id, km |-> j.bike.km, born |-> j.bike.born]]

\* UPDATE bikes ... WHERE id = ? AND mileage_km < ?
Raised(i, km) ==
    IF bikes[i] # None /\ bikes[i].km < km THEN [bikes EXCEPT ![i].km = km] ELSE bikes

\* A bug kept for comparison: the list keeps the old mileage.
AfterNoteNoList(t) == ThenNotes(t)

AfterNote(t) == Then(t, "list")

\* A bug kept for comparison: load() is awaited inside the transaction, and each
\* waits for the other.
WriteNoteInside(t) == At(t, {"note"}, "write") /\ UNCHANGED vars

\* saveNote: one transaction; the bike a new note names must exist.
WriteNote(t) ==
    LET j == job[t] IN
    /\ At(t, {"note"}, "write")
    /\ IF j.note = 0 /\ bikes[j.bike.id] = None
       THEN Ends(t) /\ UNCHANGED disk
       ELSE /\ notes' = NoteSaved(j)
            /\ written' = IF j.note = 0 THEN written + 1 ELSE written
            /\ bikes' = Raised(j.bike.id, j.bike.km)
            /\ AfterNote(t)
            /\ UNCHANGED made
    /\ UNCHANGED <<memory, screen>>

\* A bug kept for comparison: the screen does not load its notes again.
AfterUnnoteNothing(t) == Ends(t)

AfterUnnote(t) == ThenNotes(t)

DeleteNote(t) ==
    /\ At(t, {"unnote"}, "write")
    /\ notes' = [notes EXCEPT ![job[t].note] = None]
    /\ AfterUnnote(t)
    /\ UNCHANGED <<bikes, made, written, memory, screen>>

Loaded ==
    /\ list' = bikes /\ loaded' = TRUE /\ missed' = FALSE
    /\ UNCHANGED disk

ListBikes(t) ==
    /\ At(t, {"load", "add", "edit", "remove", "note"}, "list")
    /\ Loaded
    /\ IF job[t].op = "note" THEN ThenNotes(t) ELSE Ends(t)
    /\ UNCHANGED screen

\* The garage shows the notes of the bike, unless it was left.
Show(t, b, km) ==
    \/ /\ screen = None
       /\ screen' = NotesScreen(b, km, t \in alone)
       /\ Become(t, Opening)
    \/ Ends(t) /\ UNCHANGED screen

CopyLoads(t) ==
    LET b == job[t].bike IN
    /\ At(t, {"copy"}, "first")
    /\ Loaded
    /\ IF UpToDate(bikes, b) # {}
       THEN Show(t, The(UpToDate(bikes, b)), b.km)
       ELSE Become(t, Doing("copy", "write", Copied(bikes, b))) /\ UNCHANGED screen

CopyFound(t) ==
    LET b == job[t].bike
        found == WithPlate(bikes, b.plate)
    IN
    /\ At(t, {"copy"}, "list")
    /\ Loaded
    /\ IF found = {} THEN Ends(t) /\ UNCHANGED screen
       ELSE Show(t, The(found), b.km)

ReadNotes(t) ==
    /\ At(t, {"open", "note", "unnote"}, "notes")
    /\ Ends(t)
    /\ screen' = IF job[t].here
                 THEN [screen EXCEPT !.shown = NotesOf(screen.bike.id), !.fresh = TRUE]
                 ELSE screen
    /\ UNCHANGED <<disk, memory>>

\* A call fails (a full or broken disk): the rider is told, and what the task
\* would have done next is not done.
CallFails(t) ==
    /\ queue # <<>> /\ t = Head(queue)
    /\ Ends(t)
    /\ missed' = (missed \/ job[t].at \in {"first", "list"})
    /\ screen' = IF job[t].here /\ job[t].at # "write"
                 THEN [screen EXCEPT !.fresh = FALSE] ELSE screen
    /\ UNCHANGED <<disk, list, loaded>>

\* The app is killed: what SQLite has stays.
Restart ==
    /\ list' = NoBikes /\ loaded' = FALSE /\ missed' = FALSE
    /\ queue' = <<>>
    /\ job' = [t \in Task |-> None]
    /\ alone' = {}
    /\ screen' = None
    /\ UNCHANGED disk

Answered(t) ==
    \/ SaveBike(t) \/ DeleteBike(t) \/ WriteNote(t) \/ DeleteNote(t)
    \/ ListBikes(t) \/ CopyLoads(t) \/ CopyFound(t) \/ ReadNotes(t)

Next ==
    \/ \E t \in Task :
          \/ EnsureLoaded(t) \/ AddBike(t) \/ EditBike(t) \/ RemoveBike(t)
          \/ OpenNotes(t) \/ OpenAccountBike(t) \/ EditNote(t) \/ RemoveNote(t)
          \/ Answered(t) \/ CallFails(t)
    \/ Leave \/ Restart

\* SQLite answers every call, or fails it.
Spec == Init /\ [][Next]_vars /\ WF_vars(\E t \in Task : Answered(t))

----------------------------------------------------------------------------
GarageTypeOK ==
    /\ bikes \in [BikeId -> Bike \cup {None}] /\ made \in 0..MaxBikes
    /\ notes \in [NoteId -> Note \cup {None}] /\ written \in 0..MaxNotes
    /\ list \in [BikeId -> Bike \cup {None}]
    /\ loaded \in BOOLEAN /\ missed \in BOOLEAN
    /\ queue \in Seq(Task)
    /\ \A i, k \in 1..Len(queue) : queue[i] = queue[k] => i = k
    /\ job \in [Task -> Job \cup {None}]
    /\ \A t \in Task : job[t] # None <=> \E i \in 1..Len(queue) : queue[i] = t
    /\ alone \subseteq Task
    /\ screen # None =>
          /\ screen.bike \in Bike /\ screen.km \in Km
          /\ screen.shown \in [NoteId -> Note \cup {None}]
          /\ screen.calm \in BOOLEAN /\ screen.fresh \in BOOLEAN

\* When no task is under way, the list is what SQLite has: loads that overlap,
\* writes between them and tasks that fail half-way leave it behind only when
\* the last load itself failed.
\* And the notes screen then shows the notes SQLite has of its bike.
QuietMeansDisk ==
    /\ Fresh /\ loaded => list = bikes
    /\ Quiet /\ screen # None /\ screen.fresh => screen.shown = NotesOf(screen.bike.id)

\* A note is of the bike whose screen it was written on, and goes with it,
\* whatever was removed and added while that screen was open.
NotesStayWithTheirBike ==
    \A n \in NoteId : notes[n] # None =>
        bikes[notes[n].bike] # None /\ bikes[notes[n].bike].born = notes[n].born

\* A screen opened when nothing else was going on is of a bike of the phone,
\* whose odometer has followed the account's and the notes'.
ScreenHasItsBike ==
    screen # None /\ screen.calm =>
        /\ bikes[screen.bike.id] # None
        /\ bikes[screen.bike.id].plate = screen.bike.plate
        /\ bikes[screen.bike.id].born = screen.bike.born
        /\ bikes[screen.bike.id].km >= screen.km

\* A kept odometer goes down when the rider types a lower one, and otherwise
\* only by a copy of an account's bike that overlapped another task, or came
\* after a load that failed: localCopy decides on the list, and then writes over
\* whatever the table has by then.
OdometerRises ==
    [][\A i \in BikeId :
          bikes[i] # None /\ bikes'[i] # None /\ bikes'[i].km < bikes[i].km
          => LET t == Head(queue) IN
             job[t].op = "edit" \/ (job[t].op = "copy" /\ t \notin alone)]_vars

----------------------------------------------------------------------------
(* The strengthening the proofs carry.                                     *)

\* What each operation waits for, in turn.
Stages ==
    {<<"load", "list">>, <<"add", "write">>, <<"add", "list">>,
     <<"edit", "write">>, <<"edit", "list">>, <<"remove", "write">>, <<"remove", "list">>,
     <<"copy", "first">>, <<"copy", "write">>, <<"copy", "list">>,
     <<"open", "notes">>, <<"note", "write">>, <<"note", "list">>, <<"note", "notes">>,
     <<"unnote", "write">>, <<"unnote", "notes">>}

WellFormed(j) ==
    /\ <<j.op, j.at>> \in Stages
    /\ j.bike.born = j.bike.id
    /\ j.op = "add" \/ j.at = "first" => j.bike.id = 0
    /\ j.at = "write" /\ j.op \notin {"add", "copy"} => j.bike.id # 0
    /\ j.at = "write" /\ j.op = "unnote" => j.note # 0
    /\ j.here => j.op \in {"open", "note", "unnote"}

\* The table keeps room for what the tasks under way insert.
InsertsBike(j) == j.op \in {"add", "copy"} /\ j.at \in {"first", "write"}

InsertsNote(j) == j.op = "note" /\ j.at = "write" /\ j.note = 0

Busy == {t \in Task : job[t] # None}

RoomLeft ==
    /\ IsFiniteSet(Busy) /\ Cardinality(Busy) = Len(queue)
    /\ made + Cardinality({t \in Busy : InsertsBike(job[t])}) <= MaxBikes
    /\ written + Cardinality({t \in Busy : InsertsNote(job[t])}) <= MaxNotes

\* An id is given once, and a plate is of one bike.
Numbered(table) == \A i \in BikeId : table[i] # None => table[i].id = i /\ table[i].born = i

BikesInv ==
    /\ Numbered(bikes) /\ Numbered(list)
    /\ \A i \in BikeId : bikes[i] # None => i <= made
    /\ \A i, k \in BikeId :
          bikes[i] # None /\ bikes[k] # None /\ bikes[i].plate = bikes[k].plate => i = k
    /\ screen # None => screen.bike.born = screen.bike.id

\* A note stays with the bike it was written for, and so does what a screen
\* shows, or a task is about to write again.
Belongs(n, i) == n <= written /\ (notes[n] # None => notes[n].bike = i)

NotesInv ==
    /\ \A n \in NoteId : notes[n] # None =>
          /\ n <= written /\ notes[n].born = notes[n].bike
          /\ bikes[notes[n].bike] # None
    /\ \A t \in Busy : job[t].op = "note" /\ job[t].note # 0 =>
          Belongs(job[t].note, job[t].bike.id)
    /\ screen # None =>
          \A n \in NoteId : screen.shown[n] # None => Belongs(n, screen.bike.id)

\* A copy that has the garage to itself finds the table as it left it.
AloneInv ==
    \A t \in alone :
        /\ Busy = {t}
        /\ job[t].op = "copy" /\ job[t].at = "write" /\ job[t].bike.id # 0 =>
              /\ bikes[job[t].bike.id] # None
              /\ bikes[job[t].bike.id].plate = job[t].bike.plate
              /\ bikes[job[t].bike.id].km <= job[t].bike.km
        /\ job[t].op = "copy" /\ job[t].at = "list" =>
              \E i \in BikeId : /\ bikes[i] # None
                               /\ bikes[i].plate = job[t].bike.plate
                               /\ bikes[i].km = job[t].bike.km

\* Under a screen that opened in quiet no task edits or removes bikes.
CalmInv ==
    screen # None /\ screen.calm =>
        \A t \in Busy : job[t].op \in {"load", "open", "note", "unnote"}

\* A list that is behind has a load to come.
ListInv ==
    /\ ~loaded => list = NoBikes
    /\ loaded /\ ~missed /\ list # bikes => \E t \in Busy : job[t].at = "list"

\* A write to the notes by a task of no open screen: it comes before what the
\* open screen asked for.
Stranger(j) == j.at = "write" /\ ~j.here /\ j.op \in {"remove", "note", "unnote"}

ScreenInv ==
    /\ screen = None => \A t \in Busy : ~job[t].here
    /\ \A i, k \in 1..Len(queue) : job[queue[i]].here /\ Stranger(job[queue[k]]) => k < i
    /\ screen # None /\ screen.fresh => \A t \in Busy : ~Stranger(job[t])
    /\ screen # None /\ screen.fresh /\ screen.shown # NotesOf(screen.bike.id) =>
          \E t \in Busy : job[t].here /\ job[t].at \in {"list", "notes"}

GarageInv ==
    /\ GarageTypeOK /\ screen \in Screen \cup {None}
    /\ \A t \in Busy : WellFormed(job[t])
    /\ RoomLeft /\ BikesInv /\ NotesInv /\ AloneInv /\ CalmInv /\ ScreenHasItsBike
    /\ ListInv /\ ScreenInv

\* Every task ends.
TasksEnd == \A t \in Task : job[t] # None ~> job[t] = None
=============================================================================
