--------------------------- MODULE ServiceRecords ---------------------------
(***************************************************************************)
(* internal/servicerecord/repository.go: the append-only service history,  *)
(* written by concurrent requests.                                         *)
(*                                                                         *)
(* A request runs one PostgreSQL transaction at READ COMMITTED: each SQL   *)
(* statement sees what was committed when it started, what the transaction *)
(* wrote becomes visible at its commit, and SELECT ... FOR UPDATE holds    *)
(* the row until the transaction ends.  Each statement that reads a shared *)
(* table, takes a row lock or commits is an action; statements that only   *)
(* write rows nobody sees before the commit are folded into the action     *)
(* before them.  Any statement may fail, the client may go away and the    *)
(* server may stop: the transaction is then rolled back (Fail).            *)
(*                                                                         *)
(* Rows are numbered in the order they are committed.  The code's ids are  *)
(* random and it never compares two of them, so any numbering will do.     *)
(***************************************************************************)
EXTENDS Naturals, FiniteSets, Sequences

CONSTANTS
    Proc,               \* requests being served at a time
    Workshop, Plate, Km,
    Name,               \* names of mechanics
    Photo,              \* uploaded files
    Confirm,            \* the values of confirm_lower_mileage clients send
    MaxRecords,         \* bound: rows of service_records
    MaxAttachments,     \* store.go MaxAttachmentsPerRecord
    NoProc, NoName, NoService, NoRequest

ASSUME BoundsAssumption ==
    /\ MaxRecords \in Nat
    /\ MaxAttachments \in Nat
    /\ Km \subseteq Nat
    /\ Confirm \subseteq BOOLEAN

ASSUME NothingAssumption ==
    /\ NoProc \notin Proc
    /\ NoName \notin Name
    /\ NoService \notin [workshop: Workshop, plate: Plate, km: Km]

VARIABLES
    vehicles,           \* registered plates
    last,               \* number of committed service_records rows
    service,            \* what each row says; it never changes
    supersededBy,       \* the row that corrects it, 0 when it is current
    corrects,           \* the row it was sent to correct, 0 for a new record: no
                        \* column holds it, selectRecords looks for supersededBy
    attachments,        \* the files of each row
    mechanics,          \* rows of mechanics per workshop and name
    lock,               \* holder of the FOR UPDATE lock of each row
    pc,                 \* the next statement of each request
    req                 \* its input and the locals of write

tables == <<vehicles, last, service, supersededBy, corrects, attachments, mechanics>>

vars == <<tables, lock, pc, req>>

----------------------------------------------------------------------------
Id == 1..MaxRecords

Row == 1..last

Service == [workshop: Workshop, plate: Plate, km: Km]

Writing == {"lock", "vehicle", "mileage", "insert", "supersede", "commit"}

Attaching == {"lockRecord", "count", "commitAttachment"}

\* What a Create or a Revise asks for (original is 0 in a Create), and the
\* locals of write: hire, a mechanics row to insert, and carried, the files
\* the correction takes along.
Write ==
    [workshop: Workshop, plate: Plate, km: Km, confirm: BOOLEAN,
     mechanic: Name \cup {NoName}, original: 0..MaxRecords,
     hire: BOOLEAN, carried: SUBSET Photo]

Upload == [workshop: Workshop, original: Id, photo: Photo]

CurrentRow == {i \in Row : supersededBy[i] = 0}

Input(workshop, plate, km, confirm, mechanic, original) ==
    [workshop |-> workshop, plate |-> plate, km |-> km, confirm |-> confirm,
     mechanic |-> mechanic, original |-> original, hire |-> FALSE, carried |-> {}]

Init ==
    /\ vehicles \in SUBSET Plate
    /\ last = 0
    /\ service = [i \in Id |-> NoService]
    /\ supersededBy = [i \in Id |-> 0]
    /\ corrects = [i \in Id |-> 0]
    /\ attachments = [i \in Id |-> {}]
    /\ mechanics = [w \in Workshop |-> [n \in Name |-> 0]]
    /\ lock = [i \in Id |-> NoProc]
    /\ pc = [p \in Proc |-> "idle"]
    /\ req = [p \in Proc |-> NoRequest]

----------------------------------------------------------------------------
(* Requests and the transactions they run.                                 *)

Goto(p, statement) == pc' = [pc EXCEPT ![p] = statement]

\* A bug kept for comparison: SELECT without FOR UPDATE does not wait.
FreeIgnored(row) == TRUE

\* A transaction waits for a row another one holds.
Free(row) == lock[row] = NoProc

\* A bug kept for comparison: a return path without the deferred Rollback.
EndHoldingLocks(p) ==
    /\ pc' = [pc EXCEPT ![p] = "idle"]
    /\ req' = [req EXCEPT ![p] = NoRequest]
    /\ UNCHANGED lock

\* The transaction ends, by a refusal, a rollback or a commit: its row locks
\* are released.
End(p) ==
    /\ pc' = [pc EXCEPT ![p] = "idle"]
    /\ req' = [req EXCEPT ![p] = NoRequest]
    /\ lock' = [i \in Id |-> IF lock[i] = p THEN NoProc ELSE lock[i]]

Refuse(p) == End(p) /\ UNCHANGED tables

\* The bound: every request being served may still commit its row.
RoomForRow == last + Cardinality({p \in Proc : pc[p] \in Writing}) < MaxRecords

\* vehicle.Repository.Create: one INSERT, the plate being unique.
RegisterVehicle ==
    /\ \E plate \in Plate \ vehicles : vehicles' = vehicles \cup {plate}
    /\ UNCHANGED <<last, service, supersededBy, corrects, attachments, mechanics, lock, pc, req>>

CreateServiceRecord(p) ==
    /\ pc[p] = "idle" /\ RoomForRow
    /\ \E w \in Workshop, plate \in Plate, km \in Km, confirm \in Confirm,
          name \in Name \cup {NoName} :
          req' = [req EXCEPT ![p] = Input(w, plate, km, confirm, name, 0)]
    /\ Goto(p, "vehicle")
    /\ UNCHANGED <<tables, lock>>

\* The handler loads the original before the transaction, for its plate; an
\* unknown record is refused there and nothing changes.
ReviseServiceRecord(p) ==
    /\ pc[p] = "idle" /\ RoomForRow
    /\ \E original \in Row, w \in Workshop, km \in Km, name \in Name \cup {NoName} :
          req' = [req EXCEPT ![p] =
                    Input(w, service[original].plate, km, FALSE, name, original)]
    /\ Goto(p, "lock")
    /\ UNCHANGED <<tables, lock>>

\* A bug kept for comparison: no check that the record is still current.
RevisableByOwner(row, w) == service[row].workshop = w

Revisable(row, w) == service[row].workshop = w /\ supersededBy[row] = 0

\* checkRevisable: SELECT workshop_id, superseded_by ... FOR UPDATE.
CheckRevisable(p) ==
    LET original == req[p].original IN
    /\ pc[p] = "lock"
    /\ Free(original)
    /\ IF Revisable(original, req[p].workshop)
       THEN /\ lock' = [lock EXCEPT ![original] = p]
            /\ Goto(p, "vehicle")
            /\ UNCHANGED <<tables, req>>
       ELSE Refuse(p)

\* SELECT id FROM vehicles; a correction and a confirmed mileage skip the
\* odometer check.
FindVehicle(p) ==
    /\ pc[p] = "vehicle"
    /\ IF req[p].plate \in vehicles
       THEN /\ Goto(p, IF req[p].original = 0 /\ ~req[p].confirm
                       THEN "mileage" ELSE "insert")
            /\ UNCHANGED <<tables, lock, req>>
       ELSE Refuse(p)

Recorded(plate) == {service[i].km : i \in {r \in CurrentRow : service[r].plate = plate}}

\* checkMileage: SELECT MAX(mileage_km), which locks nothing.
CheckMileage(p) ==
    /\ pc[p] = "mileage"
    /\ IF \A km \in Recorded(req[p].plate) : req[p].km >= km
       THEN /\ Goto(p, "insert")
            /\ UNCHANGED <<tables, lock, req>>
       ELSE Refuse(p)

\* upsertMechanic looks for the name among the committed rows; the rows the
\* transaction then inserts (mechanic, record, operations, parts) are its own
\* until the commit.
InsertRecord(p) ==
    /\ pc[p] = "insert"
    /\ LET w == req[p].workshop
           name == req[p].mechanic
       IN  req' = [req EXCEPT ![p].hire = name # NoName /\ mechanics[w][name] = 0]
    /\ Goto(p, IF req[p].original = 0 THEN "commit" ELSE "supersede")
    /\ UNCHANGED <<tables, lock>>

\* A bug kept for comparison: the correction starts without files.
CarriedNothing(row) == {}

Carried(row) == attachments[row]

\* UPDATE superseded_by, then INSERT INTO attachments ... SELECT, which reads
\* the committed files of the original.
SupersedeOriginal(p) ==
    /\ pc[p] = "supersede"
    /\ req' = [req EXCEPT ![p].carried = Carried(req[p].original)]
    /\ Goto(p, "commit")
    /\ UNCHANGED <<tables, lock>>

Hired(w, name) == [mechanics EXCEPT ![w][name] = @ + 1]

\* The commit publishes the record, what it supersedes and what it carries.
\* FindByID then reads it back and may fail; either way nothing changes.
Commit(p) ==
    LET r == req[p]
        new == last + 1
    IN
    /\ pc[p] = "commit" /\ last < MaxRecords
    /\ last' = new
    /\ service' = [service EXCEPT ![new] =
                     [workshop |-> r.workshop, plate |-> r.plate, km |-> r.km]]
    /\ supersededBy' = IF r.original = 0 THEN supersededBy
                       ELSE [supersededBy EXCEPT ![r.original] = new]
    /\ corrects' = [corrects EXCEPT ![new] = r.original]
    /\ attachments' = [attachments EXCEPT ![new] = r.carried]
    /\ mechanics' = IF r.hire THEN Hired(r.workshop, r.mechanic) ELSE mechanics
    /\ End(p)
    /\ UNCHANGED vehicles

\* Every upload has a URL of its own.
Fresh(photo) ==
    /\ \A i \in Row : photo \notin attachments[i]
    /\ \A q \in Proc : pc[q] \in Attaching => req[q].photo # photo

\* An unknown record is refused before anything changes.
AddAttachment(p) ==
    /\ pc[p] = "idle"
    /\ \E i \in Row, w \in Workshop, photo \in {f \in Photo : Fresh(f)} :
          req' = [req EXCEPT ![p] = [workshop |-> w, original |-> i, photo |-> photo]]
    /\ Goto(p, "lockRecord")
    /\ UNCHANGED <<tables, lock>>

\* SELECT workshop_id ... FOR UPDATE: nothing is asked about superseded_by.
LockRecord(p) ==
    LET row == req[p].original IN
    /\ pc[p] = "lockRecord"
    /\ Free(row)
    /\ IF service[row].workshop = req[p].workshop
       THEN /\ lock' = [lock EXCEPT ![row] = p]
            /\ Goto(p, "count")
            /\ UNCHANGED <<tables, req>>
       ELSE Refuse(p)

HasRoom(row) == Cardinality(attachments[row]) < MaxAttachments

CountAttachments(p) ==
    /\ pc[p] = "count"
    /\ IF HasRoom(req[p].original)
       THEN Goto(p, "commitAttachment") /\ UNCHANGED <<tables, lock, req>>
       ELSE Refuse(p)

CommitAttachment(p) ==
    /\ pc[p] = "commitAttachment"
    /\ attachments' = [attachments EXCEPT ![req[p].original] = @ \cup {req[p].photo}]
    /\ End(p)
    /\ UNCHANGED <<vehicles, last, service, supersededBy, corrects, mechanics>>

\* A failed statement, a client gone, a server stopped: the deferred Rollback.
Fail(p) == pc[p] # "idle" /\ Refuse(p)

Begin(p) == CreateServiceRecord(p) \/ ReviseServiceRecord(p) \/ AddAttachment(p)

\* The statements that may wait for a row lock.
Acquire(p) == CheckRevisable(p) \/ LockRecord(p)

Statement(p) ==
    \/ FindVehicle(p) \/ CheckMileage(p) \/ InsertRecord(p)
    \/ SupersedeOriginal(p) \/ Commit(p)
    \/ CountAttachments(p) \/ CommitAttachment(p)

Next ==
    \/ RegisterVehicle
    \/ \E p \in Proc : Begin(p) \/ Acquire(p) \/ Statement(p) \/ Fail(p)

Spec == Init /\ [][Next]_vars

\* The server runs the statements of every request to their end, and
\* PostgreSQL queues the transactions that wait for a row.
FairSpec ==
    /\ Spec
    /\ \A p \in Proc : WF_vars(Statement(p)) /\ SF_vars(Acquire(p))

----------------------------------------------------------------------------
TypeOK ==
    /\ vehicles \subseteq Plate
    /\ last \in 0..MaxRecords
    /\ service \in [Id -> Service \cup {NoService}]
    /\ supersededBy \in [Id -> 0..MaxRecords] /\ corrects \in [Id -> 0..MaxRecords]
    /\ attachments \in [Id -> SUBSET Photo]
    /\ mechanics \in [Workshop -> [Name -> Nat]]
    /\ lock \in [Id -> Proc \cup {NoProc}]
    /\ pc \in [Proc -> {"idle"} \cup Writing \cup Attaching]
    /\ req \in [Proc -> Write \cup Upload \cup {NoRequest}]

\* The record a correction was sent for points at that correction, and at no
\* other: two corrections sent at once never end as two versions of one record,
\* of which the second took the place of the first. And a record points only at
\* a later correction of it, by the same shop and of the same bike.
ChainsNeverFork ==
    \A i \in Row :
        LET next == supersededBy[i] IN
        /\ corrects[i] # 0 => corrects[i] \in Row /\ supersededBy[corrects[i]] = i
        /\ next # 0 =>
              /\ next \in Row /\ next > i /\ corrects[next] = i
              /\ service[next].workshop = service[i].workshop
              /\ service[next].plate = service[i].plate

\* AddAttachment's count cannot be raced past the cap, and a correction does
\* not start above it (repository.go:327).
CapHolds == \A i \in Id : Cardinality(attachments[i]) <= MaxAttachments

RowsOnlyGrow ==
    \A i \in Row :
        /\ service'[i] = service[i]
        /\ supersededBy[i] # 0 => supersededBy'[i] = supersededBy[i]
        /\ attachments[i] \subseteq attachments'[i]

\* A committed record is never edited: what it says stays, it is superseded at
\* most once, and its files stay (ARCHITECTURE.md, "Append-only").
AppendOnly == [][RowsOnlyGrow]_vars

FilesGoAlong ==
    \A i \in Row : supersededBy'[i] # supersededBy[i] =>
        attachments'[i] = attachments'[supersededBy'[i]]

\* The commit that supersedes a record leaves none of its files behind, also
\* when an upload to that record is being served at the same time.
PhotosCarried == [][FilesGoAlong]_vars

OneForOne ==
    \A p \in Proc :
        LET original == req[p].original IN
        pc[p] = "commit" /\ last' # last /\ pc'[p] = "idle" /\ original # 0 =>
            /\ original \in CurrentRow
            /\ CurrentRow' = (CurrentRow \ {original}) \cup {last'}

\* A correction takes the place of one current record in the listings, which
\* ask for superseded_by IS NULL: however corrections race, a service is
\* neither listed twice nor erased.
CorrectionReplaces == [][OneForOne]_vars

\* Every request is answered: no transaction waits for a row forever.
RequestsEnd == \A p \in Proc : pc[p] # "idle" ~> pc[p] = "idle"

----------------------------------------------------------------------------
(* The inductive invariant: why the properties above hold.                 *)

\* Statements at which a write holds the row it corrects, and an upload the
\* row it attaches to.
HoldingWrite == {"vehicle", "insert", "supersede", "commit"}

HoldingUpload == {"count", "commitAttachment"}

\* The locals of a request fit the statement it is at.
Fits(p) ==
    /\ pc[p] = "idle" => req[p] = NoRequest
    /\ pc[p] \in Writing => req[p] \in Write /\ req[p].original <= last
    /\ pc[p] \in {"lock", "supersede"} => req[p].original # 0
    /\ pc[p] = "mileage" => req[p].original = 0
    /\ pc[p] \in Attaching => req[p] \in Upload /\ req[p].original <= last

\* Only committed rows say anything.
RowsFilled ==
    \A i \in Id :
        /\ i <= last => service[i] \in Service
        /\ i > last => supersededBy[i] = 0 /\ corrects[i] = 0 /\ attachments[i] = {}

\* From checkRevisable to the commit the original stays locked, current, of
\* the caller's shop and of the bike the handler found it on.
HoldsOriginal(p) ==
    /\ pc[p] \in Writing /\ req[p].original # 0
          => service[req[p].original].plate = req[p].plate
    /\ pc[p] \in HoldingWrite /\ req[p].original # 0
          => /\ lock[req[p].original] = p
             /\ Revisable(req[p].original, req[p].workshop)
    /\ pc[p] \in HoldingUpload => lock[req[p].original] = p

\* What was read under the lock is still so at the commit: the files to carry
\* and the room for one more.
ReadsStayTrue(p) ==
    /\ pc[p] \in Writing /\ req[p].original = 0 => req[p].carried = {}
    /\ pc[p] = "commit" /\ req[p].original # 0
          => req[p].carried = attachments[req[p].original]
    /\ pc[p] = "commitAttachment"
          => Cardinality(attachments[req[p].original]) < MaxAttachments

RequestInv(p) == Fits(p) /\ HoldsOriginal(p) /\ ReadsStayTrue(p)

FilesFinite == \A i \in Id : IsFiniteSet(attachments[i])

\* The strengthening the proofs carry: a request that holds a row has read of
\* it what is still true, so its commit keeps the chains and the cap.
IInv ==
    /\ TypeOK
    /\ \A p \in Proc : RequestInv(p)
    /\ RowsFilled /\ FilesFinite /\ CapHolds /\ ChainsNeverFork

----------------------------------------------------------------------------
(* The refinement mapping: a service is the chain that starts at a record  *)
(* which corrects none.                                                    *)

Versions == [id: Id, entry: Service \cup {NoService}]

VersionOf(i) == [id |-> i, entry |-> service[i]]

Chain[i \in Id] ==
    IF supersededBy[i] = 0 THEN <<VersionOf(i)>>
    ELSE <<VersionOf(i)>> \o Chain[supersededBy[i]]

Start == {r \in Row : \A j \in Row : supersededBy[j] # r}

H == INSTANCE History WITH
        services <- {Chain[i] : i \in Start},
        photos <- attachments,
        Version <- Id

\* The transactions and their locks amount to the atomic history.
ImplementsHistory == H!Spec

\* What a request was told before its commit and nobody can undo: the bike is
\* registered, and the URL of a file is on no record and in no other upload.
ToldTheTruth(p) ==
    /\ pc[p] \in {"mileage", "insert", "supersede", "commit"} => req[p].plate \in vehicles
    /\ pc[p] \in Attaching =>
          /\ \A i \in Id : req[p].photo \notin attachments[i]
          /\ \A q \in Proc \ {p} : pc[q] \in Attaching => req[q].photo # req[p].photo

Unfolded(f) ==
    [i \in Id |-> IF supersededBy[i] = 0 THEN <<VersionOf(i)>>
                  ELSE <<VersionOf(i)>> \o f[supersededBy[i]]]

Newest(i) == Chain[i][Len(Chain[i])]

\* The chains exist; each is of committed rows and ends at a current one; each
\* current row ends one service, and each row is a version of some service.
ChainsAreLines ==
    /\ Chain = Unfolded(Chain)
    /\ \A i \in Id : Chain[i] \in Seq(Versions) \ {<<>>}
    /\ \A i \in Row :
          /\ \A k \in DOMAIN Chain[i] : Chain[i][k].id \in Row
          /\ \E e \in CurrentRow : Newest(i) = VersionOf(e)
          /\ \E r \in Start : \E k \in DOMAIN Chain[r] : Chain[r][k].id = i
    /\ \A e \in CurrentRow : \E r \in Start : Newest(r) = VersionOf(e)
    /\ \A r, s \in Start : Newest(r) = Newest(s) => r = s

\* The strengthening the refinement needs.
HistoryInv == IInv /\ (\A p \in Proc : ToldTheTruth(p)) /\ ChainsAreLines

----------------------------------------------------------------------------
(* What a document says and the code does not keep.                         *)

\* ARCHITECTURE.md: "A mileage below the bike's highest recorded value is
\* refused", unless the mechanic confirmed it.
LowerMileageRefused ==
    [][\A p \in Proc :
          (pc[p] = "commit" /\ last' = last + 1 /\ pc'[p] = "idle"
             /\ req[p].original = 0 /\ ~req[p].confirm)
          => \A km \in Recorded(req[p].plate) : req[p].km >= km]_vars
=============================================================================
