------------------------------ MODULE History ------------------------------
(***************************************************************************)
(* What the service history of a motorcycle promises to its readers,       *)
(* whatever happens underneath: a bike has a set of services, a service is *)
(* the sequence of its versions, oldest first, and only the newest one is  *)
(* current.  Every operation takes effect at once.  This is the atomic     *)
(* view of servicerecord.Repository; module ServiceRecords implements it   *)
(* with concurrent transactions.                                           *)
(***************************************************************************)
EXTENDS Naturals, Sequences, FiniteSets

CONSTANTS
    Workshop,           \* the shops that sign records
    Plate,              \* the plates that may be registered
    Km,                 \* odometer readings
    Photo,              \* uploaded files, photos and invoices alike
    Version,            \* identities of service_records rows
    MaxAttachments      \* store.go MaxAttachmentsPerRecord

VARIABLES
    vehicles,           \* the registered plates
    services,           \* a set of services, each a sequence of versions
    photos              \* the files attached to each version

historyVars == <<vehicles, services, photos>>

Entry == [workshop: Workshop, plate: Plate, km: Km]

VersionsOf(s) == {s[k].id : k \in DOMAIN s}

Used == UNION {VersionsOf(s) : s \in services}

Current(s) == s[Len(s)]

Init ==
    /\ vehicles \in SUBSET Plate
    /\ services = {}
    /\ photos = [v \in Version |-> {}]

RegisterVehicle ==
    /\ \E plate \in Plate \ vehicles : vehicles' = vehicles \cup {plate}
    /\ UNCHANGED <<services, photos>>

\* A shop logs a service of a registered bike.
Log(entry, v) ==
    /\ entry.plate \in vehicles
    /\ v \in Version \ Used
    /\ services' = services \cup {<<[id |-> v, entry |-> entry]>>}
    /\ UNCHANGED <<vehicles, photos>>

\* The shop that wrote a service replaces its current version by another one
\* of the same bike, which takes the files along.
Correct(s, entry, v) ==
    /\ entry.workshop = Current(s).entry.workshop
    /\ entry.plate = Current(s).entry.plate
    /\ v \in Version \ Used
    /\ services' = (services \ {s}) \cup {Append(s, [id |-> v, entry |-> entry])}
    /\ photos' = [photos EXCEPT ![v] = photos[Current(s).id]]
    /\ UNCHANGED vehicles

\* A file is attached to a version that has room for it.
Attach(v, photo) ==
    /\ v \in Used
    /\ \A w \in Version : photo \notin photos[w]
    /\ Cardinality(photos[v]) < MaxAttachments
    /\ photos' = [photos EXCEPT ![v] = @ \cup {photo}]
    /\ UNCHANGED <<vehicles, services>>

Next ==
    \/ RegisterVehicle
    \/ \E entry \in Entry, v \in Version :
          \/ Log(entry, v)
          \/ \E s \in services : Correct(s, entry, v)
    \/ \E v \in Version, photo \in Photo : Attach(v, photo)

Spec == Init /\ [][Next]_historyVars
=============================================================================
