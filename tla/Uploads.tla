------------------------------ MODULE Uploads ------------------------------
(***************************************************************************)
(* internal/server/upload.go over internal/storage/storage.go and          *)
(* servicerecord.Repository.AddAttachment: a photo is first stored as an   *)
(* object, then linked to its record by a transaction of ServiceRecords,   *)
(* and the object is removed again when the link fails.  No transaction    *)
(* spans the object store and the database, so what keeps the two in step  *)
(* is the order of the calls and what is done after each failure.          *)
(*                                                                         *)
(* A request of Proc is either an upload or one of ServiceRecords' own.    *)
(***************************************************************************)
EXTENDS ServiceRecords

CONSTANTS
    Reliable,           \* TRUE: the object store and the database answer every
                        \* call, and the server is not killed
    NoUpload

ASSUME UploadsAssumption ==
    /\ Reliable \in BOOLEAN
    /\ NoUpload \notin [workshop: Workshop, original: Id, photo: Photo]

VARIABLES
    objects,            \* the files in the bucket
    at,                 \* where each upload request is in ServeHTTP
    upload,             \* what it uploads, and to which record
    saved,              \* files a client was told are saved
    astray,             \* those of them whose record a correction had replaced
                        \* by the time their row was written
    unsure              \* files of calls whose outcome the server never learnt

storage == <<objects, at, upload, saved, astray, unsure>>

uploadVars == <<vars, storage>>

Attached == UNION {attachments[i] : i \in Row}

\* Put names each file by a new UUID.
Unused(photo) ==
    /\ photo \notin objects \cup Attached \cup unsure
    /\ \A p \in Proc : at[p] # "none" => upload[p].photo # photo

UploadInit ==
    /\ Init
    /\ objects = {}
    /\ at = [p \in Proc |-> "none"]
    /\ upload = [p \in Proc |-> NoUpload]
    /\ saved = {} /\ astray = {}
    /\ unsure = {}

----------------------------------------------------------------------------
Step(p, label) == at' = [at EXCEPT ![p] = label] /\ UNCHANGED upload

Answer(p) ==
    /\ at' = [at EXCEPT ![p] = "none"]
    /\ upload' = [upload EXCEPT ![p] = NoUpload]

NewUpload(row, photo) ==
    [workshop |-> service[row].workshop, original |-> row, photo |-> photo]

\* The record must be the caller's; anything else is refused, and so is a
\* file of the wrong size or type, before anything changes.
Receive(p) ==
    /\ at[p] = "none" /\ pc[p] = "idle"
    /\ \E row \in Row, photo \in {f \in Photo : Unused(f)} :
          upload' = [upload EXCEPT ![p] = NewUpload(row, photo)]
    /\ at' = [at EXCEPT ![p] = "store"]
    /\ UNCHANGED <<vars, objects, saved, astray, unsure>>

Put(p) ==
    /\ at[p] = "store"
    /\ objects' = objects \cup {upload[p].photo}
    /\ Step(p, "link")
    /\ UNCHANGED <<vars, saved, astray, unsure>>

\* A bug kept for comparison: the error of Put is not looked at.
PutErrorIgnored(p) == Step(p, "link")

PutError(p) == Answer(p)

\* The file was refused by the store, or, when the store is not reliable, it
\* was stored and only the answer was lost: ServeHTTP removes nothing here.
PutFails(p) ==
    /\ at[p] = "store"
    /\ \/ UNCHANGED <<objects, unsure>>
       \/ /\ ~Reliable
          /\ objects' = objects \cup {upload[p].photo}
          /\ unsure' = unsure \cup {upload[p].photo}
    /\ PutError(p)
    /\ UNCHANGED <<vars, saved, astray>>

\* h.records.AddAttachment begins.
Link(p) ==
    /\ at[p] = "link"
    /\ AddAttachment(p) /\ req'[p] = upload[p]
    /\ Step(p, "linking")
    /\ UNCHANGED <<objects, saved, astray, unsure>>

\* A bug kept for comparison: the clean-up runs on every way out.
AfterLinkCleanup(p) == Step(p, "orphan")

AfterLink(p) == Answer(p)

\* A bug kept for comparison: the file is left behind.
AfterFailureNothing(p) == Answer(p)

AfterFailure(p) == Step(p, "orphan")

\* The client is told that the file is saved, whether or not the record still
\* is one that the listings show.
Saved(p) ==
    /\ saved' = saved \cup {upload[p].photo}
    /\ astray' = IF supersededBy[upload[p].original] = 0 THEN astray
                 ELSE astray \cup {upload[p].photo}

\* AddAttachment runs its statements.  Its error is ambiguous when the commit
\* took effect and only its answer was lost.
Linking(p) ==
    LET committed == pc[p] = "commitAttachment" /\ attachments' # attachments IN
    /\ at[p] = "linking"
    /\ LockRecord(p) \/ CountAttachments(p) \/ CommitAttachment(p) \/ Fail(p)
    /\ \/ pc'[p] # "idle" /\ UNCHANGED <<at, upload, saved, astray, unsure>>
       \/ committed /\ AfterLink(p) /\ Saved(p) /\ UNCHANGED unsure
       \/ /\ ~Reliable /\ committed /\ AfterFailure(p)
          /\ unsure' = unsure \cup {upload[p].photo}
          /\ UNCHANGED <<saved, astray>>
       \/ pc'[p] = "idle" /\ ~committed /\ AfterFailure(p) /\ UNCHANGED <<saved, astray, unsure>>
    /\ UNCHANGED objects

\* removeOrphan, which outlives the request's context; its error is logged.
RemoveOrphan(p) ==
    LET photo == {upload[p].photo} IN
    /\ at[p] = "orphan"
    /\ \/ objects' = objects \ photo /\ UNCHANGED unsure
       \/ ~Reliable /\ unsure' = unsure \cup photo /\ UNCHANGED objects
    /\ Answer(p)
    /\ UNCHANGED <<vars, saved, astray>>

\* PostgreSQL rolls back the transaction of a connection that closed.
Rollback(p) == Fail(p) \/ (pc[p] = "idle" /\ UNCHANGED vars)

\* The server is killed, one of its requests after the other: the transaction
\* is rolled back and nothing is cleaned up.
Killed(p) ==
    /\ ~Reliable /\ at[p] # "none"
    /\ Rollback(p)
    /\ unsure' = unsure \cup {upload[p].photo}
    /\ Answer(p)
    /\ UNCHANGED <<objects, saved, astray>>

\* The requests that write records.
RecordStep(p) ==
    /\ at[p] = "none"
    /\ CreateServiceRecord(p) \/ ReviseServiceRecord(p) \/ CheckRevisable(p)
          \/ Statement(p) \/ Fail(p)
    /\ UNCHANGED storage

UploadStep(p) ==
    \/ Receive(p) \/ Put(p) \/ PutFails(p) \/ Link(p)
    \/ Linking(p) \/ RemoveOrphan(p) \/ Killed(p)

UploadNext ==
    \/ RegisterVehicle /\ UNCHANGED storage
    \/ \E p \in Proc : UploadStep(p) \/ RecordStep(p)

UploadSpec == UploadInit /\ [][UploadNext]_uploadVars

----------------------------------------------------------------------------
UploadTypeOK ==
    /\ objects \subseteq Photo /\ unsure \subseteq Photo
    /\ saved \subseteq Photo /\ astray \subseteq saved
    /\ at \in [Proc -> {"none", "store", "link", "linking", "orphan"}]
    /\ upload \in [Proc -> Upload \cup {NoUpload}]

\* A file the client was told is saved is in the bucket and on its record, for
\* good: neither the clean-up of another upload nor a killed server takes it.
SavedIsKept == saved \subseteq objects \cap Attached

\* Whatever record shows a file, the one it was uploaded to or a correction
\* that took it along, the bucket has it, unless a call's outcome was lost.
ShownIsStored == Attached \subseteq objects \cup unsure

\* When no upload is under way, the bucket holds nothing that no record
\* shows, unless a call's outcome was lost.
NoOrphans ==
    (\A p \in Proc : at[p] = "none") => objects \subseteq Attached \cup unsure

\* A file the client was told is saved is shown by a record of the listings,
\* also when a correction of that record was under way, copied the files before
\* or after this one and took its place: of the two, one waits for the other.
\* Only a file whose row was written after its record had been replaced is left
\* on a version no listing shows.
SavedIsListed ==
    \A photo \in saved \ astray : \E i \in CurrentRow : photo \in attachments[i]

----------------------------------------------------------------------------
(* The inductive invariant: why the properties above hold.                 *)

\* An upload drives its own transaction, nobody else touches its file, and
\* what it believes of the file is so.
OwnUpload(p) ==
    LET photo == upload[p].photo IN
    /\ at[p] = "linking" <=> pc[p] \in Attaching
    /\ at[p] \in {"store", "link", "orphan"} => pc[p] = "idle"
    /\ at[p] = "linking" => req[p] = upload[p]
    /\ at[p] # "none" =>
          /\ upload[p] \in Upload
          /\ photo \notin saved
          /\ \A q \in Proc \ {p} : at[q] # "none" => upload[q].photo # photo
    /\ at[p] \in {"store", "link", "linking"} => photo \notin Attached
    /\ at[p] \in {"link", "linking"} => photo \in objects
    /\ at[p] = "orphan" => photo \notin Attached \/ photo \in unsure

\* Files stored for an upload that is not answered yet.
InFlight == {upload[p].photo : p \in {q \in Proc : at[q] \in {"link", "linking", "orphan"}}}

Accounted == objects \subseteq Attached \cup unsure \cup InFlight

UploadInv ==
    /\ UploadTypeOK
    /\ \A p \in Proc : OwnUpload(p)
    /\ SavedIsKept /\ ShownIsStored /\ Accounted

----------------------------------------------------------------------------
(* What a comment says and the code does not keep.                         *)

\* upload.go: removeOrphan "deletes a stored file whose attachment row was
\* never written": no record shows a file that was deleted.
OnlyOrphansRemoved == Attached \subseteq objects
=============================================================================
