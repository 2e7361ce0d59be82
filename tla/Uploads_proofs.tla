--------------------------- MODULE Uploads_proofs ---------------------------
(***************************************************************************)
(* Proofs about Uploads, for every value of the constants.  Every step of  *)
(* an upload is a step of ServiceRecords or leaves its variables alone, so *)
(* the invariant IInv of its requests is at hand; UploadInv adds what the  *)
(* order of the calls to the bucket keeps.                                 *)
(***************************************************************************)
EXTENDS Uploads, ServiceRecords_proofs

\* Each action of the upload handler runs a statement of AddAttachment, or
\* none.
LEMMA StepIsRecordStep == [UploadNext]_uploadVars => [Next]_vars
<1> SUFFICES ASSUME [UploadNext]_uploadVars PROVE [Next]_vars
  OBVIOUS
<1>1. CASE UNCHANGED uploadVars
  BY <1>1 DEF uploadVars
<1>2. CASE RegisterVehicle /\ UNCHANGED storage
  BY <1>2 DEF Next
<1>3. ASSUME NEW p \in Proc, UploadStep(p) PROVE [Next]_vars
  <2>1. CASE Receive(p) \/ Put(p) \/ PutFails(p) \/ RemoveOrphan(p)
    BY <2>1 DEF Receive, Put, PutFails, RemoveOrphan
  <2>2. CASE Link(p)
    BY <2>2 DEF Link, Next, Begin
  <2>3. CASE Linking(p)
    BY <2>3 DEF Linking, Next, Acquire, Statement
  <2>4. CASE Killed(p)
    BY <2>4 DEF Killed, Rollback, Next
  <2>5. QED
    BY <1>3, <2>1, <2>2, <2>3, <2>4 DEF UploadStep
<1>4. ASSUME NEW p \in Proc, RecordStep(p) PROVE [Next]_vars
  BY <1>4 DEF RecordStep, Next, Begin, Acquire
<1>5. QED
  BY <1>1, <1>2, <1>3, <1>4 DEF UploadNext

\* So every theorem about the records holds for those the uploads write to.
LEMMA UploadsRunTransactions == UploadSpec => Spec
<1>1. UploadInit => Init
  BY DEF UploadInit
<1>2. QED
  BY <1>1, StepIsRecordStep, PTL DEF UploadSpec, Spec

\* To a reader of the history an upload, through the bucket, the row locks and
\* the races with corrections, is one step or nothing.
THEOREM UploadsImplementHistory == UploadSpec => ImplementsHistory
BY UploadsRunTransactions, RecordsImplementHistory, Zenon
----------------------------------------------------------------------------
(* What a step of the records does to the files they show.                 *)

LEMMA SameTablesSameFiles == UNCHANGED tables => Attached' = Attached
BY DEF tables, Attached, Row

\* A correction shows files its original shows already.
LEMMA CommitShowsNothingNew ==
    ASSUME IInv, NEW p \in Proc, Commit(p)
    PROVE  Attached' = Attached
<1> DEFINE r == req[p]
           new == last + 1
<1> USE BoundsAssumption
<1>1. /\ last \in 0..MaxRecords /\ last' = new /\ last < MaxRecords /\ new \in Id
      /\ attachments' = [attachments EXCEPT ![new] = r.carried]
      /\ attachments \in [Id -> SUBSET Photo]
  BY DEF Commit, IInv, TypeOK, Id
<1>2. /\ r.original \in 0..last
      /\ r.original = 0 => r.carried = {}
      /\ r.original # 0 => r.carried = attachments[r.original]
  BY DEF Commit, IInv, TypeOK, RequestInv, Fits, ReadsStayTrue, Writing, Write
<1>3. \A i \in Row : attachments'[i] = attachments[i]
  BY <1>1 DEF Row, Id
<1>4. attachments'[new] \subseteq Attached
  BY <1>1, <1>2 DEF Attached, Row
<1>5. Row' = Row \cup {new}
  BY <1>1 DEF Row
<1>6. QED
  BY <1>3, <1>4, <1>5 DEF Attached

LEMMA CommitAttachmentShowsOne ==
    ASSUME IInv, NEW p \in Proc, CommitAttachment(p)
    PROVE  Attached' = Attached \cup {req[p].photo}
<1> USE BoundsAssumption
<1>1. /\ req[p].original \in Row /\ req[p].original \in Id /\ Row \subseteq Id
      /\ attachments \in [Id -> SUBSET Photo]
  BY DEF CommitAttachment, IInv, TypeOK, RequestInv, Fits, Attaching, Upload, Row, Id
<1>2. /\ attachments' = [attachments EXCEPT ![req[p].original] = @ \cup {req[p].photo}]
      /\ Row' = Row
  BY DEF CommitAttachment, Row
<1>3. QED
  BY <1>1, <1>2 DEF Attached

----------------------------------------------------------------------------
(* The invariant.                                                          *)

LEMMA UploadInitEstablishes == UploadInit => UploadInv
BY BoundsAssumption DEF UploadInit, Init, UploadInv, UploadTypeOK, OwnUpload, SavedIsKept,
   ShownIsStored, Accounted, Attached, Row, InFlight, Attaching

\* An upload keeps its part of the invariant when another request does
\* something that concerns neither it nor its file.
LEMMA OtherUploadKept ==
    ASSUME UploadInv, NEW q \in Proc, NEW mine,
           at'[q] = at[q], upload'[q] = upload[q],
           (pc'[q] \in Attaching) = (pc[q] \in Attaching),
           at[q] # "none" => pc'[q] = pc[q] /\ req'[q] = req[q],
           at[q] # "none" => mine # upload[q].photo,
           saved' \subseteq saved \cup {mine}, Attached' \subseteq Attached \cup {mine},
           unsure \subseteq unsure', objects \subseteq objects' \cup {mine},
           at[q] # "none" =>
               \A o \in Proc \ {q} : at'[o] # "none" =>
                   \/ at[o] # "none" /\ upload'[o] = upload[o]
                   \/ upload'[o].photo # upload[q].photo
    PROVE  OwnUpload(q)'
<1>1. OwnUpload(q)
  BY DEF UploadInv
<1>2. CASE at[q] = "none"
  BY <1>1, <1>2 DEF OwnUpload
<1>3. CASE at[q] # "none"
  <2>1. \A o \in Proc \ {q} : at'[o] # "none" => upload'[o].photo # upload'[q].photo
    BY <1>1, <1>3 DEF OwnUpload
  <2>2. QED
    BY <1>1, <1>3, <2>1 DEF OwnUpload, UploadInv, UploadTypeOK
<1>4. QED
  BY <1>2, <1>3
\* A request of its own kind of step: nothing changes for the uploads.
LEMMA RecordStepKeeps ==
    ASSUME IInv, UploadInv, NEW p \in Proc, RecordStep(p)
    PROVE  UploadInv'
<1>1. at[p] = "none" /\ pc[p] \notin Attaching /\ UNCHANGED storage
  BY DEF RecordStep, UploadInv, OwnUpload
<1>2. /\ \A q \in Proc \ {p} : pc'[q] = pc[q] /\ req'[q] = req[q]
      /\ pc'[p] \notin Attaching
  BY <1>1 DEF IInv, TypeOK, RecordStep, CreateServiceRecord, ReviseServiceRecord,
     CheckRevisable, Statement, Fail, FindVehicle, CheckMileage, InsertRecord,
     SupersedeOriginal, Commit, CountAttachments, CommitAttachment, Refuse, End, Goto,
     Attaching
<1>3. Attached' = Attached
  <2>1. CASE Commit(p)
    BY <2>1, CommitShowsNothingNew
  <2>2. CASE ~Commit(p)
    <3>1. UNCHANGED tables
      BY <1>1, <2>2, OthersLeaveRows DEF RecordStep, Statement, CountAttachments,
         CommitAttachment, Attaching, Begin, Acquire
    <3>2. QED
      BY <3>1, SameTablesSameFiles
  <2>3. QED
    BY <2>1, <2>2
<1>4. QED
  BY <1>1, <1>2, <1>3 DEF storage, UploadInv, UploadTypeOK, OwnUpload, SavedIsKept,
     ShownIsStored, Accounted, InFlight
\* What a request may do to the uploads of the others: nothing, as long as the
\* only file it touches is its own.
LEMMA OthersKept ==
    ASSUME UploadInv, NEW p \in Proc, NEW mine,
           \A q \in Proc \ {p} :
               /\ at'[q] = at[q] /\ upload'[q] = upload[q]
               /\ pc'[q] = pc[q] /\ req'[q] = req[q]
               /\ at[q] # "none" => mine # upload[q].photo,
           at'[p] # "none" => upload'[p].photo = mine,
           saved' \subseteq saved \cup {mine}, Attached' \subseteq Attached \cup {mine},
           unsure \subseteq unsure', objects \subseteq objects' \cup {mine}
    PROVE  \A q \in Proc \ {p} : OwnUpload(q)'
<1> SUFFICES ASSUME NEW q \in Proc \ {p} PROVE OwnUpload(q)'
  OBVIOUS
<1>1. at[q] # "none" =>
          \A o \in Proc \ {q} : at'[o] # "none" =>
              \/ at[o] # "none" /\ upload'[o] = upload[o]
              \/ upload'[o].photo # upload[q].photo
  OBVIOUS
<1>2. QED
  BY <1>1, OtherUploadKept

LEMMA ReceiveKeeps ==
    ASSUME IInv, UploadInv, NEW p \in Proc, Receive(p)
    PROVE  UploadInv'
<1>0. /\ UploadTypeOK /\ OwnUpload(p) /\ SavedIsKept /\ ShownIsStored /\ Accounted
      /\ Attached' = Attached /\ pc' = pc /\ req' = req
      /\ UNCHANGED <<objects, saved, astray, unsure>>
  BY SameTablesSameFiles DEF UploadInv, Receive, vars
<1>1. PICK row \in Row, photo \in {f \in Photo : Unused(f)} :
          upload' = [upload EXCEPT ![p] = NewUpload(row, photo)]
  BY DEF Receive
<1>2. NewUpload(row, photo) \in Upload /\ NewUpload(row, photo).photo = photo
  BY BoundsAssumption DEF IInv, TypeOK, RowsFilled, NewUpload, Upload, Service, Row, Id
<1>3. upload'[p] = NewUpload(row, photo) /\ at'[p] = "store" /\ at[p] = "none"
  BY <1>0, <1>1 DEF Receive, UploadTypeOK
<1>4. \A q \in Proc \ {p} : upload'[q] = upload[q] /\ at'[q] = at[q]
  BY <1>0, <1>1 DEF Receive, UploadTypeOK
<1>5. photo \notin Attached /\ photo \notin saved
  BY <1>0 DEF Unused, SavedIsKept
<1>6. \A q \in Proc \ {p} : at[q] # "none" => photo # upload[q].photo
  BY DEF Unused
<1>7. OwnUpload(p)'
  BY <1>0, <1>2, <1>3, <1>4, <1>5, <1>6 DEF OwnUpload, Receive
<1>8. \A q \in Proc \ {p} : OwnUpload(q)'
  BY <1>0, <1>2, <1>3, <1>4, <1>6, OthersKept
<1>9. UploadTypeOK'
  BY <1>0, <1>1, <1>2 DEF UploadTypeOK, Receive
<1>10. InFlight' = InFlight
  BY <1>3, <1>4 DEF InFlight
<1>11. QED
  BY <1>0, <1>7, <1>8, <1>9, <1>10 DEF UploadInv, SavedIsKept, ShownIsStored, Accounted

LEMMA PutKeeps ==
    ASSUME UploadInv, NEW p \in Proc, Put(p)
    PROVE  UploadInv'
<1> DEFINE photo == upload[p].photo
<1>0. /\ UploadTypeOK /\ OwnUpload(p) /\ SavedIsKept /\ ShownIsStored /\ Accounted
      /\ Attached' = Attached /\ pc' = pc /\ req' = req
      /\ UNCHANGED <<upload, saved, astray, unsure>> /\ objects' = objects \cup {photo}
  BY SameTablesSameFiles DEF UploadInv, Put, Step, vars
<1>1. /\ at[p] = "store" /\ at'[p] = "link"
      /\ \A q \in Proc \ {p} : at'[q] = at[q]
  BY <1>0 DEF Put, Step, UploadTypeOK
<1>2. OwnUpload(p)'
  BY <1>0, <1>1 DEF OwnUpload
<1>3. \A q \in Proc \ {p} : at[q] # "none" => photo # upload[q].photo
  BY <1>0, <1>1 DEF OwnUpload
<1>4. \A q \in Proc \ {p} : OwnUpload(q)'
  BY <1>0, <1>1, <1>3, OthersKept
<1>5. UploadTypeOK'
  BY <1>0, <1>1 DEF UploadTypeOK, OwnUpload, Put, Step, Upload
<1>6. InFlight' = InFlight \cup {photo}
  BY <1>0, <1>1 DEF InFlight
<1>7. QED
  BY <1>0, <1>2, <1>4, <1>5, <1>6 DEF UploadInv, SavedIsKept, ShownIsStored, Accounted

\* The request ends: its file is stored or not, and is accounted for.
LEMMA EndKeeps ==
    ASSUME UploadInv, NEW p \in Proc, Answer(p), UploadTypeOK',
           at[p] # "none", pc'[p] \notin Attaching, Attached' = Attached,
           \A q \in Proc \ {p} : pc'[q] = pc[q] /\ req'[q] = req[q],
           UNCHANGED <<saved, astray>>, unsure \subseteq unsure',
           objects \ {upload[p].photo} \subseteq objects',
           objects' \subseteq objects \cup {upload[p].photo},
           upload[p].photo \in Attached =>
               upload[p].photo \in objects' \/ upload[p].photo \in unsure',
           upload[p].photo \in objects' => upload[p].photo \in Attached \cup unsure'
    PROVE  UploadInv'
<1> DEFINE photo == upload[p].photo
<1>0. UploadTypeOK /\ OwnUpload(p) /\ SavedIsKept /\ ShownIsStored /\ Accounted
  BY DEF UploadInv
<1>1. /\ at'[p] = "none" /\ upload'[p] = NoUpload
      /\ \A q \in Proc \ {p} : at'[q] = at[q] /\ upload'[q] = upload[q]
  BY <1>0 DEF Answer, UploadTypeOK
<1>2. OwnUpload(p)'
  BY <1>1 DEF OwnUpload
<1>3. /\ photo \notin saved
      /\ \A q \in Proc \ {p} : at[q] # "none" => photo # upload[q].photo
  BY <1>0 DEF OwnUpload
<1>4. \A q \in Proc \ {p} : OwnUpload(q)'
  BY <1>1, <1>3, OthersKept
<1>5. SavedIsKept' /\ ShownIsStored'
  BY <1>0, <1>3 DEF SavedIsKept, ShownIsStored
<1>6. InFlight \subseteq InFlight' \cup {photo}
  BY <1>1 DEF InFlight
<1>7. Accounted'
  BY <1>0, <1>6 DEF Accounted
<1>8. QED
  BY <1>2, <1>4, <1>5, <1>7 DEF UploadInv
LEMMA PutFailsKeeps ==
    ASSUME UploadInv, NEW p \in Proc, PutFails(p)
    PROVE  UploadInv'
<1> DEFINE photo == upload[p].photo
<1>0. /\ UploadTypeOK /\ OwnUpload(p) /\ Accounted
      /\ Attached' = Attached /\ pc' = pc /\ req' = req
      /\ at[p] = "store" /\ Answer(p) /\ UNCHANGED <<saved, astray>>
  BY SameTablesSameFiles DEF UploadInv, PutFails, PutError, vars
<1>1. /\ photo \in Photo /\ photo \notin Attached /\ pc[p] \notin Attaching
      /\ photo \notin InFlight
  BY <1>0 DEF OwnUpload, Upload, InFlight
<1>2. \/ objects' = objects /\ unsure' = unsure
      \/ objects' = objects \cup {photo} /\ unsure' = unsure \cup {photo}
  BY DEF PutFails
<1>3. UploadTypeOK'
  BY <1>0, <1>1, <1>2 DEF UploadTypeOK, Answer
<1>4. photo \in objects' => photo \in Attached \cup unsure'
  BY <1>0, <1>1, <1>2 DEF Accounted
<1>5. QED
  BY <1>0, <1>1, <1>2, <1>3, <1>4, EndKeeps

LEMMA RemoveOrphanKeeps ==
    ASSUME UploadInv, NEW p \in Proc, RemoveOrphan(p)
    PROVE  UploadInv'
<1> DEFINE photo == upload[p].photo
<1>0. /\ UploadTypeOK /\ OwnUpload(p)
      /\ Attached' = Attached /\ pc' = pc /\ req' = req
      /\ at[p] = "orphan" /\ Answer(p) /\ UNCHANGED <<saved, astray>>
  BY SameTablesSameFiles DEF UploadInv, RemoveOrphan, vars
<1>1. /\ photo \in Photo /\ pc[p] \notin Attaching
      /\ photo \in Attached => photo \in unsure
  BY <1>0 DEF OwnUpload, Upload, Attaching
<1>2. \/ objects' = objects \ {photo} /\ unsure' = unsure
      \/ objects' = objects /\ unsure' = unsure \cup {photo}
  BY DEF RemoveOrphan
<1>3. UploadTypeOK'
  BY <1>0, <1>1, <1>2 DEF UploadTypeOK, Answer
<1>4. QED
  BY <1>0, <1>1, <1>2, <1>3, EndKeeps

\* A rollback touches nothing but the request it ends.
LEMMA FailEnds ==
    ASSUME IInv, NEW p \in Proc, Fail(p)
    PROVE  /\ UNCHANGED tables /\ pc'[p] = "idle"
           /\ \A q \in Proc \ {p} : pc'[q] = pc[q] /\ req'[q] = req[q]
BY DEF IInv, TypeOK, Fail, Refuse, End

LEMMA KilledKeeps ==
    ASSUME IInv, UploadInv, NEW p \in Proc, Killed(p)
    PROVE  UploadInv'
<1> DEFINE photo == upload[p].photo
<1>0. /\ UploadTypeOK /\ OwnUpload(p) /\ at[p] # "none" /\ Answer(p)
      /\ UNCHANGED <<objects, saved, astray>> /\ unsure' = unsure \cup {photo}
  BY DEF UploadInv, Killed
<1>1. /\ Attached' = Attached /\ pc'[p] = "idle"
      /\ \A q \in Proc \ {p} : pc'[q] = pc[q] /\ req'[q] = req[q]
  <2>1. CASE Fail(p)
    BY <2>1, FailEnds, SameTablesSameFiles
  <2>2. CASE pc[p] = "idle" /\ UNCHANGED vars
    BY <2>2, SameTablesSameFiles DEF vars
  <2>3. QED
    BY <2>1, <2>2 DEF Killed, Rollback
<1>2. UploadTypeOK'
  BY <1>0 DEF UploadTypeOK, Answer, OwnUpload, Upload
<1>3. QED
  BY <1>0, <1>1, <1>2, EndKeeps DEF Attaching

LEMMA LinkKeeps ==
    ASSUME IInv, UploadInv, NEW p \in Proc, Link(p)
    PROVE  UploadInv'
<1> DEFINE photo == upload[p].photo
<1>0. /\ UploadTypeOK /\ OwnUpload(p) /\ SavedIsKept /\ ShownIsStored /\ Accounted
      /\ UNCHANGED tables /\ UNCHANGED <<upload, objects, saved, astray, unsure>>
  BY DEF UploadInv, Link, Step, AddAttachment
<1>1. /\ pc'[p] = "lockRecord" /\ req'[p] = upload[p]
      /\ \A q \in Proc \ {p} : pc'[q] = pc[q] /\ req'[q] = req[q]
  BY DEF IInv, TypeOK, Link, AddAttachment, Goto
<1>2. /\ at[p] = "link" /\ at'[p] = "linking"
      /\ \A q \in Proc \ {p} : at'[q] = at[q]
  BY <1>0 DEF Link, Step, UploadTypeOK
<1>3. Attached' = Attached /\ InFlight' = InFlight
  BY <1>0, <1>2, SameTablesSameFiles DEF InFlight
<1>4. OwnUpload(p)'
  BY <1>0, <1>1, <1>2, <1>3 DEF OwnUpload, Attaching
<1>5. \A q \in Proc \ {p} : at[q] # "none" => photo # upload[q].photo
  BY <1>0, <1>2 DEF OwnUpload
<1>6. \A q \in Proc \ {p} : OwnUpload(q)'
  BY <1>0, <1>1, <1>2, <1>3, <1>5, OthersKept
<1>7. UploadTypeOK'
  BY <1>0 DEF UploadTypeOK, Link, Step
<1>8. QED
  BY <1>0, <1>3, <1>4, <1>6, <1>7 DEF UploadInv, SavedIsKept, ShownIsStored, Accounted

----------------------------------------------------------------------------
(* The transaction of an upload.                                           *)

\* A statement of AddAttachment goes on, ends with nothing changed, or commits
\* the file.
LEMMA Statements ==
    ASSUME IInv, UploadInv, NEW p \in Proc, Linking(p)
    PROVE  /\ \A q \in Proc \ {p} : pc'[q] = pc[q] /\ req'[q] = req[q]
           /\ \/ /\ pc'[p] \in Attaching /\ req'[p] = req[p]
                 /\ Attached' = Attached /\ attachments' = attachments
              \/ /\ pc'[p] = "idle"
                 /\ Attached' = Attached /\ attachments' = attachments
              \/ /\ pc[p] = "commitAttachment" /\ pc'[p] = "idle"
                 /\ Attached' = Attached \cup {upload[p].photo}
                 /\ attachments' # attachments
<1>0. /\ OwnUpload(p) /\ at[p] = "linking" /\ req[p] = upload[p]
      /\ upload[p].photo \notin Attached
  BY DEF UploadInv, Linking, OwnUpload
<1>1. CASE LockRecord(p) \/ CountAttachments(p) \/ Fail(p)
  <2>1. UNCHANGED tables
    BY <1>1, OthersLeaveRows DEF Acquire
  <2>2. Attached' = Attached /\ attachments' = attachments
    BY <2>1, SameTablesSameFiles DEF tables
  <2>3. QED
    BY <1>1, <2>2 DEF IInv, TypeOK, LockRecord, CountAttachments, Fail, Refuse, End, Goto,
       Attaching
<1>2. CASE CommitAttachment(p)
  <2>1. Attached' = Attached \cup {upload[p].photo}
    BY <1>0, <1>2, CommitAttachmentShowsOne
  <2>2. attachments' # attachments
    BY <1>0, <1>2, <2>1 DEF CommitAttachment, Attached, Row
  <2>3. QED
    BY <1>2, <2>1, <2>2 DEF IInv, TypeOK, CommitAttachment, End
<1>3. QED
  BY <1>1, <1>2 DEF Linking
LEMMA LinkingKeeps ==
    ASSUME IInv, UploadInv, NEW p \in Proc, Linking(p)
    PROVE  UploadInv'
<1> DEFINE photo == upload[p].photo
           committed == pc[p] = "commitAttachment" /\ attachments' # attachments
<1>0. /\ UploadTypeOK /\ OwnUpload(p) /\ SavedIsKept /\ ShownIsStored /\ Accounted
      /\ at[p] = "linking" /\ UNCHANGED objects
  BY DEF UploadInv, Linking
<1>1. /\ photo \in Photo /\ photo \notin saved /\ photo \notin Attached
      /\ photo \in objects /\ req[p] = upload[p]
      /\ \A q \in Proc \ {p} : at[q] # "none" => photo # upload[q].photo
  BY <1>0 DEF OwnUpload, Upload
<1>2. \A q \in Proc \ {p} : pc'[q] = pc[q] /\ req'[q] = req[q]
  BY Statements
<1>3. Attached' \in {Attached, Attached \cup {photo}}
  BY Statements
<1>4. CASE pc'[p] # "idle" /\ UNCHANGED <<at, upload, saved, astray, unsure>>
  <2>1. pc'[p] \in Attaching /\ req'[p] = req[p] /\ Attached' = Attached
    BY <1>4, Statements
  <2>2. OwnUpload(p)'
    BY <1>0, <1>1, <1>4, <2>1 DEF OwnUpload
  <2>3. \A q \in Proc \ {p} : OwnUpload(q)'
    BY <1>0, <1>1, <1>2, <1>4, <2>1, OthersKept
  <2>4. QED
    BY <1>0, <1>4, <2>1, <2>2, <2>3 DEF UploadInv, UploadTypeOK, SavedIsKept,
       ShownIsStored, Accounted, InFlight
<1>5. CASE committed /\ AfterLink(p) /\ Saved(p) /\ UNCHANGED unsure
  <2>0. saved' = saved \cup {photo} /\ astray' \subseteq astray \cup {photo}
    BY <1>5 DEF Saved
  <2>1. Attached' = Attached \cup {photo} /\ pc'[p] = "idle"
    BY <1>5, Statements
  <2>2. /\ at'[p] = "none"
        /\ \A q \in Proc \ {p} : at'[q] = at[q] /\ upload'[q] = upload[q]
    BY <1>0, <1>5 DEF AfterLink, Answer, UploadTypeOK
  <2>3. OwnUpload(p)'
    BY <2>1, <2>2 DEF OwnUpload, Attaching
  <2>4. \A q \in Proc \ {p} : OwnUpload(q)'
    BY <1>0, <1>1, <1>2, <1>5, <2>0, <2>1, <2>2, OthersKept
  <2>5. UploadTypeOK'
    BY <1>0, <1>1, <1>5, <2>0 DEF UploadTypeOK, AfterLink, Answer
  <2>6. InFlight \subseteq InFlight' \cup {photo}
    BY <2>2 DEF InFlight
  <2>7. QED
    BY <1>0, <1>1, <1>5, <2>0, <2>1, <2>3, <2>4, <2>5, <2>6 DEF UploadInv, SavedIsKept,
       ShownIsStored, Accounted
<1>6. CASE /\ AfterFailure(p) /\ UNCHANGED <<saved, astray>> /\ pc'[p] = "idle"
           /\ \/ Attached' = Attached /\ UNCHANGED unsure
              \/ Attached' = Attached \cup {photo} /\ unsure' = unsure \cup {photo}
  <2>1. /\ at'[p] = "orphan" /\ upload' = upload
        /\ \A q \in Proc \ {p} : at'[q] = at[q]
    BY <1>0, <1>6 DEF AfterFailure, Step, UploadTypeOK
  <2>2. OwnUpload(p)'
    BY <1>0, <1>1, <1>6, <2>1 DEF OwnUpload, Attaching
  <2>3. \A q \in Proc \ {p} : OwnUpload(q)'
    BY <1>0, <1>1, <1>2, <1>6, <2>1, OthersKept
  <2>4. UploadTypeOK'
    BY <1>0, <1>1, <1>6 DEF UploadTypeOK, AfterFailure, Step
  <2>5. InFlight' = InFlight
    BY <1>0, <2>1 DEF InFlight
  <2>6. QED
    BY <1>0, <1>6, <2>2, <2>3, <2>4, <2>5 DEF UploadInv, SavedIsKept, ShownIsStored,
       Accounted
<1>7. QED
  <2>1. CASE ~Reliable /\ committed /\ AfterFailure(p) /\ unsure' = unsure \cup {photo}
             /\ UNCHANGED <<saved, astray>>
    <3>1. Attached' = Attached \cup {photo} /\ pc'[p] = "idle"
      BY <2>1, Statements
    <3>2. QED
      BY <1>6, <2>1, <3>1
  <2>2. CASE /\ pc'[p] = "idle" /\ ~committed /\ AfterFailure(p)
             /\ UNCHANGED <<saved, astray, unsure>>
    <3>1. Attached' = Attached
      BY <2>2, Statements DEF Attaching
    <3>2. QED
      BY <1>6, <2>2, <3>1
  <2>3. QED
    BY <1>4, <1>5, <2>1, <2>2 DEF Linking

----------------------------------------------------------------------------
(* The theorems.                                                           *)

LEMMA UploadStepKeeps == IInv /\ UploadInv /\ [UploadNext]_uploadVars => UploadInv'
<1> SUFFICES ASSUME IInv, UploadInv, [UploadNext]_uploadVars PROVE UploadInv'
  OBVIOUS
<1>1. CASE UNCHANGED uploadVars \/ (RegisterVehicle /\ UNCHANGED storage)
  <2>1. UNCHANGED <<pc, req, last, attachments>> /\ UNCHANGED storage
    BY <1>1 DEF uploadVars, vars, tables, RegisterVehicle
  <2>2. Attached' = Attached
    BY <2>1 DEF Attached, Row
  <2>3. QED
    BY <2>1, <2>2 DEF storage, UploadInv, UploadTypeOK, OwnUpload, SavedIsKept,
       ShownIsStored, Accounted, InFlight
<1>2. ASSUME NEW p \in Proc, UploadStep(p) PROVE UploadInv'
  BY <1>2, ReceiveKeeps, PutKeeps, PutFailsKeeps, LinkKeeps, LinkingKeeps,
     RemoveOrphanKeeps, KilledKeeps DEF UploadStep
<1>3. ASSUME NEW p \in Proc, RecordStep(p) PROVE UploadInv'
  BY <1>3, RecordStepKeeps
<1>4. QED
  BY <1>1, <1>2, <1>3 DEF UploadNext

\* UploadInv holds in every state, with the invariant of the transactions the
\* uploads run.
THEOREM UploadInvariance == UploadSpec => [](IInv /\ UploadInv)
<1>1. UploadInit => IInv /\ UploadInv
  BY InitEstablishes, UploadInitEstablishes DEF UploadInit
<1>2. IInv /\ UploadInv /\ [UploadNext]_uploadVars => (IInv /\ UploadInv)'
  BY StepIsRecordStep, StepKeeps, UploadStepKeeps
<1>3. QED
  BY <1>1, <1>2, PTL DEF UploadSpec

\* The listings keep every saved file that is not astray: a correction takes
\* along what its original has when it commits, the lock of the row being its.
LEMMA ListedKept ==
    ASSUME IInv, UploadInv, SavedIsListed, [UploadNext]_uploadVars
    PROVE  SavedIsListed'
<1> USE BoundsAssumption
<1>0. /\ UploadTypeOK /\ TypeOK /\ RowsFilled
      /\ CurrentRow \subseteq Row /\ Row \subseteq Id
  BY DEF UploadInv, IInv, TypeOK, CurrentRow, Row, Id
<1>1. ASSUME UNCHANGED <<saved, astray, last, supersededBy>>,
             \A i \in Row : attachments[i] \subseteq attachments'[i]
      PROVE  SavedIsListed'
  BY <1>0, <1>1 DEF SavedIsListed, CurrentRow, Row
<1>2. ASSUME NEW p \in Proc, Commit(p), UNCHANGED storage PROVE SavedIsListed'
  <2> DEFINE new == last + 1
             original == req[p].original
  <2>1. /\ Row' = Row \cup {new} /\ new \in Id /\ new \notin Row /\ supersededBy[new] = 0
        /\ attachments' = [attachments EXCEPT ![new] = req[p].carried]
        /\ original = 0 => supersededBy' = supersededBy
        /\ original # 0 =>
              /\ supersededBy' = [supersededBy EXCEPT ![original] = new]
              /\ original \in CurrentRow
              /\ req[p].carried = attachments[original]
    BY <1>2, CommitWrites
  <2> HIDE DEF new, original
  <2>2. \A i \in CurrentRow : i # original => i \in CurrentRow'
    BY <1>0, <2>1 DEF CurrentRow, TypeOK
  <2>3. \A i \in Row : attachments'[i] = attachments[i]
    BY <1>0, <2>1 DEF TypeOK
  <2>4. /\ new \in CurrentRow'
        /\ original # 0 => attachments'[new] = attachments[original]
    BY <1>0, <2>1 DEF CurrentRow, TypeOK
  <2>5. saved' = saved /\ astray' = astray
    BY <1>2 DEF storage
  <2>6. \A i \in CurrentRow : i # 0
    BY <1>0 DEF Row
  <2>7. QED
    BY <1>0, <2>2, <2>3, <2>4, <2>5, <2>6 DEF SavedIsListed
<1>3. ASSUME NEW p \in Proc, CommitAttachment(p), Linking(p) PROVE SavedIsListed'
  <2> DEFINE row == upload[p].original
             photo == upload[p].photo
  <2>1. /\ UNCHANGED <<last, supersededBy>> /\ req[p] = upload[p] /\ row \in Row
        /\ attachments' = [attachments EXCEPT ![row] = @ \cup {photo}]
    <3>1. req[p] = upload[p] /\ pc[p] = "commitAttachment"
      BY <1>3 DEF CommitAttachment, Linking, UploadInv, OwnUpload
    <3>2. req[p].original \in Id /\ req[p].original <= last
      BY <3>1 DEF IInv, RequestInv, Fits, Attaching, Upload
    <3>3. req[p].original \in Row
      BY <1>0, <3>2 DEF TypeOK, Row, Id
    <3>4. QED
      BY <1>3, <3>1, <3>3 DEF CommitAttachment
  <2>2. \A i \in Row : attachments[i] \subseteq attachments'[i]
    BY <1>0, <2>1 DEF TypeOK
  <2>3. CASE UNCHANGED <<saved, astray>>
    BY <1>1, <2>1, <2>2, <2>3
  <2>4. CASE Saved(p)
    <3>1. SavedIsListed => \A f \in saved \ astray : \E i \in CurrentRow' : f \in attachments'[i]
      BY <1>0, <2>1, <2>2 DEF SavedIsListed, CurrentRow, Row
    <3>2. supersededBy[row] = 0 => row \in CurrentRow' /\ photo \in attachments'[row]
      BY <1>0, <2>1 DEF TypeOK, CurrentRow, Row
    <3>3. /\ saved' = saved \cup {photo} /\ astray \subseteq astray'
          /\ photo \in astray' \/ supersededBy[row] = 0
      BY <2>4 DEF Saved
    <3>4. QED
      BY <3>1, <3>2, <3>3 DEF SavedIsListed
  <2>5. QED
    BY <1>3, <2>3, <2>4 DEF Linking
<1>4. CASE UNCHANGED uploadVars
  BY <1>1, <1>4 DEF uploadVars, vars, tables, storage
<1>5. CASE RegisterVehicle /\ UNCHANGED storage
  BY <1>1, <1>5 DEF RegisterVehicle, storage
<1>6. ASSUME NEW p \in Proc, UploadStep(p) PROVE SavedIsListed'
  <2>1. CASE Receive(p) \/ Put(p) \/ PutFails(p) \/ RemoveOrphan(p)
    BY <1>1, <2>1 DEF Receive, Put, PutFails, RemoveOrphan, vars, tables
  <2>2. CASE Link(p)
    BY <1>1, <2>2 DEF Link, AddAttachment, tables
  <2>3. CASE Killed(p)
    <3>1. UNCHANGED tables
      BY <2>3, FailEnds DEF Killed, Rollback, vars
    <3>2. QED
      BY <1>1, <2>3, <3>1 DEF Killed, tables
  <2>4. CASE Linking(p) /\ ~CommitAttachment(p)
    <3>1. UNCHANGED tables
      BY <2>4, OthersLeaveRows DEF Linking, Acquire
    <3>2. UNCHANGED <<saved, astray>>
      BY <2>4, <3>1 DEF Linking, tables
    <3>3. QED
      BY <1>1, <3>1, <3>2 DEF tables
  <2>5. QED
    BY <1>3, <1>6, <2>1, <2>2, <2>3, <2>4 DEF UploadStep
<1>7. ASSUME NEW p \in Proc, RecordStep(p) PROVE SavedIsListed'
  <2>1. at[p] = "none" /\ pc[p] \notin Attaching /\ UNCHANGED storage
    BY <1>7 DEF RecordStep, UploadInv, OwnUpload
  <2>2. CASE Commit(p)
    BY <1>2, <2>1, <2>2
  <2>3. CASE ~Commit(p)
    <3>1. UNCHANGED tables
      BY <1>7, <2>1, <2>3, OthersLeaveRows DEF RecordStep, Statement, CountAttachments,
         CommitAttachment, Attaching, Begin, Acquire
    <3>2. QED
      BY <1>1, <2>1, <3>1 DEF tables, storage
  <2>4. QED
    BY <2>2, <2>3
<1>8. QED
  BY <1>4, <1>5, <1>6, <1>7 DEF UploadNext

\* A file its client was told is saved is shown by the listings, whatever
\* corrections race its upload, unless its record had been replaced when its
\* row was written.
THEOREM SavedFilesAreListed == UploadSpec => []SavedIsListed
<1>1. UploadInit => SavedIsListed
  BY DEF UploadInit, SavedIsListed
<1>2. IInv /\ UploadInv /\ SavedIsListed /\ [UploadNext]_uploadVars => SavedIsListed'
  BY ListedKept
<1>3. QED
  BY <1>1, <1>2, UploadInvariance, PTL DEF UploadSpec

\* A file its client was told is saved stays in the bucket and on a record.
THEOREM SavedFilesAreKept == UploadSpec => []SavedIsKept
<1>1. UploadInv => SavedIsKept
  BY DEF UploadInv
<1>2. QED
  BY <1>1, UploadInvariance, PTL

\* No record, corrections included, shows a file the bucket does not have,
\* unless the outcome of a call about it was lost.
THEOREM ShownFilesAreStored == UploadSpec => []ShownIsStored
<1>1. UploadInv => ShownIsStored
  BY DEF UploadInv
<1>2. QED
  BY <1>1, UploadInvariance, PTL

\* Between uploads the bucket holds nothing that no record shows, unless the
\* outcome of a call about it was lost.
THEOREM NoFileIsOrphaned == UploadSpec => []NoOrphans
<1>1. UploadInv => NoOrphans
  BY DEF UploadInv, Accounted, NoOrphans, InFlight
<1>2. QED
  BY <1>1, UploadInvariance, PTL
=============================================================================
