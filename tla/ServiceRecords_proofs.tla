------------------------ MODULE ServiceRecords_proofs ------------------------
(***************************************************************************)
(* Proofs about ServiceRecords, for any number of requests, shops, bikes,  *)
(* files and rows.  The argument is the inductive invariant IInv: what a   *)
(* transaction read of a row it has locked stays true until it commits.    *)
(* The refinement of History needs two things more (HistoryInv): that what *)
(* a request was told without a lock cannot be undone, and that the rows   *)
(* form lines, each commit adding one version to the end of one of them.   *)
(***************************************************************************)
EXTENDS ServiceRecords, FiniteSetTheorems, SequenceTheorems, WellFoundedInduction, TLAPS

\* What IInv says of the tables alone.
TablesInv == RowsFilled /\ FilesFinite /\ CapHolds /\ ChainsNeverFork

\* A step that writes no table keeps what IInv says of the tables.
LEMMA TablesKept ==
    ASSUME TablesInv, UNCHANGED tables
    PROVE  TablesInv'
BY DEF TablesInv, tables, RowsFilled, FilesFinite, CapHolds, ChainsNeverFork, Row, Id,
       Service

\* A request keeps its part of IInv through a step of another one that leaves
\* the row it holds alone.
LEMMA OtherRequestKept ==
    ASSUME IInv, TypeOK', NEW q \in Proc,
           pc'[q] = pc[q], req'[q] = req[q], last' \in Nat, last <= last',
           \A i \in Id : i <= last => service'[i] = service[i],
           \A i \in Id : i <= last /\ lock[i] = q =>
               /\ lock'[i] = q
               /\ supersededBy'[i] = supersededBy[i]
               /\ attachments'[i] = attachments[i]
    PROVE  RequestInv(q)'
<1> USE BoundsAssumption
<1>1. RequestInv(q)
  BY DEF IInv
<1>2. Fits(q)'
  BY <1>1 DEF IInv, TypeOK, RequestInv, Fits, Writing, Attaching, Write, Upload, Id
<1>3. HoldsOriginal(q)'
  <2>1. CASE pc[q] \in Writing
    BY <1>1, <2>1, SMTT(30) DEF IInv, TypeOK, RequestInv, Fits, HoldsOriginal, Revisable, Writing,
       Attaching, HoldingWrite, HoldingUpload, Write, Id
  <2>2. CASE pc[q] \in Attaching
    BY <1>1, <2>2, SMTT(30) DEF IInv, TypeOK, RequestInv, Fits, HoldsOriginal, Revisable, Writing,
       Attaching, HoldingWrite, HoldingUpload, Upload, Id
  <2>3. CASE pc[q] = "idle"
    BY <2>3 DEF HoldsOriginal, Writing, HoldingWrite, HoldingUpload
  <2>4. QED
    BY <2>1, <2>2, <2>3 DEF IInv, TypeOK
<1>4. ReadsStayTrue(q)'
  <2>1. CASE pc[q] \in Writing
    BY <1>1, <2>1, SMTT(30) DEF IInv, TypeOK, RequestInv, Fits, HoldsOriginal, ReadsStayTrue, Writing,
       HoldingWrite, Write, Id
  <2>2. CASE pc[q] \in Attaching
    BY <1>1, <2>2, SMTT(30) DEF IInv, TypeOK, RequestInv, Fits, HoldsOriginal, ReadsStayTrue, Writing,
       Attaching, HoldingUpload, Upload, Id
  <2>3. CASE pc[q] = "idle"
    BY <2>3 DEF ReadsStayTrue, Writing
  <2>4. QED
    BY <2>1, <2>2, <2>3 DEF IInv, TypeOK
<1>5. QED
  BY <1>2, <1>3, <1>4 DEF RequestInv

\* The tables start empty.
LEMMA InitEstablishes == Init => IInv
<1> SUFFICES ASSUME Init PROVE IInv
  OBVIOUS
<1> USE BoundsAssumption
<1>1. TypeOK
  BY DEF Init, TypeOK, Id
<1>2. \A p \in Proc : RequestInv(p)
  BY DEF Init, RequestInv, Fits, HoldsOriginal, ReadsStayTrue, Writing, Attaching,
         HoldingWrite, HoldingUpload
<1>3. RowsFilled /\ ChainsNeverFork
  BY DEF Init, RowsFilled, ChainsNeverFork, Row, Id
<1>4. FilesFinite /\ CapHolds
  <2>1. IsFiniteSet({}) /\ Cardinality({}) = 0
    BY FS_EmptySet
  <2>2. QED
    BY <2>1 DEF Init, FilesFinite, CapHolds
<1>5. QED
  BY <1>1, <1>2, <1>3, <1>4 DEF IInv

\* A step of p that writes no table and takes nobody's lock away keeps IInv
\* when p's own part holds after it.
LEMMA LocalStepKeeps ==
    ASSUME IInv, NEW p \in Proc, UNCHANGED tables, TypeOK',
           \A q \in Proc \ {p} :
               /\ pc'[q] = pc[q] /\ req'[q] = req[q]
               /\ \A i \in Id : lock[i] = q => lock'[i] = q,
           RequestInv(p)'
    PROVE  IInv'
<1>1. TablesInv'
  BY TablesKept DEF IInv, TablesInv
<1>2. ASSUME NEW q \in Proc \ {p} PROVE RequestInv(q)'
  BY OtherRequestKept DEF IInv, TypeOK, tables
<1>3. QED
  BY <1>1, <1>2 DEF IInv, TablesInv

\* A refusal or a rollback releases the locks and touches nothing else.
LEMMA RefuseKeeps ==
    ASSUME IInv, NEW p \in Proc, Refuse(p)
    PROVE  IInv'
<1> USE DEF Refuse, End, tables
<1>1. TypeOK'
  BY DEF IInv, TypeOK
<1>2. RequestInv(p)'
  BY DEF IInv, TypeOK, RequestInv, Fits, HoldsOriginal, ReadsStayTrue, Writing,
     Attaching, HoldingWrite, HoldingUpload
<1>3. QED
  BY <1>1, <1>2, LocalStepKeeps DEF IInv, TypeOK

\* The handlers load what they are about to write to from committed rows.
LEMMA BeginKeeps ==
    ASSUME IInv, NEW p \in Proc, Begin(p)
    PROVE  IInv'
<1> USE BoundsAssumption DEF Goto
<1>1. CASE CreateServiceRecord(p)
  <2> USE <1>1 DEF CreateServiceRecord, tables
  <2>0. PICK w \in Workshop, plate \in Plate, km \in Km, confirm \in Confirm,
             name \in Name \cup {NoName} :
           req' = [req EXCEPT ![p] = Input(w, plate, km, confirm, name, 0)]
    OBVIOUS
  <2> DEFINE r == Input(w, plate, km, confirm, name, 0)
  <2>1. /\ req' = [req EXCEPT ![p] = r]
        /\ r \in Write /\ r.original = 0 /\ r.carried = {}
    <3>1. confirm \in BOOLEAN /\ 0 \in 0..MaxRecords
      OBVIOUS
    <3>2. r.confirm \in BOOLEAN
      BY <3>1 DEF Input
    <3>3. QED
      BY <2>0, <3>1, <3>2 DEF Input, Write
  <2> HIDE DEF r
  <2>2. TypeOK'
    BY <2>1 DEF IInv, TypeOK, Writing
  <2>3. req'[p] = r /\ pc'[p] = "vehicle" /\ UNCHANGED last /\ last >= 0
    BY <2>1 DEF IInv, TypeOK
  <2>4. RequestInv(p)'
    BY <2>1, <2>3 DEF RequestInv, Fits, HoldsOriginal, ReadsStayTrue, Writing,
       Attaching, HoldingWrite, HoldingUpload
  <2>5. QED
    BY <2>1, <2>2, <2>4, LocalStepKeeps DEF IInv, TypeOK
<1>2. CASE ReviseServiceRecord(p)
  <2> USE <1>2 DEF ReviseServiceRecord, tables
  <2>0. PICK i \in Row, w \in Workshop, km \in Km, name \in Name \cup {NoName} :
           req' = [req EXCEPT ![p] = Input(w, service[i].plate, km, FALSE, name, i)]
    OBVIOUS
  <2> DEFINE r == Input(w, service[i].plate, km, FALSE, name, i)
  <2>1. /\ r \in Write /\ r.original = i /\ i # 0 /\ i <= last
        /\ r.carried = {} /\ r.plate = service[i].plate
    <3>1. i \in Id /\ i <= last
      BY DEF IInv, TypeOK, Row, Id
    <3>2. service[i].plate \in Plate
      BY <3>1 DEF IInv, RowsFilled, Service
    <3>3. QED
      BY <3>1, <3>2 DEF Input, Write, Id
  <2> HIDE DEF r
  <2>2. TypeOK'
    BY <2>0, <2>1 DEF IInv, TypeOK, Writing, r
  <2>3. req'[p] = r /\ pc'[p] = "lock" /\ UNCHANGED <<tables, lock>>
    BY <2>0 DEF IInv, TypeOK, r
  <2>4. RequestInv(p)'
    BY <2>1, <2>3 DEF RequestInv, Fits, HoldsOriginal, ReadsStayTrue, Writing,
       Attaching, HoldingWrite, HoldingUpload
  <2>5. QED
    BY <2>0, <2>2, <2>4, LocalStepKeeps DEF IInv, TypeOK
<1>3. CASE AddAttachment(p)
  <2> USE <1>3 DEF AddAttachment, tables
  <2>0. PICK i \in Row, w \in Workshop, photo \in Photo :
           req' = [req EXCEPT ![p] = [workshop |-> w, original |-> i, photo |-> photo]]
    OBVIOUS
  <2> DEFINE r == [workshop |-> w, original |-> i, photo |-> photo]
  <2>1. r \in Upload /\ req' = [req EXCEPT ![p] = r] /\ r.original = i /\ i <= last
    <3>1. i \in Id /\ i <= last
      BY DEF IInv, TypeOK, Row, Id
    <3>2. r \in Upload
      BY <3>1 DEF Upload
    <3>3. QED
      BY <2>0, <3>1, <3>2
  <2> HIDE DEF r
  <2>2. TypeOK'
    BY <2>1 DEF IInv, TypeOK, Attaching
  <2>3. req'[p] = r /\ pc'[p] = "lockRecord" /\ UNCHANGED last
    BY <2>1 DEF IInv, TypeOK
  <2>4. RequestInv(p)'
    BY <2>1, <2>3 DEF RequestInv, Fits, HoldsOriginal, ReadsStayTrue, Writing,
       Attaching, HoldingWrite, HoldingUpload
  <2>5. QED
    BY <2>1, <2>2, <2>4, LocalStepKeeps DEF IInv, TypeOK
<1>4. QED
  BY <1>1, <1>2, <1>3 DEF Begin

\* Only a free row is locked, and a write only goes on with a revisable one.
LEMMA AcquireKeeps ==
    ASSUME IInv, NEW p \in Proc, Acquire(p)
    PROVE  IInv'
<1> USE BoundsAssumption, NothingAssumption DEF Goto, Free
<1>1. CASE CheckRevisable(p)
  <2>1. CASE Refuse(p)
    BY <2>1, RefuseKeeps
  <2>2. CASE ~Refuse(p)
    <3> USE <1>1, <2>2 DEF CheckRevisable, tables
    <3>1. req[p].original \in Id /\ req[p] \in Write
      BY DEF IInv, RequestInv, Fits, Writing, Write, Id
    <3>2. TypeOK'
      BY <3>1 DEF IInv, TypeOK, Writing
    <3>3. RequestInv(p)'
      BY <3>1 DEF IInv, TypeOK, RequestInv, Fits, HoldsOriginal, ReadsStayTrue, Writing,
         Attaching, HoldingWrite, HoldingUpload, Revisable
    <3>4. QED
      BY <3>1, <3>2, <3>3, LocalStepKeeps DEF IInv, TypeOK
  <2>3. QED
    BY <2>1, <2>2
<1>2. CASE LockRecord(p)
  <2>1. CASE Refuse(p)
    BY <2>1, RefuseKeeps
  <2>2. CASE ~Refuse(p)
    <3> USE <1>2, <2>2 DEF LockRecord, tables
    <3>1. req[p].original \in Id /\ req[p] \in Upload
      BY DEF IInv, RequestInv, Fits, Attaching, Upload, Id
    <3>2. TypeOK'
      BY <3>1 DEF IInv, TypeOK, Attaching
    <3>3. RequestInv(p)'
      BY <3>1 DEF IInv, TypeOK, RequestInv, Fits, HoldsOriginal, ReadsStayTrue, Writing,
         Attaching, HoldingWrite, HoldingUpload
    <3>4. QED
      BY <3>1, <3>2, <3>3, LocalStepKeeps DEF IInv, TypeOK
  <2>3. QED
    BY <2>1, <2>2
<1>3. QED
  BY <1>1, <1>2 DEF Acquire

\* The statements between the lock and the commit only move p's locals.
LEMMA ReadStatementKeeps ==
    ASSUME IInv, NEW p \in Proc,
           \/ FindVehicle(p) \/ CheckMileage(p) \/ InsertRecord(p)
           \/ SupersedeOriginal(p) \/ CountAttachments(p)
    PROVE  IInv'
<1> USE BoundsAssumption DEF Goto, tables
<1>0. RequestInv(p) /\ TypeOK
  BY DEF IInv
<1>1. CASE Refuse(p)
  BY <1>1, RefuseKeeps
<1>2. CASE ~Refuse(p) /\ FindVehicle(p)
  <2> USE <1>2 DEF FindVehicle
  <2>1. TypeOK'
    BY <1>0 DEF TypeOK, Writing
  <2>2. RequestInv(p)'
    BY <1>0 DEF TypeOK, RequestInv, Fits, HoldsOriginal, ReadsStayTrue, Writing,
       Attaching, HoldingWrite, HoldingUpload, Revisable
  <2>3. QED
    BY <2>1, <2>2, LocalStepKeeps DEF IInv, TypeOK
<1>3. CASE ~Refuse(p) /\ CheckMileage(p)
  <2> USE <1>3 DEF CheckMileage
  <2>1. TypeOK'
    BY <1>0 DEF TypeOK, Writing
  <2>2. RequestInv(p)'
    BY <1>0 DEF TypeOK, RequestInv, Fits, HoldsOriginal, ReadsStayTrue, Writing,
       Attaching, HoldingWrite, HoldingUpload, Revisable
  <2>3. QED
    BY <2>1, <2>2, LocalStepKeeps DEF IInv, TypeOK
<1>4. CASE InsertRecord(p)
  <2> USE <1>4 DEF InsertRecord
  <2>1. PICK h \in BOOLEAN : req' = [req EXCEPT ![p].hire = h]
    BY Zenon
  <2> DEFINE r == [req[p] EXCEPT !.hire = h]
  <2>2. req[p] \in Write /\ r \in Write /\ req' = [req EXCEPT ![p] = r] /\ req'[p] = r
    <3>1. req[p] \in Write
      BY <1>0 DEF RequestInv, Fits, Writing
    <3>2. r \in Write
      BY <3>1 DEF Write
    <3>3. QED
      BY <1>0, <2>1, <3>1, <3>2 DEF TypeOK
  <2>3. TypeOK'
    BY <1>0, <2>1, <2>2 DEF TypeOK, Writing
  <2>4. RequestInv(p)'
    BY <1>0, <2>2 DEF TypeOK, RequestInv, Fits, HoldsOriginal, ReadsStayTrue, Writing,
       Attaching, HoldingWrite, HoldingUpload, Revisable, Write
  <2>5. QED
    BY <2>1, <2>3, <2>4, LocalStepKeeps DEF IInv, TypeOK
<1>5. CASE SupersedeOriginal(p)
  <2> USE <1>5 DEF SupersedeOriginal, Carried
  <2>1. req[p] \in Write /\ req[p].original \in Id
    BY <1>0 DEF TypeOK, RequestInv, Fits, Writing, Write, Id
  <2>2. /\ req'[p] = [req[p] EXCEPT !.carried = attachments[req[p].original]]
        /\ req'[p] \in Write
    BY <1>0, <2>1 DEF TypeOK, Write
  <2>3. TypeOK'
    BY <1>0, <2>2 DEF TypeOK, Writing
  <2>4. RequestInv(p)'
    BY <1>0, <2>1, <2>2 DEF TypeOK, RequestInv, Fits, HoldsOriginal, ReadsStayTrue, Writing,
       Attaching, HoldingWrite, HoldingUpload, Revisable, Write
  <2>5. QED
    BY <2>3, <2>4, LocalStepKeeps DEF IInv, TypeOK
<1>6. CASE ~Refuse(p) /\ CountAttachments(p)
  <2> USE <1>6 DEF CountAttachments, HasRoom
  <2>1. TypeOK'
    BY <1>0 DEF TypeOK, Attaching
  <2>2. RequestInv(p)'
    BY <1>0 DEF TypeOK, RequestInv, Fits, HoldsOriginal, ReadsStayTrue, Writing,
       Attaching, HoldingWrite, HoldingUpload
  <2>3. QED
    BY <2>1, <2>2, LocalStepKeeps DEF IInv, TypeOK
<1>7. QED
  BY <1>1, <1>2, <1>3, <1>4, <1>5, <1>6

\* The commit of a write adds a row after every other one and, in a
\* correction, points a row that was still current at it.
LEMMA CommitKeeps ==
    ASSUME IInv, NEW p \in Proc, Commit(p)
    PROVE  IInv'
<1> DEFINE r == req[p]
           new == last + 1
<1> USE BoundsAssumption
<1>0. TypeOK /\ RequestInv(p) /\ RowsFilled /\ FilesFinite /\ CapHolds /\ ChainsNeverFork
  BY DEF IInv
<1>1. /\ r \in Write /\ r.original <= last /\ r.original \in Nat
      /\ new \in Id /\ last \in Nat /\ pc[p] = "commit"
  BY <1>0 DEF Commit, TypeOK, RequestInv, Fits, Writing, Write, Id
<1>2. /\ vehicles' = vehicles
      /\ last' = new
      /\ service' = [service EXCEPT ![new] =
                       [workshop |-> r.workshop, plate |-> r.plate, km |-> r.km]]
      /\ corrects' = [corrects EXCEPT ![new] = r.original]
      /\ attachments' = [attachments EXCEPT ![new] = r.carried]
      /\ pc' = [pc EXCEPT ![p] = "idle"]
      /\ req' = [req EXCEPT ![p] = NoRequest]
      /\ lock' = [i \in Id |-> IF lock[i] = p THEN NoProc ELSE lock[i]]
  BY DEF Commit, End
<1>3. /\ r.original = 0 => supersededBy' = supersededBy
      /\ r.original # 0 => supersededBy' = [supersededBy EXCEPT ![r.original] = new]
  BY DEF Commit
<1>4. /\ r.original = 0 => r.carried = {}
      /\ r.original # 0 =>
           /\ r.original \in Id /\ r.original <= last
           /\ supersededBy[r.original] = 0
           /\ service[r.original].workshop = r.workshop
           /\ service[r.original].plate = r.plate
           /\ lock[r.original] = p
           /\ r.carried = attachments[r.original]
  BY <1>0, <1>1 DEF RequestInv, HoldsOriginal, ReadsStayTrue, Revisable, Writing,
     HoldingWrite, Id
<1> HIDE DEF r, new
<1>5. new = last + 1
  BY DEF new
<1>6. TypeOK'
  <2>1. service' \in [Id -> Service \cup {NoService}] /\ last' \in 0..MaxRecords
    BY <1>0, <1>1, <1>2 DEF TypeOK, Service, Write, Id
  <2>2. supersededBy' \in [Id -> 0..MaxRecords]
    <3>1. CASE r.original = 0
      BY <1>0, <1>3, <3>1 DEF TypeOK
    <3>2. CASE r.original # 0
      <4>1. new \in 0..MaxRecords /\ supersededBy \in [Id -> 0..MaxRecords]
        BY <1>0, <1>1 DEF TypeOK, Id
      <4>2. supersededBy' = [supersededBy EXCEPT ![r.original] = new]
        BY <1>3, <3>2
      <4>3. QED
        BY <4>1, <4>2
    <3>3. QED
      BY <3>1, <3>2
  <2>3. attachments' \in [Id -> SUBSET Photo]
    BY <1>0, <1>1, <1>2 DEF TypeOK, Write
  <2>4. mechanics' \in [Workshop -> [Name -> Nat]]
    <3>1. r.workshop \in Workshop /\ mechanics[r.workshop] \in [Name -> Nat]
      BY <1>0, <1>1 DEF TypeOK, Write
    <3>2. ASSUME NEW f \in [Name -> Nat], NEW n
          PROVE  [f EXCEPT ![n] = @ + 1] \in [Name -> Nat]
      <4>1. CASE n \in Name
        <5>1. f[n] + 1 \in Nat
          BY <4>1
        <5>2. QED
          BY <5>1
      <4>2. CASE n \notin Name
        BY <4>2
      <4>3. QED
        BY <4>1, <4>2
    <3>3. [mechanics EXCEPT ![r.workshop] =
             [mechanics[r.workshop] EXCEPT ![r.mechanic] = @ + 1]]
             \in [Workshop -> [Name -> Nat]]
      BY <1>0, <3>1, <3>2 DEF TypeOK
    <3>4. mechanics' = mechanics \/ mechanics' = Hired(r.workshop, r.mechanic)
      BY DEF Commit, r
    <3>5. QED
      BY <1>0, <3>3, <3>4 DEF TypeOK, Hired
  <2>5. pc' \in [Proc -> {"idle"} \cup Writing \cup Attaching]
    BY <1>0, <1>2 DEF TypeOK
  <2>6. corrects' \in [Id -> 0..MaxRecords]
    BY <1>0, <1>1, <1>2 DEF TypeOK, Write
  <2>7. QED
    BY <1>0, <1>2, <2>1, <2>2, <2>3, <2>4, <2>5, <2>6 DEF TypeOK
<1>7. ASSUME NEW q \in Proc PROVE RequestInv(q)'
  <2>1. CASE q = p
    BY <2>1, <1>0, <1>2 DEF TypeOK, RequestInv, Fits, HoldsOriginal, ReadsStayTrue,
       Writing, Attaching, HoldingWrite, HoldingUpload
  <2>2. CASE q # p
    <3>1. \A i \in Id : lock[i] = q => lock'[i] = q /\ i # r.original
      BY <1>0, <1>2, <1>4, <2>2 DEF TypeOK, Id
    <3>2. \A i \in Id : i <= last => /\ service'[i] = service[i]
                                     /\ attachments'[i] = attachments[i]
      BY <1>0, <1>1, <1>2, <1>5 DEF TypeOK, Id
    <3>5. \A i \in Id : i # r.original => supersededBy'[i] = supersededBy[i]
      BY <1>0, <1>3 DEF TypeOK
    <3>3. pc'[q] = pc[q] /\ req'[q] = req[q] /\ last' \in Nat /\ last <= last'
      BY <1>0, <1>1, <1>2, <1>5, <2>2 DEF TypeOK
    <3>4. QED
      BY <1>6, <3>1, <3>2, <3>3, <3>5, OtherRequestKept
  <2>3. QED
    BY <2>1, <2>2
<1>8. RowsFilled'
  BY <1>0, <1>1, <1>2, <1>3, <1>4, <1>5 DEF TypeOK, RowsFilled, Id, Write, Service
<1>9. FilesFinite' /\ CapHolds'
  <2>1. IsFiniteSet({}) /\ Cardinality({}) = 0
    BY FS_EmptySet
  <2>2. IsFiniteSet(r.carried) /\ Cardinality(r.carried) <= MaxAttachments
    BY <1>0, <1>4, <2>1 DEF FilesFinite, CapHolds
  <2>3. \A i \in Id : attachments'[i] = attachments[i] \/ attachments'[i] = r.carried
    BY <1>0, <1>2 DEF TypeOK
  <2>4. QED
    BY <1>0, <2>2, <2>3 DEF FilesFinite, CapHolds
<1>10. ChainsNeverFork'
  <2>2. Row' = Row \cup {new} /\ new \notin Row /\ Row \subseteq Id /\ new \in Id
    BY <1>1, <1>2, <1>5 DEF Row, Id
  <2>3. /\ service'[new].workshop = r.workshop /\ service'[new].plate = r.plate
        /\ \A i \in Row : service'[i] = service[i]
    BY <1>0, <1>2, <2>2 DEF TypeOK
  <2>4. corrects'[new] = r.original /\ \A i \in Row : corrects'[i] = corrects[i]
    BY <1>0, <1>2, <2>2 DEF TypeOK
  <2>5. supersededBy'[new] = 0 /\ (r.original # 0 => r.original \in Row)
    <3>1. supersededBy[new] = 0 /\ (r.original # 0 => r.original \in Row)
      BY <1>0, <1>1, <1>4, <1>5 DEF RowsFilled, Row, Id
    <3>2. QED
      BY <1>0, <1>3, <2>2, <3>1 DEF TypeOK
  <2>6. ASSUME NEW i \in Row, i # r.original
        PROVE  supersededBy'[i] = supersededBy[i]
    BY <1>0, <1>3, <2>2, <2>6 DEF TypeOK
  <2>7. ASSUME NEW i \in Row'
        PROVE  corrects'[i] # 0 =>
                  corrects'[i] \in Row' /\ supersededBy'[corrects'[i]] = i
    <3>1. CASE i = new
      <4>1. r.original # 0 => supersededBy'[r.original] = new
        BY <1>0, <1>3, <2>2, <2>5 DEF TypeOK
      <4>2. QED
        BY <2>2, <2>4, <2>5, <3>1, <4>1
    <3>2. CASE i # new /\ corrects[i] # 0
      <4>1. i \in Row /\ corrects'[i] = corrects[i]
        BY <2>2, <2>4, <3>2
      <4>2. corrects[i] \in Row /\ supersededBy[corrects[i]] = i /\ i # 0
        BY <1>0, <3>2, <4>1 DEF ChainsNeverFork, Row
      <4>3. corrects[i] # r.original
        BY <1>4, <4>2, <1>0 DEF Row
      <4>4. QED
        BY <2>2, <2>6, <4>1, <4>2, <4>3
    <3>3. QED
      BY <2>2, <2>4, <3>1, <3>2
  <2>8. ASSUME NEW i \in Row', supersededBy'[i] # 0
        PROVE  LET next == supersededBy'[i] IN
               /\ next \in Row' /\ next > i /\ corrects'[next] = i
               /\ service'[next].workshop = service'[i].workshop
               /\ service'[next].plate = service'[i].plate
    <3>0. i \in Row
      BY <2>2, <2>5, <2>8
    <3>1. CASE i = r.original
      <4>1. i # 0 /\ supersededBy'[i] = new /\ new > i
        BY <1>0, <1>1, <1>3, <1>4, <1>5, <3>0, <3>1 DEF TypeOK, Row
      <4>2. /\ service'[i].workshop = r.workshop /\ service'[i].plate = r.plate
            /\ corrects'[new] = i
        BY <1>4, <2>3, <2>4, <3>0, <3>1, <4>1
      <4>3. QED
        BY <2>2, <2>3, <4>1, <4>2
    <3>2. CASE i # r.original
      <4>1. supersededBy'[i] = supersededBy[i] /\ supersededBy[i] # 0
        BY <2>6, <2>8, <3>0, <3>2
      <4>2. /\ supersededBy[i] \in Row /\ supersededBy[i] > i
            /\ corrects[supersededBy[i]] = i
            /\ service[supersededBy[i]].workshop = service[i].workshop
            /\ service[supersededBy[i]].plate = service[i].plate
        BY <1>0, <3>0, <4>1 DEF ChainsNeverFork
      <4>3. QED
        BY <2>2, <2>3, <2>4, <3>0, <4>1, <4>2
    <3>3. QED
      BY <3>1, <3>2
  <2>9. QED
    BY <2>7, <2>8 DEF ChainsNeverFork
<1>11. QED
  BY <1>6, <1>7, <1>8, <1>9, <1>10 DEF IInv

\* The file goes to the row p holds, which had room for it.
LEMMA CommitAttachmentKeeps ==
    ASSUME IInv, NEW p \in Proc, CommitAttachment(p)
    PROVE  IInv'
<1> DEFINE row == req[p].original
           photo == req[p].photo
<1> USE BoundsAssumption
<1>0. TypeOK /\ RequestInv(p) /\ RowsFilled /\ FilesFinite /\ CapHolds /\ ChainsNeverFork
  BY DEF IInv
<1>1. /\ req[p] \in Upload /\ row \in Id /\ row <= last /\ photo \in Photo /\ last \in Nat
      /\ lock[row] = p /\ Cardinality(attachments[row]) < MaxAttachments
  BY <1>0 DEF CommitAttachment, RequestInv, Fits, HoldsOriginal, ReadsStayTrue,
     HoldingUpload, Attaching, Upload, TypeOK
<1>2. /\ attachments' = [attachments EXCEPT ![row] = @ \cup {photo}]
      /\ pc' = [pc EXCEPT ![p] = "idle"]
      /\ req' = [req EXCEPT ![p] = NoRequest]
      /\ lock' = [i \in Id |-> IF lock[i] = p THEN NoProc ELSE lock[i]]
      /\ UNCHANGED <<vehicles, last, service, supersededBy, corrects, mechanics>>
  BY DEF CommitAttachment, End
<1> HIDE DEF row, photo
<1>3. TypeOK'
  <2>1. attachments[row] \cup {photo} \in SUBSET Photo
    BY <1>0, <1>1 DEF TypeOK
  <2>2. attachments' \in [Id -> SUBSET Photo]
    BY <1>0, <1>2, <2>1 DEF TypeOK
  <2>3. QED
    BY <1>0, <1>2, <2>2 DEF TypeOK
<1>4. ASSUME NEW q \in Proc PROVE RequestInv(q)'
  <2>1. CASE q = p
    BY <2>1, <1>0, <1>2 DEF TypeOK, RequestInv, Fits, HoldsOriginal, ReadsStayTrue,
       Writing, Attaching, HoldingWrite, HoldingUpload
  <2>2. CASE q # p
    <3>1. \A i \in Id : lock[i] = q => lock'[i] = q /\ attachments'[i] = attachments[i]
      BY <1>0, <1>1, <1>2, <2>2 DEF TypeOK
    <3>2. pc'[q] = pc[q] /\ req'[q] = req[q]
      BY <1>0, <1>2, <2>2 DEF TypeOK
    <3>3. QED
      BY <1>1, <1>2, <1>3, <3>1, <3>2, OtherRequestKept
  <2>3. QED
    BY <2>1, <2>2
<1>5. RowsFilled' /\ ChainsNeverFork'
  BY <1>0, <1>1, <1>2 DEF TypeOK, RowsFilled, ChainsNeverFork, Row, Id
<1>6. FilesFinite' /\ CapHolds'
  <2>1. /\ IsFiniteSet(attachments[row] \cup {photo})
        /\ Cardinality(attachments[row] \cup {photo}) <= MaxAttachments
    <3>1. IsFiniteSet(attachments[row]) /\ Cardinality(attachments[row]) \in Nat
      BY <1>0, <1>1, FS_CardinalityType DEF FilesFinite
    <3>2. /\ IsFiniteSet(attachments[row] \cup {photo})
          /\ \/ Cardinality(attachments[row] \cup {photo}) = Cardinality(attachments[row])
             \/ Cardinality(attachments[row] \cup {photo}) = Cardinality(attachments[row]) + 1
      BY <3>1, FS_AddElement
    <3>3. QED
      BY <1>1, <3>1, <3>2
  <2>2. QED
    BY <1>0, <1>1, <1>2, <2>1 DEF FilesFinite, CapHolds, TypeOK
<1>7. QED
  BY <1>3, <1>4, <1>5, <1>6 DEF IInv

\* A bike's registration touches nothing else.
LEMMA RegisterKeeps == IInv /\ RegisterVehicle => IInv'
<1> SUFFICES ASSUME IInv, RegisterVehicle PROVE IInv'
  OBVIOUS
<1> USE DEF RegisterVehicle
<1>1. TypeOK'
  BY DEF IInv, TypeOK
<1>2. \A q \in Proc : RequestInv(q)'
  BY DEF IInv, RequestInv, Fits, HoldsOriginal, ReadsStayTrue, Revisable
<1>3. TablesInv'
  BY DEF IInv, TablesInv, RowsFilled, FilesFinite, CapHolds, ChainsNeverFork, Row
<1>4. QED
  BY <1>1, <1>2, <1>3 DEF IInv, TablesInv

\* Every step of the specification keeps the invariant.
LEMMA StepKeeps == IInv /\ [Next]_vars => IInv'
<1> SUFFICES ASSUME IInv, [Next]_vars PROVE IInv'
  OBVIOUS
<1>1. CASE UNCHANGED vars
  <2>1. TypeOK' /\ \A q \in Proc : RequestInv(q)'
    BY <1>1 DEF IInv, vars, tables, TypeOK, RequestInv, Fits, HoldsOriginal,
       ReadsStayTrue, Revisable
  <2>2. TablesInv'
    BY <1>1, TablesKept DEF IInv, TablesInv, vars
  <2>3. QED
    BY <2>1, <2>2 DEF IInv, TablesInv
<1>2. CASE RegisterVehicle
  BY <1>2, RegisterKeeps
<1>3. ASSUME NEW p \in Proc, Begin(p) \/ Acquire(p) \/ Statement(p) \/ Fail(p)
      PROVE  IInv'
  BY <1>3, BeginKeeps, AcquireKeeps, ReadStatementKeeps, CommitKeeps,
     CommitAttachmentKeeps, RefuseKeeps DEF Statement, Fail
<1>4. QED
  BY <1>1, <1>2, <1>3 DEF Next

\* IInv is inductive: it holds in every state of every execution.
THEOREM Invariance == Spec => []IInv
BY StepKeeps, InitEstablishes, PTL DEF Spec

\* Every variable keeps its type.
THEOREM TypeCorrect == Spec => []TypeOK
<1>1. IInv => TypeOK
  BY DEF IInv
<1>2. QED
  BY <1>1, Invariance, PTL

\* Concurrent corrections never fork a history: checkRevisable's lock lets one
\* of them through, and no other correction takes its place.
THEOREM HistoryNeverForks == Spec => []ChainsNeverFork
<1>1. IInv => ChainsNeverFork
  BY DEF IInv
<1>2. QED
  BY <1>1, Invariance, PTL

\* No record ever has more files than the cap, uploads and corrections racing.
THEOREM AttachmentCapHolds == Spec => []CapHolds
<1>1. IInv => CapHolds
  BY DEF IInv
<1>2. QED
  BY <1>1, Invariance, PTL

\* Only the commits write rows that were there before.
LEMMA OthersLeaveRows ==
    ASSUME NEW p \in Proc,
           \/ Begin(p) \/ Acquire(p) \/ Fail(p)
           \/ FindVehicle(p) \/ CheckMileage(p) \/ InsertRecord(p)
           \/ SupersedeOriginal(p) \/ CountAttachments(p)
    PROVE  UNCHANGED tables
BY DEF Begin, CreateServiceRecord, ReviseServiceRecord, AddAttachment, Acquire,
   CheckRevisable, LockRecord, Fail, Refuse, FindVehicle, CheckMileage, InsertRecord,
   SupersedeOriginal, CountAttachments

\* What a commit does to the rows that were there before.
LEMMA CommitRows ==
    ASSUME IInv, NEW p \in Proc, Commit(p), NEW i \in Row
    PROVE  /\ service'[i] = service[i] /\ attachments'[i] = attachments[i]
           /\ \/ supersededBy'[i] = supersededBy[i]
              \/ /\ supersededBy[i] = 0
                 /\ attachments'[supersededBy'[i]] = attachments[i]
<1> USE BoundsAssumption
<1>1. /\ TypeOK /\ i \in Id /\ i # last + 1 /\ last + 1 \in Id
      /\ pc[p] = "commit" /\ req[p].original <= last /\ req[p] \in Write
  BY DEF IInv, TypeOK, RequestInv, Fits, Writing, Row, Id, Commit
<1>2. service'[i] = service[i] /\ attachments'[i] = attachments[i]
  BY <1>1 DEF Commit, TypeOK
<1>3. CASE req[p].original # i
  BY <1>1, <1>2, <1>3 DEF Commit, TypeOK
<1>4. CASE req[p].original = i
  <2>1. i # 0 /\ supersededBy[i] = 0 /\ req[p].carried = attachments[i]
    BY <1>1, <1>4 DEF IInv, RequestInv, HoldsOriginal, ReadsStayTrue, Revisable,
       HoldingWrite, Id
  <2>2. supersededBy'[i] = last + 1 /\ attachments'[last + 1] = req[p].carried
    BY <1>1, <1>4, <2>1 DEF Commit, TypeOK
  <2>3. QED
    BY <1>2, <2>1, <2>2
<1>5. QED
  BY <1>3, <1>4, <1>2

\* What an upload does to the rows.
LEMMA CommitAttachmentRows ==
    ASSUME IInv, NEW p \in Proc, CommitAttachment(p), NEW i \in Row
    PROVE  /\ service'[i] = service[i] /\ attachments[i] \subseteq attachments'[i]
           /\ supersededBy'[i] = supersededBy[i]
BY DEF CommitAttachment, IInv, TypeOK, Row, Id

\* A committed record is never edited and superseded at most once, whatever
\* requests are served at the same time.
THEOREM HistoryIsAppendOnly == Spec => AppendOnly
<1>1. IInv /\ [Next]_vars => [RowsOnlyGrow]_vars
  <2> SUFFICES ASSUME IInv, Next PROVE RowsOnlyGrow
    OBVIOUS
  <2>1. CASE UNCHANGED tables \/ RegisterVehicle
    BY <2>1 DEF tables, RegisterVehicle, RowsOnlyGrow
  <2>2. ASSUME NEW p \in Proc, Commit(p) PROVE RowsOnlyGrow
    BY <2>2, CommitRows DEF RowsOnlyGrow
  <2>3. ASSUME NEW p \in Proc, CommitAttachment(p) PROVE RowsOnlyGrow
    BY <2>3, CommitAttachmentRows DEF RowsOnlyGrow
  <2>4. QED
    BY <2>1, <2>2, <2>3, OthersLeaveRows DEF Next, Statement
<1>2. QED
  BY <1>1, Invariance, PTL DEF Spec, AppendOnly

\* The commit of a correction carries every file the original has at that
\* moment, whatever uploads race it.
THEOREM CorrectionsCarryPhotos == Spec => PhotosCarried
<1>1. IInv /\ [Next]_vars => [FilesGoAlong]_vars
  <2> SUFFICES ASSUME IInv, Next PROVE FilesGoAlong
    OBVIOUS
  <2>1. CASE UNCHANGED tables \/ RegisterVehicle
    BY <2>1 DEF tables, RegisterVehicle, FilesGoAlong
  <2>2. ASSUME NEW p \in Proc, Commit(p) PROVE FilesGoAlong
    BY <2>2, CommitRows DEF FilesGoAlong
  <2>3. ASSUME NEW p \in Proc, CommitAttachment(p) PROVE FilesGoAlong
    BY <2>3, CommitAttachmentRows DEF FilesGoAlong
  <2>4. QED
    BY <2>1, <2>2, <2>3, OthersLeaveRows DEF Next, Statement
<1>2. QED
  BY <1>1, Invariance, PTL DEF Spec, PhotosCarried

\* The listings lose the corrected record and gain its correction, no more.
THEOREM CorrectionsReplaceOneForOne == Spec => CorrectionReplaces
<1>1. IInv /\ [Next]_vars => [OneForOne]_vars
  <2> SUFFICES ASSUME IInv, Next, NEW p \in Proc, pc[p] = "commit", last' # last,
                      pc'[p] = "idle", req[p].original # 0
               PROVE  /\ req[p].original \in CurrentRow
                      /\ CurrentRow' = (CurrentRow \ {req[p].original}) \cup {last'}
    BY DEF OneForOne
  <2> USE BoundsAssumption, NothingAssumption
  <2>1. /\ TypeOK /\ RequestInv(p) /\ RowsFilled /\ req[p] \in Write
        /\ req[p].original \in Row /\ supersededBy[req[p].original] = 0
    BY DEF IInv, TypeOK, RequestInv, Fits, HoldsOriginal, Revisable, Writing, HoldingWrite,
       Write, Row
  <2>2. PICK q \in Proc : Commit(q)
    BY OthersLeaveRows DEF Next, Statement, tables, RegisterVehicle, CommitAttachment
  <2>3. q = p
    BY <2>1, <2>2 DEF Commit, End, TypeOK
  <2>4. /\ last' = last + 1 /\ last \in Nat /\ last + 1 \in Id
        /\ supersededBy' = [supersededBy EXCEPT ![req[p].original] = last + 1]
    BY <2>1, <2>2, <2>3 DEF Commit, TypeOK, Id
  <2>5. supersededBy[last + 1] = 0 /\ req[p].original # last + 1
    BY <2>1, <2>4 DEF RowsFilled, Row
  <2>6. QED
    BY <2>1, <2>4, <2>5 DEF CurrentRow, Row, TypeOK, Id
<1>2. QED
  BY <1>1, Invariance, PTL DEF Spec, CorrectionReplaces
----------------------------------------------------------------------------
(* The refinement of History.                                              *)

\* A request is told the same by the tables after a step that leaves it where
\* it is, attaches no file of its own, and starts no upload of the same file.
LEMMA ToldStays ==
    ASSUME NEW q \in Proc, ToldTheTruth(q),
           pc'[q] = pc[q], req'[q] = req[q], vehicles \subseteq vehicles',
           pc[q] \in Attaching =>
               /\ \A i \in Id : req[q].photo \notin attachments'[i]
               /\ \A r \in Proc \ {q} : pc'[r] \in Attaching => req'[r].photo # req[q].photo
    PROVE  ToldTheTruth(q)'
BY DEF ToldTheTruth

\* A step that writes no table, and after which p uploads what it uploaded
\* before, if anything, leaves the others told the truth.
LEMMA OthersStillTold ==
    ASSUME IInv, \A q \in Proc : ToldTheTruth(q), NEW p \in Proc,
           UNCHANGED <<vehicles, attachments>>,
           \A q \in Proc \ {p} : pc'[q] = pc[q] /\ req'[q] = req[q],
           pc'[p] \in Attaching => pc[p] \in Attaching /\ req'[p] = req[p],
           ToldTheTruth(p)'
    PROVE  \A q \in Proc : ToldTheTruth(q)'
<1> SUFFICES ASSUME NEW q \in Proc, q # p PROVE ToldTheTruth(q)'
  OBVIOUS
<1>1. ASSUME pc[q] \in Attaching
      PROVE  /\ \A i \in Id : req[q].photo \notin attachments'[i]
             /\ \A r \in Proc \ {q} : pc'[r] \in Attaching => req'[r].photo # req[q].photo
  BY <1>1 DEF ToldTheTruth
<1> QED
  BY <1>1, ToldStays

\* The end of a transaction that wrote nothing leaves nothing to be told.
LEMMA RefuseTells ==
    ASSUME IInv, \A q \in Proc : ToldTheTruth(q), NEW p \in Proc, Refuse(p)
    PROVE  \A q \in Proc : ToldTheTruth(q)'
<1>1. /\ UNCHANGED <<vehicles, attachments>> /\ pc'[p] = "idle"
      /\ \A q \in Proc \ {p} : pc'[q] = pc[q] /\ req'[q] = req[q]
  BY DEF Refuse, End, IInv, TypeOK, tables
<1>2. ToldTheTruth(p)'
  BY <1>1 DEF ToldTheTruth, Attaching
<1> QED
  BY <1>1, <1>2, OthersStillTold DEF Attaching

\* A new upload is of a file no record and no other upload has.
LEMMA AddAttachmentTells ==
    ASSUME IInv, \A q \in Proc : ToldTheTruth(q), NEW p \in Proc, AddAttachment(p)
    PROVE  \A q \in Proc : ToldTheTruth(q)'
<1> USE BoundsAssumption DEF AddAttachment, Goto
<1>1. PICK i \in Row, w \in Workshop, photo \in {f \in Photo : Fresh(f)} :
          req' = [req EXCEPT ![p] = [workshop |-> w, original |-> i, photo |-> photo]]
  OBVIOUS
<1>2. /\ UNCHANGED <<vehicles, attachments>> /\ pc'[p] = "lockRecord"
      /\ req'[p].photo = photo
      /\ \A q \in Proc \ {p} : pc'[q] = pc[q] /\ req'[q] = req[q]
  BY <1>1 DEF IInv, TypeOK, tables
<1>3. /\ \A k \in Id : photo \notin attachments[k]
      /\ \A q \in Proc : pc[q] \in Attaching => req[q].photo # photo
  <2>1. Fresh(photo)
    BY <1>1
  <2>2. ASSUME NEW k \in Id PROVE photo \notin attachments[k]
    <3>1. CASE k \in Row
      BY <2>1, <3>1 DEF Fresh
    <3>2. CASE k \notin Row
      BY <3>2 DEF IInv, TypeOK, RowsFilled, Row, Id
    <3> QED
      BY <3>1, <3>2
  <2> QED
    BY <2>1, <2>2 DEF Fresh
<1>4. ToldTheTruth(p)'
  BY <1>2, <1>3 DEF ToldTheTruth, Attaching
<1>5. ASSUME NEW q \in Proc, q # p PROVE ToldTheTruth(q)'
  <2>1. ASSUME pc[q] \in Attaching
        PROVE  /\ \A k \in Id : req[q].photo \notin attachments'[k]
               /\ \A r \in Proc \ {q} : pc'[r] \in Attaching => req'[r].photo # req[q].photo
    BY <2>1, <1>2, <1>3, <1>5 DEF ToldTheTruth
  <2> QED
    BY <1>2, <1>5, <2>1, ToldStays
<1> QED
  BY <1>4, <1>5

\* The other requests that begin are told nothing yet, and the statements
\* before the commits tell at most that the bike exists.
LEMMA StatementTells ==
    ASSUME IInv, \A q \in Proc : ToldTheTruth(q), NEW p \in Proc,
           \/ CreateServiceRecord(p) \/ ReviseServiceRecord(p) \/ Acquire(p)
           \/ FindVehicle(p) \/ CheckMileage(p) \/ InsertRecord(p)
           \/ SupersedeOriginal(p) \/ CountAttachments(p)
    PROVE  \A q \in Proc : ToldTheTruth(q)'
<1> SUFFICES ASSUME ~Refuse(p) PROVE \A q \in Proc : ToldTheTruth(q)'
  BY RefuseTells
<1> USE DEF Goto
<1>1. /\ UNCHANGED <<vehicles, attachments>>
      /\ \A q \in Proc \ {p} : pc'[q] = pc[q] /\ req'[q] = req[q]
  BY DEF CreateServiceRecord, ReviseServiceRecord, Acquire, CheckRevisable, LockRecord,
     FindVehicle, CheckMileage, InsertRecord, SupersedeOriginal, CountAttachments,
     IInv, TypeOK, tables
<1>2. CASE CreateServiceRecord(p) \/ ReviseServiceRecord(p) \/ CheckRevisable(p)
  <2>1. pc'[p] \in {"vehicle", "lock"}
    BY <1>2 DEF CreateServiceRecord, ReviseServiceRecord, CheckRevisable, IInv, TypeOK
  <2> QED
    BY <1>1, <2>1, OthersStillTold DEF ToldTheTruth, Attaching
<1>3. CASE FindVehicle(p)
  <2>1. /\ pc'[p] \in {"mileage", "insert"} /\ req'[p] = req[p]
        /\ req[p].plate \in vehicles
    BY <1>3 DEF FindVehicle, IInv, TypeOK
  <2> QED
    BY <1>1, <2>1, OthersStillTold DEF ToldTheTruth, Attaching
<1>4. CASE CheckMileage(p) \/ InsertRecord(p) \/ SupersedeOriginal(p)
  <2>1. /\ pc[p] \in {"mileage", "insert", "supersede"} /\ req[p] \in Write
        /\ pc'[p] \in {"insert", "supersede", "commit"}
    BY <1>4 DEF CheckMileage, InsertRecord, SupersedeOriginal, IInv, TypeOK, RequestInv,
       Fits, Writing
  <2>2. req'[p].plate = req[p].plate
    <3>1. CASE CheckMileage(p)
      BY <3>1 DEF CheckMileage
    <3>2. CASE InsertRecord(p)
      <4>1. PICK h : req' = [req EXCEPT ![p].hire = h]
        BY <3>2, Zenon DEF InsertRecord
      <4> QED
        BY <4>1, <2>1 DEF IInv, TypeOK, Write
    <3>3. CASE SupersedeOriginal(p)
      BY <3>3, <2>1 DEF SupersedeOriginal, IInv, TypeOK, Write
    <3> QED
      BY <1>4, <3>1, <3>2, <3>3
  <2>3. ToldTheTruth(p)'
    BY <1>1, <2>1, <2>2 DEF ToldTheTruth, Attaching
  <2> QED
    BY <1>1, <2>1, <2>3, OthersStillTold DEF Attaching
<1>5. CASE LockRecord(p) \/ CountAttachments(p)
  <2>1. /\ pc[p] \in Attaching /\ pc'[p] \in {"count", "commitAttachment"}
        /\ req'[p] = req[p]
    BY <1>5 DEF LockRecord, CountAttachments, Attaching, IInv, TypeOK
  <2>2. ToldTheTruth(p)'
    BY <1>1, <2>1 DEF ToldTheTruth, Attaching
  <2> QED
    BY <1>1, <2>1, <2>2, OthersStillTold
<1> QED
  BY <1>2, <1>3, <1>4, <1>5 DEF Acquire

\* A commit attaches files that were attached, or the one nobody else uploads.
LEMMA CommitTells ==
    ASSUME IInv, \A q \in Proc : ToldTheTruth(q), NEW p \in Proc,
           Commit(p) \/ CommitAttachment(p)
    PROVE  \A q \in Proc : ToldTheTruth(q)'
<1>1. /\ vehicles' = vehicles /\ pc'[p] = "idle"
      /\ \A q \in Proc \ {p} : pc'[q] = pc[q] /\ req'[q] = req[q]
  BY DEF Commit, CommitAttachment, End, IInv, TypeOK
<1>2. ToldTheTruth(p)'
  BY <1>1 DEF ToldTheTruth, Attaching
<1>3. ASSUME NEW q \in Proc, q # p, pc[q] \in Attaching, NEW i \in Id
      PROVE  req[q].photo \notin attachments'[i]
  <2>1. \A k \in Id : req[q].photo \notin attachments[k]
    BY <1>3 DEF ToldTheTruth
  <2>2. CASE Commit(p)
    <3>1. /\ req[p].original = 0 => req[p].carried = {}
          /\ req[p].original # 0 => /\ req[p].original \in Id
                                    /\ req[p].carried = attachments[req[p].original]
      BY <2>2, BoundsAssumption DEF Commit, IInv, TypeOK, RequestInv, Fits, ReadsStayTrue,
         Writing, Write, Id
    <3>2. attachments'[i] = attachments[i] \/ attachments'[i] = req[p].carried
      BY <2>2 DEF Commit, IInv, TypeOK
    <3> QED
      BY <2>1, <3>1, <3>2
  <2>3. CASE CommitAttachment(p)
    <3>1. req[q].photo # req[p].photo
      BY <1>3, <2>3 DEF ToldTheTruth, CommitAttachment, Attaching
    <3>2. attachments'[i] \subseteq attachments[i] \cup {req[p].photo}
      BY <2>3 DEF CommitAttachment, IInv, TypeOK
    <3> QED
      BY <2>1, <3>1, <3>2
  <2> QED
    BY <2>2, <2>3
<1>4. ASSUME NEW q \in Proc, q # p PROVE ToldTheTruth(q)'
  <2>1. ASSUME pc[q] \in Attaching
        PROVE  \A r \in Proc \ {q} : pc'[r] \in Attaching => req'[r].photo # req[q].photo
    BY <1>1, <1>4, <2>1 DEF ToldTheTruth, Attaching
  <2> QED
    BY <1>1, <1>3, <1>4, <2>1, ToldStays
<1> QED
  BY <1>2, <1>4

\* What a request was told stays true through every step.
LEMMA StepTells ==
    ASSUME IInv, \A q \in Proc : ToldTheTruth(q), [Next]_vars
    PROVE  \A q \in Proc : ToldTheTruth(q)'
<1>1. CASE UNCHANGED vars
  BY <1>1 DEF vars, tables, ToldTheTruth
<1>2. CASE RegisterVehicle
  BY <1>2 DEF RegisterVehicle, ToldTheTruth
<1>3. ASSUME NEW p \in Proc, Begin(p) \/ Acquire(p) \/ Statement(p) \/ Fail(p)
      PROVE  \A q \in Proc : ToldTheTruth(q)'
  BY <1>3, AddAttachmentTells, StatementTells, CommitTells, RefuseTells
     DEF Begin, Statement, Fail
<1> QED
  BY <1>1, <1>2, <1>3 DEF Next

\* A set of rows has a last one.
LEMMA LastOfRows ==
    ASSUME NEW rows \in SUBSET Id, rows # {}
    PROVE  \E m \in rows : \A i \in rows : i <= m
<1> DEFINE left == {MaxRecords - i : i \in rows}
<1>1. rows \subseteq Nat /\ left \subseteq Nat /\ left # {}
  <2>1. \A i \in rows : i \in Nat /\ i <= MaxRecords /\ MaxRecords \in Nat
    BY BoundsAssumption DEF Id
  <2>2. \A i \in rows : MaxRecords - i \in Nat
    BY <2>1
  <2>3. \E i \in rows : MaxRecords - i \in left
    OBVIOUS
  <2> QED
    BY <2>1, <2>2, <2>3
<1>2. PICK l \in left : \A k \in left : <<k, l>> \notin OpToRel(<, Nat)
  BY <1>1, WFMin, NatLessThanWellFounded, Zenon
<1>3. \A k \in left : ~(k < l)
  BY <1>1, <1>2, Zenon DEF OpToRel
<1>4. PICK m \in rows : l = MaxRecords - m
  OBVIOUS
<1>5. \A i \in rows : MaxRecords - i \in left
  OBVIOUS
<1> HIDE DEF left
<1>6. \A i \in rows : ~(MaxRecords - i < MaxRecords - m)
  BY <1>3, <1>4, <1>5
<1> QED
  BY <1>1, <1>4, <1>6, BoundsAssumption

\* What the longer of two chains adds to a sequence of versions.
LEMMA LongerChain ==
    ASSUME NEW s \in Seq(Versions), s # <<>>, NEW v \in Versions, NEW w \in Versions
    PROVE  /\ <<v>> \in Seq(Versions) /\ <<v>> # <<>> /\ Len(<<v>>) = 1
           /\ Len(s) \in Nat \ {0}
           /\ <<v>> \o s \in Seq(Versions) /\ <<v>> \o s # <<>>
           /\ (<<v>> \o s)[1] = v
           /\ (<<v>> \o s)[Len(<<v>> \o s)] = s[Len(s)]
           /\ Append(s, w) \in Seq(Versions) /\ Append(s, w) # <<>>
           /\ Append(s, w)[Len(Append(s, w))] = w
           /\ \A k \in DOMAIN s : k \in DOMAIN Append(s, w) /\ Append(s, w)[k] = s[k]
           /\ Len(s) + 1 \in DOMAIN Append(s, w) /\ Append(s, w)[Len(s) + 1] = w
           /\ \A k \in DOMAIN Append(s, w) : k \in DOMAIN s \/ Append(s, w)[k] = w
           /\ <<v>> \o Append(s, w) = Append(<<v>> \o s, w)
           /\ <<v>> \o <<w>> = Append(<<v>>, w)
<1>1. /\ <<v>> \in Seq(Versions) /\ Len(<<v>>) = 1 /\ <<v>>[1] = v /\ <<v>> # <<>>
      /\ <<w>> \in Seq(Versions)
  OBVIOUS
<1>2. Len(s) \in Nat \ {0} /\ DOMAIN s = 1..Len(s)
  BY EmptySeq, LenProperties
<1>3. /\ <<v>> \o s \in Seq(Versions) /\ Len(<<v>> \o s) = 1 + Len(s)
      /\ \A k \in 1..(1 + Len(s)) : (<<v>> \o s)[k] = IF k <= 1 THEN v ELSE s[k - 1]
  BY <1>1, ConcatProperties
<1>4. (<<v>> \o s)[1] = v /\ (<<v>> \o s)[1 + Len(s)] = s[Len(s)]
  BY <1>2, <1>3
<1>5. /\ Append(s, w) \in Seq(Versions) /\ Append(s, w) # <<>>
      /\ Len(Append(s, w)) = Len(s) + 1
      /\ \A k \in 1..Len(s) : Append(s, w)[k] = s[k]
      /\ Append(s, w)[Len(s) + 1] = w
  BY AppendProperties
<1>6. DOMAIN Append(s, w) = 1..(Len(s) + 1)
  BY <1>5, LenProperties
<1>7. <<v>> \o Append(s, w) = Append(<<v>> \o s, w)
  <2>1. Append(s, w) = s \o <<w>> /\ Append(<<v>> \o s, w) = (<<v>> \o s) \o <<w>>
    BY <1>3, AppendIsConcat
  <2> QED
    BY <1>1, <2>1, ConcatAssociative
<1>8. <<v>> \o <<w>> = Append(<<v>>, w)
  BY <1>1, AppendIsConcat
<1>9. <<v>> \o s # <<>>
  BY <1>2, <1>3, EmptySeq
<1> QED
  BY <1>1, <1>2, <1>3, <1>4, <1>5, <1>6, <1>7, <1>8, <1>9

\* The recursion has a meaning as soon as some function is what it says.
LEMMA ChainUnfolds ==
    ASSUME NEW f, f = Unfolded(f) PROVE Chain = Unfolded(Chain)
BY Zenon DEF Chain, Unfolded

LEMMA NextChainUnfolds ==
    ASSUME NEW f, (f = Unfolded(f))' PROVE (Chain = Unfolded(Chain))'
BY Zenon DEF Chain, Unfolded

\* And then there is one such function, for rows only point at later ones.
LEMMA NextChainIs ==
    ASSUME NEW f, (f = Unfolded(f))',
           \A i \in Id : supersededBy'[i] # 0 => supersededBy'[i] \in Id /\ i < supersededBy'[i]
    PROVE  Chain' = f
<1> DEFINE apart == {i \in Id : Chain'[i] # f[i]}
<1>1. (Chain = Unfolded(Chain))'
  BY NextChainUnfolds
<1>2. /\ Chain' = [i \in Id |-> Chain'[i]] /\ f = [i \in Id |-> f[i]]
      /\ \A i \in Id : supersededBy'[i] = 0 => Chain'[i] = f[i]
      /\ \A i \in Id : supersededBy'[i] # 0 /\ Chain'[supersededBy'[i]] = f[supersededBy'[i]]
                       => Chain'[i] = f[i]
  <2>1. Chain' = [i \in Id |-> IF supersededBy'[i] = 0 THEN <<VersionOf(i)'>>
                               ELSE <<VersionOf(i)'>> \o Chain'[supersededBy'[i]]]
    BY <1>1, Zenon DEF Unfolded
  <2>2. f = [i \in Id |-> IF supersededBy'[i] = 0 THEN <<VersionOf(i)'>>
                          ELSE <<VersionOf(i)'>> \o f[supersededBy'[i]]]
    BY Zenon DEF Unfolded
  <2>3. Chain' = [i \in Id |-> Chain'[i]]
    BY <2>1, Zenon
  <2>4. f = [i \in Id |-> f[i]]
    BY <2>2, Zenon
  <2>5. ASSUME NEW i \in Id
        PROVE  /\ Chain'[i] = IF supersededBy'[i] = 0 THEN <<VersionOf(i)'>>
                              ELSE <<VersionOf(i)'>> \o Chain'[supersededBy'[i]]
               /\ f[i] = IF supersededBy'[i] = 0 THEN <<VersionOf(i)'>>
                         ELSE <<VersionOf(i)'>> \o f[supersededBy'[i]]
    BY <2>1, <2>2, Zenon
  <2>6. ASSUME NEW i \in Id, supersededBy'[i] = 0 PROVE Chain'[i] = f[i]
    BY <2>5, <2>6
  <2>7. ASSUME NEW i \in Id, supersededBy'[i] # 0,
               Chain'[supersededBy'[i]] = f[supersededBy'[i]]
        PROVE  Chain'[i] = f[i]
    BY <2>5, <2>7
  <2> QED
    BY <2>3, <2>4, <2>6, <2>7
<1>3. ASSUME apart # {} PROVE FALSE
  <2>1. PICK m \in apart : \A i \in apart : i <= m
    BY <1>3, LastOfRows
  <2>2. supersededBy'[m] # 0
    BY <1>2
  <2>3. /\ m \in Nat /\ supersededBy'[m] \in Nat /\ m < supersededBy'[m]
        /\ supersededBy'[m] \in Id
    BY <2>2, BoundsAssumption DEF Id
  <2>4. supersededBy'[m] \notin apart
    BY <2>1, <2>3
  <2> QED
    BY <1>2, <2>2, <2>3, <2>4
<1> QED
  BY <1>2, <1>3

\* A row that is superseded is committed, and so is the later one it points at.
LEMMA RowsPointForward ==
    ASSUME TypeOK, RowsFilled, ChainsNeverFork, NEW i \in Id, supersededBy[i] # 0
    PROVE  /\ i \in Row /\ supersededBy[i] \in Row /\ supersededBy[i] \in Id
           /\ i < supersededBy[i]
<1>1. i \in Row
  BY DEF TypeOK, RowsFilled, Row, Id
<1> QED
  BY <1>1, BoundsAssumption DEF ChainsNeverFork, Row, TypeOK, Id

LEMMA NextRowsPointForward ==
    ASSUME IInv'
    PROVE  \A i \in Id : supersededBy'[i] # 0 => supersededBy'[i] \in Id /\ i < supersededBy'[i]
<1> SUFFICES ASSUME NEW i \in Id, supersededBy'[i] # 0
             PROVE  supersededBy'[i] \in Id /\ i < supersededBy'[i]
  OBVIOUS
<1>1. i \in Row'
  BY DEF IInv, TypeOK, RowsFilled, Row, Id
<1> QED
  BY <1>1, BoundsAssumption DEF IInv, ChainsNeverFork, Row, TypeOK, Id

\* The chain of a row, one version at a time.
LEMMA ChainsByVersion ==
    ASSUME IInv, ChainsAreLines, NEW i \in Id
    PROVE  /\ VersionOf(i) \in Versions
           /\ Chain[i] \in Seq(Versions) /\ Chain[i] # <<>> /\ Chain[i][1] = VersionOf(i)
           /\ supersededBy[i] = 0 => Chain[i] = <<VersionOf(i)>> /\ Newest(i) = VersionOf(i)
           /\ supersededBy[i] # 0 => /\ Chain[i] = <<VersionOf(i)>> \o Chain[supersededBy[i]]
                                     /\ Newest(i) = Newest(supersededBy[i])
<1>1. VersionOf(i) \in Versions
  BY DEF IInv, TypeOK, VersionOf, Versions
<1>2. Chain[i] \in Seq(Versions) /\ Chain[i] # <<>>
  BY DEF ChainsAreLines
<1>3. Chain[i] = IF supersededBy[i] = 0 THEN <<VersionOf(i)>>
                 ELSE <<VersionOf(i)>> \o Chain[supersededBy[i]]
  BY Zenon DEF ChainsAreLines, Unfolded
<1>4. CASE supersededBy[i] = 0
  BY <1>1, <1>2, <1>3, <1>4 DEF Newest
<1>5. CASE supersededBy[i] # 0
  <2>1. Chain[supersededBy[i]] \in Seq(Versions) /\ Chain[supersededBy[i]] # <<>>
    BY <1>5, RowsPointForward DEF ChainsAreLines, IInv
  <2>2. /\ Chain[i][1] = VersionOf(i)
        /\ Chain[i][Len(Chain[i])] = Chain[supersededBy[i]][Len(Chain[supersededBy[i]])]
    BY <1>1, <1>3, <1>5, <2>1, LongerChain
  <2> QED
    BY <1>1, <1>2, <1>3, <1>5, <2>2 DEF Newest
<1> QED
  BY <1>4, <1>5

\* What a commit knows of the row it corrects, and writes.
Said(p) == [workshop |-> req[p].workshop, plate |-> req[p].plate, km |-> req[p].km]

LEMMA CommitWrites ==
    ASSUME IInv, NEW p \in Proc, Commit(p)
    PROVE  /\ last \in Nat /\ last + 1 \in Id /\ last + 1 \notin Row /\ Row \subseteq Id
           /\ Row' = Row \cup {last + 1}
           /\ Said(p) \in Service
           /\ service' = [service EXCEPT ![last + 1] = Said(p)]
           /\ supersededBy[last + 1] = 0 /\ attachments[last + 1] = {}
           /\ \A i \in Id : supersededBy[i] # last + 1
           /\ vehicles' = vehicles
           /\ attachments' = [attachments EXCEPT ![last + 1] = req[p].carried]
           /\ req[p].original = 0 => supersededBy' = supersededBy /\ req[p].carried = {}
           /\ req[p].original # 0 =>
                 /\ supersededBy' = [supersededBy EXCEPT ![req[p].original] = last + 1]
                 /\ req[p].original \in CurrentRow
                 /\ req[p].carried = attachments[req[p].original]
                 /\ service[req[p].original].workshop = req[p].workshop
                 /\ service[req[p].original].plate = req[p].plate
<1> USE BoundsAssumption
<1>1. /\ TypeOK /\ RowsFilled /\ ChainsNeverFork /\ RequestInv(p)
      /\ req[p] \in Write /\ req[p].original \in 0..last
      /\ pc[p] = "commit" /\ last \in Nat /\ last < MaxRecords
  BY DEF IInv, TypeOK, RequestInv, Fits, Writing, Write, Commit
<1>2. /\ last + 1 \in Id /\ last + 1 \notin Row /\ Row \subseteq Id
      /\ last' = last + 1 /\ Row' = Row \cup {last + 1}
  BY <1>1 DEF Id, Row, Commit
<1>3. /\ Said(p) \in Service /\ service' = [service EXCEPT ![last + 1] = Said(p)]
      /\ vehicles' = vehicles
      /\ attachments' = [attachments EXCEPT ![last + 1] = req[p].carried]
  BY <1>1 DEF Said, Service, Write, Commit
<1>4. supersededBy[last + 1] = 0 /\ attachments[last + 1] = {}
  BY <1>1, <1>2 DEF RowsFilled
<1>5. \A i \in Id : supersededBy[i] # last + 1
  BY <1>1, <1>2, RowsPointForward
<1>6. /\ req[p].original = 0 => supersededBy' = supersededBy /\ req[p].carried = {}
      /\ req[p].original # 0 =>
           supersededBy' = [supersededBy EXCEPT ![req[p].original] = last + 1]
  BY <1>1 DEF Commit, RequestInv, ReadsStayTrue, Writing
<1>7. ASSUME req[p].original # 0
      PROVE  /\ req[p].original \in CurrentRow
             /\ req[p].carried = attachments[req[p].original]
             /\ service[req[p].original].workshop = req[p].workshop
             /\ service[req[p].original].plate = req[p].plate
  BY <1>1, <1>7 DEF RequestInv, HoldsOriginal, ReadsStayTrue, Revisable, Writing,
     HoldingWrite, CurrentRow, Row
<1> QED
  BY <1>1, <1>2, <1>3, <1>4, <1>5, <1>6, <1>7

\* The chains after a commit: the row starts one, and goes to the end of those
\* that ended at the row it corrects.
Grown(p) ==
    LET v == [id |-> last + 1, entry |-> Said(p)] IN
    [i \in Id |-> IF i = last + 1 THEN <<v>>
                  ELSE IF Newest(i).id = req[p].original THEN Append(Chain[i], v)
                  ELSE Chain[i]]

LEMMA CommitGrowsChains ==
    ASSUME HistoryInv, NEW p \in Proc, Commit(p)
    PROVE  Chain' = Grown(p) /\ (Chain = Unfolded(Chain))'
<1> DEFINE new == last + 1
           o == req[p].original
           v == [id |-> new, entry |-> Said(p)]
           f == Grown(p)
<1>0. IInv /\ ChainsAreLines /\ IInv'
  BY CommitKeeps DEF HistoryInv
<1>1. /\ new \in Id /\ v \in Versions /\ new # 0 /\ supersededBy[new] = 0
      /\ service' = [service EXCEPT ![new] = Said(p)]
      /\ o # 0 => o \in Id /\ o # new /\ supersededBy[o] = 0
      /\ o = 0 => supersededBy' = supersededBy
      /\ o # 0 => supersededBy' = [supersededBy EXCEPT ![o] = new]
      /\ \A i \in Id : supersededBy[i] # new
      /\ service \in [Id -> Service \cup {NoService}] /\ supersededBy \in [Id -> 0..MaxRecords]
  BY <1>0, CommitWrites DEF Versions, CurrentRow, IInv, TypeOK
<1>2. \A i \in Id : f[i] = IF i = new THEN <<v>>
                           ELSE IF Newest(i).id = o THEN Append(Chain[i], v)
                           ELSE Chain[i]
  BY DEF Grown
<1>3. \A i \in Id : VersionOf(i)' = IF i = new THEN v ELSE VersionOf(i)
  BY <1>1 DEF VersionOf
<1>4. \A i \in Id : VersionOf(i).id = i
  BY DEF VersionOf
<1> HIDE DEF v, f, new, o
<1>9. supersededBy'[new] = 0
  <2>1. CASE o = 0
    BY <1>1, <2>1
  <2>2. CASE o # 0
    BY <1>1, <2>2
  <2> QED
    BY <2>1, <2>2
<1>5. ASSUME NEW i \in Id
      PROVE  f[i] = IF supersededBy'[i] = 0 THEN <<VersionOf(i)'>>
                    ELSE <<VersionOf(i)'>> \o f[supersededBy'[i]]
  <2>1. CASE i = new
    <3>1. f[i] = <<v>> /\ VersionOf(i)' = v
      BY <1>2, <1>3, <2>1
    <3>2. supersededBy'[i] = 0
      BY <1>9, <2>1
    <3> QED
      BY <3>1, <3>2
  <2>2. CASE i # new /\ i = o
    <3>0. o # 0 /\ supersededBy[i] = 0
      BY <1>1, <2>2, BoundsAssumption DEF Id
    <3>1. /\ supersededBy'[i] = new /\ new # 0 /\ VersionOf(i)' = VersionOf(i)
          /\ Chain[i] = <<VersionOf(i)>> /\ Newest(i).id = o
      <4>1. supersededBy'[i] = new
        BY <1>1, <2>2, <3>0
      <4>2. Chain[i] = <<VersionOf(i)>> /\ Newest(i) = VersionOf(i)
        BY <1>0, <3>0, ChainsByVersion
      <4> QED
        BY <1>1, <1>3, <1>4, <2>2, <4>1, <4>2
    <3>2. f[i] = Append(<<VersionOf(i)>>, v) /\ f[new] = <<v>>
      BY <1>1, <1>2, <2>2, <3>1
    <3>3. Chain[i] \in Seq(Versions) /\ Chain[i] # <<>> /\ VersionOf(i) \in Versions
      BY <1>0, ChainsByVersion
    <3>4. <<VersionOf(i)>> \o <<v>> = Append(<<VersionOf(i)>>, v)
      BY <1>1, <3>3, LongerChain
    <3>5. f[supersededBy'[i]] = <<v>> /\ supersededBy'[i] # 0
      BY <3>1, <3>2
    <3> QED
      BY <3>1, <3>2, <3>4, <3>5
  <2>3. CASE i # new /\ i # o /\ supersededBy[i] = 0
    <3>1. /\ supersededBy'[i] = 0 /\ VersionOf(i)' = VersionOf(i)
          /\ Chain[i] = <<VersionOf(i)>> /\ Newest(i).id # o
      BY <1>0, <1>1, <1>3, <1>4, <2>3, ChainsByVersion
    <3> QED
      BY <1>2, <2>3, <3>1
  <2>4. CASE i # new /\ i # o /\ supersededBy[i] # 0
    <3> DEFINE s == supersededBy[i]
    <3>1. /\ supersededBy'[i] = s /\ VersionOf(i)' = VersionOf(i)
          /\ s \in Id /\ s # new /\ Chain[i] = <<VersionOf(i)>> \o Chain[s]
          /\ Newest(i) = Newest(s)
      BY <1>0, <1>1, <1>3, <2>4, ChainsByVersion, RowsPointForward DEF IInv
    <3>2. <<VersionOf(i)>> \o Append(Chain[s], v) = Append(<<VersionOf(i)>> \o Chain[s], v)
      <4>1. /\ Chain[s] \in Seq(Versions) /\ Chain[s] # <<>>
            /\ VersionOf(i) \in Versions
        BY <1>0, <3>1, ChainsByVersion
      <4> QED
        BY <1>1, <4>1, LongerChain
    <3> QED
      BY <1>2, <2>4, <3>1, <3>2
  <2> QED
    BY <2>1, <2>2, <2>3, <2>4
<1>6. f = [i \in Id |-> f[i]]
  BY DEF f, Grown
<1>7. f = [i \in Id |-> IF supersededBy'[i] = 0 THEN <<VersionOf(i)'>>
                        ELSE <<VersionOf(i)'>> \o f[supersededBy'[i]]]
  BY <1>5, <1>6
<1>8. \A g : g = f => (g = Unfolded(g))'
  BY <1>7, Zenon DEF Unfolded
<1> QED
  BY <1>0, <1>8, NextRowsPointForward, NextChainIs, NextChainUnfolds DEF f

\* The version a commit adds.
Added(p) == [id |-> last + 1, entry |-> Said(p)]

\* A commit puts it at the end of the chains that ended at the corrected row.
LEMMA CommitMovesEnds ==
    ASSUME HistoryInv, NEW p \in Proc, Commit(p), NEW i \in Id
    PROVE  /\ Added(p) \in Versions
           /\ i = last + 1 => /\ Chain'[i] = <<Added(p)>> /\ Newest(i)' = Added(p)
                              /\ VersionOf(i)' = Added(p)
           /\ i # last + 1 => VersionOf(i)' = VersionOf(i)
           /\ i # last + 1 /\ Newest(i).id = req[p].original =>
                 Chain'[i] = Append(Chain[i], Added(p)) /\ Newest(i)' = Added(p)
           /\ i # last + 1 /\ Newest(i).id # req[p].original =>
                 Chain'[i] = Chain[i] /\ Newest(i)' = Newest(i)
<1>1. /\ IInv /\ ChainsAreLines /\ Chain' = Grown(p) /\ last + 1 \in Id
      /\ Said(p) \in Service
      /\ service' = [service EXCEPT ![last + 1] = Said(p)]
      /\ service \in [Id -> Service \cup {NoService}]
  BY CommitGrowsChains, CommitWrites DEF HistoryInv, IInv, TypeOK
<1>2. Added(p) \in Versions
  BY <1>1 DEF Added, Versions
<1>3. Chain[i] \in Seq(Versions) /\ Chain[i] # <<>>
  BY <1>1, ChainsByVersion
<1>4. /\ Append(Chain[i], Added(p))[Len(Append(Chain[i], Added(p)))] = Added(p)
      /\ <<Added(p)>>[Len(<<Added(p)>>)] = Added(p)
  BY <1>2, <1>3, LongerChain
<1>5. Chain'[i] = IF i = last + 1 THEN <<Added(p)>>
                  ELSE IF Newest(i).id = req[p].original THEN Append(Chain[i], Added(p))
                  ELSE Chain[i]
  BY <1>1 DEF Grown, Added
<1>6. VersionOf(i)' = IF i = last + 1 THEN Added(p) ELSE VersionOf(i)
  BY <1>1 DEF VersionOf, Added
<1>7. Newest(i)' = Chain'[i][Len(Chain'[i])] /\ Newest(i) = Chain[i][Len(Chain[i])]
  BY Zenon DEF Newest
<1> QED
  BY <1>2, <1>4, <1>5, <1>6, <1>7

\* It makes the row current, which corrects another or starts a service.
LEMMA CommitMovesRows ==
    ASSUME IInv, NEW p \in Proc, Commit(p)
    PROVE  /\ CurrentRow' = (CurrentRow \ {req[p].original}) \cup {last + 1}
           /\ req[p].original = 0 => Start' = Start \cup {last + 1}
           /\ req[p].original # 0 => Start' = Start
<1>1. /\ last + 1 \in Id /\ last + 1 \notin Row /\ Row \subseteq Id
      /\ Row' = Row \cup {last + 1} /\ supersededBy[last + 1] = 0
      /\ \A i \in Id : supersededBy[i] # last + 1
      /\ supersededBy \in [Id -> 0..MaxRecords] /\ 0 \notin Id
      /\ req[p].original = 0 => supersededBy' = supersededBy
      /\ req[p].original # 0 =>
           /\ supersededBy' = [supersededBy EXCEPT ![req[p].original] = last + 1]
           /\ req[p].original \in CurrentRow
  BY CommitWrites DEF IInv, TypeOK, Id
<1>2. CASE req[p].original = 0
  BY <1>1, <1>2 DEF CurrentRow, Start
<1>3. CASE req[p].original # 0
  <2>1. /\ req[p].original \in Row /\ req[p].original # last + 1
        /\ \A i \in Row' : supersededBy'[i] = IF i = req[p].original THEN last + 1
                                              ELSE supersededBy[i]
    BY <1>1, <1>3 DEF CurrentRow
  <2>2. CurrentRow' = (CurrentRow \ {req[p].original}) \cup {last + 1}
    BY <1>1, <2>1 DEF CurrentRow
  <2>3. Start' = Start
    BY <1>1, <1>3, <2>1 DEF Start, CurrentRow
  <2> QED
    BY <1>3, <2>2, <2>3
<1> QED
  BY <1>2, <1>3

\* A service is a line of committed rows, also after a commit.
LEMMA CommitKeepsLines ==
    ASSUME HistoryInv, NEW p \in Proc, Commit(p)
    PROVE  ChainsAreLines'
<1> DEFINE new == last + 1
           o == req[p].original
           v == Added(p)
<1>1. /\ IInv /\ ChainsAreLines /\ (Chain = Unfolded(Chain))'
      /\ new \in Id /\ new \notin Row /\ Row \subseteq Id /\ Row' = Row \cup {new}
      /\ 0 \notin Id /\ v \in Versions /\ v.id = new
      /\ o # 0 => o \in CurrentRow
  <2>1. IInv /\ ChainsAreLines /\ (Chain = Unfolded(Chain))' /\ 0 \notin Id
    BY CommitGrowsChains DEF HistoryInv, Id
  <2>2. /\ new \in Id /\ new \notin Row /\ Row \subseteq Id /\ Row' = Row \cup {new}
        /\ o # 0 => o \in CurrentRow
    BY <2>1, CommitWrites
  <2>3. v \in Versions /\ v.id = new
    BY <2>2, CommitMovesEnds DEF Added
  <2> QED
    BY <2>1, <2>2, <2>3
<1>2. /\ CurrentRow' = (CurrentRow \ {o}) \cup {new}
      /\ o = 0 => Start' = Start \cup {new}
      /\ o # 0 => Start' = Start
      /\ Start \subseteq Row /\ CurrentRow \subseteq Row
  BY <1>1, CommitMovesRows DEF Start, CurrentRow
<1>3. ASSUME NEW i \in Id
      PROVE  /\ i = new => Chain'[i] = <<v>> /\ Newest(i)' = v /\ VersionOf(i)' = v
             /\ i # new => VersionOf(i)' = VersionOf(i)
             /\ i # new /\ Newest(i).id = o => Chain'[i] = Append(Chain[i], v) /\ Newest(i)' = v
             /\ i # new /\ Newest(i).id # o => Chain'[i] = Chain[i] /\ Newest(i)' = Newest(i)
  BY CommitMovesEnds
<1>4. ASSUME NEW i \in Id
      PROVE  /\ Chain[i] \in Seq(Versions) /\ Chain[i] # <<>>
             /\ VersionOf(i).id = i /\ Newest(i) = Chain[i][Len(Chain[i])]
             /\ Append(Chain[i], v) \in Seq(Versions) /\ Append(Chain[i], v) # <<>>
             /\ \A k \in DOMAIN Chain[i] :
                   k \in DOMAIN Append(Chain[i], v) /\ Append(Chain[i], v)[k] = Chain[i][k]
             /\ \E k \in DOMAIN Append(Chain[i], v) : Append(Chain[i], v)[k] = v
             /\ \A k \in DOMAIN Append(Chain[i], v) :
                   k \in DOMAIN Chain[i] \/ Append(Chain[i], v)[k] = v
  <2>1. Chain[i] \in Seq(Versions) /\ Chain[i] # <<>> /\ VersionOf(i).id = i
    BY <1>1, ChainsByVersion DEF VersionOf
  <2> HIDE DEF v
  <2>2. /\ Append(Chain[i], v) \in Seq(Versions) /\ Append(Chain[i], v) # <<>>
        /\ \A k \in DOMAIN Chain[i] :
              k \in DOMAIN Append(Chain[i], v) /\ Append(Chain[i], v)[k] = Chain[i][k]
        /\ Len(Chain[i]) + 1 \in DOMAIN Append(Chain[i], v)
        /\ Append(Chain[i], v)[Len(Chain[i]) + 1] = v
        /\ \A k \in DOMAIN Append(Chain[i], v) :
              k \in DOMAIN Chain[i] \/ Append(Chain[i], v)[k] = v
    BY <1>1, <2>1, LongerChain
  <2>3. Newest(i) = Chain[i][Len(Chain[i])]
    BY Zenon DEF Newest
  <2> QED
    BY <2>1, <2>2, <2>3
<1> HIDE DEF new, o, v
<1>5. /\ <<v>> \in Seq(Versions) /\ <<v>> # <<>> /\ DOMAIN <<v>> = {1} /\ <<v>>[1] = v
  BY <1>1
<1>6. ASSUME NEW i \in Id PROVE Chain'[i] \in Seq(Versions) \ {<<>>}
  BY <1>3, <1>4, <1>5
<1>7. ASSUME NEW i \in Row', NEW k \in DOMAIN Chain'[i] PROVE Chain'[i][k].id \in Row'
  <2>1. CASE i = new
    BY <1>1, <1>3, <1>5, <2>1
  <2>2. CASE i # new
    <3>1. i \in Row /\ i \in Id
      BY <1>1, <2>2
    <3>2. \A l \in DOMAIN Chain[i] : Chain[i][l].id \in Row
      BY <1>1, <3>1 DEF ChainsAreLines
    <3>3. \/ Chain'[i] = Chain[i]
          \/ Chain'[i] = Append(Chain[i], v)
      BY <1>3, <2>2, <3>1
    <3>4. \/ k \in DOMAIN Chain[i] /\ Chain'[i][k] = Chain[i][k]
          \/ Chain'[i][k] = v
      BY <1>4, <3>1, <3>3
    <3> QED
      BY <1>1, <3>2, <3>4
  <2> QED
    BY <2>1, <2>2
<1>8. ASSUME NEW i \in Row' PROVE \E e \in CurrentRow' : Newest(i)' = VersionOf(e)'
  <2>1. CASE Newest(i)' = v
    BY <1>1, <1>2, <1>3, <2>1
  <2>2. CASE Newest(i)' # v
    <3>1. i \in Row /\ i \in Id /\ Newest(i).id # o /\ Newest(i)' = Newest(i)
      BY <1>1, <1>3, <2>2
    <3>2. PICK e \in CurrentRow : Newest(i) = VersionOf(e)
      BY <1>1, <3>1 DEF ChainsAreLines
    <3>3. e \in Id /\ e # new /\ e # o
      BY <1>1, <1>2, <1>4, <3>1, <3>2
    <3>4. VersionOf(e)' = VersionOf(e)
      BY <1>3, <3>3
    <3> QED
      BY <1>2, <3>1, <3>2, <3>3, <3>4
  <2> QED
    BY <2>1, <2>2
<1>9. ASSUME o # 0 PROVE \E r \in Start : Newest(r).id = o
  <2>1. PICK r \in Start : Newest(r) = VersionOf(o)
    BY <1>1, <1>9 DEF ChainsAreLines
  <2>2. o \in Id
    BY <1>1, <1>2, <1>9
  <2> QED
    BY <1>4, <2>1, <2>2
<1>10. \E r \in Start' : Newest(r)' = v /\ \E k \in DOMAIN Chain'[r] : Chain'[r][k] = v
  <2>1. CASE o = 0
    BY <1>1, <1>2, <1>3, <1>5, <2>1
  <2>2. CASE o # 0
    <3>1. PICK r \in Start : Newest(r).id = o
      BY <1>9, <2>2
    <3>2. r \in Id /\ r # new
      BY <1>1, <1>2
    <3>3. Chain'[r] = Append(Chain[r], v) /\ Newest(r)' = v
      BY <1>3, <3>1, <3>2
    <3> QED
      BY <1>2, <1>4, <2>2, <3>2, <3>3
  <2> QED
    BY <2>1, <2>2
<1>11. ASSUME NEW i \in Row'
       PROVE  \E r \in Start' : \E k \in DOMAIN Chain'[r] : Chain'[r][k].id = i
  <2>1. CASE i = new
    BY <1>1, <1>10, <2>1
  <2>2. CASE i # new
    <3>1. PICK r \in Start : \E k \in DOMAIN Chain[r] : Chain[r][k].id = i
      BY <1>1, <2>2 DEF ChainsAreLines
    <3>2. PICK k \in DOMAIN Chain[r] : Chain[r][k].id = i
      BY <3>1
    <3>3. r \in Id /\ r # new /\ r \in Start'
      BY <1>1, <1>2
    <3>4. k \in DOMAIN Chain'[r] /\ Chain'[r][k] = Chain[r][k]
      BY <1>3, <1>4, <3>2, <3>3
    <3> QED
      BY <3>2, <3>3, <3>4
  <2> QED
    BY <2>1, <2>2
<1>12. ASSUME NEW e \in CurrentRow' PROVE \E r \in Start' : Newest(r)' = VersionOf(e)'
  <2>1. CASE e = new
    BY <1>1, <1>3, <1>10, <2>1
  <2>2. CASE e # new
    <3>1. e \in CurrentRow /\ e # o /\ e \in Id
      BY <1>1, <1>2, <2>2
    <3>2. PICK r \in Start : Newest(r) = VersionOf(e)
      BY <1>1, <3>1 DEF ChainsAreLines
    <3>3. r \in Id /\ r # new /\ r \in Start' /\ Newest(r).id # o
      BY <1>1, <1>2, <1>4, <3>1, <3>2
    <3>4. Newest(r)' = Newest(r) /\ VersionOf(e)' = VersionOf(e)
      BY <1>3, <2>2, <3>1, <3>3
    <3> QED
      BY <3>2, <3>3, <3>4
  <2> QED
    BY <2>1, <2>2
<1>13. ASSUME NEW i \in Row PROVE Newest(i).id \in Row
  <2>1. PICK e \in CurrentRow : Newest(i) = VersionOf(e)
    BY <1>1 DEF ChainsAreLines
  <2> QED
    BY <1>1, <1>2, <1>4, <2>1
<1>14. ASSUME NEW i \in Row, NEW j \in Row, Newest(i).id = Newest(j).id
       PROVE  Newest(i) = Newest(j)
  <2>1. PICK e \in CurrentRow : Newest(i) = VersionOf(e)
    BY <1>1 DEF ChainsAreLines
  <2>2. PICK g \in CurrentRow : Newest(j) = VersionOf(g)
    BY <1>1 DEF ChainsAreLines
  <2> QED
    BY <1>1, <1>2, <1>4, <1>14, <2>1, <2>2
<1>15. ASSUME NEW r \in Start', NEW s \in Start', Newest(r)' = Newest(s)' PROVE r = s
  <2>1. /\ r \in Id /\ s \in Id /\ r \in Row \cup {new} /\ s \in Row \cup {new}
        /\ r # new => r \in Start /\ r \in Row
        /\ s # new => s \in Start /\ s \in Row
        /\ o # 0 => r # new /\ s # new
    BY <1>1, <1>2
  <2>2. \A i \in Row : o = 0 => Newest(i)' # v
    <3> SUFFICES ASSUME NEW i \in Row, o = 0 PROVE Newest(i)' # v
      OBVIOUS
    <3>1. i \in Id /\ i # new /\ Newest(i).id \in Row /\ Newest(i).id # o
      BY <1>1, <1>13
    <3>2. Newest(i)' = Newest(i)
      BY <1>3, <3>1
    <3> QED
      BY <1>1, <3>1, <3>2
  <2>3. CASE r = new \/ s = new
    BY <1>3, <1>15, <2>1, <2>2, <2>3
  <2>4. CASE r # new /\ s # new
    <3>1. /\ Newest(r)' = IF Newest(r).id = o THEN v ELSE Newest(r)
          /\ Newest(s)' = IF Newest(s).id = o THEN v ELSE Newest(s)
      BY <1>3, <2>1, <2>4
    <3>2. Newest(r).id # new /\ Newest(s).id # new
      BY <1>1, <1>13, <2>1, <2>4
    <3>3. Newest(r).id = Newest(s).id
      BY <1>1, <1>15, <3>1, <3>2
    <3>4. Newest(r) = Newest(s)
      BY <1>14, <2>1, <2>4, <3>3
    <3> QED
      BY <1>1, <2>1, <2>4, <3>4 DEF ChainsAreLines
  <2> QED
    BY <2>3, <2>4
<1> QED
  BY <1>1, <1>6, <1>7, <1>8, <1>11, <1>12, <1>15 DEF ChainsAreLines

\* A step that adds no row leaves the chains as they are.
LEMMA ChainsKept ==
    ASSUME HistoryInv, IInv', UNCHANGED <<last, service, supersededBy>>
    PROVE  Chain' = Chain /\ ChainsAreLines'
<1>1. ChainsAreLines
  BY DEF HistoryInv
<1>2. \A g : g = Chain => (g = Unfolded(g))'
  <2> SUFFICES ASSUME NEW g, g = Chain PROVE (g = Unfolded(g))'
    OBVIOUS
  <2>1. g = Unfolded(g)
    BY <1>1 DEF ChainsAreLines
  <2> QED
    BY <2>1 DEF Unfolded, VersionOf
<1>3. Chain' = Chain /\ (Chain = Unfolded(Chain))'
  BY <1>2, NextRowsPointForward, NextChainIs, NextChainUnfolds
<1>4. /\ Row' = Row /\ Start' = Start /\ CurrentRow' = CurrentRow
      /\ \A i : Newest(i)' = Newest(i) /\ VersionOf(i)' = VersionOf(i)
  BY <1>3 DEF Row, Start, CurrentRow, Newest, VersionOf
<1> QED
  BY <1>1, <1>3, <1>4 DEF ChainsAreLines

\* Before the first record there are no services.
LEMMA InitEstablishesHistory == Init => HistoryInv
<1> SUFFICES ASSUME Init PROVE HistoryInv
  OBVIOUS
<1>1. IInv
  BY InitEstablishes
<1>2. \A p \in Proc : ToldTheTruth(p)
  BY DEF Init, ToldTheTruth, Attaching
<1>3. ChainsAreLines
  <2> DEFINE f == [i \in Id |-> <<VersionOf(i)>>]
  <2>1. \A i \in Id : supersededBy[i] = 0
    BY DEF Init
  <2>2. f = Unfolded(f)
    BY <2>1 DEF Unfolded
  <2>3. Chain = Unfolded(Chain)
    BY <2>2, ChainUnfolds
  <2>4. \A i \in Id : Chain[i] = <<VersionOf(i)>>
    BY <2>1, <2>3 DEF Unfolded
  <2>5. ASSUME NEW i \in Id PROVE Chain[i] \in Seq(Versions) \ {<<>>}
    <3>1. VersionOf(i) \in Versions
      BY <1>1 DEF VersionOf, Versions, IInv, TypeOK
    <3>2. \A v \in Versions : <<v>> \in Seq(Versions) /\ <<v>> # <<>>
      OBVIOUS
    <3> QED
      BY <2>4, <3>1, <3>2, Zenon
  <2>6. Row = {}
    BY DEF Init, Row
  <2> QED
    BY <2>3, <2>5, <2>6 DEF ChainsAreLines, CurrentRow, Start
<1> QED
  BY <1>1, <1>2, <1>3 DEF HistoryInv

\* Only commits write rows; other steps leave the tables or register a bike.
LEMMA StepsThatWrite ==
    ASSUME [Next]_vars
    PROVE  \/ UNCHANGED tables
           \/ RegisterVehicle
           \/ \E p \in Proc : Commit(p) \/ CommitAttachment(p)
<1>1. CASE UNCHANGED vars
  BY <1>1 DEF vars
<1>2. CASE Next
  BY <1>2, OthersLeaveRows DEF Next, Statement
<1> QED
  BY <1>1, <1>2

LEMMA StepKeepsHistory == HistoryInv /\ [Next]_vars => HistoryInv'
<1> SUFFICES ASSUME HistoryInv, [Next]_vars PROVE HistoryInv'
  OBVIOUS
<1>1. IInv' /\ \A p \in Proc : ToldTheTruth(p)'
  BY StepKeeps, StepTells DEF HistoryInv
<1>2. CASE UNCHANGED <<last, service, supersededBy>>
  BY <1>1, <1>2, ChainsKept DEF HistoryInv
<1>3. ASSUME NEW p \in Proc, Commit(p) PROVE HistoryInv'
  BY <1>1, <1>3, CommitKeepsLines DEF HistoryInv
<1> QED
  BY <1>2, <1>3, StepsThatWrite DEF tables, RegisterVehicle, CommitAttachment

\* The strengthened invariant holds in every state of every execution.
THEOREM HistoryInvariance == Spec => []HistoryInv
BY InitEstablishesHistory, StepKeepsHistory, PTL DEF Spec

\* A registration is one.
LEMMA RegisterMaps ==
    ASSUME HistoryInv, IInv', RegisterVehicle
    PROVE  H!RegisterVehicle
<1>1. UNCHANGED <<last, service, supersededBy, attachments>>
  BY DEF RegisterVehicle
<1>2. Chain' = Chain /\ Start' = Start
  BY <1>1, ChainsKept DEF Start, Row
<1> QED
  BY <1>1, <1>2 DEF RegisterVehicle, H!RegisterVehicle

\* The rows in the chains are the committed ones.
LEMMA UsedRows ==
    ASSUME HistoryInv
    PROVE  H!Used = Row
<1>1. \A r \in Start : r \in Row /\ \A k \in DOMAIN Chain[r] : Chain[r][k].id \in Row
  BY DEF HistoryInv, ChainsAreLines, Start
<1>2. \A i \in Row : \E r \in Start : \E k \in DOMAIN Chain[r] : Chain[r][k].id = i
  BY DEF HistoryInv, ChainsAreLines
<1> QED
  BY <1>1, <1>2 DEF H!Used, H!VersionsOf

\* The commit of a new record logs a service of a registered bike.
LEMMA CreateMaps ==
    ASSUME HistoryInv, NEW p \in Proc, Commit(p), req[p].original = 0
    PROVE  H!Log(Said(p), last + 1)
<1>1. /\ IInv /\ ChainsAreLines /\ last + 1 \in Id /\ last + 1 \notin Row /\ Row \subseteq Id
      /\ vehicles' = vehicles /\ req[p].carried = {} /\ attachments[last + 1] = {}
      /\ attachments' = [attachments EXCEPT ![last + 1] = req[p].carried]
      /\ attachments \in [Id -> SUBSET Photo] /\ 0 \notin Id
  BY CommitWrites DEF HistoryInv, IInv, TypeOK, Id
<1>2. Said(p).plate \in vehicles
  BY DEF HistoryInv, ToldTheTruth, Said, Commit
<1>3. attachments' = attachments
  BY <1>1
<1>4. Start' = Start \cup {last + 1} /\ Start \subseteq Row
  BY <1>1, CommitMovesRows DEF Start
<1>5. \A i \in Id : i = last + 1 => Chain'[i] = <<Added(p)>>
  BY CommitMovesEnds
<1>6. \A i \in Start : Chain'[i] = Chain[i]
  <2> SUFFICES ASSUME NEW i \in Start PROVE Chain'[i] = Chain[i]
    OBVIOUS
  <2>1. PICK e \in CurrentRow : Newest(i) = VersionOf(e)
    BY <1>1, <1>4 DEF ChainsAreLines
  <2>2. Newest(i).id # 0 /\ i \in Id /\ i # last + 1
    BY <1>1, <1>4, <2>1 DEF VersionOf, CurrentRow
  <2> QED
    BY <2>2, CommitMovesEnds
<1>7. {Chain'[i] : i \in Start'} = {Chain[i] : i \in Start} \cup {<<Added(p)>>}
  BY <1>1, <1>4, <1>5, <1>6
<1> QED
  BY <1>1, <1>2, <1>3, <1>7, UsedRows DEF H!Log, Added

\* The commit of a correction corrects the service of which its original is
\* the current version.
LEMMA ReviseMaps ==
    ASSUME HistoryInv, NEW p \in Proc, Commit(p), req[p].original # 0
    PROVE  \E r \in Start : H!Correct(Chain[r], Said(p), last + 1)
<1> DEFINE o == req[p].original
<1>1. /\ IInv /\ ChainsAreLines /\ last + 1 \in Id /\ last + 1 \notin Row /\ Row \subseteq Id
      /\ vehicles' = vehicles /\ o \in CurrentRow /\ o \in Id
      /\ req[p].carried = attachments[o]
      /\ attachments' = [attachments EXCEPT ![last + 1] = req[p].carried]
      /\ service[o].workshop = Said(p).workshop /\ service[o].plate = Said(p).plate
  BY CommitWrites DEF HistoryInv, CurrentRow, Said
<1> HIDE DEF o
<1>2. PICK r \in Start : Newest(r) = VersionOf(o)
  BY <1>1 DEF ChainsAreLines
<1>3. /\ H!Current(Chain[r]) = VersionOf(o)
      /\ VersionOf(o).id = o /\ VersionOf(o).entry = service[o]
  BY <1>2, Zenon DEF H!Current, Newest, VersionOf
<1>4. Start' = Start /\ Start \subseteq Row /\ Start \subseteq Id /\ last + 1 \notin Start
  BY <1>1, CommitMovesRows DEF Start, o
<1>5. Chain'[r] = Append(Chain[r], Added(p))
  BY <1>2, <1>3, <1>4, CommitMovesEnds DEF o
<1>6. ASSUME NEW s \in Start, s # r PROVE Chain'[s] = Chain[s] /\ Chain[s] # Chain[r]
  <2>1. PICK e \in CurrentRow : Newest(s) = VersionOf(e)
    BY <1>1, <1>4 DEF ChainsAreLines
  <2>2. Newest(s) # Newest(r)
    BY <1>1, <1>6 DEF ChainsAreLines
  <2>3. Newest(s).id # o
    BY <1>2, <2>1, <2>2 DEF VersionOf
  <2>4. Chain[s] # Chain[r]
    BY <2>2, Zenon DEF Newest
  <2> QED
    BY <1>4, <2>3, <2>4, CommitMovesEnds DEF o
<1>7. {Chain'[i] : i \in Start'}
        = ({Chain[i] : i \in Start} \ {Chain[r]}) \cup {Append(Chain[r], Added(p))}
  BY <1>4, <1>5, <1>6
<1> QED
  BY <1>1, <1>2, <1>3, <1>7, UsedRows DEF H!Correct, Added

\* The commit of an upload attaches its file to a version that has room.
LEMMA AttachMaps ==
    ASSUME HistoryInv, IInv', NEW p \in Proc, CommitAttachment(p)
    PROVE  H!Attach(req[p].original, req[p].photo)
<1>1. UNCHANGED <<vehicles, last, service, supersededBy>>
  BY DEF CommitAttachment
<1>2. Chain' = Chain /\ Start' = Start
  BY <1>1, ChainsKept DEF Start, Row
<1>3. /\ req[p].original \in Row
      /\ Cardinality(attachments[req[p].original]) < MaxAttachments
  BY BoundsAssumption DEF HistoryInv, IInv, TypeOK, RequestInv, Fits, ReadsStayTrue,
     CommitAttachment, Attaching, Upload, Row, Id
<1>4. \A i \in Id : req[p].photo \notin attachments[i]
  BY DEF HistoryInv, ToldTheTruth, CommitAttachment, Attaching
<1>5. /\ req[p].original \in H!Used
      /\ attachments' = [attachments EXCEPT ![req[p].original] = @ \cup {req[p].photo}]
      /\ {Chain[i] : i \in Start}' = {Chain[i] : i \in Start}
  BY <1>2, <1>3, UsedRows DEF CommitAttachment
<1>6. UNCHANGED <<vehicles, {Chain[i] : i \in Start}>>
  BY <1>1, <1>5
<1>7. Cardinality(attachments[req[p].original]) < MaxAttachments
  BY <1>3
<1>8. H!Cardinality(attachments[req[p].original]) = Cardinality(attachments[req[p].original])
  BY Zenon DEF Cardinality, H!Cardinality
<1> QED
  BY <1>4, <1>5, <1>6, <1>7, <1>8, Zenon DEF H!Attach

\* Every step of the requests is a step of the history, or none.
LEMMA StepMaps == HistoryInv /\ HistoryInv' /\ [Next]_vars => [H!Next]_(H!historyVars)
<1> SUFFICES ASSUME HistoryInv, HistoryInv', [Next]_vars
             PROVE  H!Next \/ UNCHANGED H!historyVars
  OBVIOUS
<1>1. IInv /\ IInv'
  BY DEF HistoryInv
<1>2. CASE UNCHANGED tables
  <2>1. UNCHANGED <<last, service, supersededBy, vehicles, attachments>>
    BY <1>2 DEF tables
  <2>2. Chain' = Chain /\ Start' = Start
    BY <1>1, <2>1, ChainsKept DEF Start, Row
  <2> QED
    BY <2>1, <2>2 DEF H!historyVars
<1>3. CASE RegisterVehicle
  BY <1>1, <1>3, RegisterMaps DEF H!Next
<1>4. ASSUME NEW p \in Proc, Commit(p) PROVE H!Next
  <2>1. Said(p) \in H!Entry /\ last + 1 \in Id
    BY <1>1, <1>4, CommitWrites DEF H!Entry, Service
  <2>2. CASE req[p].original = 0
    BY <1>4, <2>1, <2>2, CreateMaps, Zenon DEF H!Next, H!Log
  <2>3. CASE req[p].original # 0
    <3>1. PICK r \in Start : H!Correct(Chain[r], Said(p), last + 1)
      BY <1>4, <2>3, ReviseMaps
    <3>2. Chain[r] \in {Chain[i] : i \in Start}
      OBVIOUS
    <3> QED
      BY <2>1, <3>1, <3>2, Zenon DEF H!Next, H!Correct
  <2> QED
    BY <2>2, <2>3
<1>5. ASSUME NEW p \in Proc, CommitAttachment(p) PROVE H!Next
  <2>1. req[p].original \in Id /\ req[p].photo \in Photo
    BY <1>1, <1>5 DEF IInv, RequestInv, Fits, CommitAttachment, Attaching, Upload
  <2> QED
    BY <1>1, <1>5, <2>1, AttachMaps DEF H!Next
<1> QED
  BY <1>2, <1>3, <1>4, <1>5, StepsThatWrite

\* The history starts empty, as the tables do.
LEMMA InitMaps == Init => H!Init
BY DEF Init, H!Init, Start, Row

\* Concurrent transactions with row locks implement the atomic history: to a
\* reader every create, correction and upload takes effect at once.
THEOREM RecordsImplementHistory == Spec => ImplementsHistory
BY InitMaps, StepMaps, HistoryInvariance, PTL DEF Spec, ImplementsHistory, H!Spec
=============================================================================
