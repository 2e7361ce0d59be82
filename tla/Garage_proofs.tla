--------------------------- MODULE Garage_proofs ---------------------------
(***************************************************************************)
(* Proofs about Garage: the list and the screen follow the tables, notes   *)
(* stay with their bike, and an odometer goes down only where the code     *)
(* lets it.                                                                *)
(*                                                                         *)
(* Every task starts, moves on or ends in the same three ways, so the      *)
(* first sections say what these do to the queue, to the room in the       *)
(* tables and to the order of the calls; the last ones go through the      *)
(* tables action by action.                                                *)
(***************************************************************************)
EXTENDS Garage, FiniteSetTheorems, TLAPS

----------------------------------------------------------------------------
(* The queue of calls.                                                     *)

LEMMA AppendAt ==
    ASSUME NEW S, NEW q \in Seq(S), NEW t \in S
    PROVE  /\ Append(q, t) \in Seq(S) /\ Len(Append(q, t)) = Len(q) + 1
           /\ \A i \in 1..Len(q) : Append(q, t)[i] = q[i]
           /\ Append(q, t)[Len(q) + 1] = t
OBVIOUS

LEMMA TailAt ==
    ASSUME NEW S, NEW q \in Seq(S), q # <<>>
    PROVE  /\ Tail(q) \in Seq(S) /\ Len(q) \in Nat \ {0} /\ Len(Tail(q)) = Len(q) - 1
           /\ \A i \in 1..Len(q) - 1 : Tail(q)[i] = q[i + 1]
           /\ Head(q) = q[1] /\ Head(q) \in S
OBVIOUS

\* Every task under way has one call in the queue.
Queued ==
    /\ queue \in Seq(Task)
    /\ \A i, k \in 1..Len(queue) : queue[i] = queue[k] => i = k
    /\ job \in [Task -> Job \cup {None}]
    /\ \A t \in Task : job[t] # None <=> \E i \in 1..Len(queue) : queue[i] = t

\* It starts, makes its next call, or is done.
Started(t, j) ==
    /\ job[t] = None /\ job' = [job EXCEPT ![t] = j] /\ queue' = Append(queue, t)

Continued(t, j) ==
    /\ queue # <<>> /\ t = Head(queue)
    /\ job' = [job EXCEPT ![t] = j] /\ queue' = Append(Tail(queue), t)

Ended(t) ==
    /\ queue # <<>> /\ t = Head(queue)
    /\ job' = [job EXCEPT ![t] = None] /\ queue' = Tail(queue)

\* The positions in the queue.
LEMMA StartedAt ==
    ASSUME Queued, NEW t \in Task, NEW j, Started(t, j)
    PROVE  /\ queue' \in Seq(Task) /\ Len(queue) \in Nat /\ Len(queue') = Len(queue) + 1
           /\ \A i \in 1..Len(queue) : queue'[i] = queue[i] /\ queue[i] # t
           /\ queue'[Len(queue) + 1] = t
<1>1. queue \in Seq(Task) /\ Len(queue) \in Nat
  BY DEF Queued
<1>2. \A i \in 1..Len(queue) : queue[i] # t
  BY DEF Queued, Started
<1>3. /\ queue' \in Seq(Task) /\ Len(queue') = Len(queue) + 1
      /\ \A i \in 1..Len(queue) : queue'[i] = queue[i]
      /\ queue'[Len(queue) + 1] = t
  BY <1>1, AppendAt DEF Started
<1> QED
  BY <1>1, <1>2, <1>3

LEMMA ContinuedAt ==
    ASSUME Queued, NEW t, NEW j, Continued(t, j)
    PROVE  /\ t \in Task /\ job[t] # None
           /\ queue' \in Seq(Task) /\ Len(queue) \in Nat \ {0} /\ Len(queue') = Len(queue)
           /\ queue[1] = t /\ \A i \in 2..Len(queue) : queue[i] # t
           /\ \A i \in 1..Len(queue) - 1 : queue'[i] = queue[i + 1]
           /\ queue'[Len(queue)] = t
<1>1. /\ queue \in Seq(Task) /\ queue # <<>> /\ t = Head(queue)
      /\ queue' = Append(Tail(queue), t)
  BY DEF Queued, Continued
<1>2. /\ Tail(queue) \in Seq(Task) /\ Len(queue) \in Nat \ {0}
      /\ Len(Tail(queue)) = Len(queue) - 1
      /\ \A i \in 1..Len(queue) - 1 : Tail(queue)[i] = queue[i + 1]
      /\ t = queue[1] /\ t \in Task
  BY <1>1, TailAt
<1>3. /\ queue' \in Seq(Task) /\ Len(queue') = Len(queue) - 1 + 1
      /\ \A i \in 1..Len(queue) - 1 : queue'[i] = Tail(queue)[i]
      /\ queue'[Len(queue) - 1 + 1] = t
  BY <1>1, <1>2, AppendAt
<1>4. Len(queue) - 1 + 1 = Len(queue)
  BY <1>2
<1>5. 1 \in 1..Len(queue)
  BY <1>2
<1>6. job[t] # None
  BY <1>2, <1>5 DEF Queued
<1>7. \A i \in 2..Len(queue) : queue[i] # t
  BY <1>2, <1>5 DEF Queued
<1> QED
  BY <1>2, <1>3, <1>4, <1>6, <1>7

LEMMA EndedAt ==
    ASSUME Queued, NEW t, Ended(t)
    PROVE  /\ t \in Task /\ job[t] # None
           /\ queue' \in Seq(Task) /\ Len(queue) \in Nat \ {0} /\ Len(queue') = Len(queue) - 1
           /\ queue[1] = t /\ \A i \in 2..Len(queue) : queue[i] # t
           /\ \A i \in 1..Len(queue) - 1 : queue'[i] = queue[i + 1]
<1>1. queue \in Seq(Task) /\ queue # <<>> /\ t = Head(queue) /\ queue' = Tail(queue)
  BY DEF Queued, Ended
<1>2. /\ Tail(queue) \in Seq(Task) /\ Len(queue) \in Nat \ {0}
      /\ Len(Tail(queue)) = Len(queue) - 1
      /\ \A i \in 1..Len(queue) - 1 : Tail(queue)[i] = queue[i + 1]
      /\ t = queue[1] /\ t \in Task
  BY <1>1, TailAt
<1>3. 1 \in 1..Len(queue)
  BY <1>2
<1>4. job[t] # None /\ \A i \in 2..Len(queue) : queue[i] # t
  BY <1>2, <1>3 DEF Queued
<1> QED
  BY <1>1, <1>2, <1>4

\* The jobs of the others stay.
LEMMA StartedJobs ==
    ASSUME Queued, NEW t \in Task, NEW j \in Job, Started(t, j)
    PROVE  /\ Queued' /\ job'[t] = j /\ t \notin Busy
           /\ \A u \in Task \ {t} : job'[u] = job[u]
           /\ Busy' = Busy \cup {t}
<1>1. j # None /\ job \in [Task -> Job \cup {None}] /\ job[t] = None
  BY NoneAssumption DEF Queued, Started
<1>2. job'[t] = j /\ \A u \in Task \ {t} : job'[u] = job[u]
  BY <1>1 DEF Started
<1>3. job' \in [Task -> Job \cup {None}]
  BY <1>1 DEF Started
<1>4. \A i, k \in 1..Len(queue') : queue'[i] = queue'[k] => i = k
  BY StartedAt DEF Queued
<1>5. ASSUME NEW u \in Task
      PROVE  job'[u] # None <=> \E i \in 1..Len(queue') : queue'[i] = u
  <2>1. CASE u = t
    <3>1. Len(queue) + 1 \in 1..Len(queue')
      BY StartedAt
    <3> QED
      BY <1>1, <1>2, <2>1, <3>1, StartedAt
  <2>2. CASE u # t
    <3>1. (\E i \in 1..Len(queue') : queue'[i] = u) <=> (\E i \in 1..Len(queue) : queue[i] = u)
      BY <2>2, StartedAt
    <3> QED
      BY <1>2, <2>2, <3>1 DEF Queued
  <2> QED
    BY <2>1, <2>2
<1>6. Queued'
  BY <1>3, <1>4, <1>5, StartedAt DEF Queued
<1> QED
  BY <1>1, <1>2, <1>6 DEF Busy

LEMMA ContinuedJobs ==
    ASSUME Queued, NEW t, NEW j \in Job, Continued(t, j)
    PROVE  /\ Queued' /\ job'[t] = j /\ t \in Busy
           /\ \A u \in Task \ {t} : job'[u] = job[u]
           /\ Busy' = Busy
<1>1. j # None /\ job \in [Task -> Job \cup {None}] /\ t \in Task /\ job[t] # None
  BY NoneAssumption, ContinuedAt DEF Queued
<1>2. job'[t] = j /\ \A u \in Task \ {t} : job'[u] = job[u]
  BY <1>1 DEF Continued
<1>3. job' \in [Task -> Job \cup {None}]
  BY <1>1 DEF Continued
<1>4. \A i, k \in 1..Len(queue') : queue'[i] = queue'[k] => i = k
  <2> SUFFICES ASSUME NEW i \in 1..Len(queue), NEW k \in 1..Len(queue), queue'[i] = queue'[k]
               PROVE  i = k
    BY ContinuedAt
  <2>1. Len(queue) \in Nat
    BY ContinuedAt
  <2>2. CASE i < Len(queue) /\ k < Len(queue)
    <3>1. i + 1 \in 1..Len(queue) /\ k + 1 \in 1..Len(queue) /\ queue[i + 1] = queue[k + 1]
      BY <2>1, <2>2, ContinuedAt
    <3>2. i + 1 = k + 1
      BY <3>1 DEF Queued
    <3> QED
      BY <3>2
  <2>3. CASE i = Len(queue) /\ k < Len(queue)
    BY <2>1, <2>3, ContinuedAt
  <2>4. CASE i < Len(queue) /\ k = Len(queue)
    BY <2>1, <2>4, ContinuedAt
  <2> QED
    BY <2>1, <2>2, <2>3, <2>4
<1>5. ASSUME NEW u \in Task
      PROVE  job'[u] # None <=> \E i \in 1..Len(queue') : queue'[i] = u
  <2>0. Len(queue) \in Nat \ {0} /\ Len(queue') = Len(queue)
    BY ContinuedAt
  <2>1. CASE u = t
    BY <1>1, <1>2, <2>0, <2>1, ContinuedAt
  <2>2. CASE u # t
    <3>1. ASSUME NEW i \in 1..Len(queue'), queue'[i] = u
          PROVE  \E k \in 1..Len(queue) : queue[k] = u
      <4>1. i # Len(queue)
        BY <2>2, <3>1, ContinuedAt
      <4>2. i \in 1..Len(queue) - 1 /\ i + 1 \in 1..Len(queue)
        BY <2>0, <4>1
      <4> QED
        BY <3>1, <4>2, ContinuedAt
    <3>2. ASSUME NEW k \in 1..Len(queue), queue[k] = u
          PROVE  \E i \in 1..Len(queue') : queue'[i] = u
      <4>1. k # 1
        BY <2>2, <3>2, ContinuedAt
      <4>2. k - 1 \in 1..Len(queue) - 1 /\ k - 1 \in 1..Len(queue') /\ (k - 1) + 1 = k
        BY <2>0, <4>1
      <4>3. queue'[k - 1] = u
        BY <3>2, <4>2, ContinuedAt
      <4> QED
        BY <4>2, <4>3
    <3> QED
      BY <1>2, <2>2, <3>1, <3>2 DEF Queued
  <2> QED
    BY <2>1, <2>2
<1>6. Queued'
  BY <1>3, <1>4, <1>5, ContinuedAt DEF Queued
<1> QED
  BY <1>1, <1>2, <1>6 DEF Busy

LEMMA EndedJobs ==
    ASSUME Queued, NEW t, Ended(t)
    PROVE  /\ Queued' /\ job'[t] = None /\ t \in Busy
           /\ \A u \in Task \ {t} : job'[u] = job[u]
           /\ Busy' = Busy \ {t}
<1>1. job \in [Task -> Job \cup {None}] /\ t \in Task /\ job[t] # None
  BY EndedAt DEF Queued
<1>2. job'[t] = None /\ \A u \in Task \ {t} : job'[u] = job[u]
  BY <1>1 DEF Ended
<1>3. job' \in [Task -> Job \cup {None}]
  BY <1>1 DEF Ended
<1>0. Len(queue) \in Nat \ {0} /\ Len(queue') = Len(queue) - 1
  BY EndedAt
<1>4. \A i, k \in 1..Len(queue') : queue'[i] = queue'[k] => i = k
  <2> SUFFICES ASSUME NEW i \in 1..Len(queue) - 1, NEW k \in 1..Len(queue) - 1,
                      queue'[i] = queue'[k]
               PROVE  i = k
    BY <1>0
  <2>1. i + 1 \in 1..Len(queue) /\ k + 1 \in 1..Len(queue)
    BY <1>0
  <2>2. queue[i + 1] = queue[k + 1]
    BY EndedAt
  <2>3. i + 1 = k + 1
    BY <2>1, <2>2 DEF Queued
  <2> QED
    BY <2>3
<1>5. ASSUME NEW u \in Task
      PROVE  job'[u] # None <=> \E i \in 1..Len(queue') : queue'[i] = u
  <2>1. ASSUME NEW i \in 1..Len(queue'), queue'[i] = u
        PROVE  u # t /\ \E k \in 1..Len(queue) : queue[k] = u
    <3>1. i \in 1..Len(queue) - 1 /\ i + 1 \in 2..Len(queue) /\ i + 1 \in 1..Len(queue)
      BY <1>0
    <3>2. queue[i + 1] = u
      BY <2>1, <3>1, EndedAt
    <3> QED
      BY <3>1, <3>2, EndedAt
  <2>2. ASSUME NEW k \in 1..Len(queue), queue[k] = u, u # t
        PROVE  \E i \in 1..Len(queue') : queue'[i] = u
    <3>1. k # 1
      BY <2>2, EndedAt
    <3>2. k - 1 \in 1..Len(queue) - 1 /\ k - 1 \in 1..Len(queue') /\ (k - 1) + 1 = k
      BY <1>0, <3>1
    <3>3. queue'[k - 1] = u
      BY <2>2, <3>2, EndedAt
    <3> QED
      BY <3>2, <3>3
  <2> QED
    BY <1>2, <2>1, <2>2 DEF Queued
<1>6. Queued'
  BY <1>3, <1>4, <1>5, EndedAt DEF Queued
<1> QED
  BY <1>1, <1>2, <1>6 DEF Busy

----------------------------------------------------------------------------
(* Room for what the tasks under way insert.                               *)

LEMMA RoomKept ==
    ASSUME NEW n \in Nat, NEW max \in Nat, NEW S, IsFiniteSet(S), n + Cardinality(S) <= max,
           NEW T \in SUBSET S
    PROVE  n + Cardinality(T) <= max
<1>1. Cardinality(T) <= Cardinality(S) /\ IsFiniteSet(T)
  BY FS_Subset
<1>2. Cardinality(T) \in Nat /\ Cardinality(S) \in Nat
  BY <1>1, FS_CardinalityType
<1> QED
  BY <1>1, <1>2

LEMMA RoomUsed ==
    ASSUME NEW n \in Nat, NEW max \in Nat, NEW S, IsFiniteSet(S), n + Cardinality(S) <= max,
           NEW x \in S, NEW T \in SUBSET (S \ {x})
    PROVE  n + 1 + Cardinality(T) <= max
<1>1. Cardinality(S \ {x}) = Cardinality(S) - 1 /\ IsFiniteSet(S \ {x})
  BY FS_RemoveElement
<1>2. Cardinality(T) <= Cardinality(S \ {x}) /\ IsFiniteSet(T)
  BY <1>1, FS_Subset
<1>3. Cardinality(T) \in Nat /\ Cardinality(S) \in Nat
  BY <1>2, FS_CardinalityType
<1> QED
  BY <1>1, <1>2, <1>3

BikesToCome == {t \in Busy : InsertsBike(job[t])}

NotesToCome == {t \in Busy : InsertsNote(job[t])}

Counts == made \in Nat /\ written \in Nat

LEMMA RoomParts ==
    RoomLeft <=> /\ IsFiniteSet(Busy) /\ Cardinality(Busy) = Len(queue)
                 /\ made + Cardinality(BikesToCome) <= MaxBikes
                 /\ written + Cardinality(NotesToCome) <= MaxNotes
BY DEF RoomLeft, BikesToCome, NotesToCome

LEMMA ToComeIsFinite ==
    ASSUME RoomLeft
    PROVE  IsFiniteSet(BikesToCome) /\ IsFiniteSet(NotesToCome)
<1>1. BikesToCome \subseteq Busy /\ NotesToCome \subseteq Busy
  BY DEF BikesToCome, NotesToCome
<1> QED
  BY <1>1, RoomParts, FS_Subset

\* A screen starts an insertion only when there is room for one of every task
\* under way, and for this one.
LEMMA StartedRoom ==
    ASSUME Queued, RoomLeft, Counts, NEW t \in Task, NEW j \in Job, Started(t, j),
           UNCHANGED <<made, written>>,
           InsertsBike(j) => RoomFor(made, MaxBikes),
           InsertsNote(j) => RoomFor(written, MaxNotes)
    PROVE  RoomLeft'
<1>1. /\ Busy' = Busy \cup {t} /\ t \notin Busy /\ job'[t] = j
      /\ \A u \in Busy : job'[u] = job[u]
  BY StartedJobs DEF Busy
<1>2. /\ IsFiniteSet(Busy) /\ Cardinality(Busy) = Len(queue)
      /\ made + Cardinality(BikesToCome) <= MaxBikes
      /\ written + Cardinality(NotesToCome) <= MaxNotes
  BY RoomParts
<1>3. IsFiniteSet(Busy') /\ Cardinality(Busy') = Len(queue) + 1
  BY <1>1, <1>2, FS_AddElement
<1>4. Len(queue') = Len(queue) + 1 /\ Len(queue) \in Nat
  BY StartedAt
<1>5. made + Cardinality(BikesToCome') <= MaxBikes
  <2>1. CASE InsertsBike(j)
    <3>1. made + Cardinality(Busy') <= MaxBikes
      BY <1>3, <1>4, <2>1, GarageAssumption DEF RoomFor, Counts
    <3>2. BikesToCome' \subseteq Busy'
      BY DEF BikesToCome
    <3> QED
      BY <1>3, <3>1, <3>2, RoomKept, GarageAssumption DEF Counts
  <2>2. CASE ~InsertsBike(j)
    <3>1. BikesToCome' = BikesToCome
      BY <1>1, <2>2 DEF BikesToCome
    <3> QED
      BY <1>2, <3>1
  <2> QED
    BY <2>1, <2>2
<1>6. written + Cardinality(NotesToCome') <= MaxNotes
  <2>1. CASE InsertsNote(j)
    <3>1. written + Cardinality(Busy') <= MaxNotes
      BY <1>3, <1>4, <2>1, GarageAssumption DEF RoomFor, Counts
    <3>2. NotesToCome' \subseteq Busy'
      BY DEF NotesToCome
    <3> QED
      BY <1>3, <3>1, <3>2, RoomKept, GarageAssumption DEF Counts
  <2>2. CASE ~InsertsNote(j)
    <3>1. NotesToCome' = NotesToCome
      BY <1>1, <2>2 DEF NotesToCome
    <3> QED
      BY <1>2, <3>1
  <2> QED
    BY <2>1, <2>2
<1>7. made' = made /\ written' = written
  OBVIOUS
<1> QED
  BY <1>3, <1>4, <1>5, <1>6, <1>7 DEF RoomLeft, BikesToCome, NotesToCome

\* A task that goes on asks for no room it did not have, and gives up what it
\* has used.
LEMMA ContinuedRoom ==
    ASSUME Queued, RoomLeft, Counts, NEW t, NEW j \in Job, Continued(t, j),
           \/ made' = made /\ (InsertsBike(j) => InsertsBike(job[t]))
           \/ made' = made + 1 /\ InsertsBike(job[t]) /\ ~InsertsBike(j),
           \/ written' = written /\ (InsertsNote(j) => InsertsNote(job[t]))
           \/ written' = written + 1 /\ InsertsNote(job[t]) /\ ~InsertsNote(j)
    PROVE  RoomLeft'
<1>1. /\ Busy' = Busy /\ t \in Busy /\ job'[t] = j
      /\ \A u \in Busy \ {t} : job'[u] = job[u]
  BY ContinuedJobs DEF Busy
<1>2. /\ IsFiniteSet(Busy) /\ Cardinality(Busy) = Len(queue) /\ Len(queue') = Len(queue)
      /\ made + Cardinality(BikesToCome) <= MaxBikes /\ IsFiniteSet(BikesToCome)
      /\ written + Cardinality(NotesToCome) <= MaxNotes /\ IsFiniteSet(NotesToCome)
  BY RoomParts, ToComeIsFinite, ContinuedAt
<1>3. made' + Cardinality(BikesToCome') <= MaxBikes
  <2>1. CASE made' = made /\ (InsertsBike(j) => InsertsBike(job[t]))
    <3>1. BikesToCome' \subseteq BikesToCome
      BY <1>1, <2>1 DEF BikesToCome
    <3>2. made + Cardinality(BikesToCome') <= MaxBikes
      BY <1>2, <3>1, RoomKept, GarageAssumption DEF Counts
    <3> QED
      BY <2>1, <3>2
  <2>2. CASE made' = made + 1 /\ InsertsBike(job[t]) /\ ~InsertsBike(j)
    <3>1. t \in BikesToCome /\ BikesToCome' \subseteq BikesToCome \ {t}
      BY <1>1, <2>2 DEF BikesToCome
    <3>2. made + 1 + Cardinality(BikesToCome') <= MaxBikes
      BY <1>2, <3>1, RoomUsed, GarageAssumption DEF Counts
    <3> QED
      BY <2>2, <3>2
  <2> QED
    BY <2>1, <2>2
<1>4. written' + Cardinality(NotesToCome') <= MaxNotes
  <2>1. CASE written' = written /\ (InsertsNote(j) => InsertsNote(job[t]))
    <3>1. NotesToCome' \subseteq NotesToCome
      BY <1>1, <2>1 DEF NotesToCome
    <3>2. written + Cardinality(NotesToCome') <= MaxNotes
      BY <1>2, <3>1, RoomKept, GarageAssumption DEF Counts
    <3> QED
      BY <2>1, <3>2
  <2>2. CASE written' = written + 1 /\ InsertsNote(job[t]) /\ ~InsertsNote(j)
    <3>1. t \in NotesToCome /\ NotesToCome' \subseteq NotesToCome \ {t}
      BY <1>1, <2>2 DEF NotesToCome
    <3>2. written + 1 + Cardinality(NotesToCome') <= MaxNotes
      BY <1>2, <3>1, RoomUsed, GarageAssumption DEF Counts
    <3> QED
      BY <2>2, <3>2
  <2> QED
    BY <2>1, <2>2
<1> QED
  BY <1>1, <1>2, <1>3, <1>4 DEF RoomLeft, BikesToCome, NotesToCome

LEMMA EndedRoom ==
    ASSUME Queued, RoomLeft, Counts, NEW t, Ended(t), UNCHANGED <<made, written>>
    PROVE  RoomLeft'
<1>1. /\ Busy' = Busy \ {t} /\ t \in Busy
      /\ \A u \in Busy \ {t} : job'[u] = job[u]
  BY EndedJobs DEF Busy
<1>2. /\ IsFiniteSet(Busy) /\ Cardinality(Busy) = Len(queue)
      /\ made + Cardinality(BikesToCome) <= MaxBikes /\ IsFiniteSet(BikesToCome)
      /\ written + Cardinality(NotesToCome) <= MaxNotes /\ IsFiniteSet(NotesToCome)
  BY RoomParts, ToComeIsFinite
<1>3. IsFiniteSet(Busy') /\ Cardinality(Busy') = Len(queue) - 1 /\ Len(queue') = Len(queue) - 1
  BY <1>1, <1>2, FS_RemoveElement, EndedAt
<1>4. BikesToCome' \subseteq BikesToCome /\ NotesToCome' \subseteq NotesToCome
  BY <1>1 DEF BikesToCome, NotesToCome
<1>5. /\ made + Cardinality(BikesToCome') <= MaxBikes
      /\ written + Cardinality(NotesToCome') <= MaxNotes
  BY <1>2, <1>4, RoomKept, GarageAssumption DEF Counts
<1> QED
  BY <1>3, <1>5 DEF RoomLeft, BikesToCome, NotesToCome

----------------------------------------------------------------------------
(* The writes of no open screen come first.                                *)

InTurn ==
    \A i, k \in 1..Len(queue) : job[queue[i]].here /\ Stranger(job[queue[k]]) => k < i

LEMMA StartedInTurn ==
    ASSUME Queued, InTurn, NEW t \in Task, NEW j \in Job, Started(t, j),
           Stranger(j) => \A u \in Busy : ~job[u].here
    PROVE  InTurn'
<1> SUFFICES ASSUME NEW i \in 1..Len(queue) + 1, NEW k \in 1..Len(queue) + 1,
                    job'[queue'[i]].here, Stranger(job'[queue'[k]])
             PROVE  k < i
  BY StartedAt DEF InTurn, Stranger
<1>0. Len(queue) \in Nat /\ job'[t] = j
  BY StartedAt, StartedJobs
<1>1. ASSUME NEW n \in 1..Len(queue)
      PROVE  queue'[n] = queue[n] /\ queue[n] \in Busy /\ job'[queue[n]] = job[queue[n]]
  <2>1. queue[n] \in Task /\ queue[n] # t /\ queue'[n] = queue[n]
    BY StartedAt DEF Queued
  <2>2. job[queue[n]] # None
    BY <2>1 DEF Queued
  <2> QED
    BY <2>1, <2>2, StartedJobs DEF Busy
<1>2. CASE i \in 1..Len(queue) /\ k \in 1..Len(queue)
  BY <1>1, <1>2 DEF InTurn
<1>3. CASE i = Len(queue) + 1 /\ k \in 1..Len(queue)
  BY <1>0, <1>3
<1>4. CASE k = Len(queue) + 1
  <2>1. Stranger(j)
    BY <1>0, <1>4, StartedAt
  <2>2. CASE i = Len(queue) + 1
    BY <1>0, <2>1, <2>2, StartedAt DEF Stranger
  <2>3. CASE i \in 1..Len(queue)
    BY <1>1, <2>1, <2>3
  <2> QED
    BY <1>0, <2>2, <2>3
<1> QED
  BY <1>0, <1>2, <1>3, <1>4

LEMMA ContinuedInTurn ==
    ASSUME Queued, InTurn, NEW t, NEW j \in Job, Continued(t, j), ~Stranger(j)
    PROVE  InTurn'
<1> SUFFICES ASSUME NEW i \in 1..Len(queue), NEW k \in 1..Len(queue),
                    job'[queue'[i]].here, Stranger(job'[queue'[k]])
             PROVE  k < i
  BY ContinuedAt DEF InTurn, Stranger
<1>0. Len(queue) \in Nat \ {0} /\ job'[t] = j /\ queue'[Len(queue)] = t
  BY ContinuedAt, ContinuedJobs
<1>1. ASSUME NEW n \in 1..Len(queue) - 1
      PROVE  /\ n + 1 \in 1..Len(queue)
             /\ job'[queue'[n]] = job[queue[n + 1]]
  <2>1. n + 1 \in 2..Len(queue) /\ n + 1 \in 1..Len(queue)
    BY <1>0
  <2>2. queue'[n] = queue[n + 1] /\ queue[n + 1] # t /\ queue[n + 1] \in Task
    BY <2>1, ContinuedAt DEF Queued
  <2> QED
    BY <2>1, <2>2, ContinuedJobs
<1>2. k # Len(queue)
  BY <1>0
<1>3. k \in 1..Len(queue) - 1
  BY <1>0, <1>2
<1>4. CASE i \in 1..Len(queue) - 1
  <2>1. k + 1 < i + 1
    BY <1>1, <1>3, <1>4 DEF InTurn
  <2> QED
    BY <1>0, <2>1
<1>5. CASE i = Len(queue)
  BY <1>0, <1>3, <1>5
<1> QED
  BY <1>0, <1>4, <1>5

LEMMA EndedInTurn ==
    ASSUME Queued, InTurn, NEW t, Ended(t)
    PROVE  InTurn'
<1> SUFFICES ASSUME NEW i \in 1..Len(queue) - 1, NEW k \in 1..Len(queue) - 1,
                    job'[queue'[i]].here, Stranger(job'[queue'[k]])
             PROVE  k < i
  BY EndedAt DEF InTurn, Stranger
<1>0. Len(queue) \in Nat \ {0}
  BY EndedAt
<1>1. ASSUME NEW n \in 1..Len(queue) - 1
      PROVE  /\ n + 1 \in 1..Len(queue)
             /\ job'[queue'[n]] = job[queue[n + 1]]
  <2>1. n + 1 \in 2..Len(queue) /\ n + 1 \in 1..Len(queue)
    BY <1>0
  <2>2. queue'[n] = queue[n + 1] /\ queue[n + 1] # t /\ queue[n + 1] \in Task
    BY <2>1, EndedAt DEF Queued
  <2> QED
    BY <2>1, <2>2, EndedJobs
<1>2. k + 1 < i + 1
  BY <1>1 DEF InTurn
<1> QED
  BY <1>0, <1>2

\* At the head of the queue is a call of an open screen: every other write is
\* one of the screen.
LEMMA HeadIsHere ==
    ASSUME Queued, InTurn, NEW t \in Busy, queue # <<>>, t = Head(queue), job[t].here, NEW u \in Busy
    PROVE  ~Stranger(job[u])
<1>1. /\ Len(queue) \in Nat \ {0} /\ t = queue[1]
  BY TailAt DEF Queued
<1>2. PICK k \in 1..Len(queue) : queue[k] = u
  BY DEF Queued, Busy
<1>3. 1 \in 1..Len(queue)
  BY <1>1
<1>4. ~(k < 1)
  BY <1>1
<1> QED
  BY <1>1, <1>2, <1>3, <1>4 DEF InTurn

----------------------------------------------------------------------------
(* Jobs and screens.                                                       *)

Ops == {"load", "add", "edit", "copy", "remove", "open", "note", "unnote"}

LEMMA TheIsOne == \A S : S # {} => The(S) \in S
BY DEF The

LEMMA AnythingIsGiven == Anything \in Given /\ Anything.id = 0 /\ Anything.born = 0
<1>1. The(Plate) \in Plate /\ 0 \in Km /\ 0 \in 0..MaxBikes
  BY TheIsOne, GarageAssumption DEF Km
<1> QED
  BY <1>1 DEF Anything, Given

LEMMA BikeIsGiven ==
    ASSUME NEW b \in Bike
    PROVE  /\ b \in Given /\ b.id \in BikeId /\ b.id # 0 /\ b.born \in BikeId
           /\ b.plate \in Plate /\ b.km \in Km
BY GarageAssumption DEF Bike, Given, BikeId

LEMMA DoingIsJob ==
    ASSUME NEW op \in Ops, NEW at \in {"first", "write", "list", "notes"}, NEW bike \in Given
    PROVE  /\ Doing(op, at, bike) \in Job
           /\ Doing(op, at, bike).op = op /\ Doing(op, at, bike).at = at
           /\ Doing(op, at, bike).bike = bike
           /\ Doing(op, at, bike).note = 0 /\ Doing(op, at, bike).here = FALSE
BY GarageAssumption DEF Doing, Job, Ops

LEMMA OpeningIsJob ==
    /\ Opening \in Job /\ WellFormed(Opening) /\ ~Stranger(Opening)
    /\ ~InsertsBike(Opening) /\ ~InsertsNote(Opening)
    /\ Opening.op = "open" /\ Opening.at = "notes" /\ Opening.here = TRUE
<1>1. PICK j : j = Doing("open", "notes", Anything)
  OBVIOUS
<1>2. j \in Job /\ j.op = "open" /\ j.at = "notes" /\ j.bike = Anything
  BY <1>1, AnythingIsGiven, GarageAssumption DEF Doing, Job
<1>3. /\ Opening \in Job /\ Opening.op = "open" /\ Opening.at = "notes"
      /\ Opening.bike = Anything /\ Opening.here = TRUE
  BY <1>1, <1>2 DEF Opening, Job
<1> QED
  BY <1>3, AnythingIsGiven DEF WellFormed, Stages, Stranger, InsertsBike, InsertsNote

LEMMA ScreenIsScreen ==
    ASSUME NEW b \in Bike, NEW km \in Km, NEW calm \in BOOLEAN
    PROVE  /\ NotesScreen(b, km, calm) \in Screen
           /\ NotesScreen(b, km, calm).bike.id = b.id
           /\ NotesScreen(b, km, calm).bike.born = b.born
           /\ NotesScreen(b, km, calm).bike.plate = b.plate
           /\ NotesScreen(b, km, calm).calm = calm
           /\ calm => NotesScreen(b, km, calm).km = km
           /\ NotesScreen(b, km, calm).shown = NoNotes
           /\ NotesScreen(b, km, calm).fresh = FALSE
<1>1. PICK c : c = [b EXCEPT !.km = 0]
  OBVIOUS
<1>2. c \in Bike /\ c.id = b.id /\ c.born = b.born /\ c.plate = b.plate
  BY <1>1, GarageAssumption DEF Bike, Km
<1>3. PICK k \in Km : k = IF calm THEN km ELSE 0
  BY GarageAssumption DEF Km
<1>4. NoNotes \in [NoteId -> Note \cup {None}]
  BY DEF NoNotes
<1>5. NotesScreen(b, km, calm) =
        [bike |-> c, calm |-> calm, km |-> k, shown |-> NoNotes, fresh |-> FALSE]
  BY <1>1, <1>3 DEF NotesScreen
<1>6. NotesScreen(b, km, calm) \in Screen
  BY <1>2, <1>4, <1>5 DEF Screen
<1>7. calm => NotesScreen(b, km, calm).km = km
  BY <1>3, <1>5
<1> QED
  BY <1>2, <1>5, <1>6, <1>7

\* What a task goes on with once it has written.
ThenJob(j, at) ==
    [j EXCEPT !.at = at, !.note = 0, !.bike = IF j.op = "copy" THEN @ ELSE Anything]

LEMMA ThenIsJob ==
    ASSUME NEW j \in Job, NEW at \in {"list", "notes"}
    PROVE  /\ ThenJob(j, at) \in Job
           /\ ThenJob(j, at).op = j.op /\ ThenJob(j, at).at = at /\ ThenJob(j, at).note = 0
           /\ ThenJob(j, at).here = j.here
           /\ ThenJob(j, at).bike = IF j.op = "copy" THEN j.bike ELSE Anything
<1>1. PICK b \in Given : b = IF j.op = "copy" THEN j.bike ELSE Anything
  BY AnythingIsGiven DEF Job
<1>2. ThenJob(j, at) = [j EXCEPT !.at = at, !.note = 0, !.bike = b]
  BY <1>1 DEF ThenJob, Job
<1>3. at \in {"first", "write", "list", "notes"} /\ 0 \in 0..MaxNotes
  BY GarageAssumption
<1>4. /\ ThenJob(j, at) \in Job
      /\ ThenJob(j, at).op = j.op /\ ThenJob(j, at).at = at /\ ThenJob(j, at).note = 0
      /\ ThenJob(j, at).here = j.here /\ ThenJob(j, at).bike = b
  BY <1>2, <1>3 DEF Job
<1> QED
  BY <1>1, <1>4

LEMMA ThenIsWellFormed ==
    ASSUME NEW j \in Job, WellFormed(j), NEW at \in {"list", "notes"}, <<j.op, at>> \in Stages
    PROVE  /\ WellFormed(ThenJob(j, at)) /\ ~Stranger(ThenJob(j, at))
           /\ ~InsertsBike(ThenJob(j, at)) /\ ~InsertsNote(ThenJob(j, at))
<1>1. /\ ThenJob(j, at).op = j.op /\ ThenJob(j, at).at = at
      /\ ThenJob(j, at).here = j.here
      /\ ThenJob(j, at).bike = IF j.op = "copy" THEN j.bike ELSE Anything
  BY ThenIsJob
<1>2. ThenJob(j, at).bike.born = ThenJob(j, at).bike.id
  BY <1>1, AnythingIsGiven DEF WellFormed
<1>3. j.op = "add" => ThenJob(j, at).bike.id = 0
  BY <1>1, AnythingIsGiven
<1>4. at # "write" /\ at # "first"
  OBVIOUS
<1> QED
  BY <1>1, <1>2, <1>3, <1>4 DEF WellFormed, Stranger, InsertsBike, InsertsNote

----------------------------------------------------------------------------
(* The parts of the invariant.                                             *)

Tables ==
    /\ bikes \in [BikeId -> Bike \cup {None}] /\ made \in 0..MaxBikes
    /\ notes \in [NoteId -> Note \cup {None}] /\ written \in 0..MaxNotes
    /\ list \in [BikeId -> Bike \cup {None}]
    /\ loaded \in BOOLEAN /\ missed \in BOOLEAN
    /\ alone \subseteq Task
    /\ screen \in Screen \cup {None}

JobsFormed == \A t \in Busy : WellFormed(job[t])

\* What a screen says of the tasks, apart from their order.
ScreenKeeps ==
    /\ screen = None => \A t \in Busy : ~job[t].here
    /\ screen # None /\ screen.fresh => \A t \in Busy : ~Stranger(job[t])
    /\ screen # None /\ screen.fresh /\ screen.shown # NotesOf(screen.bike.id) =>
          \E t \in Busy : job[t].here /\ job[t].at \in {"list", "notes"}

Control == Queued /\ JobsFormed /\ RoomLeft /\ InTurn

Data == BikesInv /\ NotesInv /\ AloneInv /\ CalmInv /\ ScreenHasItsBike /\ ListInv /\ ScreenKeeps

LEMMA InvParts == GarageInv <=> Tables /\ Control /\ Data
<1>1. GarageInv => Tables /\ Control /\ Data
  BY Zenon DEF GarageInv, GarageTypeOK, Tables, Control, Queued, JobsFormed, InTurn, Data,
     ScreenInv, ScreenKeeps
<1>2. ASSUME Tables, Control, Data PROVE GarageInv
  <2>1. screen # None =>
          /\ screen.bike \in Bike /\ screen.km \in Km
          /\ screen.shown \in [NoteId -> Note \cup {None}]
          /\ screen.calm \in BOOLEAN /\ screen.fresh \in BOOLEAN
    <3> SUFFICES ASSUME screen \in Screen
                 PROVE  /\ screen.bike \in Bike /\ screen.km \in Km
                        /\ screen.shown \in [NoteId -> Note \cup {None}]
                        /\ screen.calm \in BOOLEAN /\ screen.fresh \in BOOLEAN
      BY <1>2 DEF Tables
    <3> QED
      BY Zenon DEF Screen
  <2>2. GarageTypeOK
    BY <1>2, <2>1, Zenon DEF GarageTypeOK, Tables, Control, Queued
  <2> QED
    BY <1>2, <2>2, Zenon DEF GarageInv, Tables, Control, JobsFormed, InTurn, Data, ScreenInv, ScreenKeeps
<1> QED
  BY <1>1, <1>2

LEMMA TablesCount == ASSUME Tables PROVE Counts
BY GarageAssumption DEF Tables, Counts

----------------------------------------------------------------------------
(* What a step of one task leaves to the others.                           *)

Others(t) == \A u \in Task \ {t} : job'[u] = job[u] /\ (u \in Busy' <=> u \in Busy)

LEMMA StartedOthers ==
    ASSUME Queued, NEW t \in Task, NEW j \in Job, Started(t, j)
    PROVE  Others(t) /\ job'[t] = j /\ t \notin Busy /\ Busy' = Busy \cup {t}
<1>1. /\ job'[t] = j /\ t \notin Busy /\ Busy' = Busy \cup {t}
      /\ \A u \in Task \ {t} : job'[u] = job[u]
  BY StartedJobs
<1> QED
  BY <1>1 DEF Others

LEMMA ContinuedOthers ==
    ASSUME Queued, NEW t, NEW j \in Job, Continued(t, j)
    PROVE  Others(t) /\ job'[t] = j /\ t \in Busy /\ Busy' = Busy
<1>1. /\ job'[t] = j /\ t \in Busy /\ Busy' = Busy
      /\ \A u \in Task \ {t} : job'[u] = job[u]
  BY ContinuedJobs
<1> QED
  BY <1>1 DEF Others

LEMMA EndedOthers ==
    ASSUME Queued, NEW t, Ended(t)
    PROVE  Others(t) /\ t \in Busy /\ Busy' = Busy \ {t}
<1>1. /\ t \in Busy /\ Busy' = Busy \ {t}
      /\ \A u \in Task \ {t} : job'[u] = job[u]
  BY EndedJobs
<1> QED
  BY <1>1 DEF Others

LEMMA StartedControl ==
    ASSUME Control, Counts, NEW t \in Task, NEW j \in Job, Started(t, j),
           UNCHANGED <<made, written>>, WellFormed(j),
           InsertsBike(j) => RoomFor(made, MaxBikes),
           InsertsNote(j) => RoomFor(written, MaxNotes),
           Stranger(j) => \A u \in Busy : ~job[u].here
    PROVE  Control'
<1>1. Queued' /\ job'[t] = j /\ Others(t) /\ Busy' = Busy \cup {t} /\ t \notin Busy
  BY StartedJobs, StartedOthers DEF Control
<1>2. RoomLeft' /\ InTurn'
  BY StartedRoom, StartedInTurn DEF Control
<1>3. JobsFormed'
  <2> SUFFICES ASSUME NEW u \in Busy' PROVE WellFormed(job'[u])
    BY DEF JobsFormed, WellFormed
  <2>1. CASE u = t
    BY <1>1, <2>1
  <2>2. CASE u # t
    BY <1>1, <2>2 DEF Control, JobsFormed, Others, Busy
  <2> QED
    BY <2>1, <2>2
<1> QED
  BY <1>1, <1>2, <1>3 DEF Control

LEMMA ContinuedControl ==
    ASSUME Control, Counts, NEW t, NEW j \in Job, Continued(t, j),
           WellFormed(j), ~Stranger(j),
           \/ made' = made /\ (InsertsBike(j) => InsertsBike(job[t]))
           \/ made' = made + 1 /\ InsertsBike(job[t]) /\ ~InsertsBike(j),
           \/ written' = written /\ (InsertsNote(j) => InsertsNote(job[t]))
           \/ written' = written + 1 /\ InsertsNote(job[t]) /\ ~InsertsNote(j)
    PROVE  Control'
<1>1. Queued' /\ job'[t] = j /\ Others(t) /\ Busy' = Busy
  BY ContinuedJobs, ContinuedOthers DEF Control
<1>2. RoomLeft' /\ InTurn'
  BY ContinuedRoom, ContinuedInTurn DEF Control
<1>3. JobsFormed'
  <2> SUFFICES ASSUME NEW u \in Busy' PROVE WellFormed(job'[u])
    BY DEF JobsFormed, WellFormed
  <2>1. CASE u = t
    BY <1>1, <2>1
  <2>2. CASE u # t
    BY <1>1, <2>2 DEF Control, JobsFormed, Others, Busy
  <2> QED
    BY <2>1, <2>2
<1> QED
  BY <1>1, <1>2, <1>3 DEF Control

LEMMA EndedControl ==
    ASSUME Control, Counts, NEW t, Ended(t), UNCHANGED <<made, written>>
    PROVE  Control'
<1>1. Queued' /\ Others(t) /\ Busy' = Busy \ {t}
  BY EndedJobs, EndedOthers DEF Control
<1>2. RoomLeft' /\ InTurn'
  BY EndedRoom, EndedInTurn DEF Control
<1>3. JobsFormed'
  <2> SUFFICES ASSUME NEW u \in Busy' PROVE WellFormed(job'[u])
    BY DEF JobsFormed, WellFormed
  <2> QED
    BY <1>1 DEF Control, JobsFormed, Others, Busy
<1> QED
  BY <1>1, <1>2, <1>3 DEF Control

----------------------------------------------------------------------------
(* What keeps each part of the invariant about the data.                   *)

LEMMA NotesKept ==
    ASSUME NotesInv, Counts, NEW t, Others(t), UNCHANGED written \/ written' = written + 1,
           \A n \in NoteId : notes'[n] # None =>
              /\ n <= written' /\ notes'[n].born = notes'[n].bike
              /\ bikes'[notes'[n].bike] # None,
           \A n \in NoteId : n <= written /\ notes'[n] # None =>
              notes[n] # None /\ notes'[n].bike = notes[n].bike,
           t \in Busy' /\ job'[t].op = "note" /\ job'[t].note # 0 =>
              (Belongs(job[t].note, job[t].bike.id))',
           screen' # None => \A n \in NoteId : screen'.shown[n] # None =>
              Belongs(n, screen'.bike.id),
           Tables, Queued, Queued'
    PROVE  NotesInv'
<1>1. ASSUME NEW n \in NoteId, NEW i, Belongs(n, i)
      PROVE  n <= written' /\ (notes'[n] # None => notes'[n].bike = i)
  <2>1. n <= written /\ n \in Nat /\ written \in Nat
    BY <1>1 DEF Belongs, Counts, NoteId
  <2>2. n <= written'
    BY <2>1
  <2> QED
    BY <1>1, <2>1, <2>2 DEF Belongs
<1>2. ASSUME NEW u \in Busy', job'[u].op = "note", job'[u].note # 0
      PROVE  (Belongs(job[u].note, job[u].bike.id))'
  <2>1. CASE u = t
    BY <1>2, <2>1
  <2>2. CASE u # t
    <3>1. u \in Busy /\ job'[u] = job[u] /\ job[u] \in Job
      BY <2>2 DEF Others, Busy, Queued
    <3>2. Belongs(job[u].note, job[u].bike.id) /\ job[u].note \in NoteId
      BY <1>2, <3>1, GarageAssumption DEF NotesInv, Job, NoteId
    <3> QED
      BY <1>1, <3>1, <3>2 DEF Belongs
  <2> QED
    BY <2>1, <2>2
<1>3. ASSUME screen' # None, NEW n \in NoteId, screen'.shown[n] # None
      PROVE  (Belongs(n, screen.bike.id))'
  BY <1>1, <1>3 DEF Belongs
<1> QED
  BY <1>2, <1>3 DEF NotesInv, Belongs

LEMMA AloneContinued ==
    ASSUME AloneInv, Queued, NEW t, NEW j \in Job, Continued(t, j), UNCHANGED alone,
           t \in alone /\ j.op = "copy" /\ j.at = "write" /\ j.bike.id # 0 =>
              /\ bikes'[j.bike.id] # None
              /\ bikes'[j.bike.id].plate = j.bike.plate
              /\ bikes'[j.bike.id].km <= j.bike.km,
           t \in alone /\ j.op = "copy" /\ j.at = "list" =>
              \E i \in BikeId : /\ bikes'[i] # None
                               /\ bikes'[i].plate = j.bike.plate
                               /\ bikes'[i].km = j.bike.km
    PROVE  AloneInv'
<1>1. job'[t] = j /\ t \in Busy /\ Busy' = Busy
  BY ContinuedOthers
<1>2. ASSUME NEW u \in alone' PROVE u = t /\ u \in alone /\ Busy' = {u}
  BY <1>1, <1>2 DEF AloneInv
<1> QED
  BY <1>1, <1>2 DEF AloneInv

LEMMA AloneEnded ==
    ASSUME AloneInv, Queued, NEW t, Ended(t), alone' = alone \ {t}
    PROVE  AloneInv'
<1>1. t \in Busy
  BY EndedOthers
<1>2. alone' = {}
  BY <1>1 DEF AloneInv
<1> QED
  BY <1>2 DEF AloneInv

SameScreen ==
    \/ screen = None /\ screen' = None
    \/ /\ screen # None /\ screen' # None
       /\ screen'.bike = screen.bike /\ screen'.calm = screen.calm /\ screen'.km = screen.km

Calm == screen # None /\ screen.calm

Harmless == {"load", "open", "note", "unnote"}

LEMMA CalmKept ==
    ASSUME CalmInv, NEW t, Others(t), SameScreen,
           t \in Busy' /\ Calm => job'[t].op \in Harmless
    PROVE  CalmInv'
<1> SUFFICES ASSUME screen' # None /\ screen'.calm, NEW u \in Busy' PROVE job'[u].op \in Harmless
  BY DEF CalmInv, Harmless
<1>1. Calm
  BY DEF Calm, SameScreen
<1>2. CASE u = t
  BY <1>1, <1>2
<1>3. CASE u # t
  <2>1. u \in Busy /\ job'[u] = job[u]
    BY <1>3 DEF Others, Busy
  <2> QED
    BY <1>1, <2>1 DEF CalmInv, Calm, Harmless
<1> QED
  BY <1>2, <1>3

BikesGrow ==
    \A i \in BikeId : bikes[i] # None =>
       /\ bikes'[i] # None /\ bikes'[i].plate = bikes[i].plate /\ bikes'[i].born = bikes[i].born
       /\ bikes'[i].km >= bikes[i].km

LEMMA BikesStill == ASSUME Tables, UNCHANGED bikes PROVE BikesGrow
<1> SUFFICES ASSUME NEW i \in BikeId, bikes[i] # None PROVE bikes[i].km >= bikes[i].km
  BY DEF BikesGrow
<1>1. bikes[i].km \in Nat
  BY GarageAssumption DEF Tables, Bike, Km
<1> QED
  BY <1>1

LEMMA ScreenKeepsItsBike ==
    ASSUME ScreenHasItsBike, Tables, Tables', SameScreen, Calm => BikesGrow
    PROVE  ScreenHasItsBike'
<1> SUFFICES ASSUME screen' # None /\ screen'.calm
             PROVE  /\ bikes'[screen'.bike.id] # None
                    /\ bikes'[screen'.bike.id].plate = screen'.bike.plate
                    /\ bikes'[screen'.bike.id].born = screen'.bike.born
                    /\ bikes'[screen'.bike.id].km >= screen'.km
  BY DEF ScreenHasItsBike
<1>1. /\ Calm /\ BikesGrow /\ screen'.bike = screen.bike /\ screen'.km = screen.km
  BY DEF SameScreen, Calm
<1>2. screen \in Screen
  BY <1>1 DEF Calm, Tables
<1>3. screen.bike.id \in BikeId /\ screen.km \in Nat
  BY <1>2, GarageAssumption DEF Screen, Bike, Km
<1>4. /\ bikes[screen.bike.id] # None
      /\ bikes[screen.bike.id].plate = screen.bike.plate
      /\ bikes[screen.bike.id].born = screen.bike.born
      /\ bikes[screen.bike.id].km >= screen.km
  BY <1>1 DEF ScreenHasItsBike, Calm
<1>5. /\ bikes'[screen.bike.id] # None
      /\ bikes'[screen.bike.id].plate = bikes[screen.bike.id].plate
      /\ bikes'[screen.bike.id].born = bikes[screen.bike.id].born
      /\ bikes'[screen.bike.id].km >= bikes[screen.bike.id].km
  BY <1>1, <1>3, <1>4 DEF BikesGrow
<1>6. bikes[screen.bike.id].km \in Nat /\ bikes'[screen.bike.id].km \in Nat
  BY <1>3, <1>4, <1>5, GarageAssumption DEF Tables, Bike, Km
<1>7. bikes'[screen.bike.id].km >= screen.km
  BY <1>3, <1>4, <1>5, <1>6
<1> QED
  BY <1>1, <1>4, <1>5, <1>7

LEMMA ListKept ==
    ASSUME ListInv, NEW t, Others(t), UNCHANGED <<bikes, list, loaded>>,
           UNCHANGED missed \/ missed' = TRUE,
           t \in Busy /\ ~missed' => job[t].at # "list"
    PROVE  ListInv'
<1>1. ASSUME loaded', ~missed', list' # bikes' PROVE \E u \in Busy' : job'[u].at = "list"
  <2>1. PICK u \in Busy : job[u].at = "list"
    BY <1>1 DEF ListInv
  <2>2. u # t
    BY <1>1, <2>1
  <2> QED
    BY <2>1, <2>2 DEF Others, Busy
<1> QED
  BY <1>1 DEF ListInv

LEMMA ListWritten ==
    ASSUME ListInv, NEW t, UNCHANGED <<list, loaded>>, t \in Busy', job'[t].at = "list"
    PROVE  ListInv'
BY DEF ListInv

LEMMA ListLoaded == ASSUME Loaded PROVE ListInv'
BY DEF ListInv, Loaded, disk

LEMMA ScreenKept ==
    ASSUME ScreenKeeps, NEW t, Others(t), UNCHANGED <<notes, screen>>,
           t \in Busy' /\ Stranger(job'[t]) => screen = None,
           t \in Busy' /\ job'[t].here => screen # None,
           t \in Busy /\ job[t].here /\ job[t].at \in {"list", "notes"} =>
              t \in Busy' /\ job'[t].here /\ job'[t].at \in {"list", "notes"}
    PROVE  ScreenKeeps'
<1>1. ASSUME NEW u \in Busy', u # t PROVE u \in Busy /\ job'[u] = job[u]
  BY <1>1 DEF Others, Busy
<1>2. ASSUME screen' = None, NEW u \in Busy' PROVE ~job'[u].here
  BY <1>1, <1>2 DEF ScreenKeeps
<1>3. ASSUME screen' # None, screen'.fresh, NEW u \in Busy' PROVE ~Stranger(job'[u])
  BY <1>1, <1>3 DEF ScreenKeeps
<1>4. ASSUME screen' # None, screen'.fresh, screen'.shown # (NotesOf(screen.bike.id))'
      PROVE  \E u \in Busy' : job'[u].here /\ job'[u].at \in {"list", "notes"}
  <2>1. screen # None /\ screen.fresh /\ screen.shown # NotesOf(screen.bike.id)
    BY <1>4 DEF NotesOf
  <2>2. PICK u \in Busy : job[u].here /\ job[u].at \in {"list", "notes"}
    BY <2>1 DEF ScreenKeeps
  <2>3. CASE u = t
    BY <2>2, <2>3
  <2>4. CASE u # t
    BY <2>2, <2>4 DEF Others, Busy
  <2> QED
    BY <2>3, <2>4
<1> QED
  BY <1>2, <1>3, <1>4 DEF ScreenKeeps, Stranger

\* A write of the open screen loads what it shows afterwards, and one of no
\* screen comes before the screen has loaded.
LEMMA ScreenWritten ==
    ASSUME ScreenKeeps, NEW t \in Busy, Others(t), UNCHANGED screen,
           \/ /\ job[t].here /\ t \in Busy' /\ job'[t].here
              /\ job'[t].at \in {"list", "notes"}
           \/ Stranger(job[t]) /\ (t \in Busy' => ~job'[t].here)
    PROVE  ScreenKeeps'
<1>1. ASSUME NEW u \in Busy', u # t PROVE u \in Busy /\ job'[u] = job[u]
  BY <1>1 DEF Others, Busy
<1>2. CASE /\ job[t].here /\ t \in Busy' /\ job'[t].here
           /\ job'[t].at \in {"list", "notes"}
  <2>1. screen' # None
    BY <1>2 DEF ScreenKeeps
  <2>2. ASSUME screen'.fresh, NEW u \in Busy' PROVE ~Stranger(job'[u])
    BY <1>1, <1>2, <2>1, <2>2 DEF ScreenKeeps, Stranger
  <2> QED
    BY <1>2, <2>1, <2>2 DEF ScreenKeeps, Stranger
<1>3. CASE Stranger(job[t]) /\ (t \in Busy' => ~job'[t].here)
  <2>1. screen' # None => ~screen'.fresh
    BY <1>3 DEF ScreenKeeps
  <2>2. ASSUME screen' = None, NEW u \in Busy' PROVE ~job'[u].here
    BY <1>1, <1>3, <2>2 DEF ScreenKeeps
  <2> QED
    BY <2>1, <2>2 DEF ScreenKeeps
<1> QED
  BY <1>2, <1>3

\* A screen that opens has loaded nothing yet.
LEMMA ScreenOpened ==
    ASSUME Tables, UNCHANGED disk, NEW b \in Bike, b.born = b.id, NEW km \in Km,
           NEW calm \in BOOLEAN, screen' = NotesScreen(b, km, calm),
           calm => /\ bikes[b.id] = b /\ b.km >= km
                   /\ \A u \in Busy' : job'[u].op \in Harmless
    PROVE  /\ CalmInv' /\ ScreenHasItsBike' /\ ScreenKeeps'
           /\ screen' \in Screen /\ screen'.bike.born = screen'.bike.id
           /\ \A n \in NoteId : screen'.shown[n] = None
<1>1. /\ screen' \in Screen /\ screen'.bike.id = b.id /\ screen'.bike.born = b.born
      /\ screen'.bike.plate = b.plate /\ screen'.calm = calm /\ (calm => screen'.km = km)
      /\ screen'.shown = NoNotes /\ screen'.fresh = FALSE
  <2>1. /\ NotesScreen(b, km, calm) \in Screen
        /\ NotesScreen(b, km, calm).bike.id = b.id
        /\ NotesScreen(b, km, calm).bike.born = b.born
        /\ NotesScreen(b, km, calm).bike.plate = b.plate
        /\ NotesScreen(b, km, calm).calm = calm
        /\ (calm => NotesScreen(b, km, calm).km = km)
        /\ NotesScreen(b, km, calm).shown = NoNotes
        /\ NotesScreen(b, km, calm).fresh = FALSE
    BY Zenon, ScreenIsScreen
  <2> QED
    BY <2>1, Zenon
<1>2. screen' # None
  BY <1>1, NoneAssumption
<1>3. ScreenKeeps'
  BY <1>1, <1>2 DEF ScreenKeeps
<1>4. CalmInv'
  BY <1>1 DEF CalmInv, Harmless
<1>5. ScreenHasItsBike'
  <2> SUFFICES ASSUME calm PROVE /\ bikes'[screen'.bike.id] # None
                                 /\ bikes'[screen'.bike.id].plate = screen'.bike.plate
                                 /\ bikes'[screen'.bike.id].born = screen'.bike.born
                                 /\ bikes'[screen'.bike.id].km >= screen'.km
    BY <1>1 DEF ScreenHasItsBike
  <2>1. bikes' = bikes /\ bikes[b.id] = b /\ b # None /\ b.km >= km
    BY NoneAssumption DEF disk
  <2> QED
    BY <1>1, <2>1
<1>6. \A n \in NoteId : screen'.shown[n] = None
  BY <1>1 DEF NoNotes
<1> QED
  BY <1>1, <1>3, <1>4, <1>5, <1>6

----------------------------------------------------------------------------
(* The writes to the table of the bikes.                                   *)

\* Bikes that are on the phone keep their number.
LEMMA BikesKept ==
    ASSUME BikesInv, UNCHANGED <<bikes, made>>, UNCHANGED list \/ list' = bikes \/ list' = NoBikes,
           screen' # None => screen'.bike.born = screen'.bike.id
    PROVE  BikesInv'
<1>1. Numbered(bikes') /\ Numbered(list')
  BY DEF BikesInv, Numbered, NoBikes
<1> QED
  BY <1>1 DEF BikesInv, Numbered

LEMMA BikeOfTable ==
    ASSUME NEW table \in [BikeId -> Bike \cup {None}], Numbered(table), NEW b \in Rows(table)
    PROVE  b \in Bike /\ b.id \in BikeId /\ b = table[b.id] /\ b.born = b.id /\ b.id # 0
<1>1. PICK i \in BikeId : b = table[i] /\ b # None
  BY DEF Rows
<1>2. b \in Bike /\ b.id = i /\ b.born = i
  BY <1>1 DEF Numbered
<1> QED
  BY <1>1, <1>2, GarageAssumption DEF BikeId

LEMMA RowOfTable ==
    ASSUME NEW table \in [BikeId -> Bike \cup {None}], NEW i \in BikeId, table[i] # None
    PROVE  table[i] \in Rows(table) /\ table[i] \in Bike
BY DEF Rows

LEMMA BikeInserted ==
    ASSUME Tables, BikesInv, NEW b \in Given, b.id = 0, ~PlateTaken(b), made < MaxBikes,
           Inserted(b), UNCHANGED <<list, screen>>
    PROVE  /\ bikes' \in [BikeId -> Bike \cup {None}] /\ made' \in 0..MaxBikes
           /\ BikesInv' /\ made' = made + 1 /\ bikes[made + 1] = None
           /\ \A i \in BikeId : bikes[i] # None => bikes'[i] = bikes[i]
           /\ \E i \in BikeId : /\ bikes'[i] # None /\ bikes'[i].plate = b.plate
                               /\ bikes'[i].km = b.km
<1>1. /\ made \in Nat /\ made + 1 \in BikeId /\ made' = made + 1 /\ made' \in 0..MaxBikes
  BY GarageAssumption DEF Tables, BikeId, Inserted
<1>2. PICK new : new = [b EXCEPT !.id = made + 1, !.born = made + 1]
  OBVIOUS
<1>3. /\ new \in Bike /\ new.id = made + 1 /\ new.born = made + 1
      /\ new.plate = b.plate /\ new.km = b.km
  BY <1>1, <1>2 DEF Given, Bike
<1>4. new # None
  BY <1>3, NoneAssumption
<1>5. bikes' = [bikes EXCEPT ![made + 1] = new]
  BY <1>2 DEF Inserted, NextId
<1>6. bikes[made + 1] = None
  BY <1>1 DEF BikesInv
<1>7. /\ bikes' \in [BikeId -> Bike \cup {None}] /\ bikes'[made + 1] = new
      /\ \A i \in BikeId \ {made + 1} : bikes'[i] = bikes[i]
  BY <1>1, <1>3, <1>5 DEF Tables
<1>8. \A i \in BikeId : bikes[i] # None => bikes'[i] = bikes[i] /\ i \in Nat /\ i <= made
  BY <1>6, <1>7 DEF BikesInv, BikeId
<1>9. Numbered(bikes')
  BY <1>3, <1>7 DEF Numbered, BikesInv
<1>10. \A i \in BikeId : bikes'[i] # None => i <= made'
  BY <1>1, <1>7, <1>8
<1>11. ASSUME NEW i \in BikeId \ {made + 1}, bikes'[i] # None PROVE bikes'[i].plate # b.plate
  <2>1. bikes[i] # None /\ bikes'[i] = bikes[i] /\ bikes[i] \in Rows(bikes) /\ bikes[i].id = i
    BY <1>7, <1>11, RowOfTable DEF Tables, BikesInv, Numbered
  <2>2. i # 0
    BY DEF BikeId
  <2> QED
    BY <2>1, <2>2 DEF PlateTaken
<1>12. ASSUME NEW i \in BikeId, NEW k \in BikeId, bikes'[i] # None, bikes'[k] # None,
              bikes'[i].plate = bikes'[k].plate
       PROVE  i = k
  BY <1>3, <1>7, <1>11, <1>12 DEF BikesInv
<1>13. BikesInv'
  BY <1>9, <1>10, <1>12 DEF BikesInv, Numbered
<1> QED
  BY <1>1, <1>3, <1>4, <1>6, <1>7, <1>8, <1>13

LEMMA BikeUpdated ==
    ASSUME Tables, BikesInv, NEW b \in Given, b.id \in BikeId, ~PlateTaken(b),
           Updated(b), UNCHANGED <<list, screen>>
    PROVE  /\ bikes' \in [BikeId -> Bike \cup {None}] /\ made' = made
           /\ BikesInv'
           /\ \A i \in BikeId : bikes[i] # None => bikes'[i] # None
           /\ \A i \in BikeId \ {b.id} : bikes'[i] = bikes[i]
           /\ bikes[b.id] # None => bikes'[b.id].plate = b.plate /\ bikes'[b.id].km = b.km
<1>1. made' = made
  BY DEF Updated
<1>2. CASE bikes[b.id] = None
  <2>1. bikes' = bikes
    BY <1>2 DEF Updated
  <2>2. BikesInv'
    BY <1>1, <2>1, BikesKept DEF BikesInv
  <2> QED
    BY <1>1, <1>2, <2>1, <2>2 DEF Tables
<1>3. CASE bikes[b.id] # None
  <2>1. bikes' = [bikes EXCEPT ![b.id] = [bikes[b.id] EXCEPT !.plate = b.plate, !.km = b.km]]
    BY <1>3 DEF Updated, Tables, Bike
  <2>2. PICK new : new = [bikes[b.id] EXCEPT !.plate = b.plate, !.km = b.km]
    OBVIOUS
  <2>3. bikes[b.id] \in Bike /\ bikes[b.id].id = b.id /\ bikes[b.id].born = b.id
    BY <1>3 DEF Tables, BikesInv, Numbered
  <2>4. /\ new \in Bike /\ new.id = b.id /\ new.born = b.id /\ new.plate = b.plate
        /\ new.km = b.km
    BY <2>2, <2>3 DEF Bike, Given
  <2>5. new # None
    BY <2>4, NoneAssumption
  <2>6. /\ bikes' \in [BikeId -> Bike \cup {None}] /\ bikes'[b.id] = new
        /\ \A i \in BikeId \ {b.id} : bikes'[i] = bikes[i]
    BY <2>1, <2>2, <2>4 DEF Tables
  <2>7. ASSUME NEW i \in BikeId \ {b.id}, bikes'[i] # None PROVE bikes'[i].plate # b.plate
    <3>1. bikes[i] # None /\ bikes'[i] = bikes[i] /\ bikes[i] \in Rows(bikes) /\ bikes[i].id = i
      BY <2>6, <2>7, RowOfTable DEF Tables, BikesInv, Numbered
    <3> QED
      BY <3>1 DEF PlateTaken
  <2>8. ASSUME NEW i \in BikeId, NEW k \in BikeId, bikes'[i] # None, bikes'[k] # None,
               bikes'[i].plate = bikes'[k].plate
        PROVE  i = k
    BY <2>4, <2>6, <2>7, <2>8 DEF BikesInv
  <2>9. Numbered(bikes') /\ \A i \in BikeId : bikes'[i] # None => i <= made'
    BY <1>1, <1>3, <2>4, <2>6 DEF BikesInv, Numbered
  <2>10. BikesInv'
    BY <2>8, <2>9 DEF BikesInv, Numbered
  <2> QED
    BY <1>1, <2>4, <2>5, <2>6, <2>10
<1> QED
  BY <1>2, <1>3

LEMMA BikeRaised ==
    ASSUME Tables, BikesInv, NEW i \in BikeId, NEW km \in Km, bikes' = Raised(i, km),
           UNCHANGED <<made, list, screen>>
    PROVE  bikes' \in [BikeId -> Bike \cup {None}] /\ BikesInv' /\ BikesGrow
<1>1. CASE ~(bikes[i] # None /\ bikes[i].km < km)
  <2>1. bikes' = bikes
    BY <1>1 DEF Raised
  <2> QED
    BY <2>1, BikesKept, BikesStill DEF Tables, BikesInv
<1>2. CASE bikes[i] # None /\ bikes[i].km < km
  <2>1. bikes' = [bikes EXCEPT ![i] = [bikes[i] EXCEPT !.km = km]]
    BY <1>2 DEF Raised, Tables
  <2>2. PICK new : new = [bikes[i] EXCEPT !.km = km]
    OBVIOUS
  <2>3. bikes[i] \in Bike /\ bikes[i].id = i /\ bikes[i].born = i
    BY <1>2 DEF Tables, BikesInv, Numbered
  <2>4. /\ new \in Bike /\ new.id = i /\ new.born = i /\ new.plate = bikes[i].plate
        /\ new.km = km
    BY <2>2, <2>3 DEF Bike
  <2>5. new # None
    BY <2>4, NoneAssumption
  <2>6. /\ bikes' \in [BikeId -> Bike \cup {None}] /\ bikes'[i] = new
        /\ \A k \in BikeId \ {i} : bikes'[k] = bikes[k]
    BY <2>1, <2>2, <2>4 DEF Tables
  <2>7. ASSUME NEW k \in BikeId, NEW l \in BikeId, bikes'[k] # None, bikes'[l] # None,
               bikes'[k].plate = bikes'[l].plate
        PROVE  k = l
    BY <1>2, <2>4, <2>6, <2>7 DEF BikesInv
  <2>8. Numbered(bikes') /\ \A k \in BikeId : bikes'[k] # None => k <= made'
    BY <1>2, <2>4, <2>6 DEF BikesInv, Numbered
  <2>9. BikesInv'
    BY <2>7, <2>8 DEF BikesInv, Numbered
  <2>10. ASSUME NEW k \in BikeId, bikes[k] # None
         PROVE  /\ bikes'[k] # None /\ bikes'[k].plate = bikes[k].plate
                /\ bikes'[k].born = bikes[k].born /\ bikes'[k].km >= bikes[k].km
    <3>1. bikes[k] \in Bike /\ bikes[k].km \in Nat /\ km \in Nat
      BY <2>10, GarageAssumption DEF Tables, Bike, Km
    <3>2. CASE k = i
      BY <1>2, <2>3, <2>4, <2>5, <2>6, <3>1, <3>2
    <3>3. CASE k # i
      BY <2>6, <2>10, <3>1, <3>3
    <3> QED
      BY <3>2, <3>3
  <2> QED
    BY <2>6, <2>9, <2>10 DEF BikesGrow
<1> QED
  BY <1>1, <1>2

LEMMA BikeRemoved ==
    ASSUME Tables, BikesInv, NEW i \in BikeId, bikes' = [bikes EXCEPT ![i] = None],
           UNCHANGED <<made, list, screen>>
    PROVE  /\ bikes' \in [BikeId -> Bike \cup {None}] /\ BikesInv'
           /\ \A k \in BikeId \ {i} : bikes'[k] = bikes[k]
<1>1. /\ bikes' \in [BikeId -> Bike \cup {None}] /\ bikes'[i] = None
      /\ \A k \in BikeId \ {i} : bikes'[k] = bikes[k]
  BY DEF Tables
<1>2. Numbered(bikes')
  BY <1>1 DEF BikesInv, Numbered
<1>3. \A k \in BikeId : bikes'[k] # None => k <= made'
  BY <1>1 DEF BikesInv
<1>4. BikesInv'
  BY <1>1, <1>2, <1>3 DEF BikesInv, Numbered
<1> QED
  BY <1>1, <1>4

----------------------------------------------------------------------------
(* What the screens start.                                                 *)

Startable(j) ==
    /\ j \in Job /\ WellFormed(j)
    /\ InsertsBike(j) => RoomFor(made, MaxBikes)
    /\ InsertsNote(j) => RoomFor(written, MaxNotes)
    /\ j.op = "note" /\ j.note # 0 => Belongs(j.note, j.bike.id)
    /\ Fresh /\ j.op = "copy" =>
          /\ j.at # "list"
          /\ j.at = "write" /\ j.bike.id # 0 =>
                /\ bikes[j.bike.id] # None
                /\ bikes[j.bike.id].plate = j.bike.plate
                /\ bikes[j.bike.id].km <= j.bike.km
    /\ screen # None => j.op \in Harmless /\ ~Stranger(j)

\* The screen stays as it is, or opens with this task.
Stays(j) == UNCHANGED screen /\ (j.here => screen # None)

Opens(j) ==
    /\ screen = None /\ j = Opening
    /\ \E b \in Bike, km \in Km :
          /\ screen' = NotesScreen(b, km, Fresh) /\ b.born = b.id
          /\ Fresh => bikes[b.id] = b /\ b.km >= km

LEMMA StartKeepsInv ==
    ASSUME Tables, Control, Data, NEW t \in Task, NEW j, Start(t, j), Startable(j),
           Stays(j) \/ Opens(j)
    PROVE  Tables' /\ Control' /\ Data'
<1>1. /\ j \in Job /\ Started(t, j) /\ UNCHANGED <<disk, memory>>
      /\ alone' = IF Fresh /\ j.op = "copy" THEN {t} ELSE {}
      /\ UNCHANGED <<bikes, made, notes, written, list, loaded, missed>>
  BY DEF Start, Started, Startable, disk, memory
<1>2. Queued /\ BikesInv /\ NotesInv /\ AloneInv /\ CalmInv /\ ScreenHasItsBike /\ ListInv /\ ScreenKeeps
  BY DEF Control, Data
<1>3. Others(t) /\ job'[t] = j /\ t \notin Busy /\ Busy' = Busy \cup {t}
  BY <1>1, <1>2, StartedOthers
<1>4. Control'
  <2>1. Stranger(j) => \A u \in Busy : ~job[u].here
    BY <1>2 DEF Startable, ScreenKeeps
  <2> QED
    BY <1>1, <2>1, StartedControl, TablesCount DEF Startable
<1>5. Queued'
  BY <1>4 DEF Control
<1>6. AloneInv'
  <2>1. CASE Fresh /\ j.op = "copy"
    <3>1. alone' = {t} /\ Busy = {} /\ Busy' = {t}
      BY <1>1, <1>3, <2>1 DEF Fresh, Quiet, Busy
    <3>2. /\ j.at # "list"
          /\ j.at = "write" /\ j.bike.id # 0 =>
                /\ bikes[j.bike.id] # None
                /\ bikes[j.bike.id].plate = j.bike.plate
                /\ bikes[j.bike.id].km <= j.bike.km
      BY <2>1 DEF Startable
    <3> QED
      BY <1>1, <1>3, <3>1, <3>2 DEF AloneInv
  <2>2. CASE ~(Fresh /\ j.op = "copy")
    <3>1. alone' = {}
      BY <1>1, <2>2
    <3> QED
      BY <3>1 DEF AloneInv
  <2> QED
    BY <2>1, <2>2
<1>7. alone' \subseteq Task
  BY <1>1
<1>8. ListInv'
  BY <1>1, <1>2, <1>3, ListKept
<1>9. CASE Stays(j)
  <2>1. UNCHANGED screen /\ SameScreen /\ (j.here => screen # None)
    BY <1>9 DEF Stays, SameScreen
  <2>2. Tables'
    BY <1>1, <1>7, <2>1 DEF Tables
  <2>3. BikesInv'
    BY <1>1, <1>2, <2>1, BikesKept DEF BikesInv
  <2>4. NotesInv'
    <3>1. j.op = "note" /\ j.note # 0 => Belongs(j.note, j.bike.id)
      BY DEF Startable
    <3>2. job'[t].op = "note" /\ job'[t].note # 0 => (Belongs(job[t].note, job[t].bike.id))'
      BY <1>1, <1>3, <3>1 DEF Belongs
    <3>3. \A n \in NoteId : notes'[n] # None =>
             /\ n <= written' /\ notes'[n].born = notes'[n].bike /\ bikes'[notes'[n].bike] # None
      BY <1>1, <1>2 DEF NotesInv
    <3>4. screen' # None => \A n \in NoteId : screen'.shown[n] # None => Belongs(n, screen'.bike.id)
      BY <1>2, <2>1 DEF NotesInv
    <3>5. \A n \in NoteId : n <= written /\ notes'[n] # None =>
             notes[n] # None /\ notes'[n].bike = notes[n].bike
      BY <1>1
    <3> QED
      BY <1>1, <1>2, <1>3, <1>5, <3>2, <3>3, <3>4, <3>5, NotesKept, TablesCount
  <2>5. CalmInv'
    BY <1>2, <1>3, <2>1, CalmKept DEF Calm, Startable
  <2>6. ScreenHasItsBike'
    BY <1>1, <1>2, <2>1, <2>2, BikesStill, ScreenKeepsItsBike
  <2>7. ScreenKeeps'
    <3>1. Stranger(j) => screen = None
      BY DEF Startable
    <3>2. (Stranger(job[t]))' => screen = None
      BY <1>3, <3>1 DEF Stranger
    <3> QED
      BY <1>1, <1>2, <1>3, <2>1, <3>1, ScreenKept
  <2> QED
    BY <1>4, <1>6, <1>8, <2>2, <2>3, <2>4, <2>5, <2>6, <2>7 DEF Data
<1>10. CASE Opens(j)
  <2>1. PICK b \in Bike, km \in Km :
           /\ screen' = NotesScreen(b, km, Fresh) /\ b.born = b.id
           /\ Fresh => bikes[b.id] = b /\ b.km >= km
    BY <1>10 DEF Opens
  <2>2. PICK calm \in BOOLEAN : calm = Fresh
    BY Zenon DEF Fresh
  <2>3. Fresh => \A u \in Busy' : job'[u].op \in Harmless
    <3>1. Fresh => Busy' = {t}
      BY <1>3 DEF Fresh, Quiet, Busy
    <3>2. job'[t].op = "open"
      BY <1>3, <1>10, OpeningIsJob DEF Opens
    <3> QED
      BY <3>1, <3>2 DEF Harmless
  <2>4. /\ CalmInv' /\ ScreenHasItsBike' /\ ScreenKeeps'
        /\ screen' \in Screen /\ screen'.bike.born = screen'.bike.id
        /\ \A n \in NoteId : screen'.shown[n] = None
    BY <1>1, <2>1, <2>2, <2>3, ScreenOpened
  <2>5. Tables'
    BY <1>1, <1>7, <2>4 DEF Tables
  <2>6. BikesInv'
    BY <1>1, <1>2, <2>4, BikesKept
  <2>7. NotesInv'
    <3>1. job'[t].op # "note"
      BY <1>3, <1>10, OpeningIsJob DEF Opens
    <3>2. \A n \in NoteId : notes'[n] # None =>
             /\ n <= written' /\ notes'[n].born = notes'[n].bike /\ bikes'[notes'[n].bike] # None
      BY <1>1, <1>2 DEF NotesInv
    <3>3. \A n \in NoteId : n <= written /\ notes'[n] # None =>
             notes[n] # None /\ notes'[n].bike = notes[n].bike
      BY <1>1
    <3> QED
      BY <1>1, <1>2, <1>3, <1>5, <2>4, <3>1, <3>2, <3>3, NotesKept, TablesCount
  <2> QED
    BY <1>4, <1>6, <1>8, <2>4, <2>5, <2>6, <2>7 DEF Data
<1> QED
  BY <1>9, <1>10

\* A list loaded in quiet is the table.
LEMMA FreshList ==
    ASSUME ListInv, Fresh, loaded
    PROVE  list = bikes
<1>1. Busy = {} /\ ~missed
  BY DEF Fresh, Quiet, Busy
<1> QED
  BY <1>1 DEF ListInv

LEMMA ListedIsLoaded ==
    ASSUME Tables, ListInv, NEW b \in Rows(list)
    PROVE  loaded
<1>1. list # NoBikes
  BY DEF Rows, NoBikes
<1> QED
  BY <1>1 DEF ListInv

LEMMA CopiedIsGiven ==
    ASSUME NEW table \in [BikeId -> Bike \cup {None}], Numbered(table), NEW b \in Given,
           b.id = 0, b.born = 0, UpToDate(table, b) = {}
    PROVE  LET c == Copied(table, b) IN
           /\ c \in Given /\ c.born = c.id /\ c.plate = b.plate /\ c.km = b.km
           /\ c.id # 0 => /\ c.id \in BikeId /\ table[c.id] # None
                          /\ table[c.id].plate = c.plate /\ table[c.id].km <= c.km
<1>1. CASE WithPlate(table, b.plate) = {}
  <2>1. Copied(table, b) = b
    BY <1>1 DEF Copied
  <2> QED
    BY <2>1
<1>2. CASE WithPlate(table, b.plate) # {}
  <2>1. PICK e \in WithPlate(table, b.plate) : e = The(WithPlate(table, b.plate))
    BY <1>2, TheIsOne
  <2>2. e \in Rows(table) /\ e.plate = b.plate
    BY <2>1 DEF WithPlate
  <2>3. e \in Bike /\ e.id \in BikeId /\ e = table[e.id] /\ e.born = e.id
    BY <2>2, BikeOfTable
  <2>4. PICK c : c = [e EXCEPT !.km = b.km]
    OBVIOUS
  <2>5. Copied(table, b) = c
    BY <1>2, <2>1, <2>4 DEF Copied
  <2>6. /\ c \in Bike /\ c.id = e.id /\ c.born = e.born /\ c.plate = e.plate /\ c.km = b.km
    BY <2>3, <2>4 DEF Bike, Given
  <2>7. b.km > e.km /\ b.km \in Nat /\ e.km \in Nat
    BY <2>1, <2>3, GarageAssumption DEF UpToDate, Ahead, Given, Bike, Km
  <2>8. e # None
    BY <2>3, NoneAssumption
  <2>9. c \in Given
    BY <2>6, BikeIsGiven
  <2>10. e.km <= b.km
    BY <2>7
  <2> QED
    BY <2>2, <2>3, <2>5, <2>6, <2>8, <2>9, <2>10
<1> QED
  BY <1>1, <1>2

Starts(t) ==
    \E j : Start(t, j) /\ Startable(j) /\ (Stays(j) \/ Opens(j))

\* A task that only writes what it was given.
LEMMA WriteIsStartable ==
    ASSUME Tables, NEW t \in Task, NEW op \in {"add", "edit", "remove", "copy"}, NEW b \in Given,
           screen = None, b.born = b.id,
           op = "add" => b.id = 0, op \notin {"add", "copy"} => b.id # 0,
           op \in {"add", "copy"} => RoomFor(made, MaxBikes),
           op = "copy" /\ Fresh /\ b.id # 0 =>
              bikes[b.id] # None /\ bikes[b.id].plate = b.plate /\ bikes[b.id].km <= b.km,
           Start(t, Doing(op, "write", b)), UNCHANGED screen
    PROVE  Starts(t)
<1>1. PICK j : j = Doing(op, "write", b)
  OBVIOUS
<1>2. /\ j \in Job /\ j.op = op /\ j.at = "write" /\ j.bike = b /\ j.note = 0 /\ j.here = FALSE
  BY <1>1, GarageAssumption DEF Doing, Job
<1>3. WellFormed(j) /\ ~InsertsNote(j) /\ (InsertsBike(j) => op \in {"add", "copy"})
  BY <1>2 DEF WellFormed, Stages, InsertsNote, InsertsBike
<1>4. Startable(j)
  BY <1>2, <1>3 DEF Startable
<1>5. Stays(j)
  BY <1>2 DEF Stays
<1> QED
  BY <1>1, <1>4, <1>5 DEF Starts

LEMMA OpeningStarts ==
    ASSUME Tables, NEW t \in Task, screen = None, NEW b \in Bike, b.born = b.id, NEW km \in Km,
           Fresh => bikes[b.id] = b /\ b.km >= km,
           Start(t, Opening), screen' = NotesScreen(b, km, Fresh)
    PROVE  Starts(t)
<1>1. Startable(Opening)
  BY OpeningIsJob DEF Startable
<1>2. Opens(Opening)
  BY DEF Opens
<1> QED
  BY <1>1, <1>2 DEF Starts

LEMMA EnsureLoadedStarts ==
    ASSUME Tables, Control, Data, NEW t \in Task, EnsureLoaded(t)
    PROVE  Starts(t)
<1>1. PICK j : j = Doing("load", "list", Anything)
  OBVIOUS
<1>2. /\ j \in Job /\ j.op = "load" /\ j.at = "list" /\ j.bike = Anything /\ j.note = 0
      /\ j.here = FALSE
  BY <1>1, AnythingIsGiven, GarageAssumption DEF Doing, Job
<1>3. WellFormed(j) /\ ~InsertsNote(j) /\ ~InsertsBike(j) /\ ~Stranger(j)
  BY <1>2, AnythingIsGiven DEF WellFormed, Stages, InsertsNote, InsertsBike, Stranger
<1>4. Startable(j) /\ Stays(j)
  BY <1>2, <1>3 DEF Startable, Stays, Harmless, EnsureLoaded
<1> QED
  BY <1>1, <1>4 DEF Starts, EnsureLoaded

LEMMA BikeStarts ==
    ASSUME Tables, Control, Data, NEW t \in Task, AddBike(t) \/ EditBike(t) \/ RemoveBike(t)
    PROVE  Starts(t)
<1>1. CASE AddBike(t)
  <2>1. PICK p \in Plate, km \in Km :
           Start(t, Doing("add", "write", [id |-> 0, plate |-> p, km |-> km, born |-> 0]))
    BY <1>1 DEF AddBike
  <2>2. PICK b : b = [id |-> 0, plate |-> p, km |-> km, born |-> 0]
    OBVIOUS
  <2>3. b \in Given /\ b.id = 0 /\ b.born = 0
    BY <2>2, GarageAssumption DEF Given
  <2> QED
    BY <1>1, <2>1, <2>2, <2>3, WriteIsStartable DEF AddBike
<1>2. CASE EditBike(t)
  <2>1. PICK b \in Rows(list), p \in Plate, km \in Km :
           Start(t, Doing("edit", "write", [b EXCEPT !.plate = p, !.km = km]))
    BY <1>2 DEF EditBike
  <2>2. b \in Bike /\ b.born = b.id /\ b.id # 0
    BY BikeOfTable DEF Tables, Data, BikesInv
  <2>3. PICK c : c = [b EXCEPT !.plate = p, !.km = km]
    OBVIOUS
  <2>4. c \in Bike /\ c.id = b.id /\ c.born = b.born
    BY <2>2, <2>3 DEF Bike
  <2>5. c \in Given
    BY <2>4, BikeIsGiven
  <2> QED
    BY <1>2, <2>1, <2>2, <2>3, <2>4, <2>5, WriteIsStartable DEF EditBike
<1>3. CASE RemoveBike(t)
  <2>1. PICK b \in Rows(list) : Start(t, Doing("remove", "write", b))
    BY <1>3 DEF RemoveBike
  <2>2. b \in Bike /\ b.born = b.id /\ b.id # 0
    BY BikeOfTable DEF Tables, Data, BikesInv
  <2>3. b \in Given
    BY <2>2, BikeIsGiven
  <2> QED
    BY <1>3, <2>1, <2>2, <2>3, WriteIsStartable DEF RemoveBike
<1> QED
  BY <1>1, <1>2, <1>3

LEMMA OpenNotesStarts ==
    ASSUME Tables, Control, Data, NEW t \in Task, OpenNotes(t)
    PROVE  Starts(t)
<1>1. PICK b \in Rows(list) : Start(t, Opening) /\ screen' = NotesScreen(b, b.km, Fresh)
  BY DEF OpenNotes
<1>2. b \in Bike /\ b.born = b.id /\ b.id \in BikeId /\ b = list[b.id]
  BY BikeOfTable DEF Tables, Data, BikesInv
<1>3. b.km \in Km /\ b.km \in Nat /\ b.km >= b.km
  BY <1>2, GarageAssumption DEF Bike, Km
<1>4. Fresh => bikes[b.id] = b
  BY <1>2, ListedIsLoaded, FreshList DEF Data
<1> QED
  BY <1>1, <1>2, <1>3, <1>4, OpeningStarts DEF OpenNotes

LEMMA OpenAccountBikeStarts ==
    ASSUME Tables, Control, Data, NEW t \in Task, OpenAccountBike(t)
    PROVE  Starts(t)
<1>1. PICK p \in Plate, km \in Km :
          LET b == [id |-> 0, plate |-> p, km |-> km, born |-> 0] IN
          \/ /\ ~loaded
             /\ Start(t, Doing("copy", "first", b))
             /\ UNCHANGED screen
          \/ /\ loaded /\ UpToDate(list, b) = {}
             /\ Start(t, Doing("copy", "write", Copied(list, b)))
             /\ UNCHANGED screen
          \/ /\ loaded
             /\ \E e \in UpToDate(list, b) :
                   /\ Start(t, Opening)
                   /\ screen' = NotesScreen(e, km, Fresh)
  BY DEF OpenAccountBike
<1>2. PICK b : b = [id |-> 0, plate |-> p, km |-> km, born |-> 0]
  OBVIOUS
<1>3. b \in Given /\ b.id = 0 /\ b.born = 0 /\ b.km = km
  BY <1>2, GarageAssumption DEF Given
<1>4. screen = None /\ RoomFor(made, MaxBikes)
  BY DEF OpenAccountBike
<1>5. ListInv /\ Numbered(list) /\ list \in [BikeId -> Bike \cup {None}]
  BY DEF Data, BikesInv, Tables
<1>6. CASE Start(t, Doing("copy", "first", b)) /\ UNCHANGED screen
  <2>1. PICK j : j = Doing("copy", "first", b)
    OBVIOUS
  <2>2. /\ j \in Job /\ j.op = "copy" /\ j.at = "first" /\ j.bike = b /\ j.note = 0
        /\ j.here = FALSE
    BY <1>3, <2>1, GarageAssumption DEF Doing, Job
  <2>3. WellFormed(j) /\ ~InsertsNote(j)
    BY <1>3, <2>2 DEF WellFormed, Stages, InsertsNote
  <2>4. Startable(j) /\ Stays(j)
    BY <1>4, <1>6, <2>2, <2>3 DEF Startable, Stays
  <2> QED
    BY <1>6, <2>1, <2>4 DEF Starts
<1>7. CASE /\ loaded /\ UpToDate(list, b) = {}
           /\ Start(t, Doing("copy", "write", Copied(list, b)))
           /\ UNCHANGED screen
  <2>1. PICK c : c = Copied(list, b)
    OBVIOUS
  <2>2. /\ c \in Given /\ c.born = c.id
        /\ c.id # 0 => /\ c.id \in BikeId /\ list[c.id] # None
                       /\ list[c.id].plate = c.plate /\ list[c.id].km <= c.km
    BY <1>3, <1>5, <1>7, <2>1, CopiedIsGiven
  <2>3. Fresh => list = bikes
    BY <1>5, <1>7, FreshList
  <2> QED
    BY <1>4, <1>7, <2>1, <2>2, <2>3, WriteIsStartable
<1>8. ASSUME loaded, NEW e \in UpToDate(list, b),
             Start(t, Opening), screen' = NotesScreen(e, km, Fresh)
      PROVE  Starts(t)
  <2>1. e \in Rows(list) /\ ~(km > e.km)
    BY <1>3 DEF UpToDate, WithPlate, Ahead
  <2>2. e \in Bike /\ e.born = e.id /\ e.id \in BikeId /\ e = list[e.id]
    BY <1>5, <2>1, BikeOfTable
  <2>3. e.km \in Nat /\ km \in Nat
    BY <2>2, GarageAssumption DEF Bike, Km
  <2>4. e.km >= km
    BY <2>1, <2>3
  <2>5. Fresh => bikes[e.id] = e
    BY <1>5, <1>8, <2>2, FreshList
  <2> QED
    BY <1>4, <1>8, <2>2, <2>4, <2>5, OpeningStarts
<1> QED
  BY <1>1, <1>2, <1>6, <1>7, <1>8

LEMMA NoteStarts ==
    ASSUME Tables, Control, Data, NEW t \in Task, EditNote(t) \/ RemoveNote(t)
    PROVE  Starts(t)
<1>1. screen \in Screen /\ screen # None
  BY DEF EditNote, RemoveNote, Tables
<1>2. screen.bike \in Bike /\ screen.bike.born = screen.bike.id
  BY <1>1 DEF Screen, Data, BikesInv
<1>3. CASE EditNote(t)
  <2>1. PICK n \in 0..MaxNotes, km \in Km :
           /\ n = 0 \/ (n \in NoteId /\ screen.shown[n] # None)
           /\ Start(t, [Doing("note", "write", [screen.bike EXCEPT !.km = km])
                           EXCEPT !.note = n, !.here = TRUE])
    BY <1>3 DEF EditNote
  <2>2. PICK b : b = [screen.bike EXCEPT !.km = km]
    OBVIOUS
  <2>3. b \in Bike /\ b.id = screen.bike.id /\ b.born = b.id
    BY <1>2, <2>2 DEF Bike
  <2>4. b \in Given /\ b.id # 0
    BY <2>3, BikeIsGiven
  <2>5. PICK d : d = Doing("note", "write", b)
    OBVIOUS
  <2>6. d \in Job /\ d.op = "note" /\ d.at = "write" /\ d.bike = b
    BY <2>4, <2>5, GarageAssumption DEF Doing, Job
  <2>7. PICK j : j = [d EXCEPT !.note = n, !.here = TRUE]
    OBVIOUS
  <2>8. /\ j \in Job /\ j.op = "note" /\ j.at = "write" /\ j.bike = b /\ j.note = n
        /\ j.here = TRUE
    BY <2>6, <2>7 DEF Job
  <2>9. WellFormed(j) /\ ~InsertsBike(j) /\ ~Stranger(j)
    BY <2>3, <2>4, <2>8 DEF WellFormed, Stages, InsertsBike, Stranger
  <2>10. n # 0 => Belongs(n, b.id)
    BY <1>1, <2>1, <2>3 DEF Data, NotesInv
  <2>11. RoomFor(written, MaxNotes)
    BY <1>3 DEF EditNote
  <2>12. Startable(j) /\ Stays(j)
    BY <1>1, <1>3, <2>8, <2>9, <2>10, <2>11 DEF Startable, Stays, Harmless, EditNote
  <2> QED
    BY <2>1, <2>2, <2>5, <2>7, <2>12 DEF Starts
<1>4. CASE RemoveNote(t)
  <2>1. PICK n \in NoteId :
           Start(t, [Doing("unnote", "write", screen.bike) EXCEPT !.note = n, !.here = TRUE])
    BY <1>4 DEF RemoveNote
  <2>2. n \in 0..MaxNotes /\ n # 0
    BY GarageAssumption DEF NoteId
  <2>3. screen.bike \in Given /\ screen.bike.id # 0
    BY <1>2, BikeIsGiven
  <2>4. PICK d : d = Doing("unnote", "write", screen.bike)
    OBVIOUS
  <2>5. d \in Job /\ d.op = "unnote" /\ d.at = "write" /\ d.bike = screen.bike
    BY <2>3, <2>4, GarageAssumption DEF Doing, Job
  <2>6. PICK j : j = [d EXCEPT !.note = n, !.here = TRUE]
    OBVIOUS
  <2>7. /\ j \in Job /\ j.op = "unnote" /\ j.at = "write" /\ j.bike = screen.bike
        /\ j.note = n /\ j.here = TRUE
    BY <2>2, <2>5, <2>6 DEF Job
  <2>8. WellFormed(j) /\ ~InsertsBike(j) /\ ~InsertsNote(j) /\ ~Stranger(j)
    BY <1>2, <2>2, <2>3, <2>7 DEF WellFormed, Stages, InsertsBike, InsertsNote, Stranger
  <2>9. Startable(j) /\ Stays(j)
    BY <1>1, <1>4, <2>7, <2>8 DEF Startable, Stays, Harmless, RemoveNote
  <2> QED
    BY <2>1, <2>4, <2>6, <2>9 DEF Starts
<1> QED
  BY <1>3, <1>4

----------------------------------------------------------------------------
(* What SQLite answers: the task ends, or makes its next call.             *)

\* Its call is at the head of the queue.
Asked(t) == queue # <<>> /\ t = Head(queue)

LEMMA AskedIsBusy ==
    ASSUME Control, NEW t, Asked(t)
    PROVE  t \in Task /\ t \in Busy /\ job[t] \in Job /\ job[t] # None /\ WellFormed(job[t])
<1>1. queue \in Seq(Task) /\ job \in [Task -> Job \cup {None}]
  BY DEF Control, Queued
<1>2. t \in Task /\ t = queue[1] /\ 1 \in 1..Len(queue)
  <2>1. Len(queue) \in Nat \ {0} /\ t = queue[1] /\ t \in Task
    BY <1>1, TailAt DEF Asked
  <2> QED
    BY <2>1
<1>3. job[t] # None
  BY <1>2 DEF Control, Queued
<1> QED
  BY <1>1, <1>2, <1>3 DEF Busy, Control, JobsFormed

LEMMA EndsOnly ==
    ASSUME Tables, Control, Data, NEW t, Asked(t), Ends(t), UNCHANGED <<made, written>>
    PROVE  /\ Control' /\ AloneInv' /\ alone' \subseteq Task
           /\ Others(t) /\ t \in Busy /\ Busy' = Busy \ {t}
<1>1. Ended(t) /\ alone' = alone \ {t}
  BY DEF Asked, Ends, Ended
<1>2. Queued /\ AloneInv
  BY DEF Control, Data
<1>3. Control'
  BY <1>1, EndedControl, TablesCount
<1>4. AloneInv'
  BY <1>1, <1>2, AloneEnded
<1>5. alone' \subseteq Task
  BY <1>1 DEF Tables
<1> QED
  BY <1>1, <1>2, <1>3, <1>4, <1>5, EndedOthers

\* The next call of a task that has written.
Moved(t, j, at) ==
    /\ j \in Job /\ Continued(t, j) /\ UNCHANGED alone
    /\ WellFormed(j) /\ ~Stranger(j) /\ ~InsertsBike(j) /\ ~InsertsNote(j)
    /\ j.op = job[t].op /\ j.at = at /\ j.note = 0 /\ j.here = job[t].here
    /\ j.op = "copy" => j.bike = job[t].bike

LEMMA ThenMoves ==
    ASSUME Control, NEW t, Asked(t), NEW at \in {"list", "notes"},
           <<job[t].op, at>> \in Stages, Then(t, at)
    PROVE  \E j : Moved(t, j, at)
<1>1. job[t] \in Job /\ WellFormed(job[t])
  BY AskedIsBusy
<1>2. PICK j : j = ThenJob(job[t], at)
  OBVIOUS
<1>3. /\ j \in Job /\ j.op = job[t].op /\ j.at = at /\ j.note = 0 /\ j.here = job[t].here
      /\ (j.op = "copy" => j.bike = job[t].bike)
  BY <1>1, <1>2, ThenIsJob
<1>4. WellFormed(j) /\ ~Stranger(j) /\ ~InsertsBike(j) /\ ~InsertsNote(j)
  BY <1>1, <1>2, ThenIsWellFormed
<1>5. Continued(t, j) /\ UNCHANGED alone
  BY <1>2 DEF Then, Become, Continued, Asked, ThenJob
<1> QED
  BY <1>3, <1>4, <1>5 DEF Moved

LEMMA MovedOnly ==
    ASSUME Tables, Control, NEW t, NEW at \in {"list", "notes"}, NEW j, Moved(t, j, at),
           \/ UNCHANGED made
           \/ made' = made + 1 /\ InsertsBike(job[t]),
           \/ UNCHANGED written
           \/ written' = written + 1 /\ InsertsNote(job[t])
    PROVE  /\ Control' /\ alone' \subseteq Task
           /\ Others(t) /\ t \in Busy /\ Busy' = Busy /\ job'[t] = j
<1>1. j \in Job /\ Continued(t, j) /\ UNCHANGED alone
      /\ WellFormed(j) /\ ~Stranger(j) /\ ~InsertsBike(j) /\ ~InsertsNote(j)
  BY DEF Moved
<1>2. Control'
  BY <1>1, ContinuedControl, TablesCount
<1>3. Others(t) /\ t \in Busy /\ Busy' = Busy /\ job'[t] = j
  BY <1>1, ContinuedOthers DEF Control
<1>4. alone' \subseteq Task
  BY <1>1 DEF Tables
<1> QED
  BY <1>2, <1>3, <1>4

\* Notes that nobody writes stay where they are while the bikes stay.
LEMMA NotesStill ==
    ASSUME Tables, Control, Control', NotesInv, NEW t, Others(t), UNCHANGED <<notes, written>>,
           \A i \in BikeId : bikes[i] # None => bikes'[i] # None,
           t \in Busy' => job'[t].note = 0,
           screen' # None => \A n \in NoteId : screen'.shown[n] # None => Belongs(n, screen'.bike.id)
    PROVE  NotesInv'
<1>1. \A n \in NoteId : notes'[n] # None =>
         /\ n <= written' /\ notes'[n].born = notes'[n].bike /\ bikes'[notes'[n].bike] # None
  <2> SUFFICES ASSUME NEW n \in NoteId, notes[n] # None
               PROVE  /\ n <= written /\ notes[n].born = notes[n].bike
                      /\ bikes'[notes[n].bike] # None
    OBVIOUS
  <2>1. notes[n].bike \in BikeId
    BY DEF Tables, Note
  <2> QED
    BY <2>1 DEF NotesInv
<1>2. \A n \in NoteId : n <= written /\ notes'[n] # None =>
         notes[n] # None /\ notes'[n].bike = notes[n].bike
  OBVIOUS
<1>3. Queued /\ Queued'
  BY DEF Control
<1> QED
  BY <1>1, <1>2, <1>3, NotesKept, TablesCount

\* What the open screen shows is of its bike.
LEMMA ShownBelongs ==
    ASSUME NotesInv, UNCHANGED screen
    PROVE  screen' # None => \A n \in NoteId : screen'.shown[n] # None => Belongs(n, screen'.bike.id)
BY DEF NotesInv

\* The list is left as it was, or read again.
Listed ==
    \/ UNCHANGED memory
    \/ UNCHANGED <<list, loaded>> /\ missed' = TRUE
    \/ Loaded

LEMMA ListedTypes ==
    ASSUME Tables, UNCHANGED disk, Listed
    PROVE  /\ UNCHANGED <<bikes, made, notes, written>>
           /\ list' \in [BikeId -> Bike \cup {None}] /\ loaded' \in BOOLEAN /\ missed' \in BOOLEAN
           /\ UNCHANGED list \/ list' = bikes
BY DEF Tables, Listed, Loaded, memory, disk

\* A task ends, and the screen stays as it is.
LEMMA EndKeepsInv ==
    ASSUME Tables, Control, Data, NEW t, Asked(t), Ends(t), UNCHANGED <<disk, screen>>,
           Listed, ListInv', job[t].here => job[t].at = "write"
    PROVE  Tables' /\ Control' /\ Data'
<1>1. /\ UNCHANGED <<bikes, made, notes, written>>
      /\ list' \in [BikeId -> Bike \cup {None}] /\ loaded' \in BOOLEAN /\ missed' \in BOOLEAN
      /\ UNCHANGED list \/ list' = bikes
  BY ListedTypes
<1>2. /\ Control' /\ AloneInv' /\ alone' \subseteq Task
      /\ Others(t) /\ t \in Busy /\ Busy' = Busy \ {t}
  BY <1>1, EndsOnly
<1>3. BikesInv /\ NotesInv /\ CalmInv /\ ScreenHasItsBike /\ ScreenKeeps /\ SameScreen
  BY DEF Data, SameScreen
<1>4. Tables'
  BY <1>1, <1>2 DEF Tables
<1>5. BikesInv'
  BY <1>1, <1>3, BikesKept DEF BikesInv
<1>6. NotesInv'
  BY <1>1, <1>2, <1>3, NotesStill, ShownBelongs
<1>7. CalmInv'
  BY <1>2, <1>3, CalmKept
<1>8. ScreenHasItsBike'
  BY <1>1, <1>3, <1>4, BikesStill, ScreenKeepsItsBike
<1>9. ScreenKeeps'
  BY <1>1, <1>2, <1>3, ScreenKept
<1> QED
  BY <1>2, <1>4, <1>5, <1>6, <1>7, <1>8, <1>9 DEF Data

\* A task makes its next call, and the tables stay as they are.
LEMMA GoKeepsInv ==
    ASSUME Tables, Control, Data, NEW t, NEW j \in Job, Asked(t), Become(t, j),
           UNCHANGED <<disk, screen>>, Listed, ListInv',
           WellFormed(j), ~Stranger(j), ~InsertsNote(j), InsertsBike(j) => InsertsBike(job[t]),
           j.op = job[t].op, j.note = 0, j.here = job[t].here, j.here => j.at = "notes",
           j.op = "copy" => /\ j.at = "write"
                            /\ j.bike.id # 0 => /\ bikes[j.bike.id] # None
                                                /\ bikes[j.bike.id].plate = j.bike.plate
                                                /\ bikes[j.bike.id].km <= j.bike.km
    PROVE  Tables' /\ Control' /\ Data'
<1>1. /\ UNCHANGED <<bikes, made, notes, written>>
      /\ list' \in [BikeId -> Bike \cup {None}] /\ loaded' \in BOOLEAN /\ missed' \in BOOLEAN
      /\ UNCHANGED list \/ list' = bikes
  BY ListedTypes
<1>2. Continued(t, j) /\ UNCHANGED alone
  BY DEF Asked, Become, Continued
<1>3. Queued /\ BikesInv /\ NotesInv /\ AloneInv /\ CalmInv /\ ScreenHasItsBike /\ ScreenKeeps /\ SameScreen
  BY DEF Control, Data, SameScreen
<1>4. Control'
  BY <1>1, <1>2, ContinuedControl, TablesCount
<1>5. Others(t) /\ t \in Busy /\ Busy' = Busy /\ job'[t] = j
  BY <1>2, <1>3, ContinuedOthers
<1>6. AloneInv'
  BY <1>1, <1>2, <1>3, AloneContinued
<1>7. Tables'
  BY <1>1, <1>2 DEF Tables
<1>8. BikesInv'
  BY <1>1, <1>3, BikesKept DEF BikesInv
<1>9. NotesInv'
  BY <1>1, <1>3, <1>4, <1>5, NotesStill, ShownBelongs
<1>10. CalmInv'
  <2>1. Calm => job[t].op \in Harmless
    BY <1>3, <1>5 DEF CalmInv, Calm, Harmless
  <2> QED
    BY <1>3, <1>5, <2>1, CalmKept
<1>11. ScreenHasItsBike'
  BY <1>1, <1>3, <1>7, BikesStill, ScreenKeepsItsBike
<1>12. ScreenKeeps'
  <2>1. job[t].here => screen # None
    BY <1>3, <1>5 DEF ScreenKeeps
  <2>2. ~(Stranger(job[t]))'
    BY <1>5 DEF Stranger
  <2> QED
    BY <1>1, <1>3, <1>5, <2>1, <2>2, ScreenKept
<1> QED
  BY <1>4, <1>6, <1>7, <1>8, <1>9, <1>10, <1>11, <1>12 DEF Data

\* A copy that found its bike, and opens the screen or not.
LEMMA ShowKeepsInv ==
    ASSUME Tables, Control, Data, NEW t, Asked(t), job[t].op = "copy", NEW b \in Rows(bikes),
           NEW km \in Km, Loaded, Show(t, b, km), t \in alone => b.km >= km
    PROVE  Tables' /\ Control' /\ Data'
<1>1. ListInv' /\ Listed /\ UNCHANGED disk
  BY ListLoaded DEF Listed, Loaded
<1>2. t \in Task /\ t \in Busy /\ ~job[t].here
  BY AskedIsBusy DEF WellFormed
<1>3. b \in Bike /\ b.born = b.id /\ b = bikes[b.id]
  BY BikeOfTable DEF Tables, Data, BikesInv
<1>4. CASE Ends(t) /\ UNCHANGED screen
  BY <1>1, <1>2, <1>4, EndKeepsInv
<1>5. CASE screen = None /\ screen' = NotesScreen(b, km, t \in alone) /\ Become(t, Opening)
  <2>1. /\ UNCHANGED <<bikes, made, notes, written>>
        /\ list' \in [BikeId -> Bike \cup {None}] /\ loaded' \in BOOLEAN /\ missed' \in BOOLEAN
        /\ UNCHANGED list \/ list' = bikes
    BY <1>1, ListedTypes
  <2>2. PICK j : j = Opening
    OBVIOUS
  <2>3. /\ j \in Job /\ WellFormed(j) /\ ~Stranger(j) /\ ~InsertsBike(j) /\ ~InsertsNote(j)
        /\ j.op = "open"
    BY <2>2, OpeningIsJob
  <2>4. Continued(t, j) /\ UNCHANGED alone
    BY <1>5, <2>2 DEF Asked, Become, Continued
  <2>5. Queued /\ BikesInv /\ NotesInv /\ AloneInv
    BY DEF Control, Data
  <2>6. Control'
    BY <2>1, <2>3, <2>4, ContinuedControl, TablesCount
  <2>7. Others(t) /\ Busy' = Busy /\ job'[t] = j
    BY <2>3, <2>4, <2>5, ContinuedOthers
  <2>8. AloneInv'
    BY <2>3, <2>4, <2>5, AloneContinued
  <2>9. PICK calm \in BOOLEAN : calm = (t \in alone)
    <3>1. (t \in alone) = TRUE \/ (t \in alone) = FALSE
      OBVIOUS
    <3> QED
      BY <3>1, Zenon
  <2>10. calm => \A u \in Busy' : job'[u].op \in Harmless
    BY <2>3, <2>5, <2>7, <2>9 DEF AloneInv, Harmless
  <2>11. /\ CalmInv' /\ ScreenHasItsBike' /\ ScreenKeeps'
         /\ screen' \in Screen /\ screen'.bike.born = screen'.bike.id
         /\ \A n \in NoteId : screen'.shown[n] = None
    BY <1>1, <1>3, <1>5, <2>9, <2>10, ScreenOpened
  <2>12. Tables'
    BY <2>1, <2>4, <2>11 DEF Tables
  <2>13. BikesInv'
    BY <2>1, <2>5, <2>11, BikesKept
  <2>14. NotesInv'
    <3>1. job'[t].op # "note" /\ Queued'
      BY <2>3, <2>6, <2>7 DEF Control
    <3>2. \A n \in NoteId : notes'[n] # None =>
             /\ n <= written' /\ notes'[n].born = notes'[n].bike /\ bikes'[notes'[n].bike] # None
      BY <2>1, <2>5 DEF NotesInv
    <3>3. \A n \in NoteId : n <= written /\ notes'[n] # None =>
             notes[n] # None /\ notes'[n].bike = notes[n].bike
      BY <2>1
    <3> QED
      BY <2>1, <2>5, <2>7, <2>11, <3>1, <3>2, <3>3, NotesKept, TablesCount
  <2> QED
    BY <1>1, <2>6, <2>8, <2>11, <2>12, <2>13, <2>14 DEF Data
<1> QED
  BY <1>4, <1>5 DEF Show

LEMMA CopyLoadsKeepsInv ==
    ASSUME Tables, Control, Data, NEW t, CopyLoads(t)
    PROVE  Tables' /\ Control' /\ Data'
<1>1. /\ Asked(t) /\ job[t].op = "copy" /\ job[t].at = "first" /\ Loaded
      /\ IF UpToDate(bikes, job[t].bike) # {}
         THEN Show(t, The(UpToDate(bikes, job[t].bike)), job[t].bike.km)
         ELSE Become(t, Doing("copy", "write", Copied(bikes, job[t].bike))) /\ UNCHANGED screen
  BY DEF CopyLoads, At, Asked
<1>2. t \in Busy /\ job[t] \in Job /\ WellFormed(job[t])
  BY <1>1, AskedIsBusy
<1>3. PICK b \in Given : b = job[t].bike
  BY <1>2 DEF Job
<1>4. Numbered(bikes) /\ bikes \in [BikeId -> Bike \cup {None}]
  BY DEF Data, BikesInv, Tables
<1>5. CASE UpToDate(bikes, b) # {}
  <2>1. PICK e \in UpToDate(bikes, b) : e = The(UpToDate(bikes, b))
    BY <1>5, TheIsOne
  <2>2. e \in Rows(bikes) /\ ~(b.km > e.km)
    BY <2>1 DEF UpToDate, WithPlate, Ahead
  <2>3. e.km \in Nat /\ b.km \in Nat /\ b.km \in Km
    BY <1>3, <1>4, <2>2, BikeOfTable, GarageAssumption DEF Bike, Km, Given
  <2>4. e.km >= b.km
    BY <2>2, <2>3
  <2> QED
    BY <1>1, <1>3, <1>5, <2>1, <2>2, <2>3, <2>4, ShowKeepsInv
<1>6. CASE UpToDate(bikes, b) = {}
  <2>1. b.id = 0 /\ b.born = 0
    BY <1>1, <1>2, <1>3 DEF WellFormed
  <2>2. PICK c : c = Copied(bikes, b)
    OBVIOUS
  <2>3. /\ c \in Given /\ c.born = c.id
        /\ c.id # 0 => /\ c.id \in BikeId /\ bikes[c.id] # None
                       /\ bikes[c.id].plate = c.plate /\ bikes[c.id].km <= c.km
    BY <1>4, <1>6, <2>1, <2>2, CopiedIsGiven
  <2>4. PICK j : j = Doing("copy", "write", c)
    OBVIOUS
  <2>5. /\ j \in Job /\ j.op = "copy" /\ j.at = "write" /\ j.bike = c /\ j.note = 0
        /\ j.here = FALSE
    BY <2>3, <2>4, GarageAssumption DEF Doing, Job
  <2>6. WellFormed(j) /\ ~Stranger(j) /\ ~InsertsNote(j) /\ InsertsBike(job[t])
    BY <1>1, <2>3, <2>5 DEF WellFormed, Stages, Stranger, InsertsNote, InsertsBike
  <2>7. Become(t, j) /\ UNCHANGED <<disk, screen>> /\ Listed /\ ListInv'
    BY <1>1, <1>3, <1>6, <2>2, <2>4, ListLoaded DEF Listed, Loaded
  <2>8. job[t].here = FALSE
    <3>1. job[t].here \in BOOLEAN /\ ~job[t].here
      BY <1>1, <1>2, Zenon DEF WellFormed, Job
    <3> QED
      BY <3>1
  <2> QED
    BY <1>1, <2>3, <2>5, <2>6, <2>7, <2>8, GoKeepsInv
<1> QED
  BY <1>5, <1>6

LEMMA CopyFoundKeepsInv ==
    ASSUME Tables, Control, Data, NEW t, CopyFound(t)
    PROVE  Tables' /\ Control' /\ Data'
<1>1. /\ Asked(t) /\ job[t].op = "copy" /\ job[t].at = "list" /\ Loaded
      /\ IF WithPlate(bikes, job[t].bike.plate) = {} THEN Ends(t) /\ UNCHANGED screen
         ELSE Show(t, The(WithPlate(bikes, job[t].bike.plate)), job[t].bike.km)
  BY DEF CopyFound, At, Asked
<1>2. t \in Busy /\ job[t] \in Job /\ WellFormed(job[t])
  BY <1>1, AskedIsBusy
<1>3. ListInv' /\ Listed /\ UNCHANGED disk /\ ~job[t].here
  BY <1>1, <1>2, ListLoaded DEF Listed, Loaded, WellFormed
<1>4. CASE WithPlate(bikes, job[t].bike.plate) = {}
  BY <1>1, <1>3, <1>4, EndKeepsInv
<1>5. CASE WithPlate(bikes, job[t].bike.plate) # {}
  <2>1. PICK e \in WithPlate(bikes, job[t].bike.plate) :
           e = The(WithPlate(bikes, job[t].bike.plate))
    BY <1>5, TheIsOne
  <2>2. e \in Rows(bikes) /\ e.plate = job[t].bike.plate
    BY <2>1 DEF WithPlate
  <2>3. e \in Bike /\ e = bikes[e.id] /\ e.id \in BikeId /\ e # None
    BY <2>2, BikeOfTable, NoneAssumption DEF Data, BikesInv, Tables
  <2>4. job[t].bike.km \in Km /\ job[t].bike.km \in Nat
    BY <1>2, GarageAssumption DEF Job, Given, Km
  <2>5. ASSUME t \in alone PROVE e.km >= job[t].bike.km
    <3>1. PICK i \in BikeId : /\ bikes[i] # None
                             /\ bikes[i].plate = job[t].bike.plate
                             /\ bikes[i].km = job[t].bike.km
      BY <1>1, <2>5 DEF Data, AloneInv
    <3>2. i = e.id
      BY <2>2, <2>3, <3>1 DEF Data, BikesInv
    <3> QED
      BY <2>3, <2>4, <3>1, <3>2
  <2> QED
    BY <1>1, <1>5, <2>1, <2>2, <2>4, <2>5, ShowKeepsInv
<1> QED
  BY <1>4, <1>5

LEMMA ListBikesKeepsInv ==
    ASSUME Tables, Control, Data, NEW t, ListBikes(t)
    PROVE  Tables' /\ Control' /\ Data'
<1>1. /\ Asked(t) /\ job[t].op \in {"load", "add", "edit", "remove", "note"}
      /\ job[t].at = "list" /\ Loaded /\ UNCHANGED screen
      /\ IF job[t].op = "note" THEN ThenNotes(t) ELSE Ends(t)
  BY DEF ListBikes, At, Asked
<1>2. t \in Busy /\ job[t] \in Job /\ WellFormed(job[t])
  BY <1>1, AskedIsBusy
<1>3. ListInv' /\ Listed /\ UNCHANGED <<disk, screen>>
  BY <1>1, ListLoaded DEF Listed, Loaded
<1>4. CASE job[t].op = "note" /\ job[t].here
  <2>1. Then(t, "notes") /\ <<job[t].op, "notes">> \in Stages
    BY <1>1, <1>4 DEF ThenNotes, Stages
  <2>2. PICK j : Moved(t, j, "notes")
    BY <1>1, <2>1, ThenMoves
  <2>3. Become(t, j)
    BY <2>2 DEF Moved, Continued, Become
  <2> QED
    BY <1>1, <1>3, <1>4, <2>2, <2>3, GoKeepsInv DEF Moved
<1>5. CASE ~(job[t].op = "note" /\ job[t].here)
  <2>1. Ends(t)
    BY <1>1, <1>5 DEF ThenNotes
  <2>2. ~job[t].here
    BY <1>1, <1>2, <1>5 DEF WellFormed
  <2> QED
    BY <1>1, <1>3, <2>1, <2>2, EndKeepsInv
<1> QED
  BY <1>4, <1>5

\* The screen takes what SQLite has, or forgets that it is up to date.
LEMMA ScreenReads ==
    ASSUME Tables, Control, Data, NEW t, Asked(t), Ends(t), UNCHANGED disk, Listed, ListInv',
           screen \in Screen, screen' \in Screen, job[t].here, job[t].at # "write",
           screen'.bike = screen.bike, screen'.calm = screen.calm, screen'.km = screen.km,
           \/ screen'.shown = NotesOf(screen.bike.id)
           \/ screen'.shown = screen.shown /\ screen'.fresh = FALSE
    PROVE  Tables' /\ Control' /\ Data'
<1>1. /\ UNCHANGED <<bikes, made, notes, written>>
      /\ list' \in [BikeId -> Bike \cup {None}] /\ loaded' \in BOOLEAN /\ missed' \in BOOLEAN
      /\ UNCHANGED list \/ list' = bikes
  BY ListedTypes
<1>2. /\ Control' /\ AloneInv' /\ alone' \subseteq Task
      /\ Others(t) /\ t \in Busy /\ Busy' = Busy \ {t}
  BY <1>1, EndsOnly
<1>3. BikesInv /\ NotesInv /\ CalmInv /\ ScreenHasItsBike /\ ScreenKeeps
  BY DEF Data
<1>4. screen # None /\ screen' # None /\ SameScreen
  BY NoneAssumption DEF SameScreen
<1>5. Tables'
  BY <1>1, <1>2 DEF Tables
<1>6. BikesInv'
  <2>1. screen'.bike.born = screen'.bike.id
    BY <1>3, <1>4 DEF BikesInv
  <2> QED
    BY <1>1, <1>3, <2>1, BikesKept
<1>7. NotesInv'
  <2>1. ASSUME NEW n \in NoteId, screen'.shown[n] # None PROVE Belongs(n, screen'.bike.id)
    <3>1. CASE screen'.shown = screen.shown
      BY <1>3, <1>4, <2>1, <3>1 DEF NotesInv
    <3>2. CASE screen'.shown = NotesOf(screen.bike.id)
      <4>1. notes[n] # None /\ notes[n].bike = screen.bike.id
        BY <2>1, <3>2 DEF NotesOf
      <4> QED
        BY <1>3, <4>1 DEF NotesInv, Belongs
    <3> QED
      BY <3>1, <3>2
  <2> QED
    BY <1>1, <1>2, <1>3, <2>1, NotesStill
<1>8. CalmInv'
  BY <1>2, <1>3, <1>4, CalmKept
<1>9. ScreenHasItsBike'
  BY <1>1, <1>3, <1>4, <1>5, BikesStill, ScreenKeepsItsBike
<1>10. ScreenKeeps'
  <2>1. \A u \in Busy' : ~Stranger(job'[u])
    <3> SUFFICES ASSUME NEW u \in Busy' PROVE ~Stranger(job'[u])
      OBVIOUS
    <3>1. u \in Busy /\ u # t /\ job'[u] = job[u]
      BY <1>2 DEF Others, Busy
    <3>2. ~Stranger(job[u])
      BY <1>2, <3>1, HeadIsHere DEF Asked, Control
    <3> QED
      BY <3>1, <3>2
  <2>2. screen'.fresh => screen'.shown = (NotesOf(screen.bike.id))'
    BY <1>1 DEF NotesOf
  <2> QED
    BY <1>4, <2>1, <2>2 DEF ScreenKeeps, Stranger
<1> QED
  BY <1>2, <1>5, <1>6, <1>7, <1>8, <1>9, <1>10 DEF Data

LEMMA NotesOfIsShown ==
    ASSUME Tables, NEW i
    PROVE  NotesOf(i) \in [NoteId -> Note \cup {None}]
BY DEF NotesOf, Tables

LEMMA ReadNotesKeepsInv ==
    ASSUME Tables, Control, Data, NEW t, ReadNotes(t)
    PROVE  Tables' /\ Control' /\ Data'
<1>1. /\ Asked(t) /\ job[t].at = "notes" /\ Ends(t) /\ UNCHANGED <<disk, memory>>
      /\ screen' = IF job[t].here
                   THEN [screen EXCEPT !.shown = NotesOf(screen.bike.id), !.fresh = TRUE]
                   ELSE screen
  BY DEF ReadNotes, At, Asked
<1>2. Listed /\ t \in Busy
  BY <1>1, AskedIsBusy DEF Listed
<1>3. ListInv'
  <2>1. Others(t) /\ UNCHANGED <<bikes, list, loaded, missed>> /\ UNCHANGED <<made, written>>
    BY <1>1, EndsOnly DEF disk, memory
  <2> QED
    BY <1>1, <2>1, ListKept DEF Data
<1>4. CASE job[t].here
  <2>1. screen \in Screen
    BY <1>2, <1>4 DEF Data, ScreenKeeps, Tables
  <2>2. PICK s : s = NotesOf(screen.bike.id)
    OBVIOUS
  <2>3. s \in [NoteId -> Note \cup {None}]
    BY <2>2, NotesOfIsShown
  <2>4. screen' = [screen EXCEPT !.shown = s, !.fresh = TRUE]
    BY <1>1, <1>4, <2>2
  <2>5. /\ screen' \in Screen /\ screen'.bike = screen.bike /\ screen'.calm = screen.calm
        /\ screen'.km = screen.km /\ screen'.shown = s
    BY <2>1, <2>3, <2>4 DEF Screen
  <2> QED
    BY <1>1, <1>2, <1>3, <1>4, <2>1, <2>2, <2>5, ScreenReads
<1>5. CASE ~job[t].here
  BY <1>1, <1>2, <1>3, <1>5, EndKeepsInv
<1> QED
  BY <1>4, <1>5

LEMMA CallFailsKeepsInv ==
    ASSUME Tables, Control, Data, NEW t, CallFails(t)
    PROVE  Tables' /\ Control' /\ Data'
<1>1. /\ Asked(t) /\ Ends(t) /\ UNCHANGED <<disk, list, loaded>>
      /\ missed' = (missed \/ job[t].at \in {"first", "list"})
      /\ screen' = IF job[t].here /\ job[t].at # "write"
                   THEN [screen EXCEPT !.fresh = FALSE] ELSE screen
  BY DEF CallFails, Asked
<1>2. t \in Busy /\ UNCHANGED <<bikes, made, notes, written>> /\ Others(t)
  BY <1>1, EndsOnly DEF disk
<1>3. UNCHANGED missed \/ missed' = TRUE
  <2>1. missed \in BOOLEAN
    BY DEF Tables
  <2> QED
    BY <1>1, <2>1
<1>4. Listed
  BY <1>1, <1>3 DEF Listed, memory
<1>5. ListInv'
  <2>1. ~missed' => job[t].at # "list"
    BY <1>1
  <2> QED
    BY <1>1, <1>2, <1>3, <2>1, ListKept DEF Data
<1>6. CASE job[t].here /\ job[t].at # "write"
  <2>1. screen \in Screen
    BY <1>2, <1>6 DEF Data, ScreenKeeps, Tables
  <2>2. screen' = [screen EXCEPT !.fresh = FALSE]
    BY <1>1, <1>6
  <2>3. /\ screen' \in Screen /\ screen'.bike = screen.bike /\ screen'.calm = screen.calm
        /\ screen'.km = screen.km /\ screen'.shown = screen.shown /\ screen'.fresh = FALSE
    BY <2>1, <2>2 DEF Screen
  <2> QED
    BY <1>1, <1>4, <1>5, <1>6, <2>1, <2>3, ScreenReads
<1>7. CASE ~(job[t].here /\ job[t].at # "write")
  BY <1>1, <1>4, <1>5, <1>7, EndKeepsInv
<1> QED
  BY <1>6, <1>7

LEMMA RoomForOne ==
    ASSUME Tables, Control, NEW t \in Busy
    PROVE  /\ InsertsBike(job[t]) => made < MaxBikes
           /\ InsertsNote(job[t]) => written < MaxNotes
<1>1. /\ made \in Nat /\ written \in Nat /\ MaxBikes \in Nat /\ MaxNotes \in Nat
      /\ made + Cardinality(BikesToCome) <= MaxBikes /\ IsFiniteSet(BikesToCome)
      /\ written + Cardinality(NotesToCome) <= MaxNotes /\ IsFiniteSet(NotesToCome)
  BY RoomParts, ToComeIsFinite, TablesCount, GarageAssumption DEF Control, Counts
<1>2. Cardinality({}) = 0
  BY FS_EmptySet
<1>3. InsertsBike(job[t]) => made < MaxBikes
  <2> SUFFICES ASSUME InsertsBike(job[t]) PROVE made < MaxBikes
    OBVIOUS
  <2>1. t \in BikesToCome
    BY DEF BikesToCome
  <2>2. made + 1 + Cardinality({}) <= MaxBikes
    BY <1>1, <2>1, RoomUsed
  <2> QED
    BY <1>1, <1>2, <2>2
<1>4. InsertsNote(job[t]) => written < MaxNotes
  <2> SUFFICES ASSUME InsertsNote(job[t]) PROVE written < MaxNotes
    OBVIOUS
  <2>1. t \in NotesToCome
    BY DEF NotesToCome
  <2>2. written + 1 + Cardinality({}) <= MaxNotes
    BY <1>1, <2>1, RoomUsed
  <2> QED
    BY <1>1, <1>2, <2>2
<1> QED
  BY <1>3, <1>4

\* The call of a task that edits, adds, copies or removes a bike is of no screen
\* that opened in quiet.
LEMMA NotCalm ==
    ASSUME CalmInv, NEW t \in Busy, job[t].op \notin Harmless
    PROVE  ~Calm
BY DEF CalmInv, Calm, Harmless

LEMMA SaveBikeKeepsInv ==
    ASSUME Tables, Control, Data, NEW t, SaveBike(t)
    PROVE  Tables' /\ Control' /\ Data'
<1>1. /\ Asked(t) /\ job[t].op \in {"add", "edit", "copy"} /\ job[t].at = "write"
      /\ UNCHANGED <<notes, written, memory, screen>>
      /\ IF PlateTaken(job[t].bike)
         THEN Ends(t) /\ UNCHANGED <<bikes, made>>
         ELSE /\ Then(t, "list")
              /\ IF job[t].bike.id = 0 THEN Inserted(job[t].bike) ELSE Updated(job[t].bike)
  BY DEF SaveBike, At, Asked
<1>2. t \in Busy /\ job[t] \in Job /\ WellFormed(job[t])
  BY <1>1, AskedIsBusy
<1>3. ~job[t].here /\ UNCHANGED <<list, loaded, missed>>
  BY <1>1, <1>2 DEF WellFormed, memory
<1>4. CASE PlateTaken(job[t].bike)
  <2>1. Ends(t) /\ UNCHANGED disk /\ Listed /\ UNCHANGED <<bikes, made, notes, written>>
    BY <1>1, <1>4 DEF disk, Listed
  <2>2. ListInv'
    <3>1. Others(t)
      BY <1>1, <2>1, EndsOnly
    <3> QED
      BY <1>1, <1>3, <2>1, <3>1, ListKept DEF Data
  <2> QED
    BY <1>1, <1>3, <2>1, <2>2, EndKeepsInv
<1>5. CASE ~PlateTaken(job[t].bike)
  <2>1. PICK b \in Given : b = job[t].bike
    BY <1>2 DEF Job
  <2>2. Then(t, "list") /\ <<job[t].op, "list">> \in Stages
    BY <1>1, <1>5 DEF Stages
  <2>3. PICK j : Moved(t, j, "list")
    BY <1>1, <2>2, ThenMoves
  <2>4. BikesInv /\ NotesInv /\ AloneInv /\ CalmInv /\ ScreenHasItsBike /\ ScreenKeeps /\ ListInv
    BY DEF Data
  <2>5. ~PlateTaken(b) /\ IF b.id = 0 THEN Inserted(b) ELSE Updated(b)
    BY <1>1, <1>5, <2>1
  <2>6. /\ bikes' \in [BikeId -> Bike \cup {None}] /\ made' \in 0..MaxBikes
        /\ BikesInv'
        /\ UNCHANGED made \/ (made' = made + 1 /\ InsertsBike(job[t]))
        /\ \A i \in BikeId : bikes[i] # None => bikes'[i] # None
        /\ b.id = 0 \/ bikes[b.id] # None =>
              \E i \in BikeId : /\ bikes'[i] # None /\ bikes'[i].plate = b.plate
                               /\ bikes'[i].km = b.km
    <3>1. CASE b.id = 0
      <4>1. job[t].op \in {"add", "copy"}
        BY <1>1, <1>2, <2>1, <3>1 DEF WellFormed
      <4>2. InsertsBike(job[t])
        BY <1>1, <4>1 DEF InsertsBike
      <4>3. made < MaxBikes
        BY <1>2, <4>2, RoomForOne
      <4>4. Inserted(b)
        BY <2>5, <3>1
      <4>5. /\ bikes' \in [BikeId -> Bike \cup {None}] /\ made' \in 0..MaxBikes
            /\ BikesInv' /\ made' = made + 1
            /\ \A i \in BikeId : bikes[i] # None => bikes'[i] = bikes[i]
            /\ \E i \in BikeId : /\ bikes'[i] # None /\ bikes'[i].plate = b.plate
                                /\ bikes'[i].km = b.km
        BY <1>1, <1>3, <2>4, <2>5, <3>1, <4>3, <4>4, BikeInserted
      <4> QED
        BY <4>2, <4>5
    <3>2. CASE b.id # 0
      <4>1. b.id \in BikeId /\ Updated(b)
        BY <2>5, <3>2, GarageAssumption DEF Given, BikeId
      <4>2. /\ bikes' \in [BikeId -> Bike \cup {None}] /\ made' = made
            /\ BikesInv'
            /\ \A i \in BikeId : bikes[i] # None => bikes'[i] # None
            /\ bikes[b.id] # None => bikes'[b.id].plate = b.plate /\ bikes'[b.id].km = b.km
        BY <1>1, <1>3, <2>4, <2>5, <4>1, BikeUpdated
      <4> QED
        BY <3>2, <4>1, <4>2 DEF Tables
    <3> QED
      BY <3>1, <3>2
  <2>7. /\ Control' /\ alone' \subseteq Task
        /\ Others(t) /\ t \in Busy /\ Busy' = Busy /\ job'[t] = j
    BY <1>1, <2>3, <2>6, MovedOnly
  <2>8. Tables'
    BY <1>1, <1>3, <2>6, <2>7 DEF Tables
  <2>9. NotesInv'
    BY <1>1, <2>3, <2>4, <2>6, <2>7, NotesStill, ShownBelongs DEF Moved
  <2>10. AloneInv'
    <3>1. ASSUME t \in alone, j.op = "copy"
          PROVE  \E i \in BikeId : /\ bikes'[i] # None /\ bikes'[i].plate = j.bike.plate
                                  /\ bikes'[i].km = j.bike.km
      <4>1. j.bike = b /\ job[t].op = "copy"
        BY <2>1, <2>3, <3>1 DEF Moved
      <4>2. b.id = 0 \/ bikes[b.id] # None
        BY <1>1, <2>1, <2>4, <3>1, <4>1 DEF AloneInv
      <4> QED
        BY <2>6, <4>1, <4>2
    <3>2. j \in Job /\ Continued(t, j) /\ UNCHANGED alone /\ j.at = "list"
      BY <2>3 DEF Moved
    <3>3. Queued
      BY DEF Control
    <3> QED
      BY <2>4, <3>1, <3>2, <3>3, AloneContinued
  <2>11. ~Calm /\ SameScreen
    BY <1>1, <1>2, <2>4, NotCalm DEF Harmless, SameScreen
  <2>12. CalmInv'
    BY <2>4, <2>7, <2>11, CalmKept
  <2>13. ScreenHasItsBike'
    BY <2>4, <2>8, <2>11, ScreenKeepsItsBike
  <2>14. ListInv'
    BY <1>3, <2>3, <2>4, <2>7, ListWritten DEF Moved
  <2>15. ScreenKeeps'
    <3>1. ~(Stranger(job[t]))' /\ ~job'[t].here
      BY <1>3, <2>3, <2>7 DEF Moved, Stranger
    <3> QED
      BY <1>1, <1>3, <2>4, <2>7, <3>1, ScreenKept
  <2> QED
    BY <2>6, <2>7, <2>8, <2>9, <2>10, <2>12, <2>13, <2>14, <2>15 DEF Data
<1> QED
  BY <1>4, <1>5

LEMMA DeleteBikeKeepsInv ==
    ASSUME Tables, Control, Data, NEW t, DeleteBike(t)
    PROVE  Tables' /\ Control' /\ Data'
<1>1. /\ Asked(t) /\ job[t].op = "remove" /\ job[t].at = "write"
      /\ bikes' = [bikes EXCEPT ![job[t].bike.id] = None]
      /\ notes' = [n \in NoteId |-> IF NotesOf(job[t].bike.id)[n] = None THEN notes[n] ELSE None]
      /\ Then(t, "list")
      /\ UNCHANGED <<made, written, memory, screen>>
  BY DEF DeleteBike, At, Asked, AfterRemove
<1>2. t \in Busy /\ job[t] \in Job /\ WellFormed(job[t])
  BY <1>1, AskedIsBusy
<1>3. ~job[t].here /\ UNCHANGED <<list, loaded, missed>> /\ Stranger(job[t])
  BY <1>1, <1>2 DEF WellFormed, memory, Stranger
<1>4. PICK i \in BikeId : i = job[t].bike.id
  BY <1>1, <1>2, GarageAssumption DEF WellFormed, Job, Given, BikeId
<1>5. BikesInv /\ NotesInv /\ AloneInv /\ CalmInv /\ ScreenHasItsBike /\ ScreenKeeps /\ ListInv
  BY DEF Data
<1>6. PICK j : Moved(t, j, "list")
  BY <1>1, ThenMoves DEF Stages
<1>7. /\ Control' /\ alone' \subseteq Task
      /\ Others(t) /\ t \in Busy /\ Busy' = Busy /\ job'[t] = j
  BY <1>1, <1>6, MovedOnly
<1>8. /\ bikes' \in [BikeId -> Bike \cup {None}] /\ BikesInv'
      /\ \A k \in BikeId \ {i} : bikes'[k] = bikes[k]
  BY <1>1, <1>3, <1>4, <1>5, BikeRemoved
<1>9. \A n \in NoteId : notes'[n] # None =>
         notes[n] # None /\ notes'[n] = notes[n] /\ notes[n].bike # i
  BY <1>1, <1>4 DEF NotesOf
<1>10. Tables'
  <2>1. notes' \in [NoteId -> Note \cup {None}]
    BY <1>1 DEF Tables
  <2> QED
    BY <1>1, <1>3, <1>7, <1>8, <2>1 DEF Tables
<1>11. NotesInv'
  <2>1. \A n \in NoteId : notes'[n] # None =>
           /\ n <= written' /\ notes'[n].born = notes'[n].bike /\ bikes'[notes'[n].bike] # None
    <3> SUFFICES ASSUME NEW n \in NoteId, notes'[n] # None
                 PROVE  /\ n <= written /\ notes[n].born = notes[n].bike
                        /\ bikes'[notes[n].bike] # None
      BY <1>1, <1>9
    <3>1. notes[n].bike \in BikeId \ {i} /\ notes[n] # None
      BY <1>9 DEF Tables, Note
    <3> QED
      BY <1>5, <1>8, <3>1 DEF NotesInv
  <2>2. \A n \in NoteId : n <= written /\ notes'[n] # None =>
           notes[n] # None /\ notes'[n].bike = notes[n].bike
    BY <1>9
  <2>3. Queued /\ Queued'
    BY <1>7 DEF Control
  <2> QED
    BY <1>1, <1>5, <1>6, <1>7, <2>1, <2>2, <2>3, NotesKept, ShownBelongs, TablesCount DEF Moved
<1>12. AloneInv'
  <2>1. j \in Job /\ Continued(t, j) /\ UNCHANGED alone /\ j.op # "copy" /\ Queued
    BY <1>1, <1>6 DEF Moved, Control
  <2> QED
    BY <1>5, <2>1, AloneContinued
<1>13. ~Calm /\ SameScreen
  BY <1>1, <1>2, <1>5, NotCalm DEF Harmless, SameScreen
<1>14. CalmInv'
  BY <1>5, <1>7, <1>13, CalmKept
<1>15. ScreenHasItsBike'
  BY <1>5, <1>10, <1>13, ScreenKeepsItsBike
<1>16. ListInv'
  BY <1>3, <1>5, <1>6, <1>7, ListWritten DEF Moved
<1>17. ScreenKeeps'
  <2>1. ~job'[t].here
    BY <1>3, <1>6, <1>7 DEF Moved
  <2> QED
    BY <1>1, <1>3, <1>5, <1>7, <2>1, ScreenWritten
<1> QED
  BY <1>7, <1>8, <1>10, <1>11, <1>12, <1>14, <1>15, <1>16, <1>17 DEF Data

LEMMA WriteNoteKeepsInv ==
    ASSUME Tables, Control, Data, NEW t, WriteNote(t)
    PROVE  Tables' /\ Control' /\ Data'
<1>1. /\ Asked(t) /\ job[t].op = "note" /\ job[t].at = "write"
      /\ IF job[t].note = 0 /\ bikes[job[t].bike.id] = None
         THEN Ends(t) /\ UNCHANGED disk
         ELSE /\ notes' = NoteSaved(job[t])
              /\ written' = IF job[t].note = 0 THEN written + 1 ELSE written
              /\ bikes' = Raised(job[t].bike.id, job[t].bike.km)
              /\ Then(t, "list")
              /\ UNCHANGED made
      /\ UNCHANGED <<memory, screen>>
  BY DEF WriteNote, At, Asked, AfterNote
<1>2. t \in Busy /\ job[t] \in Job /\ WellFormed(job[t])
  BY <1>1, AskedIsBusy
<1>3. UNCHANGED <<list, loaded, missed>>
  BY <1>1 DEF memory
<1>4. CASE job[t].note = 0 /\ bikes[job[t].bike.id] = None
  <2>1. Ends(t) /\ UNCHANGED disk /\ Listed /\ UNCHANGED <<bikes, made, notes, written>>
    BY <1>1, <1>4 DEF disk, Listed
  <2>2. ListInv'
    <3>1. Others(t)
      BY <1>1, <2>1, EndsOnly
    <3> QED
      BY <1>1, <1>3, <2>1, <3>1, ListKept DEF Data
  <2> QED
    BY <1>1, <2>1, <2>2, EndKeepsInv
<1>5. CASE ~(job[t].note = 0 /\ bikes[job[t].bike.id] = None)
  <2>1. /\ notes' = NoteSaved(job[t])
        /\ written' = IF job[t].note = 0 THEN written + 1 ELSE written
        /\ bikes' = Raised(job[t].bike.id, job[t].bike.km)
        /\ Then(t, "list") /\ UNCHANGED made
    BY <1>1, <1>5
  <2>2. PICK i \in BikeId, km \in Km, m \in 0..MaxNotes :
           i = job[t].bike.id /\ km = job[t].bike.km /\ m = job[t].note
    BY <1>1, <1>2, GarageAssumption DEF WellFormed, Job, Given, BikeId
  <2>3. BikesInv /\ NotesInv /\ AloneInv /\ CalmInv /\ ScreenHasItsBike /\ ScreenKeeps /\ ListInv
    BY DEF Data
  <2>4. PICK j : Moved(t, j, "list")
    BY <1>1, <2>1, ThenMoves DEF Stages
  <2>5. UNCHANGED written \/ (written' = written + 1 /\ InsertsNote(job[t]))
    BY <1>1, <2>1 DEF InsertsNote
  <2>6. /\ Control' /\ alone' \subseteq Task
        /\ Others(t) /\ t \in Busy /\ Busy' = Busy /\ job'[t] = j
    BY <1>1, <2>1, <2>4, <2>5, MovedOnly
  <2>7. bikes' \in [BikeId -> Bike \cup {None}] /\ BikesInv' /\ BikesGrow
    BY <1>1, <1>3, <2>1, <2>2, <2>3, BikeRaised
  \* The note that is written, and its number.
  <2>8. PICK new \in Note : new = [bike |-> i, km |-> km, born |-> i]
    BY DEF Note
  <2>9. /\ new.bike = i /\ new.born = i /\ new # None
    BY <2>8, NoneAssumption
  <2>10. PICK n : n = IF m = 0 THEN written + 1 ELSE m
    OBVIOUS
  <2>11. /\ n \in NoteId /\ written' \in 0..MaxNotes /\ n <= written'
         /\ written \in Nat /\ (m = 0 => n = written + 1)
         /\ UNCHANGED written \/ written' = written + 1
    <3>1. CASE m = 0
      <4>1. written < MaxNotes
        BY <1>1, <1>2, <2>2, <3>1, RoomForOne DEF InsertsNote
      <4>2. written' = written + 1 /\ written \in Nat /\ MaxNotes \in Nat
        BY <2>1, <2>2, <3>1, GarageAssumption DEF Tables
      <4>3. written + 1 \in NoteId /\ written + 1 \in 0..MaxNotes
        BY <4>1, <4>2 DEF NoteId
      <4> QED
        BY <2>10, <3>1, <4>2, <4>3
    <3>2. CASE m # 0
      <4>1. written' = written /\ n = m /\ written \in 0..MaxNotes
        BY <2>1, <2>2, <2>10, <3>2 DEF Tables
      <4>2. m <= written
        BY <1>1, <1>2, <2>2, <2>3, <3>2 DEF NotesInv, Belongs
      <4> QED
        BY <3>2, <4>1, <4>2, GarageAssumption DEF NoteId
    <3> QED
      BY <3>1, <3>2
  <2>12. \/ UNCHANGED notes
         \/ /\ notes' = [notes EXCEPT ![n] = new] /\ bikes[i] # None
            /\ m = 0 \/ (notes[n] # None /\ notes[n].bike = i)
    <3>1. notes' = IF m # 0 /\ notes[n] = None THEN notes ELSE [notes EXCEPT ![n] = new]
      <4>1. job[t].bike.born = i
        BY <1>2, <2>2 DEF WellFormed
      <4>2. [bike |-> job[t].bike.id, km |-> job[t].bike.km, born |-> job[t].bike.born] = new
        BY <2>2, <2>8, <4>1
      <4> QED
        BY <2>1, <2>2, <2>10, <4>2 DEF NoteSaved
    <3>2. CASE m = 0
      BY <1>5, <2>2, <3>1, <3>2
    <3>3. CASE m # 0 /\ notes[n] # None
      <4>1. n = m
        BY <2>10, <3>3
      <4>2. notes[n].bike = i
        BY <1>1, <1>2, <2>2, <2>3, <3>3, <4>1 DEF NotesInv, Belongs
      <4>3. bikes[i] # None
        BY <2>3, <2>11, <3>3, <4>2 DEF NotesInv
      <4> QED
        BY <3>1, <3>3, <4>2, <4>3
    <3> QED
      BY <3>1, <3>2, <3>3
  <2>13. /\ notes' \in [NoteId -> Note \cup {None}]
         /\ \A k \in NoteId \ {n} : notes'[k] = notes[k]
         /\ notes'[n] = notes[n] \/ (notes'[n] = new /\ bikes[i] # None)
    BY <2>11, <2>12 DEF Tables
  <2>14. Tables'
    BY <1>1, <1>3, <2>1, <2>6, <2>7, <2>11, <2>13 DEF Tables
  <2>15. \A k \in NoteId : k <= written => k <= written' /\ k \in Nat
    <3>1. written \in Nat /\ (written' = written \/ written' = written + 1)
      BY <2>11
    <3>2. \A k \in NoteId : k \in Nat
      BY DEF NoteId
    <3> QED
      BY <3>1, <3>2
  <2>16. NotesInv'
    <3>1. ASSUME NEW k \in NoteId, notes'[k] # None
          PROVE  /\ k <= written' /\ notes'[k].born = notes'[k].bike
                 /\ bikes'[notes'[k].bike] # None
      <4>1. CASE notes'[k] = notes[k]
        <5>1. /\ k <= written /\ notes[k].born = notes[k].bike /\ bikes[notes[k].bike] # None
              /\ notes[k].bike \in BikeId
          BY <2>3, <3>1, <4>1 DEF NotesInv, Tables, Note
        <5> QED
          BY <2>7, <2>15, <4>1, <5>1 DEF BikesGrow
      <4>2. CASE k = n /\ notes'[n] = new /\ bikes[i] # None
        BY <2>7, <2>9, <2>11, <4>2 DEF BikesGrow
      <4> QED
        BY <2>13, <4>1, <4>2
    <3>2. ASSUME NEW k \in NoteId, k <= written, notes'[k] # None
          PROVE  notes[k] # None /\ notes'[k].bike = notes[k].bike
      <4>1. CASE k = n /\ m = 0
        <5>1. written + 1 <= written /\ written \in Nat
          BY <2>11, <3>2, <4>1
        <5> QED
          BY <5>1
      <4>2. CASE k = n /\ m # 0
        BY <2>9, <2>11, <2>12, <3>2, <4>2 DEF Tables
      <4>3. CASE k # n
        BY <2>13, <3>2, <4>3
      <4> QED
        BY <4>1, <4>2, <4>3
    <3>3. Queued /\ Queued' /\ job'[t].note = 0
      BY <2>4, <2>6 DEF Control, Moved
    <3>4. screen' # None => \A k \in NoteId : screen'.shown[k] # None => Belongs(k, screen'.bike.id)
      BY <1>1, <2>3, ShownBelongs
    <3> QED
      BY <2>3, <2>6, <2>11, <3>1, <3>2, <3>3, <3>4, NotesKept, TablesCount
  <2>17. AloneInv'
    <3>1. j \in Job /\ Continued(t, j) /\ UNCHANGED alone /\ j.op # "copy" /\ Queued
      BY <1>1, <2>4 DEF Moved, Control
    <3> QED
      BY <2>3, <3>1, AloneContinued
  <2>18. CalmInv'
    <3>1. job'[t].op \in Harmless /\ SameScreen
      BY <1>1, <2>4, <2>6 DEF Moved, Harmless, SameScreen
    <3> QED
      BY <2>3, <2>6, <3>1, CalmKept
  <2>19. ScreenHasItsBike'
    BY <1>1, <2>3, <2>7, <2>14, ScreenKeepsItsBike DEF SameScreen
  <2>20. ListInv'
    BY <1>3, <2>3, <2>4, <2>6, ListWritten DEF Moved
  <2>21. ScreenKeeps'
    <3>1. job'[t].here = job[t].here /\ job'[t].at = "list"
      BY <2>4, <2>6 DEF Moved
    <3>2. job[t].here \/ Stranger(job[t])
      BY <1>1 DEF Stranger
    <3> QED
      BY <1>1, <2>3, <2>6, <3>1, <3>2, ScreenWritten DEF Stranger
  <2> QED
    BY <2>6, <2>7, <2>14, <2>16, <2>17, <2>18, <2>19, <2>20, <2>21 DEF Data
<1> QED
  BY <1>4, <1>5

LEMMA DeleteNoteKeepsInv ==
    ASSUME Tables, Control, Data, NEW t, DeleteNote(t)
    PROVE  Tables' /\ Control' /\ Data'
<1>1. /\ Asked(t) /\ job[t].op = "unnote" /\ job[t].at = "write"
      /\ notes' = [notes EXCEPT ![job[t].note] = None]
      /\ IF job[t].here THEN Then(t, "notes") ELSE Ends(t)
      /\ UNCHANGED <<bikes, made, written, memory, screen>>
  BY DEF DeleteNote, At, Asked, AfterUnnote, ThenNotes
<1>2. t \in Busy /\ job[t] \in Job /\ WellFormed(job[t])
  BY <1>1, AskedIsBusy
<1>3. UNCHANGED <<list, loaded, missed>>
  BY <1>1 DEF memory
<1>4. BikesInv /\ NotesInv /\ AloneInv /\ CalmInv /\ ScreenHasItsBike /\ ScreenKeeps /\ ListInv
  BY DEF Data
<1>5. /\ Control' /\ AloneInv' /\ alone' \subseteq Task /\ Others(t)
      /\ \/ t \notin Busy' /\ ~job[t].here
         \/ /\ t \in Busy' /\ job[t].here /\ job'[t].here /\ job'[t].op = "unnote"
            /\ job'[t].at = "notes" /\ job'[t].note = 0
  <2>1. CASE ~job[t].here
    BY <1>1, <2>1, EndsOnly
  <2>2. CASE job[t].here
    <3>1. PICK j : Moved(t, j, "notes")
      BY <1>1, <2>2, ThenMoves DEF Stages
    <3>2. /\ Control' /\ alone' \subseteq Task
          /\ Others(t) /\ t \in Busy /\ Busy' = Busy /\ job'[t] = j
      BY <1>1, <3>1, MovedOnly
    <3>3. AloneInv'
      <4>1. j \in Job /\ Continued(t, j) /\ UNCHANGED alone /\ j.op # "copy" /\ Queued
        BY <1>1, <3>1 DEF Moved, Control
      <4> QED
        BY <1>4, <4>1, AloneContinued
    <3> QED
      BY <1>1, <2>2, <3>1, <3>2, <3>3 DEF Moved
  <2> QED
    BY <2>1, <2>2
<1>6. \A n \in NoteId : notes'[n] # None => notes[n] # None /\ notes'[n] = notes[n]
  BY <1>1 DEF Tables
<1>7. Tables'
  <2>1. notes' \in [NoteId -> Note \cup {None}]
    BY <1>1 DEF Tables
  <2> QED
    BY <1>1, <1>3, <1>5, <2>1 DEF Tables
<1>8. BikesInv'
  BY <1>1, <1>3, <1>4, BikesKept DEF BikesInv
<1>9. NotesInv'
  <2>1. \A n \in NoteId : notes'[n] # None =>
           /\ n <= written' /\ notes'[n].born = notes'[n].bike /\ bikes'[notes'[n].bike] # None
    BY <1>1, <1>4, <1>6 DEF NotesInv
  <2>2. \A n \in NoteId : n <= written /\ notes'[n] # None =>
           notes[n] # None /\ notes'[n].bike = notes[n].bike
    BY <1>6
  <2>3. Queued /\ Queued'
    BY <1>5 DEF Control
  <2> QED
    BY <1>1, <1>4, <1>5, <2>1, <2>2, <2>3, NotesKept, ShownBelongs, TablesCount
<1>10. SameScreen
  BY <1>1 DEF SameScreen
<1>11. CalmInv'
  BY <1>4, <1>5, <1>10, CalmKept DEF Harmless
<1>12. ScreenHasItsBike'
  BY <1>1, <1>4, <1>7, <1>10, BikesStill, ScreenKeepsItsBike
<1>13. ListInv'
  BY <1>1, <1>3, <1>4, <1>5, ListKept
<1>14. ScreenKeeps'
  <2>1. job[t].here \/ Stranger(job[t])
    BY <1>1 DEF Stranger
  <2> QED
    BY <1>1, <1>2, <1>4, <1>5, <2>1, ScreenWritten
<1> QED
  BY <1>5, <1>7, <1>8, <1>9, <1>11, <1>12, <1>13, <1>14 DEF Data

----------------------------------------------------------------------------
(* The rider leaves the screen; the app is killed.                         *)

LEMMA LeaveKeepsInv ==
    ASSUME Tables, Control, Data, Leave
    PROVE  Tables' /\ Control' /\ Data'
<1>1. /\ screen # None /\ screen' = None
      /\ job' = [t \in Task |-> IF job[t] = None THEN None ELSE [job[t] EXCEPT !.here = FALSE]]
      /\ UNCHANGED <<disk, memory, queue, alone>>
  BY DEF Leave
<1>2. UNCHANGED <<bikes, made, notes, written, list, loaded, missed, queue, alone>>
  BY <1>1 DEF disk, memory
<1>3. BikesInv /\ NotesInv /\ AloneInv /\ ListInv /\ Queued /\ JobsFormed /\ RoomLeft
  BY DEF Data, Control
<1>4. ASSUME NEW t \in Task
      PROVE  /\ t \in Busy' <=> t \in Busy
             /\ job'[t] # None <=> job[t] # None
             /\ job'[t] \in Job \cup {None}
             /\ t \in Busy => /\ job[t] \in Job
                              /\ job'[t].op = job[t].op /\ job'[t].at = job[t].at
                              /\ job'[t].bike = job[t].bike /\ job'[t].note = job[t].note
                              /\ job'[t].here = FALSE
  <2>1. CASE job[t] = None
    BY <1>1, <2>1 DEF Busy
  <2>2. CASE job[t] # None
    <3>1. job[t] \in Job
      BY <1>3, <2>2 DEF Queued
    <3>2. PICK j : j = [job[t] EXCEPT !.here = FALSE]
      OBVIOUS
    <3>3. /\ j \in Job /\ j.op = job[t].op /\ j.at = job[t].at /\ j.bike = job[t].bike
          /\ j.note = job[t].note /\ j.here = FALSE
      BY <3>1, <3>2 DEF Job
    <3>4. job'[t] = j /\ j # None
      BY <1>1, <2>2, <3>2, <3>3, NoneAssumption
    <3> QED
      BY <2>2, <3>1, <3>3, <3>4 DEF Busy
  <2> QED
    BY <2>1, <2>2
<1>5. Busy' = Busy
  BY <1>4 DEF Busy
<1>6. Queued'
  <2>1. job' \in [Task -> Job \cup {None}]
    BY <1>1, <1>4
  <2>2. \A t \in Task : job'[t] # None <=> \E i \in 1..Len(queue') : queue'[i] = t
    BY <1>2, <1>3, <1>4 DEF Queued
  <2> QED
    BY <1>2, <1>3, <2>1, <2>2 DEF Queued
<1>7. \A t \in Busy : /\ t \in Task /\ job'[t].op = job[t].op /\ job'[t].at = job[t].at
                      /\ job'[t].bike = job[t].bike /\ job'[t].note = job[t].note
                      /\ job'[t].here = FALSE
  BY <1>4 DEF Busy
<1>8. JobsFormed'
  BY <1>3, <1>5, <1>7 DEF JobsFormed, WellFormed
<1>9. RoomLeft'
  <2>1. BikesToCome' = BikesToCome /\ NotesToCome' = NotesToCome
    BY <1>5, <1>7 DEF BikesToCome, NotesToCome, InsertsBike, InsertsNote
  <2> QED
    BY <1>2, <1>3, <1>5, <2>1 DEF RoomLeft, BikesToCome, NotesToCome
<1>10. InTurn'
  <2>1. ASSUME NEW i \in 1..Len(queue) PROVE ~job'[queue[i]].here
    <3>1. queue[i] \in Busy
      BY <1>3 DEF Queued, Busy
    <3> QED
      BY <1>7, <3>1
  <2> QED
    BY <1>2, <2>1 DEF InTurn, Stranger
<1>11. Tables'
  BY <1>1, <1>2 DEF Tables
<1>12. BikesInv'
  BY <1>1, <1>2, <1>3, BikesKept
<1>13. NotesInv'
  <2>1. \A t \in Busy' : job'[t].op = "note" /\ job'[t].note # 0 =>
           (Belongs(job[t].note, job[t].bike.id))'
    BY <1>2, <1>3, <1>5, <1>7 DEF NotesInv, Belongs
  <2> QED
    BY <1>1, <1>2, <1>3, <2>1 DEF NotesInv
<1>14. AloneInv'
  <2>1. \A t \in alone : t \in Busy
    BY <1>3 DEF AloneInv
  <2> QED
    BY <1>2, <1>3, <1>5, <1>7, <2>1 DEF AloneInv
<1>15. ListInv'
  BY <1>2, <1>3, <1>5, <1>7 DEF ListInv
<1>16. CalmInv' /\ ScreenHasItsBike'
  BY <1>1 DEF CalmInv, ScreenHasItsBike
<1>17. ScreenKeeps'
  BY <1>1, <1>5, <1>7 DEF ScreenKeeps
<1> QED
  BY <1>6, <1>8, <1>9, <1>10, <1>11, <1>12, <1>13, <1>14, <1>15, <1>16, <1>17 DEF Data, Control

LEMMA NothingUnderWay ==
    ASSUME queue = <<>>, job = [t \in Task |-> None], alone = {}, screen = None,
           made \in 0..MaxBikes, written \in 0..MaxNotes
    PROVE  /\ Control /\ AloneInv /\ CalmInv /\ ScreenHasItsBike /\ ScreenKeeps
           /\ Busy = {}
<1>1. Busy = {}
  BY DEF Busy
<1>2. queue \in Seq(Task) /\ Len(queue) = 0
  OBVIOUS
<1>3. Queued
  BY <1>2 DEF Queued
<1>4. IsFiniteSet(Busy) /\ Cardinality(Busy) = 0
  BY <1>1, FS_EmptySet
<1>5. BikesToCome = {} /\ NotesToCome = {} /\ Cardinality({}) = 0
  BY <1>1, FS_EmptySet DEF BikesToCome, NotesToCome
<1>6. made + 0 <= MaxBikes /\ written + 0 <= MaxNotes
  BY GarageAssumption
<1>7. RoomLeft
  BY <1>2, <1>4, <1>5, <1>6, RoomParts
<1>8. JobsFormed /\ InTurn
  BY <1>1, <1>2 DEF JobsFormed, InTurn
<1>9. AloneInv /\ CalmInv /\ ScreenHasItsBike /\ ScreenKeeps
  BY <1>1 DEF AloneInv, CalmInv, ScreenHasItsBike, ScreenKeeps
<1> QED
  BY <1>1, <1>3, <1>7, <1>8, <1>9 DEF Control

LEMMA InitHasInv == Init => GarageInv
<1> SUFFICES ASSUME Init PROVE Tables /\ Control /\ Data
  BY InvParts
<1>1. Tables
  <2>1. NoBikes \in [BikeId -> Bike \cup {None}] /\ NoNotes \in [NoteId -> Note \cup {None}]
    BY DEF NoBikes, NoNotes
  <2>2. 0 \in 0..MaxBikes /\ 0 \in 0..MaxNotes
    BY GarageAssumption
  <2> QED
    BY <2>1, <2>2 DEF Init, Tables
<1>2. Control /\ AloneInv /\ CalmInv /\ ScreenHasItsBike /\ ScreenKeeps
  BY <1>1, NothingUnderWay DEF Init, Tables
<1>3. BikesInv /\ NotesInv /\ ListInv
  <2>1. BikesInv
    BY DEF Init, BikesInv, Numbered, NoBikes
  <2>2. NotesInv
    BY DEF Init, NotesInv, NoNotes, Busy
  <2>3. ListInv
    BY DEF Init, ListInv
  <2> QED
    BY <2>1, <2>2, <2>3
<1> QED
  BY <1>1, <1>2, <1>3 DEF Data

LEMMA RestartKeepsInv ==
    ASSUME Tables, Control, Data, Restart
    PROVE  Tables' /\ Control' /\ Data'
<1>1. /\ list' = NoBikes /\ loaded' = FALSE /\ missed' = FALSE /\ queue' = <<>>
      /\ job' = [t \in Task |-> None] /\ alone' = {} /\ screen' = None
      /\ UNCHANGED <<bikes, made, notes, written>>
  BY DEF Restart, disk
<1>2. NoBikes \in [BikeId -> Bike \cup {None}]
  BY DEF NoBikes
<1>3. Tables'
  BY <1>1, <1>2 DEF Tables
<1>4. Busy' = {}
  BY <1>1 DEF Busy
<1>5. Control'
  <2>1. queue' \in Seq(Task) /\ Len(queue') = 0
    BY <1>1
  <2>2. Queued'
    BY <1>1, <2>1 DEF Queued
  <2>3. JobsFormed' /\ InTurn'
    BY <1>4, <2>1 DEF JobsFormed, InTurn, Stranger
  <2>4. RoomLeft'
    <3>1. /\ BikesToCome' = {} /\ NotesToCome' = {}
          /\ IsFiniteSet({}) /\ Cardinality({}) = 0
      BY <1>4, FS_EmptySet DEF BikesToCome, NotesToCome
    <3>2. made' + 0 <= MaxBikes /\ written' + 0 <= MaxNotes
      <4>1. made \in 0..MaxBikes /\ written \in 0..MaxNotes
        BY DEF Tables
      <4>2. made + 0 <= MaxBikes /\ written + 0 <= MaxNotes
        BY <4>1, GarageAssumption
      <4> QED
        BY <1>1, <4>2
    <3> QED
      BY <1>4, <2>1, <3>1, <3>2 DEF RoomLeft, BikesToCome, NotesToCome
  <2> QED
    BY <2>2, <2>3, <2>4 DEF Control
<1>6. BikesInv'
  BY <1>1, BikesKept DEF Data
<1>7. NotesInv'
  BY <1>1, <1>4 DEF NotesInv, Data
<1>8. AloneInv' /\ CalmInv' /\ ScreenHasItsBike' /\ ScreenKeeps' /\ ListInv'
  BY <1>1, <1>4 DEF AloneInv, CalmInv, ScreenHasItsBike, ScreenKeeps, ListInv
<1> QED
  BY <1>3, <1>5, <1>6, <1>7, <1>8 DEF Data

----------------------------------------------------------------------------
(* The theorems.                                                           *)

LEMMA AnswerKeepsInv ==
    ASSUME Tables, Control, Data, NEW t, Answered(t) \/ CallFails(t)
    PROVE  Tables' /\ Control' /\ Data'
BY SaveBikeKeepsInv, DeleteBikeKeepsInv, WriteNoteKeepsInv, DeleteNoteKeepsInv,
   ListBikesKeepsInv, CopyLoadsKeepsInv, CopyFoundKeepsInv, ReadNotesKeepsInv,
   CallFailsKeepsInv DEF Answered

LEMMA StartsKeepInv ==
    ASSUME Tables, Control, Data, NEW t \in Task,
           \/ EnsureLoaded(t) \/ AddBike(t) \/ EditBike(t) \/ RemoveBike(t)
           \/ OpenNotes(t) \/ OpenAccountBike(t) \/ EditNote(t) \/ RemoveNote(t)
    PROVE  Tables' /\ Control' /\ Data'
<1>1. Starts(t)
  BY EnsureLoadedStarts, BikeStarts, OpenNotesStarts, OpenAccountBikeStarts, NoteStarts
<1>2. PICK j : Start(t, j) /\ Startable(j) /\ (Stays(j) \/ Opens(j))
  BY <1>1 DEF Starts
<1> QED
  BY <1>2, StartKeepsInv

LEMMA StepKeepsInv == GarageInv /\ [Next]_vars => GarageInv'
<1> SUFFICES ASSUME Tables, Control, Data, [Next]_vars
             PROVE  GarageInv'
  BY InvParts
<1>1. Tables' /\ Control' /\ Data' => GarageInv'
  BY InvParts, PTL
<1>2. ASSUME NEW t \in Task, Answered(t) \/ CallFails(t) PROVE Tables' /\ Control' /\ Data'
  BY <1>2, AnswerKeepsInv
<1>3. ASSUME NEW t \in Task,
             \/ EnsureLoaded(t) \/ AddBike(t) \/ EditBike(t) \/ RemoveBike(t)
             \/ OpenNotes(t) \/ OpenAccountBike(t) \/ EditNote(t) \/ RemoveNote(t)
      PROVE  Tables' /\ Control' /\ Data'
  BY <1>3, StartsKeepInv
<1>4. CASE Leave
  BY <1>1, <1>4, LeaveKeepsInv
<1>5. CASE Restart
  BY <1>1, <1>5, RestartKeepsInv
<1>6. CASE UNCHANGED vars
  <2>1. UNCHANGED <<bikes, made, notes, written, list, loaded, missed, queue, job, alone, screen>>
    BY <1>6 DEF vars, disk, memory
  <2>2. Busy' = Busy
    BY <2>1 DEF Busy
  <2>3. Tables'
    BY <2>1 DEF Tables
  <2>4. Control'
    BY <2>1, <2>2 DEF Control, Queued, JobsFormed, RoomLeft, InTurn, WellFormed, Stranger,
       InsertsBike, InsertsNote
  <2>5. BikesInv' /\ NotesInv' /\ AloneInv'
    BY <2>1, <2>2 DEF Data, BikesInv, NotesInv, Belongs, AloneInv
  <2>6. CalmInv' /\ ScreenHasItsBike' /\ ListInv' /\ ScreenKeeps'
    BY <2>1, <2>2 DEF Data, CalmInv, ScreenHasItsBike, ListInv, ScreenKeeps, Stranger, NotesOf
  <2> QED
    BY <1>1, <2>3, <2>4, <2>5, <2>6 DEF Data
<1> QED
  BY <1>1, <1>2, <1>3, <1>4, <1>5, <1>6, Zenon DEF Next

\* The list, the screen and the tasks under way agree with the tables in
\* every state of the app that SQLite answers in the order of its calls.
THEOREM GarageInvariance == Spec => []GarageInv
BY InitHasInv, StepKeepsInv, PTL DEF Spec

\* The garage never numbers a bike or a note past its bound, has one call in the
\* queue for each task under way and no other.
THEOREM GarageTypes == Spec => []GarageTypeOK
<1>1. GarageInv => GarageTypeOK
  BY DEF GarageInv
<1> QED
  BY <1>1, GarageInvariance, PTL

\* Whatever the order of the rider's taps, of SQLite's answers and of their
\* failures: a quiet app shows the bikes SQLite has, and the notes of the bike
\* whose screen is open.
THEOREM QuietIsDisk == Spec => []QuietMeansDisk
<1>1. GarageInv => QuietMeansDisk
  <2> SUFFICES ASSUME GarageInv PROVE QuietMeansDisk
    OBVIOUS
  <2>1. ListInv /\ ScreenInv
    BY DEF GarageInv
  <2>2. Quiet => Busy = {}
    BY DEF Quiet, Busy
  <2>3. Fresh /\ loaded => list = bikes
    BY <2>1, FreshList
  <2>4. Quiet /\ screen # None /\ screen.fresh => screen.shown = NotesOf(screen.bike.id)
    BY <2>1, <2>2 DEF ScreenInv
  <2> QED
    BY <2>3, <2>4 DEF QuietMeansDisk
<1> QED
  BY <1>1, GarageInvariance, PTL

\* A note is never of another bike than the one it was written for, and none
\* outlives its bike.
THEOREM NotesStay == Spec => []NotesStayWithTheirBike
<1>1. GarageInv => NotesStayWithTheirBike
  <2> SUFFICES ASSUME GarageInv, NEW n \in NoteId, notes[n] # None
               PROVE  bikes[notes[n].bike] # None /\ bikes[notes[n].bike].born = notes[n].born
    BY DEF NotesStayWithTheirBike
  <2>1. GarageTypeOK /\ NotesInv /\ BikesInv
    BY DEF GarageInv
  <2>2. notes[n].bike \in BikeId
    BY <2>1 DEF GarageTypeOK, Note
  <2>3. notes[n].born = notes[n].bike /\ bikes[notes[n].bike] # None
    BY <2>1 DEF NotesInv
  <2> QED
    BY <2>1, <2>2, <2>3 DEF BikesInv, Numbered
<1> QED
  BY <1>1, GarageInvariance, PTL

\* The notes screen that opened in quiet keeps its bike, and the mileage it
\* promised, for as long as it is open.
THEOREM ScreenHoldsItsBike == Spec => []ScreenHasItsBike
<1>1. GarageInv => ScreenHasItsBike
  BY DEF GarageInv
<1> QED
  BY <1>1, GarageInvariance, PTL

Lowered(i) == bikes[i] # None /\ bikes'[i] # None /\ bikes'[i].km < bikes[i].km

LEMMA GrownIsNotLowered ==
    ASSUME Tables, Tables', BikesGrow, NEW i \in BikeId
    PROVE  ~Lowered(i)
<1> SUFFICES ASSUME Lowered(i) PROVE FALSE
  OBVIOUS
<1>1. bikes'[i].km < bikes[i].km /\ bikes'[i].km >= bikes[i].km
  BY DEF Lowered, BikesGrow
<1>2. bikes[i].km \in Nat /\ bikes'[i].km \in Nat
  BY GarageAssumption DEF Lowered, Tables, Bike, Km
<1> QED
  BY <1>1, <1>2

\* A save that lowers a mileage is the rider's, or the copy of a task that did
\* not have the garage to itself.
LEMMA SaveBikeLowers ==
    ASSUME Tables, Control, Data, Tables', NEW t, SaveBike(t), NEW i \in BikeId, Lowered(i)
    PROVE  t = Head(queue) /\ (job[t].op = "edit" \/ (job[t].op = "copy" /\ t \notin alone))
<1>1. /\ Asked(t) /\ job[t].op \in {"add", "edit", "copy"} /\ job[t].at = "write"
      /\ UNCHANGED <<list, screen>>
      /\ IF PlateTaken(job[t].bike)
         THEN Ends(t) /\ UNCHANGED <<bikes, made>>
         ELSE /\ Then(t, "list")
              /\ IF job[t].bike.id = 0 THEN Inserted(job[t].bike) ELSE Updated(job[t].bike)
  BY DEF SaveBike, At, Asked, memory
<1>2. t \in Busy /\ job[t] \in Job /\ WellFormed(job[t])
  BY <1>1, AskedIsBusy
<1>3. PICK b \in Given : b = job[t].bike
  BY <1>2 DEF Job
<1>4. BikesInv /\ AloneInv
  BY DEF Data
<1>5. bikes' # bikes
  BY BikesStill, GrownIsNotLowered
<1>6. ~PlateTaken(b) /\ IF b.id = 0 THEN Inserted(b) ELSE Updated(b)
  BY <1>1, <1>3, <1>5
<1>7. b.id # 0
  <2> SUFFICES ASSUME b.id = 0 PROVE FALSE
    OBVIOUS
  <2>1. job[t].op \in {"add", "copy"}
    BY <1>1, <1>2, <1>3 DEF WellFormed
  <2>2. made < MaxBikes
    BY <1>1, <1>2, <2>1, RoomForOne DEF InsertsBike
  <2>3. Inserted(b)
    BY <1>6
  <2>4. \A k \in BikeId : bikes[k] # None => bikes'[k] = bikes[k]
    BY <1>1, <1>4, <1>6, <2>2, <2>3, BikeInserted
  <2>5. bikes[i].km \in Nat
    BY GarageAssumption DEF Lowered, Tables, Bike, Km
  <2> QED
    BY <2>4, <2>5 DEF Lowered
<1>8. b.id \in BikeId /\ Updated(b)
  BY <1>6, <1>7, GarageAssumption DEF Given, BikeId
<1>9. /\ \A k \in BikeId \ {b.id} : bikes'[k] = bikes[k]
      /\ bikes[b.id] # None => bikes'[b.id].plate = b.plate /\ bikes'[b.id].km = b.km
  BY <1>1, <1>4, <1>6, <1>8, BikeUpdated
<1>10. bikes[i].km \in Nat /\ b.km \in Nat
  BY GarageAssumption DEF Lowered, Tables, Bike, Km, Given
<1>11. i = b.id
  BY <1>9, <1>10 DEF Lowered
<1>12. b.km < bikes[b.id].km
  BY <1>9, <1>11 DEF Lowered
<1>13. job[t].op # "add"
  BY <1>2, <1>3, <1>7 DEF WellFormed
<1>14. job[t].op = "copy" => t \notin alone
  <2> SUFFICES ASSUME job[t].op = "copy", t \in alone PROVE FALSE
    OBVIOUS
  <2>1. bikes[b.id].km <= b.km
    BY <1>1, <1>3, <1>4, <1>7 DEF AloneInv
  <2> QED
    BY <1>10, <1>11, <1>12, <2>1
<1> QED
  BY <1>1, <1>13, <1>14 DEF Asked

\* An odometer kept on the phone goes down by the rider's own edit, and
\* otherwise only by a copy that shared the garage with another task: never by a
\* note, never by a copy that had it alone.
THEOREM OdometerOnlyRises == Spec => OdometerRises
<1> DEFINE A == \A i \in BikeId :
          bikes[i] # None /\ bikes'[i] # None /\ bikes'[i].km < bikes[i].km
          => LET t == Head(queue) IN
             job[t].op = "edit" \/ (job[t].op = "copy" /\ t \notin alone)
<1>1. GarageInv /\ GarageInv' /\ [Next]_vars => [A]_vars
  <2> SUFFICES ASSUME Tables, Control, Data, Tables', Next, NEW i \in BikeId, Lowered(i)
               PROVE  LET t == Head(queue) IN
                      job[t].op = "edit" \/ (job[t].op = "copy" /\ t \notin alone)
    <3>1. GarageInv' => Tables'
      BY InvParts, PTL
    <3> QED
      BY <3>1, InvParts DEF Lowered
  <2>1. bikes' # bikes
    BY BikesStill, GrownIsNotLowered
  <2>2. PICK t : SaveBike(t) \/ DeleteBike(t) \/ WriteNote(t)
    <3>1. \A t, j : Start(t, j) => bikes' = bikes
      BY DEF Start, disk
    <3>2. \A t : \/ EnsureLoaded(t) \/ AddBike(t) \/ EditBike(t) \/ RemoveBike(t)
                 \/ OpenNotes(t) \/ EditNote(t) \/ RemoveNote(t)
                => bikes' = bikes
      BY <3>1 DEF EnsureLoaded, AddBike, EditBike, RemoveBike, OpenNotes, EditNote, RemoveNote
    <3>3. \A t : OpenAccountBike(t) => bikes' = bikes
      BY <3>1 DEF OpenAccountBike
    <3>4. \A t : DeleteNote(t) \/ ListBikes(t) \/ CopyLoads(t) \/ CopyFound(t) \/ ReadNotes(t)
                => bikes' = bikes
      BY DEF DeleteNote, ListBikes, CopyLoads, CopyFound, Loaded, ReadNotes, disk
    <3>5. (\E t : CallFails(t)) \/ Leave \/ Restart => bikes' = bikes
      BY DEF CallFails, Leave, Restart, disk
    <3> QED
      BY <2>1, <3>2, <3>3, <3>4, <3>5, Zenon DEF Next, Answered
  <2>3. CASE SaveBike(t)
    BY <2>3, SaveBikeLowers
  <2>4. CASE DeleteBike(t)
    <3>1. bikes' = [bikes EXCEPT ![job[t].bike.id] = None]
      BY <2>4 DEF DeleteBike
    <3>2. bikes'[i] = bikes[i] /\ bikes[i].km \in Nat
      BY <3>1, GarageAssumption DEF Lowered, Tables, Bike, Km
    <3> QED
      BY <3>2 DEF Lowered
  <2>5. CASE WriteNote(t)
    <3>1. /\ Asked(t) /\ job[t].op = "note" /\ job[t].at = "write"
          /\ bikes' = Raised(job[t].bike.id, job[t].bike.km)
          /\ UNCHANGED <<made, list, screen>>
      BY <2>1, <2>5 DEF WriteNote, At, Asked, disk, memory
    <3>2. job[t].bike.id \in BikeId /\ job[t].bike.km \in Km
      <4>1. job[t] \in Job /\ WellFormed(job[t])
        BY <3>1, AskedIsBusy
      <4> QED
        BY <3>1, <4>1, GarageAssumption DEF WellFormed, Job, Given, BikeId
    <3>3. BikesGrow
      BY <3>1, <3>2, BikeRaised DEF Data
    <3> QED
      BY <3>3, GrownIsNotLowered
  <2> QED
    BY <2>2, <2>3, <2>4, <2>5
<1> QED
  BY <1>1, GarageInvariance, PTL DEF Spec, OdometerRises
=============================================================================
