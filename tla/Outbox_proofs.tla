--------------------------- MODULE Outbox_proofs ---------------------------
(***************************************************************************)
(* Proofs about Outbox: whatever the network, the mechanic and the phone's *)
(* system do, no queued record and no untried file is lost.                *)
(***************************************************************************)
EXTENDS Outbox, FiniteSetTheorems, WellFoundedInduction, TLAPS

USE DEF Draft, Task, Label

\* TypeOK, without the flags: what each part is proved with differs.
Data ==
    /\ queue \subseteq Draft /\ discarded \subseteq Draft /\ cached \subseteq Draft
    /\ files \in [Draft -> SUBSET File] /\ added \in 0..MaxDrafts
    /\ flushes \in 0..MaxFlushes
    /\ at \in [Task -> Label]
    /\ todo \in [Flusher -> SUBSET Draft]
    /\ unsent \in [Flusher -> SUBSET File]
    /\ view \in [Task -> SUBSET Draft]
    /\ posted \in [Draft -> Nat] /\ late \in [Draft -> Nat]
    /\ tried \in [Draft -> SUBSET File]

Flags ==
    /\ loaded \in BOOLEAN /\ signedIn \in BOOLEAN /\ calm \in BOOLEAN
    /\ token \in [Flusher -> BOOLEAN]

LEMMA TypeParts ==
    OutboxInv <=> /\ Data /\ Flags /\ OnlyQueuedOnes /\ FlushKeepsUp
                  /\ NothingLost /\ FilesTriedBeforeDeletion
BY Zenon DEF OutboxInv, TypeOK, Data, Flags

----------------------------------------------------------------------------
(* The draft a flush is at.                                                *)

\* Some draft of a set of drafts is the oldest.
LEMMA OldestIsThere ==
    ASSUME NEW drafts \in SUBSET Nat, drafts # {}
    PROVE  Oldest(drafts) \in drafts
<1>1. PICK d \in drafts : \A e \in drafts : <<e, d>> \notin OpToRel(<, Nat)
    BY WFMin, NatLessThanWellFounded, Zenon
<1>2. \A e \in drafts : ~(e < d)
    BY <1>1, Zenon DEF OpToRel
<1>3. \A e \in drafts : d <= e
    BY <1>2, SMT
<1> QED
    BY <1>3, Zenon DEF Oldest

\* A flush that has a draft left is at one that was queued.
LEMMA ThisWasQueued ==
    ASSUME OutboxInv, NEW f \in Flusher, todo[f] # {}
    PROVE  This(f) \in todo[f] /\ This(f) \in 1..added /\ This(f) \in Draft
<1>1. todo[f] \subseteq 1..added /\ added \in 0..MaxDrafts
    BY Zenon DEF OutboxInv, OnlyQueuedOnes, TypeOK
<1>2. todo[f] \subseteq Nat
    BY <1>1, OutboxAssumption, SMT
<1>3. This(f) \in todo[f]
    BY <1>2, OldestIsThere, Zenon DEF This
<1> QED
    BY <1>1, <1>3, OutboxAssumption, SMT

\* Records are only added and files only tried.
OnlyMore ==
    /\ posted' \in [Draft -> Nat]
    /\ \A d \in 1..added : /\ posted'[d] >= posted[d] /\ files'[d] = files[d]
                            /\ tried[d] \subseteq tried'[d]

\* A flush that is left alone, and one that has gone to another draft.
Untouched(f) == todo'[f] = todo[f] /\ at'[f] = at[f] /\ unsent'[f] = unsent[f]

WentOn(f) == at'[f] # "upload" /\ (at'[f] \in {"await", "reload", "reshow"} => todo'[f] # {})

LEMMA StillKeepsUp ==
    ASSUME OutboxInv, OnlyMore, NEW f \in Flusher, Untouched(f) \/ WentOn(f)
    PROVE  KeepsUp(f)'
<1>1. CASE WentOn(f)
    BY <1>1, SMT DEF WentOn, KeepsUp
<1>2. CASE Untouched(f) /\ todo[f] = {}
    BY <1>2, TypeParts, SMT DEF Untouched, FlushKeepsUp, KeepsUp
<1>3. CASE Untouched(f) /\ todo[f] # {}
    <2>1. This(f)' = This(f)
        BY <1>3, Zenon DEF This, Untouched
    <2>2. This(f) \in 1..added /\ This(f) \in Draft
        BY <1>3, ThisWasQueued, Zenon
    <2>3. KeepsUp(f) /\ Data
        BY TypeParts, Zenon DEF FlushKeepsUp
    <2> QED
        BY <1>3, <2>1, <2>2, <2>3, SMT DEF Untouched, OnlyMore, KeepsUp, Data
<1> QED
    BY <1>1, <1>2, <1>3, Zenon

\* What the loop of a flush leaves behind when it comes to a draft or to its end.
Walks ==
    /\ todo' \in [Flusher -> SUBSET Draft] /\ at' \in [Task -> Label]
    /\ \A g \in Flusher : todo'[g] \subseteq 1..added
    /\ \A g \in Flusher : (todo'[g] = todo[g] /\ at'[g] = at[g]) \/ WentOn(g)

LEMMA ProceedWalks ==
    ASSUME OutboxInv, NEW f \in Flusher, NEW drafts \in SUBSET (1..added), Proceed(f, drafts)
    PROVE  Walks
<1>1. Data /\ OnlyQueuedOnes
    BY TypeParts, Zenon
<1>2. drafts \in SUBSET Draft
    BY <1>1, OutboxAssumption, SMT DEF Data
<1>3. /\ todo' = [todo EXCEPT ![f] = drafts]
      /\ at' = [at EXCEPT ![f] = IF drafts = {} THEN "idle" ELSE "await"]
    BY Zenon DEF Proceed, Goto
<1>4. todo' \in [Flusher -> SUBSET Draft] /\ at' \in [Task -> Label]
    BY <1>1, <1>2, <1>3, SMT DEF Data
<1>5. ASSUME NEW g \in Flusher
      PROVE  /\ todo'[g] \subseteq 1..added
             /\ (todo'[g] = todo[g] /\ at'[g] = at[g]) \/ WentOn(g)
    <2>1. CASE g # f
        <3>1. todo'[g] = todo[g] /\ at'[g] = at[g]
            BY <1>1, <1>3, <2>1, SMT DEF Data
        <3> QED
            BY <1>1, <3>1, Zenon DEF OnlyQueuedOnes
    <2>2. CASE g = f
        <3>1. todo'[g] = drafts /\ at'[g] = IF drafts = {} THEN "idle" ELSE "await"
            BY <1>1, <1>3, <2>2, SMT DEF Data
        <3> QED
            BY <3>1, SMT DEF WentOn
    <2> QED
        BY <2>1, <2>2, Zenon
<1> QED
    BY <1>4, <1>5, Zenon DEF Walks

LEMMA ThisDoneWalks ==
    ASSUME OutboxInv, NEW f \in Flusher, ThisDone(f)
    PROVE  Walks
<1>1. todo[f] \ {This(f)} \in SUBSET (1..added)
    BY TypeParts, SMT DEF OnlyQueuedOnes
<1> QED
    BY <1>1, ProceedWalks, Zenon DEF ThisDone

----------------------------------------------------------------------------
(* Every action keeps the invariant.                                       *)

LEMMA InitEstablishes == Init => OutboxInv
<1> SUFFICES ASSUME Init PROVE OutboxInv
    OBVIOUS
<1>1. Data
    BY OutboxAssumption, SMT DEF Init, Data
<1>2. Flags
    BY Zenon DEF Init, Flags
<1>3. OnlyQueuedOnes /\ FlushKeepsUp /\ NothingLost /\ FilesTriedBeforeDeletion
    BY OutboxAssumption, SMT DEF Init, OnlyQueuedOnes, FlushKeepsUp, KeepsUp, NothingLost, FilesTriedBeforeDeletion
<1> QED
    BY <1>1, <1>2, <1>3, TypeParts

LEMMA ReadRowsPreserves ==
    ASSUME OutboxInv, NEW p \in Task, ReadRows(p)
    PROVE  OutboxInv'
<1>1. Data'
    BY TypeParts, OutboxAssumption, SMT DEF ReadRows, Goto, device, server, Data
<1>2. Flags'
    BY TypeParts, Zenon DEF ReadRows, Goto, device, server, Flags
<1>3. OnlyQueuedOnes'
    BY TypeParts, OutboxAssumption, SMT DEF ReadRows, Goto, device, server, OnlyQueuedOnes, Data
<1>4. FlushKeepsUp'
    <2>1. OnlyMore
        BY TypeParts, OutboxAssumption, SMT DEF ReadRows, Goto, device, server, OnlyMore, Data
    <2>2. ASSUME NEW g \in Flusher \ {p} PROVE Untouched(g)
        BY TypeParts, OutboxAssumption, SMT DEF ReadRows, Goto, device, server, Untouched, Data
    <2>3. ASSUME p \in Flusher PROVE KeepsUp(p)'
        BY TypeParts, <2>3, SMT DEF ReadRows, Goto, device, server, FlushKeepsUp, KeepsUp, Data
    <2> QED
        BY <2>1, <2>2, <2>3, StillKeepsUp, Zenon DEF FlushKeepsUp
<1>5. NothingLost' /\ FilesTriedBeforeDeletion'
    BY TypeParts, OutboxAssumption, SMT DEF ReadRows, Goto, device, server, NothingLost, FilesTriedBeforeDeletion, Data
<1> QED
    BY <1>1, <1>2, <1>3, <1>4, <1>5, Zenon DEF OutboxInv, TypeOK, Data, Flags

\* What a load shows is what a flush goes through, or it ends a removal.
LEMMA ShowPreserves ==
    ASSUME OutboxInv, NEW p \in Task, Show(p)
    PROVE  OutboxInv'
<1>a. Walks
    <2>1. CASE p = User
        BY <2>1, TypeParts, OutboxAssumption, SMT DEF Show, Goto, Walks, OnlyQueuedOnes, Data
    <2>2. CASE p # User
        <3>1. p \in Flusher /\ view[p] \in SUBSET (1..added)
            BY <2>2, TypeParts, SMT DEF OnlyQueuedOnes
        <3>2. Proceed(p, view[p]) \/ ThisDone(p)
            BY <2>2, Zenon DEF Show
        <3> QED
            BY <3>1, <3>2, ProceedWalks, ThisDoneWalks, Zenon
    <2> QED
        BY <2>1, <2>2, Zenon
<1>1. Data'
    <2>1. Data
        BY TypeParts, Zenon
    <2>2. at' \in [Task -> Label] /\ todo' \in [Flusher -> SUBSET Draft]
        BY <1>a, Zenon DEF Walks
    <2>3. cached' \subseteq Draft
        BY <2>1, SMT DEF Show, Data
    <2>4. view' \in [Task -> SUBSET Draft]
        BY <2>1, SMT DEF Show, Data
    <2>5. UNCHANGED <<queue, discarded, files, added, flushes, unsent, posted, tried, late>>
        BY Zenon DEF Show, device, server
    <2> QED
        BY <2>1, <2>2, <2>3, <2>4, <2>5, Zenon DEF Data
<1>2. Flags'
    BY TypeParts, Zenon DEF Show, ThisDone, Proceed, device, server, Flags
<1>3. OnlyQueuedOnes'
    BY <1>a, TypeParts, OutboxAssumption, SMT DEF Show, device, server, Walks, OnlyQueuedOnes, Data
<1>4. FlushKeepsUp'
    <2>1. OnlyMore
        BY <1>a, TypeParts, OutboxAssumption, SMT DEF Show, device, server, OnlyMore, Data
    <2>2. ASSUME NEW g \in Flusher PROVE Untouched(g) \/ WentOn(g)
        BY <1>a, TypeParts, OutboxAssumption, SMT DEF Show, device, server, Untouched, WentOn, Walks, Data
    <2> QED
        BY <2>1, <2>2, StillKeepsUp, Zenon DEF FlushKeepsUp
<1>5. NothingLost' /\ FilesTriedBeforeDeletion'
    BY <1>a, TypeParts, OutboxAssumption, SMT DEF Show, device, server, NothingLost, FilesTriedBeforeDeletion, Data
<1> QED
    BY <1>1, <1>2, <1>3, <1>4, <1>5, Zenon DEF OutboxInv, TypeOK, Data, Flags

LEMMA OpenScreenPreserves ==
    ASSUME OutboxInv, OpenScreen
    PROVE  OutboxInv'
<1>1. Data'
    <2>1. Data
        BY TypeParts, Zenon
    <2>2. at' \in [Task -> Label]
        BY <2>1, SMT DEF OpenScreen, Goto, Data
    <2>3. UNCHANGED <<queue, discarded, files, added, cached, flushes, todo, unsent, view, posted, tried, late>>
        BY Zenon DEF OpenScreen, device, server
    <2> QED
        BY <2>1, <2>2, <2>3, Zenon DEF Data
<1>2. Flags'
    BY TypeParts, Zenon DEF OpenScreen, Intervene, Goto, device, server, Flags
<1>3. OnlyQueuedOnes'
    BY TypeParts, OutboxAssumption, SMT DEF OpenScreen, Intervene, Goto, device, server, OnlyQueuedOnes, Data
<1>4. FlushKeepsUp'
    <2>1. OnlyMore
        BY TypeParts, OutboxAssumption, SMT DEF OpenScreen, Intervene, Goto, device, server, OnlyMore, Data
    <2>2. ASSUME NEW g \in Flusher PROVE Untouched(g) \/ WentOn(g)
        BY TypeParts, OutboxAssumption, SMT DEF OpenScreen, Intervene, Goto, device, server, Untouched, WentOn, Data
    <2> QED
        BY <2>1, <2>2, StillKeepsUp, Zenon DEF FlushKeepsUp
<1>5. NothingLost' /\ FilesTriedBeforeDeletion'
    BY TypeParts, OutboxAssumption, SMT DEF OpenScreen, Intervene, Goto, device, server, NothingLost, FilesTriedBeforeDeletion, Data
<1> QED
    BY <1>1, <1>2, <1>3, <1>4, <1>5, Zenon DEF OutboxInv, TypeOK, Data, Flags

LEMMA AddPreserves ==
    ASSUME OutboxInv, Add
    PROVE  OutboxInv'
<1>a. /\ added' = added + 1 /\ added \in Nat /\ added + 1 \in Draft
      /\ queue' = queue \cup {added + 1}
      /\ files' \in [Draft -> SUBSET File]
      /\ \A d \in 1..added : files'[d] = files[d]
    BY TypeParts, OutboxAssumption, SMT DEF Add, InsertedId, Data
<1>1. Data'
    <2>1. Data
        BY TypeParts, Zenon
    <2>2. queue' \subseteq Draft /\ added' \in 0..MaxDrafts /\ files' \in [Draft -> SUBSET File]
        BY <1>a, <2>1, OutboxAssumption, SMT DEF Data, Draft
    <2>3. at' \in [Task -> Label]
        BY <2>1, SMT DEF Add, Goto, Data
    <2>4. UNCHANGED <<discarded, cached, flushes, todo, unsent, view, posted, tried, late>>
        BY Zenon DEF Add, server
    <2> QED
        BY <2>1, <2>2, <2>3, <2>4, Zenon DEF Data
<1>2. Flags'
    BY TypeParts, Zenon DEF Add, InsertedId, Intervene, Goto, server, Flags
<1>3. OnlyQueuedOnes'
    BY <1>a, TypeParts, OutboxAssumption, SMT DEF Add, InsertedId, Intervene, Goto, server, OnlyQueuedOnes, Data
<1>4. FlushKeepsUp'
    <2>1. OnlyMore
        BY <1>a, TypeParts, OutboxAssumption, SMT DEF Add, InsertedId, Intervene, Goto, server, OnlyMore, Data
    <2>2. ASSUME NEW g \in Flusher PROVE Untouched(g) \/ WentOn(g)
        BY <1>a, TypeParts, OutboxAssumption, SMT DEF Add, InsertedId, Intervene, Goto, server, Untouched, WentOn, Data
    <2> QED
        BY <2>1, <2>2, StillKeepsUp, Zenon DEF FlushKeepsUp
<1>5. NothingLost' /\ FilesTriedBeforeDeletion'
    <2>1. UNCHANGED <<posted, tried, discarded>>
        BY Zenon DEF Add, server
    <2> QED
        BY <1>a, <2>1, TypeParts, SMT DEF NothingLost, FilesTriedBeforeDeletion
<1> QED
    BY <1>1, <1>2, <1>3, <1>4, <1>5, Zenon DEF OutboxInv, TypeOK, Data, Flags

LEMMA DiscardPreserves ==
    ASSUME OutboxInv, Discard
    PROVE  OutboxInv'
<1>a. PICK d \in cached :
          /\ queue' = queue \ {d}
          /\ discarded' = IF d \in queue THEN discarded \cup {d} ELSE discarded
    BY Zenon DEF Discard
<1>b. d \in Draft
    BY <1>a, TypeParts, Zenon DEF Data
<1>1. Data'
    <2>1. Data
        BY TypeParts, Zenon
    <2>2. queue' \subseteq Draft /\ discarded' \subseteq Draft
        BY <1>a, <1>b, <2>1, SMT DEF Data
    <2>3. at' \in [Task -> Label]
        BY <2>1, SMT DEF Discard, Goto, Data
    <2>4. UNCHANGED <<files, added, cached, flushes, todo, unsent, view, posted, tried, late>>
        BY Zenon DEF Discard, server
    <2> QED
        BY <2>1, <2>2, <2>3, <2>4, Zenon DEF Data
<1>2. Flags'
    BY TypeParts, Zenon DEF Discard, Intervene, Goto, server, Flags
<1>3. OnlyQueuedOnes'
    BY <1>a, <1>b, TypeParts, OutboxAssumption, SMT DEF Discard, Intervene, Goto, server, OnlyQueuedOnes, Data
<1>4. FlushKeepsUp'
    <2>1. OnlyMore
        BY <1>a, <1>b, TypeParts, OutboxAssumption, SMT DEF Discard, Intervene, Goto, server, OnlyMore, Data
    <2>2. ASSUME NEW g \in Flusher PROVE Untouched(g) \/ WentOn(g)
        BY <1>a, <1>b, TypeParts, OutboxAssumption, SMT DEF Discard, Intervene, Goto, server, Untouched, WentOn, Data
    <2> QED
        BY <2>1, <2>2, StillKeepsUp, Zenon DEF FlushKeepsUp
<1>5. NothingLost' /\ FilesTriedBeforeDeletion'
    <2>1. UNCHANGED <<added, files, posted, tried>>
        BY Zenon DEF Discard, server
    <2>2. \A e \in Draft : e \in queue => e \in queue' \/ e \in discarded'
        BY <1>a, SMT
    <2>3. \A e \in Draft : e \in discarded => e \in discarded'
        BY <1>a, SMT
    <2>4. 1..added \subseteq Draft
        BY TypeParts, OutboxAssumption, SMT DEF Data
    <2> QED
        BY <2>1, <2>2, <2>3, <2>4, TypeParts, Zenon DEF NothingLost, FilesTriedBeforeDeletion
<1> QED
    BY <1>1, <1>2, <1>3, <1>4, <1>5, Zenon DEF OutboxInv, TypeOK, Data, Flags

LEMMA FlushPreserves ==
    ASSUME OutboxInv, NEW f \in Flusher, signedIn' \in BOOLEAN, Flush(f)
    PROVE  OutboxInv'
<1>a. Walks
    <2>1. cached \in SUBSET (1..added)
        BY TypeParts, Zenon DEF OnlyQueuedOnes
    <2>2. Proceed(f, cached) \/ (Goto(f, "load") /\ UNCHANGED todo)
        BY Zenon DEF Flush
    <2>3. CASE Proceed(f, cached)
        BY <2>1, <2>3, ProceedWalks, Zenon
    <2>4. CASE Goto(f, "load") /\ UNCHANGED todo
        BY <2>4, TypeParts, SMT DEF Goto, Walks, WentOn, OnlyQueuedOnes, Data
    <2> QED
        BY <2>2, <2>3, <2>4, Zenon
<1>1. Data'
    <2>1. Data
        BY TypeParts, Zenon
    <2>2. flushes' \in 0..MaxFlushes
        BY <2>1, OutboxAssumption, SMT DEF Flush, Data
    <2>3. at' \in [Task -> Label] /\ todo' \in [Flusher -> SUBSET Draft]
        BY <1>a, Zenon DEF Walks
    <2>4. UNCHANGED <<queue, discarded, files, added, cached, unsent, view, posted, tried, late>>
        BY Zenon DEF Flush, device, server
    <2> QED
        BY <2>1, <2>2, <2>3, <2>4, Zenon DEF Data
<1>2. Flags'
    BY TypeParts, Zenon DEF Flush, Intervene, Proceed, device, server, Flags
<1>3. OnlyQueuedOnes'
    BY <1>a, TypeParts, OutboxAssumption, SMT DEF Flush, device, server, Walks, OnlyQueuedOnes, Data
<1>4. FlushKeepsUp'
    <2>1. OnlyMore
        BY <1>a, TypeParts, OutboxAssumption, SMT DEF Flush, device, server, OnlyMore, Data
    <2>2. ASSUME NEW g \in Flusher PROVE Untouched(g) \/ WentOn(g)
        BY <1>a, TypeParts, OutboxAssumption, SMT DEF Flush, device, server, Untouched, WentOn, Walks, Data
    <2> QED
        BY <2>1, <2>2, StillKeepsUp, Zenon DEF FlushKeepsUp
<1>5. NothingLost' /\ FilesTriedBeforeDeletion'
    BY <1>a, TypeParts, OutboxAssumption, SMT DEF Flush, device, server, NothingLost, FilesTriedBeforeDeletion, Data
<1> QED
    BY <1>1, <1>2, <1>3, <1>4, <1>5, Zenon DEF OutboxInv, TypeOK, Data, Flags

LEMMA SignOutPreserves ==
    ASSUME OutboxInv, SignOut
    PROVE  OutboxInv'
<1>1. Data'
    <2>1. Data
        BY TypeParts, Zenon
    <2>2. UNCHANGED <<queue, discarded, files, added, cached, flushes, at, todo, unsent, view, posted, tried, late>>
        BY Zenon DEF SignOut, device, server
    <2> QED
        BY <2>1, <2>2, Zenon DEF Data
<1>2. Flags'
    BY TypeParts, Zenon DEF SignOut, Intervene, device, server, Flags
<1>3. OnlyQueuedOnes'
    BY TypeParts, OutboxAssumption, SMT DEF SignOut, Intervene, device, server, OnlyQueuedOnes, Data
<1>4. FlushKeepsUp'
    <2>1. OnlyMore
        BY TypeParts, OutboxAssumption, SMT DEF SignOut, Intervene, device, server, OnlyMore, Data
    <2>2. ASSUME NEW g \in Flusher PROVE Untouched(g) \/ WentOn(g)
        BY TypeParts, OutboxAssumption, SMT DEF SignOut, Intervene, device, server, Untouched, WentOn, Data
    <2> QED
        BY <2>1, <2>2, StillKeepsUp, Zenon DEF FlushKeepsUp
<1>5. NothingLost' /\ FilesTriedBeforeDeletion'
    BY TypeParts, OutboxAssumption, SMT DEF SignOut, Intervene, device, server, NothingLost, FilesTriedBeforeDeletion, Data
<1> QED
    BY <1>1, <1>2, <1>3, <1>4, <1>5, Zenon DEF OutboxInv, TypeOK, Data, Flags

LEMMA AcceptPreserves ==
    ASSUME OutboxInv, NEW f \in Flusher, Accept(f)
    PROVE  OutboxInv'
<1>a. This(f) \in todo[f] /\ This(f) \in 1..added /\ This(f) \in Draft
    <2>1. todo[f] # {}
        BY TypeParts, SMT DEF Accept, Publish, Uploads, FlushKeepsUp, KeepsUp
    <2> QED
        BY <2>1, ThisWasQueued, Zenon
<1>b. This(f)' = This(f)
    BY Zenon DEF Accept, Publish, Uploads, This
<1>1. Data'
    <2>1. Data
        BY TypeParts, Zenon
    <2>2. at' \in [Task -> Label]
        BY <2>1, SMT DEF Accept, Publish, Uploads, Goto, Data
    <2>3. posted' \in [Draft -> Nat]
        BY <1>a, <2>1, SMT DEF Accept, Publish, Uploads, Data
    <2>4. unsent' \in [Flusher -> SUBSET File]
        BY <1>a, <2>1, SMT DEF Accept, Publish, Uploads, Data
    <2>5. UNCHANGED <<queue, discarded, files, added, cached, flushes, todo, view, tried, late>>
        BY Zenon DEF Accept, Publish, Uploads, device
    <2> QED
        BY <2>1, <2>2, <2>3, <2>4, <2>5, Zenon DEF Data
<1>2. Flags'
    BY TypeParts, Zenon DEF Accept, Publish, Uploads, Goto, device, Flags
<1>3. OnlyQueuedOnes'
    BY <1>a, TypeParts, OutboxAssumption, SMT DEF Accept, Publish, Uploads, Goto, device, OnlyQueuedOnes, Data
<1>4. FlushKeepsUp'
    <2>1. OnlyMore
        <3>1. posted' \in [Draft -> Nat] /\ \A d \in Draft : posted'[d] >= posted[d]
            BY <1>a, TypeParts, SMT DEF Accept, Publish, Uploads, Data
        <3>2. UNCHANGED <<added, files, tried>>
            BY Zenon DEF Accept, Publish, Uploads, device
        <3>3. 1..added \subseteq Draft
            BY TypeParts, OutboxAssumption, SMT DEF Data
        <3> QED
            BY <3>1, <3>2, <3>3, Zenon DEF OnlyMore
    <2>2. ASSUME NEW g \in Flusher \ {f} PROVE Untouched(g)
        BY <1>a, TypeParts, OutboxAssumption, SMT DEF Accept, Publish, Uploads, Goto, device, Untouched, Data
    <2>3. KeepsUp(f)'
        BY <1>a, <1>b, TypeParts, SMT DEF Accept, Publish, Uploads, Goto, device, FlushKeepsUp, KeepsUp, Data
    <2> QED
        BY <2>1, <2>2, <2>3, StillKeepsUp, Zenon DEF FlushKeepsUp
<1>5. NothingLost' /\ FilesTriedBeforeDeletion'
    <2>1. UNCHANGED <<queue, discarded, added, files, tried>>
        BY Zenon DEF Accept, Publish, Uploads, device
    <2>2. \A e \in Draft : posted[e] > 0 => posted'[e] > 0
        BY <1>a, TypeParts, SMT DEF Accept, Publish, Uploads, Data
    <2>3. 1..added \subseteq Draft
        BY TypeParts, OutboxAssumption, SMT DEF Data
    <2> QED
        BY <2>1, <2>2, <2>3, TypeParts, Zenon DEF NothingLost, FilesTriedBeforeDeletion
<1> QED
    BY <1>1, <1>2, <1>3, <1>4, <1>5, Zenon DEF OutboxInv, TypeOK, Data, Flags

LEMMA RefusePreserves ==
    ASSUME OutboxInv, NEW f \in Flusher, Refuse(f)
    PROVE  OutboxInv'
<1>a. Walks
    BY ThisDoneWalks, Zenon DEF Refuse
<1>1. Data'
    BY <1>a, TypeParts, OutboxAssumption, SMT DEF Refuse, FailedDraft, server, Walks, Data
<1>2. Flags'
    BY TypeParts, Zenon DEF Refuse, ThisDone, Proceed, server, Flags
<1>3. OnlyQueuedOnes'
    BY <1>a, TypeParts, OutboxAssumption, SMT DEF Refuse, FailedDraft, server, Walks, OnlyQueuedOnes, Data
<1>4. FlushKeepsUp'
    <2>1. OnlyMore
        BY <1>a, TypeParts, OutboxAssumption, SMT DEF Refuse, FailedDraft, server, OnlyMore, Data
    <2>2. ASSUME NEW g \in Flusher PROVE Untouched(g) \/ WentOn(g)
        BY <1>a, TypeParts, OutboxAssumption, SMT DEF Refuse, FailedDraft, server, Untouched, WentOn, Walks, Data
    <2> QED
        BY <2>1, <2>2, StillKeepsUp, Zenon DEF FlushKeepsUp
<1>5. NothingLost' /\ FilesTriedBeforeDeletion'
    BY <1>a, TypeParts, OutboxAssumption, SMT DEF Refuse, FailedDraft, server, NothingLost, FilesTriedBeforeDeletion, Data
<1> QED
    BY <1>1, <1>2, <1>3, <1>4, <1>5, Zenon DEF OutboxInv, TypeOK, Data, Flags

LEMMA GiveUpPreserves ==
    ASSUME OutboxInv, NEW f \in Flusher, GiveUp(f)
    PROVE  OutboxInv'
<1>a. Walks
    BY ThisDoneWalks, Zenon DEF GiveUp
<1>b. late' \in [Draft -> Nat]
    <2>1. late' = late \/ late' = [late EXCEPT ![This(f)] = @ + 1]
        BY Zenon DEF GiveUp
    <2> QED
        BY <2>1, TypeParts, SMT DEF Data
<1>1. Data'
    <2>1. Data
        BY TypeParts, Zenon
    <2>2. at' \in [Task -> Label] /\ todo' \in [Flusher -> SUBSET Draft]
        BY <1>a, Zenon DEF Walks
    <2>3. UNCHANGED <<queue, discarded, files, added, cached, flushes, unsent, view, posted, tried>>
        BY Zenon DEF GiveUp, FailedDraft
    <2> QED
        BY <1>b, <2>1, <2>2, <2>3, Zenon DEF Data
<1>2. Flags'
    BY TypeParts, Zenon DEF GiveUp, ThisDone, Proceed, Flags
<1>3. OnlyQueuedOnes'
    BY <1>a, <1>b, TypeParts, OutboxAssumption, SMT DEF GiveUp, FailedDraft, Walks, OnlyQueuedOnes, Data
<1>4. FlushKeepsUp'
    <2>1. OnlyMore
        <3>1. UNCHANGED <<added, files, posted, tried>>
            BY Zenon DEF GiveUp, FailedDraft
        <3>2. 1..added \subseteq Draft
            BY TypeParts, OutboxAssumption, SMT DEF Data
        <3> QED
            BY <3>1, <3>2, TypeParts, SMT DEF OnlyMore, Data
    <2>2. ASSUME NEW g \in Flusher PROVE Untouched(g) \/ WentOn(g)
        BY <1>a, <1>b, TypeParts, OutboxAssumption, SMT DEF GiveUp, FailedDraft, Untouched, WentOn, Walks, Data
    <2> QED
        BY <2>1, <2>2, StillKeepsUp, Zenon DEF FlushKeepsUp
<1>5. NothingLost' /\ FilesTriedBeforeDeletion'
    BY <1>a, <1>b, TypeParts, OutboxAssumption, SMT DEF GiveUp, FailedDraft, NothingLost, FilesTriedBeforeDeletion, Data
<1> QED
    BY <1>1, <1>2, <1>3, <1>4, <1>5, Zenon DEF OutboxInv, TypeOK, Data, Flags

LEMMA ServeLatePreserves ==
    ASSUME OutboxInv, NEW d \in Draft, ServeLate(d)
    PROVE  OutboxInv'
<1>a. /\ UNCHANGED <<queue, files, added, discarded, cached, flushes, at, todo, unsent, view, tried>>
      /\ late' \in [Draft -> Nat]
    <2>1. UNCHANGED <<queue, files, added, discarded, cached, flushes, at, todo, unsent, view, tried>>
        BY Zenon DEF ServeLate, device, app
    <2>2. late' \in [Draft -> Nat]
        BY TypeParts, SMT DEF ServeLate, Data
    <2> QED
        BY <2>1, <2>2, Zenon
<1>b. posted' \in [Draft -> Nat] /\ \A e \in Draft : posted'[e] >= posted[e]
    <2>1. posted' = posted \/ posted' = [posted EXCEPT ![d] = @ + 1]
        BY Zenon DEF ServeLate
    <2>2. posted \in [Draft -> Nat]
        BY TypeParts, Zenon DEF Data
    <2>3. CASE posted' = posted
        BY <2>2, <2>3, SMT
    <2>4. CASE posted' = [posted EXCEPT ![d] = @ + 1]
        BY <2>2, <2>4, SMT
    <2> QED
        BY <2>1, <2>3, <2>4, Zenon
<1>1. Data'
    BY <1>a, <1>b, TypeParts, Zenon DEF Data
<1>2. Flags'
    BY TypeParts, Zenon DEF ServeLate, device, app, Flags
<1>3. OnlyQueuedOnes'
    BY <1>a, TypeParts, Zenon DEF OnlyQueuedOnes
<1>4. FlushKeepsUp'
    <2>1. OnlyMore
        BY <1>a, <1>b, TypeParts, OutboxAssumption, SMT DEF OnlyMore, Data
    <2>2. ASSUME NEW g \in Flusher PROVE Untouched(g) \/ WentOn(g)
        BY <1>a, Zenon DEF Untouched
    <2> QED
        BY <2>1, <2>2, StillKeepsUp, Zenon DEF FlushKeepsUp
<1>5. NothingLost' /\ FilesTriedBeforeDeletion'
    <2>1. \A e \in Draft : posted[e] > 0 => posted'[e] > 0
        BY <1>b, TypeParts, SMT DEF Data
    <2>2. 1..added \subseteq Draft
        BY TypeParts, OutboxAssumption, SMT DEF Data
    <2> QED
        BY <1>a, <2>1, <2>2, TypeParts, Zenon DEF NothingLost, FilesTriedBeforeDeletion
<1> QED
    BY <1>1, <1>2, <1>3, <1>4, <1>5, Zenon DEF OutboxInv, TypeOK, Data, Flags

LEMMA UploadFilePreserves ==
    ASSUME OutboxInv, NEW f \in Flusher, UploadFile(f)
    PROVE  OutboxInv'
<1>a. This(f) \in todo[f] /\ This(f) \in 1..added /\ This(f) \in Draft
    <2>1. todo[f] # {}
        BY TypeParts, SMT DEF UploadFile, Uploads, FlushKeepsUp, KeepsUp
    <2> QED
        BY <2>1, ThisWasQueued, Zenon
<1>b. This(f)' = This(f)
    BY Zenon DEF UploadFile, Uploads, This
<1>c. PICK file \in unsent[f] :
          /\ unsent' = [unsent EXCEPT ![f] = @ \ {file}]
          /\ tried' = [tried EXCEPT ![This(f)] = @ \cup {file}]
    BY Zenon DEF UploadFile, Uploads
<1>1. Data'
    <2>1. Data
        BY TypeParts, Zenon
    <2>2. unsent' \in [Flusher -> SUBSET File]
        BY <1>c, <2>1, SMT DEF Data
    <2>3. tried' \in [Draft -> SUBSET File]
        BY <1>a, <1>c, <2>1, SMT DEF Data
    <2>4. UNCHANGED <<queue, discarded, files, added, cached, flushes, at, todo, view, posted, late>>
        BY Zenon DEF UploadFile, Uploads, device
    <2> QED
        BY <2>1, <2>2, <2>3, <2>4, Zenon DEF Data
<1>2. Flags'
    BY TypeParts, Zenon DEF UploadFile, Uploads, device, Flags
<1>3. OnlyQueuedOnes'
    BY <1>a, <1>c, TypeParts, OutboxAssumption, SMT DEF UploadFile, Uploads, device, OnlyQueuedOnes, Data
<1>4. FlushKeepsUp'
    <2>1. OnlyMore
        <3>1. tried' \in [Draft -> SUBSET File] /\ \A d \in Draft : tried[d] \subseteq tried'[d]
            BY <1>a, <1>c, TypeParts, SMT DEF Data
        <3>2. UNCHANGED <<added, files, posted>>
            BY Zenon DEF UploadFile, Uploads, device
        <3>3. 1..added \subseteq Draft
            BY TypeParts, OutboxAssumption, SMT DEF Data
        <3> QED
            BY <3>1, <3>2, <3>3, TypeParts, SMT DEF OnlyMore, Data
    <2>2. ASSUME NEW g \in Flusher \ {f} PROVE Untouched(g)
        BY <1>a, <1>c, TypeParts, OutboxAssumption, SMT DEF UploadFile, Uploads, device, Untouched, Data
    <2>3. KeepsUp(f)'
        BY <1>a, <1>c, <1>b, TypeParts, SMT DEF UploadFile, Uploads, device, FlushKeepsUp, KeepsUp, Data
    <2> QED
        BY <2>1, <2>2, <2>3, StillKeepsUp, Zenon DEF FlushKeepsUp
<1>5. NothingLost' /\ FilesTriedBeforeDeletion'
    BY <1>a, <1>c, TypeParts, OutboxAssumption, SMT DEF UploadFile, Uploads, device, NothingLost, FilesTriedBeforeDeletion, Data
<1> QED
    BY <1>1, <1>2, <1>3, <1>4, <1>5, Zenon DEF OutboxInv, TypeOK, Data, Flags

LEMMA RemovePreserves ==
    ASSUME OutboxInv, NEW f \in Flusher, Remove(f)
    PROVE  OutboxInv'
<1>a. This(f) \in todo[f] /\ This(f) \in 1..added /\ This(f) \in Draft
    <2>1. todo[f] # {}
        BY TypeParts, SMT DEF Remove, UploadsAwaited, FlushKeepsUp, KeepsUp
    <2> QED
        BY <2>1, ThisWasQueued, Zenon
<1>b. This(f)' = This(f)
    BY Zenon DEF Remove, This
<1>c. posted[This(f)] > 0 /\ files[This(f)] \subseteq tried[This(f)]
    BY TypeParts, SMT DEF Remove, UploadsAwaited, FlushKeepsUp, KeepsUp
<1>1. Data'
    <2>1. Data
        BY TypeParts, Zenon
    <2>2. queue' \subseteq Draft
        BY <2>1, Zenon DEF Remove, PublishedDraftGone, Data
    <2>3. at' \in [Task -> Label]
        BY <2>1, SMT DEF Remove, Goto, Data
    <2>4. UNCHANGED <<discarded, files, added, cached, flushes, todo, unsent, view, posted, tried, late>>
        BY Zenon DEF Remove, server
    <2> QED
        BY <2>1, <2>2, <2>3, <2>4, Zenon DEF Data
<1>2. Flags'
    BY TypeParts, Zenon DEF Remove, UploadsAwaited, PublishedDraftGone, Goto, server, Flags
<1>3. OnlyQueuedOnes'
    BY <1>a, <1>c, TypeParts, OutboxAssumption, SMT DEF Remove, UploadsAwaited, PublishedDraftGone, Goto, server, OnlyQueuedOnes, Data
<1>4. FlushKeepsUp'
    <2>1. OnlyMore
        BY <1>a, <1>c, TypeParts, OutboxAssumption, SMT DEF Remove, UploadsAwaited, PublishedDraftGone, Goto, server, OnlyMore, Data
    <2>2. ASSUME NEW g \in Flusher \ {f} PROVE Untouched(g)
        BY <1>a, <1>c, TypeParts, OutboxAssumption, SMT DEF Remove, UploadsAwaited, PublishedDraftGone, Goto, server, Untouched, Data
    <2>3. KeepsUp(f)'
        BY <1>a, <1>c, <1>b, TypeParts, SMT DEF Remove, UploadsAwaited, PublishedDraftGone, Goto, server, FlushKeepsUp, KeepsUp, Data
    <2> QED
        BY <2>1, <2>2, <2>3, StillKeepsUp, Zenon DEF FlushKeepsUp
<1>5. NothingLost' /\ FilesTriedBeforeDeletion'
    <2>1. UNCHANGED <<added, discarded, files, posted, tried>>
        BY Zenon DEF Remove, server
    <2>2. queue' = queue \ {This(f)}
        BY Zenon DEF Remove, PublishedDraftGone
    <2> QED
        BY <1>c, <2>1, <2>2, TypeParts, Zenon DEF NothingLost, FilesTriedBeforeDeletion
<1> QED
    BY <1>1, <1>2, <1>3, <1>4, <1>5, Zenon DEF OutboxInv, TypeOK, Data, Flags

\* A served record whose answer is an error is one more record of its draft.
LEMMA RefuseServedPreserves ==
    ASSUME OutboxInv, NEW f \in Flusher, RefuseServed(f)
    PROVE  OutboxInv'
<1>a. Walks
    BY ThisDoneWalks, Zenon DEF RefuseServed
<1>b. /\ UNCHANGED <<queue, discarded, files, added, cached, flushes, unsent, view, tried, late>>
      /\ posted' = [posted EXCEPT ![This(f)] = @ + 1]
    BY Zenon DEF RefuseServed, FailedDraft, Publish
<1>c. posted' \in [Draft -> Nat] /\ \A d \in Draft : posted'[d] >= posted[d]
    <2>1. posted \in [Draft -> Nat]
        BY TypeParts, Zenon DEF Data
    <2>2. todo[f] # {}
        BY TypeParts, SMT DEF RefuseServed, FlushKeepsUp, KeepsUp
    <2>3. This(f) \in Draft
        BY <2>2, ThisWasQueued, Zenon
    <2> QED
        BY <1>b, <2>1, <2>3, SMT
<1>d. 1..added \subseteq Draft
    BY TypeParts, OutboxAssumption, SMT DEF Data
<1>1. Data'
    BY <1>a, <1>b, <1>c, TypeParts, Zenon DEF Walks, Data
<1>2. Flags'
    BY TypeParts, Zenon DEF RefuseServed, ThisDone, Proceed, Flags
<1>3. OnlyQueuedOnes'
    BY <1>a, <1>b, TypeParts, OutboxAssumption, SMT DEF Walks, OnlyQueuedOnes, Data
<1>4. FlushKeepsUp'
    <2>1. OnlyMore
        BY <1>b, <1>c, <1>d, TypeParts, Zenon DEF OnlyMore, Data
    <2>2. ASSUME NEW g \in Flusher PROVE Untouched(g) \/ WentOn(g)
        BY <1>a, <1>b, Zenon DEF Untouched, Walks
    <2> QED
        BY <2>1, <2>2, StillKeepsUp, Zenon DEF FlushKeepsUp
<1>5. NothingLost' /\ FilesTriedBeforeDeletion'
    <2>1. \A e \in Draft : posted[e] > 0 => posted'[e] > 0
        BY <1>c, TypeParts, SMT DEF Data
    <2> QED
        BY <1>b, <1>d, <2>1, TypeParts, Zenon DEF NothingLost, FilesTriedBeforeDeletion
<1> QED
    BY <1>1, <1>2, <1>3, <1>4, <1>5, Zenon DEF OutboxInv, TypeOK, Data, Flags

\* A call SQLite fails changes nothing on disk; the flush goes on or ends.
LEMMA FailuresPreserve ==
    ASSUME OutboxInv, view' \in [Task -> SUBSET Draft], Walks,
           \A p \in Task : view'[p] \subseteq 1..added,
           UNCHANGED <<device, cached, loaded, signedIn, flushes, unsent, server>>,
           token' \in [Flusher -> BOOLEAN], calm' \in BOOLEAN
    PROVE  OutboxInv'
<1>1. Data'
    BY TypeParts, Zenon DEF device, server, Walks, Data
<1>2. Flags'
    BY TypeParts, Zenon DEF Flags
<1>3. OnlyQueuedOnes'
    BY TypeParts, Zenon DEF device, Walks, OnlyQueuedOnes
<1>4. FlushKeepsUp'
    <2>1. OnlyMore
        BY TypeParts, OutboxAssumption, SMT DEF device, server, OnlyMore, Data
    <2>2. ASSUME NEW g \in Flusher PROVE Untouched(g) \/ WentOn(g)
        BY Zenon DEF Untouched, Walks
    <2> QED
        BY <2>1, <2>2, StillKeepsUp, Zenon DEF FlushKeepsUp
<1>5. NothingLost' /\ FilesTriedBeforeDeletion'
    BY TypeParts, Zenon DEF device, server, NothingLost, FilesTriedBeforeDeletion
<1> QED
    BY <1>1, <1>2, <1>3, <1>4, <1>5, Zenon DEF OutboxInv, TypeOK, Data, Flags

LEMMA RemoveFailsPreserves ==
    ASSUME OutboxInv, NEW f \in Flusher, RemoveFails(f)
    PROVE  OutboxInv'
<1>1. ThisDone(f) /\ calm' = FALSE /\ view' = view
      /\ UNCHANGED <<device, cached, loaded, signedIn, flushes, unsent, server>>
    BY Zenon DEF RemoveFails
<1>2. Walks
    BY <1>1, ThisDoneWalks, Zenon
<1>3. token' \in [Flusher -> BOOLEAN]
    BY <1>1, TypeParts, Zenon DEF ThisDone, Proceed, Flags
<1>4. view \in [Task -> SUBSET Draft] /\ \A p \in Task : view[p] \subseteq 1..added
    BY TypeParts, Zenon DEF Data, OnlyQueuedOnes
<1> QED
    BY <1>1, <1>2, <1>3, <1>4, FailuresPreserve, Zenon

LEMMA ReadFailsPreserves ==
    ASSUME OutboxInv, NEW p \in Task, ReadFails(p)
    PROVE  OutboxInv'
<1>1. calm' = FALSE /\ view' = [view EXCEPT ![p] = {}]
      /\ UNCHANGED <<device, cached, loaded, signedIn, flushes, unsent, server>>
    BY Zenon DEF ReadFails
<1>2. Walks /\ token' \in [Flusher -> BOOLEAN]
    <2>1. CASE Goto(p, "idle") /\ UNCHANGED <<todo, token>>
        BY <2>1, TypeParts, SMT DEF Goto, Walks, WentOn, OnlyQueuedOnes, Data, Flags
    <2>2. CASE p \in Flusher /\ ThisDone(p)
        <3>1. token' \in [Flusher -> BOOLEAN]
            BY <1>1, <2>2, TypeParts, Zenon DEF ThisDone, Proceed, Flags
        <3> QED
            BY <2>2, <3>1, ThisDoneWalks, Zenon
    <2> QED
        BY <2>1, <2>2, Zenon DEF ReadFails
<1>3. /\ view' \in [Task -> SUBSET Draft]
      /\ \A q \in Task : view'[q] \subseteq 1..added
    BY <1>1, TypeParts, SMT DEF Data, OnlyQueuedOnes
<1> QED
    BY <1>1, <1>2, <1>3, FailuresPreserve, Zenon

LEMMA RestartPreserves ==
    ASSUME OutboxInv, Restart
    PROVE  OutboxInv'
<1>a. late' \in [Draft -> Nat]
    <2> DEFINE awaited(d) == {f \in Flusher : at[f] = "await" /\ This(f) = d /\ token[f]}
    <2>1. \A d \in Draft : Cardinality(awaited(d)) \in Nat
        <3> TAKE d \in Draft
        <3>1. awaited(d) \subseteq Flusher
            BY Zenon
        <3> QED
            BY <3>1, OutboxAssumption, FS_Subset, FS_CardinalityType, Zenon
    <2>2. late' = [d \in Draft |-> late[d] + Cardinality(awaited(d))]
        BY Zenon DEF Restart
    <2> HIDE DEF awaited
    <2> QED
        BY <2>1, <2>2, TypeParts, SMT DEF Data
<1>1. Data'
    BY <1>a, TypeParts, SMT DEF Restart, Intervene, device, Data
<1>2. Flags'
    BY TypeParts, Zenon DEF Restart, Intervene, device, Flags
<1>3. OnlyQueuedOnes'
    BY TypeParts, OutboxAssumption, SMT DEF Restart, Intervene, device, OnlyQueuedOnes, Data
<1>4. FlushKeepsUp'
    <2> SUFFICES ASSUME NEW g \in Flusher PROVE KeepsUp(g)'
        BY Zenon DEF FlushKeepsUp
    <2> QED
        BY SMT DEF Restart, KeepsUp
<1>5. NothingLost' /\ FilesTriedBeforeDeletion'
    BY TypeParts, OutboxAssumption, SMT DEF Restart, Intervene, device, NothingLost, FilesTriedBeforeDeletion, Data
<1> QED
    BY <1>1, <1>2, <1>3, <1>4, <1>5, Zenon DEF OutboxInv, TypeOK, Data, Flags

LEMMA StutterPreserves ==
    ASSUME OutboxInv, UNCHANGED vars
    PROVE  OutboxInv'
BY Zenon DEF OutboxInv, TypeOK, OnlyQueuedOnes, FlushKeepsUp, KeepsUp, NothingLost,
   FilesTriedBeforeDeletion, This, vars, device, app, server

LEMMA NextPreserves ==
    ASSUME OutboxInv, [Next]_vars
    PROVE  OutboxInv'
<1>1. CASE UNCHANGED vars
    BY <1>1, StutterPreserves
<1>2. ASSUME NEW p \in Task, ReadRows(p) \/ Show(p) \/ ReadFails(p) PROVE OutboxInv'
    BY <1>2, ReadRowsPreserves, ShowPreserves, ReadFailsPreserves
<1>3. CASE OpenScreen \/ Add \/ Discard \/ SignOut \/ Restart
    BY <1>3, OpenScreenPreserves, AddPreserves, DiscardPreserves, SignOutPreserves, RestartPreserves
<1>4. ASSUME NEW f \in Flusher, SignIn(f) \/ Send(f) PROVE OutboxInv'
    <2>1. Flush(f)
        BY <1>4 DEF SignIn, Send
    <2>2. signedIn' \in BOOLEAN
        BY <1>4, TypeParts, Zenon DEF SignIn, Send, Flags
    <2> QED
        BY <2>1, <2>2, FlushPreserves
<1>5. ASSUME NEW f \in Flusher, PhoneStep(f) PROVE OutboxInv'
    BY <1>2, <1>5, GiveUpPreserves, RemovePreserves, RemoveFailsPreserves DEF PhoneStep
<1>6. ASSUME NEW f \in Flusher, Answer(f) PROVE OutboxInv'
    BY <1>6, AcceptPreserves, RefusePreserves, RefuseServedPreserves, UploadFilePreserves DEF Answer
<1>7. ASSUME NEW d \in Draft, ServeLate(d) PROVE OutboxInv'
    BY <1>7, ServeLatePreserves
<1>8. User \in Task /\ \A f \in Flusher : f \in Task
    BY Zenon
<1> QED
    BY <1>1, <1>2, <1>3, <1>4, <1>5, <1>6, <1>7, <1>8, Zenon DEF Next

----------------------------------------------------------------------------
(* Calm times: one thing at a time.                                        *)

\* What CalmInv says of a calm state.
Calmly == OneAtATime /\ MemoryIsDisk /\ OneFateEach

\* A task that goes somewhere while nothing else is under way.
LEMMA GoesAlone ==
    ASSUME Data, OneAtATime, UNCHANGED late, NEW p \in Task,
           at[p] # "idle" \/ \A q \in Task : at[q] = "idle",
           NEW label, Goto(p, label)
    PROVE  /\ OneAtATime'
           /\ at'[p] = label
           /\ \A q \in Task \ {p} : at[q] = "idle" /\ at'[q] = "idle"
<1>1. \A q \in Task \ {p} : at[q] = "idle"
    BY Zenon DEF OneAtATime
<1>2. at'[p] = label /\ \A q \in Task \ {p} : at'[q] = at[q]
    BY SMT DEF Data, Goto
<1>3. OneAtATime'
    BY <1>1, <1>2, Zenon DEF OneAtATime
<1> QED
    BY <1>1, <1>2, <1>3, Zenon

\* The other tasks are idle: memory and disk agree when this one's part does.
LEMMA MemoryOfOneTask ==
    ASSUME NEW p \in Task, \A q \in Task \ {p} : at'[q] = "idle",
           loaded' /\ at'[p] \in {"idle", "await", "upload"} => cached' = queue',
           at'[p] \in {"show", "reshow"} => view'[p] = queue',
           p \in Flusher =>
              /\ at'[p] \in {"await", "upload"} => loaded' /\ todo'[p] \subseteq queue'
              /\ at'[p] \in {"reload", "reshow"} => todo'[p] \ {This(p)'} \subseteq queue'
    PROVE  MemoryIsDisk'
<1>1. (loaded /\ (\A q \in Task : at[q] \in {"idle", "await", "upload"}) => cached = queue)'
    BY Zenon
<1>2. \A q \in Task : at'[q] \in {"show", "reshow"} => view'[q] = queue'
    <2> SUFFICES ASSUME NEW q \in Task, at'[q] \in {"show", "reshow"} PROVE q = p
        BY Zenon
    <2> QED
        BY SMT
<1>3. ASSUME NEW f \in Flusher
      PROVE  /\ at'[f] \in {"await", "upload"} => loaded' /\ todo'[f] \subseteq queue'
             /\ at'[f] \in {"reload", "reshow"} => todo'[f] \ {This(f)'} \subseteq queue'
    <2>1. CASE f = p
        BY <2>1, Zenon
    <2>2. CASE f # p
        <3>1. at'[f] = "idle"
            BY <2>2, Zenon
        <3> QED
            BY <3>1, SMT
    <2> QED
        BY <2>1, <2>2, Zenon
<1> QED
    BY <1>1, <1>2, <1>3, Zenon DEF MemoryIsDisk

\* A step that leaves the queue and the server alone, and a flush to its upload.
LEMMA SameFates ==
    ASSUME OneFateEach, UNCHANGED <<queue, posted, added, discarded>>,
           \A f \in Flusher : at[f] = "upload" => at'[f] = "upload" /\ todo'[f] = todo[f]
    PROVE  OneFateEach'
<1>1. ASSUME NEW d \in queue', posted'[d] > 0
      PROVE  \E f \in Flusher : at'[f] = "upload" /\ This(f)' = d
    <2>1. PICK f \in Flusher : at[f] = "upload" /\ This(f) = d
        BY <1>1, Zenon DEF OneFateEach
    <2>2. at'[f] = "upload" /\ This(f)' = This(f)
        BY <2>1, Zenon DEF This
    <2> QED
        BY <2>1, <2>2, Zenon
<1> QED
    BY <1>1, Zenon DEF OneFateEach, NoneDiscardedIsPublic

\* Where a flush goes when it comes to its next draft.
LEMMA ProceedGoes ==
    ASSUME Data, NEW f \in Flusher, NEW drafts, Proceed(f, drafts)
    PROVE  /\ todo'[f] = drafts /\ f \in Task
           /\ at'[f] = IF drafts = {} THEN "idle" ELSE "await"
           /\ Goto(f, IF drafts = {} THEN "idle" ELSE "await")
BY SMT DEF Data, Proceed, Goto

LEMMA InitIsCalm == Init => CalmInv
BY SMT DEF Init, CalmInv, OneAtATime, MemoryIsDisk, OneFateEach, NoneDiscardedIsPublic

LEMMA ReadRowsStaysCalm ==
    ASSUME OutboxInv, Calmly, NEW p \in Task, ReadRows(p)
    PROVE  Calmly'
<1> DEFINE label == IF at[p] = "load" THEN "show" ELSE "reshow"
<1>1. /\ Data /\ OneAtATime /\ MemoryIsDisk /\ OneFateEach
      /\ at[p] \in {"load", "reload"} /\ view' = [view EXCEPT ![p] = queue]
      /\ Goto(p, label)
      /\ UNCHANGED <<device, cached, loaded, todo, server>>
    BY TypeParts, Zenon DEF Calmly, ReadRows
<1>2. at[p] # "idle" /\ at[p] # "upload"
    BY <1>1, Zenon
<1>3. /\ OneAtATime' /\ at'[p] = label
      /\ \A q \in Task \ {p} : at[q] = "idle" /\ at'[q] = "idle"
    <2> HIDE DEF label
    <2> QED
        BY <1>1, <1>2, GoesAlone, Zenon DEF server
<1>4. view'[p] = queue
    BY <1>1, SMT DEF Data
<1>5. p \in Flusher => (at'[p] = "reshow" => todo'[p] \ {This(p)'} \subseteq queue')
    <2> SUFFICES ASSUME p \in Flusher, at'[p] = "reshow" PROVE todo'[p] \ {This(p)'} \subseteq queue'
        OBVIOUS
    <2>1. at[p] = "reload"
        BY <1>1, <1>3, SMT
    <2>2. todo[p] \ {This(p)} \subseteq queue
        BY <1>1, <2>1, SMT DEF MemoryIsDisk
    <2>3. This(p)' = This(p) /\ todo' = todo /\ queue' = queue
        BY <1>1, Zenon DEF This, device
    <2> QED
        BY <2>2, <2>3, Zenon
<1>6. MemoryIsDisk'
    <2>1. at'[p] \in {"show", "reshow"} /\ queue' = queue
        BY <1>1, <1>3, Zenon DEF device
    <2>2. at'[p] # "idle" /\ at'[p] # "await" /\ at'[p] # "upload" /\ at'[p] # "reload"
        BY <2>1, SMT
    <2> HIDE DEF label
    <2> QED
        BY <1>3, <1>4, <1>5, <2>1, <2>2, MemoryOfOneTask, Zenon
<1>7. OneFateEach'
    <2>1. \A f \in Flusher : at[f] # "upload"
        BY <1>2, <1>3, SMT
    <2> QED
        BY <1>1, <2>1, SameFates, Zenon DEF device, server
<1> QED
    BY <1>3, <1>6, <1>7, Zenon DEF Calmly

LEMMA ShowStaysCalm ==
    ASSUME OutboxInv, Calmly, NEW p \in Task, Show(p)
    PROVE  Calmly'
<1>1. /\ Data /\ OneAtATime /\ MemoryIsDisk /\ OneFateEach
      /\ at[p] \in {"show", "reshow"} /\ cached' = view[p] /\ loaded' = TRUE
      /\ UNCHANGED <<queue, files, added, discarded, posted, tried, late>>
    BY TypeParts, Zenon DEF Calmly, Show, device, server
<1>2. view[p] = queue /\ at[p] # "idle" /\ at[p] # "upload"
    BY <1>1, Zenon DEF MemoryIsDisk
<1>3. OneAtATime' /\ MemoryIsDisk' /\ \A q \in Task \ {p} : at[q] = "idle"
    <2>1. CASE p = User
        <3>1. Goto(p, "idle")
            BY <2>1, Zenon DEF Show
        <3>2. /\ OneAtATime' /\ at'[p] = "idle"
              /\ \A q \in Task \ {p} : at[q] = "idle" /\ at'[q] = "idle"
            BY <1>1, <1>2, <3>1, GoesAlone, Zenon
        <3>3. MemoryIsDisk'
            <4>1. cached' = queue'
                BY <1>1, <1>2, Zenon
            <4> QED
                BY <3>2, <4>1, SMT DEF MemoryIsDisk
        <3> QED
            BY <3>2, <3>3, Zenon
    <2>2. CASE p # User
        <3>1. PICK drafts : Proceed(p, drafts) /\ drafts \subseteq queue
            <4>1. CASE at[p] = "show"
                BY <1>2, <2>2, <4>1, Zenon DEF Show
            <4>2. CASE at[p] = "reshow"
                <5>1. ThisDone(p)
                    BY <2>2, <4>2, SMT DEF Show
                <5>2. todo[p] \ {This(p)} \subseteq queue
                    BY <1>1, <2>2, <4>2, SMT DEF MemoryIsDisk
                <5> QED
                    BY <5>1, <5>2, Zenon DEF ThisDone
            <4> QED
                BY <1>1, <4>1, <4>2, Zenon
        <3>2. p \in Flusher
            BY <2>2, Zenon
        <3>3. /\ todo'[p] = drafts
              /\ at'[p] = (IF drafts = {} THEN "idle" ELSE "await")
              /\ Goto(p, IF drafts = {} THEN "idle" ELSE "await")
            BY <1>1, <3>1, <3>2, ProceedGoes, Zenon
        <3>4. OneAtATime' /\ \A q \in Task \ {p} : at[q] = "idle" /\ at'[q] = "idle"
            BY <1>1, <1>2, <3>3, GoesAlone, Zenon
        <3>5. at'[p] \in {"idle", "await"} /\ cached' = queue' /\ todo'[p] \subseteq queue' /\ loaded'
            BY <1>1, <1>2, <3>1, <3>3, Zenon
        <3>6. at'[p] \notin {"show", "reshow", "reload", "upload"}
            BY <3>5, SMT
        <3>7. MemoryIsDisk'
            BY <3>4, <3>5, <3>6, MemoryOfOneTask, Zenon
        <3> QED
            BY <3>4, <3>7, Zenon
    <2> QED
        BY <2>1, <2>2, Zenon
<1>4. OneFateEach'
    <2>1. \A f \in Flusher : at[f] # "upload"
        BY <1>2, <1>3, SMT
    <2> QED
        BY <1>1, <2>1, SameFates, Zenon
<1> QED
    BY <1>3, <1>4, Zenon DEF Calmly

----------------------------------------------------------------------------
(* The mechanic, between two flushes.                                      *)

AllIdle == \A p \in Task : at[p] = "idle"

\* The queue of the screen is the one on disk, and none of it is public.
LEMMA WhenAllIsIdle ==
    ASSUME OutboxInv, Calmly, AllIdle
    PROVE  /\ Data /\ OnlyQueuedOnes /\ OneAtATime /\ OneFateEach /\ User \in Task
           /\ loaded => cached = queue
           /\ \A d \in queue : posted[d] = 0
           /\ \A f \in Flusher : at[f] # "upload"
<1>1. Data /\ OnlyQueuedOnes /\ OneAtATime /\ OneFateEach /\ MemoryIsDisk
    BY TypeParts, Zenon DEF Calmly
<1>2. loaded => cached = queue
    BY <1>1, SMT DEF AllIdle, MemoryIsDisk
<1>3. \A f \in Flusher : at[f] # "upload"
    BY SMT DEF AllIdle
<1>4. ASSUME NEW d \in queue PROVE posted[d] = 0
    <2>1. ~(posted[d] > 0) /\ d \in Draft
        BY <1>1, <1>3, SMT DEF OneFateEach, Data
    <2> QED
        BY <1>1, <2>1, SMT DEF Data
<1> QED
    BY <1>1, <1>2, <1>3, <1>4, Zenon

LEMMA OpenScreenStaysCalm ==
    ASSUME OutboxInv, Calmly, AllIdle, OpenScreen
    PROVE  Calmly'
<1>1. /\ Goto(User, "load") /\ UNCHANGED <<queue, added, discarded, posted, late>>
    BY Zenon DEF OpenScreen, device, server
<1>2. /\ OneAtATime' /\ at'[User] = "load"
      /\ \A q \in Task \ {User} : at[q] = "idle" /\ at'[q] = "idle"
    BY <1>1, WhenAllIsIdle, GoesAlone, Zenon DEF AllIdle
<1>3. MemoryIsDisk'
    BY <1>2, OutboxAssumption, SMT DEF MemoryIsDisk
<1>4. OneFateEach'
    BY <1>1, WhenAllIsIdle, SameFates, Zenon
<1> QED
    BY <1>2, <1>3, <1>4, Zenon DEF Calmly

\* A draft has a number that none had before.
LEMMA AddStaysCalm ==
    ASSUME OutboxInv, Calmly, AllIdle, Add
    PROVE  Calmly'
<1>0. Data /\ OneFateEach /\ added \in Nat /\ queue \subseteq 1..added
    BY WhenAllIsIdle, OutboxAssumption, SMT DEF Data, OnlyQueuedOnes
<1>1. /\ Goto(User, "reload") /\ UNCHANGED <<discarded, posted, late>>
      /\ added' = added + 1 /\ queue' = queue \cup {added + 1}
    BY Zenon DEF Add, InsertedId, server
<1>2. /\ OneAtATime' /\ at'[User] = "reload"
      /\ \A q \in Task \ {User} : at[q] = "idle" /\ at'[q] = "idle"
    BY <1>1, WhenAllIsIdle, GoesAlone, Zenon DEF AllIdle
<1>3. MemoryIsDisk'
    BY <1>2, OutboxAssumption, SMT DEF MemoryIsDisk
<1>4. \A d \in Draft : posted'[d] <= 1 /\ (posted'[d] > 0 => d <= added')
    BY <1>0, <1>1, SMT DEF OneFateEach
<1>5. \A d \in queue' : ~(posted'[d] > 0)
    <2> SUFFICES ASSUME NEW d \in queue', posted[d] > 0 PROVE FALSE
        BY <1>1, Zenon
    <2>1. CASE d \in queue
        BY <2>1, WhenAllIsIdle, SMT
    <2>2. CASE d = added + 1
        <3>1. d \in Draft
            BY <1>0, <2>2, OutboxAssumption, SMT DEF Add
        <3> QED
            BY <1>0, <2>2, <3>1, SMT DEF OneFateEach
    <2> QED
        BY <1>1, <2>1, <2>2, Zenon
<1>6. discarded' \subseteq 1..added' /\ discarded' \cap queue' = {} /\ NoneDiscardedIsPublic'
    <2>1. discarded \subseteq 1..added /\ discarded \cap queue = {} /\ NoneDiscardedIsPublic
        BY <1>0, Zenon DEF OneFateEach
    <2>2. added + 1 \notin discarded /\ discarded \subseteq 1..added'
        BY <1>0, <1>1, <2>1, SMT
    <2> QED
        BY <1>1, <2>1, <2>2, Zenon DEF NoneDiscardedIsPublic
<1> QED
    BY <1>2, <1>3, <1>4, <1>5, <1>6, Zenon DEF Calmly, OneFateEach

\* What is discarded was on the disk, and not public.
LEMMA DiscardStaysCalm ==
    ASSUME OutboxInv, Calmly, AllIdle, Discard
    PROVE  Calmly'
<1>1. /\ Goto(User, "reload") /\ UNCHANGED <<posted, added, late>> /\ loaded
    BY Zenon DEF Discard, server
<1>2. PICK d \in cached :
          /\ queue' = queue \ {d}
          /\ discarded' = IF d \in queue THEN discarded \cup {d} ELSE discarded
    BY Zenon DEF Discard
<1>3. /\ d \in queue /\ posted[d] = 0 /\ d \in 1..added /\ OneFateEach
      /\ queue' \subseteq queue /\ discarded' = discarded \cup {d}
    BY <1>1, <1>2, WhenAllIsIdle, Zenon DEF OnlyQueuedOnes
<1>4. /\ OneAtATime' /\ at'[User] = "reload"
      /\ \A q \in Task \ {User} : at[q] = "idle" /\ at'[q] = "idle"
    BY <1>1, WhenAllIsIdle, GoesAlone, Zenon DEF AllIdle
<1>5. MemoryIsDisk'
    BY <1>4, OutboxAssumption, SMT DEF MemoryIsDisk
<1>6. \A e \in queue' : ~(posted'[e] > 0)
    BY <1>1, <1>3, WhenAllIsIdle, SMT
<1>7. discarded' \subseteq 1..added' /\ discarded' \cap queue' = {} /\ NoneDiscardedIsPublic'
    BY <1>1, <1>2, <1>3, SMT DEF OneFateEach, NoneDiscardedIsPublic
<1>8. \A e \in Draft : posted'[e] <= 1 /\ (posted'[e] > 0 => e <= added')
    BY <1>1, <1>3, Zenon DEF OneFateEach
<1> QED
    BY <1>4, <1>5, <1>6, <1>7, <1>8, Zenon DEF Calmly, OneFateEach

\* A flush goes through what is on the disk.
LEMMA FlushStaysCalm ==
    ASSUME OutboxInv, Calmly, AllIdle, NEW f \in Flusher, Flush(f)
    PROVE  Calmly'
<1>1. UNCHANGED <<queue, added, discarded, cached, loaded, posted, late, view>>
    BY Zenon DEF Flush, device, server
<1>2. Data /\ OneAtATime /\ f \in Task /\ at[f] = "idle" /\ (loaded => cached = queue)
    BY WhenAllIsIdle, Zenon DEF AllIdle
<1>3. CASE loaded
    <2>1. Proceed(f, queue)
        BY <1>2, <1>3, Zenon DEF Flush
    <2>2. /\ todo'[f] = queue /\ at'[f] = (IF queue = {} THEN "idle" ELSE "await")
          /\ Goto(f, IF queue = {} THEN "idle" ELSE "await")
        BY <1>2, <2>1, ProceedGoes, Zenon
    <2>3. OneAtATime' /\ \A q \in Task \ {f} : at'[q] = "idle"
        BY <1>1, <1>2, <2>2, GoesAlone, Zenon DEF AllIdle
    <2>4. at'[f] \in {"idle", "await"} /\ cached' = queue' /\ todo'[f] \subseteq queue' /\ loaded'
        BY <1>1, <1>2, <1>3, <2>2, Zenon
    <2>5. at'[f] \notin {"show", "reshow", "reload", "upload"}
        BY <2>4, SMT
    <2>6. MemoryIsDisk'
        BY <1>2, <2>3, <2>4, <2>5, MemoryOfOneTask, Zenon
    <2>7. OneFateEach'
        BY <1>1, WhenAllIsIdle, SameFates, Zenon
    <2> QED
        BY <2>3, <2>6, <2>7, Zenon DEF Calmly
<1>4. CASE ~loaded
    <2>1. Goto(f, "load")
        BY <1>4, Zenon DEF Flush
    <2>2. OneAtATime' /\ at'[f] = "load" /\ \A q \in Task \ {f} : at'[q] = "idle"
        BY <1>1, <1>2, <2>1, GoesAlone, Zenon DEF AllIdle
    <2>3. at'[f] \notin {"idle", "await", "show", "reshow", "reload", "upload"}
        BY <2>2, SMT
    <2>4. MemoryIsDisk'
        BY <1>2, <2>2, <2>3, MemoryOfOneTask, Zenon
    <2>5. OneFateEach'
        BY <1>1, WhenAllIsIdle, SameFates, Zenon
    <2> QED
        BY <2>2, <2>4, <2>5, Zenon DEF Calmly
<1> QED
    BY <1>3, <1>4, Zenon

\* The app is killed with nothing under way: no request is left behind.
LEMMA RestartStaysCalm ==
    ASSUME OutboxInv, Calmly, AllIdle, Restart
    PROVE  Calmly'
<1>1. /\ UNCHANGED <<queue, added, discarded, posted>> /\ ~loaded'
      /\ at' = [p \in Task |-> "idle"]
      /\ late' = [d \in Draft |-> late[d] + Cardinality({f \in Flusher : at[f] = "await" /\ This(f) = d /\ token[f]})]
    BY Zenon DEF Restart, device
<1>2. \A f \in Flusher : at[f] # "await"
    BY SMT DEF AllIdle
<1>3. \A d \in Draft : {f \in Flusher : at[f] = "await" /\ This(f) = d /\ token[f]} = {}
    BY <1>2, Zenon
<1>4. \A d \in Draft : late'[d] = late[d] + 0
    BY <1>1, <1>3, FS_EmptySet, Zenon
<1>5. OneAtATime'
    BY <1>1, <1>4, SMT DEF Calmly, OneAtATime
<1>6. MemoryIsDisk'
    BY <1>1, SMT DEF MemoryIsDisk
<1>7. OneFateEach'
    BY <1>1, WhenAllIsIdle, SameFates, Zenon
<1> QED
    BY <1>5, <1>6, <1>7, Zenon DEF Calmly

LEMMA SignOutStaysCalm ==
    ASSUME OutboxInv, Calmly, SignOut
    PROVE  Calmly'
BY Zenon DEF Calmly, SignOut, device, server, OneAtATime, MemoryIsDisk, OneFateEach,
   NoneDiscardedIsPublic, This

----------------------------------------------------------------------------
(* A request that is answered, and what comes of it.                       *)

\* A flush that is somewhere is the only one, at a draft that was queued.
LEMMA FlushIsAlone ==
    ASSUME OutboxInv, Calmly, NEW f \in Flusher, at[f] \in {"await", "upload"}
    PROVE  /\ Data /\ OneAtATime /\ MemoryIsDisk /\ OneFateEach /\ f \in Task
           /\ This(f) \in todo[f] /\ This(f) \in queue /\ This(f) \in 1..added /\ This(f) \in Draft
           /\ loaded /\ cached = queue /\ todo[f] \subseteq queue
           /\ \A q \in Task \ {f} : at[q] = "idle"
<1>1. Data /\ OneAtATime /\ MemoryIsDisk /\ OneFateEach /\ f \in Task
    BY TypeParts, Zenon DEF Calmly
<1>2. at[f] # "idle" /\ todo[f] # {}
    BY TypeParts, SMT DEF FlushKeepsUp, KeepsUp
<1>3. \A q \in Task \ {f} : at[q] = "idle"
    BY <1>1, <1>2, Zenon DEF OneAtATime
<1>4. loaded /\ todo[f] \subseteq queue
    BY <1>1, Zenon DEF MemoryIsDisk
<1>5. \A q \in Task : at[q] \in {"idle", "await", "upload"}
    BY <1>3, SMT
<1>6. cached = queue
    BY <1>1, <1>4, <1>5, Zenon DEF MemoryIsDisk
<1> QED
    BY <1>1, <1>2, <1>3, <1>4, <1>6, ThisWasQueued, Zenon

\* The draft becomes public, for the first time.
LEMMA AcceptStaysCalm ==
    ASSUME OutboxInv, Calmly, NEW f \in Flusher, Accept(f)
    PROVE  Calmly'
<1>1. /\ at[f] = "await" /\ Goto(f, "upload")
      /\ posted' = [posted EXCEPT ![This(f)] = @ + 1]
      /\ UNCHANGED <<queue, added, discarded, cached, loaded, todo, view, late>>
    BY Zenon DEF Accept, Publish, Uploads, device
<1>2. /\ Data /\ OneAtATime /\ MemoryIsDisk /\ OneFateEach /\ f \in Task
      /\ This(f) \in queue /\ This(f) \in 1..added /\ This(f) \in Draft
      /\ loaded /\ cached = queue /\ todo[f] \subseteq queue
    BY <1>1, FlushIsAlone, Zenon
<1>3. /\ OneAtATime' /\ at'[f] = "upload"
      /\ \A q \in Task \ {f} : at[q] = "idle" /\ at'[q] = "idle"
    BY <1>1, <1>2, GoesAlone, Zenon
<1>4. at[f] # "upload" /\ \A g \in Flusher : at[g] # "upload"
    BY <1>1, <1>3, SMT
<1>5. posted[This(f)] = 0 /\ \A d \in queue : ~(posted[d] > 0)
    <2>1. \A d \in queue : ~(posted[d] > 0)
        BY <1>2, <1>4, Zenon DEF OneFateEach
    <2>2. ~(posted[This(f)] > 0) /\ posted[This(f)] \in Nat
        BY <1>2, <2>1, Zenon DEF Data
    <2>3. posted[This(f)] = 0
        BY <2>2, SMT
    <2> QED
        BY <2>1, <2>3, Zenon
<1>6. This(f)' = This(f)
    BY <1>1, Zenon DEF This
<1>7. MemoryIsDisk'
    <2>1. at'[f] \notin {"show", "reshow", "reload"} /\ cached' = queue' /\ loaded' /\ todo'[f] \subseteq queue'
        BY <1>1, <1>2, <1>3, SMT
    <2>2. at'[f] # "show" /\ at'[f] # "reshow" /\ at'[f] # "reload"
        BY <1>3, SMT
    <2> QED
        BY <1>2, <1>3, <2>1, <2>2, MemoryOfOneTask, Zenon
<1>8. posted'[This(f)] = 1 /\ \A d \in Draft \ {This(f)} : posted'[d] = posted[d]
    BY <1>1, <1>2, <1>5, SMT DEF Data
<1>9. \A d \in Draft : posted'[d] <= 1 /\ (posted'[d] > 0 => d <= added')
    <2> SUFFICES ASSUME NEW d \in Draft PROVE posted'[d] <= 1 /\ (posted'[d] > 0 => d <= added)
        BY <1>1, Zenon
    <2>1. CASE d = This(f)
        BY <1>2, <1>8, <2>1, SMT DEF Data
    <2>2. CASE d # This(f)
        BY <1>2, <1>8, <2>2, Zenon DEF OneFateEach
    <2> QED
        BY <2>1, <2>2, Zenon
<1>10. \A d \in queue' : posted'[d] > 0 => \E g \in Flusher : at'[g] = "upload" /\ This(g)' = d
    <2> SUFFICES ASSUME NEW d \in queue, posted'[d] > 0 PROVE d = This(f)
        BY <1>1, <1>3, <1>6, Zenon
    <2>1. d \in Draft
        BY <1>2, Zenon DEF Data
    <2> QED
        BY <1>5, <1>8, <2>1, Zenon
<1>11. NoneDiscardedIsPublic' /\ discarded' \subseteq 1..added' /\ discarded' \cap queue' = {}
    <2>1. discarded \subseteq 1..added /\ discarded \cap queue = {} /\ NoneDiscardedIsPublic /\ discarded \subseteq Draft
        BY <1>2, Zenon DEF OneFateEach, Data
    <2>2. \A d \in discarded : d # This(f) /\ posted'[d] = posted[d]
        BY <1>2, <1>8, <2>1, Zenon
    <2> QED
        BY <1>1, <2>1, <2>2, Zenon DEF NoneDiscardedIsPublic
<1> QED
    BY <1>3, <1>7, <1>9, <1>10, <1>11, Zenon DEF Calmly, OneFateEach

LEMMA RefuseStaysCalm ==
    ASSUME OutboxInv, Calmly, NEW f \in Flusher, Refuse(f)
    PROVE  Calmly'
<1>1. /\ at[f] = "await" /\ Proceed(f, todo[f] \ {This(f)})
      /\ UNCHANGED <<queue, added, discarded, cached, loaded, view, posted, late>>
    BY Zenon DEF Refuse, ThisDone, FailedDraft, server
<1>2. /\ Data /\ OneAtATime /\ OneFateEach /\ f \in Task /\ at[f] # "idle" /\ at[f] # "upload"
      /\ loaded /\ cached = queue /\ todo[f] \subseteq queue
    BY <1>1, FlushIsAlone, Zenon
<1> DEFINE left == todo[f] \ {This(f)}
<1>3. left \subseteq queue
    BY <1>2, Zenon
<1> HIDE DEF left
<1>4. /\ todo'[f] = left /\ at'[f] = (IF left = {} THEN "idle" ELSE "await")
      /\ Goto(f, IF left = {} THEN "idle" ELSE "await")
    <2>1. Proceed(f, left)
        BY <1>1, Zenon DEF left
    <2> QED
        BY <1>2, <2>1, ProceedGoes, Zenon
<1>5. OneAtATime' /\ \A q \in Task \ {f} : at[q] = "idle" /\ at'[q] = "idle"
    BY <1>1, <1>2, <1>4, GoesAlone, Zenon
<1>6. MemoryIsDisk'
    <2>1. at'[f] \in {"idle", "await"} /\ cached' = queue' /\ loaded' /\ todo'[f] \subseteq queue'
        BY <1>1, <1>2, <1>3, <1>4, Zenon
    <2>2. at'[f] \notin {"show", "reshow", "reload", "upload"}
        BY <2>1, SMT
    <2> QED
        BY <1>2, <1>5, <2>1, <2>2, MemoryOfOneTask, Zenon
<1>7. OneFateEach'
    <2>1. \A g \in Flusher : at[g] # "upload"
        BY <1>2, <1>5, SMT
    <2> QED
        BY <1>1, <1>2, <2>1, SameFates, Zenon
<1> QED
    BY <1>5, <1>6, <1>7, Zenon DEF Calmly

LEMMA UploadFileStaysCalm ==
    ASSUME OutboxInv, Calmly, NEW f \in Flusher, UploadFile(f)
    PROVE  Calmly'
BY Zenon DEF Calmly, UploadFile, Uploads, device, OneAtATime, MemoryIsDisk, OneFateEach,
   NoneDiscardedIsPublic, This

\* What is public leaves the queue, and what the flush has left is still in it.
LEMMA RemoveStaysCalm ==
    ASSUME OutboxInv, Calmly, NEW f \in Flusher, Remove(f)
    PROVE  Calmly'
<1>1. /\ at[f] = "upload" /\ Goto(f, "reload") /\ queue' = queue \ {This(f)}
      /\ UNCHANGED <<added, discarded, cached, loaded, todo, view, posted, late>>
    BY Zenon DEF Remove, UploadsAwaited, PublishedDraftGone, server
<1>2. /\ Data /\ OneAtATime /\ OneFateEach /\ f \in Task /\ at[f] # "idle"
      /\ todo[f] \subseteq queue
    BY <1>1, FlushIsAlone, Zenon
<1>3. /\ OneAtATime' /\ at'[f] = "reload"
      /\ \A q \in Task \ {f} : at[q] = "idle" /\ at'[q] = "idle"
    BY <1>1, <1>2, GoesAlone, Zenon
<1>4. This(f)' = This(f)
    BY <1>1, Zenon DEF This
<1>5. MemoryIsDisk'
    <2>1. todo'[f] \ {This(f)'} \subseteq queue'
        BY <1>1, <1>2, <1>4, Zenon
    <2>2. at'[f] \notin {"idle", "await", "upload", "show", "reshow"}
        BY <1>3, SMT
    <2> QED
        BY <1>2, <1>3, <2>1, <2>2, MemoryOfOneTask, Zenon
<1>6. \A d \in queue' : ~(posted'[d] > 0)
    <2> SUFFICES ASSUME NEW d \in queue, d # This(f), posted[d] > 0 PROVE FALSE
        BY <1>1, Zenon
    <2>1. PICK g \in Flusher : at[g] = "upload" /\ This(g) = d
        BY <1>2, Zenon DEF OneFateEach
    <2>2. at[g] # "idle" /\ g \in Task
        BY <2>1, Zenon
    <2> QED
        BY <1>3, <2>1, <2>2, Zenon
<1>7. OneFateEach'
    BY <1>1, <1>2, <1>6, Zenon DEF OneFateEach, NoneDiscardedIsPublic
<1> QED
    BY <1>3, <1>5, <1>7, Zenon DEF Calmly

LEMMA NextStaysCalm ==
    ASSUME OutboxInv, CalmInv, [Next]_vars
    PROVE  CalmInv'
<1> SUFFICES ASSUME calm' PROVE Calmly'
    BY Zenon DEF CalmInv, Calmly
<1>1. CASE UNCHANGED vars
    BY <1>1, Zenon DEF CalmInv, Calmly, OneAtATime, MemoryIsDisk, OneFateEach,
       NoneDiscardedIsPublic, This, vars, device, app, server
<1>2. calm => Calmly
    BY Zenon DEF CalmInv, Calmly
<1>3. ASSUME NEW p \in Task, ReadRows(p) \/ Show(p) PROVE Calmly'
    <2>1. calm
        BY <1>3, Zenon DEF ReadRows, Show
    <2> QED
        BY <1>2, <1>3, <2>1, ReadRowsStaysCalm, ShowStaysCalm
<1>4. Intervene => calm /\ AllIdle
    BY Zenon DEF Intervene, AllIdle
<1>5. CASE OpenScreen \/ Add \/ Discard \/ SignOut \/ Restart
    <2>1. Intervene
        BY <1>5, Zenon DEF OpenScreen, Add, Discard, SignOut, Restart
    <2> QED
        BY <1>2, <1>4, <1>5, <2>1, OpenScreenStaysCalm, AddStaysCalm, DiscardStaysCalm,
           SignOutStaysCalm, RestartStaysCalm
<1>6. ASSUME NEW f \in Flusher, SignIn(f) \/ Send(f) PROVE Calmly'
    <2>1. Flush(f)
        BY <1>6 DEF SignIn, Send
    <2>2. Intervene
        BY <2>1, Zenon DEF Flush
    <2> QED
        BY <1>2, <1>4, <2>1, <2>2, FlushStaysCalm
<1>7. User \in Task /\ \A f \in Flusher : f \in Task
    BY Zenon
<1>8. /\ \A p \in Task : ~ReadFails(p)
      /\ \A f \in Flusher : ~GiveUp(f) /\ ~RefuseServed(f) /\ ~RemoveFails(f)
    BY Zenon DEF ReadFails, GiveUp, RefuseServed, RemoveFails
<1>9. ASSUME NEW f \in Flusher, Remove(f) \/ Answer(f) PROVE Calmly'
    <2>1. Remove(f) \/ Accept(f) \/ Refuse(f) \/ UploadFile(f)
        BY <1>7, <1>8, <1>9, Zenon DEF Answer
    <2>2. calm
        BY <2>1, Zenon DEF Remove, Accept, Refuse, UploadFile
    <2> QED
        BY <1>2, <2>1, <2>2, RemoveStaysCalm, AcceptStaysCalm, RefuseStaysCalm, UploadFileStaysCalm
<1>10. ASSUME NEW d \in Draft, ServeLate(d) PROVE FALSE
    <2>1. calm /\ late[d] > 0
        BY <1>10, Zenon DEF ServeLate
    <2>2. late[d] = 0
        BY <1>2, <2>1, Zenon DEF Calmly, OneAtATime
    <2> QED
        BY <2>1, <2>2, SMT
<1>11. ASSUME NEW f \in Flusher, PhoneStep(f) PROVE Calmly'
    BY <1>3, <1>7, <1>8, <1>9, <1>11, Zenon DEF PhoneStep
<1> QED
    BY <1>1, <1>3, <1>5, <1>6, <1>7, <1>8, <1>9, <1>10, <1>11, Zenon DEF Next

----------------------------------------------------------------------------
(* What follows.                                                           *)

\* The inductive invariant: a flush is at a draft that was queued, and what it
\* is about to delete is public with its files tried.
THEOREM OutboxInvariance == Spec => []OutboxInv
<1> QED
    BY InitEstablishes, NextPreserves, PTL DEF Spec

\* Every state of the queue, the flushes and the requests is well typed.
THEOREM OutboxTypeCorrect == Spec => []TypeOK
<1>1. OutboxInv => TypeOK
    BY DEF OutboxInv
<1> QED
    BY <1>1, OutboxInvariance, PTL

\* A queued record is on the phone, in the history, or was discarded by hand,
\* whatever is refused, lost, served late, overlapping or killed.
THEOREM NoDraftIsLost == Spec => []NothingLost
<1>1. OutboxInv => NothingLost
    BY DEF OutboxInv
<1> QED
    BY <1>1, OutboxInvariance, PTL

\* A draft leaves the phone on its own only when each of its files was tried.
THEOREM FilesAreTriedFirst == Spec => []FilesTriedBeforeDeletion
<1>1. OutboxInv => FilesTriedBeforeDeletion
    BY DEF OutboxInv
<1> QED
    BY <1>1, OutboxInvariance, PTL

\* While it is calm the list in memory is the one on disk, and a draft has one
\* fate.
THEOREM CalmInvariance == Spec => []CalmInv
<1>1. OutboxInv /\ CalmInv /\ [Next]_vars => CalmInv'
    BY NextStaysCalm
<1> QED
    BY <1>1, InitIsCalm, OutboxInvariance, PTL DEF Spec

\* While every request is answered in time and nobody intervenes in what is
\* under way, flush removes each draft that the API accepts, and no draft
\* becomes two records.
THEOREM PublishedOnce == Spec => []PublishedOnceWhenCalm
<1>1. OutboxInv /\ CalmInv => PublishedOnceWhenCalm
    <2> SUFFICES ASSUME OutboxInv, CalmInv, calm
                 PROVE  AcceptedIsRemoved /\ \A d \in Draft : posted[d] <= 1
        BY Zenon DEF PublishedOnceWhenCalm
    <2>1. Calmly
        BY Zenon DEF CalmInv, Calmly
    <2>2. AcceptedIsRemoved
        BY <2>1, WhenAllIsIdle, Zenon DEF AcceptedIsRemoved, Quiet, AllIdle
    <2> QED
        BY <2>1, <2>2, Zenon DEF Calmly, OneFateEach
<1> QED
    BY <1>1, CalmInvariance, OutboxInvariance, PTL

\* And what was discarded between two flushes is not published.
THEOREM DiscardedIsGone == Spec => []DiscardedIsGoneWhenCalm
<1>1. CalmInv => DiscardedIsGoneWhenCalm
    BY Zenon DEF CalmInv, OneFateEach, DiscardedIsGoneWhenCalm
<1> QED
    BY <1>1, CalmInvariance, PTL
=============================================================================
