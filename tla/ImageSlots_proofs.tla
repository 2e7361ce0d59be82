-------------------------- MODULE ImageSlots_proofs --------------------------
(***************************************************************************)
(* Proofs about ImageSlots, for any slots and any number of drops.  They   *)
(* rest on SlotsInv: one write at a time, which holds what the slots held  *)
(* when it was asked for, over a file that the page only makes newer       *)
(* where nobody else has changed it.                                       *)
(***************************************************************************)
EXTENDS ImageSlots, TLAPS

LEMMA NothingIsNoEntry == None \notin Entry /\ None # Early /\ None \notin Image /\ Early \notin Image
BY SlotsAssumption DEF Entry, Image

LEMMA ImagesAreNumbers == Image \subseteq Nat /\ 0 \in Image /\ 1 \in Image
BY SlotsAssumption DEF Image

LEMMA WholeIsEntry == \A u \in Image : Whole(u) \in Entry /\ Whole(u).u = u /\ Whole(u).on = u
BY DEF Whole, Entry

LEMMA WrittenHolds ==
    ASSUME NEW c \in Content, NEW by \in {"save", "gone"}
    PROVE  /\ Written(c, by) \in [content: Content, by: {"save", "gone"}]
           /\ Written(c, by).content = c /\ Written(c, by).by = by
BY DEF Written

LEMMA UserUrlIsImage ==
    ASSUME SlotsTypeOK, NEW id \in Slot
    PROVE  UserUrl(id) \in Image
BY ImagesAreNumbers DEF SlotsTypeOK, Content, UserUrl, Entry

LEMMA OlderIsTransitive ==
    ASSUME NEW id \in Slot, NEW x \in Content, NEW y \in Content, NEW z \in Content,
           ~Older(id, x, y), ~Older(id, y, z)
    PROVE  ~Older(id, x, z)
<1> SUFFICES ASSUME x[id] # None
             PROVE  z[id] # None /\ ~(z[id].u < x[id].u)
  BY DEF Older
<1>1. /\ y[id] # None /\ ~(y[id].u < x[id].u)
      /\ z[id] # None /\ ~(z[id].u < y[id].u)
  BY DEF Older
<1>2. x[id].u \in Nat /\ y[id].u \in Nat /\ z[id].u \in Nat
  BY <1>1, ImagesAreNumbers DEF Content, Entry
<1> QED
  BY <1>1, <1>2

LEMMA NothingIsOlderThanItself ==
    ASSUME NEW id \in Slot, NEW x \in Content
    PROVE  ~Older(id, x, x)
<1> SUFFICES ASSUME x[id] # None PROVE ~(x[id].u < x[id].u)
  BY DEF Older
<1>1. x[id].u \in Nat
  BY ImagesAreNumbers DEF Content, Entry
<1> QED
  BY <1>1

\* What every step does to the images in memory.
OnlyNewer == \A id \in Slot : ~Older(id, slots, slots')

LEMMA UnchangedIsNewer ==
    ASSUME SlotsTypeOK, UNCHANGED slots
    PROVE  OnlyNewer
BY NothingIsOlderThanItself DEF SlotsTypeOK, OnlyNewer

LEMMA InitiallySound == Init => SlotsInv
<1> SUFFICES ASSUME Init PROVE SlotsInv
  OBVIOUS
<1>1. SlotsTypeOK
  <2>1. file \in Content
    <3>1. Whole(1) \in Entry
      BY WholeIsEntry, ImagesAreNumbers
    <3>2. file \in [Slot -> {None, Whole(1)}]
      BY DEF Init
    <3> QED
      BY <3>1, <3>2 DEF Content
  <2>2. slots \in Content /\ reframe \in [Slot -> Image \cup {Early, None}]
    BY DEF Init, Content, Closed
  <2>3. gen \in [Slot -> Image] /\ encoding \in [Slot -> SUBSET Image] /\ drops \in Image \ {0}
    BY ImagesAreNumbers DEF Init
  <2>4. waiting \in 0..2 /\ live \subseteq Slot /\ touched \subseteq Slot /\ writes = {}
    BY SlotsAssumption DEF Init
  <2>5. /\ copy \in Content \cup {None} /\ others \subseteq Slot /\ bridge \in BOOLEAN
    BY Zenon DEF Init
  <2>6. /\ loaded \in BOOLEAN /\ saving \in BOOLEAN /\ saveDirty \in BOOLEAN
        /\ open \in BOOLEAN /\ merged \in BOOLEAN /\ behind \in BOOLEAN
    BY Zenon DEF Init
  <2> QED
    BY <2>1, <2>2, <2>3, <2>4, <2>5, <2>6, Zenon DEF SlotsTypeOK
<1>2. OneWrite /\ UntouchedAgree /\ InOrder
  BY DEF Init, OneWrite, UntouchedAgree, InOrder
<1>3. BeforeRead
  BY DEF Init, BeforeRead, Closed
<1>4. ElementsFollow
  <2>1. \A id \in Slot : slots[id] = None /\ reframe[id] = None /\ encoding[id] = {}
    BY DEF Init, Closed
  <2>2. \A id \in Slot : UserUrl(id) = 0
    BY <2>1 DEF UserUrl
  <2>3. 0 <= drops
    BY DEF Init
  <2> QED
    BY <2>1, <2>2, <2>3, Zenon DEF ElementsFollow
<1>5. QuietFileIsMemory /\ CropIsOfItsImage
  BY DEF Init, QuietFileIsMemory, CropIsOfItsImage, Closed
<1> QED
  BY <1>1, <1>2, <1>3, <1>4, <1>5 DEF SlotsInv

----------------------------------------------------------------------------
(* What the elements do with no slot set.                                  *)

\* The store, the file and the writes are left as they are.
StoreLeft == UNCHANGED <<file, writes, copy, store, open, touched, others, merged>>

LEMMA StoreLeftKeeps ==
    ASSUME SlotsInv, StoreLeft, SlotsTypeOK', ElementsFollow',
           open /\ ~loaded => \A id \in Slot : reframe'[id] \in {None, Early}
    PROVE  SlotsInv' /\ OnlyNewer
<1> USE DEF StoreLeft, store, Own
<1>1. OneWrite'
  BY DEF SlotsInv, OneWrite
<1>2. BeforeRead'
  BY DEF SlotsInv, BeforeRead
<1>3. UntouchedAgree' /\ InOrder'
  BY DEF SlotsInv, UntouchedAgree, InOrder, Older
<1>4. QuietFileIsMemory' /\ CropIsOfItsImage'
  BY DEF SlotsInv, QuietFileIsMemory, CropIsOfItsImage
<1>5. OnlyNewer
  BY UnchangedIsNewer DEF SlotsInv
<1> QED
  BY <1>1, <1>2, <1>3, <1>4, <1>5 DEF SlotsInv

LEMMA DropKeeps ==
    ASSUME SlotsInv, NEW id \in Slot, Drop(id), open
    PROVE  SlotsInv' /\ OnlyNewer
<1>1. /\ SlotsTypeOK /\ ElementsFollow /\ StoreLeft /\ UNCHANGED <<live, reframe, bridge>>
      /\ id \in live /\ drops + 1 \in Image \ {0} /\ drops \in Nat /\ drops' = drops + 1
      /\ gen' = [gen EXCEPT ![id] = drops + 1]
      /\ encoding' = [encoding EXCEPT ![id] = @ \cup {drops + 1}]
  BY SlotsAssumption DEF SlotsInv, SlotsTypeOK, Drop, StoreLeft, Image, host
<1>2. SlotsTypeOK'
  <2>1. gen' \in [Slot -> Image] /\ encoding' \in [Slot -> SUBSET Image] /\ drops' \in Image \ {0}
    BY <1>1 DEF SlotsTypeOK
  <2>2. UNCHANGED <<file, writes, copy, slots, loaded, waiting, saving, saveDirty, behind, open, touched, others, merged>>
    BY <1>1 DEF StoreLeft, store
  <2>3. SlotsTypeOK /\ UNCHANGED <<live, reframe, bridge>>
    BY <1>1
  <2> QED
    BY <2>1, <2>2, <2>3 DEF SlotsTypeOK
<1>3. ElementsFollow'
  <2>1. \A t \in Slot : UserUrl(t)' = UserUrl(t) /\ UserUrl(t) \in Nat
    BY <1>1, UserUrlIsImage, ImagesAreNumbers DEF UserUrl, StoreLeft, store
  <2>2. \A t \in Slot \ {id} : gen'[t] = gen[t] /\ encoding'[t] = encoding[t]
    BY <1>1 DEF SlotsTypeOK
  <2>3. gen'[id] = drops + 1 /\ encoding'[id] = encoding[id] \cup {drops + 1}
    BY <1>1 DEF SlotsTypeOK
  <2> SUFFICES ASSUME NEW t \in Slot
      PROVE /\ reframe'[t] # None => t \in live' /\ reframe'[t] \in {Early, UserUrl(t)'}
            /\ encoding'[t] # {} => t \in live'
            /\ encoding'[t] \subseteq 2..drops'
            /\ UserUrl(t)' <= drops'
            /\ gen'[t] \in encoding'[t] => UserUrl(t)' <= gen'[t]
    BY DEF ElementsFollow
  <2>4. CASE t = id
    <3>1. encoding[id] \subseteq 2..drops /\ UserUrl(id) <= drops /\ drops # 0
      BY <1>1 DEF ElementsFollow, SlotsTypeOK
    <3>2. encoding'[id] \subseteq 2..drops' /\ UserUrl(id) <= drops' /\ UserUrl(id) <= gen'[id]
      BY <1>1, <2>1, <2>3, <3>1
    <3>3. reframe'[id] # None => id \in live' /\ reframe'[id] \in {Early, UserUrl(id)'}
      BY <1>1, <2>1 DEF ElementsFollow
    <3> QED
      BY <1>1, <2>1, <2>4, <3>2, <3>3
  <2>5. CASE t # id
    BY <1>1, <2>1, <2>2, <2>5 DEF ElementsFollow
  <2> QED
    BY <2>4, <2>5
<1>4. open /\ ~loaded => \A t \in Slot : reframe'[t] \in {None, Early}
  BY <1>1 DEF SlotsInv, BeforeRead
<1> QED
  BY <1>1, <1>2, <1>3, <1>4, StoreLeftKeeps

\* An encoding that is not taken goes away.
Forgotten(id) ==
    \E n \in encoding[id] : encoding' = [encoding EXCEPT ![id] = @ \ {n}]

LEMMA ForgottenKeeps ==
    ASSUME SlotsInv, open, NEW id \in Slot, Forgotten(id), StoreLeft,
           UNCHANGED <<bridge, live, reframe, gen, drops>>
    PROVE  SlotsInv' /\ OnlyNewer
<1>1. SlotsTypeOK'
  BY DEF SlotsInv, SlotsTypeOK, StoreLeft, store, Forgotten
<1>2. ElementsFollow'
  <2>1. \A t \in Slot : encoding'[t] \subseteq encoding[t]
    BY DEF SlotsInv, SlotsTypeOK, Forgotten
  <2>2. \A t \in Slot : UserUrl(t)' = UserUrl(t)
    BY DEF UserUrl, StoreLeft, store
  <2> QED
    BY <2>1, <2>2 DEF SlotsInv, ElementsFollow
<1>3. open /\ ~loaded => \A t \in Slot : reframe'[t] \in {None, Early}
  BY DEF SlotsInv, BeforeRead
<1> QED
  BY <1>1, <1>2, <1>3, StoreLeftKeeps

\* A crop begins, on what the element shows, or ends with nothing kept.
LEMMA ReframeKeeps ==
    ASSUME SlotsInv, open, NEW id \in Slot, StoreLeft, UNCHANGED <<bridge, live, gen, encoding, drops>>,
           NEW on, reframe' = [reframe EXCEPT ![id] = on],
           \/ on = None
           \/ id \in live /\ on = IF loaded THEN UserUrl(id) ELSE Early
    PROVE  SlotsInv' /\ OnlyNewer
<1>1. UserUrl(id) \in Image
  BY UserUrlIsImage DEF SlotsInv
<1>2. SlotsTypeOK'
  BY <1>1 DEF SlotsInv, SlotsTypeOK, StoreLeft, store
<1>3. \A t \in Slot : reframe'[t] = IF t = id THEN on ELSE reframe[t]
  BY DEF SlotsInv, SlotsTypeOK
<1>4. ElementsFollow'
  <2>1. \A t \in Slot : UserUrl(t)' = UserUrl(t)
    BY DEF UserUrl, StoreLeft, store
  <2> QED
    BY <1>3, <2>1 DEF SlotsInv, ElementsFollow
<1>5. open /\ ~loaded => \A t \in Slot : reframe'[t] \in {None, Early}
  BY <1>3 DEF SlotsInv, BeforeRead
<1> QED
  BY <1>2, <1>4, <1>5, StoreLeftKeeps

----------------------------------------------------------------------------
(* What a slot that is set does.                                           *)

\* What may be put in a slot.
Fits(id, entry) ==
    /\ entry \in Entry
    /\ UserUrl(id) <= entry.u /\ entry.u <= drops
    /\ entry.on \in {entry.u, Early}
    /\ ~loaded /\ entry.u = 0 => entry.on = Early

\* A save that finds none under way writes, throws, or finds no bridge.
SavesNow(content) ==
    \/ behind' = TRUE /\ UNCHANGED <<writes, saving>>
    \/ behind' = TRUE /\ UNCHANGED writes /\ saving' = TRUE
    \/ /\ UNCHANGED behind
       /\ writes' = writes \cup {Written(content, "save")}
       /\ saving' = TRUE

LEMMA SetSlotStore ==
    ASSUME SlotsTypeOK, NEW id \in Slot, NEW entry \in Entry, SetSlot(id, entry)
    PROVE  /\ slots' = [slots EXCEPT ![id] = entry] /\ slots' \in Content
           /\ touched' = touched \cup {id}
           /\ UNCHANGED <<file, bridge, copy, loaded, others>>
           /\ ~loaded => waiting' \in 1..2 /\ UNCHANGED <<writes, saving, saveDirty, behind>>
           /\ loaded => UNCHANGED waiting
           /\ loaded /\ saving => saveDirty' = TRUE /\ UNCHANGED <<writes, saving, behind>>
           /\ loaded /\ ~saving => SavesNow(slots') /\ UNCHANGED saveDirty
<1>1. /\ slots' = [slots EXCEPT ![id] = entry] /\ touched' = touched \cup {id}
      /\ UNCHANGED <<file, bridge, copy, loaded, others>>
  BY DEF SetSlot
<1>2. slots' \in Content
  BY <1>1 DEF SlotsTypeOK, Content
<1>3. CASE loaded
  <2>1. Save(slots') /\ UNCHANGED waiting
    BY <1>3, Zenon DEF SetSlot, SaveWhenRead
  <2>2. CASE saving
    BY <1>1, <1>2, <1>3, <2>1, <2>2, Zenon DEF Save
  <2>3. CASE ~saving
    <3>1. SavesNow(slots') /\ UNCHANGED saveDirty
      BY <2>1, <2>3, Zenon DEF Save, Post, SavesNow
    <3> QED
      BY <1>1, <1>2, <1>3, <2>1, <2>3, <3>1
  <2> QED
    BY <2>2, <2>3
<1>4. CASE ~loaded
  <2>1. waiting' = (IF waiting = 0 THEN 1 ELSE 2) /\ UNCHANGED <<writes, saving, saveDirty, behind>>
    BY <1>4, Zenon DEF SetSlot, SaveWhenRead
  <2> QED
    BY <1>1, <1>2, <1>4, <2>1
<1> QED
  BY <1>3, <1>4

\* The slot is newer than it was.
LEMMA SetSlotIsNewer ==
    ASSUME SlotsTypeOK, NEW id \in Slot, NEW entry, SetSlot(id, entry), Fits(id, entry)
    PROVE  OnlyNewer
<1>1. slots' = [slots EXCEPT ![id] = entry] /\ entry \in Entry
  BY DEF SetSlot, Fits
<1> SUFFICES ASSUME NEW t \in Slot, slots[t] # None
             PROVE  slots'[t] # None /\ ~(slots'[t].u < slots[t].u)
  BY DEF Older, OnlyNewer
<1>2. slots[t].u \in Nat
  BY ImagesAreNumbers DEF SlotsTypeOK, Content, Entry
<1>3. CASE t = id
  <2>1. slots'[t] = entry /\ UserUrl(id) = slots[t].u
    BY <1>1, <1>3 DEF SlotsTypeOK, Content, UserUrl
  <2>2. slots[t].u <= entry.u /\ entry.u \in Nat
    BY <2>1, ImagesAreNumbers DEF Fits, Entry
  <2> QED
    BY <1>1, <1>2, <2>1, <2>2, NothingIsNoEntry
<1>4. CASE t # id
  BY <1>1, <1>2, <1>4 DEF SlotsTypeOK, Content
<1> QED
  BY <1>3, <1>4

LEMMA SetSlotKeeps ==
    ASSUME SlotsInv, open, NEW id \in Slot, NEW entry, SetSlot(id, entry), Fits(id, entry),
           UNCHANGED <<open, merged, drops, gen>>,
           live \subseteq live', live' \subseteq Slot, encoding'[id] # {} => id \in live',
           reframe' = NotFraming(id),
           encoding' \in [Slot -> SUBSET Image],
           \A t \in Slot : encoding'[t] \subseteq encoding[t],
           gen[id] \in encoding'[id] => entry.u <= gen[id]
    PROVE  SlotsInv' /\ OnlyNewer
<1>1. SlotsTypeOK /\ entry \in Entry
  BY DEF SlotsInv, Fits
<1>2. /\ slots' = [slots EXCEPT ![id] = entry] /\ slots' \in Content
      /\ touched' = touched \cup {id}
      /\ UNCHANGED <<file, bridge, copy, loaded, others>>
      /\ ~loaded => waiting' \in 1..2 /\ UNCHANGED <<writes, saving, saveDirty, behind>>
      /\ loaded => UNCHANGED waiting
      /\ loaded /\ saving => saveDirty' = TRUE /\ UNCHANGED <<writes, saving, behind>>
      /\ loaded /\ ~saving => SavesNow(slots') /\ UNCHANGED saveDirty
  BY <1>1, SetSlotStore
<1>a. writes' = writes \/ writes' = writes \cup {Written(slots', "save")}
  BY <1>2 DEF SavesNow
<1>3. \A t \in Slot : /\ reframe'[t] = IF t = id THEN None ELSE reframe[t]
                      /\ slots'[t] = IF t = id THEN entry ELSE slots[t]
  BY <1>1, <1>2 DEF SlotsTypeOK, NotFraming, Content
<1>4. SlotsTypeOK'
  <2>1. reframe' \in [Slot -> Image \cup {Early, None}]
    BY <1>1 DEF SlotsTypeOK, NotFraming
  <2>2. writes' \subseteq [content: Content, by: {"save", "gone"}]
    <3>1. Written(slots', "save") \in [content: Content, by: {"save", "gone"}]
      BY <1>2, WrittenHolds
    <3> QED
      BY <1>1, <1>a, <3>1, Zenon DEF SlotsTypeOK
  <2>3. waiting' \in 0..2
    BY <1>1, <1>2 DEF SlotsTypeOK
  <2>4. saving' \in BOOLEAN /\ saveDirty' \in BOOLEAN /\ behind' \in BOOLEAN
    BY <1>1, <1>2, Zenon DEF SlotsTypeOK, SavesNow
  <2>5. touched' \subseteq Slot
    BY <1>1, <1>2 DEF SlotsTypeOK
  <2> QED
    BY <1>1, <1>2, <2>1, <2>2, <2>3, <2>4, <2>5, Zenon DEF SlotsTypeOK
<1>5. OneWrite'
  <2>1. CASE ~loaded
    BY <1>2, <2>1 DEF SlotsInv, BeforeRead, OneWrite
  <2>2. CASE loaded /\ saving
    BY <1>2, <2>2 DEF SlotsInv, OneWrite
  <2>3. CASE loaded /\ ~saving
    BY <1>2, <2>3 DEF SlotsInv, OneWrite, SavesNow
  <2> QED
    BY <2>1, <2>2, <2>3
<1>6. BeforeRead'
  BY <1>2, <1>3 DEF SlotsInv, BeforeRead, Fits, Own
<1>7. ElementsFollow'
  <2>1. UserUrl(id)' = entry.u /\ \A t \in Slot \ {id} : UserUrl(t)' = UserUrl(t)
    BY <1>1, <1>3, NothingIsNoEntry DEF UserUrl
  <2> SUFFICES ASSUME NEW t \in Slot
      PROVE /\ reframe'[t] # None => t \in live' /\ reframe'[t] \in {Early, UserUrl(t)'}
            /\ encoding'[t] # {} => t \in live'
            /\ encoding'[t] \subseteq 2..drops'
            /\ UserUrl(t)' <= drops'
            /\ gen'[t] \in encoding'[t] => UserUrl(t)' <= gen'[t]
    BY DEF ElementsFollow
  <2>2. CASE t = id
    BY <1>3, <2>1, <2>2 DEF SlotsInv, ElementsFollow, Fits
  <2>3. CASE t # id
    BY <1>3, <2>1, <2>3 DEF SlotsInv, ElementsFollow
  <2> QED
    BY <2>2, <2>3
<1>8. UntouchedAgree'
  <2> SUFFICES ASSUME merged, NEW t \in Slot \ touched'
               PROVE  /\ t \in Own => file[t] = slots'[t]
                      /\ \A w \in writes' : w.content[t] = slots'[t]
    BY <1>2 DEF UntouchedAgree, Own
  <2>1. t \notin touched /\ t # id /\ slots'[t] = slots[t]
    BY <1>2, <1>3
  <2>2. (t \in Own => file[t] = slots[t]) /\ \A w \in writes : w.content[t] = slots[t]
    BY <2>1 DEF SlotsInv, UntouchedAgree
  <2>3. \A w \in writes' : w \in writes \/ w = Written(slots', "save")
    BY <1>a
  <2>4. Written(slots', "save").content = slots'
    BY <1>2, WrittenHolds
  <2> QED
    BY <2>1, <2>2, <2>3, <2>4
<1>9. InOrder'
  <2> SUFFICES ASSUME merged, NEW t \in Slot
               PROVE  /\ t \in Own => ~Older(t, file, slots')
                      /\ \A w \in writes' :
                            /\ t \in Own => ~Older(t, file, w.content)
                            /\ ~Older(t, w.content, slots')
    BY <1>2 DEF InOrder, Own
  <2>2. ~Older(t, slots, slots')
    BY <1>1, SetSlotIsNewer DEF OnlyNewer
  <2>3. file \in Content /\ slots \in Content /\ \A w \in writes : w.content \in Content
    BY <1>1 DEF SlotsTypeOK
  <2>4. t \in Own => ~Older(t, file, slots')
    BY <1>2, <2>2, <2>3, OlderIsTransitive DEF SlotsInv, InOrder
  <2>5. ASSUME NEW w \in writes
        PROVE  (t \in Own => ~Older(t, file, w.content)) /\ ~Older(t, w.content, slots')
    BY <1>2, <2>2, <2>3, OlderIsTransitive DEF SlotsInv, InOrder
  <2>6. ~Older(t, slots', slots')
    BY <1>2, NothingIsOlderThanItself
  <2>7. \A w \in writes' : w \in writes \/ w.content = slots'
    <3>1. Written(slots', "save").content = slots'
      BY <1>2, WrittenHolds
    <3> QED
      BY <1>a, <3>1
  <2> QED
    BY <2>4, <2>5, <2>6, <2>7
<1>10. QuietFileIsMemory'
  <2>1. merged => loaded
    BY DEF SlotsInv, BeforeRead
  <2> QED
    BY <1>2, <2>1 DEF QuietFileIsMemory, SavesNow
<1>11. CropIsOfItsImage'
  BY <1>3 DEF SlotsInv, CropIsOfItsImage, Fits
<1>12. OnlyNewer
  BY <1>1, SetSlotIsNewer
<1> QED
  BY <1>4, <1>5, <1>6, <1>7, <1>8, <1>9, <1>10, <1>11, <1>12 DEF SlotsInv

LEMMA EncodedKeeps ==
    ASSUME SlotsInv, open, NEW id \in Slot, Encoded(id)
    PROVE  SlotsInv' /\ OnlyNewer
<1>1. PICK n \in encoding[id] :
          /\ encoding' = [encoding EXCEPT ![id] = @ \ {n}]
          /\ IF Newest(id, n)
             THEN reframe' = NotFraming(id) /\ SetSlot(id, Whole(n))
             ELSE UNCHANGED <<host, store, reframe, touched, others>>
          /\ UNCHANGED <<live, gen, open, drops, merged>>
  BY DEF Encoded
<1>2. SlotsTypeOK /\ ElementsFollow
  BY DEF SlotsInv
<1>3. CASE ~Newest(id, n)
  <2>1. Forgotten(id) /\ StoreLeft /\ UNCHANGED <<bridge, reframe>>
    BY <1>1, <1>3 DEF Forgotten, StoreLeft, host
  <2> QED
    BY <1>1, <1>3, <2>1, ForgottenKeeps
<1>4. CASE Newest(id, n)
  <2>1. /\ n = gen[id] /\ n \in Image /\ n \in Nat /\ 2 <= n /\ n <= drops
        /\ UserUrl(id) <= n /\ id \in live /\ live \subseteq Slot
    BY <1>1, <1>2, <1>4, ImagesAreNumbers DEF Newest, SlotsTypeOK, ElementsFollow
  <2>2. Whole(n) \in Entry /\ Whole(n).u = n /\ Whole(n).on = n
    BY <2>1, WholeIsEntry
  <2>3. Fits(id, Whole(n))
    BY <2>1, <2>2 DEF Fits
  <2>4. /\ encoding' \in [Slot -> SUBSET Image]
        /\ \A t \in Slot : encoding'[t] \subseteq encoding[t]
        /\ gen[id] \notin encoding'[id]
    BY <1>1, <1>2, <2>1 DEF SlotsTypeOK
  <2> QED
    BY <1>1, <1>4, <2>1, <2>3, <2>4, SetSlotKeeps
<1> QED
  BY <1>3, <1>4

LEMMA EnterReframeKeeps ==
    ASSUME SlotsInv, open, NEW id \in Slot, EnterReframe(id)
    PROVE  SlotsInv' /\ OnlyNewer
<1> DEFINE on == IF loaded THEN UserUrl(id) ELSE Early
<1>1. StoreLeft /\ UNCHANGED <<bridge, live, gen, encoding, drops>>
  BY DEF EnterReframe, StoreLeft, host, history
<1>2. id \in live /\ reframe' = [reframe EXCEPT ![id] = on]
  BY DEF EnterReframe
<1> QED
  BY <1>1, <1>2, ReframeKeeps

LEMMA ReconnectKeeps ==
    ASSUME SlotsInv, open, NEW id \in Slot, Reconnect(id)
    PROVE  SlotsInv' /\ OnlyNewer
<1>1. StoreLeft /\ UNCHANGED <<bridge, live, gen, encoding, drops>>
  BY DEF Reconnect, StoreLeft, host, history
<1>2. reframe' = [reframe EXCEPT ![id] = None]
  BY DEF Reconnect, NotFraming
<1> QED
  BY <1>1, <1>2, ReframeKeeps

\* A crop is of what its element shows.
LEMMA FramedFits ==
    ASSUME SlotsInv, open, NEW id \in Slot, reframe[id] # None
    PROVE  Fits(id, Framed(id)) /\ id \in live
<1>1. UserUrl(id) \in Image /\ UserUrl(id) \in Nat
  BY UserUrlIsImage, ImagesAreNumbers DEF SlotsInv
<1>2. reframe[id] \in {Early, UserUrl(id)} /\ UserUrl(id) <= drops /\ id \in live
  BY DEF SlotsInv, ElementsFollow
<1>3. ~loaded => reframe[id] = Early
  BY DEF SlotsInv, BeforeRead
<1>4. /\ Framed(id) \in Entry
      /\ Framed(id).u = UserUrl(id) /\ Framed(id).on = reframe[id]
  BY <1>1, <1>2 DEF Framed, Entry
<1> QED
  BY <1>1, <1>2, <1>3, <1>4 DEF Fits

LEMMA ExitReframeKeeps ==
    ASSUME SlotsInv, open, NEW id \in Slot, ExitReframe(id)
    PROVE  SlotsInv' /\ OnlyNewer
<1>1. /\ reframe[id] # None /\ reframe' = NotFraming(id) /\ SetSlot(id, Framed(id))
      /\ UNCHANGED <<live, gen, encoding, open, drops, merged>>
  BY DEF ExitReframe
<1>2. Fits(id, Framed(id)) /\ id \in live
  BY <1>1, FramedFits
<1>3. Framed(id).u = UserUrl(id)
  BY DEF Framed
<1>4. /\ encoding \in [Slot -> SUBSET Image] /\ live \subseteq Slot
      /\ gen[id] \in encoding[id] => UserUrl(id) <= gen[id]
  BY DEF SlotsInv, SlotsTypeOK, ElementsFollow
<1> QED
  BY <1>1, <1>2, <1>3, <1>4, SetSlotKeeps

LEMMA CloneSlotKeeps ==
    ASSUME SlotsInv, open, NEW from \in Slot, NEW to \in Slot, CloneSlot(from, to)
    PROVE  SlotsInv' /\ OnlyNewer
<1>1. /\ loaded /\ from \in live /\ to \notin live /\ live' \in {live, live \cup {to}}
      /\ UNCHANGED <<reframe, gen, encoding, open, drops, merged>>
      /\ SlotsTypeOK /\ ElementsFollow
  BY DEF CloneSlot, SlotsInv
<1>2. live \subseteq live' /\ live' \subseteq Slot
  BY <1>1 DEF SlotsTypeOK
<1>3. CASE slots[to] = None /\ slots[from] # None /\ SetSlot(to, slots[from])
  <2>1. slots[from] \in Entry /\ slots[from].u \in Nat /\ slots[from].u = UserUrl(from)
    <3>1. slots[from] \in Entry
      BY <1>1, <1>3 DEF SlotsTypeOK, Content
    <3> QED
      BY <1>3, <3>1, ImagesAreNumbers DEF Entry, UserUrl
  <2>2. UserUrl(to) = 0
    BY <1>3 DEF UserUrl
  <2>3. slots[from].on \in {slots[from].u, Early} /\ UserUrl(from) <= drops
    BY <1>1, <1>3 DEF SlotsInv, CropIsOfItsImage, ElementsFollow
  <2>4. Fits(to, slots[from])
    BY <1>1, <2>1, <2>2, <2>3 DEF Fits
  <2>5. reframe[to] = None /\ encoding[to] = {}
    BY <1>1 DEF ElementsFollow
  <2>6. reframe' = NotFraming(to)
    BY <1>1, <2>5 DEF NotFraming, SlotsTypeOK
  <2>7. encoding' \in [Slot -> SUBSET Image]
    BY <1>1 DEF SlotsTypeOK
  <2> QED
    BY <1>1, <1>2, <1>3, <2>4, <2>5, <2>6, <2>7, SetSlotKeeps
<1>4. CASE UNCHANGED <<host, store, touched, others>>
  <2>1. StoreLeft
    BY <1>1, <1>4 DEF StoreLeft, host
  <2>2. SlotsTypeOK'
    BY <1>1, <1>2, <1>4 DEF SlotsTypeOK, store, host
  <2>3. ElementsFollow'
    <3>1. \A t \in Slot : UserUrl(t)' = UserUrl(t)
      BY <1>4 DEF UserUrl, store
    <3> QED
      BY <1>1, <3>1 DEF ElementsFollow
  <2>4. open /\ ~loaded => \A t \in Slot : reframe'[t] \in {None, Early}
    BY <1>1
  <2> QED
    BY <2>1, <2>2, <2>3, <2>4, StoreLeftKeeps
<1> QED
  BY <1>3, <1>4 DEF CloneSlot

----------------------------------------------------------------------------
(* The read, the host's answers, the end of the page.                      *)

LEMMA MergeIsContent ==
    ASSUME SlotsInv, open, ~loaded, copy # None
    PROVE  /\ Merge \in Content
           /\ \A id \in Slot :
                 /\ Merge[id] # None =>
                       /\ Merge[id].on \in {Merge[id].u, Early}
                       /\ Merge[id].u \in Nat /\ Merge[id].u <= drops
                       /\ Merge[id].u = 1 \/ Merge[id] = slots[id]
                 /\ slots[id] = None => Merge[id] = copy[id]
                 /\ slots[id] # None => Merge[id] # None /\ Merge[id].u >= slots[id].u
                 /\ copy[id] # None => Merge[id] # None /\ Merge[id].u >= copy[id].u
<1>1. SlotsTypeOK /\ BeforeRead /\ ElementsFollow /\ CropIsOfItsImage
  BY DEF SlotsInv
<1>2. 1 <= drops /\ drops \in Nat
  BY <1>1, ImagesAreNumbers DEF SlotsTypeOK
<1>3. ASSUME NEW id \in Slot
      PROVE  /\ Merge[id] \in Entry \cup {None}
             /\ Merge[id] # None =>
                   /\ Merge[id].on \in {Merge[id].u, Early}
                   /\ Merge[id].u \in Nat /\ Merge[id].u <= drops
                   /\ Merge[id].u = 1 \/ Merge[id] = slots[id]
             /\ slots[id] = None => Merge[id] = copy[id]
             /\ slots[id] # None => Merge[id] # None /\ Merge[id].u >= slots[id].u
             /\ copy[id] # None => Merge[id] # None /\ Merge[id].u >= copy[id].u
  <2>1. copy[id] = None \/ (copy[id] \in Entry /\ copy[id].u = 1 /\ copy[id].on = 1)
    <3>1. Whole(1) \in Entry /\ Whole(1).u = 1 /\ Whole(1).on = 1
      BY WholeIsEntry, ImagesAreNumbers
    <3>2. copy[id] = None \/ copy[id] = Whole(1)
      BY <1>1 DEF BeforeRead
    <3> QED
      BY <3>1, <3>2, Zenon
  <2>2. CASE slots[id] = None
    BY <1>2, <2>1, <2>2 DEF Merge
  <2>3. CASE slots[id] # None
    <3>1. /\ slots[id] \in Entry /\ slots[id].u \in Nat /\ slots[id].u <= drops
          /\ slots[id].on \in {slots[id].u, Early}
          /\ slots[id].u = 0 => slots[id].on = Early
      BY <1>1, <2>3, ImagesAreNumbers
         DEF SlotsTypeOK, Content, Entry, BeforeRead, ElementsFollow, UserUrl, CropIsOfItsImage
    <3>2. Merge[id] = Inherit(id)
      BY <2>3 DEF Merge
    <3>3. CASE slots[id].u = 0 /\ copy[id] # None
      <4>1. Inherit(id) = [slots[id] EXCEPT !.u = copy[id].u]
        BY <3>3 DEF Inherit
      <4>2. Inherit(id) \in Entry /\ Inherit(id).u = 1 /\ Inherit(id).on = Early
        BY <2>1, <3>1, <3>3, <4>1, ImagesAreNumbers DEF Entry
      <4> QED
        BY <1>2, <2>1, <2>3, <3>1, <3>2, <3>3, <4>2, NothingIsNoEntry
    <3>4. CASE ~(slots[id].u = 0 /\ copy[id] # None)
      <4>1. Inherit(id) = slots[id]
        BY <3>4 DEF Inherit
      <4> QED
        BY <2>1, <2>3, <3>1, <3>2, <3>4, <4>1
    <3> QED
      BY <3>3, <3>4
  <2> QED
    BY <2>2, <2>3
<1> QED
  BY <1>3 DEF Merge, Content

LEMMA ReadEndsKeeps ==
    ASSUME SlotsInv, open, NEW content \in Content, NEW complete \in BOOLEAN,
           ReadEnds(content, complete),
           \A id \in Slot : content[id] # None =>
               /\ content[id].on \in {content[id].u, Early}
               /\ content[id].u \in Nat /\ content[id].u <= drops
               /\ content[id].u = 1 \/ content[id] = slots[id],
           complete => \A id \in Own : /\ slots[id] = None => content[id] = file[id]
                                       /\ ~Older(id, file, content)
    PROVE  SlotsInv'
<1>1. /\ SlotsTypeOK /\ BeforeRead /\ ElementsFollow /\ OneWrite
      /\ ~loaded /\ loaded' = TRUE /\ slots' = content /\ merged' = complete
      /\ waiting' = 0 /\ copy' = None
      /\ UNCHANGED <<file, bridge, elements, open, drops, touched, others>>
  BY DEF SlotsInv, ReadEnds
<1>a. \/ waiting = 0 /\ UNCHANGED <<writes, saving, saveDirty, behind>>
      \/ behind' = TRUE /\ UNCHANGED <<writes, saving, saveDirty>>
      \/ behind' = TRUE /\ UNCHANGED writes /\ saving' = TRUE /\ saveDirty' = (waiting > 1)
      \/ /\ UNCHANGED behind /\ writes' = writes \cup {Written(content, "save")}
         /\ saving' = TRUE /\ saveDirty' = (waiting > 1)
  BY Zenon DEF ReadEnds, SaveWaiting, Post
<1>2. ~saving /\ ~saveDirty /\ writes = {}
  BY <1>1 DEF BeforeRead, OneWrite
<1>3. UNCHANGED <<live, reframe, gen, encoding>>
  BY <1>1 DEF elements
<1>4. /\ Written(content, "save") \in [content: Content, by: {"save", "gone"}]
      /\ Written(content, "save").content = content
  BY WrittenHolds
<1>5. SlotsTypeOK'
  <2>1. writes' \subseteq [content: Content, by: {"save", "gone"}]
    BY <1>a, <1>2, <1>4
  <2>2. saving' \in BOOLEAN /\ saveDirty' \in BOOLEAN /\ behind' \in BOOLEAN
    <3>1. (waiting > 1) \in BOOLEAN
      OBVIOUS
    <3> QED
      BY <1>1, <1>a, <3>1, Zenon DEF SlotsTypeOK
  <2>3. waiting' \in 0..2
    BY <1>1
  <2> QED
    BY <1>1, <1>3, <2>1, <2>2, <2>3, Zenon DEF SlotsTypeOK
<1>6. OneWrite'
  <2>1. CASE UNCHANGED <<writes, saving, saveDirty>>
    BY <1>2, <2>1 DEF OneWrite
  <2>2. CASE behind' = TRUE /\ UNCHANGED writes /\ saving' = TRUE
    BY <1>2, <2>2 DEF OneWrite
  <2>3. CASE writes' = writes \cup {Written(content, "save")} /\ saving' = TRUE
    BY <1>1, <1>2, <2>3 DEF OneWrite
  <2> QED
    BY <1>a, <2>1, <2>2, <2>3
<1>7. BeforeRead'
  BY <1>1 DEF BeforeRead
<1>8. ElementsFollow'
  <2> SUFFICES ASSUME NEW id \in Slot
      PROVE /\ reframe'[id] # None => id \in live' /\ reframe'[id] \in {Early, UserUrl(id)'}
            /\ encoding'[id] # {} => id \in live'
            /\ encoding'[id] \subseteq 2..drops'
            /\ UserUrl(id)' <= drops'
            /\ gen'[id] \in encoding'[id] => UserUrl(id)' <= gen'[id]
    BY DEF ElementsFollow
  <2>1. UserUrl(id)' = IF content[id] = None THEN 0 ELSE content[id].u
    BY <1>1 DEF UserUrl
  <2>2. drops \in Nat
    BY <1>1, ImagesAreNumbers DEF SlotsTypeOK
  <2>3. UserUrl(id)' <= drops
    BY <2>1, <2>2
  <2>4. gen[id] \in encoding[id] => UserUrl(id)' <= gen[id]
    <3> SUFFICES ASSUME gen[id] \in encoding[id] PROVE UserUrl(id)' <= gen[id]
      OBVIOUS
    <3>1. gen[id] \in Nat /\ 2 <= gen[id] /\ UserUrl(id) <= gen[id]
      BY <1>1, <2>2 DEF ElementsFollow
    <3>2. content[id] # None /\ content[id] = slots[id] => UserUrl(id)' = UserUrl(id)
      BY <2>1 DEF UserUrl
    <3> QED
      BY <2>1, <3>1, <3>2
  <2>5. reframe[id] \in {None, Early}
    BY <1>1 DEF BeforeRead
  <2> QED
    BY <1>1, <1>3, <2>3, <2>4, <2>5 DEF ElementsFollow
<1>9. \A w \in writes' : w.content = content
  BY <1>a, <1>2, <1>4
<1>10. UntouchedAgree'
  BY <1>1, <1>9 DEF UntouchedAgree, BeforeRead, Own
<1>11. InOrder'
  BY <1>1, <1>9, NothingIsOlderThanItself DEF InOrder, Own
<1>12. QuietFileIsMemory'
  <2> SUFFICES ASSUME merged', ~saving', ~behind', NEW id \in Own PROVE file[id] = content[id]
    BY <1>1 DEF QuietFileIsMemory, Own
  <2>1. waiting = 0 /\ slots = Closed
    BY <1>1, <1>a DEF BeforeRead
  <2> QED
    BY <1>1, <2>1 DEF Closed, Own
<1>13. CropIsOfItsImage'
  BY <1>1 DEF CropIsOfItsImage
<1> QED
  BY <1>5, <1>6, <1>7, <1>8, <1>10, <1>11, <1>12, <1>13 DEF SlotsInv

LEMMA ReadAnsweredKeeps ==
    ASSUME SlotsInv, open, ReadAnswered
    PROVE  SlotsInv' /\ OnlyNewer
<1>1. ReadEnds(Merge, TRUE) /\ ~loaded /\ copy # None /\ TRUE \in BOOLEAN
  BY DEF ReadAnswered, ReadEnds
<1>2. ASSUME NEW id \in Own
      PROVE  (slots[id] = None => Merge[id] = file[id]) /\ ~Older(id, file, Merge)
  <2>1. id \in Slot /\ copy[id] = file[id]
    BY <1>1, <1>2 DEF SlotsInv, BeforeRead, Own
  <2>2. file[id] # None => file[id].u \in Nat
    BY <2>1, ImagesAreNumbers DEF SlotsInv, SlotsTypeOK, Content, Entry
  <2>3. /\ slots[id] = None => Merge[id] = copy[id]
        /\ copy[id] # None => Merge[id] # None /\ Merge[id].u \in Nat /\ Merge[id].u >= copy[id].u
    BY <1>1, <2>1, MergeIsContent
  <2> QED
    BY <2>1, <2>2, <2>3 DEF Older
<1>3. ASSUME NEW id \in Slot PROVE ~Older(id, slots, Merge)
  <2> SUFFICES ASSUME slots[id] # None
               PROVE  Merge[id] # None /\ ~(Merge[id].u < slots[id].u)
    BY DEF Older
  <2>1. slots[id].u \in Nat
    BY ImagesAreNumbers DEF SlotsInv, SlotsTypeOK, Content, Entry
  <2>2. Merge[id] # None /\ Merge[id].u \in Nat /\ Merge[id].u >= slots[id].u
    BY <1>1, MergeIsContent
  <2> QED
    BY <2>1, <2>2
<1>4. slots' = Merge
  BY <1>1 DEF ReadEnds
<1>5. SlotsInv'
  BY <1>1, <1>2, MergeIsContent, ReadEndsKeeps
<1> QED
  BY <1>3, <1>4, <1>5 DEF OnlyNewer

LEMMA ReadFailsKeeps ==
    ASSUME SlotsInv, open, ReadFails
    PROVE  SlotsInv' /\ OnlyNewer
<1>1. ReadEnds(slots, FALSE) /\ slots \in Content /\ FALSE \in BOOLEAN
  BY DEF ReadFails, SlotsInv, SlotsTypeOK
<1>2. ASSUME NEW id \in Slot, slots[id] # None
      PROVE  /\ slots[id].on \in {slots[id].u, Early}
             /\ slots[id].u \in Nat /\ slots[id].u <= drops
  BY <1>1, <1>2, ImagesAreNumbers
     DEF SlotsInv, CropIsOfItsImage, ElementsFollow, UserUrl, Content, Entry
<1>3. OnlyNewer
  BY <1>1, UnchangedIsNewer DEF ReadEnds, SlotsInv
<1>4. SlotsInv'
  BY <1>1, <1>2, ReadEndsKeeps
<1> QED
  BY <1>3, <1>4

\* The host answers the read before the page has written anything.
LEMMA ReadServedKeeps ==
    ASSUME SlotsInv, open, ReadServed
    PROVE  SlotsInv' /\ OnlyNewer
<1>1. /\ SlotsTypeOK /\ ~loaded /\ ~merged /\ copy' = file /\ others' = {}
      /\ UNCHANGED <<file, writes, bridge, store, elements, open, drops, touched, merged>>
  BY DEF SlotsInv, ReadServed, BeforeRead
<1>2. /\ UNCHANGED <<slots, loaded, waiting, saving, saveDirty, behind>>
      /\ UNCHANGED <<live, reframe, gen, encoding>>
  BY <1>1 DEF store, elements
<1>3. SlotsTypeOK'
  BY <1>1, <1>2, Zenon DEF SlotsTypeOK
<1>4. OneWrite' /\ UntouchedAgree' /\ InOrder' /\ QuietFileIsMemory' /\ CropIsOfItsImage'
  BY <1>1, <1>2 DEF SlotsInv, OneWrite, UntouchedAgree, InOrder, QuietFileIsMemory, CropIsOfItsImage
<1>5. BeforeRead'
  BY <1>1, <1>2 DEF SlotsInv, BeforeRead, Own
<1>6. ElementsFollow'
  BY <1>1, <1>2 DEF SlotsInv, ElementsFollow, UserUrl
<1> QED
  BY <1>1, <1>2, <1>3, <1>4, <1>5, <1>6, UnchangedIsNewer DEF SlotsInv

\* Another page or the agent writes: what was so of the slots it changes is no
\* longer said.
LEMMA OthersWriteKeeps ==
    ASSUME SlotsInv, OthersWrite
    PROVE  SlotsInv' /\ OnlyNewer
<1>1. PICK changed \in (SUBSET Slot) \ {{}} :
          /\ file' = [id \in Slot |-> IF id \in changed THEN Replaced(file[id]) ELSE file[id]]
          /\ others' = changed
  BY DEF OthersWrite
<1>2. /\ SlotsTypeOK /\ others = {} /\ changed \subseteq Slot
      /\ UNCHANGED <<writes, bridge, copy, store, elements, open, drops, touched, merged>>
  BY DEF SlotsInv, OthersWrite
<1>3. /\ UNCHANGED <<slots, loaded, waiting, saving, saveDirty, behind>>
      /\ UNCHANGED <<live, reframe, gen, encoding>>
  BY <1>2 DEF store, elements
<1>4. ASSUME NEW id \in Slot
      PROVE  /\ file'[id] \in Entry \cup {None}
             /\ id \in Own' => id \in Own /\ file'[id] = file[id]
             /\ file[id] \in {None, Whole(1)} => file'[id] \in {None, Whole(1)}
  BY <1>1, <1>2, WholeIsEntry, ImagesAreNumbers DEF Replaced, Own, SlotsTypeOK, Content
<1>5. SlotsTypeOK'
  <2>1. file' \in Content
    BY <1>1, <1>4 DEF Content
  <2> QED
    BY <1>1, <1>2, <1>3, <2>1, Zenon DEF SlotsTypeOK
<1>6. OneWrite' /\ CropIsOfItsImage' /\ ElementsFollow'
  BY <1>2, <1>3 DEF SlotsInv, OneWrite, CropIsOfItsImage, ElementsFollow, UserUrl
<1>7. BeforeRead'
  BY <1>2, <1>3, <1>4 DEF SlotsInv, BeforeRead
<1>8. UntouchedAgree'
  BY <1>2, <1>3, <1>4 DEF SlotsInv, UntouchedAgree
<1>9. InOrder'
  BY <1>2, <1>3, <1>4 DEF SlotsInv, InOrder, Older
<1>10. QuietFileIsMemory'
  <2>1. \A id \in Own' : id \in Slot
    BY DEF Own
  <2> QED
    BY <1>2, <1>3, <1>4, <2>1 DEF SlotsInv, QuietFileIsMemory
<1> QED
  BY <1>2, <1>3, <1>5, <1>6, <1>7, <1>8, <1>9, <1>10, UnchangedIsNewer DEF SlotsInv

LEMMA WriteEndsKeeps ==
    ASSUME SlotsInv, NEW w \in writes, NEW done \in BOOLEAN, WriteEnds(w, done)
    PROVE  SlotsInv' /\ OnlyNewer
<1>1. /\ SlotsTypeOK /\ OneWrite /\ w.content \in Content
      /\ file' = IF done THEN w.content ELSE file
      /\ others' = IF done THEN {} ELSE others
      /\ UNCHANGED <<bridge, copy, slots, loaded, waiting, elements, open, drops, touched, merged>>
  BY DEF SlotsInv, SlotsTypeOK, WriteEnds
<1>2. \/ /\ w.by = "save" /\ saveDirty' = FALSE /\ ~saveDirty /\ saving' = FALSE
         /\ writes' = writes \ {w} /\ behind' = ~done
      \/ /\ w.by = "save" /\ saveDirty' = FALSE /\ saving' = TRUE
         /\ writes' = (writes \ {w}) \cup {Written(slots, "save")} /\ behind' = ~done
      \/ /\ w.by = "save" /\ saveDirty' = FALSE /\ saving' = TRUE
         /\ writes' = writes \ {w} /\ behind' = TRUE
      \/ /\ w.by = "gone" /\ writes' = writes \ {w}
         /\ UNCHANGED <<saving, saveDirty, behind>>
  BY Zenon DEF WriteEnds, SaveAnswered, Post
<1>3. UNCHANGED <<live, reframe, gen, encoding>>
  BY <1>1 DEF elements
<1>4. /\ Written(slots, "save") \in [content: Content, by: {"save", "gone"}]
      /\ Written(slots, "save").content = slots
  BY <1>1, WrittenHolds DEF SlotsTypeOK
<1>5. \A v \in writes' : v \in writes \/ v = Written(slots, "save")
  BY <1>2
<1>6. SlotsTypeOK'
  <2>1. file' \in Content /\ others' \subseteq Slot
    BY <1>1 DEF SlotsTypeOK
  <2>2. writes' \subseteq [content: Content, by: {"save", "gone"}]
    BY <1>1, <1>4, <1>5 DEF SlotsTypeOK
  <2>3. saving' \in BOOLEAN /\ saveDirty' \in BOOLEAN /\ behind' \in BOOLEAN
    BY <1>1, <1>2, Zenon DEF SlotsTypeOK
  <2> QED
    BY <1>1, <1>3, <2>1, <2>2, <2>3, Zenon DEF SlotsTypeOK
<1>7. ASSUME open PROVE OneWrite' /\ BeforeRead' /\ InOrder' /\ QuietFileIsMemory'
  <2>1. PICK c \in Content : saving /\ writes = {Written(c, "save")} /\ (~saveDirty => c = slots)
    BY <1>1, <1>7 DEF OneWrite
  <2>2. w = Written(c, "save") /\ w.content = c /\ w.by = "save"
    BY <2>1, WrittenHolds
  <2>3. \/ /\ saveDirty' = FALSE /\ ~saveDirty /\ saving' = FALSE /\ writes' = {} /\ behind' = ~done
        \/ saveDirty' = FALSE /\ saving' = TRUE /\ writes' = {Written(slots, "save")}
        \/ saveDirty' = FALSE /\ saving' = TRUE /\ writes' = {} /\ behind' = TRUE
    BY <1>2, <2>1, <2>2
  <2>4. OneWrite'
    BY <1>1, <2>3 DEF OneWrite, SlotsTypeOK
  <2>5. loaded
    BY <1>7, <2>1 DEF SlotsInv, BeforeRead
  <2>6. BeforeRead'
    BY <1>1, <2>5 DEF BeforeRead
  <2>7. InOrder'
    <3> SUFFICES ASSUME merged, NEW id \in Slot
                 PROVE  /\ id \in Own' => ~Older(id, file', slots)
                        /\ \A v \in writes' :
                              /\ id \in Own' => ~Older(id, file', v.content)
                              /\ ~Older(id, v.content, slots)
      BY <1>1 DEF InOrder
    <3>1. (id \in Own => ~Older(id, file, slots)) /\ ~Older(id, w.content, slots)
      BY <1>7 DEF SlotsInv, InOrder
    <3>2. id \in Own' => ~Older(id, file', slots)
      BY <1>1, <3>1 DEF Own
    <3>3. ~Older(id, slots, slots)
      BY <1>1, NothingIsOlderThanItself DEF SlotsTypeOK
    <3>4. \A v \in writes' : v = Written(slots, "save")
      BY <2>3
    <3> QED
      BY <1>4, <3>2, <3>3, <3>4
  <2>8. QuietFileIsMemory'
    BY <1>1, <2>1, <2>2, <2>3 DEF QuietFileIsMemory
  <2> QED
    BY <2>4, <2>6, <2>7, <2>8
<1>8. ASSUME ~open PROVE OneWrite' /\ BeforeRead' /\ InOrder' /\ QuietFileIsMemory'
  BY <1>1, <1>8 DEF OneWrite, BeforeRead, InOrder, QuietFileIsMemory
<1>9. OneWrite' /\ BeforeRead' /\ InOrder' /\ QuietFileIsMemory'
  BY <1>7, <1>8
<1>10. ElementsFollow'
  <2>1. \A t \in Slot : UserUrl(t)' = UserUrl(t)
    BY <1>1 DEF UserUrl
  <2> QED
    BY <1>1, <1>3, <2>1 DEF SlotsInv, ElementsFollow
<1>11. UntouchedAgree'
  <2> SUFFICES ASSUME merged, NEW t \in Slot \ touched
               PROVE  /\ t \in Own' => file'[t] = slots[t]
                      /\ \A v \in writes' : v.content[t] = slots[t]
    BY <1>1 DEF UntouchedAgree
  <2>1. (t \in Own => file[t] = slots[t]) /\ \A v \in writes : v.content[t] = slots[t]
    BY DEF SlotsInv, UntouchedAgree
  <2>2. t \in Own' => file'[t] = slots[t]
    BY <1>1, <2>1 DEF Own
  <2> QED
    BY <1>4, <1>5, <2>1, <2>2
<1>12. CropIsOfItsImage'
  BY <1>1 DEF SlotsInv, CropIsOfItsImage
<1>13. OnlyNewer
  BY <1>1, UnchangedIsNewer
<1> QED
  BY <1>6, <1>9, <1>10, <1>11, <1>12, <1>13 DEF SlotsInv

\* The page goes: the crops under way are committed, and nothing is read or
\* saved any more.
LEMMA PageHidesKeeps ==
    ASSUME SlotsInv, open, PageHides
    PROVE  SlotsInv' /\ OnlyNewer
<1>1. /\ SlotsTypeOK /\ ElementsFollow
      /\ open' = FALSE /\ slots' = Committed(Framing) /\ reframe' = Closed
      /\ touched' = touched \cup Framing
      /\ saving' = FALSE /\ saveDirty' = FALSE /\ waiting' = 0 /\ behind' = FALSE
      /\ copy' = None /\ live' = {}
      /\ gen' = [id \in Slot |-> 0] /\ encoding' = [id \in Slot |-> {}]
      /\ UNCHANGED <<file, bridge, loaded, drops, others, merged>>
  BY DEF SlotsInv, PageHides
<1>2. PICK posted \in SUBSET {Committed(ids) : ids \in (SUBSET Framing) \ {{}}} :
          writes' = {Written(c, "gone") : c \in {w.content : w \in writes} \cup posted}
  BY Zenon DEF PageHides
<1>3. Framing \subseteq Slot /\ \A id \in Framing : Fits(id, Framed(id))
  BY FramedFits DEF Framing
<1>4. ASSUME NEW ids \in SUBSET Framing
      PROVE  /\ Committed(ids) \in Content
             /\ \A id \in Slot :
                   Committed(ids)[id] = IF id \in ids THEN Framed(id) ELSE slots[id]
  BY <1>1, <1>3 DEF Committed, Fits, SlotsTypeOK, Content
<1>5. ASSUME NEW v \in writes'
      PROVE  /\ v \in [content: Content, by: {"save", "gone"}]
             /\ \/ \E w \in writes : v.content = w.content
                \/ \E ids \in SUBSET Framing : v.content = Committed(ids)
  <2>1. PICK c \in {w.content : w \in writes} \cup posted : v = Written(c, "gone")
    BY <1>2
  <2>2. \/ \E w \in writes : c = w.content
        \/ \E ids \in SUBSET Framing : c = Committed(ids)
    BY Zenon
  <2>3. c \in Content
    BY <1>1, <1>4, <2>2 DEF SlotsTypeOK
  <2>4. v.content = c /\ v \in [content: Content, by: {"save", "gone"}]
    BY <2>1, <2>3, WrittenHolds
  <2> QED
    BY <2>2, <2>4
<1>6. SlotsTypeOK'
  <2>1. /\ reframe' \in [Slot -> Image \cup {Early, None}] /\ encoding' \in [Slot -> SUBSET Image]
        /\ gen' \in [Slot -> Image]
    BY <1>1, ImagesAreNumbers DEF Closed
  <2>2. touched' \subseteq Slot /\ live' \subseteq Slot /\ waiting' \in 0..2
    BY <1>1, <1>3 DEF SlotsTypeOK
  <2>3. saving' \in BOOLEAN /\ saveDirty' \in BOOLEAN /\ open' \in BOOLEAN /\ behind' \in BOOLEAN
    BY <1>1, Zenon
  <2>4. writes' \subseteq [content: Content, by: {"save", "gone"}]
    BY <1>5
  <2>5. slots' \in Content /\ copy' \in Content \cup {None}
    BY <1>1, <1>4
  <2> QED
    BY <1>1, <2>1, <2>2, <2>3, <2>4, <2>5, Zenon DEF SlotsTypeOK
<1>7. OneWrite' /\ BeforeRead' /\ InOrder' /\ QuietFileIsMemory'
  BY <1>1 DEF OneWrite, BeforeRead, InOrder, QuietFileIsMemory
<1>8. ASSUME NEW id \in Slot
      PROVE  /\ slots'[id] = IF id \in Framing THEN Framed(id) ELSE slots[id]
             /\ UserUrl(id)' = UserUrl(id) /\ UserUrl(id) <= drops
  <2>1. slots'[id] = IF id \in Framing THEN Framed(id) ELSE slots[id]
    BY <1>1, <1>4
  <2>2. id \in Framing => Framed(id) # None /\ Framed(id).u = UserUrl(id)
    BY <1>3, NothingIsNoEntry DEF Fits, Framed
  <2> QED
    BY <1>1, <2>1, <2>2 DEF UserUrl, ElementsFollow
<1>9. ElementsFollow'
  <2>1. \A id \in Slot : reframe'[id] = None /\ encoding'[id] = {}
    BY <1>1 DEF Closed
  <2> QED
    BY <1>1, <1>8, <2>1 DEF ElementsFollow
<1>10. UntouchedAgree'
  <2> SUFFICES ASSUME merged, NEW t \in Slot \ touched'
               PROVE  /\ t \in Own => file[t] = slots'[t]
                      /\ \A v \in writes' : v.content[t] = slots'[t]
    BY <1>1 DEF UntouchedAgree, Own
  <2>1. t \notin touched /\ t \notin Framing /\ slots'[t] = slots[t]
    BY <1>1, <1>8
  <2>2. (t \in Own => file[t] = slots[t]) /\ \A w \in writes : w.content[t] = slots[t]
    BY <2>1 DEF SlotsInv, UntouchedAgree
  <2>3. \A ids \in SUBSET Framing : Committed(ids)[t] = slots[t]
    BY <1>4, <2>1
  <2> QED
    BY <1>5, <2>1, <2>2, <2>3
<1>11. CropIsOfItsImage'
  BY <1>3, <1>8 DEF SlotsInv, CropIsOfItsImage, Fits
<1>12. OnlyNewer
  <2> SUFFICES ASSUME NEW id \in Slot, slots[id] # None
               PROVE  slots'[id] # None /\ ~(slots'[id].u < slots[id].u)
    BY DEF Older, OnlyNewer
  <2>1. slots[id].u \in Nat /\ UserUrl(id) = slots[id].u
    BY <1>1, ImagesAreNumbers DEF SlotsTypeOK, Content, Entry, UserUrl
  <2>2. slots'[id] # None
    BY <1>3, <1>8, NothingIsNoEntry DEF Fits
  <2>3. slots'[id].u = slots[id].u
    BY <1>8, <2>1, <2>2 DEF UserUrl
  <2> QED
    BY <2>1, <2>2, <2>3
<1> QED
  BY <1>6, <1>7, <1>9, <1>10, <1>11, <1>12 DEF SlotsInv

\* The host injects the bridge: nothing else changes.
LEMMA HostArrivesKeeps ==
    ASSUME SlotsInv, open, HostArrives
    PROVE  SlotsInv' /\ OnlyNewer
<1>1. StoreLeft /\ bridge' = TRUE /\ UNCHANGED <<live, reframe, gen, encoding, drops>>
  BY DEF HostArrives, StoreLeft, elements, history
<1>2. SlotsTypeOK'
  <2>1. UNCHANGED <<file, writes, copy, slots, loaded, waiting, saving, saveDirty, behind, open,
                    touched, others, merged>>
    BY <1>1 DEF StoreLeft, store
  <2>2. bridge' \in BOOLEAN
    BY <1>1, Zenon
  <2> QED
    BY <1>1, <2>1, <2>2, Zenon DEF SlotsInv, SlotsTypeOK
<1>3. ElementsFollow'
  BY <1>1 DEF SlotsInv, ElementsFollow, UserUrl, StoreLeft, store
<1>4. open /\ ~loaded => \A id \in Slot : reframe'[id] \in {None, Early}
  BY <1>1 DEF SlotsInv, BeforeRead
<1> QED
  BY <1>1, <1>2, <1>3, <1>4, StoreLeftKeeps

LEMMA StepKeeps == SlotsInv /\ [Next]_vars => SlotsInv' /\ OnlyNewer
<1> SUFFICES ASSUME SlotsInv, [Next]_vars PROVE SlotsInv' /\ OnlyNewer
  OBVIOUS
<1>1. CASE UNCHANGED vars
  <2>1. StoreLeft /\ UNCHANGED <<bridge, live, reframe, gen, encoding, drops>>
    BY <1>1 DEF vars, StoreLeft, host, elements, history
  <2>2. SlotsTypeOK' /\ ElementsFollow'
    BY <2>1 DEF SlotsInv, SlotsTypeOK, ElementsFollow, UserUrl, StoreLeft, store
  <2>3. open /\ ~loaded => \A id \in Slot : reframe'[id] \in {None, Early}
    BY <2>1 DEF SlotsInv, BeforeRead
  <2> QED
    BY <2>1, <2>2, <2>3, StoreLeftKeeps
<1>2. CASE HostAnswers \/ OthersWrite
  BY <1>2, WriteEndsKeeps, OthersWriteKeeps DEF HostAnswers
<1>3. CASE open /\ (HostArrives \/ ReadServed \/ ReadAnswered \/ ReadFails \/ PageHides)
  BY <1>3, HostArrivesKeeps, ReadServedKeeps, ReadAnsweredKeeps, ReadFailsKeeps, PageHidesKeeps
<1>4. ASSUME NEW id \in Slot, open,
             \/ Drop(id) \/ Encoded(id) \/ EncodingFails(id)
             \/ EnterReframe(id) \/ ExitReframe(id)
             \/ Reconnect(id)
             \/ \E to \in Slot : CloneSlot(id, to)
      PROVE  SlotsInv' /\ OnlyNewer
  <2>1. CASE EncodingFails(id)
    <3>1. Forgotten(id) /\ StoreLeft /\ UNCHANGED <<bridge, live, reframe, gen, drops>>
      BY <2>1 DEF EncodingFails, Forgotten, StoreLeft, host, history
    <3> QED
      BY <1>4, <3>1, ForgottenKeeps
  <2> QED
    BY <1>4, <2>1, DropKeeps, EncodedKeeps, EnterReframeKeeps, ExitReframeKeeps,
       ReconnectKeeps, CloneSlotKeeps
<1> QED
  BY <1>1, <1>2, <1>3, <1>4 DEF Next

----------------------------------------------------------------------------
\* What is said of the page, its file and its writes at every instant.
THEOREM SlotsInvariance == Spec => []SlotsInv
<1>1. SlotsInv /\ [Next]_vars => SlotsInv'
  BY StepKeeps
<1> QED
  BY <1>1, InitiallySound, PTL DEF Spec

\* A page that has read the file and has no save to make has written what it
\* shows, where nobody else changed the file and unless its last save failed,
\* threw or found no bridge: no order of changes, read and answers loses a save
\* (load and save of image-slot.js).
THEOREM QuietPagesAreSaved == Spec => []QuietFileIsMemory
<1>1. SlotsInv => QuietFileIsMemory
  BY DEF SlotsInv
<1> QED
  BY <1>1, SlotsInvariance, PTL

\* No crop ends on an image it was not made on, unless it was begun before the
\* file was read (_commitView and _exitReframe).
THEOREM CropsFitTheirImages == Spec => []CropIsOfItsImage
<1>1. SlotsInv => CropIsOfItsImage
  BY DEF SlotsInv
<1> QED
  BY <1>1, SlotsInvariance, PTL

\* The file is changed by the host's answers, and by somebody else.
LEMMA FileChanges ==
    ASSUME [Next]_vars
    PROVE  \/ file' = file
           \/ \E w \in writes : file' = w.content
           \/ OthersWrite
<1>1. CASE UNCHANGED vars
  BY <1>1 DEF vars, host
<1>2. CASE HostAnswers
  BY <1>2 DEF HostAnswers, WriteEnds
<1>3. CASE HostArrives \/ ReadServed \/ ReadAnswered \/ ReadFails \/ PageHides
  BY <1>3 DEF HostArrives, ReadServed, ReadAnswered, ReadFails, ReadEnds, PageHides
<1>4. ASSUME NEW id \in Slot,
             \/ Drop(id) \/ Encoded(id) \/ EncodingFails(id)
             \/ EnterReframe(id) \/ ExitReframe(id)
             \/ Reconnect(id)
             \/ \E to \in Slot : CloneSlot(id, to)
      PROVE  file' = file
  BY <1>4 DEF Drop, Encoded, EncodingFails, EnterReframe, ExitReframe, Reconnect, CloneSlot, SetSlot, host
<1> QED
  BY <1>1, <1>2, <1>3, <1>4 DEF Next

\* Somebody else changes the slots they are then said to have changed.
LEMMA OthersChange ==
    ASSUME SlotsTypeOK, OthersWrite, NEW id \in Slot, id \notin others'
    PROVE  file'[id] = file[id]
BY DEF OthersWrite

\* A page that has read the file leaves the slots nobody set on it as they are
\* in the file, though it writes them all at once, unless somebody else changed
\* them since it read or replaced the file.
THEOREM UntouchedSlotsSurvive == Spec => UntouchedSurvive
<1>1. ASSUME SlotsInv, [Next]_vars, merged, NEW id \in Slot, file'[id] # file[id]
      PROVE  id \in touched \cup others \cup others'
  <2>1. CASE OthersWrite
    BY <1>1, <2>1, OthersChange DEF SlotsInv
  <2>2. CASE ~OthersWrite
    BY <1>1, <2>2, FileChanges DEF SlotsInv, UntouchedAgree, Own
  <2> QED
    BY <2>1, <2>2
<1>2. SlotsInv /\ [Next]_vars =>
        [merged => \A id \in Slot : file'[id] # file[id] => id \in touched \cup others \cup others']_vars
  BY <1>1
<1> QED
  BY <1>2, SlotsInvariance, PTL DEF Spec, UntouchedSurvive

\* A slot never goes back to an older image or to none, in memory or, while the
\* page is there, in the file where nobody else has changed it.
THEOREM ImagesMoveForward == Spec => ImagesOnlyNewer
<1>1. ASSUME SlotsInv, [Next]_vars PROVE \A id \in Slot : ~Older(id, slots, slots')
  BY <1>1, StepKeeps DEF OnlyNewer
<1>2. ASSUME SlotsInv, [Next]_vars, open, merged, NEW id \in Own \ others'
      PROVE  ~Older(id, file, file')
  <2>1. file \in Content /\ id \in Slot /\ SlotsTypeOK
    BY <1>2 DEF SlotsInv, SlotsTypeOK, Own
  <2>2. CASE file'[id] = file[id]
    BY <2>1, <2>2, NothingIsOlderThanItself DEF Older
  <2>3. CASE \E w \in writes : file' = w.content
    BY <1>2, <2>1, <2>3 DEF SlotsInv, InOrder
  <2>4. CASE OthersWrite
    BY <1>2, <2>1, <2>2, <2>4, OthersChange
  <2> QED
    BY <1>2, <2>2, <2>3, <2>4, FileChanges
<1>3. SlotsInv /\ [Next]_vars =>
        [/\ \A id \in Slot : ~Older(id, slots, slots')
         /\ open /\ merged => \A id \in Own \ others' : ~Older(id, file, file')]_vars
  BY <1>1, <1>2
<1> QED
  BY <1>3, SlotsInvariance, PTL DEF Spec, ImagesOnlyNewer
=============================================================================
