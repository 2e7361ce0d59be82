----------------------------- MODULE ImageSlots -----------------------------
(***************************************************************************)
(* The images people drop on the design mock-ups (design/image-slot.js):   *)
(* one store for all the slots of a page, read once from a file beside the *)
(* page and written back whole, through the bridge to the host of the      *)
(* editor, at every change.  The pages of a directory share the file, and  *)
(* the editor's agent writes it too.                                       *)
(*                                                                         *)
(* A page is single-threaded: an event and the promises that are ready     *)
(* run before anything else.  The read, each write and each encoding of a  *)
(* dropped file end at some later time, in any order.                      *)
(***************************************************************************)
EXTENDS Naturals

CONSTANTS
    Slot,               \* ids of the slots
    Pages,              \* bound: the elements a page may open with
    MaxDrops,           \* bound on the files dropped
    Early,              \* framed before the file was read
    None

ASSUME SlotsAssumption ==
    /\ Pages \subseteq SUBSET Slot
    /\ MaxDrops \in Nat \ {0}
    /\ Early \notin 0..MaxDrops
    /\ None \notin 0..MaxDrops \cup {Early} \cup [u: 0..MaxDrops, on: 0..MaxDrops \cup {Early}]

VARIABLES
    file,               \* STATE_FILE, as the host has it
    writes,             \* writes of the page under way at the host
    bridge,             \* window.omelette.writeFile is there
    copy,               \* what the host has answered the read with
    slots, loaded,      \* the store
    waiting,            \* saves that wait for the read: none, one, or more
    saving, saveDirty,
    live,               \* slots with an element on the page
    reframe,            \* the crop being made on each element
    gen, encoding,      \* the last drop on each element, the drops being encoded
    open,               \* the page is there
    drops,              \* files dropped so far, and the image of the file
    touched,            \* slots set since the page was opened
    others,             \* slots changed in the file by another page or the agent
                        \* since the page read it or last replaced it
    merged,             \* the page has taken in what the file had
    behind              \* its last save failed or was not sent

host == <<file, writes, bridge, copy>>

store == <<slots, loaded, waiting, saving, saveDirty, behind>>

elements == <<live, reframe, gen, encoding>>

history == <<drops, touched, others, merged>>

vars == <<host, store, elements, open, history>>

\* Drops are numbered; 0 is the image of src, and 1 stands for every image the
\* page finds in the file.
Image == 0..MaxDrops

\* An image, and the image its crop was made on.
Entry == [u: Image, on: Image \cup {Early}]

Content == [Slot -> Entry \cup {None}]

Whole(u) == [u |-> u, on |-> u]

\* _userUrl, as the last render left it.
UserUrl(id) == IF slots[id] = None THEN 0 ELSE slots[id].u

Closed == [id \in Slot |-> None]

Init ==
    /\ file \in [Slot -> {None, Whole(1)}]
    /\ writes = {} /\ bridge \in BOOLEAN /\ copy = None
    /\ live \in Pages
    /\ drops = 1 /\ open = TRUE
    /\ slots = Closed /\ loaded = FALSE /\ waiting = 0
    /\ saving = FALSE /\ saveDirty = FALSE /\ behind = FALSE
    /\ reframe = Closed
    /\ gen = [id \in Slot |-> 0] /\ encoding = [id \in Slot |-> {}]
    /\ touched = {} /\ others = {} /\ merged = FALSE

----------------------------------------------------------------------------
(* The store.                                                              *)

Written(content, by) == [content |-> content, by |-> by]

\* w(STATE_FILE, ...) takes the content, or throws at once: then no answer ends
\* this save.
Post(content, pending, failed) ==
    /\ saving' = TRUE
    /\ \/ /\ writes' = pending \cup {Written(content, "save")}
          /\ behind' = failed
       \/ /\ writes' = pending
          /\ behind' = TRUE

\* A bug kept for comparison: a save that finds one under way does nothing.
SaveOnce(content) ==
    /\ IF saving \/ ~bridge THEN UNCHANGED <<writes, saving, behind>>
       ELSE Post(content, writes, behind)
    /\ UNCHANGED saveDirty

Save(content) ==
    \/ /\ saving
       /\ saveDirty' = TRUE
       /\ UNCHANGED <<writes, saving, behind>>
    \/ /\ ~saving /\ ~bridge
       /\ behind' = TRUE
       /\ UNCHANGED <<writes, saving, saveDirty>>
    \/ /\ ~saving /\ bridge
       /\ Post(content, writes, behind)
       /\ UNCHANGED saveDirty

\* A bug kept for comparison: a change is saved before the file was read.
SaveUnread(content) == Save(content) /\ UNCHANGED waiting

SaveWhenRead(content) ==
    IF loaded THEN Save(content) /\ UNCHANGED waiting
    ELSE /\ waiting' = IF waiting = 0 THEN 1 ELSE 2
         /\ UNCHANGED <<writes, saving, saveDirty, behind>>

SetSlot(id, entry) ==
    /\ slots' = [slots EXCEPT ![id] = entry]
    /\ touched' = touched \cup {id}
    /\ SaveWhenRead(slots')
    /\ UNCHANGED <<file, bridge, copy, loaded, others>>

\* The host answers the read; the answer is on its way.
ReadServed ==
    /\ ~loaded /\ copy = None
    /\ copy' = file
    /\ others' = {}
    /\ UNCHANGED <<file, writes, bridge, store, elements, open, drops, touched, merged>>

\* An entry that only frames gets the image the file has.
Inherit(id) ==
    IF slots[id].u = 0 /\ copy[id] # None THEN [slots[id] EXCEPT !.u = copy[id].u] ELSE slots[id]

Merge == [id \in Slot |-> IF slots[id] = None THEN copy[id] ELSE Inherit(id)]

\* The saves that waited for the read: the first one writes, the others find it
\* under way.
SaveWaiting(content) ==
    \/ /\ waiting = 0
       /\ UNCHANGED <<writes, saving, saveDirty, behind>>
    \/ /\ waiting > 0 /\ ~bridge
       /\ behind' = TRUE
       /\ UNCHANGED <<writes, saving, saveDirty>>
    \/ /\ waiting > 0 /\ bridge
       /\ Post(content, writes, behind)
       /\ saveDirty' = (waiting > 1)

\* The read ends: what the page set meanwhile stays, the rest is taken in.
ReadEnds(content, complete) ==
    /\ ~loaded
    /\ loaded' = TRUE
    /\ slots' = content
    /\ merged' = complete
    /\ SaveWaiting(content)
    /\ waiting' = 0 /\ copy' = None
    /\ UNCHANGED <<file, bridge, elements, open, drops, touched, others>>

\* The host's answer, also that there is no file.
ReadAnswered == copy # None /\ ReadEnds(Merge, TRUE)

\* A network error, or an answer that is not ok: the page goes on without it.
ReadFails == ReadEnds(slots, FALSE)

\* A bug kept for comparison: a write that fails is not answered to.
WriteEndsUncaught(w, done) ==
    /\ w \in writes
    /\ writes' = writes \ {w}
    /\ file' = IF done THEN w.content ELSE file
    /\ saving' = (saving /\ ~done)
    /\ UNCHANGED <<bridge, copy, slots, loaded, waiting, saveDirty, behind, elements, open, history>>

\* A save is answered: one that was asked for meanwhile is made now.
SaveAnswered(w, done) ==
    /\ w.by = "save"
    /\ saveDirty' = FALSE
    /\ IF saveDirty THEN Post(slots, writes \ {w}, ~done)
       ELSE saving' = FALSE /\ writes' = writes \ {w} /\ behind' = ~done

\* The host has written, or not, and answers.
WriteEnds(w, done) ==
    /\ w \in writes
    /\ file' = IF done THEN w.content ELSE file
    /\ others' = IF done THEN {} ELSE others
    /\ \/ SaveAnswered(w, done)
       \/ /\ w.by = "gone"
          /\ writes' = writes \ {w}
          /\ UNCHANGED <<saving, saveDirty, behind>>
    /\ UNCHANGED <<bridge, copy, slots, loaded, waiting, elements, open, drops, touched,
                   merged>>

HostAnswers == \E w \in writes, done \in BOOLEAN : WriteEnds(w, done)

\* The host injects the bridge, if need be after the page was rendered.
HostArrives ==
    /\ ~bridge /\ bridge' = TRUE
    /\ UNCHANGED <<file, writes, copy, store, elements, open, history>>

\* What somebody else puts in place of an entry, as far as this page can tell:
\* an image of theirs or an older one they had read; for one the page read itself,
\* none.
Replaced(entry) == IF entry = Whole(1) THEN None ELSE Whole(1)

\* Another page, or the agent, writes the file.  Until the host answers the read,
\* Init stands for that; a page whose read failed, or that is gone and has nothing
\* under way, does not tell the difference.  Several such writes in a row come to
\* one.
OthersWrite ==
    /\ copy # None \/ merged
    /\ open \/ writes # {}
    /\ others = {}
    /\ \E changed \in (SUBSET Slot) \ {{}} :
          /\ file' = [id \in Slot |-> IF id \in changed THEN Replaced(file[id]) ELSE file[id]]
          /\ others' = changed
    /\ UNCHANGED <<writes, bridge, copy, store, elements, open, drops, touched, merged>>

----------------------------------------------------------------------------
(* The elements.                                                           *)

Drop(id) ==
    /\ id \in live /\ drops < MaxDrops
    /\ drops' = drops + 1
    /\ gen' = [gen EXCEPT ![id] = drops + 1]
    /\ encoding' = [encoding EXCEPT ![id] = @ \cup {drops + 1}]
    /\ UNCHANGED <<host, store, live, reframe, open, touched, others, merged>>

\* A bug kept for comparison: the encoding of an older drop is taken as well.
NewestAny(id, n) == TRUE

Newest(id, n) == n = gen[id]

\* A bug kept for comparison: the crop under way goes on, over the new image.
StillFraming(id) == reframe

\* _exitReframe(false)
NotFraming(id) == [reframe EXCEPT ![id] = None]

Encoded(id) ==
    \E n \in encoding[id] :
        /\ encoding' = [encoding EXCEPT ![id] = @ \ {n}]
        /\ IF Newest(id, n)
           THEN reframe' = NotFraming(id) /\ SetSlot(id, Whole(n))
           ELSE UNCHANGED <<host, store, reframe, touched, others>>
        /\ UNCHANGED <<live, gen, open, drops, merged>>

EncodingFails(id) ==
    \E n \in encoding[id] :
        /\ encoding' = [encoding EXCEPT ![id] = @ \ {n}]
        /\ UNCHANGED <<host, store, live, reframe, gen, open, history>>

\* Any element shows an image, its own or that of its src, and with the bridge
\* it can be framed.  A click on another element ends a crop, the keyboard does
\* not.
EnterReframe(id) ==
    /\ bridge /\ id \in live /\ reframe[id] = None
    /\ reframe' = [reframe EXCEPT ![id] = IF loaded THEN UserUrl(id) ELSE Early]
    /\ UNCHANGED <<host, store, live, gen, encoding, open, history>>

\* _commitView: the new crop, with the image the element has by now.
Framed(id) == [u |-> UserUrl(id), on |-> reframe[id]]

ExitReframe(id) ==
    /\ reframe[id] # None
    /\ reframe' = NotFraming(id)
    /\ SetSlot(id, Framed(id))
    /\ UNCHANGED <<live, gen, encoding, open, drops, merged>>

\* The element leaves the page and comes back (a remount): no crop is kept, its
\* encodings go on.
Reconnect(id) ==
    /\ reframe[id] # None
    /\ reframe' = NotFraming(id)
    /\ UNCHANGED <<host, store, live, gen, encoding, open, history>>

\* cloneSlot: an id no element has, without an entry or with the very same one;
\* the host adds its element, or refuses it after all.
CloneSlot(from, to) ==
    /\ loaded /\ from \in live /\ to \notin live
    /\ \/ slots[to] = None /\ slots[from] # None /\ SetSlot(to, slots[from])
       \/ /\ slots[to] = slots[from] /\ (slots[to] # None => UserUrl(to) # 0)
          /\ UNCHANGED <<host, store, touched, others>>
    /\ live' \in {live, live \cup {to}}
    /\ UNCHANGED <<reframe, gen, encoding, open, drops, merged>>

\* The slots with some of the crops under way committed.
Committed(ids) == [id \in Slot |-> IF id \in ids THEN Framed(id) ELSE slots[id]]

Framing == {id \in Slot : reframe[id] # None}

\* The page goes away.  Each crop under way is committed and, once the file was
\* read, the slots are posted at once, unless the bridge throws; the writes under
\* way end without the page.
PageHides ==
    /\ open' = FALSE
    /\ LET snapshots == IF loaded THEN {Committed(ids) : ids \in (SUBSET Framing) \ {{}}} ELSE {}
       IN \E posted \in SUBSET snapshots :
             writes' = {Written(c, "gone") : c \in {w.content : w \in writes} \cup posted}
    /\ touched' = touched \cup Framing
    /\ slots' = Committed(Framing)
    /\ saving' = FALSE /\ saveDirty' = FALSE /\ waiting' = 0 /\ behind' = FALSE
    /\ copy' = None
    /\ live' = {} /\ reframe' = Closed
    /\ gen' = [id \in Slot |-> 0] /\ encoding' = [id \in Slot |-> {}]
    /\ UNCHANGED <<file, bridge, loaded, drops, others, merged>>

Next ==
    \/ HostAnswers \/ OthersWrite
    \/ /\ open
       /\ HostArrives \/ ReadServed \/ ReadAnswered \/ ReadFails \/ PageHides
    \/ \E id \in Slot :
          /\ open
          /\ \/ Drop(id) \/ Encoded(id) \/ EncodingFails(id)
             \/ EnterReframe(id) \/ ExitReframe(id)
             \/ Reconnect(id)
             \/ \E to \in Slot : CloneSlot(id, to)

\* The browser ends the read and the host answers every write.
Fairness ==
    /\ WF_vars(open /\ (ReadAnswered \/ ReadFails))
    /\ \A by \in {"save", "gone"} :
          WF_vars(\E w \in writes, done \in BOOLEAN : w.by = by /\ WriteEnds(w, done))

Spec == Init /\ [][Next]_vars /\ Fairness

----------------------------------------------------------------------------
\* Where the file is the page's own: nobody else has changed the slot since the
\* page read it or last replaced it.
Own == Slot \ others

\* A page that has read the file and has no save to make has written what it
\* shows, unless its last save failed, threw, or found no bridge.
QuietFileIsMemory ==
    open /\ merged /\ ~saving /\ ~behind => \A id \in Own : file[id] = slots[id]

\* A page that has read the file, though it writes all the slots at once, changes
\* the entry of a slot nobody set on it only where somebody else has changed the
\* file since the page read or replaced it.
UntouchedSurvive ==
    [][merged =>
          \A id \in Slot : file'[id] # file[id] => id \in touched \cup others \cup others']_vars

Older(id, before, after) ==
    before[id] # None /\ (after[id] = None \/ after[id].u < before[id].u)

\* Whatever the order in which drops are encoded, crops committed, the file
\* read and saves made, a slot never goes back to an older image or to none: not
\* in memory, and not in the file where it is the page's own.
ImagesOnlyNewer ==
    [][/\ \A id \in Slot : ~Older(id, slots, slots')
       /\ open /\ merged => \A id \in Own \ others' : ~Older(id, file, file')]_vars

\* A crop is of the image it was made on: only a crop begun before the file was
\* read may end up on the image the file had.
CropIsOfItsImage ==
    \A id \in Slot : slots[id] # None => slots[id].on \in {slots[id].u, Early}

\* What is under way: a page that saves has one write at the host, and it is
\* what the slots hold unless they were changed since; or the bridge threw and
\* it saves no more.
OneWrite ==
    open => \/ ~saving /\ ~saveDirty /\ writes = {}
            \/ saving /\ behind /\ writes = {}
            \/ saving /\ \E c \in Content :
                             writes = {Written(c, "save")} /\ (~saveDirty => c = slots)

\* Before the read ends nothing is written, and the slots hold what was set on
\* the page.
BeforeRead ==
    open /\ ~loaded =>
        /\ ~saving /\ ~merged
        /\ waiting = 0 => slots = Closed
        /\ \A id \in Slot :
              /\ file[id] \in {None, Whole(1)}
              /\ copy # None => copy[id] \in {None, Whole(1)} /\ (id \in Own => copy[id] = file[id])
              /\ id \notin touched => slots[id] = None
              /\ reframe[id] \in {None, Early}
              /\ slots[id] # None /\ slots[id].u = 0 => slots[id].on = Early

\* An element of the page has a crop of what it shows, and is newer than what
\* its slot holds as long as its last drop is being encoded.
ElementsFollow ==
    \A id \in Slot :
        /\ reframe[id] # None => id \in live /\ reframe[id] \in {Early, UserUrl(id)}
        /\ encoding[id] # {} => id \in live
        /\ encoding[id] \subseteq 2..drops
        /\ UserUrl(id) <= drops
        /\ gen[id] \in encoding[id] => UserUrl(id) <= gen[id]

\* The slots nobody set are the file's where it is the page's own, and the same
\* in memory and in every write under way.
UntouchedAgree ==
    merged =>
        \A id \in Slot \ touched :
            /\ id \in Own => file[id] = slots[id]
            /\ \A w \in writes : w.content[id] = slots[id]

\* The file, the write under way and the slots, from the oldest to the newest.
InOrder ==
    open /\ merged =>
        \A id \in Slot :
            /\ id \in Own => ~Older(id, file, slots)
            /\ \A w \in writes :
                  /\ id \in Own => ~Older(id, file, w.content)
                  /\ ~Older(id, w.content, slots)

SlotsTypeOK ==
    /\ file \in Content /\ slots \in Content /\ copy \in Content \cup {None}
    /\ writes \subseteq [content: Content, by: {"save", "gone"}]
    /\ bridge \in BOOLEAN
    /\ loaded \in BOOLEAN /\ saving \in BOOLEAN /\ saveDirty \in BOOLEAN
    /\ waiting \in 0..2
    /\ open \in BOOLEAN /\ merged \in BOOLEAN /\ behind \in BOOLEAN
    /\ live \subseteq Slot /\ touched \subseteq Slot /\ others \subseteq Slot
    /\ reframe \in [Slot -> Image \cup {Early, None}]
    /\ gen \in [Slot -> Image] /\ encoding \in [Slot -> SUBSET Image]
    /\ drops \in Image \ {0}

\* The strengthening the proofs carry.
SlotsInv ==
    /\ SlotsTypeOK /\ OneWrite /\ BeforeRead /\ ElementsFollow
    /\ UntouchedAgree /\ InOrder
    /\ QuietFileIsMemory /\ CropIsOfItsImage

Saved == \A id \in Own : file[id] = slots[id]

\* What the page shows reaches the file, whatever is set while the file is read
\* or written, unless the read fails, the host does not write or the page goes.
MemoryReachesFile ==
    (open /\ ~Saved) ~> (Saved \/ behind \/ ~open \/ (loaded /\ ~merged))
=============================================================================
