------------------------------- MODULE Outbox -------------------------------
(***************************************************************************)
(* mobile/lib/storage/outbox_store.dart: service records a shop fills with *)
(* no session are queued in the phone's SQLite file and published when it  *)
(* signs in (ShopSignInScreen._submit) or taps "Enviar tudo agora"         *)
(* (OutboxScreen._send).                                                   *)
(*                                                                         *)
(* Dart runs one callback at a time and switches where an await has        *)
(* something to wait for (SQLite, the network, a file's upload), so an     *)
(* action is the code between two such awaits.  Several flushes may be     *)
(* under way: nothing but the open screen's own button stops a second one. *)
(* The server is its Create: it publishes what it accepts and keeps no     *)
(* trace of which draft a record came from.  A request whose answer the    *)
(* app stopped waiting for may still reach it, or be lost, and an error in *)
(* time may be that of a request the server did serve.  SQLite may fail    *)
(* any call; a failed call writes nothing.                                 *)
(***************************************************************************)
EXTENDS Naturals, FiniteSets

CONSTANTS
    Flusher,            \* runs of flush that may overlap
    User,               \* the mechanic, who adds and discards drafts
    File,               \* photos and invoices
    MaxDrafts,          \* bound: drafts ever queued
    MaxFlushes          \* bound: flushes ever started

ASSUME OutboxAssumption ==
    /\ IsFiniteSet(Flusher) /\ User \notin Flusher
    /\ MaxDrafts \in Nat /\ MaxFlushes \in Nat

VARIABLES
    queue,              \* outbox_drafts on disk
    files,              \* the outbox_attachments each draft was queued with
    added,              \* drafts ever queued; saved_at, id order is 1..added
    discarded,          \* drafts deleted by hand, which the mechanic was told will
                        \* not be published
    cached,             \* Outbox._drafts
    loaded,             \* Outbox._loaded
    signedIn,           \* AppState.workshop # null
    flushes,            \* flushes started
    at,                 \* where each flush, and the mechanic's tap, is
    todo,               \* the drafts a flush has not gone through, this one included
    token,              \* whether the awaited request or upload carried a token
    unsent,             \* the files of this draft not tried yet
    view,               \* the rows a load has read and not shown yet
    posted,             \* records the server made of each draft
    tried,              \* files of each draft sent to the server at least once
    late,               \* requests nobody awaits that may still be served
    calm                \* every request was answered in time and with what became
                        \* of it, SQLite failed no call, and the mechanic did
                        \* nothing, nor was the app killed, while a flush or a load
                        \* of the queue was under way

device == <<queue, files, added, discarded>>
app == <<cached, loaded, signedIn, flushes, at, todo, token, unsent, view>>
server == <<posted, tried, late>>
vars == <<device, app, server, calm>>

----------------------------------------------------------------------------
Draft == 1..MaxDrafts

Task == Flusher \cup {User}

Oldest(drafts) == CHOOSE d \in drafts : \A e \in drafts : d <= e

This(f) == Oldest(todo[f])

\* Nothing keeps the mechanic, or the phone's system, from acting while a
\* flush or a load is under way.
Intervene == calm' = (calm /\ \A p \in Task : at[p] = "idle")

Goto(p, label) == at' = [at EXCEPT ![p] = label]

Init ==
    /\ queue = {} /\ added = 0 /\ discarded = {}
    /\ files = [d \in Draft |-> {}]
    /\ cached = {} /\ loaded = FALSE /\ signedIn = FALSE /\ flushes = 0
    /\ at = [p \in Task |-> "idle"]
    /\ todo = [f \in Flusher |-> {}]
    /\ token = [f \in Flusher |-> FALSE]
    /\ unsent = [f \in Flusher |-> {}]
    /\ view = [p \in Task |-> {}]
    /\ posted = [d \in Draft |-> 0]
    /\ tried = [d \in Draft |-> {}]
    /\ late = [d \in Draft |-> 0]
    /\ calm = TRUE

----------------------------------------------------------------------------
(* flush, from one await to the next.                                      *)

\* The loop comes to its next draft, if one is left: records.create goes out
\* with the token the client holds now and confirmLowerMileage: true.
Proceed(f, drafts) ==
    /\ todo' = [todo EXCEPT ![f] = drafts]
    /\ token' = [token EXCEPT ![f] = signedIn' /\ drafts # {}]
    /\ Goto(f, IF drafts = {} THEN "idle" ELSE "await")

ThisDone(f) == Proceed(f, todo[f] \ {This(f)})

\* load: reads the rows, then the parts of each one, then shows them.  A
\* flush began with load to copy the list, or it ended a remove with it.
ReadRows(p) ==
    /\ at[p] \in {"load", "reload"}
    /\ view' = [view EXCEPT ![p] = queue]
    /\ Goto(p, IF at[p] = "load" THEN "show" ELSE "reshow")
    /\ UNCHANGED <<device, cached, loaded, signedIn, flushes, todo, token, unsent, server, calm>>

Show(p) ==
    /\ at[p] \in {"show", "reshow"}
    /\ cached' = view[p]
    /\ loaded' = TRUE
    /\ view' = [view EXCEPT ![p] = {}]
    /\ UNCHANGED <<device, signedIn, flushes, unsent, server, calm>>
    /\ IF p = User THEN Goto(p, "idle") /\ UNCHANGED <<todo, token>>
       ELSE IF at[p] = "show" THEN Proceed(p, view[p]) ELSE ThisDone(p)

\* A query of load fails: what is on screen stays.  A flush that began with
\* load ends here; one that ended a remove with it counts the draft, which is
\* gone, among the failed ones.
ReadFails(p) ==
    /\ at[p] \in {"load", "show", "reload", "reshow"}
    /\ calm' = FALSE
    /\ view' = [view EXCEPT ![p] = {}]
    /\ UNCHANGED <<device, cached, loaded, signedIn, flushes, unsent, server>>
    /\ IF p = User \/ at[p] \in {"load", "show"} THEN Goto(p, "idle") /\ UNCHANGED <<todo, token>>
       ELSE ThisDone(p)

----------------------------------------------------------------------------
(* The mechanic.                                                           *)

\* The home and queue screens call ensureLoaded when they open.
OpenScreen ==
    /\ Intervene /\ at[User] = "idle" /\ ~loaded
    /\ Goto(User, "load")
    /\ UNCHANGED <<device, cached, loaded, signedIn, flushes, todo, token, unsent, view, server>>

InsertedId == added + 1

\* NewRecordScreen._queue with no session, Outbox.add: one transaction.  When
\* it fails nothing changes, and the form stays open.
Add ==
    /\ Intervene /\ at[User] = "idle" /\ ~signedIn /\ added < MaxDrafts
    /\ added' = added + 1
    /\ queue' = queue \cup {InsertedId}
    /\ \E chosen \in SUBSET File : files' = [files EXCEPT ![added'] = chosen]
    /\ Goto(User, "reload")
    /\ UNCHANGED <<discarded, cached, loaded, signedIn, flushes, todo, token, unsent, view, server>>

\* OutboxScreen._discard of a draft on screen, once confirmed: Outbox.remove.
\* When its delete fails nothing changes, and the mechanic is told so.
Discard ==
    /\ Intervene /\ at[User] = "idle" /\ loaded
    /\ \E d \in cached :
          /\ queue' = queue \ {d}
          /\ discarded' = IF d \in queue THEN discarded \cup {d} ELSE discarded
    /\ Goto(User, "reload")
    /\ UNCHANGED <<files, added, cached, loaded, signedIn, flushes, todo, token, unsent, view, server>>

\* Outbox.flush: the list of drafts it goes through is a copy.
Flush(f) ==
    /\ Intervene /\ at[f] = "idle" /\ flushes < MaxFlushes
    /\ flushes' = flushes + 1
    /\ IF loaded THEN Proceed(f, cached)
       ELSE Goto(f, "load") /\ UNCHANGED <<todo, token>>
    /\ UNCHANGED <<device, cached, loaded, unsent, view, server>>

\* ShopSignInScreen._submit: signing in is what the queue was waiting for.
SignIn(f) == ~signedIn /\ signedIn' = TRUE /\ Flush(f)

\* OutboxScreen._send.
Send(f) == signedIn /\ UNCHANGED signedIn /\ Flush(f)

SignOut ==
    /\ Intervene /\ signedIn /\ signedIn' = FALSE
    /\ UNCHANGED <<device, cached, loaded, flushes, at, todo, token, unsent, view, server>>

\* The app is closed or killed: only the disk and the requests already sent
\* remain.  The session is in memory.
Restart ==
    LET awaited(d) == {f \in Flusher : at[f] = "await" /\ This(f) = d /\ token[f]} IN
    /\ Intervene
    /\ cached' = {} /\ loaded' = FALSE /\ signedIn' = FALSE
    /\ at' = [p \in Task |-> "idle"]
    /\ todo' = [f \in Flusher |-> {}]
    /\ token' = [f \in Flusher |-> FALSE]
    /\ unsent' = [f \in Flusher |-> {}]
    /\ view' = [p \in Task |-> {}]
    /\ late' = [d \in Draft |-> late[d] + Cardinality(awaited(d))]
    /\ UNCHANGED <<device, flushes, posted, tried>>

----------------------------------------------------------------------------
(* What becomes of the request of a flush.                                 *)

\* What a flush has to upload next, with the token the client holds now.
Uploads(f, rest) ==
    /\ unsent' = [unsent EXCEPT ![f] = rest]
    /\ token' = [token EXCEPT ![f] = signedIn' /\ rest # {}]

Publish(d) == posted' = [posted EXCEPT ![d] = @ + 1]

\* The server publishes the record and its answer arrives.
Accept(f) ==
    /\ at[f] = "await" /\ token[f]
    /\ Publish(This(f))
    /\ UNCHANGED signedIn
    /\ Uploads(f, files[This(f)])
    /\ Goto(f, "upload")
    /\ UNCHANGED <<device, cached, loaded, flushes, todo, view, tried, late, calm>>

\* A bug kept for comparison: the draft is deleted in a finally, whatever the
\* answer was.
FailedDraftDeleted(f) == queue' = queue \ {This(f)}

\* A refused draft stays.
FailedDraft(f) == UNCHANGED queue

\* The server refuses: an unknown plate, or no valid session, which signs the
\* app out when the request carried a token (ApiClient.call).
Refuse(f) ==
    /\ at[f] = "await"
    /\ signedIn' \in IF token[f] THEN {signedIn, FALSE} ELSE {signedIn}
    /\ FailedDraft(f)
    /\ ThisDone(f)
    /\ UNCHANGED <<files, added, discarded, cached, loaded, flushes, unsent, view, server, calm>>

\* The record is committed and the answer, in time, says otherwise: the commit
\* or the read back of the record failed (the handler answers Internal), or
\* what arrived cannot be read.
RefuseServed(f) ==
    /\ at[f] = "await" /\ token[f] /\ calm' = FALSE
    /\ Publish(This(f))
    /\ UNCHANGED signedIn
    /\ FailedDraft(f)
    /\ ThisDone(f)
    /\ UNCHANGED <<files, added, discarded, cached, loaded, flushes, unsent, view, tried, late>>

\* A bug kept for comparison: only a request that carries no token is timed.
OnlyAnonymousTimesOut(f) == at[f] = "await" /\ ~token[f]

TimesOut(f) == at[f] = "await"

\* No answer in 15 seconds, or no connection: the request may be on its way.
GiveUp(f) ==
    /\ TimesOut(f) /\ calm' = FALSE
    /\ late' = IF token[f] THEN [late EXCEPT ![This(f)] = @ + 1] ELSE late
    /\ UNCHANGED signedIn
    /\ FailedDraft(f)
    /\ ThisDone(f)
    /\ UNCHANGED <<files, added, discarded, cached, loaded, flushes, unsent, view, posted, tried>>

\* The server serves a request the app no longer waits for, or never gets it.
ServeLate(d) ==
    /\ late[d] > 0
    /\ late' = [late EXCEPT ![d] = @ - 1]
    /\ posted' \in {posted, [posted EXCEPT ![d] = @ + 1]}
    /\ UNCHANGED <<device, app, tried, calm>>

\* _uploadAttachments: one file, stored or not; an exception goes on to the
\* next one, and a refused token signs the app out (ApiClient.upload).  Nothing
\* times the wait for the answer, only its reading once it has begun.
UploadFile(f) ==
    /\ at[f] = "upload"
    /\ signedIn' \in IF token[f] THEN {signedIn, FALSE} ELSE {signedIn}
    /\ \E file \in unsent[f] :
          /\ Uploads(f, unsent[f] \ {file})
          /\ tried' = [tried EXCEPT ![This(f)] = @ \cup {file}]
    /\ UNCHANGED <<device, cached, loaded, flushes, at, todo, view, posted, late, calm>>

\* A bug kept for comparison: what was published is left in the queue.
PublishedDraftKept(d) == queue

PublishedDraftGone(d) == queue \ {d}

\* A bug kept for comparison: the draft goes while its files are on their way.
UploadsNotAwaited(f) == at[f] = "upload"

UploadsAwaited(f) == at[f] = "upload" /\ unsent[f] = {}

\* remove, whose delete takes the files along by cascade; load comes next.
Remove(f) ==
    /\ UploadsAwaited(f)
    /\ queue' = PublishedDraftGone(This(f))
    /\ Goto(f, "reload")
    /\ UNCHANGED <<files, added, discarded, cached, loaded, signedIn, flushes, todo, token, unsent, view, server, calm>>

\* The delete fails: the published draft stays, counted among the failed ones.
RemoveFails(f) ==
    /\ UploadsAwaited(f) /\ calm' = FALSE
    /\ UNCHANGED signedIn
    /\ ThisDone(f)
    /\ UNCHANGED <<device, cached, loaded, flushes, unsent, view, server>>

\* What the phone does on its own: SQLite's answers, the loop's own steps and
\* the timeout of a call.
PhoneStep(f) ==
    \/ ReadRows(f) \/ Show(f) \/ ReadFails(f)
    \/ GiveUp(f) \/ Remove(f) \/ RemoveFails(f)

Answer(f) == Accept(f) \/ Refuse(f) \/ RefuseServed(f) \/ UploadFile(f)

Next ==
    \/ ReadRows(User) \/ Show(User) \/ ReadFails(User)
    \/ OpenScreen \/ Add \/ Discard \/ SignOut \/ Restart
    \/ \E f \in Flusher : SignIn(f) \/ Send(f) \/ PhoneStep(f) \/ Answer(f)
    \/ \E d \in Draft : ServeLate(d)

Spec == Init /\ [][Next]_vars

\* Dart resumes every await that completes, and the timeout completes a call
\* that nothing else does.  The network owes no answer, to a call or an upload.
FairSpec == Spec /\ \A f \in Flusher : WF_vars(PhoneStep(f))

----------------------------------------------------------------------------
Label == {"idle", "load", "show", "reload", "reshow", "await", "upload"}

TypeOK ==
    /\ queue \subseteq Draft /\ discarded \subseteq Draft /\ cached \subseteq Draft
    /\ files \in [Draft -> SUBSET File] /\ added \in 0..MaxDrafts
    /\ loaded \in BOOLEAN /\ signedIn \in BOOLEAN /\ flushes \in 0..MaxFlushes
    /\ at \in [Task -> Label]
    /\ todo \in [Flusher -> SUBSET Draft]
    /\ token \in [Flusher -> BOOLEAN]
    /\ unsent \in [Flusher -> SUBSET File]
    /\ view \in [Task -> SUBSET Draft]
    /\ posted \in [Draft -> Nat] /\ late \in [Draft -> Nat]
    /\ tried \in [Draft -> SUBSET File]
    /\ calm \in BOOLEAN

\* Every record a mechanic queued is still on the phone, or in the public
\* history, or was discarded by hand: refusals, timeouts, lost answers,
\* overlapping flushes and restarts lose none.
NothingLost ==
    \A d \in 1..added : d \in queue \/ posted[d] > 0 \/ d \in discarded

\* Nothing is under way: no flush, no load, no request without an answer.
Quiet == (\A p \in Task : at[p] = "idle") /\ \A d \in Draft : late[d] = 0

\* ARCHITECTURE.md: a flush "removes each one that the API accepts".
AcceptedIsRemoved == Quiet => \A d \in queue : posted[d] = 0

\* outbox_screen.dart: a discarded draft leaves the queue "e não será
\* publicado".
DiscardedNotPublished == [][\A d \in discarded : posted'[d] = posted[d]]_vars

\* As long as every request is answered in time and with what became of it,
\* SQLite fails no call and nobody intervenes in what is under way, the queue
\* keeps its word, through refusals, sign-outs and restarts: a draft becomes one
\* record at most, and leaves the queue then.
PublishedOnceWhenCalm ==
    calm => AcceptedIsRemoved /\ \A d \in Draft : posted[d] <= 1

NoneDiscardedIsPublic == \A d \in discarded : posted[d] = 0

\* And what was discarded between two flushes was not published by the one
\* before, and is not by the next, which goes through the list it has on screen
\* and not through the disk.
DiscardedIsGoneWhenCalm == calm => NoneDiscardedIsPublic

\* The phone never deletes the only copy of a photo or an invoice before it
\* tried to upload it: _uploadAttachments is over before remove, whatever
\* restarts, discards and other flushes come between.
FilesTriedBeforeDeletion ==
    \A d \in (1..added) \ (queue \cup discarded) : files[d] \subseteq tried[d]

\* What a flush has gone through is done, what it has left was queued, and the
\* draft it is uploading is public, with each of its files tried or still to be:
\* why deleting that draft loses nothing.
KeepsUp(f) ==
    /\ at[f] \in {"await", "upload", "reload", "reshow"} => todo[f] # {}
    /\ at[f] = "upload" =>
          /\ posted[This(f)] > 0
          /\ files[This(f)] \subseteq tried[This(f)] \cup unsent[f]

FlushKeepsUp == \A f \in Flusher : KeepsUp(f)

OnlyQueuedOnes ==
    /\ queue \subseteq 1..added /\ cached \subseteq 1..added
    /\ \A p \in Task : view[p] \subseteq 1..added
    /\ \A f \in Flusher : todo[f] \subseteq 1..added

\* The strengthening the proofs carry.
OutboxInv ==
    /\ TypeOK /\ OnlyQueuedOnes /\ FlushKeepsUp
    /\ NothingLost /\ FilesTriedBeforeDeletion

\* While it is calm one thing happens at a time, and no request is out that
\* nobody waits for.
OneAtATime ==
    /\ \A p, q \in Task : at[p] # "idle" /\ at[q] # "idle" => p = q
    /\ \A d \in Draft : late[d] = 0

\* What the app has in memory is what is on its disk: the list, but for a load
\* under way, and what a flush has left to go through.
MemoryIsDisk ==
    /\ loaded /\ (\A p \in Task : at[p] \in {"idle", "await", "upload"}) => cached = queue
    /\ \A p \in Task : at[p] \in {"show", "reshow"} => view[p] = queue
    /\ \A f \in Flusher :
          /\ at[f] \in {"await", "upload"} => loaded /\ todo[f] \subseteq queue
          /\ at[f] \in {"reload", "reshow"} => todo[f] \ {This(f)} \subseteq queue

\* A draft is public once, if at all, and then it is the one a flush is about
\* to delete, or gone; what is discarded is gone.
OneFateEach ==
    /\ \A d \in Draft : posted[d] <= 1 /\ (posted[d] > 0 => d <= added)
    /\ \A d \in queue : posted[d] > 0 => \E f \in Flusher : at[f] = "upload" /\ This(f) = d
    /\ discarded \subseteq 1..added /\ discarded \cap queue = {} /\ NoneDiscardedIsPublic

\* The strengthening of the two properties of calm times.
CalmInv == calm => OneAtATime /\ MemoryIsDisk /\ OneFateEach

Uploading(f) == at[f] = "upload" /\ unsent[f] # {}

\* Every flush comes to its end, with a result for the mechanic to read, or to
\* a file whose upload is not answered: its calls, unlike its uploads, are timed.
FlushEnds == \A f \in Flusher : at[f] # "idle" ~> at[f] = "idle" \/ Uploading(f)
=============================================================================
