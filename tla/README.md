# Mototeca: TLA+ models, model checking and proofs

Mototeca keeps one service history per motorcycle. Workshops write records,
owners link the bikes they own, anyone may read a history by plate. Two Flutter
apps (`mobile/`) talk JSON to a stateless Go API (`cmd/`, `internal/`) over
PostgreSQL and an S3 bucket. What makes the history worth reading is that it is
append-only, that its files stay, that no record is lost between a phone with no
signal and the API, and that a bike belongs to one owner at a time. These are
the properties stated here. All of them live in interleavings: concurrent
transactions, awaits, calls that time out and are served anyway, processes
killed between two steps.

Contents: [inventory](#inventory) · [modules](#modules) · [runs](#runs) ·
[bounds](#bounds) · [fairness and deadlock](#fairness-and-deadlock) ·
[proofs](#proofs) · [where code and documents differ](#where-code-and-documents-differ) ·
[not modelled](#not-modelled) · [plan](#plan)

## Inventory

| Part | Code | State it keeps | Operations |
|---|---|---|---|
| Service records | `internal/servicerecord` | tables `service_records` (with `superseded_by`), `attachments`, `mechanics` | create, revise, add an attachment; get, list by plate, list a shop's |
| Uploads | `internal/server/upload.go`, `internal/storage` | objects in a bucket | store a file, link it, remove it when the link failed |
| Owners | `internal/owner` | `owners`, `vehicles.current_owner_id` | sign up, sign in, claim, release, list, next-service reminder |
| Vehicles | `internal/vehicle` | `vehicles` | register, look up by plate |
| Workshops | `internal/workshop` | `workshops` | sign up, sign in |
| Accounts | `internal/auth` | failures per account, in memory; tokens hold their own state | throttle, issue, verify |
| Rate limiting | `internal/server/ratelimit.go` | a bucket per IP, in memory | allow, evict |
| Migrations | `scripts/migrate.sh`, `db/migrations` | the schema and the table of applied files | apply what is missing |
| Outbox | `mobile/lib/storage/outbox_store.dart` | four SQLite tables, a cached list | add, load, remove, flush |
| Local garage | `mobile/lib/storage/garage_store.dart` | two SQLite tables, a cached list | save, remove, copy from the account, notes |
| Session | `mobile/lib/state/app_scope.dart`, `api/api_client.dart` | account and token, in memory | sign in, sign out, expire |
| Screens | `mobile/lib/{shop,rider,shared}` | futures and flags of each screen | the forms, lists and menus |
| Image slots of the mock-ups | `design/image-slot.js` | the slots of a page, in memory and in a file beside it | read, drop, crop, clone, save, flush |

**How they interact.** An app calls the API and waits at most 15 seconds
(`api_client.dart:55`); after that it shows an error while the server may still
run the call. An *unauthenticated* answer to a call that carried a token ends
the app's session. The API holds no state between calls except the throttle and
the buckets: all that concurrent calls share is in PostgreSQL, reached by
transactions at READ COMMITTED with `FOR UPDATE` on the row that matters. An
upload writes two stores that no transaction spans. On the phone, stores
notify their screens, and each store's list is a cached copy of SQLite that
other callbacks may be changing.

**What is hard, and what must hold.**

- *Service records.* Corrections, uploads and new records of one bike at once;
  a statement that fails half way. A history must be a line that is never
  edited, a correction must replace exactly one current record and take its
  files along, the cap of files must hold, no request may wait forever, and all
  of it together must look as if operations were atomic.
- *Uploads.* A failure, a lost answer or a kill between any two of the calls.
  A file the client was told is saved must stay; a shown file must be stored; a
  stored file must be shown.
- *Outbox.* Answers that are lost or deny what was committed, deletes SQLite
  refuses, overlapping flushes, drafts discarded while they are sent, the app
  killed. No queued record and no only copy of a photo
  may vanish; a flush must end.
- *Owners and the garage screen.* Two claims, or a claim and a sale, at once;
  loads answered out of order; calls served after the app gave up. Nobody may
  lose a bike except by releasing it; a screen must show what it was told.
- *Throttle and limiter.* Maps that are cleaned while they are used, and a
  login that asks the throttle, waits for a query and a password check, and
  tells it afterwards. Cleaning may not change an answer; a lock may not come
  late by more than the logins under way.
- *Local garage.* A cached list, screens built on it and tasks that overlap or
  fail half-way. Notes must stay with their bike, the list must end up as the
  table, an odometer must not fall unnoticed.
- *Record form and session.* Searches and refusals that arrive late, an error
  for a record that was saved, a question in the middle of a save, a session that
  ends under an open form. One form must make one record; a session must end for
  a cause.
- *Image slots.* A read, writes and encodings that end in any order, other pages
  and the agent that write the same file, a bridge that comes late or throws, a
  page that goes away. What a page shows must reach the file; what nobody
  touched must stay in it.
- *Migrations*: a stop between applying a file and recording it. Not modelled.

`PROJECT.json` lists every component with its status, and every hazard at the
line where it bites with the properties that would catch it.

## Modules

| Module | Models | Used with |
|---|---|---|
| `History` | the atomic history a reader is promised: services as sequences of versions | refined by `ServiceRecords` |
| `ServiceRecords` | `servicerecord.Repository` as concurrent transactions | `MCServiceRecords`, `ServiceRecords_proofs` |
| `Uploads` | `server/upload.go` over the bucket and over `ServiceRecords`, which it EXTENDS | `MCUploads`, `Uploads_proofs` |
| `Outbox` | the queue of the shop app and its flushes | `MCOutbox`, `Outbox_proofs` |
| `Ownership` | `owner.Repository` and handler, and the garage screens that call them | `MCOwnership`, `Ownership_proofs` |
| `Clock` | `time.Now`: a tick | extended by the five below |
| `TokenBucket`, `Lockout` | what a limiter and a throttle promise, with nothing ever thrown away | refined by the next two |
| `RateLimiter` | `server/ratelimit.go` | `SignIn_proofs` |
| `LoginThrottle` | `auth/throttle.go` | `SignIn_proofs` |
| `SignIn` | the two `Login` handlers over both maps, which it EXTENDS | `MCSignIn`, `SignIn_proofs` |
| `RecordForm` | the shop app's record form and the session under it | `MCRecordForm`, `RecordForm_proofs` |
| `Garage` | the phone's own garage and notes, and the two screens that edit them | `MCGarage`, `Garage_proofs` |
| `ImageSlots` | `design/image-slot.js` | `MCImageSlots`, `ImageSlots_proofs` |

### ServiceRecords and History

`vehicles`, `service`, `supersededBy`, `attachments`, `mechanics` are the
tables; rows are numbered in commit order (`last`), which is sound because the
ids of the code are random and never compared. `lock` is the `FOR UPDATE` lock
of a row, `pc` the next statement of a request and `req` its input and locals.
An action is one SQL statement that reads a shared table, locks or commits;
statements that only write rows nobody sees before the commit are folded into
the action before them. READ COMMITTED is modelled by what it is: each read
sees what is committed at that moment, each transaction's writes appear at
`Commit`. `Fail` is the deferred `Rollback`, possible at every statement.
`corrects` is a history variable: no column keeps the row a correction was sent
for, and without it a fork that overwrites `superseded_by` would leave no trace.

| Action | Code (`repository.go`) |
|---|---|
| `CreateServiceRecord`, `ReviseServiceRecord` | the handlers, then `Create` / `Revise` → `write` |
| `CheckRevisable` | `SELECT workshop_id, superseded_by ... FOR UPDATE` |
| `FindVehicle`, `CheckMileage` | the bike, then `MAX(mileage_km)`, which locks nothing |
| `InsertRecord` | `upsertMechanic`, then the INSERTs |
| `SupersedeOriginal` | `UPDATE superseded_by`, copy of the attachments |
| `Commit` | the commit and the read back |
| `AddAttachment`, `LockRecord`, `CountAttachments`, `CommitAttachment` | `AddAttachment` |

`History` has the same operations in one step each. The mapping sends every row
that corrects nobody to the sequence of rows that starts at it (`Chain`);
`ImplementsHistory` says the concurrent system implements it.

### Uploads

EXTENDS `ServiceRecords`: a request of `Proc` is either a writer of records or
an upload, whose `at` is its place in `ServeHTTP` and whose transaction, while
it is `linking`, is the one of `ServiceRecords`. `saved`, `astray` and `unsure`
are history variables: the files a client was told are saved, those of them
whose record was superseded when their row was written, and the files of calls whose outcome the server never learnt (a lost answer of the store or of a
commit, a kill). `Reliable = TRUE` removes those. `Killed` is a whole server
stopped, one request after the other.

### Outbox

`queue` and `files` are the SQLite tables, `cached`/`loaded` the store's list,
`todo` the copy a flush walks, `at` the await each flush (and the mechanic's own
tap) is at. Dart runs one callback at a time and may switch at an await, so an
action is the code between two awaits. `GiveUp` is the 15-second timeout or a
failed connection: the request then becomes `late` and may be served, or lost.
`RefuseServed` is the answer in time that denies what was done: `Create` commits
and its commit or its reading back of the record returns an error
(`repository.go:308-312`), which the handler answers with *internal*.
`ReadFails` and `RemoveFails` are SQLite's exceptions, which the store catches:
the list stays as it was, the published draft stays queued. `posted` counts the
records the server made of each draft. `calm` is history: every answer came in
time and was true, SQLite failed no call, and nobody acted while a flush or a
load was under way.

### Ownership

A call is a record (`call`) that travels from a screen to the server and back;
`at` says where it is, and `screen = NoScreen` that nobody waits for it any
more. `lock` and `holder` are the database. A screen keeps the load whose answer
it will show (`future`, Flutter's `FutureBuilder`), what it shows (`list`) and,
as history, the newest change of its own it was told of (`told`). `version`
counts writes of a holder: it exists in the model only, to say which of two
lists is older.

### RateLimiter, LoginThrottle, SignIn

Methods of the two maps run under a mutex, so `Allow`, `Fail`, `Succeed` are one
action each, their clean-up included (`Kept`, `Evicted`: both run when a caller
or an account has no usable row). Tokens are counted in a unit in which the rate
and the cost of a call are whole. `SignIn` is what runs between them: a call
passes the interceptor (`Call`), then the throttle is asked (`AskThrottle`), a
query and the password check run (`at = "checking"`), and the throttle is told
(`WrongPassword`, `RightPassword`). `guesses` counts wrong passwords by the
instant they were counted. `RateLimiter` mapped to `TokenBucket` reads each
caller's bucket as it would be found now; `LoginThrottle` mapped to `Lockout`
reads a row past its time as no row.

### RecordForm

`session` is `AppState`'s account and `ApiClient.authToken`, numbered by sign-in;
`others` the sessions whose token requests of other screens carry. `step` is the
await `_save` is at, `token` that of the awaited request, `searches` the
searches under way (the keyboard starts one whatever `_searching` says).
`published`, `corrected`, `queued`, `late` and `excess` are history of this
form: what was made of it, what may still be (also of a request the form was
closed over, `Abandoned`), and how often the mechanic had to or could ask again:
after a time-out, after an error for a request that was served, while the outbox
was written.

| Action | Code |
|---|---|
| `SaveOnline`, `SaveOffline` | `_save`, up to its first await |
| `Published`, `Corrected`, `MileageIsLower`, `SaysYes`, `SaysNo`, `Fails` | `_create` and `_revise`, answer by answer |
| `RefuseServed` | the same `catch`, when the server had committed (`repository.go:308-312`) |
| `FilesSent` | `_uploadAttachments` over, `Navigator.pop` |
| `Queued`, `QueueFails` | `_queue` after `Outbox.add` |
| `Expire`, `Unauthenticated`, `OtherAnswered`, `SearchRefused` | `onUnauthenticated` → `_expireSession` → `_onStateChanged` |

The outbox is seen from the form as one write that commits or fails. A form is
not opened while a write of the one before it is under way: they would share no
state but the outbox, which has its own module.

### Garage

`bikes`, `notes` are the SQLite tables (with `AUTOINCREMENT`, `UNIQUE (plate)`
and the cascade), `list`/`loaded` is the cache, `queue` the calls that wait for
SQLite and `job` what each task will do when its call is answered. SQLite runs
one call after the other and nothing is observed of it but its answers, so a
call takes effect when it is answered and the order of calls is that of
`queue`. `screen` is the notes screen; `born` tells apart the bikes that might
have had one id, `alone` and `calm` are history. Dialogs are not states: a task
starts when its dialog is confirmed, with a bike that is on the list then.
Labels, years, costs and dates are left out, and a screen of notes opened twice
by a double tap.

### ImageSlots

`slots`, `loaded`, `saving`, `saveDirty` are the variables of the same name in
the script, `waiting` the saves that wait for its read (`loadP`), `writes` what
the host was asked to write, `copy` what it answered the read with, `bridge`
whether it has injected `writeFile` yet. A save that finds no bridge is dropped
(224-225) and one on which the bridge throws never ends (227): `behind` is history
and records both, and writes that failed. `OthersWrite` is another page of the
directory or the agent writing the shared file; `others` is history, the slots
they changed since this page read the file or last replaced it. The properties
claim the file only where it is the page's own (`Own`); that a save erases the
rest is the code's behaviour and is described [below](#where-code-and-documents-differ).
`gen` and `encoding` are an element's counter of
drops and the drops being encoded, `reframe` the crop being made on each element
(the keyboard opens a second one without closing the first). Image values are numbered by
drop, so "older" is a comparison; a crop is the image it was made on. An event
and the promises it makes ready are one action. `PageHides` is `flushNow` and
the end of the page: writes under way go on without it.

## Runs

| Run | Checks | Shows |
|---|---|---|
| `Records` | `ChainsNeverFork`, `CapHolds`, `AppendOnly`, `CorrectionReplaces`, `PhotosCarried`, `RequestsEnd`, `ImplementsHistory` | concurrent requests of two shops cannot fork, edit or erase a history, nor exceed the cap, nor leave files behind at a correction; they amount to atomic operations and each is answered (167 k states) |
| `Uploads` | `SavedIsKept`, `SavedIsListed`, `ShownIsStored`, `NoOrphans` | bucket and table agree up to calls of unknown outcome, and a file reported as saved is on a record the listings show, whatever correction races it (25 k states) |
| `Outbox` | `NothingLost`, `FilesTriedBeforeDeletion`, `PublishedOnceWhenCalm`, `DiscardedIsGoneWhenCalm`, `FlushEnds` | an unreliable network, an impatient mechanic, kills: nothing queued is lost and every flush ends or waits for an upload; and while things are calm the documents' promises hold (849 k states) |
| `Ownership` | `ReadYourWrites`, `NeverTaken`, `ReadsMoveForward` | bikes are never taken, screens never go back and show what they said (1.6 M states) |
| `SignIn` | `WithinRate`, `GuessBudget`, `ImplementsTokenBucket`, `ImplementsLockout` | interleaved logins see an ideal limiter and a throttle that forgets nothing, and an account sees `Limit` wrong passwords per lockout and one more for each other login under way |
| `RecordForm` | `FormTypeOK`, `OneRecordPerForm`, `CorrectionsStayCorrections`, `ConfirmedAsAsked`, `SessionEndsForCause`, `SavingEnds` | what a form makes, what is confirmed and why sessions end, whatever arrives late or is answered wrongly (871 k states) |
| `Garage` | `GarageTypeOK`, `QuietMeansDisk`, `NotesStayWithTheirBike`, `ScreenHasItsBike`, `OdometerRises`, `TasksEnd` | overlapping and failing tasks leave list, screen and tables in agreement; the ways an odometer falls (280 k states) |
| `ImageSlots` | `QuietFileIsMemory`, `CropIsOfItsImage`, `UntouchedSurvive`, `ImagesOnlyNewer`, `MemoryReachesFile` | one file shared by the slots of a page, by other pages and by the agent: read, cropped, encoded and written in any order, with a bridge that comes late or throws (1.6 M states) |
| `OdometerRace`, `LostCommit`, `LostAnswer`, `LateDiscard` | one property each, violated | the findings below |

Every property of a passing run has a mutant: an operator of the module marked
"A bug kept for comparison", which replaces the operator that follows it and
makes the run fail. Type invariants and inductive invariants that a proof
establishes for every value of the constants are not repeated in the runs; they
were checked with TLC before they were proved.

## Bounds

Every unbounded thing has a named bound in a guard.

- `MaxRecords`, `MaxAttachments` (ServiceRecords, Uploads). Three rows make a
  chain of two corrections, or a correction beside a second chain; `RoomForRow` counts the
  requests under way, so a request that began always finds room to commit. With
  a cap of one and two files (three in `Uploads`) two uploads compete for the
  last place. `Records` fixes `Km`: what a lower reading does is `OdometerRace`,
  which has two. Two requests are enough there because the safety
  properties are proved for any number; three act in `Uploads`.
- `MaxDrafts`, `MaxFlushes` (Outbox). Two drafts and two overlapping flushes
  reach every pair of positions in the queue.
- `MaxChanges = 3` (Ownership): claim, release, claim again by another owner,
  with two calls under way and two screens. One bike is enough because no
  statement reads two.
- `MaxTime = 4` (SignIn) with a lockout of two: a row of failures, a lock, its
  end, the age at which the row is dropped, and what happens after. A bucket of
  one call refills in two units, a full one is dropped after three.
- `MaxSessions`, `MaxSearches`, `MaxTaps` (RecordForm): a request of the first
  session refused in the second; two searches that answer in either order; a tap,
  its retry and one more. Three plates, one of them unknown to the API.
- `MaxKm`, `MaxBikes`, `MaxNotes` (Garage): readings none, lower and higher; a
  bike removed and another added; two notes. One plate, because what two bikes
  of different plates share is the id, which two inserts of one plate cover. Two
  tasks at a time.
- `MaxDrops = 3` (ImageSlots): the image of the file and two dropped after it,
  on two slots. `Pages`: a page with one element, which leaves an id for a clone
  and a slot nobody can touch, and one with both. `OthersWrite` waits until the
  page has read or replaced the file again: nothing of the page reads the file in
  between, so several writes of others in a row differ from one in nothing it
  can tell. Until the host has answered the read, `Init` stands for them.
- Symmetry is used only in runs without liveness, on sets whose members the
  modules never tell apart.

The proofs lift the bounds: they hold for every value of the constants that
meets the modules' ASSUMEs.

## Fairness and deadlock

- `ServiceRecords!FairSpec`: weak fairness of each request's own statements (the
  server runs them to the end) and strong fairness of the ones that wait for a
  row, since PostgreSQL queues the waiters of a row and each holder's release
  lets one through. No fairness of `Begin`, of `RegisterVehicle` or of `Fail`:
  clients owe nothing.
- `Outbox!FairSpec`: weak fairness of `PhoneStep`, what the phone does by
  itself: SQLite's answers, the loop's own steps and the timeout of a call. No
  fairness of `Answer` or `ServeLate`: the network owes nothing. `FlushEnds`
  therefore rests on the timeout, as in the code, and stops at an upload:
  `ApiClient.upload` awaits `send` before its 60 seconds begin
  (`api_client.dart:101`), so an upload nobody answers has no timer.
- `RecordForm!FairSpec`: weak fairness of `GiveUp`, the same timeout. The
  uploads after a save owe nothing here either.
- `Garage!Spec`: SQLite answers the call at the head of its queue, which a
  failure counts as too.
- `ImageSlots!Fairness`: the browser ends its read and the host ends every write,
  well or badly. `MemoryReachesFile` needs no more, since a save that was asked
  for during a write is made when that write ends. Nothing is owed of the bridge:
  a save that found none, or on which it threw, is `behind`.
- `Uploads`, `Ownership` and `SignIn` are checked for safety only.

`CHECK_DEADLOCK FALSE` is set in the cfgs of systems that come to rest
legitimately: rows, drafts, sessions or drops used up and nothing under way.
`Garage` never does (the app can always be closed), so its deadlock check is on.
The deadlocks that would matter are excluded by liveness: requests waiting for
each other's rows (`RequestsEnd`), a load inside its own transaction
(`TasksEnd`).

## Proofs

`tlapm` checks the eight `_proofs` modules to the last leaf: every safety
invariant, every action property and every refinement that a passing run checks
has its theorem. Assumptions are only the ASSUMEs of the modules: bounds are
natural numbers, booleans are booleans, flushes and logins are finitely many,
some plate exists, a bucket is full again after `IdleUntilFull`, and the
"nothing" values (`NoProc`, `NoOwner`, `None`, `Early`, ...) are not members of
the sets they stand outside of. No constant is bounded.

- **`ServiceRecords_proofs`**: `Spec => []IInv`, and from it `TypeOK`,
  `ChainsNeverFork`, `CapHolds`, `AppendOnly`, `CorrectionReplaces`,
  `PhotosCarried`. None of these is inductive: that a chain stays a line at
  `Commit` depends on the original being still current, which `CheckRevisable`
  read some statements earlier. `IInv` says for each position of a request what
  it has read that is *still* so: between the `FOR UPDATE` and the commit the
  row is locked by this request (`HoldsOriginal`), current and of the caller's
  shop; at the commit `carried` is all the files of the original and, for an
  upload, there is still room (`ReadsStayTrue`). `ChainsNeverFork` says that the
  row a correction was sent for points at that correction (`corrects`), which is
  what a lost update would break. Two requests cannot hold one
  row, so no other commit disturbs it. `Fits` ties locals to positions,
  `RowsFilled` keeps numbers above `last` blank, so that a new row is pointed at
  by nobody.
  On top of it, `Spec => ImplementsHistory`, the refinement step by step: a commit
  is `Log`, `Correct` or `Attach` of `History`, a registration is itself, and
  every other statement is a stutter. `HistoryInv` adds what that takes. What a
  request was told *without* a lock cannot be undone (`ToldTheTruth`): a bike
  stays registered, the URL of an upload stays its own. And `ChainsAreLines`: the
  chains exist, each is a sequence of committed versions ending at a current row,
  each current row ends exactly one service, and every row is in one. That a
  recursive definition has a meaning would be shown by induction over data; here
  it is part of the invariant instead. It holds before the first row, and from
  the chains before a commit those after it are written down (`Grown`); a
  function that unfolds as `Chain` does is `Chain`, since two that differ would
  differ at a last row and rows only point forward (`NextChainIs`, `LastOfRows`).
- **`Uploads_proofs`**: first, as a lemma, `UploadSpec => Spec`
  (`UploadsRunTransactions`): each step of an upload is a step of the
  transactions it drives, or a stutter, by the way the module is built. So `IInv` and the refinement of `History` (`UploadsImplementHistory`) come for
  free, and `UploadInv` is proved above it: an upload alone
  touches its file (`OwnUpload`), a file to be removed as an orphan is attached
  nowhere unless its outcome is unknown, and every stored file is accounted for.
  A correction that commits copies URLs but shows nothing new
  (`CommitShowsNothingNew`). `SavedIsKept`, `ShownIsStored` and `NoOrphans`
  follow. `SavedFilesAreListed` needs the transactions as well: when a correction
  commits, what it carries is all the files of the row it replaces (`IInv`), so a
  file that was on a current row is on one afterwards (`ListedKept`); and a file
  linked to a row that was superseded already is `astray`.
- **`Ownership_proofs`**: `Spec => []OwnershipInv`, and from it `TypeOK`,
  `ReadYourWrites`, `NeverTaken`, `ReadsMoveForward`. The invariant says that a
  claim between its two statements holds the lock and what it read of the holder
  is still so (`HoldsVehicle`), and that the one load a screen waits for was sent
  after everything the screen shows or was told (`Awaited`), which is why its
  answer, whenever it comes, cannot be older.

- **`Outbox_proofs`**: `Spec => []OutboxInv`, and from it `TypeOK`,
  `NothingLost`, `FilesTriedBeforeDeletion`. Deleting a draft is harmless only
  because of what happened several awaits before: `KeepsUp` says that a flush
  that uploads has a draft that is public, and that each of its files is tried
  or still to be, which other flushes, discards and late requests cannot undo
  (`OnlyMore`). What a flush has left was queued (`OnlyQueuedOnes`), so the
  oldest of it exists (`OldestIsThere`).
  Above it, `CalmInv`, and from it `PublishedOnceWhenCalm` and
  `DiscardedIsGoneWhenCalm`. While it is calm one task at most is away from
  `idle` and no request is out that nobody waits for (`OneAtATime`), so nothing
  changes the disk under the flush: what it has left is queued and the cached
  list is the table (`MemoryIsDisk`), and a draft that is public while it is
  queued is the one the flush is about to delete (`OneFateEach`). Each way this
  could fail (a timeout, an error for what was committed, a delete or a read that
  SQLite fails, a tap during a flush, a kill) ends the calm in the same step.
- **`RecordForm_proofs`**: `Spec => []FormInv`, and from it `FormTypeOK`,
  `OneRecordPerForm`, `CorrectionsStayCorrections`, `ConfirmedAsAsked` and
  `SessionEndsForCause`. The invariant says that whatever an open form awaits it
  sent in the session it still has (`SessionBehind`: an expiry takes the form
  along, and nobody signs in over it), that each request comes of a tap
  (`TapsCount`), and that a form which can still be saved has made nothing that
  is not in `excess` (`RecordsCount`): a request given up, or answered with
  an error after it was served, is in it from that step on.
- **`SignIn_proofs`**, in three parts.
  *The limiter*: `LimiterTypeOK`, `WithinRate`, and the refinement of
  `TokenBucket`. `Funded` is the invariant: what a caller was served and what
  its bucket would give now come out of one burst and the time since the start.
  A bucket is dropped only when it is full again, which `LimiterAssumption`
  (`IdleUntilFull * Rate >= Burst`, the code's `burst/rate` and a minute) makes
  true.
  *The throttle*: the refinement of `Lockout`, `LockedByFailures`, `LockLasts`.
  A lock never outlives the last failure by more than the lockout
  (`LocksAreShort`), which is why a row may be dropped by its age alone.
  *The logins*: each step of `SignIn` is a step of the limiter, a step of the
  throttle or neither, so what is proved of the two holds of the logins without
  a second proof. `GuessBudget` needs one of its own, `BudgetInv`. The count of
  a row covers every recent wrong password no lock has answered to
  (`Unanswered`), so a login passes the throttle only while these are below the
  limit; and the recent wrong passwords *with* the logins being checked never
  exceed `Limit + |Proc| - 1`, since the last one let in found at most
  `|Proc| - 1` others. A wrong password moves one unit from the second count to
  the first; time and the cleaning only take units away.
- **`Garage_proofs`**: `Spec => []GarageInv`, and from it `GarageTypeOK`,
  `QuietMeansDisk`, `NotesStayWithTheirBike`, `ScreenHasItsBike` and
  `OdometerRises`. What carries the proof is that `AUTOINCREMENT` never gives an
  id twice: a row, a listed bike, a task's bike and a screen's were all `born`
  with the id they have (`Numbered`, `WellFormed`), so a note whose id of a bike
  is in the table is of that very bike, and a late note of a removed one is
  refused by the foreign key. `ListInv`: a list that is behind the table has a
  load to come, unless the last load failed. `ScreenInv` does the same for the
  notes on screen, and also needs the order of SQLite's queue: the writes of a
  screen that was closed come before what the open one asked for. `AloneInv` and
  `CalmInv` say what a task that overlaps nobody, and a screen opened in quiet,
  find as they left it. `RoomLeft` counts the inserts to come, so that ids stay
  within the bounds.
- **`ImageSlots_proofs`**: `Spec => []SlotsInv`, and from it `QuietFileIsMemory`,
  `CropIsOfItsImage`, `UntouchedSurvive` and `ImagesOnlyNewer`. A page has one
  write at the host at most, and it is the slots as they are unless another save
  is due (`OneWrite`), or none and saves no more because the bridge threw. Where
  the file is the page's own (`Own`), the file, that write and the slots are in
  order of age (`InOrder`) and a slot nobody set is the same in all three
  (`UntouchedAgree`), which a write of others cannot disturb since it takes its
  slots out of `Own` in the same step;
  and an element whose last drop is still being encoded shows nothing newer
  (`ElementsFollow`), which is what makes the `gen` test of the code sufficient.
  `BeforeRead` is the part about a page that has not read its file: what the
  read finds is merged under what was set meanwhile.

**Only model-checked.** Liveness (`RequestsEnd`, `FlushEnds`, `SavingEnds`,
`TasksEnd`, `MemoryReachesFile`): TLAPS does not prove formulas with ENABLED,
which fairness contains. The runs of `expect: violation` are counterexamples,
which need no proof.

## Where code and documents differ

| Run | Document | Code |
|---|---|---|
| `OdometerRace` | `ARCHITECTURE.md:111`: a mileage below the highest recorded value is refused | `checkMileage` locks nothing: of two unconfirmed records at once the lower can commit last |
| `LostCommit` | `upload.go:182`: removes a file "whose attachment row was never written" | the error of a commit whose answer was lost is taken for a failure, and a shown file is deleted |
| `LostAnswer` | `ARCHITECTURE.md:34`: a flush "removes each one that the API accepts" | a draft whose answer was lost stays and is published again |
| `LateDiscard` | `outbox_screen.dart:49`: a discarded draft "não será publicado" | the flush already walking its copy publishes it |

`PublishedOnceWhenCalm` and `DiscardedIsGoneWhenCalm` state the condition under
which the last two promises do hold, and `ShownIsStored` (up to `unsure`) bounds
the damage of the second.

Other behaviour the models contain and the properties make exceptions for, with no run of its own:

- Two flushes that overlap walk copies of one list and publish a draft twice.
- A save that timed out and is tapped again is a second record if the API served
  both; so is a second tap while the outbox is written (`excess`).
- `write` returns an error when the commit's answer or the reading back of the
  record failed (`repository.go:308-312`): the record may exist, the app shows a
  failure, and the next tap or flush makes a second one (`RefuseServed` of
  `Outbox` and `RecordForm`).
- A published draft whose delete fails in SQLite stays queued and is published
  again by the next flush (`RemoveFails`).
- A refusal ends whatever session there is, also when the refused token was an
  earlier session's (`SessionEndsForCause`, third case).
- An upload whose answer never begins is waited for without a timer, which
  keeps a flush, or a form that has saved its record, waiting (`Uploading`).
- A file uploaded to a record after its correction stays on the superseded row,
  which no list shows.
- `localCopy` compares with the list and writes over the table: a note saved in
  between has its odometer lowered (`OdometerRises`, last case).
- Image slots: the header asks the pages of a directory for distinct ids only
  (`image-slot.js:20-21`), yet each save replaces the whole file by a copy read
  once: entries that another page or the agent wrote since are erased, whatever
  their ids (`others`).
- Image slots: when the read fails the page goes on as if the file were empty,
  and its next save overwrites it (`merged`); a failed write is retried only by
  the next change, and a save asked for before the bridge is there is dropped and
  made up for only by the next one (`behind`); when the bridge throws instead of
  rejecting (227), `saving` stays true and the page saves no more until it goes;
  a drop still being encoded when the page goes is lost.
- `migrate.sh` stopped between applying a file and recording it applies it again
  at the next run, and fails, though it promises that running it again does
  nothing.

## Not modelled

Data the properties do not tell apart (operations, parts, cost, notes, names of
files, formatting) is left out of the records. Two rows of one mechanic's name
are possible in the model, as in the code, and nothing reads the difference.
Cryptography (`auth/token.go`, `password.go`): a token is the identity of its
caller until it expires. HTTP plumbing, CORS, configuration, logging, telemetry:
no state the program reads back. Screens that only show what the API answered,
the demo backend, PDF, widgets, theme and generated code. Pure functions of one
value, which the repository tests with tables: CNPJ digits, plates, reminders,
limits. Migrations: a loop of two statements, whose one hazard is listed. The
hydration of lists (a query for the records, others for their children) only
reads. Two garage screens of one phone are independent in `Ownership`: the code
does not refresh the lower one either.

Of the repository's JavaScript, `mobile/web/sqflite_sw.js` (the SQLite web
worker) and `design/support.js` (the mock-ups' runtime) are generated bundles of
other projects and `design/render.mjs` takes screenshots in a straight line:
none of the three holds logic of this program. `design/image-slot.js`, a starter
component copied into the repository and used by the mock-ups, is modelled but
for drawing, the fetching of remote images and the values of a crop. The program itself is Go and Dart.

PostgreSQL is modelled by three facts the code relies on: READ COMMITTED
visibility, row locks until the end of the transaction, all or nothing at
commit. Within `Outbox` the server is `Create` seen from outside: it accepts or
refuses and keeps no trace of the draft. SQLite is modelled by the order of its
answers.

## Plan

Most important behaviour first.

| | Module | State | What is left |
|---|---|---|---|
| 1 | `ServiceRecords`, `History` | checked and proved | a `RecordLists` module: what a list shows of a record is never older than the record |
| 2 | `Outbox` | checked, safety proved | nothing planned |
| 3 | `Uploads` (composes with 1) | checked and proved | nothing planned |
| 4 | `Ownership` | checked and proved | nothing planned |
| 5 | `RateLimiter`, `LoginThrottle`, `SignIn` | checked and proved | nothing planned |
| 6 | `RecordForm` | checked, safety proved | composition with `Outbox` through `add` |
| 7 | `Garage` | checked, safety proved | nothing planned |
| 8 | `ImageSlots` | checked, safety proved | nothing planned |
| 9 | `Migrations` | not started | three files, a stop between a file and its mark |

Modules to be proved about use no RECURSIVE operator: recursion is by recursive
functions or folds.
