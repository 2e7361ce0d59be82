----------------------------- MODULE Ownership -----------------------------
(***************************************************************************)
(* Who a bike is linked to: internal/owner/repository.go and handler.go on *)
(* the server, mobile/lib/rider/garage_screen.dart on the phones.          *)
(*                                                                         *)
(* A call of Proc is one request, from the screen that sends it to the     *)
(* screen that gets its answer; on the server it is a PostgreSQL           *)
(* transaction at READ COMMITTED, as in ServiceRecords.  A screen may stop *)
(* waiting (its 15 seconds are over, or it is closed) while the server     *)
(* still runs the call.  A Screen is one garage screen of a signed-in      *)
(* owner; an owner may have several, on one phone or on more.              *)
(*                                                                         *)
(* The chassi is known by its end, which is what a claim must know.        *)
(***************************************************************************)
EXTENDS Naturals, FiniteSets

CONSTANTS
    Proc, Screen, Owner, Plate, End,
    MaxChanges,         \* bound: committed claims and releases
    NoProc, NoScreen, NoOwner, NoPlate, NoEnd, NoRequest, NoAnswer

ASSUME OwnershipAssumption ==
    /\ MaxChanges \in Nat
    /\ NoProc \notin Proc /\ NoScreen \notin Screen
    /\ NoOwner \notin Owner /\ NoEnd \notin End

VARIABLES
    chassi,             \* the end of each registered bike's chassi
    holder,             \* vehicles.current_owner_id
    lock,               \* holder of the FOR UPDATE lock of each bike
    changes,            \* how many times a holder was written
    at,                 \* where each call is
    call,               \* what it asks, and the screen that waits for it
    answer,             \* what the server answered
    account,            \* whose garage each screen shows, NoOwner when closed
    future,             \* the load whose result the screen will show
    list,               \* what it shows
    told                \* the last change of its own it was told of

database == <<chassi, holder, lock, changes>>

network == <<at, call, answer>>

screens == <<account, future, list, told>>

vars == <<database, network, screens>>

----------------------------------------------------------------------------
Claiming == {"claim", "claimNew"}

Writing == Claiming \cup {"release"}

Request ==
    [kind: Writing \cup {"list", "register"}, screen: Screen \cup {NoScreen},
     owner: Owner, plate: Plate \cup {NoPlate}, end: End \cup {NoEnd}]

Answer ==
    [result: {"ok", "notFound", "failed", "unauthenticated"},
     bikes: SUBSET Plate, version: 0..MaxChanges]

List == [bikes: SUBSET Plate, version: 0..MaxChanges, failed: BOOLEAN]

Nothing == [bikes |-> {}, version |-> 0, failed |-> FALSE]

\* A call carries the token, and so the owner, of the moment it is sent.
Ask(kind, s, plate, end) ==
    [kind |-> kind, screen |-> s, owner |-> account[s], plate |-> plate, end |-> end]

Init ==
    /\ chassi = [b \in Plate |-> NoEnd]
    /\ holder = [b \in Plate |-> NoOwner]
    /\ lock = [b \in Plate |-> NoProc]
    /\ changes = 0
    /\ at = [p \in Proc |-> "idle"]
    /\ call = [p \in Proc |-> NoRequest]
    /\ answer = [p \in Proc |-> NoAnswer]
    /\ account = [s \in Screen |-> NoOwner]
    /\ future = [s \in Screen |-> NoProc]
    /\ list = [s \in Screen |-> Nothing]
    /\ told = [s \in Screen |-> 0]

----------------------------------------------------------------------------
(* Calls.                                                                  *)

Send(p, request) ==
    /\ at' = [at EXCEPT ![p] = "sent"]
    /\ call' = [call EXCEPT ![p] = request]
    /\ answer' = [answer EXCEPT ![p] = NoAnswer]

Finish(p) ==
    /\ at' = [at EXCEPT ![p] = "idle"]
    /\ call' = [call EXCEPT ![p] = NoRequest]
    /\ answer' = [answer EXCEPT ![p] = NoAnswer]

\* A call nobody waits for still counts when it may change who holds a bike.
Goes(p) == at[p] \in {"sent", "claiming"} /\ call[p].kind \in Writing

Orphan(p) == [call[p] EXCEPT !.screen = NoScreen]

\* The server is done with the call; the answer travels if somebody waits.
Reply(p, result, bikes, version) ==
    IF call[p].screen = NoScreen THEN Finish(p)
    ELSE /\ at' = [at EXCEPT ![p] = "answered"]
         /\ answer' = [answer EXCEPT ![p] =
                         [result |-> result, bikes |-> bikes, version |-> version]]
         /\ UNCHANGED call

Refuse(p, result) == Reply(p, result, {}, 0)

\* The bound: every claim and release under way may still be committed.
RoomForChange ==
    changes + Cardinality({p \in Proc : at[p] # "idle" /\ call[p].kind # "list"})
        < MaxChanges

----------------------------------------------------------------------------
(* The server.                                                             *)

\* A shop registers the bike, or an owner whose app stopped waiting did.
RegisterVehicle ==
    /\ \E b \in {x \in Plate : chassi[x] = NoEnd}, end \in End :
          chassi' = [chassi EXCEPT ![b] = end]
    /\ UNCHANGED <<holder, lock, changes, network, screens>>

\* auth.Interceptor refuses a token that expired since it was issued.
Unauthenticated(p) ==
    /\ at[p] = "sent"
    /\ Refuse(p, "unauthenticated")
    /\ UNCHANGED <<database, screens>>

Unlocked(p) == [b \in Plate |-> IF lock[b] = p THEN NoProc ELSE lock[b]]

\* A statement fails and the transaction is rolled back.
ServerFails(p) ==
    /\ at[p] \in {"sent", "claiming"}
    /\ lock' = Unlocked(p)
    /\ Refuse(p, "failed")
    /\ UNCHANGED <<chassi, holder, changes, screens>>

\* ListVehicles: one SELECT.
ListVehicles(p) ==
    /\ at[p] = "sent" /\ call[p].kind = "list"
    /\ Reply(p, "ok", {b \in Plate : holder[b] = call[p].owner}, changes)
    /\ UNCHANGED <<database, screens>>

\* vehicle.Repository.Create, for the owner's form.
CreateVehicle(p) ==
    LET b == call[p].plate IN
    /\ at[p] = "sent" /\ call[p].kind = "register"
    /\ IF chassi[b] = NoEnd
       THEN chassi' = [chassi EXCEPT ![b] = call[p].end] /\ Refuse(p, "ok")
       ELSE UNCHANGED chassi /\ Refuse(p, "failed")
    /\ UNCHANGED <<holder, lock, changes, screens>>

\* A bug kept for comparison: SELECT without FOR UPDATE does not wait.
FreeIgnored(b) == TRUE

Free(b) == lock[b] = NoProc

\* Claim: SELECT id, chassi, current_owner_id ... FOR UPDATE, and its checks.
LockVehicle(p) ==
    LET b == call[p].plate IN
    /\ at[p] = "sent" /\ call[p].kind \in Claiming
    /\ Free(b)
    /\ IF chassi[b] = call[p].end /\ holder[b] \in {NoOwner, call[p].owner}
       THEN /\ lock' = [lock EXCEPT ![b] = p]
            /\ at' = [at EXCEPT ![p] = "claiming"]
            /\ UNCHANGED <<call, answer>>
       ELSE /\ Refuse(p, IF chassi[b] = NoEnd THEN "notFound" ELSE "failed")
            /\ UNCHANGED lock
    /\ UNCHANGED <<chassi, holder, changes, screens>>

\* UPDATE vehicles, then the commit.  The handler loads the bike's last
\* service after it, and the claim fails for the app when that fails.
CommitClaim(p) ==
    LET b == call[p].plate IN
    /\ at[p] = "claiming" /\ changes < MaxChanges
    /\ holder' = [holder EXCEPT ![b] = call[p].owner]
    /\ changes' = changes + 1
    /\ lock' = Unlocked(p)
    /\ \/ Reply(p, "ok", {}, changes + 1)
       \/ Refuse(p, "failed")
    /\ UNCHANGED <<chassi, screens>>

\* Release: UPDATE ... WHERE current_owner_id = the caller, in one statement.
ReleaseVehicle(p) ==
    LET b == call[p].plate IN
    /\ at[p] = "sent" /\ call[p].kind = "release"
    /\ IF holder[b] = call[p].owner
       THEN /\ Free(b) /\ changes < MaxChanges
            /\ holder' = [holder EXCEPT ![b] = NoOwner]
            /\ changes' = changes + 1
            /\ Reply(p, "ok", {}, changes + 1)
       ELSE /\ Refuse(p, "notFound")
            /\ UNCHANGED <<holder, changes>>
    /\ UNCHANGED <<chassi, lock, screens>>

\* A call given up on never arrived.
Lose(p) ==
    /\ at[p] = "sent" /\ call[p].screen = NoScreen
    /\ Finish(p)
    /\ UNCHANGED <<database, screens>>

----------------------------------------------------------------------------
(* The garage screen.                                                      *)

\* The register form covers the garage until it is left or its bike is
\* registered.
FormOpen(s) ==
    \E p \in Proc : at[p] # "idle" /\ call[p].kind = "register" /\ call[p].screen = s

Ready(s) == account[s] # NoOwner /\ ~FormOpen(s)

\* The screen opens in a session and loads the owner's bikes.
OpenGarage(s) ==
    /\ account[s] = NoOwner
    /\ \E o \in Owner, p \in {q \in Proc : at[q] = "idle"} :
          /\ account' = [account EXCEPT ![s] = o]
          /\ future' = [future EXCEPT ![s] = p]
          /\ Send(p, [Ask("list", s, NoPlate, NoEnd) EXCEPT !.owner = o])
    /\ UNCHANGED <<database, list, told>>

\* Left, signed out or expired: nothing that is still to come finds the screen.
CloseGarage(s) ==
    LET waits == {p \in Proc : at[p] # "idle" /\ call[p].screen = s} IN
    /\ account[s] # NoOwner
    /\ account' = [account EXCEPT ![s] = NoOwner]
    /\ future' = [future EXCEPT ![s] = NoProc]
    /\ list' = [list EXCEPT ![s] = Nothing]
    /\ told' = [told EXCEPT ![s] = 0]
    /\ at' = [p \in Proc |-> IF p \in waits /\ ~Goes(p) THEN "idle" ELSE at[p]]
    /\ call' = [p \in Proc |-> IF p \notin waits THEN call[p]
                               ELSE IF Goes(p) THEN Orphan(p) ELSE NoRequest]
    /\ answer' = [p \in Proc |-> IF p \in waits THEN NoAnswer ELSE answer[p]]
    /\ UNCHANGED database

\* The list is pulled down, or its retry button pressed.
Reload(s) ==
    /\ Ready(s)
    /\ \E p \in {q \in Proc : at[q] = "idle"} :
          /\ future' = [future EXCEPT ![s] = p]
          /\ Send(p, Ask("list", s, NoPlate, NoEnd))
    /\ UNCHANGED <<database, account, list, told>>

\* "Vendi esta moto", on a bike the screen shows.
Release(s) ==
    /\ Ready(s) /\ RoomForChange
    /\ \E b \in list[s].bikes, p \in {q \in Proc : at[q] = "idle"} :
          Send(p, Ask("release", s, b, NoEnd))
    /\ UNCHANGED <<database, screens>>

\* The claim dialog asks for the plate and the end of the chassi.
LinkToAccount(s) ==
    /\ Ready(s) /\ RoomForChange
    /\ \E b \in Plate, end \in End, p \in {q \in Proc : at[q] = "idle"} :
          Send(p, Ask("claim", s, b, end))
    /\ UNCHANGED <<database, screens>>

\* The form, prefilled with the plate, which the owner may change.
SubmitForm(p) ==
    /\ at[p] = "form"
    /\ \E b \in Plate, end \in End :
          Send(p, [call[p] EXCEPT !.plate = b, !.end = end])
    /\ UNCHANGED <<database, screens>>

\* The form is left, perhaps while its call is under way.
CancelForm(p) ==
    /\ at[p] # "idle" /\ call[p].kind = "register"
    /\ Finish(p)
    /\ UNCHANGED <<database, screens>>

\* A bug kept for comparison: the load that ends last is shown.
ExpectedAlways(s, p) == TRUE

\* A FutureBuilder ignores every future but the one it was last given.
Expected(s, p) == future[s] = p

\* What becomes of the list when load p ends; an error takes its place.
Loaded(p, new) ==
    LET s == call[p].screen IN
    IF Expected(s, p)
    THEN /\ future' = [future EXCEPT ![s] = NoProc]
         /\ list' = [list EXCEPT ![s] = new]
    ELSE UNCHANGED <<future, list>>

LoadFailed(s) == [list[s] EXCEPT !.bikes = {}, !.failed = TRUE]

\* The FutureBuilder gets the answer of a load.
Show(p) ==
    LET a == answer[p] IN
    /\ at[p] = "answered" /\ call[p].kind = "list" /\ a.result # "unauthenticated"
    /\ Loaded(p, IF a.result = "ok"
                 THEN [bikes |-> a.bikes, version |-> a.version, failed |-> FALSE]
                 ELSE LoadFailed(call[p].screen))
    /\ Finish(p)
    /\ UNCHANGED <<database, account, told>>

\* A bug kept for comparison: the list is not loaded again.
ReloadForgotten(p, s) == Finish(p) /\ UNCHANGED future

\* _reload: the call's continuation sends the next load.
ReloadAfter(p, s) ==
    /\ Send(p, Ask("list", s, NoPlate, NoEnd))
    /\ future' = [future EXCEPT ![s] = p]

\* "Moto vinculada.", "Moto desvinculada.": the screen says so and reloads.
Succeed(p) ==
    LET s == call[p].screen
        v == answer[p].version
    IN
    /\ at[p] = "answered" /\ call[p].kind \in Writing /\ answer[p].result = "ok"
    /\ told' = [told EXCEPT ![s] = IF v > @ THEN v ELSE @]
    /\ ReloadAfter(p, s)
    /\ UNCHANGED <<database, account, list>>

\* An unknown plate opens the form; any other error is shown and that is all.
FailTo(p) ==
    /\ at[p] = "answered" /\ call[p].kind \in Writing
    /\ answer[p].result \in {"notFound", "failed"}
    /\ IF call[p].kind = "claim" /\ answer[p].result = "notFound"
       THEN /\ at' = [at EXCEPT ![p] = "form"]
            /\ call' = [call EXCEPT ![p].kind = "register"]
            /\ answer' = [answer EXCEPT ![p] = NoAnswer]
       ELSE Finish(p)
    /\ UNCHANGED <<database, screens>>

\* The registered bike is claimed; the form stays open on an error.
Registered(p) ==
    /\ at[p] = "answered" /\ call[p].kind = "register"
    /\ IF answer[p].result = "ok"
       THEN Send(p, Ask("claimNew", call[p].screen, call[p].plate, call[p].end))
       ELSE /\ answer[p].result # "unauthenticated"
            /\ at' = [at EXCEPT ![p] = "form"]
            /\ answer' = [answer EXCEPT ![p] = NoAnswer]
            /\ UNCHANGED call
    /\ UNCHANGED <<database, screens>>

\* AppState._expireSession takes the user home.
Expire(p) ==
    /\ at[p] = "answered" /\ answer[p].result = "unauthenticated"
    /\ CloseGarage(call[p].screen)

\* Fifteen seconds without an answer, or the connection fails: an error for
\* the screen, while the server may still run the call.
GiveUp(p) ==
    /\ at[p] \in {"sent", "claiming", "answered"} /\ call[p].screen # NoScreen
    /\ IF call[p].kind = "list" THEN Loaded(p, LoadFailed(call[p].screen))
       ELSE UNCHANGED <<future, list>>
    /\ IF Goes(p) THEN call' = [call EXCEPT ![p] = Orphan(p)] /\ UNCHANGED <<at, answer>>
       ELSE IF call[p].kind = "register"
       THEN /\ at' = [at EXCEPT ![p] = "form"]
            /\ answer' = [answer EXCEPT ![p] = NoAnswer]
            /\ UNCHANGED call
       ELSE Finish(p)
    /\ UNCHANGED <<database, account, told>>

----------------------------------------------------------------------------
Serve(p) ==
    \/ ListVehicles(p) \/ CreateVehicle(p) \/ LockVehicle(p) \/ CommitClaim(p)
    \/ ReleaseVehicle(p) \/ Unauthenticated(p) \/ ServerFails(p) \/ Lose(p)

Receive(p) ==
    \/ Show(p) \/ Succeed(p) \/ FailTo(p) \/ Registered(p) \/ Expire(p)
    \/ GiveUp(p) \/ SubmitForm(p) \/ CancelForm(p)

ScreenStep(s) ==
    OpenGarage(s) \/ CloseGarage(s) \/ Reload(s) \/ Release(s) \/ LinkToAccount(s)

Next ==
    \/ RegisterVehicle
    \/ \E p \in Proc : Serve(p) \/ Receive(p)
    \/ \E s \in Screen : ScreenStep(s)

Spec == Init /\ [][Next]_vars

----------------------------------------------------------------------------
TypeOK ==
    /\ chassi \in [Plate -> End \cup {NoEnd}]
    /\ holder \in [Plate -> Owner \cup {NoOwner}]
    /\ lock \in [Plate -> Proc \cup {NoProc}]
    /\ changes \in 0..MaxChanges
    /\ at \in [Proc -> {"idle", "sent", "claiming", "answered", "form"}]
    /\ call \in [Proc -> Request \cup {NoRequest}]
    /\ answer \in [Proc -> Answer \cup {NoAnswer}]
    /\ account \in [Screen -> Owner \cup {NoOwner}]
    /\ future \in [Screen -> Proc \cup {NoProc}]
    /\ list \in [Screen -> List]
    /\ told \in [Screen -> 0..MaxChanges]

GivenUpByHolder(b) ==
    /\ holder'[b] = NoOwner
    /\ \E p \in Proc : at[p] = "sent" /\ at'[p] # "sent"
          /\ call[p] \in Request /\ call[p].kind = "release"
          /\ call[p].plate = b /\ call[p].owner = holder[b]

\* A bike leaves its owner only by that owner's own release: however claims
\* and releases of it race, nobody takes it from the one who holds it.
NeverTaken ==
    [][\A b \in Plate :
          holder[b] # NoOwner /\ holder'[b] # holder[b] => GivenUpByHolder(b)]_vars

\* A garage screen never goes back to an older list, in whatever order its
\* loads are answered.
ReadsMoveForward ==
    [][\A s \in Screen : account'[s] # NoOwner => list'[s].version >= list[s].version]_vars

\* Once its last load is answered, a screen shows the links and the releases
\* it was told of: a bike it said is sold is not on its list.
ReadYourWrites ==
    \A s \in Screen :
        account[s] # NoOwner /\ future[s] = NoProc /\ ~list[s].failed
            => list[s].version >= told[s]

----------------------------------------------------------------------------
(* The inductive invariant: why the properties above hold.                 *)

\* A call under way is a request of a screen that is open, or of none.
Fits(p) ==
    at[p] # "idle" =>
        /\ call[p] \in Request
        /\ call[p].kind # "list" => call[p].plate \in Plate
        /\ call[p].kind \in {"list", "register"} => call[p].screen # NoScreen
        /\ call[p].screen # NoScreen => account[call[p].screen] # NoOwner
        /\ at[p] = "form" => call[p].kind = "register"
        /\ at[p] = "answered" =>
              /\ call[p].screen # NoScreen
              /\ answer[p] \in Answer /\ answer[p].version <= changes

\* What a claim read under the lock is still so.
HoldsVehicle(p) ==
    at[p] = "claiming" =>
        /\ call[p].kind \in Claiming
        /\ lock[call[p].plate] = p
        /\ holder[call[p].plate] \in {NoOwner, call[p].owner}

\* The load a screen waits for was sent after all it shows and was told.
Awaited(s) ==
    LET p == future[s] IN
    p # NoProc =>
        /\ at[p] \in {"sent", "answered"}
        /\ call[p].kind = "list" /\ call[p].screen = s
        /\ at[p] = "answered" /\ answer[p].result = "ok" =>
              answer[p].version >= list[s].version /\ answer[p].version >= told[s]

Behind(s) == list[s].version <= changes /\ told[s] <= changes

OwnershipInv ==
    /\ TypeOK
    /\ \A p \in Proc : Fits(p) /\ HoldsVehicle(p)
    /\ \A s \in Screen : Awaited(s) /\ Behind(s)
    /\ ReadYourWrites
=============================================================================
