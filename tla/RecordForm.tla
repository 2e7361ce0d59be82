----------------------------- MODULE RecordForm -----------------------------
(***************************************************************************)
(* The Oficina app's record form (mobile/lib/shop/new_record_screen.dart)  *)
(* and the session it is filled in with (state/app_scope.dart,             *)
(* api/api_client.dart, app/app.dart).  Requests of the form and of the    *)
(* screens below it are on their way while the mechanic goes on; each one  *)
(* carries the token of the session it was sent in, and a refusal of any   *)
(* of them ends whatever session there is by then.                         *)
(*                                                                         *)
(* An action is the code between two awaits.  The form is built anew each  *)
(* time it opens; what its counters count starts anew as well.             *)
(***************************************************************************)
EXTENDS Naturals, FiniteSets

CONSTANTS
    Plate,              \* plates typed into the form
    Registered,         \* those of bikes the API knows
    NoPlate,
    MaxSessions,        \* bound: sessions ever signed in
    MaxSearches,        \* bound: searches under way together
    MaxTaps             \* bound: taps on the button of one form

ASSUME FormAssumption ==
    /\ Registered \subseteq Plate /\ NoPlate \notin Plate
    /\ {MaxSessions, MaxSearches, MaxTaps} \subseteq Nat

VARIABLES
    session,            \* the session of the app, 0 signed out
    sessions,           \* sessions signed in so far
    expired,            \* sessions whose token the API no longer takes
    others,             \* sessions whose token requests of other screens, or of
                        \* forms that were left, carry
    open,               \* whether the form is on screen
    correcting,         \* widget.revising # null
    typed,              \* the plate field
    vehicle,            \* _vehicle
    searches,           \* searches under way
    saving,             \* _saving
    step,               \* what _save awaits
    bike,               \* the bike of the record being saved
    token,              \* the token of the awaited request
    queueing,           \* drafts on their way into the outbox
    published,          \* records the API made for this form
    corrected,          \* corrections the API made for this form
    queued,             \* drafts this form put into the outbox
    late,               \* requests of this form nobody awaits that may be served
    taps,               \* taps on its button
    excess,             \* its requests given up or served with an error for an
                        \* answer, and taps on it while it queued
    asked               \* the bike the mechanic was asked about

sessionVars == <<session, sessions, expired, others>>
formVars == <<open, correcting, typed, vehicle, searches>>
saveVars == <<saving, step, bike, token, queueing>>
countVars == <<published, corrected, queued, late, taps, excess, asked>>
vars == <<sessionVars, formVars, saveVars, countVars>>

----------------------------------------------------------------------------
Init ==
    /\ session = 0 /\ sessions = 0 /\ expired = {} /\ others = {}
    /\ open = FALSE /\ correcting = FALSE /\ typed = NoPlate /\ vehicle = NoPlate
    /\ searches = {}
    /\ saving = FALSE /\ step = "idle" /\ bike = NoPlate /\ token = 0 /\ queueing = 0
    /\ published = 0 /\ corrected = 0 /\ queued = 0 /\ late = 0
    /\ taps = 0 /\ excess = 0 /\ asked = NoPlate

\* Where _save awaits the API.
Awaiting == {"create", "confirm", "revise", "upload"}

\* Tokens the form's requests carry.
Carried == {q.token : q \in searches} \cup (IF step \in Awaiting THEN {token} ELSE {})

\* The screen is gone, by its back button, by its end or by an expiry; what it
\* sent is still on its way.
Close ==
    /\ open' = FALSE /\ UNCHANGED correcting
    /\ typed' = NoPlate /\ vehicle' = NoPlate
    /\ searches' = {}
    /\ saving' = FALSE /\ step' = "idle" /\ bike' = NoPlate /\ token' = 0

\* A bug kept for comparison: the session ends and the screens stay.
ExpiryStays ==
    /\ UNCHANGED formVars
    /\ saving' = FALSE /\ step' = "idle" /\ bike' = NoPlate /\ token' = 0

\* MototecaApp._onStateChanged: back to the home screen, which works signed out.
ExpiryGoesHome == Close

\* AppState._expireSession.
Expire(sent) ==
    /\ session' = 0
    /\ others' \in {others \cup Carried, (others \cup Carried) \ {sent}}
    /\ ExpiryGoesHome

\* A request for a record that is on its way when the screen goes is awaited by
\* nobody any more, and may be served.
Abandoned ==
    /\ late' = IF step \in {"create", "confirm"} THEN late + 1 ELSE late
    /\ UNCHANGED <<published, corrected, queued, taps, excess, asked>>

\* A bug kept for comparison: a refusal counts whatever the request carried.
CountsAnyRefusal(sent) == TRUE

\* ApiClient.call: a refused request ends the session if it carried a token.
Counts(sent) == sent # 0

\* The API refuses anonymous writes and expired tokens.
Refused(sent) == sent = 0 \/ sent \in expired

----------------------------------------------------------------------------
(* The session.                                                            *)

SignIn ==
    /\ ~open /\ session = 0 /\ sessions < MaxSessions
    /\ sessions' = sessions + 1
    /\ session' = sessions'
    /\ UNCHANGED <<expired, others, formVars, saveVars, countVars>>

SignOut ==
    /\ ~open /\ session # 0
    /\ session' = 0
    /\ UNCHANGED <<sessions, expired, others, formVars, saveVars, countVars>>

\* The token's time runs out, or its account is gone.
TokenExpires ==
    /\ \E s \in 1..sessions : expired' = expired \cup {s}
    /\ UNCHANGED <<session, sessions, others, formVars, saveVars, countVars>>

\* A screen below the form, or a flush, sends a request of its own.
OtherRequest ==
    /\ others' = others \cup {session}
    /\ UNCHANGED <<session, sessions, expired, formVars, saveVars, countVars>>

OtherAnswered(sent) ==
    /\ sent \in others
    /\ \/ /\ Refused(sent) /\ Counts(sent) /\ session # 0
          /\ Expire(sent) /\ Abandoned
       \/ /\ others' = others \ {sent}
          /\ UNCHANGED <<session, formVars, saving, step, bike, token, countVars>>
    /\ UNCHANGED <<sessions, expired, queueing>>

----------------------------------------------------------------------------
(* The form.                                                               *)

\* From the home screen, signed out or in; a correction from a record of the
\* shop, signed in.
OpenForm ==
    /\ ~open /\ queueing = 0
    /\ open' = TRUE
    /\ correcting' \in IF session = 0 THEN {FALSE} ELSE BOOLEAN
    /\ \E p \in Registered :
          /\ vehicle' = IF correcting' THEN p ELSE NoPlate
          /\ typed' = IF correcting' THEN p ELSE NoPlate
    /\ published' = 0 /\ corrected' = 0 /\ queued' = 0 /\ late' = 0
    /\ taps' = 0 /\ excess' = 0 /\ asked' = NoPlate
    /\ UNCHANGED <<sessionVars, searches, saveVars>>

\* The mechanic can use the form: no question stands before it.
InUse == open /\ step # "ask"

Type ==
    /\ InUse /\ ~correcting
    /\ typed' \in Plate
    /\ UNCHANGED <<sessionVars, open, correcting, vehicle, searches, saveVars, countVars>>

\* _search by the keyboard, which _searching does not stop, or the button.
Search ==
    /\ InUse /\ ~correcting /\ typed # NoPlate /\ session # 0
    /\ Cardinality(searches) < MaxSearches
    /\ searches' = searches \cup {[plate |-> typed, token |-> session]}
    /\ UNCHANGED <<sessionVars, open, correcting, typed, vehicle, saveVars, countVars>>

\* findByPlate found the bike, or none.
Found(q) ==
    /\ q \in searches /\ ~Refused(q.token)
    /\ vehicle' = IF q.plate \in Registered THEN q.plate ELSE NoPlate
    /\ searches' = searches \ {q}
    /\ UNCHANGED <<sessionVars, open, correcting, typed, saveVars, countVars>>

\* The search is public, a bad token is refused all the same.
SearchRefused(q) ==
    /\ q \in searches /\ Refused(q.token) /\ session # 0
    /\ Expire(q.token) /\ Abandoned
    /\ UNCHANGED <<sessions, expired, queueing>>

SearchFails(q) ==
    /\ q \in searches
    /\ searches' = searches \ {q}
    /\ UNCHANGED <<sessionVars, open, correcting, typed, vehicle, saveVars, countVars>>

Leave ==
    /\ InUse
    /\ others' = others \cup Carried
    /\ Close /\ Abandoned
    /\ UNCHANGED <<session, sessions, expired, queueing>>

----------------------------------------------------------------------------
(* Saving.                                                                 *)

Send(next, b) ==
    /\ saving' = TRUE
    /\ step' = next
    /\ bike' = b
    /\ token' = session
    /\ UNCHANGED queueing

Tap == open /\ ~saving /\ step = "idle" /\ taps < MaxTaps /\ taps' = taps + 1

SaveOnline ==
    /\ Tap /\ session # 0 /\ vehicle # NoPlate
    /\ Send(IF correcting THEN "revise" ELSE "create", vehicle)
    /\ UNCHANGED <<sessionVars, formVars, published, corrected, queued, late, excess, asked>>

\* _queue, with no session: nothing keeps the button from being tapped again
\* while the outbox is written.
SaveOffline ==
    /\ Tap /\ session = 0 /\ (vehicle # NoPlate \/ typed # NoPlate)
    /\ queueing' = queueing + 1
    /\ excess' = IF queueing = 0 THEN excess ELSE excess + 1
    /\ UNCHANGED <<sessionVars, formVars, saving, step, bike, token, published, corrected, queued,
                   late, asked>>

\* Outbox.add committed, or failed and the form stays.
Queued ==
    /\ queueing > 0
    /\ queueing' = queueing - 1
    /\ queued' = queued + 1
    /\ Close
    /\ others' = others \cup Carried
    /\ UNCHANGED <<session, sessions, expired, published, corrected, late, taps, excess, asked>>

QueueFails ==
    /\ queueing > 0
    /\ queueing' = queueing - 1
    /\ UNCHANGED <<sessionVars, formVars, saving, step, bike, token, countVars>>

Rest == saving' = FALSE /\ step' = "idle" /\ bike' = NoPlate /\ token' = 0 /\ UNCHANGED queueing

\* A bug kept for comparison: the form can be used again while files upload.
SavedAtOnce == Rest

SavedThenFiles == step' = "upload" /\ token' = session /\ UNCHANGED <<saving, bike, queueing>>

\* The record is saved; its files go next, one after the other.
Published ==
    /\ step \in {"create", "confirm"} /\ ~Refused(token)
    /\ published' = published + 1
    /\ SavedThenFiles
    /\ UNCHANGED <<sessionVars, formVars, corrected, queued, late, taps, excess, asked>>

Corrected ==
    /\ step = "revise" /\ ~Refused(token)
    /\ corrected' = corrected + 1
    /\ SavedThenFiles
    /\ UNCHANGED <<sessionVars, formVars, published, queued, late, taps, excess, asked>>

\* A bug kept for comparison: the spinner goes on behind the question.
SpinnerStays == UNCHANGED saving

SpinnerStops == saving' = FALSE

\* The mileage is lower than the bike's: the mechanic is asked.
MileageIsLower ==
    /\ step = "create" /\ ~Refused(token)
    /\ step' = "ask" /\ SpinnerStops /\ token' = 0
    /\ asked' = bike
    /\ UNCHANGED <<sessionVars, formVars, bike, queueing, published, corrected, queued, late, taps, excess>>

\* A bug kept for comparison: the bike is looked up again.
BikeToConfirmNow == vehicle

BikeToConfirm == bike

SaysYes ==
    /\ step = "ask"
    /\ Send("confirm", BikeToConfirm)
    /\ UNCHANGED <<sessionVars, formVars, countVars>>

SaysNo ==
    /\ step = "ask"
    /\ Rest
    /\ UNCHANGED <<sessionVars, formVars, countVars>>

\* Any other error the API answers with, having saved nothing.
Fails ==
    /\ step \in Awaiting \ {"upload"}
    /\ Rest
    /\ UNCHANGED <<sessionVars, formVars, countVars>>

\* An error answers a request whose record was saved: the commit's answer or the
\* reading back of the record failed.  The form cannot tell it from Fails.
RefuseServed ==
    /\ step \in Awaiting \ {"upload"} /\ ~Refused(token)
    /\ IF step = "revise"
       THEN corrected' = corrected + 1 /\ UNCHANGED published
       ELSE published' = published + 1 /\ UNCHANGED corrected
    /\ excess' = excess + 1
    /\ Rest
    /\ UNCHANGED <<sessionVars, formVars, queued, late, taps, asked>>

\* The API refuses the token, of the record or of a file.
Unauthenticated ==
    /\ step \in Awaiting /\ Refused(token)
    /\ IF session # 0 /\ Counts(token)
       THEN /\ Expire(token)
            /\ UNCHANGED queueing
       ELSE /\ IF step = "upload" THEN UNCHANGED saveVars ELSE Rest
            /\ UNCHANGED <<session, others, formVars>>
    /\ UNCHANGED <<sessions, expired, countVars>>

\* A bug kept for comparison: a request is awaited for as long as it takes.
WaitsForever == FALSE

TimesOut == step \in Awaiting \ {"upload"}

\* No answer in 15 seconds: the request may be served all the same.
GiveUp ==
    /\ TimesOut
    /\ excess' = excess + 1
    /\ late' = IF step \in {"create", "confirm"} THEN late + 1 ELSE late
    /\ Rest
    /\ UNCHANGED <<sessionVars, formVars, published, corrected, queued, taps, asked>>

ServeLate ==
    /\ late > 0
    /\ late' = late - 1
    /\ published' \in {published, published + 1}
    /\ UNCHANGED <<sessionVars, formVars, saveVars, corrected, queued, taps, excess, asked>>

\* Every file is stored or has failed: the form closes with a success.  Nothing
\* times the wait for an upload's answer, only its reading (ApiClient.upload).
FilesSent ==
    /\ step = "upload"
    /\ Close
    /\ others' = others \cup {q.token : q \in searches}
    /\ UNCHANGED <<session, sessions, expired, queueing, countVars>>


Next ==
    \/ SignIn \/ SignOut \/ TokenExpires \/ OtherRequest
    \/ \E s \in 0..sessions : OtherAnswered(s)
    \/ OpenForm \/ Type \/ Search \/ Leave
    \/ \E q \in searches : Found(q) \/ SearchRefused(q) \/ SearchFails(q)
    \/ SaveOnline \/ SaveOffline \/ Queued \/ QueueFails
    \/ Published \/ Corrected \/ MileageIsLower \/ Fails \/ RefuseServed \/ Unauthenticated
    \/ SaysYes \/ SaysNo \/ GiveUp \/ FilesSent \/ ServeLate

Spec == Init /\ [][Next]_vars

\* A call is timed by the phone; nobody owes it, or an upload, an answer.
FairSpec == Spec /\ WF_vars(GiveUp)

----------------------------------------------------------------------------
FormTypeOK ==
    /\ session \in 0..sessions /\ sessions \in 0..MaxSessions
    /\ expired \subseteq 1..sessions /\ others \subseteq 0..sessions
    /\ {open, correcting, saving} \subseteq BOOLEAN
    /\ {typed, vehicle, bike, asked} \subseteq Plate \cup {NoPlate}
    /\ searches \subseteq [plate: Plate, token: 0..sessions]
    /\ step \in {"idle", "create", "confirm", "revise", "ask", "upload"}
    /\ token \in 0..sessions
    /\ saving <=> step \in Awaiting
    /\ open \/ (step = "idle" /\ searches = {})
    /\ {queueing, published, corrected, queued, late, taps, excess} \subseteq 0..2 * MaxTaps + 1

\* A form makes one record, in the history or in the queue, and one more for
\* each of its requests it gave up on or saw fail although it was served, and
\* each tap while it queued: not when it is left and served late, when the
\* mechanic is asked, when the session ends under it and its request is served
\* all the same, nor when an upload fails.
OneRecordPerForm == published + late + queued + queueing <= 1 + excess

\* A correction never becomes a record of its own: it is not queued, whatever
\* ends the session while the form is open.
CorrectionsStayCorrections == correcting => published + queued + queueing = 0

\* What is confirmed is the mileage the mechanic was asked about, although a
\* search may change the bike of the form while the question stands.
ConfirmedAsAsked == step = "confirm" => bike = asked

\* A session ends by signing out, because its own token has expired, or by the
\* refusal of an expired token that a request of an earlier session still
\* carries; never because an anonymous request was refused.
SessionEndsForCause ==
    [][session # 0 /\ session' = 0 =>
           \/ SignOut
           \/ session \in expired
           \/ \E s \in others \cup Carried : s < session /\ s \in expired]_vars

\* What the form awaits it sent in the session it still has: a session that ends
\* takes the form along.
SessionBehind ==
    /\ session # 0 => session = sessions
    /\ step # "idle" => session # 0
    /\ step \in Awaiting => token # 0
    /\ \A q \in searches : q.token # 0
    /\ open /\ queueing > 0 => session = 0
    /\ open /\ correcting => session # 0

OneIf(condition) == IF condition THEN 1 ELSE 0

\* Every request comes of a tap.
TapsCount ==
    /\ excess + OneIf(step \in {"create", "confirm", "revise", "ask"}) <= taps
    /\ corrected + OneIf(step = "revise") <= taps
    /\ taps <= MaxTaps

\* A form that can still be saved has made nothing that is not in excess.
RecordsCount ==
    /\ OneRecordPerForm
    /\ open /\ step # "upload" /\ queueing = 0 => published + late + queued <= excess

OnlyCorrects ==
    correcting => /\ published = 0 /\ late = 0 /\ queued = 0 /\ queueing = 0
                  /\ step \in {"idle", "revise", "upload"}

AskedOfBike == step \in {"ask", "confirm"} => bike = asked

\* The strengthening the proofs carry.
FormInv ==
    /\ FormTypeOK /\ SessionBehind /\ TapsCount /\ RecordsCount /\ OnlyCorrects
    /\ AskedOfBike

\* The button does not spin forever before the record is saved, whatever is
\* lost; its files are another matter, since nothing times their uploads.
SavingEnds == saving ~> ~saving \/ step = "upload"
=============================================================================
