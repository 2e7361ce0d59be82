-------------------------- MODULE Ownership_proofs --------------------------
(***************************************************************************)
(* Proofs about Ownership: what a claim read under the row lock, and what  *)
(* a screen was told before it sent its load, are still so when they are   *)
(* used.  OwnershipInv states both; the properties follow from it.         *)
(***************************************************************************)
EXTENDS Ownership, TLAPS

\* The step touches no call but p.
OnlyCall(p) ==
    \A q \in Proc \ {p} : at'[q] = at[q] /\ call'[q] = call[q] /\ answer'[q] = answer[q]

LEMMA InitInv == Init => OwnershipInv
BY OwnershipAssumption
   DEF Init, OwnershipInv, TypeOK, Fits, HoldsVehicle, Awaited, Behind,
       ReadYourWrites, List, Nothing

----------------------------------------------------------------------------
(* Calls that are sent, finished and answered.                             *)

LEMMA SendFacts ==
    ASSUME TypeOK, NEW p \in Proc, NEW request \in Request, Send(p, request)
    PROVE  /\ OnlyCall(p)
           /\ at'[p] = "sent" /\ call'[p] = request
           /\ at' \in [Proc -> {"idle", "sent", "claiming", "answered", "form"}]
           /\ call' \in [Proc -> Request \cup {NoRequest}]
           /\ answer' \in [Proc -> Answer \cup {NoAnswer}]
BY DEF Send, TypeOK, OnlyCall

LEMMA FinishFacts ==
    ASSUME TypeOK, NEW p \in Proc, Finish(p)
    PROVE  /\ OnlyCall(p)
           /\ at'[p] = "idle"
           /\ at' \in [Proc -> {"idle", "sent", "claiming", "answered", "form"}]
           /\ call' \in [Proc -> Request \cup {NoRequest}]
           /\ answer' \in [Proc -> Answer \cup {NoAnswer}]
BY DEF Finish, TypeOK, OnlyCall

LEMMA ReplyFacts ==
    ASSUME TypeOK, NEW p \in Proc,
           NEW result \in {"ok", "notFound", "failed", "unauthenticated"},
           NEW bikes \in SUBSET Plate, NEW version \in 0..MaxChanges,
           Reply(p, result, bikes, version)
    PROVE  /\ OnlyCall(p)
           /\ call[p].screen = NoScreen => at'[p] = "idle"
           /\ call[p].screen # NoScreen =>
                 /\ at'[p] = "answered" /\ call'[p] = call[p]
                 /\ answer'[p] \in Answer
                 /\ answer'[p].result = result /\ answer'[p].version = version
           /\ at' \in [Proc -> {"idle", "sent", "claiming", "answered", "form"}]
           /\ call' \in [Proc -> Request \cup {NoRequest}]
           /\ answer' \in [Proc -> Answer \cup {NoAnswer}]
<1>1. CASE call[p].screen = NoScreen
  BY <1>1, FinishFacts DEF Reply
<1>2. CASE call[p].screen # NoScreen
  <2> DEFINE new == [result |-> result, bikes |-> bikes, version |-> version]
  <2>1. new \in Answer
    BY DEF Answer
  <2>2. QED
    BY <1>2, <2>1 DEF Reply, TypeOK, OnlyCall
<1>3. QED
  BY <1>1, <1>2

LEMMA NothingToReply == 0 \in 0..MaxChanges /\ {} \in SUBSET Plate
BY OwnershipAssumption

\* What the calls that are not touched say stays so, when nobody closes a
\* screen, takes a lock another call holds, or counts the changes back.
LEMMA OthersKeep ==
    ASSUME OwnershipInv, NEW p \in Proc, OnlyCall(p), TypeOK',
           changes' >= changes, account' = account,
           \A q \in Proc \ {p} : at[q] = "claiming" =>
               /\ lock'[call[q].plate] = q
               /\ holder'[call[q].plate] = holder[call[q].plate]
    PROVE  \A q \in Proc \ {p} : Fits(q)' /\ HoldsVehicle(q)'
<1> SUFFICES ASSUME NEW q \in Proc \ {p} PROVE Fits(q)' /\ HoldsVehicle(q)'
  OBVIOUS
<1>1. at'[q] = at[q] /\ call'[q] = call[q] /\ answer'[q] = answer[q]
  BY DEF OnlyCall
<1>2. Fits(q)'
  BY <1>1 DEF OwnershipInv, Fits, TypeOK, Answer
<1>3. HoldsVehicle(q)'
  BY <1>1 DEF OwnershipInv, HoldsVehicle
<1>4. QED
  BY <1>2, <1>3

\* A step of the server on call p tells the screens nothing they do not wait
\* for.
LEMMA ScreensKeep ==
    ASSUME OwnershipInv, NEW p \in Proc, OnlyCall(p), changes' >= changes,
           changes' \in 0..MaxChanges, UNCHANGED screens,
           at[p] \in {"sent", "claiming"},
           \/ at'[p] = "idle" /\ call[p].kind # "list"
           \/ at'[p] = "claiming" /\ call[p].kind # "list"
           \/ /\ at'[p] = "answered" /\ call'[p] = call[p]
              /\ call[p].kind = "list" /\ answer'[p].result = "ok"
                    => answer'[p].version = changes
    PROVE  (\A s \in Screen : Awaited(s)' /\ Behind(s)') /\ ReadYourWrites'
<1>1. ASSUME NEW s \in Screen PROVE Awaited(s)' /\ Behind(s)'
  <2>1. Behind(s)'
    BY DEF OwnershipInv, Behind, screens, TypeOK, List
  <2>2. ASSUME future[s] # p PROVE Awaited(s)'
    BY <2>2 DEF OwnershipInv, Awaited, screens, OnlyCall, TypeOK
  <2>3. ASSUME future[s] = p PROVE Awaited(s)'
    BY <2>3 DEF OwnershipInv, Awaited, Behind, screens, TypeOK, List
  <2>4. QED
    BY <2>1, <2>2, <2>3
<1>2. ReadYourWrites'
  BY DEF OwnershipInv, ReadYourWrites, screens
<1>3. QED
  BY <1>1, <1>2
----------------------------------------------------------------------------
(* The server.                                                             *)

\* Call p is answered or dropped, and nothing else of the invariant moves.
LEMMA AnsweredKeeps ==
    ASSUME OwnershipInv, NEW p \in Proc, at[p] \in {"sent", "claiming"},
           NEW result \in {"ok", "notFound", "failed", "unauthenticated"},
           NEW bikes \in SUBSET Plate, NEW version \in 0..MaxChanges,
           Reply(p, result, bikes, version), UNCHANGED screens,
           changes' \in 0..MaxChanges, changes' >= changes, version <= changes',
           call[p].kind = "list" /\ result = "ok" => version = changes,
           chassi' \in [Plate -> End \cup {NoEnd}],
           holder' \in [Plate -> Owner \cup {NoOwner}],
           lock' \in [Plate -> Proc \cup {NoProc}],
           \A q \in Proc \ {p} : at[q] = "claiming" =>
               /\ lock'[call[q].plate] = q
               /\ holder'[call[q].plate] = holder[call[q].plate]
    PROVE  OwnershipInv'
<1>1. TypeOK /\ Fits(p)
  BY DEF OwnershipInv
<1>2. /\ OnlyCall(p)
      /\ call[p].screen = NoScreen => at'[p] = "idle"
      /\ call[p].screen # NoScreen =>
            /\ at'[p] = "answered" /\ call'[p] = call[p]
            /\ answer'[p] \in Answer
            /\ answer'[p].result = result /\ answer'[p].version = version
      /\ at' \in [Proc -> {"idle", "sent", "claiming", "answered", "form"}]
      /\ call' \in [Proc -> Request \cup {NoRequest}]
      /\ answer' \in [Proc -> Answer \cup {NoAnswer}]
  BY <1>1, ReplyFacts
<1>3. TypeOK'
  BY <1>1, <1>2 DEF TypeOK, screens
<1>4. \A q \in Proc \ {p} : Fits(q)' /\ HoldsVehicle(q)'
  BY <1>2, <1>3, OthersKeep DEF screens
<1>5. Fits(p)' /\ HoldsVehicle(p)'
  BY <1>1, <1>2 DEF Fits, HoldsVehicle, screens
<1>6. (\A s \in Screen : Awaited(s)' /\ Behind(s)') /\ ReadYourWrites'
  <2>1. \/ at'[p] = "idle" /\ call[p].kind # "list"
        \/ at'[p] = "claiming" /\ call[p].kind # "list"
        \/ /\ at'[p] = "answered" /\ call'[p] = call[p]
           /\ call[p].kind = "list" /\ answer'[p].result = "ok"
                 => answer'[p].version = changes
    BY <1>1, <1>2 DEF Fits
  <2>2. QED
    BY <1>2, <2>1, ScreensKeep
<1>7. QED
  BY <1>3, <1>4, <1>5, <1>6 DEF OwnershipInv

LEMMA RegisterVehicleKeeps ==
    ASSUME OwnershipInv, RegisterVehicle PROVE OwnershipInv'
<1>1. TypeOK'
  BY DEF OwnershipInv, TypeOK, RegisterVehicle, network, screens
<1>2. QED
  BY <1>1 DEF OwnershipInv, RegisterVehicle, network, screens, Fits, HoldsVehicle,
              Awaited, Behind, ReadYourWrites

LEMMA RefusedKeeps ==
    ASSUME OwnershipInv, NEW p \in Proc,
           ListVehicles(p) \/ CreateVehicle(p) \/ Unauthenticated(p) \/ ServerFails(p)
    PROVE  OwnershipInv'
<1>1. /\ TypeOK /\ Fits(p) /\ HoldsVehicle(p)
      /\ \A q \in Proc : HoldsVehicle(q)
  BY DEF OwnershipInv
<1>2. CASE ListVehicles(p)
  <2> DEFINE bikes == {b \in Plate : holder[b] = call[p].owner}
  <2>1. /\ at[p] = "sent" /\ Reply(p, "ok", bikes, changes) /\ UNCHANGED <<database, screens>>
        /\ bikes \in SUBSET Plate /\ changes \in 0..MaxChanges
    BY <1>1, <1>2 DEF ListVehicles, TypeOK
  <2> HIDE DEF bikes
  <2>2. QED
    BY <1>1, <2>1, AnsweredKeeps DEF database, TypeOK, HoldsVehicle
<1>3. CASE CreateVehicle(p)
  <2>1. PICK result \in {"ok", "notFound", "failed", "unauthenticated"} :
            Reply(p, result, {}, 0) /\ call[p].kind = "register" /\ at[p] = "sent"
    BY <1>3 DEF CreateVehicle, Refuse
  <2>2. chassi' \in [Plate -> End \cup {NoEnd}] /\ UNCHANGED <<holder, lock, changes, screens>>
    BY <1>1, <1>3 DEF CreateVehicle, TypeOK, Fits, Request
  <2>3. QED
    BY <1>1, <2>1, <2>2, NothingToReply, AnsweredKeeps DEF TypeOK, HoldsVehicle
<1>4. CASE Unauthenticated(p)
  BY <1>1, <1>4, NothingToReply, AnsweredKeeps
     DEF Unauthenticated, Refuse, database, TypeOK, HoldsVehicle
<1>5. CASE ServerFails(p)
  <2>1. /\ Reply(p, "failed", {}, 0) /\ at[p] \in {"sent", "claiming"}
        /\ UNCHANGED <<chassi, holder, changes, screens>> /\ lock' = Unlocked(p)
    BY <1>5 DEF ServerFails, Refuse
  <2>2. lock' \in [Plate -> Proc \cup {NoProc}]
    BY <1>1, <2>1 DEF Unlocked, TypeOK
  <2>3. \A q \in Proc \ {p} : at[q] = "claiming" => lock'[call[q].plate] = q
    BY <1>1, <2>1 DEF Unlocked, HoldsVehicle, OwnershipInv, Fits, Claiming
  <2>4. QED
    BY <1>1, <2>1, <2>2, <2>3, NothingToReply, AnsweredKeeps DEF TypeOK
<1>6. QED
  BY <1>2, <1>3, <1>4, <1>5

LEMMA LockVehicleKeeps ==
    ASSUME OwnershipInv, NEW p \in Proc, LockVehicle(p) PROVE OwnershipInv'
<1> DEFINE b == call[p].plate
<1>1. /\ TypeOK /\ Fits(p) /\ at[p] = "sent" /\ call[p].kind \in Claiming
      /\ Free(b) /\ UNCHANGED <<chassi, holder, changes, screens>>
      /\ \A q \in Proc : Fits(q) /\ HoldsVehicle(q)
  BY DEF OwnershipInv, LockVehicle
<1>2. b \in Plate
  BY <1>1 DEF Fits, Claiming
<1>3. CASE chassi[b] = call[p].end /\ holder[b] \in {NoOwner, call[p].owner}
  <2>1. /\ lock' = [lock EXCEPT ![b] = p]
        /\ at' = [at EXCEPT ![p] = "claiming"] /\ UNCHANGED <<call, answer>>
    BY <1>3 DEF LockVehicle
  <2>2. TypeOK' /\ OnlyCall(p)
    BY <1>1, <2>1 DEF TypeOK, OnlyCall, screens
  <2>3. \A q \in Proc \ {p} : at[q] = "claiming" => lock'[call[q].plate] = q
    <3>1. SUFFICES ASSUME NEW q \in Proc \ {p}, at[q] = "claiming"
                   PROVE  lock'[call[q].plate] = q
      OBVIOUS
    <3>2. lock[call[q].plate] = q /\ call[q].plate \in Plate
      BY <1>1, <3>1 DEF HoldsVehicle, Fits, Claiming
    <3>3. call[q].plate # b
      BY <1>1, <3>2, OwnershipAssumption DEF Free
    <3>4. QED
      BY <1>1, <2>1, <3>2, <3>3 DEF TypeOK
  <2>4. \A q \in Proc \ {p} : Fits(q)' /\ HoldsVehicle(q)'
    BY <1>1, <2>2, <2>3, OthersKeep DEF TypeOK, screens
  <2>5. Fits(p)' /\ HoldsVehicle(p)'
    BY <1>1, <1>2, <1>3, <2>1 DEF Fits, HoldsVehicle, TypeOK, screens
  <2>6. (\A s \in Screen : Awaited(s)' /\ Behind(s)') /\ ReadYourWrites'
    BY <1>1, <2>1, <2>2, ScreensKeep DEF TypeOK, Claiming
  <2>7. QED
    BY <2>2, <2>4, <2>5, <2>6 DEF OwnershipInv
<1>4. CASE ~(chassi[b] = call[p].end /\ holder[b] \in {NoOwner, call[p].owner})
  <2>1. PICK result \in {"notFound", "failed"} : Reply(p, result, {}, 0) /\ UNCHANGED lock
    BY <1>4 DEF LockVehicle, Refuse
  <2>2. QED
    BY <1>1, <2>1, NothingToReply, AnsweredKeeps DEF TypeOK, HoldsVehicle, Claiming
<1>5. QED
  BY <1>3, <1>4

\* Nobody else is between the check and the commit of a bike that p holds, or
\* that is free.
LEMMA OneClaimant ==
    ASSUME OwnershipInv, NEW p \in Proc, NEW q \in Proc \ {p}, NEW b \in Plate,
           lock[b] \in {p, NoProc}, at[q] = "claiming"
    PROVE  call[q].plate \in Plate \ {b} /\ lock[call[q].plate] = q
BY OwnershipAssumption DEF OwnershipInv, Fits, HoldsVehicle, Claiming

LEMMA CommitClaimKeeps ==
    ASSUME OwnershipInv, NEW p \in Proc, CommitClaim(p) PROVE OwnershipInv'
<1> DEFINE b == call[p].plate
<1>1. /\ TypeOK /\ Fits(p) /\ HoldsVehicle(p)
      /\ at[p] = "claiming" /\ changes < MaxChanges
      /\ holder' = [holder EXCEPT ![b] = call[p].owner] /\ changes' = changes + 1
      /\ lock' = Unlocked(p) /\ UNCHANGED <<chassi, screens>>
  BY DEF OwnershipInv, CommitClaim
<1>2. b \in Plate /\ lock[b] = p /\ call[p].kind \in Claiming /\ call[p].owner \in Owner
  BY <1>1 DEF HoldsVehicle, Fits, Claiming, Request
<1>3. PICK result \in {"ok", "failed"}, version \in {0, changes + 1} : Reply(p, result, {}, version)
  BY DEF CommitClaim, Refuse
<1>4. /\ holder' \in [Plate -> Owner \cup {NoOwner}]
      /\ lock' \in [Plate -> Proc \cup {NoProc}]
      /\ changes' \in 0..MaxChanges /\ changes' >= changes /\ version \in 0..MaxChanges
      /\ version <= changes'
  BY <1>1, <1>2, <1>3, OwnershipAssumption DEF TypeOK, Unlocked
<1>5. \A q \in Proc \ {p} : at[q] = "claiming" =>
          /\ lock'[call[q].plate] = q
          /\ holder'[call[q].plate] = holder[call[q].plate]
  BY <1>1, <1>2, OneClaimant DEF TypeOK, Unlocked
<1>6. QED
  BY <1>1, <1>2, <1>3, <1>4, <1>5, AnsweredKeeps DEF TypeOK, Claiming

LEMMA ReleaseVehicleKeeps ==
    ASSUME OwnershipInv, NEW p \in Proc, ReleaseVehicle(p) PROVE OwnershipInv'
<1> DEFINE b == call[p].plate
<1>1. /\ TypeOK /\ Fits(p) /\ at[p] = "sent" /\ call[p].kind = "release"
      /\ UNCHANGED <<chassi, lock, screens>>
      /\ \A q \in Proc : HoldsVehicle(q)
  BY DEF OwnershipInv, ReleaseVehicle
<1>2. b \in Plate
  BY <1>1 DEF Fits
<1>3. CASE holder[b] = call[p].owner
  <2>1. /\ lock[b] = NoProc /\ changes < MaxChanges /\ changes' = changes + 1
        /\ holder' = [holder EXCEPT ![b] = NoOwner]
        /\ Reply(p, "ok", {}, changes + 1)
    BY <1>3 DEF ReleaseVehicle, Free
  <2>2. /\ holder' \in [Plate -> Owner \cup {NoOwner}]
        /\ changes + 1 \in 0..MaxChanges /\ changes' >= changes
    BY <1>1, <1>2, <2>1, OwnershipAssumption DEF TypeOK
  <2>3. \A q \in Proc \ {p} : at[q] = "claiming" =>
            lock'[call[q].plate] = q /\ holder'[call[q].plate] = holder[call[q].plate]
    BY <1>1, <1>2, <2>1, OneClaimant DEF TypeOK
  <2>4. QED
    BY <1>1, <2>1, <2>2, <2>3, NothingToReply, AnsweredKeeps DEF TypeOK
<1>4. CASE holder[b] # call[p].owner
  <2>1. Reply(p, "notFound", {}, 0) /\ UNCHANGED <<holder, changes>>
    BY <1>4 DEF ReleaseVehicle, Refuse
  <2>2. QED
    BY <1>1, <2>1, NothingToReply, AnsweredKeeps DEF TypeOK, HoldsVehicle
<1>5. QED
  BY <1>3, <1>4
----------------------------------------------------------------------------
(* The garage screen.                                                      *)

\* A step of a screen on call p, none of whose calls is a claim the server
\* is in the middle of.
LEMMA ScreenStepKeeps ==
    ASSUME OwnershipInv, NEW p \in Proc, OnlyCall(p), TypeOK',
           UNCHANGED <<database, account>>, Fits(p)', HoldsVehicle(p)',
           \A s \in Screen : Awaited(s)' /\ Behind(s)',
           ReadYourWrites'
    PROVE  OwnershipInv'
<1>1. \A q \in Proc \ {p} : Fits(q)' /\ HoldsVehicle(q)'
  <2>1. /\ changes' >= changes
        /\ \A q \in Proc \ {p} : at[q] = "claiming" =>
               /\ lock'[call[q].plate] = q
               /\ holder'[call[q].plate] = holder[call[q].plate]
    BY DEF database, OwnershipInv, HoldsVehicle, TypeOK
  <2>2. QED
    BY <2>1, OthersKeep
<1>2. QED
  BY <1>1 DEF OwnershipInv

\* The same, when the step leaves every screen as it is and p is no load one
\* waits for.
LEMMA CallStepKeeps ==
    ASSUME OwnershipInv, NEW p \in Proc, OnlyCall(p), TypeOK',
           UNCHANGED <<database, screens>>, Fits(p)', HoldsVehicle(p)',
           \A s \in Screen : future[s] # p
    PROVE  OwnershipInv'
<1>1. ASSUME NEW s \in Screen PROVE Awaited(s)' /\ Behind(s)'
  BY <1>1 DEF OwnershipInv, Awaited, Behind, OnlyCall, screens, database, TypeOK
<1>2. ReadYourWrites'
  BY DEF OwnershipInv, ReadYourWrites, screens
<1>3. QED
  BY <1>1, <1>2, ScreenStepKeeps DEF screens

\* A load a screen waits for is a load, sent and not yet shown.
LEMMA NotAwaited ==
    ASSUME OwnershipInv, NEW p \in Proc,
           at[p] \in {"idle", "form", "claiming"} \/ call[p].kind # "list"
    PROVE  \A s \in Screen : future[s] # p
BY OwnershipAssumption DEF OwnershipInv, Awaited

\* A call is sent in place of one that is no load a screen waits for.
LEMMA SentKeeps ==
    ASSUME OwnershipInv, NEW p \in Proc, NEW request \in Request, Send(p, request),
           UNCHANGED <<database, screens>>,
           \A s \in Screen : future[s] # p,
           request.kind # "list" => request.plate \in Plate,
           request.screen \in Screen, account[request.screen] # NoOwner,
           NoScreen \notin Screen
    PROVE  OwnershipInv'
<1>1. TypeOK
  BY DEF OwnershipInv
<1>2. TypeOK' /\ OnlyCall(p) /\ at'[p] = "sent" /\ call'[p] = request
  BY <1>1, SendFacts DEF TypeOK, database, screens
<1>3. Fits(p)' /\ HoldsVehicle(p)'
  BY <1>2 DEF Fits, HoldsVehicle, screens
<1>4. QED
  BY <1>2, <1>3, CallStepKeeps

LEMMA FinishedKeeps ==
    ASSUME OwnershipInv, NEW p \in Proc, Finish(p), UNCHANGED <<database, screens>>,
           \A s \in Screen : future[s] # p
    PROVE  OwnershipInv'
<1>1. TypeOK
  BY DEF OwnershipInv
<1>2. TypeOK' /\ OnlyCall(p) /\ at'[p] = "idle"
  BY <1>1, FinishFacts DEF TypeOK, database, screens
<1>3. Fits(p)' /\ HoldsVehicle(p)'
  BY <1>2 DEF Fits, HoldsVehicle
<1>4. QED
  BY <1>2, <1>3, CallStepKeeps

LEMMA AskIsRequest ==
    ASSUME TypeOK, NEW s \in Screen, account[s] # NoOwner,
           NEW kind \in Writing \cup {"list", "register"},
           NEW b \in Plate \cup {NoPlate}, NEW end \in End \cup {NoEnd}
    PROVE  /\ Ask(kind, s, b, end) \in Request
           /\ Ask(kind, s, b, end).kind = kind /\ Ask(kind, s, b, end).screen = s
           /\ Ask(kind, s, b, end).plate = b
BY DEF TypeOK, Ask, Request

LEMMA LoseKeeps ==
    ASSUME OwnershipInv, NEW p \in Proc, Lose(p) PROVE OwnershipInv'
<1>1. /\ at[p] = "sent" /\ call[p].screen = NoScreen /\ Finish(p)
      /\ UNCHANGED <<database, screens>> /\ Fits(p)
  BY DEF Lose, OwnershipInv
<1>2. call[p].kind # "list"
  BY <1>1 DEF Fits
<1>3. QED
  BY <1>1, <1>2, NotAwaited, FinishedKeeps

LEMMA AskKeeps ==
    ASSUME OwnershipInv, NEW s \in Screen, Release(s) \/ LinkToAccount(s)
    PROVE  OwnershipInv'
<1>1. TypeOK /\ account[s] # NoOwner /\ UNCHANGED <<database, screens>>
  BY DEF OwnershipInv, Release, LinkToAccount, Ready
<1>2. PICK kind \in {"release", "claim"}, b \in Plate, end \in End \cup {NoEnd},
          p \in {q \in Proc : at[q] = "idle"} : Send(p, Ask(kind, s, b, end))
  <2>1. CASE Release(s)
    BY <2>1, <1>1 DEF Release, TypeOK, List
  <2>2. CASE LinkToAccount(s)
    BY <2>2 DEF LinkToAccount
  <2>3. QED
    BY <2>1, <2>2
<1>3. /\ Ask(kind, s, b, end) \in Request /\ Ask(kind, s, b, end).kind = kind
      /\ Ask(kind, s, b, end).screen = s /\ Ask(kind, s, b, end).plate = b
  BY <1>1, AskIsRequest DEF Writing, Claiming
<1>4. QED
  BY <1>1, <1>2, <1>3, NotAwaited, SentKeeps, OwnershipAssumption

LEMMA FormKeeps ==
    ASSUME OwnershipInv, NEW p \in Proc, SubmitForm(p) \/ CancelForm(p)
    PROVE  OwnershipInv'
<1>1. TypeOK /\ Fits(p) /\ UNCHANGED <<database, screens>>
  BY DEF OwnershipInv, SubmitForm, CancelForm
<1>2. CASE SubmitForm(p)
  <2>1. /\ at[p] = "form" /\ call[p] \in Request /\ call[p].kind = "register"
        /\ call[p].screen \in Screen /\ account[call[p].screen] # NoOwner
    BY <1>1, <1>2 DEF SubmitForm, Fits, Request
  <2>2. PICK b \in Plate, end \in End : Send(p, [call[p] EXCEPT !.plate = b, !.end = end])
    BY <1>2 DEF SubmitForm
  <2> DEFINE request == [call[p] EXCEPT !.plate = b, !.end = end]
  <2>3. /\ request \in Request /\ request.plate = b
        /\ request.kind = "register" /\ request.screen = call[p].screen
    BY <2>1 DEF Request
  <2> HIDE DEF request
  <2>4. Send(p, request)
    BY <2>2 DEF request
  <2>5. QED
    BY <1>1, <2>1, <2>3, <2>4, NotAwaited, SentKeeps, OwnershipAssumption
<1>3. CASE CancelForm(p)
  <2>1. call[p].kind = "register" /\ Finish(p)
    BY <1>3 DEF CancelForm
  <2>2. QED
    BY <1>1, <2>1, NotAwaited, FinishedKeeps
<1>4. QED
  BY <1>2, <1>3

\* A load is sent in the place of a call nobody waits for.
LEMMA LoadSentKeeps ==
    ASSUME OwnershipInv, NEW s \in Screen, NEW p \in Proc, NEW request \in Request,
           Send(p, request), request.kind = "list", request.screen = s,
           \A t \in Screen : future[t] # p,
           future' = [future EXCEPT ![s] = p],
           UNCHANGED <<database, list>>,
           account' \in [Screen -> Owner \cup {NoOwner}], account'[s] # NoOwner,
           \A t \in Screen : account[t] # NoOwner => account'[t] = account[t],
           \A t \in Screen \ {s} : account'[t] = account[t],
           told' \in [Screen -> 0..MaxChanges], told'[s] <= changes,
           \A t \in Screen \ {s} : told'[t] = told[t]
    PROVE  OwnershipInv'
<1>1. TypeOK
  BY DEF OwnershipInv
<1>2. TypeOK' /\ OnlyCall(p) /\ at'[p] = "sent" /\ call'[p] = request
  BY <1>1, SendFacts DEF TypeOK, database
<1>3. \A q \in Proc : Fits(q)' /\ HoldsVehicle(q)'
  <2>1. Fits(p)' /\ HoldsVehicle(p)'
    BY <1>2, OwnershipAssumption DEF Fits, HoldsVehicle
  <2>2. ASSUME NEW q \in Proc \ {p} PROVE Fits(q)' /\ HoldsVehicle(q)'
    <3>1. at'[q] = at[q] /\ call'[q] = call[q] /\ answer'[q] = answer[q]
      BY <1>2 DEF OnlyCall
    <3>2. Fits(q) /\ HoldsVehicle(q) /\ UNCHANGED <<holder, lock, changes>>
      BY DEF OwnershipInv, database
    <3>3. Fits(q)'
      <4>1. at[q] # "idle" /\ call[q].screen # NoScreen => call[q].screen \in Screen
        BY <3>2 DEF Fits, Request
      <4>2. QED
        BY <3>1, <3>2, <4>1 DEF Fits
    <3>4. QED
      BY <3>1, <3>2, <3>3 DEF HoldsVehicle
  <2>3. QED
    BY <2>1, <2>2
<1>4. ASSUME NEW t \in Screen PROVE Awaited(t)' /\ Behind(t)'
  <2>1. CASE t = s
    BY <1>1, <1>2, <2>1 DEF Awaited, Behind, OwnershipInv, TypeOK, database
  <2>2. CASE t # s
    BY <1>1, <1>2, <2>2 DEF Awaited, Behind, OwnershipInv, TypeOK, database, OnlyCall
  <2>3. QED
    BY <2>1, <2>2
<1>5. ReadYourWrites'
  BY <1>1, <1>2, OwnershipAssumption DEF ReadYourWrites, OwnershipInv, TypeOK
<1>6. QED
  BY <1>2, <1>3, <1>4, <1>5 DEF OwnershipInv

LEMMA OpenGarageKeeps ==
    ASSUME OwnershipInv, NEW s \in Screen, OpenGarage(s) PROVE OwnershipInv'
<1>1. TypeOK /\ account[s] = NoOwner /\ UNCHANGED <<database, list, told>> /\ Behind(s)
  BY DEF OwnershipInv, OpenGarage
<1>2. PICK o \in Owner, p \in {q \in Proc : at[q] = "idle"} :
          /\ account' = [account EXCEPT ![s] = o]
          /\ future' = [future EXCEPT ![s] = p]
          /\ Send(p, [Ask("list", s, NoPlate, NoEnd) EXCEPT !.owner = o])
  BY DEF OpenGarage
<1> DEFINE request == [Ask("list", s, NoPlate, NoEnd) EXCEPT !.owner = o]
<1>3. request \in Request /\ request.kind = "list" /\ request.screen = s
  BY DEF Ask, Request
<1> HIDE DEF request
<1>4. Send(p, request)
  BY <1>2 DEF request
<1>5. QED
  BY <1>1, <1>2, <1>3, <1>4, NotAwaited, LoadSentKeeps, OwnershipAssumption
     DEF TypeOK, Behind, database

LEMMA ReloadKeeps ==
    ASSUME OwnershipInv, NEW s \in Screen, Reload(s) PROVE OwnershipInv'
<1>1. /\ TypeOK /\ account[s] # NoOwner /\ UNCHANGED <<database, account, list, told>>
      /\ Behind(s)
  BY DEF OwnershipInv, Reload, Ready
<1>2. PICK p \in {q \in Proc : at[q] = "idle"} :
          /\ future' = [future EXCEPT ![s] = p]
          /\ Send(p, Ask("list", s, NoPlate, NoEnd))
  BY DEF Reload
<1>3. /\ Ask("list", s, NoPlate, NoEnd) \in Request
      /\ Ask("list", s, NoPlate, NoEnd).kind = "list"
      /\ Ask("list", s, NoPlate, NoEnd).screen = s
  BY <1>1, AskIsRequest
<1>4. QED
  BY <1>1, <1>2, <1>3, NotAwaited, LoadSentKeeps DEF TypeOK, Behind, database

LEMMA SucceedKeeps ==
    ASSUME OwnershipInv, NEW p \in Proc, Succeed(p) PROVE OwnershipInv'
<1> DEFINE s == call[p].screen
           v == answer[p].version
<1>1. /\ TypeOK /\ Fits(p) /\ at[p] = "answered" /\ call[p].kind \in Writing
      /\ UNCHANGED <<database, account, list>>
      /\ told' = [told EXCEPT ![s] = IF v > @ THEN v ELSE @]
      /\ Send(p, Ask("list", s, NoPlate, NoEnd))
      /\ future' = [future EXCEPT ![s] = p]
  BY DEF OwnershipInv, Succeed, ReloadAfter
<1>2. /\ s \in Screen /\ account[s] # NoOwner /\ Behind(s)
      /\ v \in 0..MaxChanges /\ v <= changes
  BY <1>1 DEF Fits, Request, Answer, OwnershipInv
<1>3. /\ Ask("list", s, NoPlate, NoEnd) \in Request
      /\ Ask("list", s, NoPlate, NoEnd).kind = "list"
      /\ Ask("list", s, NoPlate, NoEnd).screen = s
  <2>1. TypeOK /\ s \in Screen /\ account[s] # NoOwner
    BY <1>1, <1>2
  <2> HIDE DEF s, v
  <2>2. QED
    BY <2>1, AskIsRequest
<1>4. \A t \in Screen : future[t] # p
  BY <1>1, NotAwaited DEF Writing, Claiming
<1>5. /\ told' \in [Screen -> 0..MaxChanges] /\ told'[s] <= changes
      /\ \A t \in Screen \ {s} : told'[t] = told[t]
  <2>1. told \in [Screen -> 0..MaxChanges] /\ told[s] <= changes
    BY <1>1, <1>2 DEF TypeOK, Behind
  <2> HIDE DEF s, v
  <2>2. told' = [told EXCEPT ![s] = IF v > told[s] THEN v ELSE told[s]]
    BY <1>1
  <2>3. QED
    BY <1>2, <2>1, <2>2
<1> HIDE DEF s, v
<1>6. Send(p, Ask("list", s, NoPlate, NoEnd)) /\ future' = [future EXCEPT ![s] = p]
  BY <1>1 DEF s
<1>7. QED
  BY <1>1, <1>2, <1>3, <1>4, <1>5, <1>6, LoadSentKeeps DEF TypeOK, database

\* A load ends: its screen shows what came, or nothing changes there.
LEMMA LoadedKeeps ==
    ASSUME OwnershipInv, NEW p \in Proc, at[p] \in {"sent", "answered"},
           call[p].kind = "list", NEW new \in List, Loaded(p, new), Finish(p),
           UNCHANGED <<database, account, told>>,
           call[p].screen \in Screen,
           new.version <= changes,
           ~new.failed /\ future[call[p].screen] = p => new.version >= told[call[p].screen]
    PROVE  OwnershipInv'
<1> DEFINE s == call[p].screen
<1>1. TypeOK
  BY DEF OwnershipInv
<1>2. OnlyCall(p) /\ at'[p] = "idle" /\ Fits(p)' /\ HoldsVehicle(p)'
  BY <1>1, FinishFacts DEF Fits, HoldsVehicle
<1>3. CASE future[s] = p
  <2>1. future' = [future EXCEPT ![s] = NoProc] /\ list' = [list EXCEPT ![s] = new]
    BY <1>3 DEF Loaded, Expected
  <2>2. TypeOK'
    BY <1>1, <2>1, FinishFacts DEF TypeOK, database
  <2>3. ASSUME NEW t \in Screen PROVE Awaited(t)' /\ Behind(t)'
    <3>1. CASE t = s
      BY <1>1, <2>1, <3>1 DEF Awaited, Behind, OwnershipInv, TypeOK, database
    <3>2. CASE t # s
      <4>1. future[t] # p
        BY <3>2, OwnershipAssumption DEF OwnershipInv, Awaited
      <4>2. QED
        BY <1>1, <1>2, <2>1, <3>2, <4>1 DEF Awaited, Behind, OwnershipInv, TypeOK, database, OnlyCall
    <3>3. QED
      BY <3>1, <3>2
  <2>4. ReadYourWrites'
    BY <1>1, <1>3, <2>1 DEF ReadYourWrites, OwnershipInv, TypeOK
  <2>5. QED
    BY <1>2, <2>2, <2>3, <2>4, ScreenStepKeeps
<1>4. CASE future[s] # p
  <2>1. UNCHANGED <<future, list>>
    BY <1>4 DEF Loaded, Expected
  <2>2. TypeOK'
    BY <1>1, <2>1, FinishFacts DEF TypeOK, database
  <2>3. \A t \in Screen : future[t] # p
    BY <1>4, OwnershipAssumption DEF OwnershipInv, Awaited
  <2>4. QED
    BY <1>2, <2>1, <2>2, <2>3, CallStepKeeps DEF screens
<1>5. QED
  BY <1>3, <1>4

LEMMA ShowKeeps ==
    ASSUME OwnershipInv, NEW p \in Proc, Show(p) PROVE OwnershipInv'
<1> DEFINE s == call[p].screen
           a == answer[p]
<1>1. /\ TypeOK /\ Fits(p) /\ at[p] = "answered" /\ call[p].kind = "list"
      /\ Finish(p) /\ UNCHANGED <<database, account, told>>
  BY DEF OwnershipInv, Show
<1>2. /\ s \in Screen /\ a \in Answer /\ a.version <= changes
      /\ Awaited(s) /\ Behind(s) /\ list[s] \in List
  BY <1>1 DEF Fits, Request, OwnershipInv, TypeOK
<1>3. CASE a.result = "ok"
  <2> DEFINE new == [bikes |-> a.bikes, version |-> a.version, failed |-> FALSE]
  <2>1. Loaded(p, new)
    BY <1>3 DEF Show
  <2>2. new \in List /\ new.version = a.version /\ ~new.failed
    BY <1>2 DEF Answer, List
  <2>3. future[s] = p => a.version >= told[s]
    BY <1>1, <1>2, <1>3, OwnershipAssumption DEF Awaited
  <2> HIDE DEF new
  <2>4. QED
    BY <1>1, <1>2, <2>1, <2>2, <2>3, LoadedKeeps
<1>4. CASE a.result # "ok"
  <2>1. Loaded(p, LoadFailed(s))
    BY <1>4 DEF Show
  <2>2. LoadFailed(s) \in List /\ LoadFailed(s).version = list[s].version /\ LoadFailed(s).failed
    BY <1>2 DEF LoadFailed, List
  <2>3. QED
    BY <1>1, <1>2, <2>1, <2>2, LoadedKeeps DEF Behind
<1>5. QED
  BY <1>3, <1>4

\* A call goes back to its form: nothing on the server and on the screens
\* changes.
LEMMA ToFormKeeps ==
    ASSUME OwnershipInv, NEW p \in Proc, at[p] \in {"sent", "answered"},
           call[p].kind \in {"claim", "register"}, call[p].screen # NoScreen,
           at' = [at EXCEPT ![p] = "form"],
           call' \in [Proc -> Request \cup {NoRequest}],
           call'[p] \in Request, call'[p].kind = "register",
           call'[p].plate = call[p].plate, call'[p].screen = call[p].screen,
           \A q \in Proc \ {p} : call'[q] = call[q],
           answer' = [answer EXCEPT ![p] = NoAnswer],
           UNCHANGED <<database, screens>>
    PROVE  OwnershipInv'
<1>1. TypeOK /\ Fits(p)
  BY DEF OwnershipInv
<1>2. TypeOK' /\ OnlyCall(p) /\ at'[p] = "form"
  BY <1>1 DEF TypeOK, OnlyCall, database, screens
<1>3. Fits(p)' /\ HoldsVehicle(p)'
  BY <1>1, <1>2 DEF Fits, HoldsVehicle, screens
<1>4. QED
  BY <1>2, <1>3, NotAwaited, CallStepKeeps

LEMMA FailToKeeps ==
    ASSUME OwnershipInv, NEW p \in Proc, FailTo(p) PROVE OwnershipInv'
<1>1. /\ TypeOK /\ Fits(p) /\ at[p] = "answered" /\ call[p].kind \in Writing
      /\ UNCHANGED <<database, screens>>
  BY DEF OwnershipInv, FailTo
<1>2. CASE call[p].kind = "claim" /\ answer[p].result = "notFound"
  <2>1. /\ at' = [at EXCEPT ![p] = "form"]
        /\ call' = [call EXCEPT ![p].kind = "register"]
        /\ answer' = [answer EXCEPT ![p] = NoAnswer]
    BY <1>2 DEF FailTo
  <2>2. call[p] \in Request /\ call[p].screen # NoScreen
    BY <1>1 DEF Fits
  <2>3. /\ call'[p] = [call[p] EXCEPT !.kind = "register"]
        /\ \A q \in Proc \ {p} : call'[q] = call[q]
    BY <1>1, <2>1 DEF TypeOK
  <2>4. /\ call'[p] \in Request /\ call'[p].kind = "register"
        /\ call'[p].plate = call[p].plate /\ call'[p].screen = call[p].screen
    BY <2>2, <2>3 DEF Request
  <2>5. call' \in [Proc -> Request \cup {NoRequest}]
    BY <1>1, <2>1, <2>3, <2>4 DEF TypeOK
  <2>6. QED
    BY <1>1, <1>2, <2>1, <2>2, <2>3, <2>4, <2>5, ToFormKeeps
<1>3. CASE ~(call[p].kind = "claim" /\ answer[p].result = "notFound")
  <2>1. Finish(p)
    BY <1>3 DEF FailTo
  <2>2. QED
    BY <1>1, <2>1, NotAwaited, FinishedKeeps DEF Writing, Claiming
<1>4. QED
  BY <1>2, <1>3

LEMMA RegisteredKeeps ==
    ASSUME OwnershipInv, NEW p \in Proc, Registered(p) PROVE OwnershipInv'
<1> DEFINE s == call[p].screen
<1>1. /\ TypeOK /\ Fits(p) /\ at[p] = "answered" /\ call[p].kind = "register"
      /\ UNCHANGED <<database, screens>>
  BY DEF OwnershipInv, Registered
<1>2. /\ call[p] \in Request /\ call[p].plate \in Plate /\ call[p].end \in End \cup {NoEnd}
      /\ s \in Screen /\ s # NoScreen /\ account[s] # NoOwner
  BY <1>1 DEF Fits, Request
<1>3. CASE answer[p].result = "ok"
  <2> DEFINE request == Ask("claimNew", s, call[p].plate, call[p].end)
  <2>1. Send(p, request)
    BY <1>3 DEF Registered
  <2>2. /\ request \in Request /\ request.plate = call[p].plate /\ request.screen = s
    BY <1>1, <1>2, AskIsRequest DEF Writing, Claiming
  <2> HIDE DEF request
  <2>3. QED
    BY <1>1, <1>2, <2>1, <2>2, NotAwaited, SentKeeps, OwnershipAssumption
<1>4. CASE answer[p].result # "ok"
  BY <1>1, <1>2, <1>4, ToFormKeeps DEF Registered, TypeOK
<1>5. QED
  BY <1>3, <1>4

\* A call that may change the server loses its screen and nothing else.
LEMMA OrphanedKeeps ==
    ASSUME OwnershipInv, NEW p \in Proc, Goes(p),
           call' = [call EXCEPT ![p] = Orphan(p)], UNCHANGED <<at, answer>>,
           UNCHANGED <<database, screens>>
    PROVE  OwnershipInv'
<1>1. /\ TypeOK /\ Fits(p) /\ HoldsVehicle(p) /\ call[p] \in Request
      /\ at[p] \in {"sent", "claiming"} /\ call[p].kind \in Writing
  BY DEF OwnershipInv, Goes, Fits
<1>2. /\ Orphan(p) \in Request /\ Orphan(p).screen = NoScreen
      /\ Orphan(p).kind = call[p].kind /\ Orphan(p).plate = call[p].plate
      /\ Orphan(p).owner = call[p].owner
  BY <1>1 DEF Orphan, Request
<1>3. TypeOK' /\ OnlyCall(p) /\ call'[p] = Orphan(p)
  BY <1>1, <1>2 DEF TypeOK, OnlyCall, database, screens
<1>4. Fits(p)' /\ HoldsVehicle(p)'
  BY <1>1, <1>2, <1>3 DEF Fits, HoldsVehicle, Writing, Claiming, database
<1>5. \A s \in Screen : future[s] # p
  BY <1>1, NotAwaited DEF Writing, Claiming
<1>6. QED
  BY <1>3, <1>4, <1>5, CallStepKeeps

LEMMA GiveUpKeeps ==
    ASSUME OwnershipInv, NEW p \in Proc, GiveUp(p) PROVE OwnershipInv'
<1> DEFINE s == call[p].screen
<1>1. /\ TypeOK /\ Fits(p) /\ HoldsVehicle(p)
      /\ at[p] \in {"sent", "claiming", "answered"} /\ s # NoScreen
      /\ UNCHANGED <<database, account, told>>
  BY DEF OwnershipInv, GiveUp
<1>2. s \in Screen /\ call[p] \in Request
  BY <1>1 DEF Fits, Request
<1>3. CASE call[p].kind = "list"
  <2>1. Loaded(p, LoadFailed(s)) /\ Finish(p)
    BY <1>3 DEF GiveUp, Goes, Writing, Claiming
  <2>2. at[p] \in {"sent", "answered"}
    BY <1>1, <1>3 DEF HoldsVehicle, Claiming
  <2>3. Behind(s) /\ list[s] \in List
    BY <1>1, <1>2 DEF OwnershipInv, TypeOK
  <2>4. LoadFailed(s) \in List /\ LoadFailed(s).version = list[s].version /\ LoadFailed(s).failed
    BY <2>3 DEF LoadFailed, List
  <2>5. QED
    BY <1>1, <1>2, <1>3, <2>1, <2>2, <2>3, <2>4, LoadedKeeps DEF Behind
<1>4. CASE call[p].kind # "list"
  <2>1. UNCHANGED screens
    BY <1>1, <1>4 DEF GiveUp, screens
  <2>2. CASE Goes(p)
    BY <1>1, <2>1, <2>2, OrphanedKeeps DEF GiveUp
  <2>3. CASE ~Goes(p) /\ call[p].kind = "register"
    <3>1. /\ at' = [at EXCEPT ![p] = "form"]
          /\ answer' = [answer EXCEPT ![p] = NoAnswer] /\ UNCHANGED call
      BY <1>4, <2>3 DEF GiveUp
    <3>2. at[p] \in {"sent", "answered"}
      BY <1>1, <2>3 DEF HoldsVehicle, Claiming
    <3>3. QED
      BY <1>1, <1>2, <2>1, <2>3, <3>1, <3>2, ToFormKeeps DEF TypeOK
  <2>4. CASE ~Goes(p) /\ call[p].kind # "register"
    <3>1. Finish(p)
      BY <1>4, <2>4 DEF GiveUp
    <3>2. QED
      BY <1>1, <1>4, <2>1, <3>1, NotAwaited, FinishedKeeps
  <2>5. QED
    BY <2>2, <2>3, <2>4
<1>5. QED
  BY <1>3, <1>4

LEMMA CloseGarageKeeps ==
    ASSUME OwnershipInv, NEW s \in Screen, CloseGarage(s) PROVE OwnershipInv'
<1> DEFINE waits == {p \in Proc : at[p] # "idle" /\ call[p].screen = s}
<1>1. /\ TypeOK
      /\ account' = [account EXCEPT ![s] = NoOwner]
      /\ future' = [future EXCEPT ![s] = NoProc]
      /\ list' = [list EXCEPT ![s] = Nothing]
      /\ told' = [told EXCEPT ![s] = 0]
      /\ at' = [p \in Proc |-> IF p \in waits /\ ~Goes(p) THEN "idle" ELSE at[p]]
      /\ call' = [p \in Proc |-> IF p \notin waits THEN call[p]
                                 ELSE IF Goes(p) THEN Orphan(p) ELSE NoRequest]
      /\ answer' = [p \in Proc |-> IF p \in waits THEN NoAnswer ELSE answer[p]]
      /\ UNCHANGED database
  BY DEF OwnershipInv, CloseGarage
<1>2. ASSUME NEW p \in Proc, at[p] # "idle"
      PROVE  /\ Fits(p) /\ HoldsVehicle(p) /\ call[p] \in Request
             /\ Orphan(p) \in Request /\ Orphan(p).screen = NoScreen
             /\ Orphan(p).kind = call[p].kind /\ Orphan(p).plate = call[p].plate
             /\ Orphan(p).owner = call[p].owner
  BY <1>2 DEF OwnershipInv, Fits, Orphan, Request
<1> HIDE DEF waits
<1>3. \A p \in Proc : p \in waits => at[p] # "idle" /\ call[p].screen = s
  BY DEF waits
<1>4. \A p \in Proc : p \notin waits /\ at[p] # "idle" => call[p].screen # s
  BY DEF waits
<1>5. TypeOK'
  <2>1. call' \in [Proc -> Request \cup {NoRequest}]
    BY <1>1, <1>2, <1>3 DEF TypeOK
  <2>2. at' \in [Proc -> {"idle", "sent", "claiming", "answered", "form"}]
    BY <1>1 DEF TypeOK
  <2>3. answer' \in [Proc -> Answer \cup {NoAnswer}]
    BY <1>1 DEF TypeOK
  <2>4. list' \in [Screen -> List] /\ told' \in [Screen -> 0..MaxChanges]
    BY <1>1, OwnershipAssumption DEF TypeOK, List, Nothing
  <2>5. QED
    BY <1>1, <2>1, <2>2, <2>3, <2>4 DEF TypeOK, database
<1>6. ASSUME NEW p \in Proc PROVE Fits(p)' /\ HoldsVehicle(p)'
  <2>1. CASE p \notin waits
    <3>1. at'[p] = at[p] /\ call'[p] = call[p] /\ answer'[p] = answer[p]
      BY <1>1, <2>1
    <3>2. CASE at[p] = "idle"
      BY <3>1, <3>2 DEF Fits, HoldsVehicle
    <3>3. CASE at[p] # "idle"
      <4>1. call[p].screen \in Screen \cup {NoScreen} /\ call[p].screen # s
        BY <1>2, <1>4, <2>1, <3>3 DEF Request
      <4>2. call[p].screen # NoScreen => account'[call[p].screen] = account[call[p].screen]
        BY <1>1, <4>1 DEF TypeOK
      <4>3. QED
        BY <1>1, <1>2, <3>1, <3>3, <4>2 DEF Fits, HoldsVehicle, database
    <3>4. QED
      BY <3>2, <3>3
  <2>2. CASE p \in waits /\ Goes(p)
    <3>1. at'[p] = at[p] /\ call'[p] = Orphan(p)
      BY <1>1, <2>2
    <3>2. at[p] \in {"sent", "claiming"} /\ call[p].kind \in Writing
      BY <2>2 DEF Goes
    <3>3. QED
      BY <1>1, <1>2, <3>1, <3>2 DEF Fits, HoldsVehicle, database, Writing, Claiming
  <2>3. CASE p \in waits /\ ~Goes(p)
    BY <1>1, <2>3 DEF Fits, HoldsVehicle
  <2>4. QED
    BY <2>1, <2>2, <2>3
<1>7. ASSUME NEW t \in Screen PROVE Awaited(t)' /\ Behind(t)'
  <2>1. CASE t = s
    BY <1>1, <2>1, OwnershipAssumption DEF Awaited, Behind, TypeOK, Nothing, database
  <2>2. CASE t # s
    <3>1. future[t] # NoProc => future[t] \in Proc \ waits
      BY <1>3, <2>2 DEF OwnershipInv, TypeOK, Awaited
    <3>2. /\ future'[t] = future[t] /\ list'[t] = list[t] /\ told'[t] = told[t]
          /\ Awaited(t) /\ Behind(t)
      BY <1>1, <2>2 DEF OwnershipInv, TypeOK
    <3>3. QED
      BY <1>1, <3>1, <3>2 DEF Awaited, Behind, database
  <2>3. QED
    BY <2>1, <2>2
<1>8. ReadYourWrites'
  BY <1>1 DEF ReadYourWrites, OwnershipInv, TypeOK
<1>9. QED
  BY <1>5, <1>6, <1>7, <1>8 DEF OwnershipInv

LEMMA ExpireKeeps ==
    ASSUME OwnershipInv, NEW p \in Proc, Expire(p) PROVE OwnershipInv'
<1>1. call[p].screen \in Screen
  BY DEF Expire, OwnershipInv, Fits, Request
<1>2. QED
  BY <1>1, CloseGarageKeeps DEF Expire

----------------------------------------------------------------------------
LEMMA StepKeeps == OwnershipInv /\ [Next]_vars => OwnershipInv'
<1> SUFFICES ASSUME OwnershipInv, [Next]_vars PROVE OwnershipInv'
  OBVIOUS
<1>1. CASE UNCHANGED vars
  BY <1>1 DEF vars, database, network, screens, OwnershipInv, TypeOK, Fits,
              HoldsVehicle, Awaited, Behind, ReadYourWrites
<1>2. CASE RegisterVehicle
  BY <1>2, RegisterVehicleKeeps
<1>3. ASSUME NEW p \in Proc, Serve(p) PROVE OwnershipInv'
  BY <1>3, RefusedKeeps, LockVehicleKeeps, CommitClaimKeeps, ReleaseVehicleKeeps,
     LoseKeeps DEF Serve
<1>4. ASSUME NEW p \in Proc, Receive(p) PROVE OwnershipInv'
  BY <1>4, ShowKeeps, SucceedKeeps, FailToKeeps, RegisteredKeeps, ExpireKeeps,
     GiveUpKeeps, FormKeeps DEF Receive
<1>5. ASSUME NEW s \in Screen, ScreenStep(s) PROVE OwnershipInv'
  BY <1>5, OpenGarageKeeps, CloseGarageKeeps, ReloadKeeps, AskKeeps DEF ScreenStep
<1>6. QED
  BY <1>1, <1>2, <1>3, <1>4, <1>5 DEF Next

\* Claims find under the lock what they commit on, and screens load what they
\* were told of, in every reachable state.
THEOREM OwnershipInvariance == Spec => []OwnershipInv
BY InitInv, StepKeeps, PTL DEF Spec

\* Every state of the bikes, the calls and the screens is well typed.
THEOREM OwnershipTypeCorrect == Spec => []TypeOK
<1>1. OwnershipInv => TypeOK
  BY DEF OwnershipInv
<1>2. QED
  BY <1>1, OwnershipInvariance, PTL

\* Once its last load is answered a garage screen shows the links and the
\* releases it was told of, in whatever order the calls were answered.
THEOREM ScreensReadTheirWrites == Spec => []ReadYourWrites
<1>1. OwnershipInv => ReadYourWrites
  BY DEF OwnershipInv
<1>2. QED
  BY <1>1, OwnershipInvariance, PTL

----------------------------------------------------------------------------
\* Only the commit of a claim and a release write a holder.
LEMMA HolderWriters ==
    ASSUME OwnershipInv, Next, NEW b \in Plate, holder[b] # NoOwner, holder'[b] # holder[b]
    PROVE  GivenUpByHolder(b)
<1>1. ASSUME NEW p \in Proc, CommitClaim(p) PROVE FALSE
  BY <1>1 DEF OwnershipInv, TypeOK, HoldsVehicle, CommitClaim
<1>2. ASSUME NEW p \in Proc, ReleaseVehicle(p) PROVE GivenUpByHolder(b)
  <2>1. /\ TypeOK /\ Fits(p) /\ at[p] = "sent" /\ call[p].kind = "release"
        /\ call[p].plate = b /\ call[p].owner = holder[b]
        /\ holder' = [holder EXCEPT ![b] = NoOwner]
        /\ Reply(p, "ok", {}, changes + 1)
        /\ changes + 1 \in 0..MaxChanges
    BY <1>2, OwnershipAssumption DEF OwnershipInv, TypeOK, ReleaseVehicle
  <2>2. at'[p] # "sent"
    BY <2>1, ReplyFacts
  <2>3. QED
    BY <2>1, <2>2 DEF GivenUpByHolder, Fits, TypeOK
<1>3. ASSUME NEW p \in Proc, Serve(p), ~CommitClaim(p), ~ReleaseVehicle(p)
      PROVE  UNCHANGED holder
  BY <1>3 DEF Serve, ListVehicles, CreateVehicle, LockVehicle, Unauthenticated,
              ServerFails, Lose, database
<1>4. ASSUME NEW p \in Proc, Receive(p) PROVE UNCHANGED holder
  BY <1>4 DEF Receive, Show, Succeed, FailTo, Registered, Expire, CloseGarage,
              GiveUp, SubmitForm, CancelForm, database
<1>5. ASSUME NEW s \in Screen, ScreenStep(s) PROVE UNCHANGED holder
  BY <1>5 DEF ScreenStep, OpenGarage, CloseGarage, Reload, Release, LinkToAccount, database
<1>6. CASE RegisterVehicle
  BY <1>6 DEF RegisterVehicle
<1>7. QED
  BY <1>1, <1>2, <1>3, <1>4, <1>5, <1>6 DEF Next

\* However claims and releases of a bike race, it leaves its owner only by
\* that owner's own release.
THEOREM BikesAreNeverTaken == Spec => NeverTaken
<1>1. OwnershipInv /\ [Next]_vars =>
        [\A b \in Plate : holder[b] # NoOwner /\ holder'[b] # holder[b]
            => GivenUpByHolder(b)]_vars
  BY HolderWriters
<1>2. QED
  BY <1>1, OwnershipInvariance, PTL DEF Spec, NeverTaken

----------------------------------------------------------------------------
\* What a screen shows only becomes newer while the screen is open.
LEMMA ListMovesForward ==
    ASSUME OwnershipInv, Next, NEW s \in Screen, account'[s] # NoOwner
    PROVE  list'[s].version >= list[s].version
<1>1. list \in [Screen -> List] /\ list[s].version \in Nat /\ TypeOK
  BY DEF OwnershipInv, TypeOK, List
<1>2. ASSUME NEW p \in Proc, NEW new, Loaded(p, new), call[p].screen \in Screen,
             future[call[p].screen] = p => new.version >= list[call[p].screen].version
      PROVE  list'[s].version >= list[s].version
  BY <1>1, <1>2 DEF Loaded, Expected
<1>3. ASSUME NEW t \in Screen PROVE LoadFailed(t).version = list[t].version
  BY <1>1 DEF LoadFailed, List
<1>4. ASSUME NEW p \in Proc, Show(p) PROVE list'[s].version >= list[s].version
  <2> DEFINE t == call[p].screen
             new == [bikes |-> answer[p].bikes, version |-> answer[p].version, failed |-> FALSE]
  <2>1. /\ at[p] = "answered" /\ t \in Screen /\ Awaited(t) /\ list[t] \in List
    BY <1>4 DEF Show, OwnershipInv, Fits, Request, TypeOK
  <2>2. CASE answer[p].result = "ok"
    <3>1. Loaded(p, new)
      BY <1>4, <2>2 DEF Show
    <3>2. future[t] = p => new.version >= list[t].version
      BY <2>1, <2>2, OwnershipAssumption DEF Awaited
    <3> HIDE DEF new
    <3>3. QED
      BY <1>2, <2>1, <3>1, <3>2
  <2>3. CASE answer[p].result # "ok"
    <3>1. Loaded(p, LoadFailed(t))
      BY <1>4, <2>3 DEF Show
    <3>2. LoadFailed(t).version >= list[t].version
      BY <1>3, <2>1 DEF List
    <3>3. QED
      BY <1>2, <2>1, <3>1, <3>2
  <2>4. QED
    BY <2>2, <2>3
<1>5. ASSUME NEW p \in Proc, GiveUp(p) PROVE list'[s].version >= list[s].version
  <2>1. CASE call[p].kind = "list"
    <3>1. /\ Loaded(p, LoadFailed(call[p].screen)) /\ call[p].screen \in Screen
          /\ list[call[p].screen] \in List
      BY <1>5, <2>1 DEF GiveUp, OwnershipInv, Fits, Request, TypeOK
    <3>2. LoadFailed(call[p].screen).version >= list[call[p].screen].version
      BY <1>3, <3>1 DEF List
    <3>3. QED
      BY <1>2, <3>1, <3>2
  <2>2. CASE call[p].kind # "list"
    BY <1>1, <1>5, <2>2 DEF GiveUp
  <2>3. QED
    BY <2>1, <2>2
<1>6. ASSUME NEW t \in Screen, CloseGarage(t) PROVE list'[s].version >= list[s].version
  BY <1>1, <1>6 DEF CloseGarage, TypeOK
<1>7. ASSUME NEW p \in Proc, Expire(p) PROVE list'[s].version >= list[s].version
  <2>1. call[p].screen \in Screen
    BY <1>7 DEF Expire, OwnershipInv, Fits, Request
  <2>2. QED
    BY <1>6, <1>7, <2>1 DEF Expire
<1>8. ASSUME NEW p \in Proc, Serve(p) PROVE UNCHANGED list
  BY <1>8 DEF Serve, ListVehicles, CreateVehicle, LockVehicle, CommitClaim,
              ReleaseVehicle, Unauthenticated, ServerFails, Lose, screens
<1>9. ASSUME NEW p \in Proc, Succeed(p) \/ FailTo(p) \/ Registered(p) \/ SubmitForm(p)
                               \/ CancelForm(p)
      PROVE  UNCHANGED list
  BY <1>9 DEF Succeed, FailTo, Registered, SubmitForm, CancelForm, screens
<1>10. ASSUME NEW t \in Screen, OpenGarage(t) \/ Reload(t) \/ Release(t) \/ LinkToAccount(t)
       PROVE  UNCHANGED list
  BY <1>10 DEF OpenGarage, Reload, Release, LinkToAccount, screens
<1>11. CASE RegisterVehicle
  BY <1>1, <1>11 DEF RegisterVehicle, screens
<1>12. QED
  BY <1>1, <1>4, <1>5, <1>6, <1>7, <1>8, <1>9, <1>10, <1>11 DEF Next, Receive, ScreenStep

\* A garage screen never goes back to an older list.
THEOREM ListsMoveForward == Spec => ReadsMoveForward
<1>1. OwnershipInv /\ [Next]_vars =>
        [\A s \in Screen : account'[s] # NoOwner => list'[s].version >= list[s].version]_vars
  BY ListMovesForward
<1>2. QED
  BY <1>1, OwnershipInvariance, PTL DEF Spec, ReadsMoveForward
=============================================================================
