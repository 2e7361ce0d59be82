-------------------------- MODULE RecordForm_proofs --------------------------
(***************************************************************************)
(* Proofs about RecordForm: for any number of sessions, searches and taps, *)
(* a form makes the records it was asked for, and a session ends for a     *)
(* cause.                                                                  *)
(***************************************************************************)
EXTENDS RecordForm, TLAPS

\* FormTypeOK, in the parts that are proved apart.
Data ==
    /\ session \in 0..sessions /\ sessions \in 0..MaxSessions
    /\ expired \subseteq 1..sessions /\ others \subseteq 0..sessions
    /\ typed \in Plate \cup {NoPlate} /\ vehicle \in Plate \cup {NoPlate}
    /\ bike \in Plate \cup {NoPlate} /\ asked \in Plate \cup {NoPlate}
    /\ searches \subseteq [plate: Plate, token: 0..sessions]
    /\ step \in {"idle", "create", "confirm", "revise", "ask", "upload"}
    /\ token \in 0..sessions

Flags ==
    /\ open \in BOOLEAN /\ correcting \in BOOLEAN /\ saving \in BOOLEAN
    /\ saving <=> step \in Awaiting
    /\ open \/ (step = "idle" /\ searches = {})

Counters ==
    /\ queueing \in Nat /\ published \in Nat /\ corrected \in Nat /\ queued \in Nat
    /\ late \in Nat /\ taps \in Nat /\ excess \in Nat
    /\ TapsCount /\ RecordsCount /\ OnlyCorrects

LEMMA Parts == FormInv => Data /\ Flags /\ SessionBehind /\ Counters /\ AskedOfBike
<1> SUFFICES ASSUME FormInv PROVE Data /\ Flags /\ SessionBehind /\ Counters /\ AskedOfBike
    OBVIOUS
<1>1. Data
    BY Zenon DEF FormInv, FormTypeOK, Data
<1>2. Flags
    BY Zenon DEF FormInv, FormTypeOK, Flags
<1>3. {queueing, published, corrected, queued, late, taps, excess} \subseteq Nat
    BY FormAssumption, SMT DEF FormInv, FormTypeOK
<1> QED
    BY <1>1, <1>2, <1>3, Zenon DEF FormInv, Counters

LEMMA OneMore ==
    ASSUME NEW n \in Nat
    PROVE  /\ 1 + n \in Nat
           /\ \A k, m \in Nat : k <= 1 + n /\ n <= m => k <= 1 + m
BY SMT

LEMMA PartOfSum ==
    ASSUME NEW a \in Nat, NEW b \in Nat, NEW c \in Nat, NEW d \in Nat, NEW m \in Nat,
           a + b + c + d <= m
    PROVE  a <= m /\ b <= m /\ c <= m /\ d <= m
BY SMT

LEMMA Assembled ==
    ASSUME Data', Flags', SessionBehind', Counters', AskedOfBike'
    PROVE  FormInv'
<1>1. /\ session' \in 0..sessions' /\ sessions' \in 0..MaxSessions
      /\ expired' \subseteq 1..sessions' /\ others' \subseteq 0..sessions'
      /\ {typed, vehicle, bike, asked}' \subseteq Plate \cup {NoPlate}
      /\ searches' \subseteq [plate: Plate, token: 0..sessions']
      /\ step' \in {"idle", "create", "confirm", "revise", "ask", "upload"}
      /\ token' \in 0..sessions'
    BY Zenon DEF Data
<1>2. {open, correcting, saving}' \subseteq BOOLEAN
    BY Zenon DEF Flags
<1>3. {queueing, published, corrected, queued, late, taps, excess}' \subseteq 0..2 * MaxTaps + 1
    <2>1. MaxTaps \in Nat
        BY FormAssumption, Zenon
    <2>2. /\ queueing' \in Nat /\ published' \in Nat /\ corrected' \in Nat /\ queued' \in Nat
          /\ late' \in Nat /\ taps' \in Nat /\ excess' \in Nat
        BY Zenon DEF Counters
    <2>3. excess' <= taps' /\ corrected' <= taps' /\ taps' <= MaxTaps
        <3>1. TapsCount'
            BY Zenon DEF Counters
        <3>2. /\ OneIf(step \in {"create", "confirm", "revise", "ask"})' \in {0, 1}
              /\ OneIf(step = "revise")' \in {0, 1}
            BY Zenon DEF OneIf
        <3> QED
            BY <2>1, <2>2, <3>1, <3>2, SMT DEF TapsCount
    <2>4. published' + late' + queued' + queueing' <= 1 + excess'
        BY Zenon DEF Counters, RecordsCount, OneRecordPerForm
    <2>5. \A n \in Nat : n <= 1 + MaxTaps => n \in 0..2 * MaxTaps + 1
        BY <2>1, SMT
    <2>6. excess' <= 1 + MaxTaps /\ corrected' <= 1 + MaxTaps /\ taps' <= 1 + MaxTaps
        BY <2>1, <2>2, <2>3, SMT
    <2>7. /\ published' <= 1 + MaxTaps /\ late' <= 1 + MaxTaps
          /\ queued' <= 1 + MaxTaps /\ queueing' <= 1 + MaxTaps
        <3>1. 1 + excess' \in Nat
            BY <2>2, OneMore, Zenon
        <3>2. /\ published' <= 1 + excess' /\ late' <= 1 + excess'
              /\ queued' <= 1 + excess' /\ queueing' <= 1 + excess'
            BY <2>2, <2>4, <3>1, PartOfSum, Zenon
        <3>3. excess' <= MaxTaps
            BY <2>1, <2>2, <2>3, SMT
        <3> QED
            BY <2>1, <2>2, <3>2, <3>3, OneMore, Zenon
    <2> QED
        BY <2>2, <2>5, <2>6, <2>7, Zenon
<1>4. FormTypeOK'
    BY <1>1, <1>2, <1>3, Zenon DEF FormTypeOK, Flags
<1> QED
    BY <1>4, Zenon DEF FormInv, Counters

----------------------------------------------------------------------------
(* Every action keeps the invariant.                                       *)

LEMMA InitEstablishes == Init => FormInv
<1> SUFFICES ASSUME Init PROVE FormInv
    OBVIOUS
<1>1. FormTypeOK
    <2>1. {open, correcting, saving} \subseteq BOOLEAN /\ (saving <=> step \in Awaiting)
        BY Zenon DEF Init, Awaiting
    <2>2. {queueing, published, corrected, queued, late, taps, excess} \subseteq 0..2 * MaxTaps + 1
        BY FormAssumption, SMT DEF Init
    <2> QED
        BY <2>1, <2>2, FormAssumption, SMT DEF Init, FormTypeOK
<1>2. SessionBehind /\ TapsCount /\ RecordsCount /\ OnlyCorrects /\ AskedOfBike
    BY FormAssumption, SMT DEF Init, SessionBehind, TapsCount, RecordsCount, OneRecordPerForm, OnlyCorrects,
       AskedOfBike, OneIf, Awaiting
<1> QED
    BY <1>1, <1>2, Zenon DEF FormInv

\* A form that closes over a request for a record counts it among those nobody
\* awaits.
LEMMA ClosedCounts ==
    ASSUME FormInv, Close, Abandoned, UNCHANGED queueing
    PROVE  Counters'
<1>1. /\ queueing' \in Nat /\ published' \in Nat /\ corrected' \in Nat /\ queued' \in Nat
      /\ late' \in Nat /\ taps' \in Nat /\ excess' \in Nat
    BY Parts, SMT DEF Counters, Abandoned
<1>2. TapsCount'
    BY Parts, SMT DEF Counters, TapsCount, OneIf, Close, Abandoned
<1>3. RecordsCount'
    <2>1. CASE step \in {"create", "confirm"}
        <3>1. open /\ queueing = 0
            BY <2>1, Parts, SMT DEF Flags, SessionBehind, Counters
        <3>2. published + late + queued <= excess
            BY <2>1, <3>1, Parts, Zenon DEF Counters, RecordsCount
        <3> QED
            BY <2>1, <3>1, <3>2, Parts, SMT DEF Counters, RecordsCount, OneRecordPerForm, Close, Abandoned
    <2>2. CASE ~(step \in {"create", "confirm"})
        BY <2>2, Parts, SMT DEF Counters, RecordsCount, OneRecordPerForm, Close, Abandoned
    <2> QED
        BY <2>1, <2>2
<1>4. OnlyCorrects'
    BY Parts, SMT DEF Counters, OnlyCorrects, Close, Abandoned
<1> QED
    BY <1>1, <1>2, <1>3, <1>4, Zenon DEF Counters

LEMMA SignInPreserves ==
    ASSUME FormInv, SignIn
    PROVE  FormInv'
<1>1. Data'
    BY Parts, FormAssumption, SMT DEF Data, Flags, SessionBehind, Awaiting, SignIn, sessionVars, formVars, saveVars, countVars
<1>2. Flags'
    BY Parts, Zenon DEF Flags, Awaiting, SignIn, sessionVars, formVars, saveVars, countVars
<1>3. SessionBehind'
    BY Parts, SMT DEF Data, Flags, SessionBehind, OnlyCorrects, Awaiting, SignIn, sessionVars, formVars, saveVars, countVars
<1>4. Counters'
    BY Parts, SMT DEF Data, Flags, SessionBehind, Counters, TapsCount, RecordsCount, OneRecordPerForm, OnlyCorrects, OneIf, Awaiting, SignIn, sessionVars, formVars, saveVars, countVars
<1>5. AskedOfBike'
    BY Parts, SMT DEF AskedOfBike, Data, Flags, SignIn, sessionVars, formVars, saveVars, countVars
<1> QED
    BY <1>1, <1>2, <1>3, <1>4, <1>5, Assembled

LEMMA SignOutPreserves ==
    ASSUME FormInv, SignOut
    PROVE  FormInv'
<1>1. Data'
    BY Parts, FormAssumption, SMT DEF Data, Flags, SessionBehind, Awaiting, SignOut, sessionVars, formVars, saveVars, countVars
<1>2. Flags'
    BY Parts, Zenon DEF Flags, Awaiting, SignOut, sessionVars, formVars, saveVars, countVars
<1>3. SessionBehind'
    BY Parts, SMT DEF Data, Flags, SessionBehind, OnlyCorrects, Awaiting, SignOut, sessionVars, formVars, saveVars, countVars
<1>4. Counters'
    BY Parts, SMT DEF Data, Flags, SessionBehind, Counters, TapsCount, RecordsCount, OneRecordPerForm, OnlyCorrects, OneIf, Awaiting, SignOut, sessionVars, formVars, saveVars, countVars
<1>5. AskedOfBike'
    BY Parts, SMT DEF AskedOfBike, Data, Flags, SignOut, sessionVars, formVars, saveVars, countVars
<1> QED
    BY <1>1, <1>2, <1>3, <1>4, <1>5, Assembled

LEMMA TokenExpiresPreserves ==
    ASSUME FormInv, TokenExpires
    PROVE  FormInv'
<1>1. Data'
    BY Parts, FormAssumption, SMT DEF Data, Flags, SessionBehind, Awaiting, TokenExpires, sessionVars, formVars, saveVars, countVars
<1>2. Flags'
    BY Parts, Zenon DEF Flags, Awaiting, TokenExpires, sessionVars, formVars, saveVars, countVars
<1>3. SessionBehind'
    BY Parts, SMT DEF Data, Flags, SessionBehind, OnlyCorrects, Awaiting, TokenExpires, sessionVars, formVars, saveVars, countVars
<1>4. Counters'
    BY Parts, SMT DEF Data, Flags, SessionBehind, Counters, TapsCount, RecordsCount, OneRecordPerForm, OnlyCorrects, OneIf, Awaiting, TokenExpires, sessionVars, formVars, saveVars, countVars
<1>5. AskedOfBike'
    BY Parts, SMT DEF AskedOfBike, Data, Flags, TokenExpires, sessionVars, formVars, saveVars, countVars
<1> QED
    BY <1>1, <1>2, <1>3, <1>4, <1>5, Assembled

LEMMA OtherRequestPreserves ==
    ASSUME FormInv, OtherRequest
    PROVE  FormInv'
<1>1. Data'
    BY Parts, FormAssumption, SMT DEF Data, Flags, SessionBehind, Awaiting, OtherRequest, sessionVars, formVars, saveVars, countVars
<1>2. Flags'
    BY Parts, Zenon DEF Flags, Awaiting, OtherRequest, sessionVars, formVars, saveVars, countVars
<1>3. SessionBehind'
    BY Parts, SMT DEF Data, Flags, SessionBehind, OnlyCorrects, Awaiting, OtherRequest, sessionVars, formVars, saveVars, countVars
<1>4. Counters'
    BY Parts, SMT DEF Data, Flags, SessionBehind, Counters, TapsCount, RecordsCount, OneRecordPerForm, OnlyCorrects, OneIf, Awaiting, OtherRequest, sessionVars, formVars, saveVars, countVars
<1>5. AskedOfBike'
    BY Parts, SMT DEF AskedOfBike, Data, Flags, OtherRequest, sessionVars, formVars, saveVars, countVars
<1> QED
    BY <1>1, <1>2, <1>3, <1>4, <1>5, Assembled

LEMMA OtherAnsweredPreserves ==
    ASSUME FormInv, NEW sent \in 0..sessions, OtherAnswered(sent)
    PROVE  FormInv'
<1>a. UNCHANGED <<sessions, expired, queueing, asked>>
    BY Zenon DEF OtherAnswered, Abandoned, countVars
<1>b. Expire(sent) \/ (others' = others \ {sent} /\ UNCHANGED <<session, formVars, saving, step, bike, token>>)
    BY Zenon DEF OtherAnswered
<1>1. Data'
    <2>1. CASE Expire(sent)
        BY <1>a, <2>1, Parts, SMT DEF Data, Expire, ExpiryGoesHome, Close, Carried
    <2>2. CASE others' = others \ {sent} /\ UNCHANGED <<session, formVars, saving, step, bike, token>>
        BY <1>a, <2>2, Parts, SMT DEF Data, formVars
    <2> QED
        BY <1>b, <2>1, <2>2
<1>2. Flags'
    <2>1. CASE Expire(sent)
        BY <2>1, Parts, Zenon DEF Flags, Awaiting, Expire, ExpiryGoesHome, Close
    <2>2. CASE UNCHANGED <<session, formVars, saving, step, bike, token>>
        BY <2>2, Parts, Zenon DEF Flags, Awaiting, formVars
    <2> QED
        BY <1>b, <2>1, <2>2
<1>3. SessionBehind'
    BY Parts, SMT DEF Data, Flags, SessionBehind, OnlyCorrects, Awaiting, OtherAnswered, Abandoned, Refused, Counts, Expire, ExpiryGoesHome, Close, Carried, sessionVars, formVars, saveVars, countVars
<1>4. Counters'
    BY Parts, SMT DEF Data, Flags, SessionBehind, Counters, TapsCount, RecordsCount, OneRecordPerForm, OnlyCorrects, OneIf, Awaiting, OtherAnswered, Abandoned, Refused, Counts, Expire, ExpiryGoesHome, Close, Carried, sessionVars, formVars, saveVars, countVars
<1>5. AskedOfBike'
    BY Parts, SMT DEF AskedOfBike, Data, Flags, OtherAnswered, Abandoned, Refused, Counts, Expire, ExpiryGoesHome, Close, Carried, sessionVars, formVars, saveVars, countVars
<1> QED
    BY <1>1, <1>2, <1>3, <1>4, <1>5, Assembled

LEMMA OpenFormPreserves ==
    ASSUME FormInv, OpenForm
    PROVE  FormInv'
<1>1. Data'
    BY Parts, FormAssumption, SMT DEF Data, Flags, SessionBehind, Awaiting, OpenForm, sessionVars, formVars, saveVars, countVars
<1>2. Flags'
    BY Parts, Zenon DEF Flags, Awaiting, OpenForm, sessionVars, formVars, saveVars, countVars
<1>3. SessionBehind'
    <2>1. correcting' \in (IF session = 0 THEN {FALSE} ELSE BOOLEAN) /\ queueing = 0
        BY Zenon DEF OpenForm
    <2>2. correcting' => session # 0
        BY <2>1, Zenon
    <2>3. UNCHANGED <<sessionVars, searches, saveVars>>
        BY Zenon DEF OpenForm
    <2> QED
        BY <2>1, <2>2, <2>3, Parts, SMT DEF SessionBehind, sessionVars, saveVars, Awaiting
<1>4. Counters'
    <2>a. step' = "idle" /\ queueing' = 0 /\ MaxTaps \in Nat
        BY Parts, FormAssumption, Zenon DEF Flags, OpenForm, saveVars
    <2>1. /\ queueing' \in Nat /\ published' \in Nat /\ corrected' \in Nat /\ queued' \in Nat
          /\ late' \in Nat /\ taps' \in Nat /\ excess' \in Nat
        BY Parts, SMT DEF Counters, OpenForm, sessionVars, formVars, saveVars, countVars
    <2>2. TapsCount'
        BY <2>a, SMT DEF TapsCount, OneIf, OpenForm
    <2>3. RecordsCount'
        BY Parts, SMT DEF Counters, RecordsCount, OneRecordPerForm, SessionBehind, OnlyCorrects, OpenForm, sessionVars, formVars, saveVars, countVars
    <2>4. OnlyCorrects'
        BY <2>a, Zenon DEF OnlyCorrects, OpenForm
    <2> QED
        BY <2>1, <2>2, <2>3, <2>4, Zenon DEF Counters
<1>5. AskedOfBike'
    BY Parts, SMT DEF AskedOfBike, Data, Flags, OpenForm, sessionVars, formVars, saveVars, countVars
<1> QED
    BY <1>1, <1>2, <1>3, <1>4, <1>5, Assembled

LEMMA TypePreserves ==
    ASSUME FormInv, Type
    PROVE  FormInv'
<1>1. Data'
    BY Parts, FormAssumption, SMT DEF Data, Flags, SessionBehind, Awaiting, Type, InUse, sessionVars, formVars, saveVars, countVars
<1>2. Flags'
    BY Parts, Zenon DEF Flags, Awaiting, Type, InUse, sessionVars, formVars, saveVars, countVars
<1>3. SessionBehind'
    BY Parts, SMT DEF Data, Flags, SessionBehind, OnlyCorrects, Awaiting, Type, InUse, sessionVars, formVars, saveVars, countVars
<1>4. Counters'
    BY Parts, SMT DEF Data, Flags, SessionBehind, Counters, TapsCount, RecordsCount, OneRecordPerForm, OnlyCorrects, OneIf, Awaiting, Type, InUse, sessionVars, formVars, saveVars, countVars
<1>5. AskedOfBike'
    BY Parts, SMT DEF AskedOfBike, Data, Flags, Type, InUse, sessionVars, formVars, saveVars, countVars
<1> QED
    BY <1>1, <1>2, <1>3, <1>4, <1>5, Assembled

LEMMA SearchPreserves ==
    ASSUME FormInv, Search
    PROVE  FormInv'
<1>1. Data'
    BY Parts, FormAssumption, SMT DEF Data, Flags, SessionBehind, Awaiting, Search, InUse, sessionVars, formVars, saveVars, countVars
<1>2. Flags'
    BY Parts, Zenon DEF Flags, Awaiting, Search, InUse, sessionVars, formVars, saveVars, countVars
<1>3. SessionBehind'
    BY Parts, SMT DEF Data, Flags, SessionBehind, OnlyCorrects, Awaiting, Search, InUse, sessionVars, formVars, saveVars, countVars
<1>4. Counters'
    BY Parts, SMT DEF Data, Flags, SessionBehind, Counters, TapsCount, RecordsCount, OneRecordPerForm, OnlyCorrects, OneIf, Awaiting, Search, InUse, sessionVars, formVars, saveVars, countVars
<1>5. AskedOfBike'
    BY Parts, SMT DEF AskedOfBike, Data, Flags, Search, InUse, sessionVars, formVars, saveVars, countVars
<1> QED
    BY <1>1, <1>2, <1>3, <1>4, <1>5, Assembled

LEMMA FoundPreserves ==
    ASSUME FormInv, NEW q \in searches, Found(q)
    PROVE  FormInv'
<1>1. Data'
    BY Parts, FormAssumption, SMT DEF Data, Flags, SessionBehind, Awaiting, Found, sessionVars, formVars, saveVars, countVars
<1>2. Flags'
    BY Parts, Zenon DEF Flags, Awaiting, Found, sessionVars, formVars, saveVars, countVars
<1>3. SessionBehind'
    BY Parts, SMT DEF Data, Flags, SessionBehind, OnlyCorrects, Awaiting, Found, sessionVars, formVars, saveVars, countVars
<1>4. Counters'
    BY Parts, SMT DEF Data, Flags, SessionBehind, Counters, TapsCount, RecordsCount, OneRecordPerForm, OnlyCorrects, OneIf, Awaiting, Found, sessionVars, formVars, saveVars, countVars
<1>5. AskedOfBike'
    BY Parts, SMT DEF AskedOfBike, Data, Flags, Found, sessionVars, formVars, saveVars, countVars
<1> QED
    BY <1>1, <1>2, <1>3, <1>4, <1>5, Assembled

LEMMA SearchRefusedPreserves ==
    ASSUME FormInv, NEW q \in searches, SearchRefused(q)
    PROVE  FormInv'
<1>1. Data'
    BY Parts, FormAssumption, SMT DEF Data, Flags, SessionBehind, Awaiting, SearchRefused, Abandoned, Refused, Expire, ExpiryGoesHome, Close, Carried, sessionVars, formVars, saveVars, countVars
<1>2. Flags'
    BY Parts, Zenon DEF Flags, Awaiting, SearchRefused, Abandoned, Refused, Expire, ExpiryGoesHome, Close, Carried, sessionVars, formVars, saveVars, countVars
<1>3. SessionBehind'
    BY Parts, SMT DEF Data, Flags, SessionBehind, OnlyCorrects, Awaiting, SearchRefused, Abandoned, Refused, Expire, ExpiryGoesHome, Close, Carried, sessionVars, formVars, saveVars, countVars
<1>4. Counters'
    BY ClosedCounts, Zenon DEF SearchRefused, Expire, ExpiryGoesHome
<1>5. AskedOfBike'
    BY Parts, SMT DEF AskedOfBike, Data, Flags, SearchRefused, Abandoned, Refused, Expire, ExpiryGoesHome, Close, Carried, sessionVars, formVars, saveVars, countVars
<1> QED
    BY <1>1, <1>2, <1>3, <1>4, <1>5, Assembled

LEMMA SearchFailsPreserves ==
    ASSUME FormInv, NEW q \in searches, SearchFails(q)
    PROVE  FormInv'
<1>1. Data'
    BY Parts, FormAssumption, SMT DEF Data, Flags, SessionBehind, Awaiting, SearchFails, sessionVars, formVars, saveVars, countVars
<1>2. Flags'
    BY Parts, Zenon DEF Flags, Awaiting, SearchFails, sessionVars, formVars, saveVars, countVars
<1>3. SessionBehind'
    BY Parts, SMT DEF Data, Flags, SessionBehind, OnlyCorrects, Awaiting, SearchFails, sessionVars, formVars, saveVars, countVars
<1>4. Counters'
    BY Parts, SMT DEF Data, Flags, SessionBehind, Counters, TapsCount, RecordsCount, OneRecordPerForm, OnlyCorrects, OneIf, Awaiting, SearchFails, sessionVars, formVars, saveVars, countVars
<1>5. AskedOfBike'
    BY Parts, SMT DEF AskedOfBike, Data, Flags, SearchFails, sessionVars, formVars, saveVars, countVars
<1> QED
    BY <1>1, <1>2, <1>3, <1>4, <1>5, Assembled

LEMMA LeavePreserves ==
    ASSUME FormInv, Leave
    PROVE  FormInv'
<1>1. Data'
    BY Parts, FormAssumption, SMT DEF Data, Flags, SessionBehind, Awaiting, Leave, Abandoned, InUse, Close, Carried, sessionVars, formVars, saveVars, countVars
<1>2. Flags'
    BY Parts, Zenon DEF Flags, Awaiting, Leave, Abandoned, InUse, Close, Carried, sessionVars, formVars, saveVars, countVars
<1>3. SessionBehind'
    BY Parts, SMT DEF Data, Flags, SessionBehind, OnlyCorrects, Awaiting, Leave, Abandoned, InUse, Close, Carried, sessionVars, formVars, saveVars, countVars
<1>4. Counters'
    BY ClosedCounts, Zenon DEF Leave
<1>5. AskedOfBike'
    BY Parts, SMT DEF AskedOfBike, Data, Flags, Leave, Abandoned, InUse, Close, Carried, sessionVars, formVars, saveVars, countVars
<1> QED
    BY <1>1, <1>2, <1>3, <1>4, <1>5, Assembled

LEMMA SaveOnlinePreserves ==
    ASSUME FormInv, SaveOnline
    PROVE  FormInv'
<1>1. Data'
    BY Parts, FormAssumption, SMT DEF Data, Flags, SessionBehind, Awaiting, SaveOnline, Tap, Send, sessionVars, formVars, saveVars, countVars
<1>2. Flags'
    BY Parts, Zenon DEF Flags, Awaiting, SaveOnline, Tap, Send, sessionVars, formVars, saveVars, countVars
<1>3. SessionBehind'
    BY Parts, SMT DEF Data, Flags, SessionBehind, OnlyCorrects, Awaiting, SaveOnline, Tap, Send, sessionVars, formVars, saveVars, countVars
<1>4. Counters'
    <2>1. /\ queueing' \in Nat /\ published' \in Nat /\ corrected' \in Nat /\ queued' \in Nat
          /\ late' \in Nat /\ taps' \in Nat /\ excess' \in Nat
        BY Parts, SMT DEF Counters, SaveOnline, Tap, Send, sessionVars, formVars, saveVars, countVars
    <2>2. TapsCount'
        BY Parts, FormAssumption, SMT DEF Counters, TapsCount, OneIf, Data, SaveOnline, Tap, Send, sessionVars, formVars, saveVars, countVars
    <2>3. RecordsCount'
        BY Parts, SMT DEF Counters, RecordsCount, OneRecordPerForm, SessionBehind, OnlyCorrects, SaveOnline, Tap, Send, sessionVars, formVars, saveVars, countVars
    <2>4. OnlyCorrects'
        BY Parts, SMT DEF Counters, SessionBehind, OnlyCorrects, SaveOnline, Tap, Send, sessionVars, formVars, saveVars, countVars
    <2> QED
        BY <2>1, <2>2, <2>3, <2>4, Zenon DEF Counters
<1>5. AskedOfBike'
    BY Parts, SMT DEF AskedOfBike, Data, Flags, SaveOnline, Tap, Send, sessionVars, formVars, saveVars, countVars
<1> QED
    BY <1>1, <1>2, <1>3, <1>4, <1>5, Assembled

LEMMA SaveOfflinePreserves ==
    ASSUME FormInv, SaveOffline
    PROVE  FormInv'
<1>1. Data'
    BY Parts, FormAssumption, SMT DEF Data, Flags, SessionBehind, Awaiting, SaveOffline, Tap, sessionVars, formVars, saveVars, countVars
<1>2. Flags'
    BY Parts, Zenon DEF Flags, Awaiting, SaveOffline, Tap, sessionVars, formVars, saveVars, countVars
<1>3. SessionBehind'
    BY Parts, SMT DEF Data, Flags, SessionBehind, OnlyCorrects, Awaiting, SaveOffline, Tap, sessionVars, formVars, saveVars, countVars
<1>4. Counters'
    <2>1. /\ queueing' \in Nat /\ published' \in Nat /\ corrected' \in Nat /\ queued' \in Nat
          /\ late' \in Nat /\ taps' \in Nat /\ excess' \in Nat
        BY Parts, SMT DEF Counters, SaveOffline, Tap, sessionVars, formVars, saveVars, countVars
    <2>2. TapsCount'
        BY Parts, FormAssumption, SMT DEF Counters, TapsCount, OneIf, Data, SaveOffline, Tap, sessionVars, formVars, saveVars, countVars
    <2>3. RecordsCount'
        BY Parts, SMT DEF Counters, RecordsCount, OneRecordPerForm, SessionBehind, OnlyCorrects, SaveOffline, Tap, sessionVars, formVars, saveVars, countVars
    <2>4. OnlyCorrects'
        BY Parts, SMT DEF Counters, SessionBehind, OnlyCorrects, SaveOffline, Tap, sessionVars, formVars, saveVars, countVars
    <2> QED
        BY <2>1, <2>2, <2>3, <2>4, Zenon DEF Counters
<1>5. AskedOfBike'
    BY Parts, SMT DEF AskedOfBike, Data, Flags, SaveOffline, Tap, sessionVars, formVars, saveVars, countVars
<1> QED
    BY <1>1, <1>2, <1>3, <1>4, <1>5, Assembled

LEMMA QueuedPreserves ==
    ASSUME FormInv, Queued
    PROVE  FormInv'
<1>1. Data'
    BY Parts, FormAssumption, SMT DEF Data, Flags, SessionBehind, Awaiting, Queued, Close, Carried, sessionVars, formVars, saveVars, countVars
<1>2. Flags'
    BY Parts, Zenon DEF Flags, Awaiting, Queued, Close, Carried, sessionVars, formVars, saveVars, countVars
<1>3. SessionBehind'
    BY Parts, SMT DEF Data, Flags, SessionBehind, OnlyCorrects, Awaiting, Queued, Close, Carried, sessionVars, formVars, saveVars, countVars
<1>4. Counters'
    <2>1. /\ queueing' \in Nat /\ published' \in Nat /\ corrected' \in Nat /\ queued' \in Nat
          /\ late' \in Nat /\ taps' \in Nat /\ excess' \in Nat
        BY Parts, SMT DEF Counters, Queued, Close, sessionVars, formVars, saveVars, countVars
    <2>2. TapsCount'
        BY Parts, FormAssumption, SMT DEF Counters, TapsCount, OneIf, Data, Queued, Close, sessionVars, formVars, saveVars, countVars
    <2>3. RecordsCount'
        BY Parts, SMT DEF Counters, RecordsCount, OneRecordPerForm, SessionBehind, OnlyCorrects, Queued, Close, sessionVars, formVars, saveVars, countVars
    <2>4. OnlyCorrects'
        BY Parts, SMT DEF Counters, SessionBehind, OnlyCorrects, Queued, Close, sessionVars, formVars, saveVars, countVars
    <2> QED
        BY <2>1, <2>2, <2>3, <2>4, Zenon DEF Counters
<1>5. AskedOfBike'
    BY Parts, SMT DEF AskedOfBike, Data, Flags, Queued, Close, Carried, sessionVars, formVars, saveVars, countVars
<1> QED
    BY <1>1, <1>2, <1>3, <1>4, <1>5, Assembled

LEMMA QueueFailsPreserves ==
    ASSUME FormInv, QueueFails
    PROVE  FormInv'
<1>1. Data'
    BY Parts, FormAssumption, SMT DEF Data, Flags, SessionBehind, Awaiting, QueueFails, sessionVars, formVars, saveVars, countVars
<1>2. Flags'
    BY Parts, Zenon DEF Flags, Awaiting, QueueFails, sessionVars, formVars, saveVars, countVars
<1>3. SessionBehind'
    BY Parts, SMT DEF Data, Flags, SessionBehind, OnlyCorrects, Awaiting, QueueFails, sessionVars, formVars, saveVars, countVars
<1>4. Counters'
    <2>1. /\ queueing' \in Nat /\ published' \in Nat /\ corrected' \in Nat /\ queued' \in Nat
          /\ late' \in Nat /\ taps' \in Nat /\ excess' \in Nat
        BY Parts, SMT DEF Counters, QueueFails, sessionVars, formVars, saveVars, countVars
    <2>2. TapsCount'
        BY Parts, FormAssumption, SMT DEF Counters, TapsCount, OneIf, Data, QueueFails, sessionVars, formVars, saveVars, countVars
    <2>3. RecordsCount'
        BY Parts, SMT DEF Counters, RecordsCount, OneRecordPerForm, SessionBehind, OnlyCorrects, QueueFails, sessionVars, formVars, saveVars, countVars
    <2>4. OnlyCorrects'
        BY Parts, SMT DEF Counters, SessionBehind, OnlyCorrects, QueueFails, sessionVars, formVars, saveVars, countVars
    <2> QED
        BY <2>1, <2>2, <2>3, <2>4, Zenon DEF Counters
<1>5. AskedOfBike'
    BY Parts, SMT DEF AskedOfBike, Data, Flags, QueueFails, sessionVars, formVars, saveVars, countVars
<1> QED
    BY <1>1, <1>2, <1>3, <1>4, <1>5, Assembled

LEMMA PublishedPreserves ==
    ASSUME FormInv, Published
    PROVE  FormInv'
<1>1. Data'
    BY Parts, FormAssumption, SMT DEF Data, Flags, SessionBehind, Awaiting, Published, SavedThenFiles, sessionVars, formVars, saveVars, countVars
<1>2. Flags'
    BY Parts, Zenon DEF Flags, Awaiting, Published, SavedThenFiles, sessionVars, formVars, saveVars, countVars
<1>3. SessionBehind'
    BY Parts, SMT DEF Data, Flags, SessionBehind, OnlyCorrects, Awaiting, Published, SavedThenFiles, sessionVars, formVars, saveVars, countVars
<1>4. Counters'
    BY Parts, SMT DEF Data, Flags, SessionBehind, Counters, TapsCount, RecordsCount, OneRecordPerForm, OnlyCorrects, OneIf, Awaiting, Published, SavedThenFiles, sessionVars, formVars, saveVars, countVars
<1>5. AskedOfBike'
    BY Parts, SMT DEF AskedOfBike, Data, Flags, Published, SavedThenFiles, sessionVars, formVars, saveVars, countVars
<1> QED
    BY <1>1, <1>2, <1>3, <1>4, <1>5, Assembled

LEMMA CorrectedPreserves ==
    ASSUME FormInv, Corrected
    PROVE  FormInv'
<1>1. Data'
    BY Parts, FormAssumption, SMT DEF Data, Flags, SessionBehind, Awaiting, Corrected, SavedThenFiles, sessionVars, formVars, saveVars, countVars
<1>2. Flags'
    BY Parts, Zenon DEF Flags, Awaiting, Corrected, SavedThenFiles, sessionVars, formVars, saveVars, countVars
<1>3. SessionBehind'
    BY Parts, SMT DEF Data, Flags, SessionBehind, OnlyCorrects, Awaiting, Corrected, SavedThenFiles, sessionVars, formVars, saveVars, countVars
<1>4. Counters'
    BY Parts, SMT DEF Data, Flags, SessionBehind, Counters, TapsCount, RecordsCount, OneRecordPerForm, OnlyCorrects, OneIf, Awaiting, Corrected, SavedThenFiles, sessionVars, formVars, saveVars, countVars
<1>5. AskedOfBike'
    BY Parts, SMT DEF AskedOfBike, Data, Flags, Corrected, SavedThenFiles, sessionVars, formVars, saveVars, countVars
<1> QED
    BY <1>1, <1>2, <1>3, <1>4, <1>5, Assembled

LEMMA MileageIsLowerPreserves ==
    ASSUME FormInv, MileageIsLower
    PROVE  FormInv'
<1>1. Data'
    BY Parts, FormAssumption, SMT DEF Data, Flags, SessionBehind, Awaiting, MileageIsLower, SpinnerStops, sessionVars, formVars, saveVars, countVars
<1>2. Flags'
    BY Parts, Zenon DEF Flags, Awaiting, MileageIsLower, SpinnerStops, sessionVars, formVars, saveVars, countVars
<1>3. SessionBehind'
    BY Parts, SMT DEF Data, Flags, SessionBehind, OnlyCorrects, Awaiting, MileageIsLower, SpinnerStops, sessionVars, formVars, saveVars, countVars
<1>4. Counters'
    BY Parts, SMT DEF Data, Flags, SessionBehind, Counters, TapsCount, RecordsCount, OneRecordPerForm, OnlyCorrects, OneIf, Awaiting, MileageIsLower, SpinnerStops, sessionVars, formVars, saveVars, countVars
<1>5. AskedOfBike'
    BY Parts, SMT DEF AskedOfBike, Data, Flags, MileageIsLower, SpinnerStops, sessionVars, formVars, saveVars, countVars
<1> QED
    BY <1>1, <1>2, <1>3, <1>4, <1>5, Assembled

LEMMA SaysYesPreserves ==
    ASSUME FormInv, SaysYes
    PROVE  FormInv'
<1>1. Data'
    BY Parts, FormAssumption, SMT DEF Data, Flags, SessionBehind, Awaiting, SaysYes, Send, BikeToConfirm, sessionVars, formVars, saveVars, countVars
<1>2. Flags'
    BY Parts, Zenon DEF Flags, Awaiting, SaysYes, Send, BikeToConfirm, sessionVars, formVars, saveVars, countVars
<1>3. SessionBehind'
    BY Parts, SMT DEF Data, Flags, SessionBehind, OnlyCorrects, Awaiting, SaysYes, Send, BikeToConfirm, sessionVars, formVars, saveVars, countVars
<1>4. Counters'
    BY Parts, SMT DEF Data, Flags, SessionBehind, Counters, TapsCount, RecordsCount, OneRecordPerForm, OnlyCorrects, OneIf, Awaiting, SaysYes, Send, BikeToConfirm, sessionVars, formVars, saveVars, countVars
<1>5. AskedOfBike'
    BY Parts, SMT DEF AskedOfBike, Data, Flags, SaysYes, Send, BikeToConfirm, sessionVars, formVars, saveVars, countVars
<1> QED
    BY <1>1, <1>2, <1>3, <1>4, <1>5, Assembled

LEMMA SaysNoPreserves ==
    ASSUME FormInv, SaysNo
    PROVE  FormInv'
<1>1. Data'
    BY Parts, FormAssumption, SMT DEF Data, Flags, SessionBehind, Awaiting, SaysNo, Rest, sessionVars, formVars, saveVars, countVars
<1>2. Flags'
    BY Parts, Zenon DEF Flags, Awaiting, SaysNo, Rest, sessionVars, formVars, saveVars, countVars
<1>3. SessionBehind'
    BY Parts, SMT DEF Data, Flags, SessionBehind, OnlyCorrects, Awaiting, SaysNo, Rest, sessionVars, formVars, saveVars, countVars
<1>4. Counters'
    BY Parts, SMT DEF Data, Flags, SessionBehind, Counters, TapsCount, RecordsCount, OneRecordPerForm, OnlyCorrects, OneIf, Awaiting, SaysNo, Rest, sessionVars, formVars, saveVars, countVars
<1>5. AskedOfBike'
    BY Parts, SMT DEF AskedOfBike, Data, Flags, SaysNo, Rest, sessionVars, formVars, saveVars, countVars
<1> QED
    BY <1>1, <1>2, <1>3, <1>4, <1>5, Assembled

LEMMA FailsPreserves ==
    ASSUME FormInv, Fails
    PROVE  FormInv'
<1>1. Data'
    BY Parts, FormAssumption, SMT DEF Data, Flags, SessionBehind, Awaiting, Fails, Rest, sessionVars, formVars, saveVars, countVars
<1>2. Flags'
    BY Parts, Zenon DEF Flags, Awaiting, Fails, Rest, sessionVars, formVars, saveVars, countVars
<1>3. SessionBehind'
    BY Parts, SMT DEF Data, Flags, SessionBehind, OnlyCorrects, Awaiting, Fails, Rest, sessionVars, formVars, saveVars, countVars
<1>4. Counters'
    BY Parts, SMT DEF Data, Flags, SessionBehind, Counters, TapsCount, RecordsCount, OneRecordPerForm, OnlyCorrects, OneIf, Awaiting, Fails, Rest, sessionVars, formVars, saveVars, countVars
<1>5. AskedOfBike'
    BY Parts, SMT DEF AskedOfBike, Data, Flags, Fails, Rest, sessionVars, formVars, saveVars, countVars
<1> QED
    BY <1>1, <1>2, <1>3, <1>4, <1>5, Assembled

LEMMA RefuseServedPreserves ==
    ASSUME FormInv, RefuseServed
    PROVE  FormInv'
<1>1. Data'
    BY Parts, FormAssumption, SMT DEF Data, Flags, SessionBehind, Awaiting, RefuseServed, Rest, sessionVars, formVars, saveVars, countVars
<1>2. Flags'
    BY Parts, Zenon DEF Flags, Awaiting, RefuseServed, Rest, sessionVars, formVars, saveVars, countVars
<1>3. SessionBehind'
    BY Parts, SMT DEF Data, Flags, SessionBehind, OnlyCorrects, Awaiting, RefuseServed, Rest, sessionVars, formVars, saveVars, countVars
<1>4. Counters'
    BY Parts, SMT DEF Data, Flags, SessionBehind, Counters, TapsCount, RecordsCount, OneRecordPerForm, OnlyCorrects, OneIf, Awaiting, RefuseServed, Rest, sessionVars, formVars, saveVars, countVars
<1>5. AskedOfBike'
    BY Parts, SMT DEF AskedOfBike, Data, Flags, RefuseServed, Rest, sessionVars, formVars, saveVars, countVars
<1> QED
    BY <1>1, <1>2, <1>3, <1>4, <1>5, Assembled

LEMMA UnauthenticatedPreserves ==
    ASSUME FormInv, Unauthenticated
    PROVE  FormInv'
<1>1. Data'
    BY Parts, FormAssumption, SMT DEF Data, Flags, SessionBehind, Awaiting, Unauthenticated, Counts, Expire, ExpiryGoesHome, Close, Rest, Refused, Carried, sessionVars, formVars, saveVars, countVars
<1>2. Flags'
    BY Parts, Zenon DEF Flags, Awaiting, Unauthenticated, Counts, Expire, ExpiryGoesHome, Close, Rest, Refused, Carried, sessionVars, formVars, saveVars, countVars
<1>3. SessionBehind'
    BY Parts, SMT DEF Data, Flags, SessionBehind, OnlyCorrects, Awaiting, Unauthenticated, Counts, Expire, ExpiryGoesHome, Close, Rest, Refused, Carried, sessionVars, formVars, saveVars, countVars
<1>4. Counters'
    BY Parts, SMT DEF Data, Flags, SessionBehind, Counters, TapsCount, RecordsCount, OneRecordPerForm, OnlyCorrects, OneIf, Awaiting, Unauthenticated, Counts, Expire, ExpiryGoesHome, Close, Rest, Refused, Carried, sessionVars, formVars, saveVars, countVars
<1>5. AskedOfBike'
    BY Parts, SMT DEF AskedOfBike, Data, Flags, Unauthenticated, Counts, Expire, ExpiryGoesHome, Close, Rest, Refused, Carried, sessionVars, formVars, saveVars, countVars
<1> QED
    BY <1>1, <1>2, <1>3, <1>4, <1>5, Assembled

LEMMA GiveUpPreserves ==
    ASSUME FormInv, GiveUp
    PROVE  FormInv'
<1>1. Data'
    BY Parts, FormAssumption, SMT DEF Data, Flags, SessionBehind, Awaiting, GiveUp, TimesOut, Rest, sessionVars, formVars, saveVars, countVars
<1>2. Flags'
    BY Parts, Zenon DEF Flags, Awaiting, GiveUp, TimesOut, Rest, sessionVars, formVars, saveVars, countVars
<1>3. SessionBehind'
    BY Parts, SMT DEF Data, Flags, SessionBehind, OnlyCorrects, Awaiting, GiveUp, TimesOut, Rest, sessionVars, formVars, saveVars, countVars
<1>4. Counters'
    BY Parts, SMT DEF Data, Flags, SessionBehind, Counters, TapsCount, RecordsCount, OneRecordPerForm, OnlyCorrects, OneIf, Awaiting, GiveUp, TimesOut, Rest, sessionVars, formVars, saveVars, countVars
<1>5. AskedOfBike'
    BY Parts, SMT DEF AskedOfBike, Data, Flags, GiveUp, TimesOut, Rest, sessionVars, formVars, saveVars, countVars
<1> QED
    BY <1>1, <1>2, <1>3, <1>4, <1>5, Assembled

LEMMA ServeLatePreserves ==
    ASSUME FormInv, ServeLate
    PROVE  FormInv'
<1>1. Data'
    BY Parts, FormAssumption, SMT DEF Data, Flags, SessionBehind, Awaiting, ServeLate, sessionVars, formVars, saveVars, countVars
<1>2. Flags'
    BY Parts, Zenon DEF Flags, Awaiting, ServeLate, sessionVars, formVars, saveVars, countVars
<1>3. SessionBehind'
    BY Parts, SMT DEF Data, Flags, SessionBehind, OnlyCorrects, Awaiting, ServeLate, sessionVars, formVars, saveVars, countVars
<1>4. Counters'
    BY Parts, SMT DEF Data, Flags, SessionBehind, Counters, TapsCount, RecordsCount, OneRecordPerForm, OnlyCorrects, OneIf, Awaiting, ServeLate, sessionVars, formVars, saveVars, countVars
<1>5. AskedOfBike'
    BY Parts, SMT DEF AskedOfBike, Data, Flags, ServeLate, sessionVars, formVars, saveVars, countVars
<1> QED
    BY <1>1, <1>2, <1>3, <1>4, <1>5, Assembled

LEMMA FilesSentPreserves ==
    ASSUME FormInv, FilesSent
    PROVE  FormInv'
<1>1. Data'
    BY Parts, FormAssumption, SMT DEF Data, Flags, SessionBehind, Awaiting, FilesSent, Close, sessionVars, formVars, saveVars, countVars
<1>2. Flags'
    BY Parts, Zenon DEF Flags, Awaiting, FilesSent, Close, sessionVars, formVars, saveVars, countVars
<1>3. SessionBehind'
    BY Parts, SMT DEF Data, Flags, SessionBehind, OnlyCorrects, Awaiting, FilesSent, Close, sessionVars, formVars, saveVars, countVars
<1>4. Counters'
    BY Parts, SMT DEF Data, Flags, SessionBehind, Counters, TapsCount, RecordsCount, OneRecordPerForm, OnlyCorrects, OneIf, Awaiting, FilesSent, Close, sessionVars, formVars, saveVars, countVars
<1>5. AskedOfBike'
    BY Parts, SMT DEF AskedOfBike, Data, Flags, FilesSent, Close, sessionVars, formVars, saveVars, countVars
<1> QED
    BY <1>1, <1>2, <1>3, <1>4, <1>5, Assembled

LEMMA NextPreserves ==
    ASSUME FormInv, [Next]_vars
    PROVE  FormInv'
<1>1. CASE UNCHANGED vars
    <2>1. UNCHANGED <<session, sessions, expired, others, open, correcting, typed, vehicle, searches,
                      saving, step, bike, token, queueing, published, corrected, queued, late, taps,
                      excess, asked>>
        BY <1>1, Zenon DEF vars, sessionVars, formVars, saveVars, countVars
    <2> QED
        BY <2>1, Zenon DEF FormInv, FormTypeOK, SessionBehind, TapsCount, RecordsCount,
           OneRecordPerForm, OnlyCorrects, AskedOfBike
<1>2. CASE SignIn \/ SignOut \/ TokenExpires \/ OtherRequest \/ \E s \in 0..sessions : OtherAnswered(s)
    BY <1>2, SignInPreserves, SignOutPreserves, TokenExpiresPreserves, OtherRequestPreserves,
       OtherAnsweredPreserves
<1>3. CASE \/ OpenForm \/ Type \/ Search \/ Leave
           \/ \E q \in searches : Found(q) \/ SearchRefused(q) \/ SearchFails(q)
    BY <1>3, OpenFormPreserves, TypePreserves, SearchPreserves, LeavePreserves, FoundPreserves,
       SearchRefusedPreserves, SearchFailsPreserves
<1>4. CASE SaveOnline \/ SaveOffline \/ Queued \/ QueueFails \/ SaysYes \/ SaysNo \/ GiveUp
    BY <1>4, SaveOnlinePreserves, SaveOfflinePreserves, QueuedPreserves, QueueFailsPreserves,
       SaysYesPreserves, SaysNoPreserves, GiveUpPreserves
<1>5. CASE \/ Published \/ Corrected \/ MileageIsLower \/ Fails \/ RefuseServed
           \/ Unauthenticated \/ FilesSent \/ ServeLate
    BY <1>5, PublishedPreserves, CorrectedPreserves, MileageIsLowerPreserves, FailsPreserves, RefuseServedPreserves,
       UnauthenticatedPreserves, FilesSentPreserves, ServeLatePreserves
<1> QED
    BY <1>1, <1>2, <1>3, <1>4, <1>5, Zenon DEF Next

----------------------------------------------------------------------------
(* What ends a session.                                                    *)

\* An expiry has a token of this session or of an earlier one behind it.
LEMMA ExpiryHasCause ==
    ASSUME FormInv, session # 0, NEW sent \in others \cup Carried, sent # 0, sent \in expired
    PROVE  session \in expired \/ \E s \in others \cup Carried : s < session /\ s \in expired
<1>1. session = sessions /\ sessions \in Nat /\ expired \subseteq 1..sessions
    BY Parts, FormAssumption, SMT DEF SessionBehind, Data
<1>2. sent \in 1..session
    BY <1>1, Zenon
<1>3. sent = session \/ sent < session
    BY <1>1, <1>2, SMT
<1> QED
    BY <1>3, Zenon

LEMMA StepHasCause ==
    ASSUME FormInv, [Next]_vars, session # 0, session' = 0
    PROVE  \/ SignOut
           \/ session \in expired
           \/ \E s \in others \cup Carried : s < session /\ s \in expired
<1>1. CASE UNCHANGED session
    BY <1>1
<1>2. CASE SignIn
    BY <1>2 DEF SignIn
<1>3. CASE SignOut
    BY <1>3
<1>4. ASSUME NEW sent \in 0..sessions, OtherAnswered(sent), session' # session
      PROVE  sent \in others \cup Carried /\ sent # 0 /\ sent \in expired
    BY <1>4, Zenon DEF OtherAnswered, Refused, Counts
<1>5. ASSUME NEW q \in searches, SearchRefused(q)
      PROVE  q.token \in others \cup Carried /\ q.token # 0 /\ q.token \in expired
    BY <1>5, Parts, Zenon DEF SearchRefused, Refused, SessionBehind, Carried
<1>6. ASSUME Unauthenticated, session' # session
      PROVE  token \in others \cup Carried /\ token # 0 /\ token \in expired
    BY <1>6, Zenon DEF Unauthenticated, Refused, Counts, Carried
<1>7. \/ UNCHANGED session \/ SignIn \/ SignOut \/ Unauthenticated
      \/ \E sent \in 0..sessions : OtherAnswered(sent)
      \/ \E q \in searches : SearchRefused(q)
    BY Zenon DEF Next, vars, sessionVars, TokenExpires, OtherRequest, OpenForm, Type, Search, Leave,
       Found, SearchFails, SaveOnline, SaveOffline, Queued, QueueFails, Published, Corrected,
       MileageIsLower, Fails, RefuseServed, SaysYes, SaysNo, GiveUp, FilesSent, ServeLate
<1> QED
    BY <1>1, <1>2, <1>3, <1>4, <1>5, <1>6, <1>7, ExpiryHasCause

----------------------------------------------------------------------------
(* What follows.                                                           *)

\* The inductive invariant: what a form awaits it sent in the session it still
\* has, and one that can still be saved has made nothing but by requests it gave
\* up on or saw fail, and taps while it queued.
THEOREM FormInvariance == Spec => []FormInv
<1> QED
    BY InitEstablishes, NextPreserves, PTL DEF Spec

\* Every state of the form and the session is well typed.
THEOREM FormTypeCorrect == Spec => []FormTypeOK
<1>1. FormInv => FormTypeOK
    BY DEF FormInv
<1> QED
    BY <1>1, FormInvariance, PTL

\* A form makes one record, one more for each request it gave up on or saw fail
\* although the API served it, and one more for each tap while it queued.
THEOREM FormsMakeOneRecord == Spec => []OneRecordPerForm
<1>1. FormInv => OneRecordPerForm
    BY DEF FormInv, RecordsCount
<1> QED
    BY <1>1, FormInvariance, PTL

\* A correction is never sent, or queued, as a record of its own.
THEOREM CorrectionsAreNeverNew == Spec => []CorrectionsStayCorrections
<1>1. FormInv => CorrectionsStayCorrections
    BY SMT DEF FormInv, OnlyCorrects, CorrectionsStayCorrections
<1> QED
    BY <1>1, FormInvariance, PTL

\* What is confirmed is the mileage of the bike the mechanic was asked about.
THEOREM ConfirmationsAreAsked == Spec => []ConfirmedAsAsked
<1>1. FormInv => ConfirmedAsAsked
    BY DEF FormInv, AskedOfBike, ConfirmedAsAsked
<1> QED
    BY <1>1, FormInvariance, PTL

\* A session ends by signing out or by the refusal of an expired token, its own
\* or an earlier session's.
THEOREM SessionsEndForCause == Spec => SessionEndsForCause
<1>1. FormInv /\ [Next]_vars =>
          [session # 0 /\ session' = 0 =>
               \/ SignOut
               \/ session \in expired
               \/ \E s \in others \cup Carried : s < session /\ s \in expired]_vars
    BY StepHasCause
<1> QED
    BY <1>1, FormInvariance, PTL DEF Spec, SessionEndsForCause

=============================================================================
