---------------------------- MODULE SignIn_proofs ----------------------------
(***************************************************************************)
(* Proofs about the limiter (RateLimiter), the throttle (LoginThrottle)    *)
(* and the logins that use both (SignIn), for any callers, accounts, rates *)
(* and limits.                                                             *)
(*                                                                         *)
(* Dropping a bucket after IdleUntilFull changes nothing a caller can see. *)
(* A lock never outlives the last failure by more than Lockout, so neither *)
(* does dropping a record change what an account sees.  The logins that    *)
(* interleave use both as their modules say, so what is proved of those    *)
(* holds of the logins; and no interleaving examines more wrong passwords  *)
(* than the limit and the other logins under way.                          *)
(***************************************************************************)
EXTENDS SignIn, FiniteSetTheorems, TLAPS

USE ClockAssumption

----------------------------------------------------------------------------
(* Arithmetic and buckets.                                                 *)

LEMMA OneMore == \A a, r \in Int : (a + 1) * r = a * r + r
OBVIOUS

LEMMA AtLeast == \A a, b, r \in Nat : a <= b => a * r <= b * r
<1> SUFFICES ASSUME NEW a \in Nat, NEW b \in Nat, NEW r \in Nat, a <= b
             PROVE  a * r <= b * r
  OBVIOUS
<1> DEFINE d == b - a
<1>1. d \in Nat /\ b = a + d
  OBVIOUS
<1>2. b * r = a * r + d * r
  BY <1>1
<1>3. d * r \in Nat /\ a * r \in Nat
  BY <1>1
<1> HIDE DEF d
<1>4. QED
  BY <1>2, <1>3

LEMMA LesserIsNat ==
    ASSUME NEW a \in Nat, NEW b \in Nat
    PROVE  Lesser(a, b) \in 0..a /\ Lesser(a, b) <= b
BY DEF Lesser

\* A bucket in a state where its caller was seen no later than now.
LEMMA TokensInRange ==
    ASSUME NEW b \in Bucket, now \in Nat, b.lastSeen <= now
    PROVE  Tokens(b) \in 0..Burst
<1>1. (now - b.lastSeen) * Rate \in Nat
  BY LimiterAssumption DEF Bucket
<1>2. b.tokens + (now - b.lastSeen) * Rate \in Nat
  BY <1>1, LimiterAssumption DEF Bucket
<1>3. QED
  BY <1>2, LimiterAssumption, LesserIsNat DEF Tokens

LEMMA FoundInRange ==
    ASSUME LimiterTypeOK, NEW c \in Caller
    PROVE  Found(c) \in 0..Burst
<1>1. CASE buckets[c] = NoBucket
  BY <1>1, LimiterAssumption DEF Found
<1>2. CASE buckets[c] # NoBucket
  BY <1>2, TokensInRange DEF Found, LimiterTypeOK
<1>3. QED
  BY <1>1, <1>2

\* A bucket idle for long enough is full.
LEMMA IdleIsFull ==
    ASSUME NEW b \in Bucket, now \in Nat, Idle(b)
    PROVE  Tokens(b) = Burst
<1> DEFINE age == now - b.lastSeen
<1>1. age \in Nat /\ IdleUntilFull <= age
  BY LimiterAssumption DEF Bucket, Idle
<1>2. IdleUntilFull * Rate <= age * Rate
  BY <1>1, AtLeast, LimiterAssumption
<1>3. age * Rate \in Nat /\ IdleUntilFull * Rate \in Nat /\ b.tokens \in Nat
  BY <1>1, LimiterAssumption DEF Bucket
<1>4. Tokens(b) = Lesser(Burst, b.tokens + age * Rate)
  BY DEF Tokens
<1> HIDE DEF age
<1>5. QED
  BY <1>2, <1>3, <1>4, LimiterAssumption DEF Lesser

\* In one unit of time a bucket gains Rate, if it has room.
LEMMA BucketFills ==
    ASSUME NEW b \in Bucket, now \in Nat, b.lastSeen <= now, now' = now + 1
    PROVE  Lesser(Burst, b.tokens + (now' - b.lastSeen) * Rate) = Lesser(Burst, Tokens(b) + Rate)
<1> DEFINE gained == (now - b.lastSeen) * Rate
<1>1. (now' - b.lastSeen) * Rate = gained + Rate
  <2>1. now - b.lastSeen \in Int /\ Rate \in Int /\ now' - b.lastSeen = (now - b.lastSeen) + 1
    BY LimiterAssumption DEF Bucket
  <2>2. QED
    BY <2>1, OneMore
<1>2. gained \in Nat /\ b.tokens \in Nat /\ Burst \in Nat /\ Rate \in Nat
  BY LimiterAssumption DEF Bucket
<1>3. Tokens(b) = Lesser(Burst, b.tokens + gained)
  BY DEF Tokens
<1> HIDE DEF gained
<1>4. QED
  BY <1>1, <1>2, <1>3 DEF Lesser

LEMMA FoundFills ==
    ASSUME LimiterTypeOK, Tick, UNCHANGED limiter, NEW c \in Caller
    PROVE  Found(c)' = Lesser(Burst, Found(c) + Rate)
<1>1. now \in Nat /\ now' = now + 1 /\ buckets' = buckets
  BY DEF LimiterTypeOK, Tick, limiter
<1>2. CASE buckets[c] = NoBucket
  BY <1>1, <1>2, LimiterAssumption DEF Found, Lesser
<1>3. CASE buckets[c] # NoBucket
  <2>1. buckets[c] \in Bucket /\ buckets[c].lastSeen <= now
    BY <1>1, <1>3 DEF LimiterTypeOK, Bucket
  <2>2. Found(c)' = Lesser(Burst, buckets[c].tokens + (now' - buckets[c].lastSeen) * Rate)
    BY <1>1, <1>3 DEF Found, Tokens
  <2>3. Found(c) = Tokens(buckets[c])
    BY <1>3 DEF Found
  <2>4. QED
    BY <2>1, <2>2, <2>3, <1>1, BucketFills
<1>4. QED
  BY <1>2, <1>3

\* A call changes what its caller finds by what it was served, and what no
\* other caller finds.
LEMMA AllowTakes ==
    ASSUME LimiterTypeOK, NEW c \in Caller, Allow(c)
    PROVE  /\ allowed' = (Found(c) >= Cost)
           /\ Found(c)' = IF Found(c) >= Cost THEN Found(c) - Cost ELSE Found(c)
           /\ \A d \in Caller \ {c} : Found(d)' = Found(d)
<1>1. Found(c) \in 0..Burst
  BY FoundInRange
<1>2. allowed' = (Found(c) >= Cost) /\ now' = now /\ now \in Nat
  BY DEF Allow, LimiterTypeOK
<1> DEFINE left == IF Found(c) >= Cost THEN Found(c) - Cost ELSE Found(c)
<1>3. left \in 0..Burst
  BY <1>1, <1>2, LimiterAssumption
<1>4. buckets'[c] = [tokens |-> left, lastSeen |-> now] /\ buckets'[c] # NoBucket
  <2>1. buckets'[c] = [tokens |-> left, lastSeen |-> now]
    BY DEF Allow, LimiterTypeOK, Kept
  <2>2. [tokens |-> left, lastSeen |-> now] \in [tokens: 0..Burst, lastSeen: 0..MaxTime]
    BY <1>3 DEF LimiterTypeOK
  <2>3. QED
    BY <2>1, <2>2, LimiterAssumption
<1>5. Found(c)' = left
  <2>1. Found(c)' = Lesser(Burst, left + (now - now) * Rate)
    BY <1>2, <1>4 DEF Found, Tokens
  <2>2. (now - now) * Rate = 0
    BY <1>2, LimiterAssumption
  <2>3. QED
    BY <1>3, <2>1, <2>2, LimiterAssumption DEF Lesser
<1>6. ASSUME NEW d \in Caller \ {c} PROVE Found(d)' = Found(d)
  <2>1. buckets'[d] = buckets[d] \/ (buckets[d] # NoBucket /\ Idle(buckets[d]) /\ buckets'[d] = NoBucket)
    BY DEF Allow, LimiterTypeOK, Kept
  <2>2. CASE buckets'[d] = buckets[d]
    BY <1>2, <2>2 DEF Found, Tokens
  <2>3. CASE buckets[d] # NoBucket /\ Idle(buckets[d]) /\ buckets'[d] = NoBucket
    <3>1. Found(d) = Burst
      BY <1>2, <2>3, IdleIsFull DEF Found, LimiterTypeOK
    <3>2. QED
      BY <2>3, <3>1 DEF Found
  <2>4. QED
    BY <2>1, <2>2, <2>3
<1>7. QED
  BY <1>2, <1>5, <1>6

----------------------------------------------------------------------------
(* Type correctness of the limiter.                                        *)

LEMMA LimiterStepKeepsType ==
    ASSUME LimiterTypeOK, [LimiterNext]_limiterVars
    PROVE  LimiterTypeOK'
<1>1. CASE UNCHANGED limiterVars
  BY <1>1 DEF limiterVars, limiter, LimiterTypeOK
<1>2. CASE Tick /\ UNCHANGED limiter
  BY <1>2 DEF Tick, limiter, LimiterTypeOK, Bucket
<1>3. CASE LimiterRestarts
  BY <1>3 DEF LimiterRestarts, FreshLimiter, LimiterTypeOK
<1>4. ASSUME NEW c \in Caller, Allow(c) PROVE LimiterTypeOK'
  <2>1. now' = now /\ started' = started /\ allowed' \in BOOLEAN /\ served' \in [Caller -> Nat]
    BY <1>4 DEF Allow, LimiterTypeOK
  <2>2. Found(c) \in 0..Burst
    BY FoundInRange
  <2>3. buckets' = [(IF buckets[c] = NoBucket THEN Kept ELSE buckets) EXCEPT
                       ![c] = [tokens |-> IF Found(c) >= Cost THEN Found(c) - Cost ELSE Found(c),
                               lastSeen |-> now]]
    BY <1>4 DEF Allow
  <2>4. [tokens |-> IF Found(c) >= Cost THEN Found(c) - Cost ELSE Found(c), lastSeen |-> now] \in Bucket
    BY <1>4, <2>2, LimiterAssumption DEF Allow, Bucket, LimiterTypeOK
  <2>5. (IF buckets[c] = NoBucket THEN Kept ELSE buckets) \in [Caller -> Bucket \cup {NoBucket}]
    BY DEF LimiterTypeOK, Kept
  <2>6. \A d \in Caller \ {c} : buckets'[d] = buckets[d] \/ buckets'[d] = NoBucket
    BY <2>3, <2>5 DEF LimiterTypeOK, Kept
  <2>7. buckets' \in [Caller -> Bucket \cup {NoBucket}] /\ buckets'[c].lastSeen = now
    BY <2>3, <2>4, <2>5
  <2>8. QED
    BY <2>1, <2>6, <2>7 DEF LimiterTypeOK
<1>5. QED
  BY <1>1, <1>2, <1>3, <1>4 DEF LimiterNext

\* Buckets stay within their burst and their times within the clock.
THEOREM LimiterTypeCorrect == LimiterSpec => []LimiterTypeOK
<1>1. LimiterInit => LimiterTypeOK
  BY DEF LimiterInit, LimiterTypeOK
<1>2. QED
  BY <1>1, LimiterStepKeepsType, PTL DEF LimiterSpec

----------------------------------------------------------------------------
(* The rate.                                                               *)

LEMMA FundedInitially == LimiterInit => Funded
BY LimiterAssumption DEF LimiterInit, Funded, Found

LEMMA StepKeepsFunded ==
    ASSUME LimiterTypeOK, Funded, [LimiterNext]_limiterVars
    PROVE  Funded'
<1> SUFFICES ASSUME NEW c \in Caller
             PROVE  (Cost * served[c] + Found(c) <= Burst + Rate * (now - started))'
  BY DEF Funded
<1>0. /\ Cost * served[c] + Found(c) <= Burst + Rate * (now - started)
      /\ served[c] \in Nat /\ Found(c) \in Nat /\ Cost * served[c] \in Nat
      /\ now \in Nat /\ started \in Nat /\ Rate * (now - started) \in Int
      /\ Rate \in Nat /\ Burst \in Nat /\ Cost \in Nat
  BY FoundInRange, LimiterAssumption DEF Funded, LimiterTypeOK
<1>1. CASE UNCHANGED limiterVars
  BY <1>0, <1>1 DEF limiterVars, limiter, Found, Tokens
<1>2. CASE Tick /\ UNCHANGED limiter
  <2>1. Found(c)' = Lesser(Burst, Found(c) + Rate)
    BY <1>2, FoundFills
  <2>2. Rate * (now' - started') = Rate * (now - started) + Rate
    <3>1. now' - started' = (now - started) + 1
      BY <1>0, <1>2 DEF Tick, limiter
    <3>2. QED
      BY <1>0, <3>1, OneMore
  <2>3. served' = served
    BY <1>2 DEF limiter
  <2>4. Found(c)' \in Nat /\ Found(c)' <= Found(c) + Rate
    BY <1>0, <2>1 DEF Lesser
  <2>5. QED
    BY <1>0, <2>2, <2>3, <2>4
<1>3. CASE LimiterRestarts
  <2>1. served'[c] = 0 /\ Found(c)' = Burst /\ now' - started' = 0
    BY <1>0, <1>3 DEF LimiterRestarts, FreshLimiter, Found
  <2>2. QED
    BY <1>0, <2>1
<1>4. ASSUME NEW d \in Caller, Allow(d)
      PROVE  (Cost * served[c] + Found(c) <= Burst + Rate * (now - started))'
  <2>0. now' = now /\ started' = started
    BY <1>4 DEF Allow
  <2>1. CASE c # d
    <3>1. served'[c] = served[c] /\ Found(c)' = Found(c)
      BY <1>4, <2>1, AllowTakes DEF Allow, LimiterTypeOK
    <3>2. QED
      BY <1>0, <2>0, <3>1
  <2>2. CASE c = d /\ Found(c) >= Cost
    <3>1. served'[c] = served[c] + 1 /\ Found(c)' = Found(c) - Cost
      BY <1>4, <2>2, AllowTakes DEF Allow, LimiterTypeOK
    <3>2. Cost * served'[c] = Cost * served[c] + Cost
      BY <1>0, <3>1, OneMore
    <3>3. QED
      BY <1>0, <2>0, <3>1, <3>2
  <2>3. CASE c = d /\ ~(Found(c) >= Cost)
    <3>1. served'[c] = served[c] /\ Found(c)' = Found(c)
      BY <1>4, <2>3, AllowTakes DEF Allow
    <3>2. QED
      BY <1>0, <2>0, <3>1
  <2>4. QED
    BY <2>1, <2>2, <2>3
<1>5. QED
  BY <1>1, <1>2, <1>3, <1>4 DEF LimiterNext

\* No caller is served more than one burst and the refill of the time since
\* the process started.
THEOREM RateHolds == LimiterSpec => []WithinRate
<1>1. LimiterTypeOK /\ Funded => WithinRate
  BY FoundInRange, LimiterAssumption DEF LimiterTypeOK, Funded, WithinRate
<1>2. LimiterInit => LimiterTypeOK /\ Funded
  BY FundedInitially DEF LimiterInit, LimiterTypeOK
<1>3. LimiterTypeOK /\ Funded /\ [LimiterNext]_limiterVars => (LimiterTypeOK /\ Funded)'
  BY LimiterStepKeepsType, StepKeepsFunded
<1>4. QED
  BY <1>1, <1>2, <1>3, PTL DEF LimiterSpec

----------------------------------------------------------------------------
(* The limiter is a token bucket.                                          *)

LEMMA StepIsBucketStep ==
    ASSUME LimiterTypeOK, [LimiterNext]_limiterVars
    PROVE  [Ideal!BucketNext]_(Ideal!bucketVars)
<1> DEFINE level == [c \in Caller |-> Found(c)]
<1>1. CASE UNCHANGED limiterVars
  BY <1>1 DEF limiterVars, limiter, Ideal!bucketVars, Found, Tokens
<1>2. CASE Tick /\ UNCHANGED limiter
  <2>1. level' = [c \in Caller |-> Lesser(Burst, level[c] + Rate)]
    BY <1>2, FoundFills
  <2>2. Ideal!Fill
    BY <1>2, <2>1 DEF Ideal!Fill, Ideal!Tick, Ideal!Lesser, Lesser, Tick, limiter
  <2>3. QED
    BY <2>2 DEF Ideal!BucketNext
<1>3. CASE LimiterRestarts
  BY <1>3 DEF LimiterRestarts, FreshLimiter, Found, Ideal!BucketNext, Ideal!Refilled
<1>4. ASSUME NEW c \in Caller, Allow(c) PROVE Ideal!BucketNext
  <2>1. allowed' = (level[c] >= Cost) /\ now' = now
    BY <1>4, AllowTakes DEF Allow
  <2>2. level' = IF level[c] >= Cost THEN [level EXCEPT ![c] = @ - Cost] ELSE level
    BY <1>4, AllowTakes
  <2>3. Ideal!Take(c)
    BY <2>1, <2>2 DEF Ideal!Take
  <2>4. QED
    BY <2>3 DEF Ideal!BucketNext
<1>5. QED
  BY <1>1, <1>2, <1>3, <1>4 DEF LimiterNext

\* Filling on use and dropping idle buckets implements buckets that fill by
\* themselves and are kept for good.
THEOREM BucketsAreIdeal == LimiterSpec => ImplementsTokenBucket
<1>1. LimiterInit => Ideal!BucketInit
  BY DEF LimiterInit, Ideal!BucketInit, Found
<1>2. QED
  BY <1>1, LimiterTypeCorrect, StepIsBucketStep, PTL
  DEF LimiterSpec, ImplementsTokenBucket, Ideal!BucketSpec


----------------------------------------------------------------------------
(* Records of the throttle.                                                *)

LEMMA RecordIsNotNoRecord == \A r \in Record : r # NoRecord
<1> SUFFICES ASSUME NEW r \in Record PROVE r \in [count: Nat, lastFailure: Int, lockedUntil: Int]
  BY ThrottleAssumption
<1> QED
  BY ThrottleAssumption DEF Record

LEMMA NewRecordIsRecord == NewRecord \in Record
BY ThrottleAssumption DEF NewRecord, Record

LEMMA CountedIsRecord ==
    ASSUME NEW r \in Record, now \in 0..MaxTime
    PROVE  Counted(r) \in Record /\ Counted(r).lastFailure = now
<1>1. CASE r.count + 1 >= Limit
  BY <1>1, ThrottleAssumption DEF Counted, Record
<1>2. CASE ~(r.count + 1 >= Limit)
  <2>1. Counted(r) = [r EXCEPT !.count = r.count + 1, !.lastFailure = now]
    BY <1>2 DEF Counted
  <2>2. r.count + 1 \in 0..Limit - 1
    BY <1>2, ThrottleAssumption DEF Record
  <2>3. QED
    BY <2>1, <2>2 DEF Record
<1>3. QED
  BY <1>1, <1>2

\* What Fail goes on from: a new record, or the one there is.
From(a) == IF accounts[a] = NoRecord \/ Old(accounts[a]) THEN NewRecord ELSE accounts[a]

LEMMA FromIsRecord ==
    ASSUME ThrottleTypeOK, NEW a \in Account
    PROVE  From(a) \in Record
BY NewRecordIsRecord DEF From, ThrottleTypeOK

\* A failure counts for its account, and may clean away what is stale of the
\* others.
LEMMA FailWrites ==
    ASSUME ThrottleTypeOK, NEW a \in Account, Fail(a)
    PROVE  /\ accounts'[a] = Counted(From(a))
           /\ \A b \in Account \ {a} :
                 \/ accounts'[b] = accounts[b]
                 \/ accounts[b] # NoRecord /\ Stale(accounts[b]) /\ accounts'[b] = NoRecord
           /\ accounts' \in [Account -> Record \cup {NoRecord}]
           /\ failed' = [failed EXCEPT ![a] = @ + 1]
           /\ now' = now
<1> DEFINE before == IF accounts[a] = NoRecord \/ Old(accounts[a]) THEN Evicted ELSE accounts
<1>1. before \in [Account -> Record \cup {NoRecord}]
  BY DEF ThrottleTypeOK, Evicted
<1>2. accounts' = [before EXCEPT ![a] = Counted(From(a))]
  <2>1. (IF accounts[a] = NoRecord \/ Old(accounts[a]) THEN NewRecord ELSE accounts[a]) = From(a)
    BY DEF From
  <2>2. QED
    BY <2>1 DEF Fail
<1>3. Counted(From(a)) \in Record
  BY FromIsRecord, CountedIsRecord DEF ThrottleTypeOK
<1>4. \A b \in Account :
         \/ before[b] = accounts[b]
         \/ accounts[b] # NoRecord /\ Stale(accounts[b]) /\ before[b] = NoRecord
  BY DEF Evicted
<1> HIDE DEF before
<1>5. QED
  BY <1>1, <1>2, <1>3, <1>4 DEF Fail

----------------------------------------------------------------------------
(* The invariant of the throttle.                                          *)

\* What ThrottleInv says of one account.
Sound(a) ==
    accounts[a] # NoRecord =>
        /\ accounts[a].lastFailure <= now
        /\ accounts[a].lockedUntil <= accounts[a].lastFailure + Lockout
        /\ accounts[a].count <= failed[a]
        /\ accounts[a].lockedUntil # 0 => failed[a] >= Limit

LEMMA InvIsSound == ThrottleInv <=> ThrottleTypeOK /\ \A a \in Account : Sound(a)
BY DEF ThrottleInv, LocksAreShort, Sound

LEMMA CountedIsSound ==
    ASSUME ThrottleInv, NEW a \in Account, Fail(a)
    PROVE  Sound(a)'
<1> DEFINE r == From(a)
<1>1. r \in Record /\ now \in 0..MaxTime /\ failed \in [Account -> Nat]
  BY FromIsRecord DEF ThrottleInv, ThrottleTypeOK
<1>2. /\ r.lastFailure <= now /\ r.lockedUntil <= r.lastFailure + Lockout
      /\ r.count <= failed[a]
      /\ r.lockedUntil # 0 => failed[a] >= Limit
  <2>1. CASE r = NewRecord
    BY <1>1, <2>1, ThrottleAssumption DEF NewRecord
  <2>2. CASE r = accounts[a] /\ accounts[a] # NoRecord
    BY <2>2, InvIsSound DEF Sound
  <2>3. QED
    BY <2>1, <2>2 DEF From
<1>3. accounts'[a] = Counted(r) /\ failed'[a] = failed[a] + 1 /\ now' = now
  BY <1>1, FailWrites DEF ThrottleInv
<1> HIDE DEF r
<1>4. CASE r.count + 1 >= Limit
  <2>1. Counted(r) = [count |-> 0, lastFailure |-> now, lockedUntil |-> now + Lockout]
    BY <1>4 DEF Counted
  <2>2. accounts'[a] = [count |-> 0, lastFailure |-> now, lockedUntil |-> now + Lockout]
    BY <1>3, <2>1
  <2>3. failed'[a] >= Limit /\ failed'[a] \in Nat
    BY <1>1, <1>2, <1>3, <1>4, ThrottleAssumption DEF Record
  <2>4. QED
    BY <1>1, <1>3, <2>2, <2>3, ThrottleAssumption DEF Sound
<1>5. CASE ~(r.count + 1 >= Limit)
  <2>1. Counted(r) = [r EXCEPT !.count = @ + 1, !.lastFailure = now]
    BY <1>5 DEF Counted
  <2>2. /\ Counted(r).count = r.count + 1 /\ Counted(r).lastFailure = now
        /\ Counted(r).lockedUntil = r.lockedUntil
    BY <1>1, <2>1 DEF Record
  <2>3. QED
    BY <1>1, <1>2, <1>3, <2>2, ThrottleAssumption DEF Sound, Record
<1>6. QED
  BY <1>4, <1>5

LEMMA StepKeepsInv ==
    ASSUME ThrottleInv, [ThrottleNext]_throttleVars
    PROVE  ThrottleInv'
<1>0. ThrottleTypeOK /\ \A a \in Account : Sound(a)
  BY InvIsSound
<1> SUFFICES ThrottleTypeOK' /\ \A a \in Account : Sound(a)'
  BY DEF ThrottleInv, LocksAreShort, Sound, ThrottleTypeOK
<1>1. CASE UNCHANGED throttleVars
  BY <1>0, <1>1 DEF throttleVars, throttle, ThrottleTypeOK, Sound
<1>2. CASE Tick /\ UNCHANGED throttle
  BY <1>0, <1>2 DEF Tick, throttle, ThrottleTypeOK, Sound, Record
<1>3. CASE ThrottleRestarts
  BY <1>0, <1>3 DEF ThrottleRestarts, ThrottleTypeOK, Sound
<1>4. ASSUME NEW a \in Account, Fail(a)
      PROVE  ThrottleTypeOK' /\ \A b \in Account : Sound(b)'
  <2>1. ThrottleTypeOK'
    BY <1>0, <1>4, FailWrites DEF ThrottleTypeOK
  <2>2. ASSUME NEW b \in Account \ {a} PROVE Sound(b)'
    <3>1. failed'[b] = failed[b] /\ now' = now
      BY <1>0, <1>4, FailWrites DEF ThrottleTypeOK
    <3>2. accounts'[b] = accounts[b] \/ accounts'[b] = NoRecord
      BY <1>0, <1>4, FailWrites
    <3>3. QED
      BY <1>0, <3>1, <3>2 DEF Sound
  <2>3. Sound(a)'
    BY <1>4, CountedIsSound
  <2>4. QED
    BY <2>1, <2>2, <2>3
<1>5. ASSUME NEW a \in Account, Succeed(a)
      PROVE  ThrottleTypeOK' /\ \A b \in Account : Sound(b)'
  BY <1>0, <1>5 DEF Succeed, RowEnded, ThrottleTypeOK, Sound
<1>6. QED
  BY <1>1, <1>2, <1>3, <1>4, <1>5 DEF ThrottleNext

LEMMA InvInitially == ThrottleInit => ThrottleInv
BY ThrottleAssumption DEF ThrottleInit, ThrottleInv, ThrottleTypeOK, LocksAreShort

LEMMA ThrottleInvHolds == ThrottleSpec => []ThrottleInv
BY InvInitially, StepKeepsInv, PTL DEF ThrottleSpec

\* The records of the map stay records: counts below the limit, times of the
\* clock.
THEOREM ThrottleTypeCorrect == ThrottleSpec => []ThrottleTypeOK
<1>1. ThrottleInv => ThrottleTypeOK
  BY DEF ThrottleInv
<1>2. QED
  BY <1>1, ThrottleInvHolds, PTL

\* Nobody is locked out by fewer failures in a row than the limit.
THEOREM OnlyFailuresLock == ThrottleSpec => []LockedByFailures
<1>1. ThrottleInv => LockedByFailures
  BY DEF ThrottleInv, ThrottleTypeOK, LockedByFailures, Locked, Record
<1>2. QED
  BY <1>1, ThrottleInvHolds, PTL

----------------------------------------------------------------------------
(* A lock lasts.                                                           *)

\* A record of a locked account is neither old nor stale.
LEMMA LockedIsFresh ==
    ASSUME ThrottleInv, NEW a \in Account, Locked(a)
    PROVE  ~Old(accounts[a]) /\ ~Stale(accounts[a])
<1>1. /\ accounts[a] \in Record /\ now \in Nat /\ now < accounts[a].lockedUntil
      /\ accounts[a].lockedUntil <= accounts[a].lastFailure + Lockout
  BY DEF ThrottleInv, ThrottleTypeOK, LocksAreShort, Locked
<1>2. QED
  BY <1>1, ThrottleAssumption DEF Old, Stale, Record

\* Only time, a right password or a restart ends a lock.
THEOREM LocksLast == ThrottleSpec => LockLasts
<1>1. ASSUME ThrottleInv, [ThrottleNext]_throttleVars, NEW a \in Account,
             Locked(a), ~Locked(a)'
      PROVE  now' >= accounts[a].lockedUntil \/ failed'[a] = 0
  <2>0. ThrottleTypeOK /\ accounts[a] # NoRecord /\ accounts[a] \in Record
        /\ now < accounts[a].lockedUntil /\ now \in Nat
    BY <1>1 DEF ThrottleInv, ThrottleTypeOK, Locked
  <2>1. CASE UNCHANGED throttleVars
    BY <1>1, <2>1 DEF throttleVars, throttle, Locked
  <2>2. CASE Tick /\ UNCHANGED throttle
    BY <1>1, <2>0, <2>2 DEF Tick, throttle, Locked, Record
  <2>3. CASE ThrottleRestarts
    BY <2>3 DEF ThrottleRestarts
  <2>4. ASSUME NEW b \in Account, Fail(b) PROVE FALSE
    <3>1. CASE b = a
      <4>1. From(a) = accounts[a]
        BY <1>1, <2>0, LockedIsFresh DEF From
      <4>2. accounts'[a] = Counted(accounts[a]) /\ now' = now
        BY <2>0, <2>4, <3>1, <4>1, FailWrites
      <4>3. Counted(accounts[a]) \in Record /\ Counted(accounts[a]) # NoRecord
        BY <2>0, CountedIsRecord, RecordIsNotNoRecord DEF ThrottleTypeOK
      <4>4. now < Counted(accounts[a]).lockedUntil
        BY <2>0, ThrottleAssumption DEF Counted, Record
      <4>5. QED
        BY <1>1, <4>2, <4>3, <4>4 DEF Locked
    <3>2. CASE b # a
      <4>1. accounts'[a] = accounts[a] /\ now' = now
        BY <1>1, <2>0, <2>4, <3>2, FailWrites, LockedIsFresh
      <4>2. QED
        BY <1>1, <4>1 DEF Locked
    <3>3. QED
      BY <3>1, <3>2
  <2>5. ASSUME NEW b \in Account, Succeed(b)
        PROVE  now' >= accounts[a].lockedUntil \/ failed'[a] = 0
    <3>1. CASE b = a
      BY <2>0, <2>5, <3>1 DEF Succeed, ThrottleTypeOK
    <3>2. CASE b # a
      BY <1>1, <2>0, <2>5, <3>2 DEF Succeed, RowEnded, ThrottleTypeOK, Locked
    <3>3. QED
      BY <3>1, <3>2
  <2>6. QED
    BY <1>1, <2>1, <2>2, <2>3, <2>4, <2>5 DEF ThrottleNext
<1>2. ThrottleInv /\ [ThrottleNext]_throttleVars =>
         [\A a \in Account :
             Locked(a) /\ ~Locked(a)' =>
                 now' >= accounts[a].lockedUntil \/ failed'[a] = 0]_throttleVars
  BY <1>1
<1>3. QED
  BY <1>2, ThrottleInvHolds, PTL DEF ThrottleSpec, LockLasts

----------------------------------------------------------------------------
(* The throttle is a lockout.                                              *)

\* Who is locked can be told from what is remembered.
LEMMA LockedIsRemembered ==
    ASSUME ThrottleInv
    PROVE  \A a \in Account : Locked(a) <=> now < Memory[a].lockedUntil
<1> SUFFICES ASSUME NEW a \in Account PROVE Locked(a) <=> now < Memory[a].lockedUntil
  OBVIOUS
<1>1. now \in Nat
  BY DEF ThrottleInv, ThrottleTypeOK
<1>2. CASE accounts[a] = NoRecord
  BY <1>1, <1>2 DEF Locked, Memory, NewRecord
<1>3. CASE accounts[a] # NoRecord /\ Old(accounts[a])
  <2>1. ~Locked(a)
    BY <1>3, LockedIsFresh
  <2>2. QED
    BY <1>1, <1>3, <2>1 DEF Memory, NewRecord
<1>4. CASE accounts[a] # NoRecord /\ ~Old(accounts[a])
  BY <1>4 DEF Locked, Memory
<1>5. QED
  BY <1>2, <1>3, <1>4

LEMMA LockedSeen ==
    ASSUME ThrottleInv, [ThrottleNext]_throttleVars
    PROVE  {a \in Account : Locked(a)}' = {a \in Account : now' < Memory'[a].lockedUntil}
<1>1. ThrottleInv'
  BY StepKeepsInv
<1>2. (\A a \in Account : Locked(a) <=> now < Memory[a].lockedUntil)'
  BY <1>1, LockedIsRemembered, PTL
<1>3. QED
  BY <1>2

LEMMA MemoryFades ==
    ASSUME ThrottleInv, Tick, UNCHANGED throttle, NEW a \in Account
    PROVE  Memory'[a] = IF now' - Memory[a].lastFailure > Lockout THEN NewRecord ELSE Memory[a]
<1>1. now \in Nat /\ now' = now + 1 /\ accounts' = accounts
  BY DEF Tick, throttle, ThrottleInv, ThrottleTypeOK
<1>2. CASE accounts[a] = NoRecord
  BY <1>1, <1>2 DEF Memory
<1>3. CASE accounts[a] # NoRecord
  <2>1. accounts[a] \in Record
    BY <1>3 DEF ThrottleInv, ThrottleTypeOK
  <2>2. QED
    BY <1>1, <1>3, <2>1, ThrottleAssumption DEF Memory, Old, Record
<1>4. QED
  BY <1>2, <1>3

LEMMA FailIsFailure ==
    ASSUME ThrottleInv, NEW a \in Account, Fail(a)
    PROVE  Memory' = [Memory EXCEPT ![a] = Counted(@)]
<1>0. ThrottleTypeOK
  BY DEF ThrottleInv
<1>1. Memory[a] = From(a)
  BY DEF Memory, From
<1>2. Memory'[a] = Counted(Memory[a])
  <2>1. /\ accounts'[a] = Counted(From(a)) /\ now' = now /\ now \in 0..MaxTime
        /\ Counted(From(a)) # NoRecord /\ Counted(From(a)).lastFailure = now
    BY <1>0, FailWrites, FromIsRecord, CountedIsRecord, RecordIsNotNoRecord DEF ThrottleTypeOK
  <2>2. QED
    BY <1>1, <2>1, ThrottleAssumption DEF Memory, Old
<1>3. ASSUME NEW b \in Account \ {a} PROVE Memory'[b] = Memory[b]
  BY <1>0, FailWrites DEF Memory, Old, Stale
<1>4. QED
  BY <1>2, <1>3 DEF Memory

LEMMA StepIsLockoutStep ==
    ASSUME ThrottleInv, [ThrottleNext]_throttleVars
    PROVE  [Promise!LockoutNext]_(Promise!lockoutVars)
<1> DEFINE locked == {a \in Account : Locked(a)}
<1>0. locked' = {a \in Account : now' < Memory'[a].lockedUntil}
  BY LockedSeen
<1>1. CASE UNCHANGED throttleVars
  BY <1>1 DEF throttleVars, throttle, Promise!lockoutVars, Memory, Locked, Old
<1>2. CASE Tick /\ UNCHANGED throttle
  <2>1. Memory' = [a \in Account |->
                      IF now' - Memory[a].lastFailure > Lockout THEN NewRecord ELSE Memory[a]]
    BY <1>2, MemoryFades DEF Memory
  <2>2. Promise!TimePasses
    BY <1>0, <1>2, <2>1
    DEF Promise!TimePasses, Promise!Tick, Promise!Sees, Promise!Forgotten, NewRecord, Tick
  <2>3. QED
    BY <2>2 DEF Promise!LockoutNext
<1>3. CASE ThrottleRestarts
  <2>1. Memory' = [a \in Account |-> NewRecord] /\ now' = now
    BY <1>3 DEF ThrottleRestarts, Memory
  <2>2. Promise!AllForgotten
    BY <1>0, <2>1 DEF Promise!AllForgotten, Promise!Sees, Promise!Forgotten, NewRecord
  <2>3. QED
    BY <2>2 DEF Promise!LockoutNext
<1>4. ASSUME NEW a \in Account, Fail(a) PROVE Promise!LockoutNext
  <2>1. Memory' = [Memory EXCEPT ![a] = Counted(@)] /\ now' = now
    BY <1>4, FailIsFailure DEF Fail
  <2>2. Promise!Failure(a)
    BY <1>0, <2>1 DEF Promise!Failure, Promise!Sees, Counted, Memory
  <2>3. QED
    BY <2>2 DEF Promise!LockoutNext
<1>5. ASSUME NEW a \in Account, Succeed(a) PROVE Promise!LockoutNext
  <2>1. Memory' = [Memory EXCEPT ![a] = NewRecord] /\ now' = now
    BY <1>5 DEF Succeed, RowEnded, Memory, Old, ThrottleInv, ThrottleTypeOK
  <2>2. Promise!Success(a)
    BY <1>0, <2>1 DEF Promise!Success, Promise!Sees, Promise!Forgotten, NewRecord
  <2>3. QED
    BY <2>2 DEF Promise!LockoutNext
<1>6. QED
  BY <1>1, <1>2, <1>3, <1>4, <1>5 DEF ThrottleNext

\* A map that is cleaned now and then implements remembering every account.
THEOREM ThrottleIsLockout == ThrottleSpec => ImplementsLockout
<1>1. ThrottleInit => Promise!LockoutInit
  <2> SUFFICES ASSUME ThrottleInit PROVE Promise!LockoutInit
    OBVIOUS
  <2>1. now = 0 /\ Memory = [a \in Account |-> NewRecord] /\ {a \in Account : Locked(a)} = {}
    BY DEF ThrottleInit, Memory, Locked
  <2>2. QED
    BY <2>1 DEF Promise!LockoutInit, Promise!Forgotten, NewRecord
<1>2. QED
  BY <1>1, ThrottleInvHolds, StepIsLockoutStep, PTL
  DEF ThrottleSpec, ImplementsLockout, Promise!LockoutSpec


----------------------------------------------------------------------------
(* The logins.                                                             *)

LEMMA StepUsesParts ==
    ASSUME LoginsTypeOK, [SignInNext]_signInVars
    PROVE  [LimiterNext]_limiterVars /\ [ThrottleNext]_throttleVars
<1> USE DEF limiterVars, throttleVars
<1>1. CASE UNCHANGED signInVars
  BY <1>1 DEF signInVars
<1>2. CASE TimeGoesOn
  BY <1>2 DEF TimeGoesOn, LimiterNext, ThrottleNext
<1>3. CASE Restart
  BY <1>3 DEF Restart, LimiterNext, ThrottleNext
<1>4. ASSUME NEW p \in Proc, Call(p)
      PROVE  [LimiterNext]_limiterVars /\ [ThrottleNext]_throttleVars
  <2>1. PICK c \in Caller : Allow(c)
    BY <1>4 DEF Call
  <2>2. now' = now /\ UNCHANGED throttle
    BY <1>4, <2>1 DEF Call, Allow
  <2>3. QED
    BY <2>1, <2>2 DEF LimiterNext
<1>5. ASSUME NEW p \in Proc, EmptyField(p) \/ AskThrottle(p) \/ LookupFails(p)
      PROVE  [LimiterNext]_limiterVars /\ [ThrottleNext]_throttleVars
  BY <1>5 DEF EmptyField, AskThrottle, LookupFails
<1>6. ASSUME NEW p \in Proc, WrongPassword(p) \/ RightPassword(p)
      PROVE  [LimiterNext]_limiterVars /\ [ThrottleNext]_throttleVars
  <2>1. login[p] \in Account
    BY <1>6 DEF LoginsTypeOK, WrongPassword, RightPassword
  <2>2. now' = now /\ UNCHANGED limiter /\ ThrottleNext
    BY <1>6, <2>1 DEF WrongPassword, RightPassword, Fail, Succeed, ThrottleNext
  <2>3. QED
    BY <2>2
<1>7. QED
  BY <1>1, <1>2, <1>3, <1>4, <1>5, <1>6 DEF SignInNext

LEMMA StepKeepsLogins ==
    ASSUME LoginsTypeOK, ThrottleTypeOK, [SignInNext]_signInVars
    PROVE  LoginsTypeOK'
<1> USE SignInAssumption DEF LoginsTypeOK
<1>1. CASE UNCHANGED signInVars
  BY <1>1 DEF signInVars, handlers
<1>2. CASE TimeGoesOn
  BY <1>2 DEF TimeGoesOn, handlers
<1>3. CASE Restart
  BY <1>3 DEF Restart, NoGuess
<1>4. ASSUME NEW p \in Proc, Call(p) PROVE LoginsTypeOK'
  BY <1>4 DEF Call
<1>5. ASSUME NEW p \in Proc, EmptyField(p) \/ AskThrottle(p) \/ LookupFails(p)
      PROVE  LoginsTypeOK'
  BY <1>5 DEF EmptyField, AskThrottle, LookupFails, Answer, Goto
<1>6. ASSUME NEW p \in Proc, WrongPassword(p) PROVE LoginsTypeOK'
  <2>1. login[p] \in Account /\ now \in 0..MaxTime
    BY <1>6 DEF WrongPassword, ThrottleTypeOK
  <2>2. \A f \in [0..MaxTime -> Nat] : OneMoreNow(f) \in [0..MaxTime -> Nat]
    BY <2>1 DEF OneMoreNow
  <2>3. guesses' = [guesses EXCEPT ![login[p]] = OneMoreNow(@)]
    BY <1>6 DEF WrongPassword
  <2>4. guesses' \in [Account -> [0..MaxTime -> Nat]]
    BY <2>1, <2>2, <2>3
  <2>5. QED
    BY <1>6, <2>4 DEF WrongPassword, Answer
<1>7. ASSUME NEW p \in Proc, RightPassword(p) PROVE LoginsTypeOK'
  <2>1. NoGuess \in [0..MaxTime -> Nat]
    BY DEF NoGuess
  <2>2. guesses' \in [Account -> [0..MaxTime -> Nat]]
    BY <1>7, <2>1 DEF RightPassword
  <2>3. QED
    BY <1>7, <2>2 DEF RightPassword, Answer
<1>8. QED
  BY <1>1, <1>2, <1>3, <1>4, <1>5, <1>6, <1>7 DEF SignInNext

LEMMA LoginsInitially ==
    SignInInit => LimiterInit /\ LimiterTypeOK /\ ThrottleInit /\ ThrottleInv /\ LoginsTypeOK
<1>1. LimiterInit => LimiterTypeOK
  BY ClockAssumption DEF LimiterInit, LimiterTypeOK
<1>2. SignInInit => LoginsTypeOK
  BY SignInAssumption DEF SignInInit, LoginsTypeOK, NoGuess
<1>3. QED
  BY <1>1, <1>2, InvInitially DEF SignInInit

LEMMA SignInInvHolds == SignInSpec => [](LimiterTypeOK /\ ThrottleInv /\ LoginsTypeOK)
<1> DEFINE SignInInv == LimiterTypeOK /\ ThrottleInv /\ LoginsTypeOK
<1>1. SignInInit => SignInInv
  BY LoginsInitially
<1>2. SignInInv /\ [SignInNext]_signInVars => SignInInv'
  <2> SUFFICES ASSUME SignInInv, [SignInNext]_signInVars PROVE SignInInv'
    OBVIOUS
  <2>1. [LimiterNext]_limiterVars /\ [ThrottleNext]_throttleVars
    BY StepUsesParts
  <2>2. LimiterTypeOK'
    BY <2>1, LimiterStepKeepsType
  <2>3. ThrottleInv'
    BY <2>1, StepKeepsInv
  <2>4. LoginsTypeOK'
    BY StepKeepsLogins DEF ThrottleInv
  <2>5. QED
    BY <2>2, <2>3, <2>4
<1>3. QED
  BY <1>1, <1>2, PTL DEF SignInSpec

\* The state of the logins, of the limiter and of the throttle has its type.
THEOREM SignInTypeCorrect == SignInSpec => []SignInTypeOK
<1>1. LimiterTypeOK /\ ThrottleInv /\ LoginsTypeOK => SignInTypeOK
  BY DEF ThrottleInv, SignInTypeOK
<1>2. QED
  BY <1>1, SignInInvHolds, PTL

\* Logins use the limiter as module RateLimiter says.
LEMMA LoginsImplementLimiter == SignInSpec => LimiterSpec
<1>1. LoginsTypeOK /\ [SignInNext]_signInVars => [LimiterNext]_limiterVars
  BY StepUsesParts
<1>2. QED
  BY <1>1, LoginsInitially, SignInInvHolds, PTL DEF SignInSpec, LimiterSpec

\* Logins use the throttle as module LoginThrottle says.
LEMMA LoginsImplementThrottle == SignInSpec => ThrottleSpec
<1>1. LoginsTypeOK /\ [SignInNext]_signInVars => [ThrottleNext]_throttleVars
  BY StepUsesParts
<1>2. QED
  BY <1>1, LoginsInitially, SignInInvHolds, PTL DEF SignInSpec, ThrottleSpec

\* No caller gets more logins to the throttle than the rate of its IP.
THEOREM LoginsWithinRate == SignInSpec => []WithinRate
BY LoginsImplementLimiter, RateHolds, PTL

\* However logins interleave, it takes the limit of failures in a row to lock
\* an account.
THEOREM LoginsLockByFailures == SignInSpec => []LockedByFailures
BY LoginsImplementThrottle, OnlyFailuresLock, PTL

\* Logins under way when an account locks do not end the lock when they fail.
THEOREM LoginsKeepLocks == SignInSpec => LockLasts
BY LoginsImplementThrottle, LocksLast, PTL

\* Logins see ideal buckets.
THEOREM LoginsSeeIdealBuckets == SignInSpec => ImplementsTokenBucket
BY LoginsImplementLimiter, BucketsAreIdeal, PTL

\* Logins see a throttle that forgets nothing before its time.
THEOREM LoginsSeeLockout == SignInSpec => ImplementsLockout
BY LoginsImplementThrottle, ThrottleIsLockout, PTL

----------------------------------------------------------------------------
(* The budget.                                                             *)

\* Wrong passwords, by instant, as a set.
Tries(f) == UNION {{u} \X (1..f[u]) : u \in 0..MaxTime}

LEMMA InTries ==
    ASSUME NEW f, NEW x
    PROVE  x \in Tries(f) <=> \E u \in 0..MaxTime : \E k \in 1..f[u] : x = <<u, k>>
BY DEF Tries

LEMMA TryIsTimed ==
    ASSUME NEW f \in [0..MaxTime -> Nat], NEW g \in Tries(f)
    PROVE  g[1] \in 0..MaxTime /\ f[g[1]] # 0
<1>1. PICK u \in 0..MaxTime : \E k \in 1..f[u] : g = <<u, k>>
  BY InTries
<1>2. PICK k \in 1..f[u] : g = <<u, k>>
  BY <1>1
<1> QED
  BY <1>2

LEMMA NoGuessNoTries == Tries(NoGuess) = {}
<1>1. ASSUME NEW x \in Tries(NoGuess) PROVE FALSE
  <2>1. PICK u \in 0..MaxTime : \E k \in 1..NoGuess[u] : x = <<u, k>>
    BY InTries
  <2> QED
    BY <2>1 DEF NoGuess
<1> QED
  BY <1>1

LEMMA OneMoreTry ==
    ASSUME NEW f \in [0..MaxTime -> Nat], now \in 0..MaxTime
    PROVE  Tries(OneMoreNow(f)) = Tries(f) \cup {<<now, f[now] + 1>>}
<1> DEFINE h == OneMoreNow(f)
<1>1. \A u \in 0..MaxTime : h[u] = IF u = now THEN f[now] + 1 ELSE f[u]
  BY DEF OneMoreNow
<1> HIDE DEF h
<1>2. ASSUME NEW x PROVE x \in Tries(h) <=> x \in Tries(f) \/ x = <<now, f[now] + 1>>
  <2>1. ASSUME NEW u \in 0..MaxTime, NEW k \in 1..h[u], x = <<u, k>>
        PROVE  x \in Tries(f) \/ x = <<now, f[now] + 1>>
    <3>1. k \in 1..f[u] \/ (u = now /\ k = f[now] + 1)
      BY <1>1
    <3> QED
      BY <2>1, <3>1, InTries
  <2>2. ASSUME NEW u \in 0..MaxTime, NEW k \in 1..f[u], x = <<u, k>>
        PROVE  x \in Tries(h)
    <3>1. k \in 1..h[u]
      BY <1>1
    <3> QED
      BY <2>2, <3>1, InTries
  <2>3. <<now, f[now] + 1>> \in Tries(h)
    <3>1. f[now] + 1 \in 1..h[now]
      BY <1>1
    <3> QED
      BY <3>1, InTries
  <2> QED
    BY <2>1, <2>2, <2>3, InTries
<1> QED
  BY <1>2 DEF h

\* What the budget is made of, and what its proof knows of it.
Finite == \A a \in Account : IsFiniteSet(WrongPasswords(a))

Typed ==
    /\ now \in 0..MaxTime /\ now \in Nat
    /\ accounts \in [Account -> Record \cup {NoRecord}]
    /\ LoginsTypeOK

LEMMA TypedWhen ==
    ThrottleTypeOK /\ LoginsTypeOK => Typed
BY DEF Typed, ThrottleTypeOK

LEMMA WrongPasswordsAreTries == \A a : WrongPasswords(a) = Tries(guesses[a])
BY DEF WrongPasswords, Tries

LEMMA PartsAreFinite ==
    ASSUME Finite, NEW a \in Account
    PROVE  /\ IsFiniteSet(Unanswered(a)) /\ Cardinality(Unanswered(a)) \in Nat
           /\ \A t : IsFiniteSet(Recent(a, t)) /\ Cardinality(Recent(a, t)) \in Nat
           /\ IsFiniteSet(Checking(a)) /\ Cardinality(Checking(a)) \in Nat
           /\ Cardinality(Checking(a)) <= Cardinality(Proc) /\ Cardinality(Proc) \in Nat
<1>1. Unanswered(a) \subseteq WrongPasswords(a) /\ IsFiniteSet(WrongPasswords(a))
  BY DEF Unanswered, Finite
<1>2. ASSUME NEW t PROVE IsFiniteSet(Recent(a, t)) /\ Cardinality(Recent(a, t)) \in Nat
  <2>1. Recent(a, t) \subseteq WrongPasswords(a)
    BY DEF Recent
  <2> QED
    BY <1>1, <2>1, FS_Subset, FS_CardinalityType
<1>3. Checking(a) \subseteq Proc /\ IsFiniteSet(Proc)
  BY SignInAssumption DEF Checking
<1> QED
  BY <1>1, <1>2, <1>3, FS_Subset, FS_CardinalityType

\* While an account is not locked, its record counts all the wrong passwords
\* of the last Lockout.
LEMMA UnlockedIsCounted ==
    ASSUME Typed, Finite, NEW a \in Account, WithinBudget(a), ~Locked(a)
    PROVE  Cardinality(Recent(a, now)) <= Limit - 1
<1>1. guesses[a] \in [0..MaxTime -> Nat] /\ now \in Nat
  BY DEF Typed, LoginsTypeOK
<1>2. CASE accounts[a] = NoRecord
  <2>1. ASSUME NEW g \in Recent(a, now) PROVE FALSE
    <3>1. g \in Tries(guesses[a]) /\ now - Lockout < g[1]
      BY <2>1, WrongPasswordsAreTries DEF Recent
    <3>2. g[1] \in 0..MaxTime /\ guesses[a][g[1]] # 0
      BY <1>1, <3>1, TryIsTimed
    <3> QED
      BY <1>2, <3>1, <3>2 DEF WithinBudget
  <2>2. Recent(a, now) = {}
    BY <2>1
  <2> QED
    BY <2>2, FS_EmptySet, ThrottleAssumption
<1>3. CASE accounts[a] # NoRecord
  <2>1. accounts[a] \in Record /\ accounts[a].lockedUntil <= now
    BY <1>1, <1>3 DEF Typed, Locked, Record
  <2>2. Recent(a, now) \subseteq Unanswered(a)
    <3> SUFFICES ASSUME NEW g \in Recent(a, now) PROVE g \in Unanswered(a)
      OBVIOUS
    <3>1. g \in WrongPasswords(a) /\ now - Lockout < g[1]
      BY DEF Recent
    <3>2. g[1] \in 0..MaxTime
      BY <1>1, <3>1, TryIsTimed, WrongPasswordsAreTries
    <3>3. accounts[a].lockedUntil - Lockout < g[1]
      BY <1>1, <2>1, <3>1, <3>2, ThrottleAssumption DEF Record
    <3> QED
      BY <3>1, <3>3 DEF Unanswered
  <2>3. Cardinality(Recent(a, now)) <= Cardinality(Unanswered(a))
    BY <2>2, PartsAreFinite, FS_Subset
  <2>4. Cardinality(Unanswered(a)) <= accounts[a].count /\ accounts[a].count \in 0..Limit - 1
    BY <1>3, <2>1 DEF WithinBudget, Record
  <2> QED
    BY <2>3, <2>4, PartsAreFinite, ThrottleAssumption
<1> QED
  BY <1>2, <1>3

\* Nothing is counted and no login comes to look at a password.
LEMMA FewerLookingKeepsBudget ==
    ASSUME Typed, Finite, BudgetInv, UNCHANGED <<now, accounts, guesses>>,
           \A a \in Account : Checking(a)' \subseteq Checking(a)
    PROVE  Finite' /\ BudgetInv'
<1>1. Finite' /\ GuessBudget'
  BY DEF Finite, BudgetInv, GuessBudget, Recent, WrongPasswords
<1>2. ASSUME NEW a \in Account PROVE WithinBudget(a)'
  <2>1. WithinBudget(a)
    BY DEF BudgetInv
  <2>2. Cardinality(Checking(a)') <= Cardinality(Checking(a)) /\ Cardinality(Checking(a)') \in Nat
    BY PartsAreFinite, FS_Subset, FS_CardinalityType
  <2>3. Recent(a, now)' = Recent(a, now) /\ Unanswered(a)' = Unanswered(a)
    BY DEF Recent, Unanswered, WrongPasswords
  <2>4. Cardinality(Recent(a, now)') + Cardinality(Checking(a)') <= Limit + Cardinality(Proc) - 1
    BY <2>1, <2>2, <2>3, PartsAreFinite, ThrottleAssumption DEF WithinBudget
  <2> QED
    BY <2>1, <2>3, <2>4 DEF WithinBudget
<1> QED
  BY <1>1, <1>2 DEF BudgetInv

LEMMA LookingKeepsBudget ==
    ASSUME Typed, Finite, BudgetInv, NEW p \in Proc, AskThrottle(p)
    PROVE  Finite' /\ BudgetInv'
<1>1. /\ at[p] = "called" /\ UNCHANGED <<now, accounts, guesses>>
      /\ IF MayTry(login[p]) THEN Goto(p, "checking") ELSE Answer(p)
  BY DEF AskThrottle, throttle
<1>2. CASE ~MayTry(login[p])
  <2>1. \A a \in Account : Checking(a)' \subseteq Checking(a)
    BY <1>1, <1>2 DEF Typed, LoginsTypeOK, Checking, Answer
  <2> QED
    BY <1>1, <2>1, FewerLookingKeepsBudget
<1>3. CASE MayTry(login[p])
  <2>1. Finite' /\ GuessBudget'
    BY <1>1 DEF Finite, BudgetInv, GuessBudget, Recent, WrongPasswords
  <2>2. ASSUME NEW a \in Account PROVE WithinBudget(a)'
    <3>1. WithinBudget(a)
      BY DEF BudgetInv
    <3>2. Recent(a, now)' = Recent(a, now) /\ Unanswered(a)' = Unanswered(a)
      BY <1>1 DEF Recent, Unanswered, WrongPasswords
    <3>3. /\ IsFiniteSet(Checking(a)') /\ Cardinality(Checking(a)') \in Nat
          /\ Cardinality(Checking(a)') <= Cardinality(Proc)
      <4>1. Checking(a)' \subseteq Proc
        BY DEF Checking
      <4> QED
        BY <4>1, SignInAssumption, FS_Subset, FS_CardinalityType
    <3>4. Cardinality(Recent(a, now)) + Cardinality(Checking(a)') <= Limit + Cardinality(Proc) - 1
      <4>1. CASE a = login[p]
        <5>1. Cardinality(Recent(a, now)) <= Limit - 1
          BY <1>3, <3>1, <4>1, UnlockedIsCounted DEF MayTry
        <5> QED
          BY <3>3, <5>1, PartsAreFinite, ThrottleAssumption
      <4>2. CASE a # login[p]
        <5>1. Checking(a)' = Checking(a)
          BY <1>1, <1>3, <4>2 DEF Typed, LoginsTypeOK, Checking, Goto
        <5> QED
          BY <3>1, <5>1 DEF WithinBudget
      <4> QED
        BY <4>1, <4>2
    <3> QED
      BY <1>1, <3>1, <3>2, <3>4 DEF WithinBudget
  <2> QED
    BY <2>1, <2>2 DEF BudgetInv
<1> QED
  BY <1>2, <1>3

LEMMA TimeKeepsBudget ==
    ASSUME Typed, Typed', Finite, BudgetInv, TimeGoesOn
    PROVE  Finite' /\ BudgetInv'
<1>1. now' = now + 1 /\ now \in Nat /\ UNCHANGED <<accounts, guesses, at, login>>
  BY DEF TimeGoesOn, Tick, throttle, handlers, Typed
<1>2. \A a : WrongPasswords(a)' = WrongPasswords(a) /\ Checking(a)' = Checking(a)
  BY <1>1 DEF WrongPasswords, Checking
<1>3. Finite' /\ GuessBudget'
  BY <1>2 DEF Finite, BudgetInv, GuessBudget, Recent
<1>4. ASSUME NEW a \in Account PROVE WithinBudget(a)'
  <2>1. WithinBudget(a) /\ guesses[a] \in [0..MaxTime -> Nat]
    BY DEF BudgetInv, Typed, LoginsTypeOK
  <2>2. ASSUME NEW g \in WrongPasswords(a)
        PROVE  g[1] \in Nat /\ g[1] <= now
    <3>1. g[1] \in 0..MaxTime /\ guesses[a][g[1]] # 0
      BY <2>1, TryIsTimed, WrongPasswordsAreTries
    <3> QED
      BY <1>1, <2>1, <3>1 DEF WithinBudget
  <2>3. Recent(a, now)' \subseteq Recent(a, now)
    BY <1>1, <1>2, <2>2, ThrottleAssumption DEF Recent
  <2>4. Unanswered(a)' \subseteq Unanswered(a)
    BY <1>1, <1>2, <2>2, ThrottleAssumption DEF Unanswered
  <2>5. /\ Cardinality(Recent(a, now)') <= Cardinality(Recent(a, now))
        /\ Cardinality(Recent(a, now)') \in Nat
        /\ Cardinality(Unanswered(a)') <= Cardinality(Unanswered(a))
        /\ Cardinality(Unanswered(a)') \in Nat
    BY <2>3, <2>4, PartsAreFinite, FS_Subset, FS_CardinalityType
  <2>6. /\ \A u \in 0..MaxTime : now' < u => guesses'[a][u] = 0
        /\ accounts'[a] = NoRecord => \A u \in 0..MaxTime : now' - Lockout < u => guesses'[a][u] = 0
    BY <1>1, <2>1, ThrottleAssumption DEF WithinBudget
  <2>7. accounts'[a] # NoRecord =>
            /\ \A u \in 0..MaxTime : accounts'[a].lastFailure < u => guesses'[a][u] = 0
            /\ Cardinality(Unanswered(a)') <= accounts'[a].count
    <3> SUFFICES ASSUME accounts[a] # NoRecord
                 PROVE  /\ \A u \in 0..MaxTime : accounts[a].lastFailure < u => guesses[a][u] = 0
                        /\ Cardinality(Unanswered(a)') <= accounts[a].count
      BY <1>1
    <3>1. accounts[a].count \in Nat
      BY ThrottleAssumption DEF Typed, Record
    <3>2. Cardinality(Unanswered(a)) <= accounts[a].count
      BY <2>1 DEF WithinBudget
    <3> QED
      BY <2>1, <2>5, <3>1, <3>2, PartsAreFinite DEF WithinBudget
  <2>8. Cardinality(Recent(a, now)') + Cardinality(Checking(a)') <= Limit + Cardinality(Proc) - 1
    BY <1>2, <2>1, <2>5, PartsAreFinite, ThrottleAssumption DEF WithinBudget
  <2> QED
    BY <2>6, <2>7, <2>8 DEF WithinBudget
<1> QED
  BY <1>3, <1>4 DEF BudgetInv

\* The record that a failure goes on from counts what it has to.
LEMMA FromIsCounted ==
    ASSUME ThrottleInv, Typed, Finite, NEW a \in Account, WithinBudget(a),
           NEW U, U = {g \in WrongPasswords(a) :
                         now - Lockout < g[1] /\ From(a).lockedUntil - Lockout < g[1]}
    PROVE  IsFiniteSet(U) /\ Cardinality(U) \in Nat /\ Cardinality(U) <= From(a).count
<1>1. guesses[a] \in [0..MaxTime -> Nat] /\ now \in Nat /\ From(a) \in Record
  BY FromIsRecord DEF Typed, LoginsTypeOK, ThrottleInv
<1>2. CASE accounts[a] = NoRecord \/ Old(accounts[a])
  <2>1. From(a) = NewRecord
    BY <1>2 DEF From
  <2>2. \A u \in 0..MaxTime : now - Lockout < u => guesses[a][u] = 0
    <3>1. CASE accounts[a] = NoRecord
      BY <3>1 DEF WithinBudget
    <3>2. CASE accounts[a] # NoRecord
      <4>1. accounts[a] \in Record /\ now - accounts[a].lastFailure > Lockout
        BY <1>2, <3>2 DEF Typed, Old
      <4>2. \A u \in 0..MaxTime : accounts[a].lastFailure < u => guesses[a][u] = 0
        BY <3>2 DEF WithinBudget
      <4> QED
        BY <1>1, <4>1, <4>2, ThrottleAssumption DEF Record
    <3> QED
      BY <3>1, <3>2
  <2>3. ASSUME NEW g \in U PROVE FALSE
    <3>1. g \in Tries(guesses[a]) /\ now - Lockout < g[1]
      BY <2>3, WrongPasswordsAreTries
    <3> QED
      BY <1>1, <2>2, <3>1, TryIsTimed
  <2>4. U = {}
    BY <2>3
  <2>5. IsFiniteSet(U) /\ Cardinality(U) = 0
    BY <2>4, FS_EmptySet
  <2>6. From(a).count = 0
    BY <2>1 DEF NewRecord
  <2> QED
    BY <2>5, <2>6
<1>3. CASE accounts[a] # NoRecord /\ ~Old(accounts[a])
  <2>1. From(a) = accounts[a]
    BY <1>3 DEF From
  <2>2. U = Unanswered(a)
    BY <2>1 DEF Unanswered
  <2> QED
    BY <1>3, <2>1, <2>2, PartsAreFinite DEF WithinBudget
<1> QED
  BY <1>2, <1>3

LEMMA OneMoreFits ==
    ASSUME NEW S, IsFiniteSet(S), NEW x, NEW T, T \subseteq S \cup {x}
    PROVE  /\ IsFiniteSet(T) /\ Cardinality(T) \in Nat
           /\ Cardinality(T) <= Cardinality(S) + 1
<1>1. /\ IsFiniteSet(S \cup {x})
      /\ Cardinality(S \cup {x}) = IF x \in S THEN Cardinality(S) ELSE Cardinality(S) + 1
  BY FS_AddElement
<1>2. Cardinality(S) \in Nat
  BY FS_CardinalityType
<1>3. IsFiniteSet(T) /\ Cardinality(T) <= Cardinality(S \cup {x})
  BY <1>1, FS_Subset
<1>4. Cardinality(T) \in Nat
  BY <1>3, FS_CardinalityType
<1> QED
  BY <1>1, <1>2, <1>3, <1>4

\* What a wrong password changes: one more for its account, one login less
\* that looks at a password.
LEMMA WrongPasswordWrites ==
    ASSUME ThrottleInv, Typed, NEW p \in Proc, WrongPassword(p), NEW a, a = login[p]
    PROVE  /\ a \in Account /\ p \in Checking(a)
           /\ now' = now
           /\ guesses' = [guesses EXCEPT ![a] = OneMoreNow(guesses[a])]
           /\ WrongPasswords(a)' = WrongPasswords(a) \cup {<<now, guesses[a][now] + 1>>}
           /\ Checking(a)' = Checking(a) \ {p}
           /\ \A b \in Account \ {a} :
                 Checking(b)' = Checking(b) /\ WrongPasswords(b)' = WrongPasswords(b)
<1>1. /\ at[p] = "checking" /\ a \in Account
      /\ guesses' = [guesses EXCEPT ![a] = OneMoreNow(guesses[a])]
      /\ now' = now /\ Answer(p)
  BY DEF WrongPassword, Fail, Typed, LoginsTypeOK
<1>2. /\ \A b \in Account \ {a} : guesses'[b] = guesses[b]
      /\ guesses'[a] = OneMoreNow(guesses[a])
      /\ guesses[a] \in [0..MaxTime -> Nat]
  BY <1>1 DEF Typed, LoginsTypeOK
<1>3. Tries(OneMoreNow(guesses[a])) = Tries(guesses[a]) \cup {<<now, guesses[a][now] + 1>>}
  BY <1>2, OneMoreTry DEF Typed
<1>4. \A b : WrongPasswords(b)' = Tries(guesses'[b])
  BY DEF WrongPasswords, Tries
<1>5. \A b \in Account : Checking(b)' = Checking(b) \ {p}
  BY <1>1, SignInAssumption DEF Checking, Answer, Typed, LoginsTypeOK
<1>6. \A b \in Account \ {a} : p \notin Checking(b)
  BY DEF Checking
<1>7. p \in Checking(a)
  BY <1>1 DEF Checking
<1>8. ASSUME NEW b \in Account \ {a}
      PROVE  Checking(b)' = Checking(b) /\ WrongPasswords(b)' = WrongPasswords(b)
  BY <1>2, <1>4, <1>5, <1>6, WrongPasswordsAreTries
<1>9. WrongPasswords(a)' = WrongPasswords(a) \cup {<<now, guesses[a][now] + 1>>}
  BY <1>2, <1>3, <1>4, WrongPasswordsAreTries
<1> QED
  BY <1>1, <1>5, <1>7, <1>8, <1>9

\* The other accounts: a failure may throw their record away, when it has
\* nothing left to count.
LEMMA FailureLeavesOthers ==
    ASSUME ThrottleInv, Typed, Finite, BudgetInv, NEW p \in Proc, WrongPassword(p),
           NEW b \in Account \ {login[p]}
    PROVE  WithinBudget(b)'
<1>1. /\ Fail(login[p]) /\ login[p] \in Account /\ now' = now /\ now \in Nat
      /\ Checking(b)' = Checking(b) /\ WrongPasswords(b)' = WrongPasswords(b)
      /\ guesses'[b] = guesses[b]
  <2>1. Fail(login[p])
    BY DEF WrongPassword
  <2> QED
    BY <2>1, WrongPasswordWrites DEF Typed, LoginsTypeOK
<1>2. WithinBudget(b)
  BY DEF BudgetInv
<1>3. Recent(b, now)' = Recent(b, now)
  BY <1>1 DEF Recent
<1>4. CASE accounts'[b] = accounts[b]
  <2>1. Unanswered(b)' = Unanswered(b)
    BY <1>1, <1>4 DEF Unanswered
  <2> QED
    BY <1>1, <1>2, <1>3, <1>4, <2>1 DEF WithinBudget
<1>5. CASE accounts[b] # NoRecord /\ Stale(accounts[b]) /\ accounts'[b] = NoRecord
  <2>1. accounts[b] \in Record /\ now - accounts[b].lastFailure > Lockout
    BY <1>5 DEF Typed, Stale, Old
  <2>2. \A u \in 0..MaxTime : accounts[b].lastFailure < u => guesses[b][u] = 0
    BY <1>2, <1>5 DEF WithinBudget
  <2>3. \A u \in 0..MaxTime : now - Lockout < u => guesses[b][u] = 0
    BY <1>1, <2>1, <2>2, ThrottleAssumption DEF Record
  <2> QED
    BY <1>1, <1>2, <1>3, <1>5, <2>3 DEF WithinBudget
<1> QED
  BY <1>1, <1>4, <1>5, FailWrites DEF ThrottleInv

\* The account that failed: its record counts one more, or answers to all of
\* them with a lock.
LEMMA FailureIsCounted ==
    ASSUME ThrottleInv, Typed, Finite, BudgetInv, NEW p \in Proc, WrongPassword(p),
           NEW a \in Account, a = login[p]
    PROVE  /\ IsFiniteSet(WrongPasswords(a)')
           /\ \A u \in 0..MaxTime : now < u => guesses'[a][u] = 0
           /\ accounts'[a] # NoRecord /\ accounts'[a].lastFailure = now
           /\ Cardinality(Unanswered(a)') <= accounts'[a].count
<1> DEFINE new == <<now, guesses[a][now] + 1>>
           r == From(a)
<1>1. /\ Fail(a) /\ now' = now /\ now \in Nat /\ now \in 0..MaxTime
      /\ WrongPasswords(a)' = WrongPasswords(a) \cup {new}
      /\ guesses[a] \in [0..MaxTime -> Nat]
      /\ guesses'[a] = OneMoreNow(guesses[a])
      /\ IsFiniteSet(WrongPasswords(a))
  <2>1. Fail(a)
    BY DEF WrongPassword
  <2> QED
    BY <2>1, WrongPasswordWrites DEF Typed, LoginsTypeOK, Finite
<1>2. WithinBudget(a)
  BY DEF BudgetInv
<1>3. r \in Record /\ accounts'[a] = Counted(r) /\ Counted(r) \in Record /\ Counted(r).lastFailure = now
  BY <1>1, FromIsRecord, FailWrites, CountedIsRecord DEF ThrottleInv
<1>4. \A u \in 0..MaxTime : now < u => guesses'[a][u] = 0
  BY <1>1, <1>2 DEF WithinBudget, OneMoreNow
<1>5. ASSUME NEW g \in WrongPasswords(a) \cup {new} PROVE g[1] \in Nat /\ g[1] <= now
  <2>1. CASE g \in WrongPasswords(a)
    <3>1. g[1] \in 0..MaxTime /\ guesses[a][g[1]] # 0
      BY <1>1, <2>1, TryIsTimed, WrongPasswordsAreTries
    <3> QED
      BY <1>1, <1>2, <3>1 DEF WithinBudget
  <2>2. CASE g = new
    BY <1>1, <2>2
  <2> QED
    BY <2>1, <2>2
<1>6. Unanswered(a)' = {g \in WrongPasswords(a) \cup {new} :
                          now - Lockout < g[1] /\ Counted(r).lockedUntil - Lockout < g[1]}
  BY <1>1, <1>3 DEF Unanswered
<1>7. Cardinality(Unanswered(a)') <= Counted(r).count
  <2>1. CASE r.count + 1 >= Limit
    <3>1. Counted(r).count = 0 /\ Counted(r).lockedUntil = now + Lockout
      BY <2>1 DEF Counted
    <3>2. \A g \in WrongPasswords(a) \cup {new} : ~(Counted(r).lockedUntil - Lockout < g[1])
      BY <1>1, <1>5, <3>1, ThrottleAssumption
    <3>3. Unanswered(a)' = {}
      BY <1>6, <3>2
    <3> QED
      BY <3>1, <3>3, FS_EmptySet
  <2>2. CASE ~(r.count + 1 >= Limit)
    <3>1. Counted(r) = [r EXCEPT !.count = @ + 1, !.lastFailure = now]
      BY <2>2 DEF Counted
    <3>2. Counted(r).count = r.count + 1 /\ Counted(r).lockedUntil = r.lockedUntil /\ r.count \in Nat
      BY <1>3, <3>1, ThrottleAssumption DEF Record
    <3> DEFINE U == {g \in WrongPasswords(a) :
                       now - Lockout < g[1] /\ From(a).lockedUntil - Lockout < g[1]}
    <3>3. IsFiniteSet(U) /\ Cardinality(U) \in Nat /\ Cardinality(U) <= r.count
      BY <1>2, FromIsCounted
    <3>4. Unanswered(a)' \subseteq U \cup {new}
      BY <1>6, <3>2
    <3> HIDE DEF U, r, new
    <3>5. Cardinality(Unanswered(a)') \in Nat /\ Cardinality(Unanswered(a)') <= Cardinality(U) + 1
      BY <3>3, <3>4, OneMoreFits
    <3> QED
      BY <3>2, <3>3, <3>5
  <2> QED
    BY <2>1, <2>2
<1>8. IsFiniteSet(WrongPasswords(a)')
  <2>1. WrongPasswords(a)' \subseteq WrongPasswords(a) \cup {new}
    BY <1>1
  <2> HIDE DEF new
  <2> QED
    BY <1>1, <2>1, OneMoreFits
<1>9. Counted(r) # NoRecord
  BY <1>3, RecordIsNotNoRecord
<1> QED
  BY <1>3, <1>4, <1>7, <1>8, <1>9

\* The login that failed leaves its place in the budget to its wrong password.
LEMMA FailureFitsTheBudget ==
    ASSUME ThrottleInv, Typed, Finite, BudgetInv, NEW p \in Proc, WrongPassword(p),
           NEW a \in Account, a = login[p]
    PROVE  /\ Cardinality(Recent(a, now)') + Cardinality(Checking(a)') <= Limit + Cardinality(Proc) - 1
           /\ \A t \in 0..MaxTime : Cardinality(Recent(a, t)') <= Limit + Cardinality(Proc) - 1
<1> DEFINE new == <<now, guesses[a][now] + 1>>
           budget == Limit + Cardinality(Proc) - 1
<1>1. /\ now' = now /\ now \in Nat
      /\ WrongPasswords(a)' = WrongPasswords(a) \cup {new}
      /\ Checking(a)' = Checking(a) \ {p} /\ p \in Checking(a)
      /\ guesses[a] \in [0..MaxTime -> Nat]
  BY WrongPasswordWrites DEF Typed, LoginsTypeOK
<1>2. WithinBudget(a) /\ \A t \in 0..MaxTime : Cardinality(Recent(a, t)) <= budget
  BY DEF BudgetInv, GuessBudget
<1>3. /\ IsFiniteSet(Checking(a)) /\ Cardinality(Checking(a)) \in Nat
      /\ \A t : IsFiniteSet(Recent(a, t)) /\ Cardinality(Recent(a, t)) \in Nat
      /\ budget \in Nat
  BY PartsAreFinite, ThrottleAssumption
<1>4. /\ Cardinality(Checking(a)') = Cardinality(Checking(a)) - 1
      /\ IsFiniteSet(Checking(a)') /\ Cardinality(Checking(a)') \in Nat
  BY <1>1, <1>3, FS_RemoveElement, FS_CardinalityType
<1>5. \A g \in WrongPasswords(a) : g[1] \in Nat /\ g[1] <= now
  <2> SUFFICES ASSUME NEW g \in WrongPasswords(a) PROVE g[1] \in Nat /\ g[1] <= now
    OBVIOUS
  <2>1. g[1] \in 0..MaxTime /\ guesses[a][g[1]] # 0
    BY <1>1, TryIsTimed, WrongPasswordsAreTries
  <2> QED
    BY <1>1, <1>2, <2>1 DEF WithinBudget
<1>6. \A t : Recent(a, t)' = {g \in WrongPasswords(a) \cup {new} : t - Lockout < g[1] /\ g[1] <= t}
  BY <1>1 DEF Recent
<1>7. Recent(a, now)' \subseteq Recent(a, now) \cup {new}
  BY <1>1, <1>6 DEF Recent
<1>8. new[1] = now
  OBVIOUS
<1> HIDE DEF new
<1>9. /\ IsFiniteSet(Recent(a, now)') /\ Cardinality(Recent(a, now)') \in Nat
      /\ Cardinality(Recent(a, now)') <= Cardinality(Recent(a, now)) + 1
  BY <1>3, <1>7, OneMoreFits
<1>10. Cardinality(Recent(a, now)) + Cardinality(Checking(a)) <= budget
  BY <1>2 DEF WithinBudget
<1>11. Cardinality(Recent(a, now)') + Cardinality(Checking(a)') <= budget
  BY <1>3, <1>4, <1>9, <1>10
<1>12. ASSUME NEW t \in 0..MaxTime PROVE Cardinality(Recent(a, t)') <= budget
  <2>1. CASE t < now
    <3>1. Recent(a, t)' = Recent(a, t)
      BY <1>1, <1>6, <1>8, <2>1 DEF Recent
    <3> QED
      BY <1>2, <3>1
  <2>2. CASE ~(t < now)
    <3>1. Recent(a, t)' \subseteq Recent(a, now)'
      <4> SUFFICES ASSUME NEW g \in Recent(a, t)' PROVE g \in Recent(a, now)'
        OBVIOUS
      <4>1. g \in WrongPasswords(a) \cup {new} /\ t - Lockout < g[1]
        BY <1>6
      <4>2. g[1] \in Nat /\ g[1] <= now
        BY <1>1, <1>5, <1>8, <4>1
      <4>3. now - Lockout < g[1]
        BY <1>1, <2>2, <4>1, <4>2, ThrottleAssumption
      <4>4. Recent(a, now)' = {h \in WrongPasswords(a) \cup {new} : now - Lockout < h[1] /\ h[1] <= now}
        BY <1>1, <1>6
      <4> QED
        BY <4>1, <4>2, <4>3, <4>4
    <3>2. Cardinality(Recent(a, t)') <= Cardinality(Recent(a, now)') /\ Cardinality(Recent(a, t)') \in Nat
      BY <1>9, <3>1, FS_Subset, FS_CardinalityType
    <3> QED
      BY <1>3, <1>4, <1>9, <1>11, <3>2
  <2> QED
    BY <2>1, <2>2
<1> QED
  BY <1>11, <1>12

LEMMA FailureKeepsBudget ==
    ASSUME ThrottleInv, Typed, Finite, BudgetInv, NEW p \in Proc, WrongPassword(p)
    PROVE  Finite' /\ BudgetInv'
<1> SUFFICES ASSUME NEW a, a = login[p] PROVE Finite' /\ BudgetInv'
  OBVIOUS
<1>1. /\ a \in Account /\ now' = now
      /\ \A b \in Account \ {a} : WrongPasswords(b)' = WrongPasswords(b)
  BY WrongPasswordWrites
<1>2. Finite'
  BY <1>1, FailureIsCounted DEF Finite
<1>3. GuessBudget'
  <2> SUFFICES ASSUME NEW b \in Account, NEW t \in 0..MaxTime
               PROVE  Cardinality(Recent(b, t)') <= Limit + Cardinality(Proc) - 1
    BY DEF GuessBudget
  <2>1. CASE b = a
    BY <2>1, FailureFitsTheBudget
  <2>2. CASE b # a
    <3>1. Recent(b, t)' = Recent(b, t)
      BY <1>1, <2>2 DEF Recent
    <3> QED
      BY <3>1 DEF BudgetInv, GuessBudget
  <2> QED
    BY <2>1, <2>2
<1>4. WithinBudget(a)'
  BY <1>1, FailureIsCounted, FailureFitsTheBudget DEF WithinBudget
<1>5. \A b \in Account : WithinBudget(b)'
  BY <1>4, FailureLeavesOthers
<1> QED
  BY <1>2, <1>3, <1>5 DEF BudgetInv

\* A right password forgets the account, and with it its wrong passwords.
LEMMA SuccessKeepsBudget ==
    ASSUME Typed, Finite, BudgetInv, NEW p \in Proc, RightPassword(p)
    PROVE  Finite' /\ BudgetInv'
<1> SUFFICES ASSUME NEW a, a = login[p] PROVE Finite' /\ BudgetInv'
  OBVIOUS
<1>1. /\ a \in Account /\ now' = now /\ Answer(p) /\ at[p] = "checking"
      /\ guesses'[a] = NoGuess /\ accounts'[a] = NoRecord
      /\ \A b \in Account \ {a} : guesses'[b] = guesses[b] /\ accounts'[b] = accounts[b]
  BY DEF RightPassword, Succeed, RowEnded, Typed, LoginsTypeOK
<1>2. \A b \in Account : Checking(b)' \subseteq Checking(b)
  BY <1>1 DEF Checking, Answer, Typed, LoginsTypeOK
<1>3. WrongPasswords(a)' = {}
  <2>1. WrongPasswords(a)' = Tries(guesses'[a])
    BY DEF WrongPasswords, Tries
  <2> QED
    BY <1>1, <2>1, NoGuessNoTries
<1>4. \A b \in Account \ {a} : WrongPasswords(b)' = WrongPasswords(b)
  BY <1>1 DEF WrongPasswords
<1>5. Finite'
  BY <1>3, <1>4, FS_EmptySet DEF Finite
<1>6. \A t : Recent(a, t)' = {}
  BY <1>3 DEF Recent
<1>7. \A b \in Account \ {a} : \A t : Recent(b, t)' = Recent(b, t)
  BY <1>4 DEF Recent
<1>8. Limit + Cardinality(Proc) - 1 \in Nat /\ Cardinality({}) = 0
  BY PartsAreFinite, <1>1, ThrottleAssumption, FS_EmptySet
<1>9. GuessBudget'
  <2> SUFFICES ASSUME NEW b \in Account, NEW t \in 0..MaxTime
               PROVE  Cardinality(Recent(b, t)') <= Limit + Cardinality(Proc) - 1
    BY DEF GuessBudget
  <2>1. CASE b = a
    BY <1>6, <1>8, <2>1
  <2>2. CASE b # a
    BY <1>7, <2>2 DEF BudgetInv, GuessBudget
  <2> QED
    BY <2>1, <2>2
<1>10. ASSUME NEW b \in Account
       PROVE  Cardinality(Checking(b)') \in Nat /\ Cardinality(Checking(b)') <= Cardinality(Checking(b))
  BY <1>2, PartsAreFinite, FS_Subset, FS_CardinalityType
<1>11. WithinBudget(a)'
  <2>1. \A u \in 0..MaxTime : guesses'[a][u] = 0
    BY <1>1 DEF NoGuess
  <2>2. Cardinality(Recent(a, now)') + Cardinality(Checking(a)') <= Limit + Cardinality(Proc) - 1
    <3>1. Recent(a, now)' = {}
      BY <1>3 DEF Recent
    <3> QED
      BY <1>1, <1>8, <1>10, <3>1, PartsAreFinite, ThrottleAssumption
  <2> QED
    BY <1>1, <2>1, <2>2 DEF WithinBudget
<1>12. ASSUME NEW b \in Account \ {a} PROVE WithinBudget(b)'
  <2>1. WithinBudget(b) /\ guesses'[b] = guesses[b] /\ accounts'[b] = accounts[b]
    BY <1>1 DEF BudgetInv
  <2>2. Recent(b, now)' = Recent(b, now) /\ Unanswered(b)' = Unanswered(b)
    BY <1>1, <1>4, <2>1 DEF Recent, Unanswered
  <2>3. Cardinality(Recent(b, now)') + Cardinality(Checking(b)') <= Limit + Cardinality(Proc) - 1
    BY <1>8, <1>10, <2>1, <2>2, PartsAreFinite DEF WithinBudget
  <2> QED
    BY <1>1, <2>1, <2>2, <2>3 DEF WithinBudget
<1> QED
  BY <1>5, <1>9, <1>11, <1>12 DEF BudgetInv

\* A server that starts has seen no password.
Fresh ==
    /\ guesses = [a \in Account |-> NoGuess]
    /\ accounts = [a \in Account |-> NoRecord]
    /\ at = [p \in Proc |-> "idle"]

LEMMA FreshIsWithinBudget == Fresh => Finite /\ BudgetInv
<1> SUFFICES ASSUME Fresh PROVE Finite /\ BudgetInv
  OBVIOUS
<1>1. \A a \in Account : WrongPasswords(a) = {}
  BY NoGuessNoTries, WrongPasswordsAreTries DEF Fresh
<1>2. \A a \in Account : Checking(a) = {} /\ \A t : Recent(a, t) = {}
  BY <1>1 DEF Checking, Recent, Fresh
<1>3. Cardinality({}) = 0 /\ IsFiniteSet({}) /\ 0 <= Limit + Cardinality(Proc) - 1
  <2>1. Cardinality(Proc) \in Nat
    BY SignInAssumption, FS_CardinalityType
  <2> QED
    BY <2>1, ThrottleAssumption, FS_EmptySet
<1>4. Finite /\ GuessBudget
  BY <1>1, <1>2, <1>3 DEF Finite, GuessBudget
<1>5. ASSUME NEW a \in Account PROVE WithinBudget(a)
  <2>1. accounts[a] = NoRecord /\ \A u \in 0..MaxTime : guesses[a][u] = 0
    BY DEF Fresh, NoGuess
  <2>2. Cardinality(Recent(a, now)) + Cardinality(Checking(a)) <= Limit + Cardinality(Proc) - 1
    BY <1>2, <1>3
  <2> QED
    BY <2>1, <2>2 DEF WithinBudget
<1> QED
  BY <1>4, <1>5 DEF BudgetInv

LEMMA StepKeepsBudget ==
    ASSUME ThrottleInv, LoginsTypeOK, ThrottleTypeOK', LoginsTypeOK', Finite, BudgetInv,
           [SignInNext]_signInVars
    PROVE  (Finite' /\ BudgetInv') \/ Fresh'
<1>1. Typed /\ Typed'
  BY TypedWhen DEF ThrottleInv, Typed, ThrottleTypeOK
<1>2. CASE UNCHANGED signInVars
  BY <1>1, <1>2, FewerLookingKeepsBudget DEF signInVars, throttle, handlers, Checking
<1>3. CASE TimeGoesOn
  BY <1>1, <1>3, TimeKeepsBudget
<1>4. CASE Restart
  BY <1>4 DEF Restart, ThrottleRestarts, Fresh
<1>5. ASSUME NEW p \in Proc, Call(p) \/ EmptyField(p) \/ LookupFails(p)
      PROVE  Finite' /\ BudgetInv'
  <2>1. UNCHANGED <<now, accounts, guesses>>
    BY <1>5 DEF Call, Allow, EmptyField, LookupFails, throttle
  <2>2. \A a \in Account : Checking(a)' \subseteq Checking(a)
    BY <1>1, <1>5 DEF Call, EmptyField, LookupFails, Answer, Checking, Typed, LoginsTypeOK
  <2> QED
    BY <1>1, <2>1, <2>2, FewerLookingKeepsBudget
<1>6. ASSUME NEW p \in Proc, AskThrottle(p) PROVE Finite' /\ BudgetInv'
  BY <1>1, <1>6, LookingKeepsBudget
<1>7. ASSUME NEW p \in Proc, WrongPassword(p) PROVE Finite' /\ BudgetInv'
  BY <1>1, <1>7, FailureKeepsBudget
<1>8. ASSUME NEW p \in Proc, RightPassword(p) PROVE Finite' /\ BudgetInv'
  BY <1>1, <1>8, SuccessKeepsBudget
<1> QED
  BY <1>2, <1>3, <1>4, <1>5, <1>6, <1>7, <1>8 DEF SignInNext

\* The budget and what keeps it.
THEOREM BudgetInvariance == SignInSpec => []BudgetInv
<1>1. SignInInit => Finite /\ BudgetInv
  BY FreshIsWithinBudget DEF SignInInit, ThrottleInit, Fresh
<1>2. ThrottleInv => ThrottleTypeOK
  BY DEF ThrottleInv
<1>3. ThrottleInv /\ LoginsTypeOK /\ ThrottleTypeOK' /\ LoginsTypeOK' /\ Finite /\ BudgetInv
        /\ [SignInNext]_signInVars => (Finite' /\ BudgetInv') \/ Fresh'
  BY StepKeepsBudget
<1>4. Fresh => Finite /\ BudgetInv
  BY FreshIsWithinBudget
<1> QED
  BY <1>1, <1>2, <1>3, <1>4, SignInInvHolds, PTL DEF SignInSpec

\* No Lockout sees more wrong passwords of an account than the limit and one
\* for each other login that the server has under way: throttle.go's check and
\* its count are two steps of a login, and the logins between them are all that
\* the budget gives away.
THEOREM GuessesWithinBudget == SignInSpec => []GuessBudget
<1>1. BudgetInv => GuessBudget
  BY DEF BudgetInv
<1> QED
  BY <1>1, BudgetInvariance, PTL
=============================================================================
