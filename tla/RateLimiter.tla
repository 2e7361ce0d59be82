---------------------------- MODULE RateLimiter ----------------------------
(***************************************************************************)
(* internal/server/ratelimit.go: one token bucket per caller, made when    *)
(* the caller first calls, brought up to date when it calls again, and     *)
(* thrown away by the first call of a new caller once it was idle for so   *)
(* long that it is full again.                                             *)
(*                                                                         *)
(* A limiter runs under its mutex, so each Allow is one action.  Tokens    *)
(* are counted in a unit in which Rate and Cost are whole.                 *)
(***************************************************************************)
EXTENDS Clock

CONSTANTS
    Caller,             \* client IPs
    Rate,               \* ratePerSecond: gained in a unit of time
    Burst,              \* what a full bucket holds
    Cost,               \* one token
    IdleUntilFull,      \* burst/rate and a minute
    NoBucket

ASSUME LimiterAssumption ==
    /\ Rate \in Nat /\ Burst \in Nat /\ Cost \in Nat \ {0}
    /\ IdleUntilFull \in Nat
    /\ IdleUntilFull * Rate >= Burst
    /\ NoBucket \notin [tokens: 0..Burst, lastSeen: 0..MaxTime]

VARIABLES
    buckets,            \* the bucket of each caller, NoBucket when there is none
    allowed,            \* what Allow last returned
    served,             \* calls of each caller served since the process started
    started             \* when the process started

limiter == <<buckets, allowed, served, started>>

limiterVars == <<now, limiter>>

Bucket == [tokens: 0..Burst, lastSeen: 0..MaxTime]

Lesser(a, b) == IF a < b THEN a ELSE b

FreshLimiter ==
    /\ buckets' = [c \in Caller |-> NoBucket]
    /\ served' = [c \in Caller |-> 0]
    /\ started' = now

LimiterInit ==
    /\ now = 0
    /\ buckets = [c \in Caller |-> NoBucket]
    /\ allowed = TRUE
    /\ served = [c \in Caller |-> 0]
    /\ started = 0

\* A bug kept for comparison: a bucket is dropped before it is full again.
IdleTooShort(b) == now - b.lastSeen > IdleUntilFull - 2

Idle(b) == now - b.lastSeen > IdleUntilFull

\* evictStaleLocked, run by the first call of a new caller.
Kept ==
    [c \in Caller |->
        IF buckets[c] # NoBucket /\ Idle(buckets[c]) THEN NoBucket ELSE buckets[c]]

Tokens(b) == Lesser(Burst, b.tokens + (now - b.lastSeen) * Rate)

\* What Allow finds for a caller before it takes its token.
Found(c) == IF buckets[c] = NoBucket THEN Burst ELSE Tokens(buckets[c])

Allow(c) ==
    LET tokens == Found(c)
        enough == tokens >= Cost
    IN
    /\ allowed' = enough
    /\ buckets' = [(IF buckets[c] = NoBucket THEN Kept ELSE buckets) EXCEPT
                      ![c] = [tokens |-> IF enough THEN tokens - Cost ELSE tokens,
                              lastSeen |-> now]]
    /\ served' = IF enough THEN [served EXCEPT ![c] = @ + 1] ELSE served
    /\ UNCHANGED <<now, started>>

\* The process starts again: buckets live in its memory.
LimiterRestarts == FreshLimiter /\ UNCHANGED <<now, allowed>>

LimiterNext ==
    \/ Tick /\ UNCHANGED limiter
    \/ LimiterRestarts
    \/ \E c \in Caller : Allow(c)

LimiterSpec == LimiterInit /\ [][LimiterNext]_limiterVars

----------------------------------------------------------------------------
LimiterTypeOK ==
    /\ now \in 0..MaxTime
    /\ buckets \in [Caller -> Bucket \cup {NoBucket}]
    /\ allowed \in BOOLEAN
    /\ served \in [Caller -> Nat]
    /\ started \in 0..now
    /\ \A c \in Caller : buckets[c] # NoBucket => buckets[c].lastSeen \in started..now

\* What a caller was served and what its bucket still gives come out of one
\* burst and the time since the process started.
Funded ==
    \A c \in Caller : Cost * served[c] + Found(c) <= Burst + Rate * (now - started)

\* No caller is served more than a burst and what the time since the start
\* refills, however buckets are thrown away and made again.
WithinRate ==
    \A c \in Caller : Cost * served[c] <= Burst + Rate * (now - started)

Ideal == INSTANCE TokenBucket WITH level <- [c \in Caller |-> Found(c)]

\* Filling on use and throwing idle buckets away cannot be told from buckets
\* that fill by themselves and are kept for good.
ImplementsTokenBucket == Ideal!BucketSpec
=============================================================================
