---------------------------- MODULE TokenBucket ----------------------------
(***************************************************************************)
(* What a rate limiter promises: each caller has a bucket of its own that  *)
(* fills with time up to Burst and never forgets; a call is served when    *)
(* the bucket holds its Cost.  Module RateLimiter implements it with       *)
(* buckets it fills on use and throws away when they are idle.             *)
(***************************************************************************)
EXTENDS Clock

CONSTANTS
    Caller,             \* IP addresses
    Rate,               \* what a bucket gains in a unit of time
    Burst,              \* what a full bucket holds
    Cost                \* what a call takes

VARIABLES
    level,              \* what each bucket holds
    allowed             \* the last answer

bucketVars == <<now, level, allowed>>

Lesser(a, b) == IF a < b THEN a ELSE b

BucketInit ==
    /\ now = 0
    /\ level = [c \in Caller |-> Burst]
    /\ allowed = TRUE

Fill ==
    /\ Tick
    /\ level' = [c \in Caller |-> Lesser(Burst, level[c] + Rate)]
    /\ UNCHANGED allowed

Take(c) ==
    /\ allowed' = (level[c] >= Cost)
    /\ level' = IF level[c] >= Cost THEN [level EXCEPT ![c] = @ - Cost] ELSE level
    /\ UNCHANGED now

\* The process starts again with full buckets.
Refilled ==
    /\ level' = [c \in Caller |-> Burst]
    /\ UNCHANGED <<now, allowed>>

BucketNext == Fill \/ Refilled \/ \E c \in Caller : Take(c)

BucketSpec == BucketInit /\ [][BucketNext]_bucketVars
=============================================================================
