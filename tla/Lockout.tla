------------------------------ MODULE Lockout ------------------------------
(***************************************************************************)
(* What a login throttle promises: it remembers the failures of every      *)
(* account until Lockout has passed since the last one, and an account     *)
(* with Limit failures in a row is locked for Lockout.  Module             *)
(* LoginThrottle implements it with a map it cleans now and then.          *)
(***************************************************************************)
EXTENDS Clock

CONSTANTS
    Account,            \* phones and CNPJs, registered or not
    Limit,              \* failures in a row that lock an account
    Lockout             \* how long it stays locked, and failures count

VARIABLES
    memory,             \* what is remembered of each account
    locked              \* the accounts whose logins are refused

lockoutVars == <<now, memory, locked>>

Forgotten == [count |-> 0, lastFailure |-> 0, lockedUntil |-> 0]

Sees == locked' = {a \in Account : now' < memory'[a].lockedUntil}

LockoutInit ==
    /\ now = 0
    /\ memory = [a \in Account |-> Forgotten]
    /\ locked = {}

TimePasses ==
    /\ Tick
    /\ memory' = [a \in Account |->
                    IF now' - memory[a].lastFailure > Lockout THEN Forgotten ELSE memory[a]]
    /\ Sees

\* The failure that completes the row locks the account and starts a new row.
Failure(a) ==
    LET row == memory[a].count + 1 IN
    /\ memory' = [memory EXCEPT ![a] =
                    IF row >= Limit
                    THEN [count |-> 0, lastFailure |-> now, lockedUntil |-> now + Lockout]
                    ELSE [@ EXCEPT !.count = row, !.lastFailure = now]]
    /\ Sees
    /\ UNCHANGED now

Success(a) ==
    /\ memory' = [memory EXCEPT ![a] = Forgotten]
    /\ Sees
    /\ UNCHANGED now

AllForgotten ==
    /\ memory' = [a \in Account |-> Forgotten]
    /\ Sees
    /\ UNCHANGED now

LockoutNext ==
    \/ TimePasses \/ AllForgotten
    \/ \E a \in Account : Failure(a) \/ Success(a)

LockoutSpec == LockoutInit /\ [][LockoutNext]_lockoutVars
=============================================================================
