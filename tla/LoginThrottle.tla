--------------------------- MODULE LoginThrottle ---------------------------
(***************************************************************************)
(* internal/auth/throttle.go: failed logins counted per account, in a map  *)
(* that the first failure of another account cleans.  The methods run      *)
(* under its mutex, so each one is an action.                              *)
(***************************************************************************)
EXTENDS Clock

CONSTANTS
    Account,            \* phones (owner) or CNPJs (workshop)
    Limit,              \* LoginFailureLimit
    Lockout,            \* LoginLockout
    NoRecord

ASSUME ThrottleAssumption ==
    /\ Limit \in Nat \ {0} /\ Lockout \in Nat \ {0}
    /\ NoRecord \notin [count: Nat, lastFailure: Int, lockedUntil: Int]

VARIABLES
    accounts,           \* the record of each account, NoRecord when there is none
    failed              \* failures of each account since it was last forgotten by a
                        \* success or a restart

throttle == <<accounts, failed>>

throttleVars == <<now, throttle>>

\* lockedUntil is 0, long ago, until the account is locked.
Record == [count: 0..Limit - 1, lastFailure: 0..MaxTime, lockedUntil: 0..MaxTime + Lockout]

NewRecord == [count |-> 0, lastFailure |-> 0, lockedUntil |-> 0]

ThrottleInit ==
    /\ now = 0
    /\ accounts = [a \in Account |-> NoRecord]
    /\ failed = [a \in Account |-> 0]

Locked(a) == accounts[a] # NoRecord /\ now < accounts[a].lockedUntil

Old(r) == now - r.lastFailure > Lockout

\* A bug kept for comparison: a record is dropped once half the time is over.
StaleEarly(r) == now - r.lastFailure > Lockout \div 2 /\ now > r.lockedUntil

Stale(r) == Old(r) /\ now > r.lockedUntil

\* evictStaleLocked.
Evicted ==
    [a \in Account |->
        IF accounts[a] # NoRecord /\ Stale(accounts[a]) THEN NoRecord ELSE accounts[a]]

Counted(r) ==
    IF r.count + 1 >= Limit
    THEN [count |-> 0, lastFailure |-> now, lockedUntil |-> now + Lockout]
    ELSE [r EXCEPT !.count = @ + 1, !.lastFailure = now]

\* A first failure, or one long after the last, starts a record.
Fail(a) ==
    LET first == accounts[a] = NoRecord \/ Old(accounts[a]) IN
    /\ accounts' = [(IF first THEN Evicted ELSE accounts) EXCEPT
                       ![a] = Counted(IF first THEN NewRecord ELSE accounts[a])]
    /\ failed' = [failed EXCEPT ![a] = @ + 1]
    /\ UNCHANGED now

RowEnded(a) == [accounts EXCEPT ![a] = NoRecord]

Succeed(a) ==
    /\ accounts' = RowEnded(a)
    /\ failed' = [failed EXCEPT ![a] = 0]
    /\ UNCHANGED now

\* The process starts again: the map lives in its memory.
ThrottleRestarts ==
    /\ accounts' = [a \in Account |-> NoRecord]
    /\ failed' = [a \in Account |-> 0]
    /\ UNCHANGED now

ThrottleNext ==
    \/ Tick /\ UNCHANGED throttle
    \/ ThrottleRestarts
    \/ \E a \in Account : Fail(a) \/ Succeed(a)

ThrottleSpec == ThrottleInit /\ [][ThrottleNext]_throttleVars

----------------------------------------------------------------------------
ThrottleTypeOK ==
    /\ now \in 0..MaxTime
    /\ accounts \in [Account -> Record \cup {NoRecord}]
    /\ failed \in [Account -> Nat]

\* A lock never outlives the last failure by more than Lockout: that is why a
\* record may be thrown away, or started anew, by the age of its last failure
\* alone.
LocksAreShort ==
    \A a \in Account : accounts[a] # NoRecord =>
        /\ accounts[a].lastFailure <= now
        /\ accounts[a].lockedUntil <= accounts[a].lastFailure + Lockout
        /\ accounts[a].count <= failed[a]

\* Nobody is locked out by fewer failures than the limit.
LockedByFailures == \A a \in Account : Locked(a) => failed[a] >= Limit

\* The strengthening the proofs carry.
ThrottleInv ==
    /\ ThrottleTypeOK /\ LocksAreShort
    /\ \A a \in Account :
          accounts[a] # NoRecord /\ accounts[a].lockedUntil # 0 => failed[a] >= Limit

\* A lock lasts its time: failures of this account and of others, and the
\* cleaning of the map, end none early, only a right password (or a restart,
\* which forgets all accounts) does.
LockLasts ==
    [][\A a \in Account :
          Locked(a) /\ ~Locked(a)' =>
              now' >= accounts[a].lockedUntil \/ failed'[a] = 0]_throttleVars

Memory ==
    [a \in Account |->
        IF accounts[a] = NoRecord \/ Old(accounts[a]) THEN NewRecord ELSE accounts[a]]

Promise == INSTANCE Lockout WITH
              memory <- Memory, locked <- {a \in Account : Locked(a)}

\* Throwing records away cannot be told from remembering every account.
ImplementsLockout == Promise!LockoutSpec
=============================================================================
