------------------------------- MODULE SignIn -------------------------------
(***************************************************************************)
(* Logins as the API serves them (internal/owner/handler.go and            *)
(* internal/workshop/handler.go, behind internal/server/mux.go): the rate  *)
(* limiter of the caller's IP, then the throttle of the account, then the  *)
(* password, which takes the time of a query and of a bcrypt, then the     *)
(* throttle again.  Other logins run between any two of these.             *)
(***************************************************************************)
EXTENDS RateLimiter, LoginThrottle, FiniteSets

CONSTANTS
    Proc,               \* logins served at a time
    NoLogin

ASSUME SignInAssumption == IsFiniteSet(Proc) /\ NoLogin \notin Account

VARIABLES
    at,                 \* where each login is
    login,              \* the account each login is for
    guesses             \* wrong passwords examined at each instant, by account, since
                        \* the account was last forgotten

handlers == <<at, login, guesses>>

signInVars == <<now, limiter, throttle, handlers>>

NoGuess == [t \in 0..MaxTime |-> 0]

OneMoreNow(tries) == [tries EXCEPT ![now] = @ + 1]

SignInInit ==
    /\ LimiterInit /\ ThrottleInit
    /\ at = [p \in Proc |-> "idle"]
    /\ login = [p \in Proc |-> NoLogin]
    /\ guesses = [a \in Account |-> NoGuess]

Goto(p, label) == at' = [at EXCEPT ![p] = label] /\ UNCHANGED login

Answer(p) ==
    /\ at' = [at EXCEPT ![p] = "idle"]
    /\ login' = [login EXCEPT ![p] = NoLogin]

\* RateLimitInterceptor: a caller out of tokens goes no further.
Call(p) ==
    /\ at[p] = "idle"
    /\ \E c \in Caller, a \in Account :
          /\ Allow(c)
          /\ IF allowed'
             THEN /\ at' = [at EXCEPT ![p] = "called"]
                  /\ login' = [login EXCEPT ![p] = a]
             ELSE UNCHANGED <<at, login>>
    /\ UNCHANGED <<throttle, guesses>>

\* A bug kept for comparison: the throttle is not asked.
MayTryAlways(a) == TRUE

MayTry(a) == ~Locked(a)

\* No phone, no CNPJ or no password.
EmptyField(p) ==
    /\ at[p] = "called"
    /\ Answer(p)
    /\ UNCHANGED <<now, limiter, throttle, guesses>>

AskThrottle(p) ==
    /\ at[p] = "called"
    /\ IF MayTry(login[p]) THEN Goto(p, "checking") ELSE Answer(p)
    /\ UNCHANGED <<now, limiter, throttle, guesses>>

\* FindByPhone or FindByCNPJ fails: the login ends and nothing is counted.
LookupFails(p) ==
    /\ at[p] = "checking"
    /\ Answer(p)
    /\ UNCHANGED <<now, limiter, throttle, guesses>>

\* Wrong password or unknown account: one answer for both.
WrongPassword(p) ==
    LET a == login[p] IN
    /\ at[p] = "checking"
    /\ Fail(a)
    /\ guesses' = [guesses EXCEPT ![a] = OneMoreNow(@)]
    /\ Answer(p)
    /\ UNCHANGED limiter

RightPassword(p) ==
    LET a == login[p] IN
    /\ at[p] = "checking"
    /\ Succeed(a)
    /\ guesses' = [guesses EXCEPT ![a] = NoGuess]
    /\ Answer(p)
    /\ UNCHANGED limiter

TimeGoesOn == Tick /\ UNCHANGED <<limiter, throttle, handlers>>

Restart ==
    /\ LimiterRestarts /\ ThrottleRestarts
    /\ at' = [p \in Proc |-> "idle"]
    /\ login' = [p \in Proc |-> NoLogin]
    /\ guesses' = [a \in Account |-> NoGuess]

SignInNext ==
    \/ TimeGoesOn \/ Restart
    \/ \E p \in Proc :
          \/ Call(p) \/ EmptyField(p) \/ AskThrottle(p)
          \/ LookupFails(p) \/ WrongPassword(p) \/ RightPassword(p)

SignInSpec == SignInInit /\ [][SignInNext]_signInVars

----------------------------------------------------------------------------
LoginsTypeOK ==
    /\ at \in [Proc -> {"idle", "called", "checking"}]
    /\ login \in [Proc -> Account \cup {NoLogin}]
    /\ \A p \in Proc : login[p] = NoLogin <=> at[p] = "idle"
    /\ guesses \in [Account -> [0..MaxTime -> Nat]]

SignInTypeOK == LimiterTypeOK /\ ThrottleTypeOK /\ LoginsTypeOK

\* The wrong passwords of an account: the instant of each, and its number there.
WrongPasswords(a) == UNION {{u} \X (1..guesses[a][u]) : u \in 0..MaxTime}

\* Those of the Lockout that ends at an instant.
Recent(a, t) == {g \in WrongPasswords(a) : t - Lockout < g[1] /\ g[1] <= t}

\* The throttle is asked before the password is looked at and told after, and
\* the logins in between all go on: with them, no Lockout sees more wrong
\* passwords of an account than the limit and one for each other login that
\* the server has under way, whatever the callers, the failed queries and the
\* cleaning of both maps.
GuessBudget ==
    \A a \in Account, t \in 0..MaxTime :
        Cardinality(Recent(a, t)) <= Limit + Cardinality(Proc) - 1

Checking(a) == {p \in Proc : at[p] = "checking" /\ login[p] = a}

\* Those no lock has answered to yet, which the record of the account counts.
Unanswered(a) ==
    {g \in WrongPasswords(a) :
        now - Lockout < g[1] /\ accounts[a].lockedUntil - Lockout < g[1]}

\* The record counts what it has to, even when it was thrown away; and the
\* logins that look at a password fit in what is left of the budget, for they
\* came in while it was above what the record counts.
WithinBudget(a) ==
    /\ \A u \in 0..MaxTime : now < u => guesses[a][u] = 0
    /\ accounts[a] = NoRecord => \A u \in 0..MaxTime : now - Lockout < u => guesses[a][u] = 0
    /\ accounts[a] # NoRecord =>
          /\ \A u \in 0..MaxTime : accounts[a].lastFailure < u => guesses[a][u] = 0
          /\ Cardinality(Unanswered(a)) <= accounts[a].count
    /\ Cardinality(Recent(a, now)) + Cardinality(Checking(a)) <= Limit + Cardinality(Proc) - 1

\* The strengthening the proofs carry.
BudgetInv == GuessBudget /\ \A a \in Account : WithinBudget(a)
=============================================================================
