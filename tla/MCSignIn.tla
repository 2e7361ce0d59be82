------------------------------ MODULE MCSignIn ------------------------------
(***************************************************************************)
(* Small instances of SignIn for TLC.                                      *)
(***************************************************************************)
EXTENDS SignIn, TLC

\* Accounts, callers and logins are interchangeable.
Interchangeable == Permutations(Account) \cup Permutations(Caller) \cup Permutations(Proc)
=============================================================================
