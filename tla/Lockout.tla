------------------------------ MODULE Lockout ------------------------------
(***************************************************************************)
(* AccountLockoutService and the first half of AuthService.login: guesses   *)
(* at the password of one account.  The Lua script is atomic, but a login   *)
(* checks the lock before it compares the password and counts after.        *)
(***************************************************************************)
EXTENDS Naturals, FiniteSets

CONSTANTS
    Login,          \* concurrent requests
    MAX_ATTEMPTS

ASSUME LockoutAssumption == IsFiniteSet(Login) /\ MAX_ATTEMPTS \in Nat \ {0}

VARIABLES
    attempts,   \* auth:lockout:attempts:<email>, 0 if there is no key
    locked,     \* does auth:lockout:locked:<email> exist?
    login,      \* what each request is doing
    guesses     \* wrong passwords compared since the count last began anew

vars == <<attempts, locked, login, guesses>>

TypeOK == /\ attempts \in 0..(MAX_ATTEMPTS - 1)
          /\ locked \in BOOLEAN
          /\ login \in [Login -> {"idle", "allowed", "wrong", "right", "deleted"}]
          /\ guesses \in Nat

Init == /\ attempts = 0
        /\ locked = FALSE
        /\ login = [r \in Login |-> "idle"]
        /\ guesses = 0

Goto(r, from, to) == login[r] = from /\ login' = [login EXCEPT ![r] = to]

(* isLocked; when Redis fails the account counts as locked.                 *)
IsLocked(r) ==
    /\ ~locked
    /\ Goto(r, "idle", "allowed")
    /\ UNCHANGED <<attempts, locked, guesses>>

ComparePassword(r) ==
    /\ \/ Goto(r, "allowed", "wrong") /\ guesses' = guesses + 1
       \/ Goto(r, "allowed", "right") /\ UNCHANGED guesses
    /\ UNCHANGED <<attempts, locked>>

(* mutant: more than MAX_ATTEMPTS, not at least                             *)
TooManyLate(n) == n > MAX_ATTEMPTS

TooMany(n) == n >= MAX_ATTEMPTS

(* recordFailedAttempt: while the account is locked nothing is counted.     *)
RecordFailedAttempt(r) ==
    /\ Goto(r, "wrong", "idle")
    /\ IF locked
       THEN UNCHANGED <<attempts, locked>>
       ELSE IF TooMany(attempts + 1)
            THEN locked' = TRUE /\ attempts' = 0
            ELSE attempts' = attempts + 1 /\ UNCHANGED locked
    /\ UNCHANGED guesses

(* recordSuccessfulAttempt, of an account that is verified and not banned:  *)
(* two commands.                                                            *)
DeleteAttempts(r) ==
    /\ Goto(r, "right", "deleted")
    /\ attempts' = 0
    /\ guesses' = 0
    /\ UNCHANGED locked

DeleteLock(r) ==
    /\ Goto(r, "deleted", "idle")
    /\ locked' = FALSE
    /\ guesses' = IF locked THEN 0 ELSE guesses
    /\ UNCHANGED attempts

(* The attempts expire 15 minutes after the first, the lock after 15.       *)
AttemptsExpire ==
    /\ attempts > 0
    /\ attempts' = 0
    /\ guesses' = 0
    /\ UNCHANGED <<locked, login>>

LockExpires ==
    /\ locked
    /\ locked' = FALSE
    /\ guesses' = 0
    /\ UNCHANGED <<attempts, login>>

(* The account is banned or not verified, or the request dies before it     *)
(* compared.  (One that dies with a wrong password is not counted either:   *)
(* Redis was away, and then everybody is locked out.)                       *)
Refused(r) ==
    /\ login[r] \in {"allowed", "right", "deleted"}
    /\ login' = [login EXCEPT ![r] = "idle"]
    /\ UNCHANGED <<attempts, locked, guesses>>

Next == \/ \E r \in Login : \/ IsLocked(r) \/ ComparePassword(r) \/ RecordFailedAttempt(r)
                            \/ DeleteAttempts(r) \/ DeleteLock(r) \/ Refused(r)
        \/ AttemptsExpire \/ LockExpires

Spec == Init /\ [][Next]_vars
-----------------------------------------------------------------------------
(* Concurrent requests get past the lock, but not far: at most one guess    *)
(* for each of them beyond MAX_ATTEMPTS, and once the account is locked no  *)
(* guess is left but of those that had been let in before.                  *)
GuessesBounded ==
    /\ guesses <= MAX_ATTEMPTS + Cardinality(Login) - 1
    /\ ~locked => guesses <= attempts + Cardinality({r \in Login : login[r] = "wrong"})
=============================================================================
