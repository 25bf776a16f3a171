---------------------------- MODULE AccessProofs ----------------------------
(***************************************************************************)
(* Theorems of what stands before a request, as MCPlatform instantiates it: *)
(* Lockout, Sessions, Credentials, Throttler, CacheLock and TieredCache,    *)
(* for any sessions, logins, requests, codes, processes and tasks, and any  *)
(* bounds.                                                                  *)
(*                                                                          *)
(* Each part has its inductive invariant, named after its instance; a       *)
(* theorem states its property both of the part alone and of MCPlatform.    *)
(***************************************************************************)
EXTENDS MCPlatform, FiniteSetTheorems, TLAPS

(* A step of MCPlatform is a step of one part, or none of it.               *)
LEMMA PartSteps ==
    ASSUME [SumNext]_sumVars
    PROVE  /\ [Sess!Next]_(Sess!vars) /\ [Next]_vars /\ [Cred!Next]_(Cred!vars)
           /\ [Throttle!Next]_(Throttle!vars) /\ [CLock!Next]_(CLock!vars)
           /\ [Cache!Next]_(Cache!vars) /\ [Intake!Next]_(Intake!vars)
           /\ [Notify!Next]_(Notify!vars) /\ [Verify!Next]_(Verify!vars)
           /\ [Talk!Next]_(Talk!vars)
<1> USE DEF SumNext, sumVars, sessVars, credVars, throttleVars, clockVars, cacheVars,
            intakeVars, notifyVars, verifyVars, talkVars
<1>1. [Sess!Next]_(Sess!vars) /\ [Next]_vars
  BY DEF Sess!vars, vars
<1>2. [Cred!Next]_(Cred!vars) /\ [Throttle!Next]_(Throttle!vars)
  BY DEF Cred!vars, Throttle!vars
<1>3. [CLock!Next]_(CLock!vars) /\ [Cache!Next]_(Cache!vars)
  BY DEF CLock!vars, Cache!vars
<1>4. [Intake!Next]_(Intake!vars) /\ [Notify!Next]_(Notify!vars)
  BY DEF Intake!vars, Notify!vars
<1>5. [Verify!Next]_(Verify!vars) /\ [Talk!Next]_(Talk!vars)
  BY DEF Verify!vars, Talk!vars
<1> QED BY <1>1, <1>2, <1>3, <1>4, <1>5

LEMMA PartInits ==
    ASSUME SumInit
    PROVE  /\ Sess!Init /\ Init /\ Cred!Init /\ Throttle!Init /\ CLock!Init
           /\ Cache!Init /\ Intake!Init /\ Notify!Init /\ Verify!Init /\ Talk!Init
BY DEF SumInit
-----------------------------------------------------------------------------
Wrong   == {r \in Login : login[r] = "wrong"}
Allowed == {r \in Login : login[r] = "allowed"}

(* While the account is open every guess was counted or is about to be;     *)
(* once it is locked only those that had been let in may still guess.       *)
LockoutIInv ==
    /\ TypeOK
    /\ ~locked => guesses <= attempts + Cardinality(Wrong)
    /\ locked  => guesses + Cardinality(Allowed) <= MAX_ATTEMPTS + Cardinality(Login) - 1

(* Those about to be counted and those let in are different requests.       *)
LEMMA Disjoint ==
    ASSUME TypeOK
    PROVE  /\ IsFiniteSet(Wrong) /\ IsFiniteSet(Allowed)
           /\ Cardinality(Wrong) \in Nat /\ Cardinality(Allowed) \in Nat
           /\ Cardinality(Login) \in Nat
           /\ Cardinality(Wrong) + Cardinality(Allowed) <= Cardinality(Login)
<1>1. Wrong \in SUBSET Login /\ Allowed \in SUBSET Login
  BY DEF Wrong, Allowed
<1>2. /\ IsFiniteSet(Wrong) /\ IsFiniteSet(Allowed)
  BY <1>1, LockoutAssumption, FS_Subset
<1>3. Wrong \cap Allowed = {}
  BY DEF Wrong, Allowed
<1>4. /\ IsFiniteSet(Wrong \cup Allowed)
      /\ Cardinality(Wrong \cup Allowed) =
             Cardinality(Wrong) + Cardinality(Allowed) - Cardinality(Wrong \cap Allowed)
  BY <1>2, FS_Union
<1>5. Cardinality(Wrong \cap Allowed) = 0
  BY <1>3, FS_EmptySet
<1>6. Cardinality(Wrong \cup Allowed) <= Cardinality(Login)
  BY <1>1, LockoutAssumption, FS_Subset
<1>7. /\ Cardinality(Wrong) \in Nat /\ Cardinality(Allowed) \in Nat
      /\ Cardinality(Login) \in Nat
  BY <1>2, LockoutAssumption, FS_CardinalityType
<1> QED BY <1>2, <1>4, <1>5, <1>6, <1>7

LEMMA LockoutInitIInv == Init => LockoutIInv
<1> SUFFICES ASSUME Init PROVE LockoutIInv
  OBVIOUS
<1>1. TypeOK
  <2>1. attempts \in 0..(MAX_ATTEMPTS - 1) /\ guesses \in Nat
    BY LockoutAssumption DEF Init
  <2> QED BY <2>1 DEF Init, TypeOK
<1>2. Wrong = {}
  BY DEF Init, Wrong
<1>3. Cardinality(Wrong) = 0
  BY <1>2, FS_EmptySet
<1> QED BY <1>1, <1>3 DEF Init, LockoutIInv

(* What a step of one request does to the two sets                          *)
LEMMA Moved ==
    ASSUME TypeOK, NEW r \in Login,
           NEW to \in {"idle", "allowed", "wrong", "right", "deleted"},
           login' = [login EXCEPT ![r] = to]
    PROVE  /\ Wrong' = IF to = "wrong" THEN Wrong \cup {r} ELSE Wrong \ {r}
           /\ Allowed' = IF to = "allowed" THEN Allowed \cup {r} ELSE Allowed \ {r}
BY DEF TypeOK, Wrong, Allowed

(* IsLocked lets a request in while the account is open.                    *)
LEMMA IsLockedStep ==
    ASSUME LockoutIInv, NEW r \in Login, IsLocked(r)
    PROVE  LockoutIInv'
<1>1. /\ TypeOK' /\ ~locked' /\ guesses' = guesses /\ attempts' = attempts
      /\ login' = [login EXCEPT ![r] = "allowed"] /\ login[r] = "idle"
  BY DEF LockoutIInv, IsLocked, Goto, TypeOK
<1>2. Wrong' = Wrong
  BY <1>1, Moved DEF LockoutIInv, Wrong
<1> QED BY <1>1, <1>2 DEF LockoutIInv, IsLocked

(* A guess: either it will be counted, or one fewer request may guess.      *)
LEMMA ComparePasswordStep ==
    ASSUME LockoutIInv, NEW r \in Login, ComparePassword(r)
    PROVE  LockoutIInv'
<1>1. /\ TypeOK' /\ locked' = locked /\ attempts' = attempts /\ login[r] = "allowed"
      /\ \/ guesses' = guesses + 1 /\ login' = [login EXCEPT ![r] = "wrong"]
         \/ guesses' = guesses /\ login' = [login EXCEPT ![r] = "right"]
  BY DEF LockoutIInv, ComparePassword, Goto, TypeOK
<1>2. r \in Allowed /\ r \notin Wrong
  BY <1>1 DEF Allowed, Wrong
<1>3. /\ Allowed' = Allowed \ {r}
      /\ \/ guesses' = guesses + 1 /\ Wrong' = Wrong \cup {r}
         \/ guesses' = guesses /\ Wrong' = Wrong
  <2>1. CASE guesses' = guesses + 1 /\ login' = [login EXCEPT ![r] = "wrong"]
    BY <2>1, Moved DEF LockoutIInv
  <2>2. CASE guesses' = guesses /\ login' = [login EXCEPT ![r] = "right"]
    <3>1. Allowed' = Allowed \ {r} /\ Wrong' = Wrong \ {r}
      BY <2>2, Moved DEF LockoutIInv
    <3>2. Wrong \ {r} = Wrong
      BY <1>2
    <3> QED BY <2>2, <3>1, <3>2
  <2> QED BY <1>1, <2>1, <2>2
<1>4. /\ Cardinality(Allowed') = Cardinality(Allowed) - 1
      /\ Cardinality(Wrong \cup {r}) = Cardinality(Wrong) + 1
  BY <1>2, <1>3, Disjoint, FS_RemoveElement, FS_AddElement DEF LockoutIInv
<1>5. /\ Cardinality(Wrong) \in Nat /\ Cardinality(Allowed) \in Nat
      /\ Cardinality(Login) \in Nat /\ guesses \in Nat /\ attempts \in Nat
  BY Disjoint DEF LockoutIInv, TypeOK
<1>6. ~locked => guesses' <= attempts + Cardinality(Wrong')
  BY <1>3, <1>4, <1>5 DEF LockoutIInv
<1>7. locked => guesses' + Cardinality(Allowed') <= MAX_ATTEMPTS + Cardinality(Login) - 1
  BY <1>3, <1>4, <1>5, LockoutAssumption DEF LockoutIInv
<1> QED BY <1>1, <1>6, <1>7 DEF LockoutIInv

(* The attempt that locks the account leaves those that are let in.         *)
LEMMA RecordStep ==
    ASSUME LockoutIInv, NEW r \in Login, RecordFailedAttempt(r)
    PROVE  LockoutIInv'
<1>1. /\ login[r] = "wrong" /\ login' = [login EXCEPT ![r] = "idle"]
      /\ guesses' = guesses
  BY DEF RecordFailedAttempt, Goto
<1>2. TypeOK'
  <2>1. attempts' \in 0..(MAX_ATTEMPTS - 1)
    <3>1. attempts \in 0..(MAX_ATTEMPTS - 1)
      BY DEF LockoutIInv, TypeOK
    <3>2. \/ attempts' = attempts \/ attempts' = 0
          \/ ~(attempts + 1 >= MAX_ATTEMPTS) /\ attempts' = attempts + 1
      BY DEF RecordFailedAttempt, TooMany
    <3> QED BY <3>1, <3>2, LockoutAssumption
  <2>2. locked' \in BOOLEAN /\ login' \in [Login -> {"idle", "allowed", "wrong", "right", "deleted"}]
    BY <1>1 DEF LockoutIInv, RecordFailedAttempt, TypeOK
  <2> QED BY <1>1, <2>1, <2>2 DEF LockoutIInv, TypeOK
<1>3. Wrong' = Wrong \ {r} /\ Allowed' = Allowed /\ r \in Wrong
  BY <1>1, Moved DEF LockoutIInv, Wrong, Allowed
<1>4. Cardinality(Wrong') = Cardinality(Wrong) - 1
  BY <1>3, Disjoint, FS_RemoveElement DEF LockoutIInv
<1>5. /\ Cardinality(Wrong) \in Nat /\ Cardinality(Allowed) \in Nat
      /\ Cardinality(Login) \in Nat /\ guesses \in Nat /\ attempts \in 0..(MAX_ATTEMPTS - 1)
      /\ Cardinality(Wrong) + Cardinality(Allowed) <= Cardinality(Login)
  BY Disjoint DEF LockoutIInv, TypeOK
<1>6. CASE locked
  <2>1. locked'
    BY <1>6 DEF RecordFailedAttempt
  <2> QED BY <1>1, <1>2, <1>3, <1>6, <2>1 DEF LockoutIInv
<1>7. CASE ~locked /\ attempts + 1 >= MAX_ATTEMPTS
  <2>1. locked'
    BY <1>7 DEF RecordFailedAttempt, TooMany
  <2>2. guesses <= attempts + Cardinality(Wrong)
    BY <1>7 DEF LockoutIInv
  <2>3. guesses + Cardinality(Allowed) <= MAX_ATTEMPTS + Cardinality(Login) - 1
    BY <1>5, <2>2, LockoutAssumption
  <2> QED BY <1>1, <1>2, <1>3, <2>1, <2>3 DEF LockoutIInv
<1>8. CASE ~locked /\ ~(attempts + 1 >= MAX_ATTEMPTS)
  <2>1. ~locked' /\ attempts' = attempts + 1
    BY <1>8 DEF RecordFailedAttempt, TooMany
  <2>2. guesses <= attempts + Cardinality(Wrong)
    BY <1>8 DEF LockoutIInv
  <2>3. guesses' <= attempts' + Cardinality(Wrong')
    BY <1>1, <1>4, <1>5, <2>1, <2>2
  <2> QED BY <1>2, <2>1, <2>3 DEF LockoutIInv
<1> QED BY <1>6, <1>7, <1>8

(* Whatever else happens begins a new count or leaves it alone, and adds    *)
(* nobody to those that may guess.                                          *)
LEMMA FreshCount ==
    ASSUME LockoutIInv, TypeOK', guesses' = 0
    PROVE  LockoutIInv'
<1>1. /\ Cardinality(Wrong)' \in Nat /\ Cardinality(Allowed)' \in Nat
      /\ Cardinality(Login) \in Nat
      /\ Cardinality(Wrong)' + Cardinality(Allowed)' <= Cardinality(Login)
  <2>1. TypeOK' => /\ Cardinality(Wrong)' \in Nat /\ Cardinality(Allowed)' \in Nat
                   /\ Cardinality(Login) \in Nat
                   /\ Cardinality(Wrong)' + Cardinality(Allowed)' <= Cardinality(Login)
    <3>1. Wrong' \in SUBSET Login /\ Allowed' \in SUBSET Login /\ Wrong' \cap Allowed' = {}
      BY DEF Wrong, Allowed
    <3>2. IsFiniteSet(Wrong') /\ IsFiniteSet(Allowed')
      BY <3>1, LockoutAssumption, FS_Subset
    <3>3. /\ Cardinality(Wrong' \cup Allowed') =
                 Cardinality(Wrong') + Cardinality(Allowed') - Cardinality(Wrong' \cap Allowed')
          /\ Cardinality(Wrong' \cap Allowed') = 0
      BY <3>1, <3>2, FS_Union, FS_EmptySet
    <3>4. Cardinality(Wrong' \cup Allowed') <= Cardinality(Login)
      BY <3>1, LockoutAssumption, FS_Subset
    <3>5. /\ Cardinality(Wrong') \in Nat /\ Cardinality(Allowed') \in Nat
          /\ Cardinality(Login) \in Nat
      BY <3>2, LockoutAssumption, FS_CardinalityType
    <3> QED BY <3>3, <3>4, <3>5
  <2> QED BY <2>1
<1>2. attempts' \in Nat
  BY LockoutAssumption DEF TypeOK
<1>3. guesses' <= attempts' + Cardinality(Wrong')
  BY <1>1, <1>2
<1>4. guesses' + Cardinality(Allowed') <= MAX_ATTEMPTS + Cardinality(Login) - 1
  BY <1>1, LockoutAssumption
<1> QED BY <1>3, <1>4 DEF LockoutIInv

LEMMA FewerAllowed ==
    ASSUME LockoutIInv, NEW r \in Login, NEW to \in {"idle", "right", "deleted"},
           login[r] # "wrong", login' = [login EXCEPT ![r] = to],
           UNCHANGED <<attempts, locked, guesses>>
    PROVE  LockoutIInv'
<1>1. TypeOK'
  BY DEF LockoutIInv, TypeOK
<1>2. Wrong' = Wrong /\ Allowed' = Allowed \ {r}
  BY Moved DEF LockoutIInv, Wrong
<1>3. /\ Cardinality(Allowed') <= Cardinality(Allowed)
      /\ Cardinality(Allowed') \in Nat /\ Cardinality(Allowed) \in Nat
  <2>1. IsFiniteSet(Allowed) /\ Allowed' \in SUBSET Allowed
    BY <1>2, Disjoint DEF LockoutIInv
  <2>2. IsFiniteSet(Allowed') /\ Cardinality(Allowed') <= Cardinality(Allowed)
    BY <2>1, FS_Subset
  <2> QED BY <2>1, <2>2, FS_CardinalityType
<1>4. guesses \in Nat /\ Cardinality(Login) \in Nat
  BY Disjoint DEF LockoutIInv, TypeOK
<1>5. locked => guesses + Cardinality(Allowed') <= MAX_ATTEMPTS + Cardinality(Login) - 1
  BY <1>3, <1>4, LockoutAssumption DEF LockoutIInv
<1> QED BY <1>1, <1>2, <1>5 DEF LockoutIInv

LEMMA LockoutNextIInv == LockoutIInv /\ [Next]_vars => LockoutIInv'
<1> SUFFICES ASSUME LockoutIInv, [Next]_vars PROVE LockoutIInv'
  OBVIOUS
<1>1. ASSUME NEW r \in Login, IsLocked(r) PROVE LockoutIInv'
  BY <1>1, IsLockedStep
<1>2. ASSUME NEW r \in Login, ComparePassword(r) PROVE LockoutIInv'
  BY <1>2, ComparePasswordStep
<1>3. ASSUME NEW r \in Login, RecordFailedAttempt(r) PROVE LockoutIInv'
  BY <1>3, RecordStep
<1>4. ASSUME NEW r \in Login, DeleteAttempts(r) PROVE LockoutIInv'
  <2>1. attempts' \in 0..(MAX_ATTEMPTS - 1) /\ guesses' = 0
    BY <1>4, LockoutAssumption DEF DeleteAttempts
  <2>2. TypeOK'
    BY <1>4, <2>1 DEF LockoutIInv, DeleteAttempts, Goto, TypeOK
  <2> QED BY <2>1, <2>2, FreshCount
<1>5. ASSUME NEW r \in Login, DeleteLock(r) PROVE LockoutIInv'
  <2>1. CASE locked
    <3>1. TypeOK' /\ guesses' = 0
      BY <1>5, <2>1 DEF LockoutIInv, DeleteLock, Goto, TypeOK
    <3> QED BY <3>1, FreshCount
  <2>2. CASE ~locked
    <3>1. /\ login[r] # "wrong" /\ login' = [login EXCEPT ![r] = "idle"]
          /\ UNCHANGED <<attempts, locked, guesses>>
      BY <1>5, <2>2 DEF LockoutIInv, DeleteLock, Goto, TypeOK
    <3> QED BY <3>1, FewerAllowed
  <2> QED BY <2>1, <2>2
<1>6. ASSUME NEW r \in Login, Refused(r) PROVE LockoutIInv'
  <2>1. /\ login[r] # "wrong" /\ login' = [login EXCEPT ![r] = "idle"]
        /\ UNCHANGED <<attempts, locked, guesses>>
    BY <1>6 DEF Refused
  <2> QED BY <2>1, FewerAllowed
<1>7. CASE AttemptsExpire \/ LockExpires
  <2>1. guesses' = 0 /\ login' = login /\ (attempts' = attempts \/ attempts' = 0)
        /\ locked' \in BOOLEAN
    BY <1>7 DEF LockoutIInv, AttemptsExpire, LockExpires, TypeOK
  <2>2. attempts' \in 0..(MAX_ATTEMPTS - 1)
    BY <2>1, LockoutAssumption DEF LockoutIInv, TypeOK
  <2>3. TypeOK'
    BY <2>1, <2>2 DEF LockoutIInv, TypeOK
  <2> QED BY <2>1, <2>3, FreshCount
<1>8. CASE UNCHANGED vars
  BY <1>8 DEF LockoutIInv, vars, TypeOK, Wrong, Allowed
<1> QED BY <1>1, <1>2, <1>3, <1>4, <1>5, <1>6, <1>7, <1>8 DEF Next

LEMMA LockoutIInvBounds == LockoutIInv => GuessesBounded
<1> SUFFICES ASSUME LockoutIInv PROVE GuessesBounded
  OBVIOUS
<1>1. /\ Cardinality(Wrong) \in Nat /\ Cardinality(Allowed) \in Nat
      /\ Cardinality(Login) \in Nat /\ guesses \in Nat /\ attempts \in 0..(MAX_ATTEMPTS - 1)
      /\ Cardinality(Wrong) + Cardinality(Allowed) <= Cardinality(Login)
  BY Disjoint DEF LockoutIInv, TypeOK
<1>2. guesses <= MAX_ATTEMPTS + Cardinality(Login) - 1
  BY <1>1, LockoutAssumption DEF LockoutIInv
<1> QED BY <1>2 DEF LockoutIInv, GuessesBounded, Wrong

(* However many logins run at once (AccountLockoutService,                  *)
(* AuthService.login), between two fresh counts no more passwords are       *)
(* compared than MAX_ATTEMPTS and one for each other concurrent request.    *)
THEOREM BoundedGuessing == (Spec => []GuessesBounded) /\ (SumSpec => []GuessesBounded)
<1>1. Spec => []GuessesBounded
  BY LockoutInitIInv, LockoutNextIInv, LockoutIInvBounds, PTL DEF Spec
<1>2. SumSpec => []GuessesBounded
  BY LockoutInitIInv, LockoutNextIInv, LockoutIInvBounds, PartInits, PartSteps, PTL DEF SumSpec
<1> QED BY <1>1, <1>2

(* The attempts in Redis stay below MAX_ATTEMPTS (the Lua script).          *)
THEOREM LockoutTypes == Spec => []TypeOK
<1>1. LockoutIInv => TypeOK
  BY DEF LockoutIInv
<1> QED BY <1>1, LockoutInitIInv, LockoutNextIInv, PTL DEF Spec
-----------------------------------------------------------------------------
(* Sessions: what each call under way has                                   *)
CallState == [op : {"none", "login", "verify", "logout", "reset", "list", "clean"},
              at : {"idle", "begun", "read"}, on : SUBSET Session, with : 0..ResetBound]

Validates(c) == Sess!At(c, "verify", "read")

(* Sessions in use were created, so no login creates them again; and what a *)
(* validation will write back is not revoked for good.                      *)
SessIInv ==
    /\ Sess!TypeOK
    /\ \A s \in live \cup listed \cup over : made[s] # Sess!Fresh
    /\ \A c \in Call : \A s \in call[c].on : made[s] # Sess!Fresh
    /\ \A c \in Call : Validates(c) => call[c].on \cap over = {}
    /\ Sess!RevokedForGood

LEMMA SessInitIInv == Sess!Init => SessIInv
<1> SUFFICES ASSUME Sess!Init PROVE SessIInv
  OBVIOUS
<1>1. Sess!TypeOK
  <2>1. 0 \in 0..ResetBound /\ Sess!Fresh \in 0..Sess!Fresh
    BY SessionsAssumption DEF Sess!Fresh
  <2> QED BY <2>1 DEF Sess!Init, Sess!TypeOK, Sess!Idle, Sess!Doing
<1> QED BY <1>1 DEF Sess!Init, SessIInv, Sess!RevokedForGood, Validates, Sess!At, Sess!Idle, Sess!Doing

(* A step of one call, to the state u                                       *)
Becomes(c, u) == /\ u \in CallState
                 /\ call' \in [Call -> CallState]
                 /\ call'[c] = u
                 /\ \A d \in Call : d # c => call'[d] = call[d]

LEMMA CallBecomes ==
    ASSUME Sess!TypeOK, NEW c \in Call, NEW u \in CallState, call' = [call EXCEPT ![c] = u]
    PROVE  Becomes(c, u)
BY DEF Sess!TypeOK, CallState, Becomes

LEMMA LeaveBecomes ==
    ASSUME Sess!TypeOK, NEW c \in Call, Sess!Leave(c)
    PROVE  Becomes(c, Sess!Idle)
<1>1. Sess!Idle \in CallState
  BY SessionsAssumption DEF Sess!Idle, Sess!Doing, CallState
<1> QED BY <1>1, CallBecomes DEF Sess!Leave

LEMMA HoldsBecomes ==
    ASSUME Sess!TypeOK, NEW c \in Call, NEW S \in SUBSET Session,
           NEW op \in {"verify", "logout", "reset", "list", "clean"}, Sess!Holds(c, op, S)
    PROVE  Becomes(c, [op |-> op, at |-> "read", on |-> S, with |-> 0])
<1>1. [op |-> op, at |-> "read", on |-> S, with |-> 0] \in CallState
  BY SessionsAssumption DEF CallState
<1> QED BY <1>1, CallBecomes DEF Sess!Holds, Sess!Doing

(* A call that changes nothing in Redis and knows only sessions that exist  *)
LEMMA StoreKept ==
    ASSUME SessIInv, NEW c \in Call, NEW u, Becomes(c, u), password' \in 0..ResetBound,
           UNCHANGED <<made, live, listed, over>>,
           \A s \in u.on : made[s] # Sess!Fresh,
           u.op = "verify" => u.on \cap over = {}
    PROVE  SessIInv'
<1>1. Sess!TypeOK'
  BY DEF SessIInv, Sess!TypeOK, Becomes, CallState
<1> QED BY <1>1 DEF SessIInv, Becomes, Sess!RevokedForGood, Validates, Sess!At

LEMMA LeaveStep ==
    ASSUME SessIInv, NEW c \in Call, Sess!Leave(c), UNCHANGED Sess!store
    PROVE  SessIInv'
<1>1. Becomes(c, Sess!Idle)
  BY LeaveBecomes DEF SessIInv
<1>2. (\A s \in Sess!Idle.on : made[s] # Sess!Fresh) /\ Sess!Idle.op # "verify"
  BY DEF Sess!Idle, Sess!Doing
<1>3. password' \in 0..ResetBound /\ UNCHANGED <<made, live, listed, over>>
  BY DEF SessIInv, Sess!TypeOK, Sess!store
<1> QED BY <1>1, <1>2, <1>3, StoreKept

LEMMA HoldsStep ==
    ASSUME SessIInv, NEW c \in Call,
           NEW op \in {"verify", "logout", "reset", "list", "clean"},
           NEW S \in SUBSET Session, Sess!Holds(c, op, S),
           \A s \in S : made[s] # Sess!Fresh, op = "verify" => S \subseteq live,
           UNCHANGED Sess!store
    PROVE  SessIInv'
<1> DEFINE u == [op |-> op, at |-> "read", on |-> S, with |-> 0]
<1>1. Becomes(c, u)
  BY HoldsBecomes DEF SessIInv
<1>2. (\A s \in u.on : made[s] # Sess!Fresh) /\ (u.op = "verify" => u.on \cap over = {})
  BY DEF SessIInv, Sess!RevokedForGood
<1>3. password' \in 0..ResetBound /\ UNCHANGED <<made, live, listed, over>>
  BY DEF SessIInv, Sess!TypeOK, Sess!store
<1> HIDE DEF u
<1> QED BY <1>1, <1>2, <1>3, StoreKept

(* Reading: what is read was created.                                       *)
LEMMA ReadSteps ==
    ASSUME SessIInv, NEW c \in Call,
           \/ Sess!ListMembers(c) \/ Sess!ReadListed(c) \/ Sess!ReadMembers(c) \/ Sess!RedisFails(c)
           \/ \E s \in Session : Sess!GetSession(c, s) \/ Sess!GetForLogout(c, s)
    PROVE  SessIInv'
<1>0. /\ call[c].on \in SUBSET Session /\ listed \in SUBSET Session
      /\ \A s \in call[c].on : made[s] # Sess!Fresh
      /\ \A s \in live \cup listed : made[s] # Sess!Fresh
  BY DEF SessIInv, Sess!TypeOK
<1>1. CASE Sess!ListMembers(c)
  BY <1>0, <1>1, HoldsStep DEF Sess!ListMembers
<1>2. CASE Sess!ReadListed(c)
  <2>1. call[c].on \ live \in SUBSET Session /\ \A s \in call[c].on \ live : made[s] # Sess!Fresh
    BY <1>0
  <2> QED BY <1>2, <2>1, HoldsStep, LeaveStep DEF Sess!ReadListed
<1>3. CASE Sess!ReadMembers(c)
  BY <1>0, <1>3, HoldsStep, LeaveStep DEF Sess!ReadMembers
<1>4. CASE Sess!RedisFails(c)
  BY <1>4, LeaveStep DEF Sess!RedisFails
<1>5. ASSUME NEW s \in Session, Sess!GetSession(c, s) \/ Sess!GetForLogout(c, s) PROVE SessIInv'
  <2>1. {s} \in SUBSET Session /\ {s} \subseteq live /\ \A x \in {s} : made[x] # Sess!Fresh
    BY <1>0, <1>5 DEF Sess!GetSession, Sess!GetForLogout
  <2> QED BY <1>5, <2>1, HoldsStep DEF Sess!GetSession, Sess!GetForLogout
<1> QED BY <1>1, <1>2, <1>3, <1>4, <1>5

(* login and updatePassword                                                 *)
LEMMA BeginSteps ==
    ASSUME SessIInv, NEW c \in Call, Sess!ComparePassword(c) \/ Sess!UpdatePassword(c)
    PROVE  SessIInv'
<1>1. \E u \in CallState : /\ call' = [call EXCEPT ![c] = u]
                           /\ u.on = {} /\ u.op # "verify"
  <2>1. CASE Sess!ComparePassword(c)
    <3>1. [op |-> "login", at |-> "begun", on |-> {}, with |-> password] \in CallState
      BY DEF CallState, SessIInv, Sess!TypeOK
    <3> QED BY <2>1, <3>1 DEF Sess!ComparePassword, Sess!Doing
  <2>2. CASE Sess!UpdatePassword(c)
    <3>1. [op |-> "reset", at |-> "begun", on |-> {}, with |-> 0] \in CallState
      BY SessionsAssumption DEF CallState
    <3> QED BY <2>2, <3>1 DEF Sess!UpdatePassword, Sess!Doing
  <2> QED BY <2>1, <2>2
<1>2. PICK u \in CallState : call' = [call EXCEPT ![c] = u] /\ u.on = {} /\ u.op # "verify"
  BY <1>1
<1>3. Becomes(c, u)
  BY <1>2, CallBecomes DEF SessIInv
<1>4. password' \in 0..ResetBound /\ UNCHANGED <<made, live, listed, over>>
  BY SessionsAssumption
  DEF Sess!ComparePassword, Sess!UpdatePassword, Sess!store, SessIInv, Sess!TypeOK
<1> QED BY <1>2, <1>3, <1>4, StoreKept

(* A login creates a session that nobody has revoked.                       *)
LEMMA CreateSessionStep ==
    ASSUME SessIInv, NEW c \in Call, NEW s \in Session, Sess!CreateSession(c, s)
    PROVE  SessIInv'
<1> DEFINE u == [op |-> "list", at |-> "begun", on |-> {}, with |-> 0]
<1>1. Becomes(c, u)
  <2>1. u \in CallState
    BY SessionsAssumption DEF CallState
  <2> QED BY <2>1, CallBecomes DEF SessIInv, Sess!CreateSession, Sess!Doing
<1>2. /\ made' \in [Session -> 0..Sess!Fresh] /\ made'[s] # Sess!Fresh
      /\ \A x \in Session : x # s => made'[x] = made[x]
  <2>1. call[c].with \in 0..ResetBound /\ made \in [Session -> 0..Sess!Fresh]
    BY DEF SessIInv, Sess!TypeOK
  <2>2. call[c].with \in 0..Sess!Fresh /\ call[c].with # Sess!Fresh
    BY <2>1, SessionsAssumption DEF Sess!Fresh
  <2> QED BY <2>1, <2>2 DEF Sess!CreateSession
<1>3. s \notin over
  BY DEF SessIInv, Sess!CreateSession
<1>4. /\ live' = live \cup {s} /\ listed' = listed \cup {s}
      /\ UNCHANGED <<password, over>>
  BY DEF Sess!CreateSession
<1>5. Sess!TypeOK'
  BY <1>1, <1>2, <1>4 DEF SessIInv, Sess!TypeOK, Becomes, CallState
<1>6. /\ \A x \in live' \cup listed' \cup over' : made'[x] # Sess!Fresh
      /\ Sess!RevokedForGood'
  BY <1>2, <1>3, <1>4 DEF SessIInv, Sess!TypeOK, Sess!RevokedForGood
<1>7. ASSUME NEW d \in Call
      PROVE  /\ \A x \in call'[d].on : made'[x] # Sess!Fresh
             /\ Validates(d)' => call'[d].on \cap over' = {}
  <2>1. CASE d = c
    BY <1>1, <2>1 DEF Becomes, Validates, Sess!At
  <2>2. CASE d # c
    BY <1>1, <1>2, <1>4, <2>2 DEF SessIInv, Sess!TypeOK, Becomes, Validates, Sess!At
  <2> QED BY <2>1, <2>2
<1> QED BY <1>5, <1>6, <1>7 DEF SessIInv

(* What a validation writes back is not revoked for good.                   *)
LEMMA SlideStep ==
    ASSUME SessIInv, NEW c \in Call, Sess!Slide(c)
    PROVE  SessIInv'
<1>1. Becomes(c, Sess!Idle)
  BY LeaveBecomes DEF SessIInv, Sess!Slide
<1>2. /\ live' = live \cup call[c].on /\ UNCHANGED <<password, made, listed, over>>
      /\ call[c].on \cap over = {} /\ call[c].on \subseteq Session
      /\ \A s \in call[c].on : made[s] # Sess!Fresh
  BY DEF SessIInv, Sess!TypeOK, Sess!Slide, Validates
<1>3. Sess!TypeOK'
  BY <1>1, <1>2 DEF SessIInv, Sess!TypeOK, Becomes, CallState
<1>4. Sess!RevokedForGood' /\ \A x \in live' \cup listed' \cup over' : made'[x] # Sess!Fresh
  BY <1>2 DEF SessIInv, Sess!RevokedForGood
<1> QED BY <1>1, <1>2, <1>3, <1>4 DEF SessIInv, Becomes, Sess!Idle, Sess!Doing, Validates, Sess!At

(* Only what no validation has read is revoked for good.                    *)
LEMMA RevokeSteps ==
    ASSUME SessIInv, NEW c \in Call,
           Sess!DropSession(c) \/ Sess!DropAll(c) \/ Sess!CleanUp(c)
    PROVE  SessIInv'
<1>1. Becomes(c, Sess!Idle)
  BY LeaveBecomes DEF SessIInv, Sess!DropSession, Sess!DropAll, Sess!CleanUp
<1>2. /\ live' \subseteq live /\ listed' \subseteq listed
      /\ UNCHANGED <<password, made>>
      /\ \/ live' = live /\ over' = over
         \/ live' = live \ call[c].on /\ over' = over \cup Sess!Unread(c, call[c].on)
  BY DEF Sess!DropSession, Sess!DropAll, Sess!CleanUp
<1>3. /\ call[c].on \subseteq Session /\ Sess!Unread(c, call[c].on) \subseteq call[c].on
      /\ \A s \in call[c].on : made[s] # Sess!Fresh
  BY DEF SessIInv, Sess!TypeOK, Sess!Unread
<1>4. Sess!TypeOK'
  BY <1>1, <1>2, <1>3 DEF SessIInv, Sess!TypeOK, Becomes, CallState
<1>5. Sess!RevokedForGood' /\ \A x \in live' \cup listed' \cup over' : made'[x] # Sess!Fresh
  BY <1>2, <1>3 DEF SessIInv, Sess!RevokedForGood
<1>6. ASSUME NEW d \in Call
      PROVE  /\ \A x \in call'[d].on : made'[x] # Sess!Fresh
             /\ Validates(d)' => call'[d].on \cap over' = {}
  <2>1. CASE d = c
    BY <1>1, <2>1 DEF Becomes, Sess!Idle, Sess!Doing, Validates, Sess!At
  <2>2. CASE d # c
    <3>1. call'[d] = call[d] /\ (Validates(d)' <=> Validates(d))
      BY <1>1, <2>2 DEF Becomes, Validates, Sess!At
    <3>2. Validates(d) => call[d].on \cap Sess!Unread(c, call[c].on) = {}
      BY <2>2 DEF Validates, Sess!Unread
    <3> QED BY <1>2, <3>1, <3>2 DEF SessIInv
  <2> QED BY <2>1, <2>2
<1> QED BY <1>4, <1>5, <1>6 DEF SessIInv

LEMMA SessNextIInv == SessIInv /\ [Sess!Next]_(Sess!vars) => SessIInv'
<1> SUFFICES ASSUME SessIInv, [Sess!Next]_(Sess!vars) PROVE SessIInv'
  OBVIOUS
<1>1. ASSUME NEW c \in Call, Sess!ComparePassword(c) \/ Sess!UpdatePassword(c) PROVE SessIInv'
  BY <1>1, BeginSteps
<1>2. ASSUME NEW c \in Call,
             \/ Sess!ListMembers(c) \/ Sess!ReadListed(c) \/ Sess!ReadMembers(c) \/ Sess!RedisFails(c)
             \/ \E s \in Session : Sess!GetSession(c, s) \/ Sess!GetForLogout(c, s)
      PROVE  SessIInv'
  BY <1>2, ReadSteps
<1>3. ASSUME NEW c \in Call, Sess!DropSession(c) \/ Sess!DropAll(c) \/ Sess!CleanUp(c) PROVE SessIInv'
  BY <1>3, RevokeSteps
<1>4. ASSUME NEW c \in Call, Sess!Slide(c) PROVE SessIInv'
  BY <1>4, SlideStep
<1>5. ASSUME NEW c \in Call, NEW s \in Session, Sess!CreateSession(c, s) PROVE SessIInv'
  BY <1>5, CreateSessionStep
<1>6. CASE (\E s \in Session : Sess!Expire(s)) \/ UNCHANGED Sess!vars
  <2>1. live' \subseteq live /\ UNCHANGED <<password, made, listed, over, call>>
    BY <1>6 DEF Sess!Expire, Sess!vars
  <2>2. Sess!TypeOK'
    BY <2>1 DEF SessIInv, Sess!TypeOK
  <2> QED BY <2>1, <2>2 DEF SessIInv, Sess!RevokedForGood, Validates, Sess!At
<1> QED BY <1>1, <1>2, <1>3, <1>4, <1>5, <1>6 DEF Sess!Next

(* logout, resetPassword, validateSession and login in any order and any    *)
(* number: a session that was revoked while no validation had read it never *)
(* lives again.                                                             *)
THEOREM RevokedStaysRevoked ==
    (Sess!Spec => []RevokedForGood) /\ (SumSpec => []RevokedForGood)
<1>1. SessIInv => RevokedForGood
  BY DEF SessIInv, RevokedForGood
<1>2. Sess!Spec => []RevokedForGood
  BY <1>1, SessInitIInv, SessNextIInv, PTL DEF Sess!Spec
<1>3. SumSpec => []RevokedForGood
  BY <1>1, SessInitIInv, SessNextIInv, PartInits, PartSteps, PTL DEF SumSpec
<1> QED BY <1>2, <1>3
-----------------------------------------------------------------------------
(* Credentials: only who is there is verified, and the code that is being   *)
(* checked was mailed.                                                      *)
CredFits(q) ==
    /\ q.op = "verify" /\ q.at = "read" => user.there /\ q.code \in mailed
    /\ q.at \in {"store", "send"} => q.code \in Code

CredIInv ==
    /\ Cred!TypeOK
    /\ user.verified => user.there
    /\ \A r \in Request : CredFits(request[r])

LEMMA CredInitIInv == Cred!Init => CredIInv
BY DEF Cred!Init, CredIInv, Cred!TypeOK, Cred!Idle, Cred!Op, CredFits

(* A step of one request that goes on, or ends, with what it read           *)
LEMMA CredStep ==
    ASSUME CredIInv, NEW r \in Request,
           NEW q \in [op : Cred!Op, code : Code \cup {Cred!NoCode},
                      at : {"idle", "read", "clear", "generate", "store", "send"}],
           request' = [request EXCEPT ![r] = q],
           CredFits(q),
           user' \in [there : BOOLEAN, verified : BOOLEAN, password : Request \cup {Cred!NoCode}],
           user'.verified => user'.there, user.there => user'.there,
           tokens' \subseteq Code, mailed \subseteq mailed', mailed' \subseteq Code,
           resetToken' \in Code \cup {Cred!NoCode}
    PROVE  CredIInv'
<1>1. Cred!TypeOK'
  BY DEF CredIInv, Cred!TypeOK
<1>2. ASSUME NEW x \in Request PROVE CredFits(request[x])'
  BY DEF CredIInv, Cred!TypeOK, CredFits
<1> QED BY <1>1, <1>2 DEF CredIInv

LEMMA CredNextIInv == CredIInv /\ [Cred!Next]_(Cred!vars) => CredIInv'
<1> SUFFICES ASSUME CredIInv, [Cred!Next]_(Cred!vars) PROVE CredIInv'
  OBVIOUS
<1> DEFINE Q == [op : Cred!Op, code : Code \cup {Cred!NoCode},
                 at : {"idle", "read", "clear", "generate", "store", "send"}]
<1>0. /\ Cred!Idle \in Q /\ Cred!Idle.op # "verify"
      /\ CredFits(Cred!Idle)
      /\ \A r \in Request : request[r] \in Q /\ CredFits(request[r])
      /\ request \in [Request -> Q]
  BY DEF CredIInv, Cred!TypeOK, Cred!Idle, Cred!Op, CredFits
<1>1. ASSUME NEW r \in Request,
             Cred!Register(r) \/ Cred!ResendVerification(r)
                \/ (\E c \in Code : Cred!ReadToken(r, c) \/ Cred!FindByResetToken(r, c))
      PROVE  CredIInv'
  <2>1. PICK op \in Cred!Op, step \in {"read", "clear"}, c \in Code \cup {Cred!NoCode} :
           /\ request' = [request EXCEPT ![r] = [op |-> op, at |-> step, code |-> c]]
           /\ op = "verify" => user.there /\ c \in mailed
           /\ UNCHANGED <<user, tokens, mailed, resetToken>>
    BY <1>1 DEF Cred!Register, Cred!ResendVerification, Cred!ReadToken,
                Cred!FindByResetToken, Cred!Begin, Cred!Op
  <2>2. [op |-> op, at |-> step, code |-> c] \in Q
    OBVIOUS
  <2>3. CredFits([op |-> op, at |-> step, code |-> c])
    BY <2>1 DEF CredFits
  <2> QED BY <2>1, <2>2, <2>3, CredStep DEF CredIInv, Cred!TypeOK
<1>2. ASSUME NEW r \in Request,
             Cred!CreateUser(r) \/ Cred!UpdateUser(r) \/ Cred!UpdatePassword(r)
                \/ Cred!VerifyEmail(r)
      PROVE  CredIInv'
  <2>1. PICK q \in Q : request' = [request EXCEPT ![r] = q] /\ CredFits(q)
    BY <1>0, <1>2 DEF Cred!CreateUser, Cred!UpdateUser, Cred!UpdatePassword,
                Cred!VerifyEmail, Cred!Leave, Cred!Goto, Cred!At, CredFits
  <2>2. /\ user' \in [there : BOOLEAN, verified : BOOLEAN, password : Request \cup {Cred!NoCode}]
        /\ user'.verified => user'.there
        /\ user.there => user'.there
        /\ tokens' \subseteq Code /\ mailed' = mailed
        /\ resetToken' \in Code \cup {Cred!NoCode}
    <3>1. CASE Cred!CreateUser(r)
      <4>1. \/ user' = user
            \/ user' = [there |-> TRUE, verified |-> FALSE, password |-> r]
        BY <3>1 DEF Cred!CreateUser
      <4>2. UNCHANGED <<tokens, mailed, resetToken>>
        BY <3>1 DEF Cred!CreateUser
      <4>3. CASE user' = user
        BY <4>2, <4>3 DEF CredIInv, Cred!TypeOK
      <4>4. CASE user' = [there |-> TRUE, verified |-> FALSE, password |-> r]
        <5>1. user'.there = TRUE
          BY <4>4
        <5> QED BY <4>2, <4>4, <5>1 DEF CredIInv, Cred!TypeOK
      <4> QED BY <4>1, <4>3, <4>4
    <3>2. CASE Cred!UpdateUser(r)
      BY <3>2 DEF CredIInv, Cred!TypeOK, Cred!UpdateUser
    <3>3. CASE Cred!UpdatePassword(r)
      BY <3>3 DEF CredIInv, Cred!TypeOK, Cred!UpdatePassword
    <3>4. CASE Cred!VerifyEmail(r)
      <4>1. user.there
        BY <3>4 DEF CredIInv, CredFits, Cred!VerifyEmail, Cred!At
      <4> QED BY <3>4, <4>1 DEF CredIInv, Cred!TypeOK, Cred!VerifyEmail
    <3> QED BY <1>2, <3>1, <3>2, <3>3, <3>4
  <2> QED BY <2>1, <2>2, CredStep DEF CredIInv, Cred!TypeOK
<1>3. ASSUME NEW r \in Request,
             Cred!ClearTokens(r) \/ Cred!StoreToken(r) \/ Cred!SendCode(r) \/ Cred!Fails(r)
                \/ (\E c \in Code : Cred!GenerateOtp(r, c))
      PROVE  CredIInv'
  <2>1. PICK q \in Q : request' = [request EXCEPT ![r] = q] /\ CredFits(q)
    BY <1>0, <1>3 DEF Cred!ClearTokens, Cred!StoreToken, Cred!SendCode, Cred!Fails,
                Cred!GenerateOtp, Cred!Leave, Cred!Goto, Cred!At, CredFits
  <2>2. /\ user' = user /\ tokens' \subseteq Code /\ mailed' \subseteq Code
        /\ mailed \subseteq mailed' /\ resetToken' = resetToken
    <3>1. request[r].at \in {"store", "send"} => request[r].code \in Code
      BY <1>0 DEF CredFits
    <3> QED BY <1>3, <3>1 DEF CredIInv, Cred!TypeOK, Cred!ClearTokens, Cred!StoreToken,
                Cred!SendCode, Cred!Fails, Cred!GenerateOtp, Cred!At
  <2> QED BY <2>1, <2>2, CredStep DEF CredIInv, Cred!TypeOK
<1>4. ASSUME NEW c \in Code, Cred!IssueResetToken(c) \/ Cred!TokenExpires(c)
      PROVE  CredIInv'
  BY <1>4 DEF CredIInv, Cred!TypeOK, Cred!IssueResetToken, Cred!TokenExpires, CredFits
<1>5. CASE UNCHANGED Cred!vars
  BY <1>5 DEF CredIInv, Cred!TypeOK, Cred!vars, CredFits
<1> QED BY <1>1, <1>2, <1>3, <1>4, <1>5 DEF Cred!Next

(* verifyEmail: an address becomes verified once, by a code that was mailed *)
(* and is deleted with it.                                                  *)
THEOREM ValidCodes ==
    (Cred!Spec => VerifiedByValidCode) /\ (SumSpec => VerifiedByValidCode)
<1> DEFINE Valid == user'.verified # user.verified
                        => \E c \in tokens \cap mailed : tokens' = tokens \ {c}
<1>1. CredIInv /\ [Cred!Next]_(Cred!vars) => [Valid]_(Cred!vars)
  <2> SUFFICES ASSUME CredIInv, Cred!Next, user'.verified # user.verified
               PROVE  \E c \in tokens \cap mailed : tokens' = tokens \ {c}
    OBVIOUS
  <2>1. user.there \in BOOLEAN /\ user.verified \in BOOLEAN
    BY DEF CredIInv, Cred!TypeOK
  <2>2. ASSUME NEW r \in Request, Cred!CreateUser(r) PROVE FALSE
    <3>1. ~user.verified /\ user'.verified = FALSE
      BY <2>2 DEF CredIInv, Cred!CreateUser
    <3>2. user.verified = FALSE
      BY <2>1, <3>1
    <3> QED BY <3>1, <3>2
  <2>3. ASSUME NEW r \in Request, Cred!UpdateUser(r) \/ Cred!UpdatePassword(r) PROVE FALSE
    BY <2>3 DEF CredIInv, Cred!TypeOK, Cred!UpdateUser, Cred!UpdatePassword
  <2>4. user' = user \/ \E r \in Request : Cred!VerifyEmail(r)
    BY <2>2, <2>3 DEF Cred!Next, Cred!Register, Cred!ResendVerification,
           Cred!ClearTokens, Cred!StoreToken, Cred!SendCode, Cred!Fails, Cred!GenerateOtp,
           Cred!ReadToken, Cred!FindByResetToken, Cred!IssueResetToken, Cred!TokenExpires
  <2>5. PICK r \in Request : Cred!VerifyEmail(r)
    BY <2>4
  <2>6. request[r].code \in tokens /\ tokens' = tokens \ {request[r].code}
    BY <2>5 DEF Cred!VerifyEmail
  <2>7. request[r].op = "verify" /\ request[r].at = "read" /\ CredFits(request[r])
    BY <2>5 DEF CredIInv, Cred!VerifyEmail, Cred!At
  <2> QED BY <2>6, <2>7 DEF CredFits
<1>2. Cred!Spec => [][Valid]_(Cred!vars)
  BY <1>1, CredInitIInv, CredNextIInv, PTL DEF Cred!Spec
<1>3. SumSpec => [][Valid]_(Cred!vars)
  BY <1>1, CredInitIInv, CredNextIInv, PartInits, PartSteps, PTL DEF SumSpec
<1> QED BY <1>2, <1>3 DEF VerifiedByValidCode, Cred!VerifiedByValidCode
-----------------------------------------------------------------------------
(* Throttler: a process counts in its memory in one step; what Redis has    *)
(* counted within the limit is admitted or about to be.                     *)
Within == {h \in Hit : hit[h].at = "counted" /\ Throttle!Within(hit[h].n)}

ThrottleIInv ==
    /\ Throttle!TypeOK
    /\ \A p \in Process : admitted[p] <= hits[p] /\ admitted[p] <= Limit
    /\ admitted[Throttle!Redis] + Cardinality(Within) <= hits[Throttle!Redis]
    /\ admitted[Throttle!Redis] + Cardinality(Within) <= Limit

LEMMA WithinType ==
    /\ Within \in SUBSET Hit /\ IsFiniteSet(Within) /\ Cardinality(Within) \in Nat
    /\ IsFiniteSet(Within') /\ Cardinality(Within') \in Nat
<1>1. Within \in SUBSET Hit /\ Within' \in SUBSET Hit
  BY DEF Within
<1> QED BY <1>1, ThrottlerAssumption, FS_Subset, FS_CardinalityType

LEMMA Stores ==
    /\ Throttle!Redis \in Throttle!Store
    /\ \A p \in Process : p \in Throttle!Store /\ p # Throttle!Redis
BY ThrottlerAssumption DEF Throttle!Redis, Throttle!Store

LEMMA ThrottleNumbers ==
    ASSUME Throttle!TypeOK
    PROVE  /\ Limit \in Nat /\ HitBound \in Nat
           /\ \A s \in Throttle!Store : hits[s] \in Nat /\ admitted[s] \in Nat
           /\ \A h \in Hit : hit[h].n \in Nat
BY ThrottlerAssumption DEF Throttle!TypeOK

LEMMA ThrottleInitIInv == Throttle!Init => ThrottleIInv
<1> SUFFICES ASSUME Throttle!Init PROVE ThrottleIInv
  OBVIOUS
<1>1. Throttle!TypeOK
  BY ThrottlerAssumption DEF Throttle!Init, Throttle!TypeOK, Throttle!Idle
<1>2. Cardinality(Within) = 0
  <2>1. Within = {}
    BY DEF Within, Throttle!Init, Throttle!Idle
  <2> QED BY <2>1, FS_EmptySet
<1> QED BY <1>1, <1>2, ThrottlerAssumption, Stores DEF Throttle!Init, ThrottleIInv

(* A step after which no more requests are about to be admitted             *)
LEMMA NoMoreWithin ==
    ASSUME ThrottleIInv, Throttle!TypeOK', Within' \subseteq Within,
           \/ hits'[Throttle!Redis] = hits[Throttle!Redis]
              /\ admitted'[Throttle!Redis] = admitted[Throttle!Redis]
           \/ admitted'[Throttle!Redis] = 0 /\ Within' = {},
           \A p \in Process : admitted'[p] <= hits'[p] /\ admitted'[p] <= Limit
    PROVE  ThrottleIInv'
<1>1. Cardinality(Within') <= Cardinality(Within)
  BY WithinType, FS_Subset
<1>2. Within' = {} => Cardinality(Within') = 0
  BY FS_EmptySet
<1>3. /\ hits[Throttle!Redis] \in Nat /\ admitted[Throttle!Redis] \in Nat /\ Limit \in Nat
      /\ hits'[Throttle!Redis] \in Nat /\ admitted'[Throttle!Redis] \in Nat
  BY Stores, ThrottlerAssumption DEF ThrottleIInv, Throttle!TypeOK
<1> QED BY <1>1, <1>2, <1>3, WithinType DEF ThrottleIInv

LEMMA IncrementStep ==
    ASSUME ThrottleIInv, NEW h \in Hit, Throttle!Increment(h)
    PROVE  ThrottleIInv'
<1> DEFINE R == Throttle!Redis
<1>1. /\ hits[R] \in Nat /\ admitted[R] \in Nat /\ Limit \in Nat /\ hits[R] < HitBound
      /\ hits' = [hits EXCEPT ![R] = hits[R] + 1] /\ admitted' = admitted
      /\ hits'[R] = hits[R] + 1
      /\ \A p \in Process : hits'[p] = hits[p]
  BY Stores, ThrottlerAssumption DEF ThrottleIInv, Throttle!TypeOK, Throttle!Increment
<1>2. PICK b \in BOOLEAN :
         hit' = [hit EXCEPT ![h] = [at |-> "counted", n |-> hits[R] + 1, expires |-> b]]
  BY DEF Throttle!Increment
<1>3. Throttle!TypeOK'
  BY <1>1, <1>2, Stores, ThrottlerAssumption DEF ThrottleIInv, Throttle!TypeOK,
     Throttle!Increment
<1>4. h \notin Within
  BY DEF Within, Throttle!Increment
<1>5. CASE hits[R] + 1 <= Limit
  <2>1. Within' = Within \cup {h}
    BY <1>2, <1>5 DEF ThrottleIInv, Throttle!TypeOK, Within, Throttle!Within
  <2>2. Cardinality(Within') = Cardinality(Within) + 1
    BY <1>4, <2>1, WithinType, FS_AddElement
  <2> QED BY <1>1, <1>3, <1>5, <2>2, WithinType, Stores DEF ThrottleIInv
<1>6. CASE ~(hits[R] + 1 <= Limit)
  <2>1. Within' = Within
    BY <1>2, <1>4, <1>6 DEF ThrottleIInv, Throttle!TypeOK, Within, Throttle!Within
  <2> QED BY <1>1, <1>3, <2>1, WithinType, Stores DEF ThrottleIInv
<1> QED BY <1>5, <1>6

LEMMA AnswerStep ==
    ASSUME ThrottleIInv, NEW h \in Hit, Throttle!Answer(h)
    PROVE  ThrottleIInv'
<1> DEFINE R == Throttle!Redis
<1>1. /\ hits[R] \in Nat /\ admitted[R] \in Nat /\ Limit \in Nat /\ HitBound \in Nat
      /\ hits[R] <= HitBound /\ hits' = hits
      /\ hit' = [hit EXCEPT ![h] = Throttle!Idle]
  BY Stores, ThrottlerAssumption DEF ThrottleIInv, Throttle!TypeOK, Throttle!Answer
<1>2. Within' = Within \ {h}
  BY <1>1 DEF ThrottleIInv, Throttle!TypeOK, Within, Throttle!Idle
<1>3. CASE Throttle!Within(hit[h].n)
  <2>1. h \in Within
    BY <1>3 DEF Within, Throttle!Answer
  <2>2. Cardinality(Within') = Cardinality(Within) - 1
    BY <1>2, <2>1, WithinType, FS_RemoveElement
  <2>3. /\ admitted' = [admitted EXCEPT ![R] = admitted[R] + 1] /\ blocked' = blocked
        /\ admitted'[R] = admitted[R] + 1 /\ \A p \in Process : admitted'[p] = admitted[p]
    BY <1>3, Stores DEF ThrottleIInv, Throttle!TypeOK, Throttle!Answer
  <2>4. admitted[R] + 1 <= HitBound
    BY <1>1, <2>2, WithinType DEF ThrottleIInv
  <2>5. Throttle!TypeOK'
    BY <1>1, <2>3, <2>4, Stores DEF ThrottleIInv, Throttle!TypeOK, Throttle!Answer,
       Throttle!Idle
  <2> QED BY <1>1, <2>2, <2>3, <2>5, WithinType, Stores DEF ThrottleIInv
<1>4. CASE ~Throttle!Within(hit[h].n)
  <2>1. Within' = Within
    BY <1>2, <1>4 DEF Within
  <2>2. admitted' = admitted /\ blocked' = blocked \cup {R}
    BY <1>4 DEF Throttle!Answer
  <2>3. Throttle!TypeOK'
    BY <1>1, <2>2, Stores DEF ThrottleIInv, Throttle!TypeOK, Throttle!Answer, Throttle!Idle
  <2> QED BY <1>1, <2>1, <2>2, <2>3 DEF ThrottleIInv
<1> QED BY <1>3, <1>4

LEMMA CountInMemoryStep ==
    ASSUME ThrottleIInv, NEW h \in Hit, NEW p \in Process, Throttle!CountInMemory(h, p)
    PROVE  ThrottleIInv'
<1>1. /\ hits[p] \in Nat /\ admitted[p] \in Nat /\ Limit \in Nat /\ HitBound \in Nat
      /\ hits[p] < HitBound /\ p \in Throttle!Store /\ p # Throttle!Redis
      /\ admitted[p] <= hits[p]
  BY Stores, ThrottlerAssumption DEF ThrottleIInv, Throttle!TypeOK, Throttle!CountInMemory
<1>2. \/ hits' = hits /\ admitted' = admitted
      \/ hits' = [hits EXCEPT ![p] = hits[p] + 1] /\ admitted' = admitted
      \/ /\ hits' = [hits EXCEPT ![p] = hits[p] + 1] /\ hits[p] + 1 <= Limit
         /\ admitted' = [admitted EXCEPT ![p] = admitted[p] + 1]
  BY DEF Throttle!CountInMemory, Throttle!Within
<1>3. Throttle!TypeOK'
  <2>1. Throttle!TypeOK
    BY DEF ThrottleIInv
  <2>2. /\ hits' \in [Throttle!Store -> 0..HitBound]
        /\ admitted' \in [Throttle!Store -> 0..HitBound]
    BY <1>1, <1>2, <2>1 DEF Throttle!TypeOK
  <2>3. blocked' \subseteq Throttle!Store /\ lasting' \subseteq Throttle!Store
    BY <1>1, <2>1 DEF Throttle!TypeOK, Throttle!CountInMemory
  <2>4. hit' \in [Hit -> [at : {"idle", "free", "counted"}, n : 0..HitBound, expires : BOOLEAN]]
    BY <1>1, <2>1 DEF Throttle!TypeOK, Throttle!CountInMemory, Throttle!Idle
  <2> QED BY <2>2, <2>3, <2>4 DEF Throttle!TypeOK
<1>4. Within' \subseteq Within
  <2>1. hit' = [hit EXCEPT ![h] = Throttle!Idle]
    BY DEF Throttle!CountInMemory
  <2>2. hit'[h].at = "idle" /\ \A g \in Hit : g # h => hit'[g] = hit[g]
    BY <2>1 DEF ThrottleIInv, Throttle!TypeOK, Throttle!Idle
  <2> QED BY <2>2 DEF Within
<1>5. /\ hits'[Throttle!Redis] = hits[Throttle!Redis]
      /\ admitted'[Throttle!Redis] = admitted[Throttle!Redis]
  BY <1>1, <1>2, Stores DEF ThrottleIInv, Throttle!TypeOK
<1>6. ASSUME NEW q \in Process PROVE admitted'[q] <= hits'[q] /\ admitted'[q] <= Limit
  <2>1. /\ hits[q] \in Nat /\ admitted[q] \in Nat
        /\ admitted[q] <= hits[q] /\ admitted[q] <= Limit
    BY Stores DEF ThrottleIInv, Throttle!TypeOK
  <2> QED BY <1>1, <1>2, <2>1, Stores DEF ThrottleIInv, Throttle!TypeOK
<1> QED BY <1>3, <1>4, <1>5, <1>6, NoMoreWithin

LEMMA ThrottleNextIInv == ThrottleIInv /\ [Throttle!Next]_(Throttle!vars) => ThrottleIInv'
<1> SUFFICES ASSUME ThrottleIInv, [Throttle!Next]_(Throttle!vars) PROVE ThrottleIInv'
  OBVIOUS
<1>1. ASSUME NEW h \in Hit, Throttle!Increment(h) \/ Throttle!Answer(h)
                \/ (\E p \in Process : Throttle!CountInMemory(h, p))
      PROVE  ThrottleIInv'
  BY <1>1, IncrementStep, AnswerStep, CountInMemoryStep
<1>2. ASSUME NEW h \in Hit, Throttle!ReadBlock(h) PROVE ThrottleIInv'
  <2>1. Throttle!TypeOK' /\ Within' \subseteq Within
    BY <1>2 DEF ThrottleIInv, Throttle!TypeOK, Throttle!ReadBlock, Within
  <2> QED BY <1>2, <2>1, NoMoreWithin DEF ThrottleIInv, Throttle!ReadBlock
<1>3. ASSUME NEW s \in Throttle!Store, Throttle!WindowEnds(s) PROVE ThrottleIInv'
  <2>1. Throttle!TypeOK'
    BY <1>3, ThrottlerAssumption DEF ThrottleIInv, Throttle!TypeOK, Throttle!WindowEnds
  <2>2. Within' = Within /\ (s = Throttle!Redis => Within' = {})
    BY <1>3 DEF Throttle!WindowEnds, Within
  <2>3. \/ hits'[Throttle!Redis] = hits[Throttle!Redis]
           /\ admitted'[Throttle!Redis] = admitted[Throttle!Redis]
        \/ admitted'[Throttle!Redis] = 0 /\ Within' = {}
    BY <1>3, <2>2, Stores DEF ThrottleIInv, Throttle!TypeOK, Throttle!WindowEnds
  <2>4. \A p \in Process : admitted'[p] <= hits'[p] /\ admitted'[p] <= Limit
    BY <1>3, Stores, ThrottlerAssumption DEF ThrottleIInv, Throttle!TypeOK,
       Throttle!WindowEnds
  <2> QED BY <2>1, <2>2, <2>3, <2>4, NoMoreWithin
<1>4. CASE (\E s \in Throttle!Store : Throttle!BlockEnds(s)) \/ UNCHANGED Throttle!vars
  <2>1. UNCHANGED <<hits, admitted, hit>> /\ Throttle!TypeOK'
    BY <1>4 DEF ThrottleIInv, Throttle!TypeOK, Throttle!BlockEnds, Throttle!vars
  <2>2. Within' = Within
    BY <2>1 DEF Within
  <2> QED BY <2>1, <2>2, NoMoreWithin DEF ThrottleIInv
<1> QED BY <1>1, <1>2, <1>3, <1>4 DEF Throttle!Next

(* RedisThrottlerStorage: in a window a store admits no more than Limit     *)
(* requests, however they overlap and however often Redis comes and goes.   *)
THEOREM LimitHolds ==
    (Throttle!Spec => []AdmittedWithinLimit) /\ (SumSpec => []AdmittedWithinLimit)
<1>1. ThrottleIInv => AdmittedWithinLimit
  <2> SUFFICES ASSUME ThrottleIInv, NEW s \in Throttle!Store PROVE admitted[s] <= Limit
    BY DEF AdmittedWithinLimit, Throttle!AdmittedWithinLimit
  <2>1. admitted[Throttle!Redis] \in Nat
    BY Stores DEF ThrottleIInv, Throttle!TypeOK
  <2>2. admitted[Throttle!Redis] <= Limit
    BY <2>1, WithinType, ThrottlerAssumption DEF ThrottleIInv
  <2> QED BY <2>2 DEF ThrottleIInv, Throttle!Store
<1>2. Throttle!Spec => []AdmittedWithinLimit
  BY <1>1, ThrottleInitIInv, ThrottleNextIInv, PTL DEF Throttle!Spec
<1>3. SumSpec => []AdmittedWithinLimit
  BY <1>1, ThrottleInitIInv, ThrottleNextIInv, PartInits, PartSteps, PTL DEF SumSpec
<1> QED BY <1>2, <1>3
-----------------------------------------------------------------------------
(* CacheLock: who works on time has his token in the store he locked, and a *)
(* store has one token.                                                     *)
CLockIInv ==
    /\ CLock!TypeOK
    /\ \A t \in Task : t \notin late =>
          /\ task[t] = "redis"  => lock[CLock!Redis] = t
          /\ task[t] = "memory" => lock[Home[t]] = t

LEMMA CLockInitIInv == CLock!Init => CLockIInv
BY DEF CLock!Init, CLockIInv, CLock!TypeOK

(* Homes are stores, and Redis is nobody's home.                            *)
LEMMA Homes ==
    /\ CLock!Redis \in CLock!Store /\ CLock!NoTask \notin Task
    /\ \A t \in Task : Home[t] \in CLock!Store /\ Home[t] # CLock!Redis
BY CacheLockAssumption, ThrottlerAssumption DEF CLock!Redis, CLock!Store, CLock!NoTask

LEMMA CLockNextIInv == CLockIInv /\ [CLock!Next]_(CLock!vars) => CLockIInv'
<1> SUFFICES ASSUME CLockIInv, [CLock!Next]_(CLock!vars) PROVE CLockIInv'
  OBVIOUS
<1> USE Homes DEF CLockIInv, CLock!TypeOK
<1>1. ASSUME NEW t \in Task, CLock!AcquireRedis(t) PROVE CLockIInv'
  BY <1>1 DEF CLock!AcquireRedis, CLock!Mirrored, CLock!Store
<1>2. ASSUME NEW t \in Task, CLock!AcquireMemory(t) PROVE CLockIInv'
  BY <1>2 DEF CLock!AcquireMemory
<1>3. ASSUME NEW t \in Task, CLock!Release(t) PROVE CLockIInv'
  BY <1>3 DEF CLock!Release, CLock!Released
<1>4. ASSUME NEW s \in CLock!Store, CLock!Expire(s) PROVE CLockIInv'
  BY <1>4 DEF CLock!Expire
<1>5. CASE UNCHANGED CLock!vars
  BY <1>5 DEF CLock!vars
<1> QED BY <1>1, <1>2, <1>3, <1>4, <1>5 DEF CLock!Next

(* acquireLock and releaseLock: two tasks that locked in one store work at  *)
(* once only if a lock expired, however Redis comes and goes.               *)
THEOREM StoreExcludes ==
    (CLock!Spec => []ExclusiveInStore) /\ (SumSpec => []ExclusiveInStore)
<1>1. CLockIInv => ExclusiveInStore
  BY DEF CLockIInv, CLock!TypeOK, ExclusiveInStore, CLock!ExclusiveInStore, CLock!OnTime
<1>2. CLock!Spec => []ExclusiveInStore
  BY <1>1, CLockInitIInv, CLockNextIInv, PTL DEF CLock!Spec
<1>3. SumSpec => []ExclusiveInStore
  BY <1>1, CLockInitIInv, CLockNextIInv, PartInits, PartSteps, PTL DEF SumSpec
<1> QED BY <1>2, <1>3
-----------------------------------------------------------------------------
(* TieredCache: once the memory of the process that made the last change is *)
(* invalidated, it and whoever is about to store has only values that are   *)
(* current or late; once Redis is invalidated too, so has Redis.            *)
Settled(e) == e = Cache!None \/ e.late \/ e.v = version

Pending(r) == read[r].at \in {"computed", "stored"}

CacheIInv ==
    /\ Cache!TypeOK
    /\ write.at = "memory" \/ (write.at = "idle" /\ ~missed)
           => /\ Settled(memory[write.home])
              /\ \A r \in Read : Pending(r) => Settled(read[r].entry)
    /\ write.at = "idle" /\ ~missed => Settled(redis)

LEMMA CacheInitIInv == Cache!Init => CacheIInv
<1> SUFFICES ASSUME Cache!Init PROVE CacheIInv
  OBVIOUS
<1>1. Cache!TypeOK
  <2>1. 0 \in 0..VersionBound
    BY CacheAssumption
  <2>2. write \in [at : {"idle", "written", "memory"}, home : Process]
    BY DEF Cache!Init
  <2>3. /\ memory \in [Process -> Cache!Entry \cup {Cache!None}]
        /\ redis \in Cache!Entry \cup {Cache!None}
        /\ \A r \in Read : read[r] = Cache!Idle
        /\ read = [r \in Read |-> Cache!Idle]
    BY DEF Cache!Init
  <2> QED BY <2>1, <2>2, <2>3 DEF Cache!Init, Cache!TypeOK
<1>2. \A r \in Read : ~Pending(r)
  BY DEF Cache!Init, Pending, Cache!Idle
<1>3. write.home \in Process /\ memory[write.home] = Cache!None /\ redis = Cache!None
  BY DEF Cache!Init
<1> QED BY <1>1, <1>2, <1>3 DEF CacheIInv, Settled

(* What a call that is under way has                                        *)
Reading == {Cache!Idle} \cup [at : {"missing"}, home : Process]
              \cup [at : {"computed", "stored"}, home : Process, entry : Cache!Entry]

LEMMA ReadingType ==
    ASSUME Cache!TypeOK, NEW r \in Read
    PROVE  /\ read \in [Read -> Reading] /\ read[r] \in Reading
           /\ Pending(r) => /\ read[r] \in [at : {"computed", "stored"}, home : Process,
                                            entry : Cache!Entry]
                            /\ read[r].home \in Process /\ read[r].entry \in Cache!Entry
           /\ read[r].at = "missing" => read[r].home \in Process
<1>1. read \in [Read -> Reading] /\ read[r] \in Reading
  BY DEF Cache!TypeOK, Reading
<1> QED BY <1>1 DEF Reading, Pending, Cache!Idle

(* A call that goes on, and leaves the stores as they are but for the value *)
(* it has computed                                                          *)
LEMMA CallGoesOn ==
    ASSUME CacheIInv, NEW r \in Read, NEW q \in Reading,
           read' = [read EXCEPT ![r] = q],
           q.at \in {"computed", "stored"} =>
               \/ q.entry.v = version
               \/ Pending(r) /\ q.entry = read[r].entry,
           UNCHANGED <<version, write, missed>>,
           up' \subseteq Process,
           \/ memory' = memory
           \/ Pending(r) /\ memory' = [memory EXCEPT ![read[r].home] = read[r].entry],
           redis' = redis \/ (Pending(r) /\ redis' = read[r].entry)
    PROVE  CacheIInv'
<1>1. Cache!TypeOK'
  BY ReadingType DEF CacheIInv, Cache!TypeOK, Reading
<1>2. ASSUME NEW x \in Read, Pending(x)', \A y \in Read : Pending(y) => Settled(read[y].entry)
      PROVE  Settled(read'[x].entry)
  BY <1>2 DEF CacheIInv, Cache!TypeOK, Settled, Pending
<1>3. ASSUME Settled(memory[write.home]),
             \A y \in Read : Pending(y) => Settled(read[y].entry)
      PROVE  Settled(memory'[write.home])
  BY <1>3 DEF CacheIInv, Cache!TypeOK, Settled
<1>4. \A e : Settled(e)' <=> Settled(e)
  BY DEF Settled
<1> QED BY <1>1, <1>2, <1>3, <1>4 DEF CacheIInv

(* Values that were computed before an invalidation are late from now on.   *)
LEMMA LateType ==
    ASSUME Cache!TypeOK
    PROVE  /\ Cache!Late \in [Read -> Reading]
           /\ \A r \in Read : Cache!Late[r].at \in {"computed", "stored"}
                                 => Cache!Late[r].entry.late = TRUE
<1>1. ASSUME NEW r \in Read
      PROVE  /\ Cache!Late[r] \in Reading
             /\ Cache!Late[r].at \in {"computed", "stored"} => Cache!Late[r].entry.late = TRUE
  <2>1. CASE Pending(r)
    <3>1. Cache!Late[r] = [read[r] EXCEPT !.entry.late = TRUE]
      BY <2>1 DEF Cache!Late, Pending
    <3>2. /\ read[r] \in [at : {"computed", "stored"}, home : Process, entry : Cache!Entry]
          /\ read[r].entry \in Cache!Entry
      BY <2>1, ReadingType
    <3>3. ASSUME NEW e \in Cache!Entry
          PROVE  /\ [e EXCEPT !.late = TRUE] \in Cache!Entry
                 /\ [e EXCEPT !.late = TRUE].late = TRUE
      BY DEF Cache!Entry
    <3>4. Cache!Late[r] = [at |-> read[r].at, home |-> read[r].home,
                           entry |-> [read[r].entry EXCEPT !.late = TRUE]]
      BY <3>1, <3>2
    <3> DEFINE e == [read[r].entry EXCEPT !.late = TRUE]
    <3>5. e \in Cache!Entry /\ e.late = TRUE
      BY <3>2, <3>3
    <3>6. Cache!Late[r] = [at |-> read[r].at, home |-> read[r].home, entry |-> e]
      BY <3>4
    <3> HIDE DEF e
    <3>7. read[r].at \in {"computed", "stored"} /\ read[r].home \in Process
      BY <3>2
    <3>8. Cache!Late[r] \in Reading
      BY <3>5, <3>6, <3>7 DEF Reading
    <3>9. Cache!Late[r].entry = e
      BY <3>6
    <3> QED BY <3>5, <3>8, <3>9
  <2>2. CASE ~Pending(r)
    BY <2>2, ReadingType DEF Cache!Late, Pending
  <2> QED BY <2>1, <2>2
<1>2. Cache!Late = [r \in Read |-> Cache!Late[r]]
  BY DEF Cache!Late
<1> QED BY <1>1, <1>2

LEMMA CacheNextIInv == CacheIInv /\ [Cache!Next]_(Cache!vars) => CacheIInv'
<1> SUFFICES ASSUME CacheIInv, [Cache!Next]_(Cache!vars) PROVE CacheIInv'
  OBVIOUS
<1>1. ASSUME NEW r \in Read, Cache!SetMemory(r) \/ Cache!SetRedis(r) \/ Cache!SetRedisFails(r)
      PROVE  CacheIInv'
  <2>1. Pending(r) /\ read[r].home \in Process
    BY <1>1, ReadingType DEF CacheIInv, Cache!SetMemory, Cache!SetRedis,
       Cache!SetRedisFails, Pending
  <2>2. [read[r] EXCEPT !.at = "stored"] \in Reading /\ Cache!Idle \in Reading
    BY <2>1, ReadingType DEF CacheIInv, Reading
  <2>3. [read[r] EXCEPT !.at = "stored"].entry = read[r].entry
    BY <2>1, ReadingType DEF CacheIInv
  <2>4. CASE Cache!SetMemory(r)
    <3> DEFINE q == [read[r] EXCEPT !.at = "stored"]
    <3>1. /\ read' = [read EXCEPT ![r] = q]
          /\ memory' = [memory EXCEPT ![read[r].home] = read[r].entry]
          /\ UNCHANGED <<version, redis, up, write, missed>>
      BY <2>4 DEF Cache!SetMemory
    <3> HIDE DEF q
    <3>2. q \in Reading /\ q.entry = read[r].entry
      BY <2>2, <2>3 DEF q
    <3> QED BY <2>1, <3>1, <3>2, CallGoesOn DEF CacheIInv, Cache!TypeOK
  <2>5. CASE Cache!SetRedis(r) \/ Cache!SetRedisFails(r)
    <3>1. Cache!Idle.at = "idle"
      BY DEF Cache!Idle
    <3> QED BY <2>1, <2>2, <2>5, <3>1, CallGoesOn DEF Cache!SetRedis, Cache!SetRedisFails,
        CacheIInv, Cache!TypeOK
  <2> QED BY <1>1, <2>4, <2>5
<1>2. ASSUME NEW r \in Read, NEW p \in Process, NEW force \in BOOLEAN, Cache!Get(r, p, force)
      PROVE  CacheIInv'
  <2> DEFINE q == [at |-> "missing", home |-> p]
  <2>1. q \in Reading /\ q.at = "missing"
    BY DEF Reading
  <2>2. read' = [read EXCEPT ![r] = q] /\ UNCHANGED <<version, memory, redis, up, write, missed>>
    BY <1>2 DEF Cache!Get
  <2> HIDE DEF q
  <2> QED BY <2>1, <2>2, CallGoesOn DEF CacheIInv, Cache!TypeOK
<1>3. ASSUME NEW r \in Read, Cache!Compute(r) PROVE CacheIInv'
  <2> DEFINE q == [at |-> "computed", home |-> read[r].home,
                   entry |-> [v |-> version, late |-> FALSE]]
  <2>1. q \in Reading /\ q.entry.v = version
    BY <1>3, ReadingType DEF CacheIInv, Cache!TypeOK, Cache!Compute, Reading, Cache!Entry
  <2>2. read' = [read EXCEPT ![r] = q] /\ UNCHANGED <<version, memory, redis, up, write, missed>>
    BY <1>3 DEF Cache!Compute
  <2> HIDE DEF q
  <2> QED BY <2>1, <2>2, CallGoesOn DEF CacheIInv, Cache!TypeOK
<1>4. ASSUME NEW p \in Process, Cache!Change(p) PROVE CacheIInv'
  BY <1>4, CacheAssumption DEF CacheIInv, Cache!TypeOK, Cache!Change
<1>5. CASE Cache!InvalidateMemory
  <2>1. Cache!TypeOK'
    BY <1>5, LateType DEF CacheIInv, Cache!TypeOK, Cache!InvalidateMemory, Reading
  <2>2. write'.at = "memory" /\ write'.home = write.home /\ write.home \in Process
    BY <1>5 DEF CacheIInv, Cache!TypeOK, Cache!InvalidateMemory
  <2>3. memory'[write.home] = Cache!None
    BY <1>5, <2>2 DEF CacheIInv, Cache!TypeOK, Cache!InvalidateMemory
  <2>4. \A r \in Read : Pending(r)' => read'[r].entry.late
    BY <1>5, LateType DEF CacheIInv, Cache!InvalidateMemory, Pending
  <2> QED BY <2>1, <2>2, <2>3, <2>4 DEF CacheIInv, Settled
<1>6. CASE Cache!InvalidateRedis \/ Cache!InvalidateRedisFails
  <2>1. Cache!TypeOK'
    BY <1>6, LateType DEF CacheIInv, Cache!TypeOK, Cache!InvalidateRedis,
       Cache!InvalidateRedisFails, Reading
  <2>2. /\ write'.at = "idle" /\ write'.home = write.home /\ memory' = memory
        /\ version' = version /\ Settled(memory[write.home])
        /\ missed' \/ redis' = Cache!None
    BY <1>6 DEF CacheIInv, Cache!TypeOK, Cache!InvalidateRedis, Cache!InvalidateRedisFails
  <2>3. \A r \in Read : Pending(r)' => read'[r].entry.late
    BY <1>6, LateType DEF CacheIInv, Cache!InvalidateRedis, Cache!InvalidateRedisFails,
       Pending
  <2> QED BY <2>1, <2>2, <2>3 DEF CacheIInv, Settled
<1>7. CASE Cache!ChangeFails
  BY <1>7 DEF CacheIInv, Cache!TypeOK, Cache!ChangeFails
<1>8. CASE Cache!Expire
  <2>1. Cache!TypeOK'
    BY <1>8 DEF CacheIInv, Cache!TypeOK, Cache!Expire
  <2>2. /\ UNCHANGED <<version, read, write, missed>>
        /\ redis' = redis \/ redis' = Cache!None
        /\ memory'[write.home] = memory[write.home] \/ memory'[write.home] = Cache!None
    BY <1>8 DEF CacheIInv, Cache!TypeOK, Cache!Expire
  <2> QED BY <2>1, <2>2 DEF CacheIInv, Settled, Pending
<1>9. CASE (\E p \in Process : Cache!Availability(p)) \/ UNCHANGED Cache!vars
  <2>1. UNCHANGED <<version, memory, redis, read, write, missed>> /\ up' \subseteq Process
    BY <1>9 DEF CacheIInv, Cache!TypeOK, Cache!Availability, Cache!vars
  <2> QED BY <2>1 DEF CacheIInv, Cache!TypeOK, Settled, Pending
<1> QED BY <1>1, <1>2, <1>3, <1>4, <1>5, <1>6, <1>7, <1>8, <1>9 DEF Cache!Next

(* invalidatePattern: who changed the data and invalidated both stores is   *)
(* served an old value only if a reader raced with him.                     *)
THEOREM StaleByRaceOnly ==
    (Cache!Spec => []StaleOnlyByRace) /\ (SumSpec => []StaleOnlyByRace)
<1>1. CacheIInv => StaleOnlyByRace
  <2> SUFFICES ASSUME CacheIInv, write.at = "idle", ~missed,
                      Cache!Stale(Cache!Served(write.home))
               PROVE  Cache!Served(write.home).late
    BY DEF StaleOnlyByRace, Cache!StaleOnlyByRace
  <2>1. Settled(Cache!Served(write.home))
    BY DEF CacheIInv, Cache!Served
  <2>2. Cache!Served(write.home).v # version
    <3>1. Cache!Served(write.home) # Cache!None /\ Cache!Served(write.home).v < version
      BY DEF Cache!Stale
    <3>2. version \in Int
      BY CacheAssumption DEF CacheIInv, Cache!TypeOK
    <3> QED BY <3>1, <3>2
  <2> QED BY <2>1, <2>2 DEF Settled, Cache!Stale
<1>2. Cache!Spec => []StaleOnlyByRace
  BY <1>1, CacheInitIInv, CacheNextIInv, PTL DEF Cache!Spec
<1>3. SumSpec => []StaleOnlyByRace
  BY <1>1, CacheInitIInv, CacheNextIInv, PartInits, PartSteps, PTL DEF SumSpec
<1> QED BY <1>2, <1>3
=============================================================================
