------------------------- MODULE IdempotencyProofs -------------------------
(***************************************************************************)
(* The lock of IdempotencyService, for any set of callers.  IInv is         *)
(* inductive: mutual exclusion alone is not, since a second caller enters   *)
(* through a row that is absent or lapsed, and only HolderOwnsKey says that *)
(* the row is neither while somebody runs the operation.                    *)
(***************************************************************************)
EXTENDS Idempotency, TLAPS

LEMMA TypeStep == TypeOK /\ [Next]_vars => TypeOK'
<1> SUFFICES ASSUME TypeOK, [Next]_vars PROVE TypeOK'
  OBVIOUS
<1> USE DEF TypeOK, KeyState, Idle, Conflict, Holding
<1>1. ASSUME NEW c \in Caller, Call(c) PROVE TypeOK'
  BY <1>1 DEF Call, Create, Reclaim, Complete, Release, Acquired, Completed,
              Released
<1>2. ASSUME NEW c \in Caller, Crash(c) PROVE TypeOK'
  BY <1>2 DEF Crash
<1>3. CASE TimePasses
  BY <1>3 DEF TimePasses, Elapses, Elapsed
<1>4. CASE PurgeExpired
  BY <1>4 DEF PurgeExpired
<1>5. CASE UNCHANGED vars
  BY <1>5 DEF vars
<1> QED BY <1>1, <1>2, <1>3, <1>4, <1>5 DEF Next

(* The row and the callers stay within their states.                        *)
THEOREM TypeCorrect == Spec => []TypeOK
<1>1. Init => TypeOK
  BY DEF Init, TypeOK, KeyState, Idle, Conflict, Holding
<1> QED BY <1>1, TypeStep, PTL DEF Spec

IInv == TypeOK /\ HolderOwnsKey /\ MutualExclusion

LEMMA IInvInit == Init => IInv
BY DEF Init, IInv, TypeOK, KeyState, HolderOwnsKey, MutualExclusion, Idle,
       Conflict, Holding

LEMMA IInvStep ==
  ASSUME ~LeaseMayLapse, IInv, [Next]_vars
  PROVE  HolderOwnsKey' /\ MutualExclusion'
<1> USE DEF IInv, TypeOK, HolderOwnsKey, MutualExclusion, Idle, Conflict, Holding
<1>1. ASSUME NEW c \in Caller, Create(c) PROVE HolderOwnsKey' /\ MutualExclusion'
  BY <1>1 DEF Create, Acquired
<1>2. ASSUME NEW c \in Caller, Reclaim(c) PROVE HolderOwnsKey' /\ MutualExclusion'
  BY <1>2 DEF Reclaim, Acquired
<1>3. ASSUME NEW c \in Caller, Complete(c) \/ Release(c)
      PROVE  HolderOwnsKey' /\ MutualExclusion'
  <2>1. \A d \in Caller : pc'[d] # Holding
    BY <1>3 DEF Complete, Release
  <2> QED BY <2>1
<1>4. ASSUME NEW c \in Caller, Crash(c) PROVE HolderOwnsKey' /\ MutualExclusion'
  BY <1>4 DEF Crash
<1>5. CASE TimePasses
  <2>1. \A d \in Caller : pc[d] # Holding
    BY <1>5 DEF TimePasses, Elapses
  <2> QED BY <1>5, <2>1 DEF TimePasses
<1>6. CASE PurgeExpired
  <2>1. \A d \in Caller : pc[d] # Holding
    BY <1>6 DEF PurgeExpired, Purgeable
  <2> QED BY <1>6, <2>1 DEF PurgeExpired
<1>7. CASE UNCHANGED vars
  BY <1>7 DEF vars
<1> QED BY <1>1, <1>2, <1>3, <1>4, <1>5, <1>6, <1>7 DEF Next, Call

LEMMA IInvAlways == ASSUME ~LeaseMayLapse PROVE Spec => []IInv
<1>1. IInv /\ [Next]_vars => IInv'
  BY TypeStep, IInvStep DEF IInv
<1> QED BY <1>1, IInvInit, PTL DEF Spec

(* No two callers run the guarded operation at the same time, as long as    *)
(* no operation outlives its one-hour lease.                                *)
THEOREM Exclusion == ASSUME ~LeaseMayLapse
                     PROVE  Spec => [](MutualExclusion /\ HolderOwnsKey)
<1>1. IInv => MutualExclusion /\ HolderOwnsKey
  BY DEF IInv
<1> QED BY <1>1, IInvAlways, PTL

(* Under the same assumption a completed record is never deleted or taken   *)
(* over before it has aged.                                                 *)
THEOREM CompletedRecordSticks == ASSUME ~LeaseMayLapse
                                 PROVE  Spec => CompletedSticks
<1>1. IInv /\ [Next]_vars
        => [key = "completed" => key' \in {"completed", "aged"}]_vars
  <2> SUFFICES ASSUME IInv, [Next]_vars, key = "completed"
               PROVE  key' \in {"completed", "aged"}
    OBVIOUS
  <2>1. \A c \in Caller : pc[c] # Holding
    BY DEF IInv, HolderOwnsKey
  <2> QED
    BY <2>1 DEF Next, Call, Create, Reclaim, Complete, Release, Crash, TimePasses,
                PurgeExpired, Purgeable, Elapses, Elapsed, vars, Conflict, Idle
<1> QED BY <1>1, IInvAlways, PTL DEF Spec, CompletedSticks

-----------------------------------------------------------------------------
(* The implementation of OperationGuard.  The mapped owner is the caller    *)
(* that is Holding; an uncompleted row without one is a lock somebody lost. *)
Owner == IF \E c \in Caller : pc[c] = Holding
         THEN CHOOSE c \in Caller : pc[c] = Holding
         ELSE IF key = "held" THEN "lost" ELSE "nobody"
Done  == key \in {"completed", "aged"}

LEMMA OwnerHolding ==
  /\ MutualExclusion  => \A c \in Caller : pc[c] = Holding  => Owner = c
  /\ MutualExclusion' => \A c \in Caller : pc'[c] = Holding => Owner' = c
BY DEF MutualExclusion, Owner

LEMMA OwnerNone ==
  /\ (\A c \in Caller : pc[c] # Holding)
       => Owner = IF key = "held" THEN "lost" ELSE "nobody"
  /\ (\A c \in Caller : pc'[c] # Holding)
       => Owner' = IF key' = "held" THEN "lost" ELSE "nobody"
BY DEF Owner

LEMMA OwnerUnchanged == UNCHANGED vars => UNCHANGED <<Owner, Done>>
BY DEF Owner, Done, vars

LEMMA GuardInit == Init => Guard!Init
<1> SUFFICES ASSUME Init PROVE Owner = "nobody" /\ Done = FALSE
  BY DEF Guard!Init, Owner, Done
<1>1. \A c \in Caller : pc[c] # Holding
  BY DEF Init, Idle, Holding
<1> QED BY <1>1, OwnerNone DEF Init, Done

(* What a step does to the mapped variables, spelled out.                   *)
GuardAction ==
  \/ \E c \in Caller :
        \/ Owner = "nobody" /\ ~Done /\ Owner' = c /\ Done' = Done
        \/ Owner = c /\ Owner' = "nobody" /\ Done' = TRUE
        \/ Owner = c /\ Owner' = "nobody" /\ Done' = Done
        \/ Owner = c /\ Owner' = "lost" /\ Done' = Done
  \/ Owner = "lost" /\ Owner' = "nobody" /\ Done' = Done
  \/ Done /\ Owner = "nobody" /\ Done' = FALSE /\ Owner' = Owner
  \/ Owner' = Owner /\ Done' = Done

LEMMA GuardActionMaps == GuardAction => [Guard!Next]_(Guard!vars)
BY DEF GuardAction, Owner, Done, Guard!Next, Guard!vars, Guard!Begin,
       Guard!Finish, Guard!Fail, Guard!Die, Guard!Recover, Guard!Forget

(* A caller that is not Holding when a step begins and ends it as the owner *)
(* entered through a row that was absent or lapsed.                         *)
LEMMA EntryMaps ==
  ASSUME IInv, IInv', NEW c \in Caller,
         \A d \in Caller : pc[d] # Holding, MayAcquire(key), key' = "held",
         pc' = [pc EXCEPT ![c] = Holding]
  PROVE  GuardAction
<1>1. Owner = "nobody" /\ ~Done
  BY OwnerNone DEF MayAcquire, Done
<1>2. Owner' = c /\ ~Done'
  BY OwnerHolding DEF IInv, TypeOK, Done
<1> QED BY <1>1, <1>2 DEF GuardAction, Done

(* A step that leaves the row alone and no caller in or out of Holding      *)
(* stutters.                                                                *)
LEMMA QuietMaps ==
  ASSUME key' = key, \A d \in Caller : pc'[d] = Holding <=> pc[d] = Holding
  PROVE  GuardAction
<1>1. Owner' = Owner
  BY DEF Owner
<1> QED BY <1>1 DEF GuardAction, Done

LEMMA GuardStep ==
  ASSUME ~LeaseMayLapse, IInv, IInv', [Next]_vars
  PROVE  GuardAction
<1> USE DEF IInv, TypeOK, Idle, Conflict, Holding
<1>1. ASSUME NEW c \in Caller, Create(c) PROVE GuardAction
  <2>1. CASE key = "absent"
    <3>1. \A d \in Caller : pc[d] # Holding
      BY <2>1 DEF HolderOwnsKey
    <3> QED BY <1>1, <2>1, <3>1, EntryMaps DEF Create, MayAcquire, Acquired
  <2>2. CASE key # "absent"
    BY <1>1, <2>2, QuietMaps DEF Create
  <2> QED BY <2>1, <2>2
<1>2. ASSUME NEW c \in Caller, Reclaim(c) PROVE GuardAction
  <2>1. CASE key = "lapsed"
    <3>1. \A d \in Caller : pc[d] # Holding
      BY <2>1 DEF HolderOwnsKey
    <3> QED BY <1>2, <2>1, <3>1, EntryMaps DEF Reclaim, MayAcquire, Acquired
  <2>2. CASE key # "lapsed"
    BY <1>2, <2>2, QuietMaps DEF Reclaim
  <2> QED BY <2>1, <2>2
<1>3. ASSUME NEW c \in Caller, Complete(c) \/ Release(c) PROVE GuardAction
  <2>1. Owner = c /\ key = "held"
    BY <1>3, OwnerHolding DEF Complete, Release, HolderOwnsKey
  <2>2. \A d \in Caller : pc'[d] # Holding
    BY <1>3 DEF Complete, Release, MutualExclusion
  <2>3. key' # "held"
    BY <1>3 DEF Complete, Release, Completed, Released
  <2>4. Owner' = "nobody"
    BY <2>2, <2>3, OwnerNone
  <2>5. Done' = TRUE \/ Done' = Done
    BY <1>3, <2>1 DEF Complete, Release, Completed, Released, Done
  <2> QED BY <2>1, <2>4, <2>5 DEF GuardAction
<1>4. ASSUME NEW c \in Caller, Crash(c) PROVE GuardAction
  <2>1. CASE pc[c] = Holding
    <3>1. Owner = c /\ key = "held"
      BY <2>1, OwnerHolding DEF HolderOwnsKey
    <3>2. \A d \in Caller : pc'[d] # Holding
      BY <1>4, <2>1 DEF Crash, MutualExclusion
    <3>3. Owner' = "lost" /\ Done' = Done
      BY <1>4, <3>1, <3>2, OwnerNone DEF Crash, Done
    <3> QED BY <3>1, <3>3 DEF GuardAction
  <2>2. CASE pc[c] # Holding
    BY <1>4, <2>2, QuietMaps DEF Crash
  <2> QED BY <2>1, <2>2
<1>5. CASE TimePasses
  <2>1. \A d \in Caller : pc[d] # Holding /\ pc'[d] # Holding
    BY <1>5 DEF TimePasses, Elapses, HolderOwnsKey
  <2>2. Owner' = "nobody" /\ Done' = Done
    BY <1>5, <2>1, OwnerNone DEF TimePasses, Elapses, Elapsed, Done
  <2>3. Owner = "lost" \/ Owner = "nobody"
    BY <2>1, OwnerNone
  <2> QED BY <2>2, <2>3 DEF GuardAction
<1>6. CASE PurgeExpired
  <2>1. \A d \in Caller : pc[d] # Holding /\ pc'[d] # Holding
    BY <1>6 DEF PurgeExpired, Purgeable, HolderOwnsKey
  <2>2. Owner = "nobody" /\ Owner' = "nobody" /\ Done' = FALSE
    BY <1>6, <2>1, OwnerNone DEF PurgeExpired, Purgeable, Done
  <2>3. Done = TRUE \/ Done = FALSE
    BY DEF Done
  <2> QED BY <2>2, <2>3 DEF GuardAction
<1>7. CASE UNCHANGED vars
  BY <1>7, OwnerUnchanged DEF GuardAction
<1> QED BY <1>1, <1>2, <1>3, <1>4, <1>5, <1>6, <1>7 DEF Next, Call

(* While no operation outlives its lease, every step of the service is a    *)
(* step of the abstract guard, or leaves it unchanged.                      *)
THEOREM Implementation == ASSUME ~LeaseMayLapse PROVE Spec => ImplementsGuard
<1>1. IInv /\ IInv' /\ [Next]_vars => [Guard!Next]_(Guard!vars)
  BY GuardStep, GuardActionMaps
<1> QED BY <1>1, IInvAlways, GuardInit, PTL DEF Spec, ImplementsGuard, Guard!Spec
=============================================================================
