----------------------------- MODULE CacheLock -----------------------------
(***************************************************************************)
(* acquireLock and releaseLock of RedisCacheService and                     *)
(* InMemoryCacheService, for one key.  WalletService takes such locks.      *)
(*                                                                          *)
(* A process that can reach Redis sets the key with a token of its own and  *)
(* mirrors it in memory, with another token; one that cannot locks only in  *)
(* its memory.  Locks end with their time to live, whoever works on.        *)
(***************************************************************************)
EXTENDS Naturals

CONSTANTS
    Process,
    Task,       \* the operations that take the lock; each has tokens of its own
    Home        \* the process of each task

Redis  == "redis"
NoTask == "none"
Store  == {Redis} \cup Process

VARIABLES
    lock,       \* the token of each store, named after the task that set it
    mirror,     \* the processes whose lock in memory is a mirror, with a token nobody has
    task,       \* what each task is doing
    late        \* the tasks whose lock expired while they work

vars == <<lock, mirror, task, late>>

TypeOK == /\ lock \in [Store -> Task \cup {NoTask}]
          /\ mirror \subseteq Process
          /\ task \in [Task -> {"idle", "redis", "memory"}]
          /\ late \subseteq Task

Init == /\ lock = [s \in Store |-> NoTask]
        /\ mirror = {}
        /\ task = [t \in Task |-> "idle"]
        /\ late = {}

(* The mirror is attempted as any lock in memory is.                        *)
Mirrored(p) == IF lock[p] = NoTask THEN mirror \cup {p} ELSE mirror
-----------------------------------------------------------------------------
(* SET NX PX                                                                *)
AcquireRedis(t) ==
    /\ task[t] = "idle"
    /\ lock[Redis] = NoTask
    /\ lock' = [lock EXCEPT ![Redis] = t]
    /\ mirror' = Mirrored(Home[t])
    /\ task' = [task EXCEPT ![t] = "redis"]
    /\ UNCHANGED late

(* Redis does not answer, or not within 1.5 s though it sets the key, or    *)
(* the circuit breaker has tripped: the lock in memory, if it is free.      *)
AcquireMemory(t) ==
    LET p == Home[t]
    IN  /\ task[t] = "idle"
        /\ lock[p] = NoTask /\ p \notin mirror
        /\ \/ lock' = [lock EXCEPT ![p] = t]
           \/ lock[Redis] = NoTask /\ lock' = [lock EXCEPT ![p] = t, ![Redis] = t]
        /\ task' = [task EXCEPT ![t] = "memory"]
        /\ UNCHANGED <<mirror, late>>

(* mutant: the lock is released whoever has it                              *)
ReleasedAny(s, t) == NoTask

(* Only the token that was set releases a lock.                             *)
Released(s, t) == IF lock[s] = t THEN NoTask ELSE lock[s]

(* releaseLock: in memory, then in Redis if that can be reached.  The token *)
(* of a task in Redis is not the one it has in memory.                      *)
Release(t) ==
    LET p == Home[t]
    IN  /\ task[t] # "idle"
        /\ \/ lock' = [lock EXCEPT ![p] = IF task[t] = "memory" THEN Released(p, t) ELSE @,
                                   ![Redis] = IF task[t] = "redis" THEN Released(Redis, t)
                                                                   ELSE @]
           \/ lock' = [lock EXCEPT ![p] = IF task[t] = "memory" THEN Released(p, t) ELSE @]
        /\ task' = [task EXCEPT ![t] = "idle"]
        /\ late' = late \ {t}
        /\ UNCHANGED mirror

(* The time to live of the lock of a store is over.                         *)
Expire(s) ==
    /\ lock[s] # NoTask \/ s \in mirror
    /\ lock' = [lock EXCEPT ![s] = NoTask]
    /\ mirror' = mirror \ {s}
    /\ late' = late \cup {t \in Task : t = lock[s]
                                        /\ task[t] = IF s = Redis THEN "redis" ELSE "memory"}
    /\ UNCHANGED task

Next == \/ \E t \in Task : AcquireRedis(t) \/ AcquireMemory(t) \/ Release(t)
        \/ \E s \in Store : Expire(s)

Spec == Init /\ [][Next]_vars
-----------------------------------------------------------------------------
OnTime(t, u) == t # u /\ {t, u} \cap late = {}

(* Two operations that locked in Redis, or two that locked in the memory of *)
(* one process, are in the section at once only if the lock of one expired, *)
(* however late and by whomever locks are released.                         *)
ExclusiveInStore ==
    \A t, u \in Task : OnTime(t, u) =>
        /\ ~(task[t] = "redis" /\ task[u] = "redis")
        /\ ~(task[t] = "memory" /\ task[u] = "memory" /\ Home[t] = Home[u])

(* Not so: any two are in it at once only if the lock of one expired (one   *)
(* of them, or its process, could not reach Redis).                         *)
Exclusive == \A t, u \in Task : OnTime(t, u) => task[t] = "idle" \/ task[u] = "idle"
=============================================================================
