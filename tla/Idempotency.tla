---------------------------- MODULE Idempotency ----------------------------
(***************************************************************************)
(* IdempotencyService as a lock around one operation, i.e. one pair         *)
(* (namespace, key); the rows of different pairs do not touch each other.   *)
(* A caller runs tryAcquire (two statements that other callers interleave   *)
(* with), then its operation, then complete or release.  It may die at any  *)
(* point.  EphemeralCleanupService purges rows every five minutes.          *)
(***************************************************************************)
EXTENDS IdempotencyKeys

CONSTANTS
    Caller,          \* the requests, jobs and webhook deliveries that call
    LeaseMayLapse    \* may an operation run for longer than the 1 hour lease?

ASSUME LeaseAssumption == LeaseMayLapse \in BOOLEAN
ASSUME CallerAssumption == "nobody" \notin Caller /\ "lost" \notin Caller

VARIABLES key,   \* the state of the row
          pc     \* what each caller is doing

vars == <<key, pc>>

Idle       == "idle"
Conflict   == "conflict"    \* its create failed on the unique index
Holding    == "holding"     \* tryAcquire returned true

TypeOK == /\ key \in KeyState
          /\ pc \in [Caller -> {Idle, Conflict, Holding}]

Init == key = "absent" /\ pc = [c \in Caller |-> Idle]

(* tryAcquire, first statement: idempotencyKey.create                       *)
Create(c) ==
    /\ pc[c] = Idle
    /\ \/ /\ key = "absent"
          /\ key' = Acquired
          /\ pc' = [pc EXCEPT ![c] = Holding]
       \/ /\ key # "absent"
          /\ pc' = [pc EXCEPT ![c] = Conflict]
          /\ UNCHANGED key

(* mutant: the updateMany does not ask whether the lock has expired         *)
ReclaimUnexpired(c) ==
    /\ pc[c] = Conflict
    /\ key' = Acquired
    /\ pc' = [pc EXCEPT ![c] = Holding]

(* tryAcquire, the catch block: updateMany where the row is lapsed          *)
Reclaim(c) ==
    /\ pc[c] = Conflict
    /\ \/ /\ key = "lapsed"
          /\ key' = Acquired
          /\ pc' = [pc EXCEPT ![c] = Holding]
       \/ /\ key # "lapsed"
          /\ pc' = [pc EXCEPT ![c] = Idle]
          /\ UNCHANGED key

Complete(c) ==
    /\ pc[c] = Holding
    /\ key' = Completed(key)
    /\ pc' = [pc EXCEPT ![c] = Idle]

Release(c) ==
    /\ pc[c] = Holding
    /\ key' = Released(key)
    /\ pc' = [pc EXCEPT ![c] = Idle]

(* The process dies, or complete/release itself fails on the database.      *)
Crash(c) ==
    /\ pc[c] # Idle
    /\ pc' = [pc EXCEPT ![c] = Idle]
    /\ UNCHANGED key

(* An hour passes on a lock, or seven days on a completed record.           *)
TimePasses ==
    /\ Elapses(key)
    /\ key = "held" => LeaseMayLapse \/ \A c \in Caller : pc[c] # Holding
    /\ key' = Elapsed(key)
    /\ UNCHANGED pc

PurgeExpired ==
    /\ Purgeable(key)
    /\ key' = "absent"
    /\ UNCHANGED pc

Call(c) == Create(c) \/ Reclaim(c) \/ Complete(c) \/ Release(c)

Next == \/ \E c \in Caller : Call(c) \/ Crash(c)
        \/ TimePasses
        \/ PurgeExpired

Spec == Init /\ [][Next]_vars

(* Time passes whatever the callers do, and the cleanup runs every five     *)
(* minutes.                                                                 *)
FairSpec == Spec /\ WF_vars(TimePasses) /\ WF_vars(PurgeExpired)
-----------------------------------------------------------------------------
(* At most one caller runs the guarded operation, although a lapsed row may *)
(* be reclaimed by one caller while another is between the two statements   *)
(* of tryAcquire (lines 21-49).                                             *)
MutualExclusion ==
    \A c, d \in Caller : pc[c] = Holding /\ pc[d] = Holding => c = d

(* Whoever runs the operation does so under an uncompleted, unexpired row:  *)
(* no other caller's complete, release or purge has taken it away.          *)
HolderOwnsKey == \A c \in Caller : pc[c] = Holding => key = "held"

(* A completed record is only ever lost by getting older than seven days:   *)
(* release, reclaim and the purge of lapsed locks never remove it.          *)
CompletedSticks ==
    [][key = "completed" => key' \in {"completed", "aged"}]_vars

(* A lock whose owner died does not block the operation for ever: it is     *)
(* reclaimed by a caller or, if none comes, swept away.                     *)
OrphanRecovered ==
    (key = "held" /\ \A c \in Caller : pc[c] # Holding)
        ~> (key = "absent" \/ \E c \in Caller : pc[c] = Holding)

Guard == INSTANCE OperationGuard WITH
    Nobody <- "nobody", Lost <- "lost",
    owner <- IF \E c \in Caller : pc[c] = Holding
             THEN CHOOSE c \in Caller : pc[c] = Holding
             ELSE IF key = "held" THEN "lost" ELSE "nobody",
    done <- key \in {"completed", "aged"}

(* While no operation outlives its lease, the two-statement tryAcquire and  *)
(* the unguarded complete and release implement the abstract guard.         *)
ImplementsGuard == Guard!Spec
=============================================================================
