-------------------------- MODULE IdempotencyKeys --------------------------
(***************************************************************************)
(* The life of one row of the table IdempotencyKey, as IdempotencyService   *)
(* (src/src/common/services/idempotency.service.ts) reads and writes it.    *)
(* Only what its queries distinguish is kept of lockedAt, expiresAt and     *)
(* completedAt:                                                             *)
(*                                                                          *)
(*   absent     there is no row                                             *)
(*   held       completedAt is null and expiresAt is in the future          *)
(*   lapsed     completedAt is null and expiresAt is in the past (1 hour)   *)
(*   completed  completedAt is set, less than 7 days ago                    *)
(*   aged       completedAt is set, more than 7 days ago                    *)
(*                                                                          *)
(* The operators below are shared by every module whose code takes a lock.  *)
(***************************************************************************)

KeyState == {"absent", "held", "lapsed", "completed", "aged"}

(* Faults for the mutants: a lock taken whatever the row says, a lock that  *)
(* is born completed, a release that keeps the row, purges that forget a    *)
(* condition.                                                               *)
MayAcquireAny(k)     == TRUE
AcquiredCompleted    == "completed"
ReleasedKeepsRow(k)  == "released"
PurgeableAnyAge(k)   == k \in {"lapsed", "completed", "aged"}
PurgeableUnexpired(k) == k \in {"held", "lapsed", "aged"}
PurgeableCompleted(k) == k = "aged"

(* tryAcquire returns true by creating the row, or by reclaiming a lapsed   *)
(* one with updateMany.  It returns false only after the create met a row;  *)
(* a lapsed row that is purged before the updateMany is such a case.        *)
MayAcquire(k) == k \in {"absent", "lapsed"}
MayRefuse(k)  == k # "absent"
Acquired      == "held"

(* complete updates whatever row there is, and throws when there is none.   *)
Completed(k) == IF k = "absent" THEN "absent" ELSE "completed"

(* release deletes whatever row there is, and throws when there is none.    *)
(* Neither complete nor release checks that the caller owns the row.        *)
Released(k) == "absent"

(* purgeExpired deletes lapsed rows and rows completed 7 days ago.          *)
Purgeable(k) == k \in {"lapsed", "aged"}

(* The passing of time: the lease of 1 hour, the retention of 7 days.       *)
Elapses(k) == k \in {"held", "completed"}
Elapsed(k) == IF k = "held" THEN "lapsed" ELSE "aged"
=============================================================================
