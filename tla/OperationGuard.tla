--------------------------- MODULE OperationGuard ---------------------------
(***************************************************************************)
(* What IdempotencyService promises the services that call it: at any time  *)
(* at most one caller runs the guarded operation, an operation that was     *)
(* completed is not run again until its record is forgotten, and the lock   *)
(* of a caller that died is given back.  Idempotency.tla implements it.     *)
(***************************************************************************)
CONSTANTS Caller, Nobody, Lost

VARIABLES owner, \* the caller running the operation, Nobody, or Lost
          done   \* the operation was completed and this is remembered

vars == <<owner, done>>

Init == owner = Nobody /\ done = FALSE

Begin(c) == /\ owner = Nobody
            /\ ~done
            /\ owner' = c
            /\ UNCHANGED done

Finish(c) == /\ owner = c
             /\ owner' = Nobody
             /\ done' = TRUE

Fail(c) == /\ owner = c
           /\ owner' = Nobody
           /\ UNCHANGED done

(* The caller died; nobody can begin until the lock is recovered.           *)
Die(c) == /\ owner = c
          /\ owner' = Lost
          /\ UNCHANGED done

Recover == /\ owner = Lost
           /\ owner' = Nobody
           /\ UNCHANGED done

Forget == /\ done
          /\ owner = Nobody
          /\ done' = FALSE
          /\ UNCHANGED owner

Next == \/ \E c \in Caller : Begin(c) \/ Finish(c) \/ Fail(c) \/ Die(c)
        \/ Recover
        \/ Forget

Spec == Init /\ [][Next]_vars
=============================================================================
