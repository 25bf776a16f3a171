----------------------------- MODULE Contracts -----------------------------
(***************************************************************************)
(* ContractsService on one contract (src/src/modules/contracts/             *)
(* contracts.service.ts): the handlers that move an existing contract, run  *)
(* concurrently by HTTP requests, webhook deliveries, queue workers and     *)
(* event listeners.                                                         *)
(*                                                                          *)
(* A transition is several statements on the shared PrismaService: take an  *)
(* idempotency key, read the status and validate the transition, update the *)
(* row (without repeating the condition in its WHERE), update the job,      *)
(* complete the key.  Other handlers run between any two of them, and the   *)
(* process may die there.  Only confirmCompletion locks the row, so it is   *)
(* one step.                                                                *)
(***************************************************************************)
EXTENDS ContractStatus, IdempotencyKeys, Naturals

CONSTANTS
    Caller,        \* the concurrent handler invocations
    StartStatus,   \* the statuses the contract's row may be found in
    MayCrash       \* may a process die between two statements?

ASSUME StartAssumption == StartStatus \subseteq Status
ASSUME CrashAssumption == MayCrash \in BOOLEAN

(* The handlers that take a key of the namespace contract_transition, and   *)
(* the status each moves the contract to.  The key of an activation has the *)
(* user's id in it, so the two parties take different keys; "funded" stands *)
(* for markFunded with one reference (Funding.tla has several).             *)
Activation == {"activate_client", "activate_artisan"}
Keyed      == Activation \cup {"funded", "paid_out", "refunded", "disputed"}

(* handleDeliverableApproved and recordPayoutFailure take none.             *)
Operation == Keyed \cup {"approve", "payout_failed"}

Target(op) ==
    CASE op \in Activation    -> "IN_PROGRESS"
      [] op = "funded"        -> "FUNDED"
      [] op = "paid_out"      -> "PAID_OUT"
      [] op = "refunded"      -> "REFUNDED"
      [] op = "disputed"      -> "DISPUTED"
      [] OTHER                -> "READY_FOR_PAYOUT"

(* The handlers that still query the database after completing their key.   *)
ReadsBack == {"funded", "refunded", "disputed"}

VARIABLES
    contract,  \* the row of the contract
    job,       \* the status of its job
    key,       \* the idempotency row of each keyed handler
    call       \* what each caller is doing, and in which handler

vars == <<contract, job, key, call>>

ContractRow == [status : Status, started : BOOLEAN, clientConfirmed : BOOLEAN,
                artisanConfirmed : BOOLEAN, escrowReleased : BOOLEAN]

Step == {"idle", "begun", "acquired", "validated", "written", "synced",
         "completed", "failing"}

NoCall == [op |-> "none", at |-> "idle"]

TypeOK == /\ contract \in ContractRow
          /\ job \in {"IN_PROGRESS", "COMPLETED"}
          /\ key \in [Keyed -> KeyState]
          /\ call \in [Caller -> [op : Operation \cup {"none"}, at : Step]]

(* createContract leaves a row in PENDING_PAYMENT and the job IN_PROGRESS;  *)
(* rows that are further along have been started and confirmed accordingly. *)
RowIn(s) ==
    [status           |-> s,
     started          |-> s \in {"IN_PROGRESS", "CLIENT_CONFIRMED",
                                 "READY_FOR_PAYOUT", "PAID_OUT", "DISPUTED"},
     clientConfirmed  |-> s \in {"CLIENT_CONFIRMED", "READY_FOR_PAYOUT", "PAID_OUT"},
     artisanConfirmed |-> s \in {"READY_FOR_PAYOUT", "PAID_OUT"},
     escrowReleased   |-> s = "PAID_OUT"]

Init == /\ \E s \in StartStatus :
             /\ contract = RowIn(s)
             /\ job = IF s = "PAID_OUT" THEN "COMPLETED" ELSE "IN_PROGRESS"
        /\ key = [op \in Keyed |-> "absent"]
        /\ call = [c \in Caller |-> NoCall]

At(c, step)       == call[c].at = step
Goto(c, step)     == call' = [call EXCEPT ![c].at = step]
Enter(c, op, step) == call' = [call EXCEPT ![c] = [op |-> op, at |-> step]]
Leave(c)          == call' = [call EXCEPT ![c] = NoCall]
-----------------------------------------------------------------------------
(* activateContract by a party, first statement: the contract must be       *)
(* FUNDED, otherwise the request is rejected before any key is taken.       *)
ReadFunded(c, op) ==
    /\ At(c, "idle")
    /\ contract.status = "FUNDED"
    /\ Enter(c, op, "begun")
    /\ UNCHANGED <<contract, job, key>>

(* tryAcquire; on refusal the handler returns the contract as it is.        *)
TryAcquire(c, op) ==
    /\ IF op \in Activation THEN call[c] = [op |-> op, at |-> "begun"]
                           ELSE At(c, "idle")
    /\ \/ /\ MayAcquire(key[op])
          /\ key' = [key EXCEPT ![op] = Acquired]
          /\ Enter(c, op, "acquired")
       \/ /\ MayRefuse(key[op])
          /\ Leave(c)
          /\ UNCHANGED key
    /\ UNCHANGED <<contract, job>>

(* handleDeliverableApproved, before its transaction: only a contract in    *)
(* these statuses is moved.  The transaction takes no row lock.             *)
ReadApprovable(c) ==
    /\ At(c, "idle")
    /\ contract.status \in {"IN_PROGRESS", "CLIENT_CONFIRMED"}
    /\ Enter(c, "approve", "acquired")
    /\ UNCHANGED <<contract, job, key>>

(* recordPayoutFailure: reads READY_FOR_PAYOUT, then writes it back without *)
(* going through the table.                                                 *)
ReadReadyForPayout(c) ==
    /\ At(c, "idle")
    /\ contract.status = "READY_FOR_PAYOUT"
    /\ Enter(c, "payout_failed", "validated")
    /\ UNCHANGED <<contract, job, key>>

(* transitionContractStatus: findUnique and validateStateTransition         *)
Validate(c) ==
    /\ At(c, "acquired")
    /\ IF ValidTransition(contract.status, Target(call[c].op))
       THEN Goto(c, "validated")
       ELSE Goto(c, "failing")
    /\ UNCHANGED <<contract, job, key>>

(* mutant: the approval confirms for the client only                        *)
UpdatedForClient(row, op) ==
    [row EXCEPT !.status          = Target(op),
                !.started         = @ \/ op \in Activation,
                !.clientConfirmed = @ \/ op = "approve",
                !.escrowReleased  = @ \/ op = "paid_out"]

(* What the handlers write besides the status                               *)
Updated(row, op) ==
    [row EXCEPT !.status           = Target(op),
                !.started          = @ \/ op \in Activation,
                !.clientConfirmed  = @ \/ op = "approve",
                !.artisanConfirmed = @ \/ op = "approve",
                !.escrowReleased   = @ \/ op = "paid_out"]

(* mutant: the job is not synchronised                                      *)
WriteWithoutJob(c) ==
    /\ At(c, "validated")
    /\ contract' = Updated(contract, call[c].op)
    /\ \/ call[c].op \in Keyed /\ Goto(c, "synced")
       \/ call[c].op \notin Keyed /\ Leave(c)
    /\ UNCHANGED <<job, key>>

(* contract.update where only the id is matched                             *)
Write(c) ==
    /\ At(c, "validated")
    /\ contract' = Updated(contract, call[c].op)
    /\ \/ call[c].op = "paid_out" /\ Goto(c, "written")
       \/ call[c].op \in Keyed \ {"paid_out"} /\ Goto(c, "synced")
       \/ call[c].op \notin Keyed /\ Leave(c)
    /\ UNCHANGED <<job, key>>

(* "Synchronize Job status if contract reaches a successful terminal state" *)
SyncJob(c) ==
    /\ At(c, "written")
    /\ job' = "COMPLETED"
    /\ Goto(c, "synced")
    /\ UNCHANGED <<contract, key>>

CompleteKey(c) ==
    /\ At(c, "synced")
    /\ key' = [key EXCEPT ![call[c].op] = Completed(@)]
    /\ \/ call[c].op \in ReadsBack /\ Goto(c, "completed")
       \/ call[c].op \notin ReadsBack /\ Leave(c)
    /\ UNCHANGED <<contract, job>>

(* markFunded reads the job, markRefunded and markDisputed the contract,    *)
(* still inside the try block.                                              *)
ReadBack(c) ==
    /\ At(c, "completed")
    /\ Leave(c)
    /\ UNCHANGED <<contract, job, key>>

(* mutant: the catch block does not release the key                         *)
FailKeepingKey(c) ==
    /\ At(c, "failing")
    /\ Leave(c)
    /\ UNCHANGED <<contract, job, key>>

(* The catch block releases the key and rethrows.                           *)
Fail(c) ==
    /\ At(c, "failing")
    /\ key' = IF call[c].op \in Keyed
              THEN [key EXCEPT ![call[c].op] = Released(@)]
              ELSE key
    /\ Leave(c)
    /\ UNCHANGED <<contract, job>>

(* confirmCompletion: everything between SELECT ... FOR UPDATE and COMMIT.  *)
(* The other requests are rejected and change nothing.                      *)
ConfirmCompletion(isClient) ==
    LET already       == IF isClient THEN contract.clientConfirmed
                                     ELSE contract.artisanConfirmed
        bothConfirmed == IF isClient THEN contract.artisanConfirmed
                                     ELSE contract.clientConfirmed
        nextStatus    == IF bothConfirmed THEN "READY_FOR_PAYOUT"
                         ELSE IF isClient THEN "CLIENT_CONFIRMED" ELSE "IN_PROGRESS"
    IN  /\ contract.status \in {"IN_PROGRESS", "CLIENT_CONFIRMED", "READY_FOR_PAYOUT"}
        /\ contract.started
        /\ ~already
        /\ ValidTransition(contract.status, nextStatus)
        /\ contract' = [contract EXCEPT !.status = nextStatus,
                                        !.clientConfirmed = @ \/ isClient,
                                        !.artisanConfirmed = @ \/ ~isClient]
        /\ UNCHANGED <<job, key, call>>

(* The process running the handler dies: no release, no rollback.           *)
Crash(c) ==
    /\ MayCrash
    /\ ~At(c, "idle")
    /\ Leave(c)
    /\ UNCHANGED <<contract, job, key>>

(* A statement throws, on a lost connection for instance.                   *)
StatementFails(c) ==
    /\ MayCrash
    /\ call[c].at \in {"acquired", "validated", "written", "synced", "completed"}
    /\ Goto(c, "failing")
    /\ UNCHANGED <<contract, job, key>>

(* No handler runs for the hour of a lease or the 7 days of a record.       *)
TimePasses(op) ==
    /\ Elapses(key[op])
    /\ \A c \in Caller : call[c].op # op \/ At(c, "begun")
    /\ key' = [key EXCEPT ![op] = Elapsed(@)]
    /\ UNCHANGED <<contract, job, call>>

PurgeExpired ==
    /\ \E op \in Keyed : Purgeable(key[op])
    /\ key' = [op \in Keyed |-> IF Purgeable(key[op]) THEN "absent" ELSE key[op]]
    /\ UNCHANGED <<contract, job, call>>

Handle(c) == \/ Validate(c) \/ Write(c) \/ SyncJob(c) \/ CompleteKey(c) \/ ReadBack(c)
             \/ Fail(c)

Next == \/ \E c \in Caller :
             \/ ReadApprovable(c) \/ ReadReadyForPayout(c)
             \/ \E op \in Activation : ReadFunded(c, op)
             \/ \E op \in Keyed : TryAcquire(c, op)
             \/ Handle(c)
             \/ Crash(c) \/ StatementFails(c)
        \/ \E isClient \in BOOLEAN : ConfirmCompletion(isClient)
        \/ \E op \in Keyed : TimePasses(op)
        \/ PurgeExpired

Spec == Init /\ [][Next]_vars

(* A handler that started goes on, unless its process dies.                 *)
FairSpec == Spec /\ \A c \in Caller : WF_vars(Handle(c))
-----------------------------------------------------------------------------
Runs(c, op) == call[c].op = op /\ ~At(c, "begun")

(* Two invocations of the same keyed handler never overlap, and the one     *)
(* that runs has its key until it completed it itself: tryAcquire in        *)
(* markFunded, markPaidOut, markRefunded, markDisputed, activateContract.   *)
OneRunPerOperation ==
    \A op \in Keyed : \A c, d \in Caller :
        Runs(c, op) => /\ \/ key[op] = "held"
                          \/ /\ key[op] = "completed"
                             /\ call[c].at \in {"completed", "failing"}
                       /\ Runs(d, op) => c = d

(* A contract whose escrow may be released was confirmed by both parties,   *)
(* whichever of confirmCompletion, handleDeliverableApproved and the stale  *)
(* write of recordPayoutFailure brought it to READY_FOR_PAYOUT.             *)
ReadyMeansBothConfirmed ==
    contract.status = "READY_FOR_PAYOUT"
        => contract.clientConfirmed /\ contract.artisanConfirmed

(* A markPaidOut that is refused because the operation was completed can    *)
(* rely on it: the release is on the row and the job is COMPLETED, even if  *)
(* an earlier run died half-way.                                            *)
CompletedMeansDone ==
    key["paid_out"] \in {"completed", "aged"}
        => contract.escrowReleased /\ job = "COMPLETED"

(* Unless a process dies, every path out of a handler completes or releases *)
(* its key.                                                                 *)
NoKeyLeak ==
    \A op \in Keyed : key[op] = "held" => \E c \in Caller : Runs(c, op)

(* validStateTransitions (contracts.service.ts:94-129): as long as the      *)
(* handlers do not overlap each other, the status moves along the table,    *)
(* although confirmCompletion may change it between the validation and the  *)
(* write of one, and although that one may die or fail in between.          *)
FollowsTable ==
    [][contract'.status # contract.status
          => ValidTransition(contract.status, contract'.status)]_vars

(* "Terminal state" (contracts.service.ts:119-127): no handler moves a      *)
(* contract out of one, whatever it read before another handler wrote.      *)
TerminalIsFinal ==
    [][contract.status \in Terminal => contract'.status = contract.status]_vars

(* "Synchronize Job status if contract reaches a successful terminal state" *)
(* (contracts.service.ts:176): a paid out contract's job is COMPLETED in    *)
(* the end.                                                                 *)
JobFollowsPayout == (contract.status = "PAID_OUT") ~> (job = "COMPLETED")

(* "PENDING_PAYMENT -> FUNDED -> IN_PROGRESS" (README.md:108): a party's    *)
(* activation of a FUNDED contract is not rejected by the table.            *)
ActivationAccepted ==
    \A c \in Caller : ~(call[c].op \in Activation /\ At(c, "failing"))

(* Violated like ActivationAccepted, when the contract is IN_PROGRESS:       *)
(* "When the deliverable is approved by the client, we automatically        *)
(* transition the contract to READY_FOR_PAYOUT" (contracts.service.ts:663). *)
ApprovalAccepted ==
    \A c \in Caller : ~(call[c].op = "approve" /\ At(c, "failing"))
=============================================================================
