----------------------------- MODULE Settlement -----------------------------
(***************************************************************************)
(* Settling one funded contract: PaymentsService releases its escrow to the *)
(* artisan or refunds the client (src/src/modules/payments/                 *)
(* payments.service.ts), the escrow-queue worker calls Paystack, and        *)
(* PaystackWebhookService (paystack-webhook.service.ts) books what Paystack *)
(* reports and moves the contract.                                          *)
(*                                                                          *)
(* Each successful initiatePayout makes its own Transaction row, Paystack   *)
(* reference and queue job, and so does each refund request: a transfer or  *)
(* a refund stands for all of them.  Webhook deliveries may be duplicated   *)
(* and handled at the same time.  markPaidOut, called inside the callback   *)
(* of an interactive transaction, uses its own connection.                  *)
(***************************************************************************)
EXTENDS ContractStatus, IdempotencyKeys, Integers, FiniteSets

CONSTANTS
    Transfer,    \* the payouts that may be initiated
    Refund,      \* the refunds that may be requested
    Delivery,    \* the webhook deliveries that may be handled at the same time
    None,        \* no transfer, no refund
    StartStatus, \* the statuses the contract may be in
    Amount,      \* the amount of the contract
    Fee,         \* the platform fee, of which the payout is short
    Attempts,    \* attempts of a queue job
    MayFail,     \* may processes die, statements fail and answers get lost?
    Timely       \* are jobs and deliveries faster than leases and retentions?

Settling == Transfer \cup Refund
Processed == "refund processed"    \* the event of the refund.processed webhook

ASSUME SetAssumption     == /\ IsFiniteSet(Transfer) /\ IsFiniteSet(Refund)
                            /\ Transfer \cap Refund = {}
                            /\ None \notin Settling /\ "refund" \notin Transfer
                            /\ Processed \notin Settling \cup {None}
ASSUME AmountAssumption  == Amount \in Nat /\ Fee \in Nat /\ Fee < Amount
ASSUME AttemptAssumption == Attempts \in Nat \ {0}
ASSUME FlagAssumption    == MayFail \in BOOLEAN /\ Timely \in BOOLEAN
ASSUME StartAssumption   == StartStatus \subseteq Status

VARIABLES
    status,    \* the status of the contract
    row,       \* the Transaction row of each transfer and refund
    feeKept,   \* the transfers whose metadata still has platformFee
    latest,    \* the refund row created last
    balance,   \* LedgerAccount.balance of the four accounts involved
    key,       \* the idempotency keys of the contract
    request,   \* the progress of each release or refund request
    job,       \* the queue job of each
    paystack,  \* what Paystack did: each transfer, and the refund of the charge
    delivery   \* the progress of each webhook delivery

vars == <<status, row, feeKept, latest, balance, key, request, job, paystack, delivery>>
settlingVars == <<row, feeKept, latest>>

(* release and refund are the locks of initiatePayout and refundContract,   *)
(* the others those of markPaidOut and markRefunded.                        *)
Key == {"release", "refund", "paid_out", "refunded"}
Lock(x) == IF x \in Transfer THEN "release" ELSE "refund"

TypeOK ==
    /\ status \in Status
    /\ row \in [Settling -> {"absent", "pending", "completed", "failed"}]
    /\ feeKept \subseteq Transfer
    /\ latest \in Refund \cup {None}
    /\ balance \in [client : Int, escrow : Int, artisan : Int, fee : Int]
    /\ key \in [Key -> KeyState]
    /\ request \in [Settling -> [at : {"idle", "cleared", "locked", "recorded",
                                       "queued", "done"},
                                 by : {"party", "admin"}]]
    /\ job \in [Settling -> [at : {"none", "waiting", "called", "noted", "completed",
                                   "done", "dead"},
                             left : 0 .. Attempts]]
    /\ paystack \in [Transfer \cup {"refund"} -> {"none", "accepted", "success", "failed"}]
    /\ delivery \in [Delivery ->
           [at : {"idle", "begun", "locked", "acquired", "validated", "written",
                  "completed", "marked", "failing", "refused", "ready"},
            of : Transfer \cup {None, Processed},
            tx : {"none", "open", "rolled back"}]]

Resting == [at |-> "idle", of |-> None, tx |-> "none"]

(* A funded contract: Funding.tla posted its amount to the escrow account.  *)
Init ==
    /\ status \in StartStatus
    /\ row = [x \in Settling |-> "absent"]
    /\ feeKept = {}
    /\ latest = None
    /\ balance = [client |-> -Amount, escrow |-> Amount, artisan |-> 0, fee |-> 0]
    /\ key = [k \in Key |-> "absent"]
    /\ request = [x \in Settling |-> [at |-> "idle", by |-> "party"]]
    /\ job = [x \in Settling |-> [at |-> "none", left |-> Attempts]]
    /\ paystack = [x \in Transfer \cup {"refund"} |-> "none"]
    /\ delivery = [d \in Delivery |-> Resting]
-----------------------------------------------------------------------------
(* releaseEscrow, releaseEscrowByAdmin, initiatePayout; refundContract      *)

RequestStep(x, from, to) ==
    /\ request[x].at = from
    /\ request' = [request EXCEPT ![x].at = to]

Clear(x, by) ==
    /\ request[x].at = "idle"
    /\ request' = [request EXCEPT ![x] = [at |-> "cleared", by |-> by]]
    /\ UNCHANGED <<status, settlingVars, balance, key, job, paystack, delivery>>

(* assertReadyForPayout, for releaseEscrow by completeContract, by the      *)
(* hourly StuckPayoutDetectorService or by an administrator                 *)
ClearRelease(t) == status = "READY_FOR_PAYOUT" /\ Clear(t, "party")

ClearReleaseByAdmin(t) ==
    /\ status \in {"FUNDED", "IN_PROGRESS", "CLIENT_CONFIRMED", "READY_FOR_PAYOUT",
                   "DISPUTED"}
    /\ Clear(t, "admin")

(* The contract has a verified payment.                                     *)
ClearRefund(r, by) ==
    /\ by = "party" => status \notin {"IN_PROGRESS", "CLIENT_CONFIRMED",
                                      "READY_FOR_PAYOUT", "COMPLETED", "DISPUTED"}
    /\ Clear(r, by)

AcquireLock(x) ==
    /\ \/ /\ MayAcquire(key[Lock(x)])
          /\ key' = [key EXCEPT ![Lock(x)] = Acquired]
          /\ RequestStep(x, "cleared", "locked")
       \/ /\ MayRefuse(key[Lock(x)])
          /\ RequestStep(x, "cleared", "done")
          /\ UNCHANGED key
    /\ UNCHANGED <<status, settlingVars, balance, job, paystack, delivery>>

RecordRow(x) ==
    /\ RequestStep(x, "locked", "recorded")
    /\ row' = [row EXCEPT ![x] = "pending"]
    /\ feeKept' = feeKept \cup ({x} \cap Transfer)
    /\ latest' = IF x \in Refund THEN x ELSE latest
    /\ UNCHANGED <<status, balance, key, job, paystack, delivery>>

Enqueue(x) ==
    /\ RequestStep(x, "recorded", IF x \in Transfer THEN "queued" ELSE "done")
    /\ job' = [job EXCEPT ![x].at = "waiting"]
    /\ UNCHANGED <<status, settlingVars, balance, key, paystack, delivery>>

(* The catch block, when the row could not be created or the queue not be   *)
(* reached                                                                  *)
RequestFails(x) ==
    /\ MayFail
    /\ \/ RequestStep(x, "locked", "done") /\ UNCHANGED row
       \/ RequestStep(x, "recorded", "done") /\ row' = [row EXCEPT ![x] = "failed"]
    /\ key' = [key EXCEPT ![Lock(x)] = Released(@)]
    /\ UNCHANGED <<status, feeKept, latest, balance, job, paystack, delivery>>

(* releaseEscrowByAdmin replaces the metadata of the row when there is a    *)
(* reason.                                                                  *)
Finish(t) ==
    /\ RequestStep(t, "queued", "done")
    /\ feeKept' = IF request[t].by = "admin" THEN feeKept \ {t} ELSE feeKept
    /\ UNCHANGED <<status, row, latest, balance, key, job, paystack, delivery>>

(* The process dies; or the lookup of recipient and fee throws, outside the *)
(* try block; or the transaction fails after it created the row, and the    *)
(* catch block throws on updating it.  The lock stays.                      *)
RequestDies(x) ==
    /\ MayFail
    /\ request[x].at \notin {"idle", "done"}
    /\ request' = [request EXCEPT ![x].at = "done"]
    /\ UNCHANGED <<status, settlingVars, balance, key, job, paystack, delivery>>
-----------------------------------------------------------------------------
(* The worker: processEscrowPayout and processEscrowRefund                  *)

Unfinished == {"waiting", "called", "noted", "completed"}

JobStep(x, from, to) ==
    /\ job[x].at = from
    /\ job' = [job EXCEPT ![x].at = to]

(* BullMQ runs the job again from its start while it has attempts left.     *)
Retry(x) == job' = [job EXCEPT ![x] = IF @.left > 1
                                      THEN [at |-> "waiting", left |-> @.left - 1]
                                      ELSE [at |-> "dead", left |-> 0]]

(* POST /transfer: the reference makes a repeated call harmless.            *)
CallTransfer(t) ==
    /\ JobStep(t, "waiting", "called")
    /\ paystack' = [paystack EXCEPT ![t] = IF @ = "none" THEN "accepted" ELSE @]
    /\ UNCHANGED <<status, settlingVars, balance, key, request, delivery>>

(* POST /refund has no reference of its own; Paystack rejects the refund of *)
(* a charge that was refunded in full.                                      *)
CallRefund(r) ==
    /\ \/ /\ paystack["refund"] = "none"
          /\ paystack' = [paystack EXCEPT !["refund"] = "accepted"]
          /\ JobStep(r, "waiting", "called")
       \/ /\ paystack["refund"] # "none"
          /\ job[r].at = "waiting"
          /\ Retry(r)
          /\ UNCHANGED paystack
    /\ UNCHANGED <<status, settlingVars, balance, key, request, delivery>>

(* ContractsService.refundContract stores the reason, or throws.            *)
NoteRefund(r) ==
    /\ IF \/ status \in {"PAID_OUT", "REFUNDED"}
          \/ request[r].by = "party" /\ status = "DISPUTED"
       THEN job[r].at = "called" /\ Retry(r)
       ELSE JobStep(r, "called", "noted")
    /\ UNCHANGED <<status, settlingVars, balance, key, request, paystack, delivery>>

(* complete throws when the row of the key has been purged.                 *)
CompleteLock(x) ==
    /\ job[x].at = IF x \in Transfer THEN "called" ELSE "noted"
    /\ IF key[Lock(x)] = "absent" THEN Retry(x)
                                  ELSE job' = [job EXCEPT ![x].at = "completed"]
    /\ key' = [key EXCEPT ![Lock(x)] = Completed(@)]
    /\ UNCHANGED <<status, settlingVars, balance, request, paystack, delivery>>

(* markPayoutInitiated, or nothing: the job returns.                        *)
FinishJob(x) ==
    /\ JobStep(x, "completed", "done")
    /\ UNCHANGED <<status, settlingVars, balance, key, request, paystack, delivery>>

(* mutant: the worker's catch block releases the lock                       *)
JobFailsReleasing(x) ==
    /\ MayFail
    /\ job[x].at \in Unfinished
    /\ Retry(x)
    /\ key' = [key EXCEPT ![Lock(x)] = Released(@)]
    /\ UNCHANGED <<status, settlingVars, balance, request, paystack, delivery>>

(* The call fails before or after Paystack acted on it, a later statement   *)
(* throws, or the worker dies and the job is found stalled.                 *)
JobFails(x) ==
    /\ MayFail
    /\ job[x].at \in Unfinished
    /\ Retry(x)
    /\ UNCHANGED <<status, settlingVars, balance, key, request, paystack, delivery>>

(* Paystack ends a transfer one way or the other, and processes a refund.   *)
EndTransfer(t) ==
    /\ paystack[t] = "accepted"
    /\ \E end \in {"success", "failed"} : paystack' = [paystack EXCEPT ![t] = end]
    /\ UNCHANGED <<status, settlingVars, balance, key, request, job, delivery>>

EndRefund ==
    /\ paystack["refund"] = "accepted"
    /\ paystack' = [paystack EXCEPT !["refund"] = "success"]
    /\ UNCHANGED <<status, settlingVars, balance, key, request, job, delivery>>
-----------------------------------------------------------------------------
(* PaystackWebhookService                                                   *)

At(d, step)   == delivery[d].at = step
Goto(d, step) == delivery' = [delivery EXCEPT ![d].at = step]
Leave(d)      == delivery' = [delivery EXCEPT ![d] = Resting]
Of(d)         == delivery[d].of
InTransaction(d) == delivery[d].tx = "open"

Deliver(d, x, step) ==
    /\ At(d, "idle")
    /\ delivery' = [delivery EXCEPT ![d] = [at |-> step, of |-> x, tx |-> "none"]]

(* handleTransferSuccess: SELECT ... FOR UPDATE of the Transaction row      *)
ReceiveSuccess(d, t) ==
    /\ paystack[t] = "success"
    /\ Deliver(d, t, "begun")
    /\ UNCHANGED <<status, settlingVars, balance, key, request, job, paystack>>

(* mutant: the row is locked, but its status is not looked at again         *)
LockCompleted(d) ==
    /\ At(d, "begun")
    /\ \A e \in Delivery : InTransaction(e) => Of(e) # Of(d)
    /\ delivery' = [delivery EXCEPT ![d] = [at |-> "locked", of |-> Of(d), tx |-> "open"]]
    /\ UNCHANGED <<status, settlingVars, balance, key, request, job, paystack>>

LockTransfer(d) ==
    /\ At(d, "begun")
    /\ \A e \in Delivery : InTransaction(e) => Of(e) # Of(d)
    /\ IF row[Of(d)] = "completed"
       THEN Leave(d)
       ELSE delivery' = [delivery EXCEPT
                             ![d] = [at |-> "locked", of |-> Of(d), tx |-> "open"]]
    /\ UNCHANGED <<status, settlingVars, balance, key, request, job, paystack>>

(* mutant: a refund that Paystack only accepted is booked                   *)
ReceiveRefundEarly(d) ==
    /\ latest # None
    /\ row[latest] = "pending"
    /\ Deliver(d, Processed, "locked")
    /\ row' = [row EXCEPT ![latest] = "completed"]
    /\ balance' = [balance EXCEPT !.escrow = @ - Amount, !.client = @ + Amount]
    /\ UNCHANGED <<status, feeKept, latest, key, request, job, paystack>>

(* refund.processed: the update of the Payment row serialises the handlers, *)
(* so the transaction that books the refund is one step.                    *)
ReceiveRefund(d) ==
    LET books == latest # None /\ row[latest] # "completed"
    IN  /\ paystack["refund"] = "success"
        /\ Deliver(d, Processed, "locked")
        /\ row' = IF books THEN [row EXCEPT ![latest] = "completed"] ELSE row
        /\ balance' = IF books THEN [balance EXCEPT !.escrow = @ - Amount,
                                                    !.client = @ + Amount]
                               ELSE balance
        /\ UNCHANGED <<status, feeKept, latest, key, request, job, paystack>>

(* markPaidOut for a transfer, markRefunded for the refund                  *)
MarkKey(d) == IF Of(d) = Processed THEN "refunded" ELSE "paid_out"
Mark(d)    == IF Of(d) = Processed THEN "REFUNDED" ELSE "PAID_OUT"

AcquireMark(d) ==
    /\ At(d, "locked")
    /\ \/ /\ MayAcquire(key[MarkKey(d)])
          /\ key' = [key EXCEPT ![MarkKey(d)] = Acquired]
          /\ Goto(d, "acquired")
       \/ /\ MayRefuse(key[MarkKey(d)])
          /\ Goto(d, "marked")
          /\ UNCHANGED key
    /\ UNCHANGED <<status, settlingVars, balance, request, job, paystack>>

ValidateMark(d) ==
    /\ At(d, "acquired")
    /\ IF ValidTransition(status, Mark(d)) THEN Goto(d, "validated")
                                           ELSE Goto(d, "failing")
    /\ UNCHANGED <<status, settlingVars, balance, key, request, job, paystack>>

(* mutant: the update leaves out the status                                 *)
WriteMarkWithoutStatus(d) ==
    /\ At(d, "validated")
    /\ Goto(d, "written")
    /\ UNCHANGED <<status, settlingVars, balance, key, request, job, paystack>>

WriteMark(d) ==
    /\ At(d, "validated")
    /\ status' = Mark(d)
    /\ Goto(d, "written")
    /\ UNCHANGED <<settlingVars, balance, key, request, job, paystack>>

CompleteMark(d) ==
    /\ At(d, "written")
    /\ key' = [key EXCEPT ![MarkKey(d)] = Completed(@)]
    /\ Goto(d, "marked")
    /\ UNCHANGED <<status, settlingVars, balance, request, job, paystack>>

(* The handler throws, which rolls its transaction back.                    *)
ReleaseMark(d) ==
    /\ At(d, "failing")
    /\ key' = [key EXCEPT ![MarkKey(d)] = Released(@)]
    /\ Leave(d)
    /\ UNCHANGED <<status, settlingVars, balance, request, job, paystack>>

(* mutants: the row is not completed; the ledger is posted although the     *)
(* transaction was rolled back                                              *)
CommitKeepingRow(d) ==
    /\ At(d, "marked")
    /\ InTransaction(d)
    /\ Leave(d)
    /\ UNCHANGED <<status, settlingVars, balance, key, request, job, paystack>>
ReturnPosting(d) ==
    /\ At(d, "marked")
    /\ ~InTransaction(d)
    /\ balance' = [balance EXCEPT !.escrow = @ - Amount + Fee, !.artisan = @ + Amount - Fee]
    /\ Leave(d)
    /\ UNCHANGED <<status, settlingVars, key, request, job, paystack>>

(* The transfer is completed and posted; the fee is what its metadata says. *)
Commit(d) ==
    LET fee == IF Of(d) \in feeKept THEN Fee ELSE 0
    IN  /\ At(d, "marked")
        /\ InTransaction(d)
        /\ row' = [row EXCEPT ![Of(d)] = "completed"]
        /\ balance' = [balance EXCEPT !.escrow  = @ - (Amount - Fee) - fee,
                                      !.artisan = @ + Amount - Fee,
                                      !.fee     = @ + fee]
        /\ Leave(d)
        /\ UNCHANGED <<status, feeKept, latest, key, request, job, paystack>>

(* Nothing to commit: a refund, or a transaction that was rolled back       *)
Return(d) ==
    /\ At(d, "marked")
    /\ ~InTransaction(d)
    /\ Leave(d)
    /\ UNCHANGED <<status, settlingVars, balance, key, request, job, paystack>>

(* handleTransferFailed updates the row whatever it says, then              *)
(* recordPayoutFailure reads the status and writes it back.                 *)
ReceiveFailure(d, t) ==
    /\ paystack[t] = "failed"
    /\ Deliver(d, t, "refused")
    /\ row' = [row EXCEPT ![t] = "failed"]
    /\ UNCHANGED <<status, feeKept, latest, balance, key, request, job, paystack>>

ReadReady(d) ==
    /\ At(d, "refused")
    /\ IF status = "READY_FOR_PAYOUT" THEN Goto(d, "ready") ELSE Leave(d)
    /\ UNCHANGED <<status, settlingVars, balance, key, request, job, paystack>>

WriteReady(d) ==
    /\ At(d, "ready")
    /\ status' = "READY_FOR_PAYOUT"
    /\ Leave(d)
    /\ UNCHANGED <<settlingVars, balance, key, request, job, paystack>>

TransactionTimesOut(d) ==
    /\ MayFail
    /\ InTransaction(d)
    /\ delivery' = [delivery EXCEPT ![d].tx = "rolled back"]
    /\ UNCHANGED <<status, settlingVars, balance, key, request, job, paystack>>

StatementFails(d) ==
    /\ MayFail
    /\ delivery[d].at \in {"acquired", "validated", "written"}
    /\ Goto(d, "failing")
    /\ UNCHANGED <<status, settlingVars, balance, key, request, job, paystack>>

DeliveryDies(d) ==
    /\ MayFail
    /\ ~At(d, "idle")
    /\ Leave(d)
    /\ UNCHANGED <<status, settlingVars, balance, key, request, job, paystack>>
-----------------------------------------------------------------------------
(* A party opens a dispute (markDisputed), which can come at any moment.    *)
RaiseDispute ==
    /\ ValidTransition(status, "DISPUTED")
    /\ status' = "DISPUTED"
    /\ UNCHANGED <<settlingVars, balance, key, request, job, paystack, delivery>>

(* A request or a handler that has the key does not last the hour of its    *)
(* lease.  When jobs and deliveries are timely, none that depends on it is  *)
(* outstanding when the lease or the retention ends.                        *)
InUse(k) ==
    \/ \E x \in Settling : Lock(x) = k /\ request[x].at \in {"locked", "recorded"}
    \/ \E d \in Delivery : /\ MarkKey(d) = k
                           /\ delivery[d].at \in {"acquired", "validated",
                                                 "written", "failing"}

Unbooked(t) == paystack[t] = "accepted" \/ (paystack[t] # "none" /\ row[t] = "pending")

Outstanding(k) ==
    \/ \E x \in Settling : Lock(x) = k /\ (\/ request[x].at = "cleared"
                                           \/ job[x].at \in Unfinished)
    \/ k = "release" /\ \/ \E t \in Transfer : Unbooked(t)
                        \/ \E d \in Delivery : delivery[d].at \in {"refused", "ready"}

TimePasses(k) ==
    /\ Elapses(key[k])
    /\ ~InUse(k)
    /\ Timely => ~Outstanding(k)
    /\ key' = [key EXCEPT ![k] = Elapsed(@)]
    /\ UNCHANGED <<status, settlingVars, balance, request, job, paystack, delivery>>

PurgeExpired ==
    /\ \E k \in Key : Purgeable(key[k])
    /\ key' = [k \in Key |-> IF Purgeable(key[k]) THEN "absent" ELSE key[k]]
    /\ UNCHANGED <<status, settlingVars, balance, request, job, paystack, delivery>>

Ask(x) == AcquireLock(x) \/ RecordRow(x) \/ Enqueue(x) \/ (x \in Transfer /\ Finish(x))

Work(x) == \/ x \in Transfer /\ CallTransfer(x)
           \/ x \in Refund /\ (CallRefund(x) \/ NoteRefund(x))
           \/ CompleteLock(x) \/ FinishJob(x)

Handle(d) == \/ LockTransfer(d) \/ AcquireMark(d) \/ ValidateMark(d) \/ WriteMark(d)
             \/ CompleteMark(d) \/ ReleaseMark(d) \/ Commit(d) \/ Return(d)
             \/ ReadReady(d) \/ WriteReady(d)

Next ==
    \/ \E t \in Transfer :
         \/ ClearRelease(t) \/ ClearReleaseByAdmin(t) \/ EndTransfer(t)
         \/ \E d \in Delivery : ReceiveSuccess(d, t) \/ ReceiveFailure(d, t)
    \/ \E r \in Refund, by \in {"party", "admin"} : ClearRefund(r, by)
    \/ \E x \in Settling : \/ Ask(x) \/ RequestFails(x) \/ RequestDies(x)
                           \/ Work(x) \/ JobFails(x)
    \/ EndRefund
    \/ \E d \in Delivery : \/ ReceiveRefund(d) \/ Handle(d) \/ TransactionTimesOut(d)
                           \/ StatementFails(d) \/ DeliveryDies(d)
    \/ RaiseDispute
    \/ \E k \in Key : TimePasses(k)
    \/ PurgeExpired

Spec == Init /\ [][Next]_vars

(* Requests, jobs and handlers go on; Paystack ends what it accepted and    *)
(* repeats the event of a transfer until it is booked.                      *)
FairSpec ==
    /\ Spec
    /\ \A x \in Settling : WF_vars(Ask(x)) /\ WF_vars(Work(x))
    /\ \A t \in Transfer :
          /\ WF_vars(EndTransfer(t))
          /\ SF_vars(/\ row[t] = "pending"
                     /\ \E d \in Delivery : ReceiveSuccess(d, t) \/ ReceiveFailure(d, t))
    /\ WF_vars(EndRefund)
    /\ \A d \in Delivery : WF_vars(Handle(d))
-----------------------------------------------------------------------------
Booked == {x \in Settling : row[x] = "completed"}

(* However deliveries repeat, overlap, time out or die, each transfer and   *)
(* each refund is posted to the ledger when its row is completed, and only  *)
(* then; the four accounts balance.  For one refund request: of two, the    *)
(* second may take over the lock of the first and have its completed row    *)
(* overwritten by "failed" (RequestFails); README.md.                       *)
LedgerMatchesRows ==
    /\ balance.artisan = (Amount - Fee) * Cardinality(Booked \cap Transfer)
    /\ balance.client = Amount * Cardinality(Booked \cap Refund) - Amount
    /\ balance.client + balance.escrow + balance.artisan + balance.fee = 0

(* Nothing is booked, and no contract is PAID_OUT or REFUNDED, before       *)
(* Paystack moved the money ("Confirms outcomes via webhooks", README.md).  *)
BookedMeansSettled ==
    /\ \A t \in Booked \cap Transfer : paystack[t] = "success"
    /\ Booked \cap Refund # {} => paystack["refund"] = "success"
    /\ status = "PAID_OUT" => \E t \in Transfer : paystack[t] = "success"
    /\ status = "REFUNDED" => paystack["refund"] = "success"

(* While leases outlast what they guard, the release lock keeps a second    *)
(* transfer from being sent before the first is booked one way or the       *)
(* other, whichever request, job or delivery died.                          *)
OneTransferOutstanding ==
    \A t, u \in Transfer : Unbooked(t) /\ Unbooked(u) => t = u

(* "Prevent duplicate payouts" (IMPLEMENTATION.md:323): Paystack pays the   *)
(* artisan of a contract at most once.                                      *)
OnePayout ==
    \A t, u \in Transfer : paystack[t] = "success" /\ paystack[u] = "success" => t = u

(* Every payout that was recorded ends: completed, or failed.               *)
PayoutEnds == \A t \in Transfer : row[t] = "pending" ~> row[t] # "pending"

(* "Transfer initiated -> Webhook confirms -> PAID_OUT" (README.md:119): a  *)
(* contract whose transfer succeeded gets there.                            *)
PaidOutFollows == \A t \in Transfer : paystack[t] = "success" ~> status = "PAID_OUT"

Release == INSTANCE FundedEscrow WITH
    Payment <- Transfer, Amount <- Amount - Fee,
    paid <- {t \in Transfer : paystack[t] = "success"},
    recorded <- Booked \cap Transfer,
    escrow <- balance.artisan

(* The artisan's account is credited once for each transfer that Paystack   *)
(* confirmed, and for nothing else.                                         *)
ImplementsRelease == Release!Spec
-----------------------------------------------------------------------------
(* The next three do not hold; README.md says how each is violated.          *)

(* "Refund cannot be requested after final settlement"                      *)
(* (contracts.service.ts:808): Paystack is not asked to refund a contract   *)
(* that was PAID_OUT.                                                       *)
NoRefundAfterSettlement ==
    [][paystack["refund"] = "none" /\ paystack'["refund"] = "accepted"
         => status # "PAID_OUT"]_vars

(* "The backend's IdempotencyService protects against duplicated delivery"  *)
(* (docs/DISASTER_RECOVERY.md:68): the one refund of the charge is booked   *)
(* to the client once.                                                      *)
RefundBookedOnce == \A q, r \in Booked \cap Refund : q = r

(* "Calculate commission" (IMPLEMENTATION.md:798): the fee by which a booked *)
(* transfer was shortened is on the fee account.                            *)
FeeCharged == balance.fee = Fee * Cardinality(Booked \cap Transfer)
=============================================================================
