------------------------------ MODULE Funding ------------------------------
(***************************************************************************)
(* Funding one contract: PaymentsService.initializeContractPayment and      *)
(* verifyPaystackPayment (src/src/modules/payments/payments.service.ts)     *)
(* with ContractsService.markPaymentInitializationRequested and markFunded. *)
(*                                                                          *)
(* Each call of initializeContractPayment makes its own Payment row and     *)
(* Paystack reference, so a payment stands for both and for that call.      *)
(* Verifications of it are run by webhook deliveries and by the client, any *)
(* number at once.  A verification writes the payment, the transaction row  *)
(* and the ledger in an interactive database transaction that holds the     *)
(* Payment row lock; markFunded, called inside its callback, uses its own   *)
(* connection, so what it writes is committed at once and stays when the    *)
(* transaction is rolled back.                                              *)
(***************************************************************************)
EXTENDS ContractStatus, IdempotencyKeys, Integers, FiniteSets

CONSTANTS
    Payment,   \* the payments that may be initialised for the contract
    Verifier,  \* the verifications that may run at the same time
    Amount,    \* the amount of the contract
    None,      \* no payment
    MayFail    \* may processes die and transactions time out?

ASSUME PaymentAssumption == IsFiniteSet(Payment) /\ None \notin Payment
ASSUME AmountAssumption  == Amount \in Nat \ {0}
ASSUME FailAssumption    == MayFail \in BOOLEAN

VARIABLES
    contract,    \* status, paystackReference and fundedPaymentId of the row
    payment,     \* the state of each Payment row
    transaction, \* the payments that have a Transaction of type PAYMENT
    balance,     \* LedgerAccount.balance of the client and of SYSTEM_ESCROW
    key,         \* the key contract:<id>:funded:<reference> of each payment
    charge,      \* each charge at Paystack
    initializer, \* the progress of each initializeContractPayment
    verifier     \* the progress of each verification

vars == <<contract, payment, transaction, balance, key, charge, initializer, verifier>>
dbVars == <<contract, payment, transaction, balance, key>>

VerifierStep == {"idle", "paid", "locked", "acquired", "validated", "written",
                 "completed", "marked", "failing"}

TxState == {"none", "open", "rolled back"}
MaybePayment == Payment \cup {None}
VerifierState == [at : VerifierStep, of : MaybePayment, tx : TxState]

TypeOK ==
    /\ contract \in [status : Status, reference : MaybePayment,
                     fundedPaymentId : MaybePayment]
    /\ payment \in [Payment -> {"absent", "pending", "initialized", "completed"}]
    /\ transaction \subseteq Payment
    /\ balance \in [client : Int, escrow : Int]
    /\ key \in [Payment -> KeyState]
    /\ charge \in [Payment -> {"none", "open", "success"}]
    /\ initializer \in [Payment -> {"idle", "fundable", "requested", "opened",
                                    "stored", "found", "done"}]
    /\ verifier \in [Verifier -> VerifierState]

Resting == [at |-> "idle", of |-> None, tx |-> "none"]

(* createContract leaves the contract in PENDING_PAYMENT.                   *)
Init ==
    /\ contract = [status |-> "PENDING_PAYMENT", reference |-> None,
                   fundedPaymentId |-> None]
    /\ payment = [p \in Payment |-> "absent"]
    /\ transaction = {}
    /\ balance = [client |-> 0, escrow |-> 0]
    /\ key = [p \in Payment |-> "absent"]
    /\ charge = [p \in Payment |-> "none"]
    /\ initializer = [p \in Payment |-> "idle"]
    /\ verifier = [v \in Verifier |-> Resting]
-----------------------------------------------------------------------------
(* initializeContractPayment                                                *)

InitStep(p, from, to) ==
    /\ initializer[p] = from
    /\ initializer' = [initializer EXCEPT ![p] = to]

CheckFundable(p) ==
    /\ InitStep(p, "idle", "fundable")
    /\ contract.status \in {"PENDING_PAYMENT", "DRAFT"}
    /\ UNCHANGED <<dbVars, charge, verifier>>

RequestPayment(p) ==
    /\ InitStep(p, "fundable", "requested")
    /\ payment' = [payment EXCEPT ![p] = "pending"]
    /\ UNCHANGED <<contract, transaction, balance, key, charge, verifier>>

(* POST /transaction/initialize                                             *)
OpenCharge(p) ==
    /\ InitStep(p, "requested", "opened")
    /\ charge' = [charge EXCEPT ![p] = "open"]
    /\ UNCHANGED <<dbVars, verifier>>

StoreReference(p) ==
    /\ InitStep(p, "opened", "stored")
    /\ payment' = [payment EXCEPT ![p] = "initialized"]
    /\ UNCHANGED <<contract, transaction, balance, key, charge, verifier>>

(* markPaymentInitializationRequested reads the status; a contract that is  *)
(* no longer PENDING_PAYMENT would have to transit back, which throws.      *)
ReadContract(p) ==
    /\ \/ contract.status = "PENDING_PAYMENT" /\ InitStep(p, "stored", "found")
       \/ contract.status # "PENDING_PAYMENT" /\ InitStep(p, "stored", "done")
    /\ UNCHANGED <<dbVars, charge, verifier>>

(* mutant: the update also writes the status it asked for                   *)
StoreWithStatus(p) ==
    /\ InitStep(p, "found", "done")
    /\ contract' = [contract EXCEPT !.reference = p, !.status = "PENDING_PAYMENT"]
    /\ UNCHANGED <<payment, transaction, balance, key, charge, verifier>>

(* contract.update of the reference, whatever the status has become         *)
StoreOnContract(p) ==
    /\ InitStep(p, "found", "done")
    /\ contract' = [contract EXCEPT !.reference = p]
    /\ UNCHANGED <<payment, transaction, balance, key, charge, verifier>>

InitializerDies(p) ==
    /\ MayFail
    /\ initializer[p] \notin {"idle", "done"}
    /\ initializer' = [initializer EXCEPT ![p] = "done"]
    /\ UNCHANGED <<dbVars, charge, verifier>>

(* The client pays at Paystack, through the authorization URL of the row.   *)
PayCharge(p) ==
    /\ charge[p] = "open"
    /\ payment[p] = "initialized"
    /\ charge' = [charge EXCEPT ![p] = "success"]
    /\ UNCHANGED <<dbVars, initializer, verifier>>
-----------------------------------------------------------------------------
(* verifyPaystackPayment                                                    *)

At(v, step)   == verifier[v].at = step
Goto(v, step) == verifier' = [verifier EXCEPT ![v].at = step]
Leave(v)      == verifier' = [verifier EXCEPT ![v] = Resting]
Of(v)         == verifier[v].of

(* mutant: the answer of Paystack is not looked at                          *)
CheckUnpaid(v, p) ==
    /\ At(v, "idle")
    /\ payment[p] = "initialized"
    /\ verifier' = [verifier EXCEPT ![v] = [at |-> "paid", of |-> p, tx |-> "none"]]
    /\ UNCHANGED <<dbVars, charge, initializer>>

(* The row is found by its reference, is not verified, and Paystack says    *)
(* that its transaction succeeded.                                          *)
CheckPaid(v, p) ==
    /\ At(v, "idle")
    /\ payment[p] = "initialized"
    /\ charge[p] = "success"
    /\ verifier' = [verifier EXCEPT ![v] = [at |-> "paid", of |-> p, tx |-> "none"]]
    /\ UNCHANGED <<dbVars, charge, initializer>>

InTransaction(v) == verifier[v].tx = "open"

(* SELECT ... FOR UPDATE, then read again whether somebody verified it.     *)
LockPayment(v) ==
    /\ At(v, "paid")
    /\ \A w \in Verifier : InTransaction(w) => Of(w) # Of(v)
    /\ IF payment[Of(v)] = "completed"
       THEN Leave(v)
       ELSE verifier' = [verifier EXCEPT
                             ![v] = [at |-> "locked", of |-> Of(v), tx |-> "open"]]
    /\ UNCHANGED <<dbVars, charge, initializer>>

(* markFunded: a refused key means the contract is returned as it is.       *)
AcquireKey(v) ==
    /\ At(v, "locked")
    /\ \/ /\ MayAcquire(key[Of(v)])
          /\ key' = [key EXCEPT ![Of(v)] = Acquired]
          /\ Goto(v, "acquired")
       \/ /\ MayRefuse(key[Of(v)])
          /\ Goto(v, "marked")
          /\ UNCHANGED key
    /\ UNCHANGED <<contract, payment, transaction, balance, charge, initializer>>

ValidateFunded(v) ==
    /\ At(v, "acquired")
    /\ IF ValidTransition(contract.status, "FUNDED") THEN Goto(v, "validated")
                                                     ELSE Goto(v, "failing")
    /\ UNCHANGED <<dbVars, charge, initializer>>

(* mutant: the update leaves out the status                                 *)
WriteWithoutStatus(v) ==
    /\ At(v, "validated")
    /\ contract' = [contract EXCEPT !.reference = Of(v), !.fundedPaymentId = Of(v)]
    /\ Goto(v, "written")
    /\ UNCHANGED <<payment, transaction, balance, key, charge, initializer>>

WriteFunded(v) ==
    /\ At(v, "validated")
    /\ contract' = [status |-> "FUNDED", reference |-> Of(v), fundedPaymentId |-> Of(v)]
    /\ Goto(v, "written")
    /\ UNCHANGED <<payment, transaction, balance, key, charge, initializer>>

CompleteKey(v) ==
    /\ At(v, "written")
    /\ key' = [key EXCEPT ![Of(v)] = Completed(@)]
    /\ Goto(v, "completed")
    /\ UNCHANGED <<contract, payment, transaction, balance, charge, initializer>>

(* Still in its try block, markFunded reads the job and emits an event.     *)
Announce(v) ==
    /\ At(v, "completed")
    /\ Goto(v, "marked")
    /\ UNCHANGED <<dbVars, charge, initializer>>

(* markFunded throws out of the callback, which rolls the transaction back. *)
ReleaseKey(v) ==
    /\ At(v, "failing")
    /\ key' = [key EXCEPT ![Of(v)] = Released(@)]
    /\ Leave(v)
    /\ UNCHANGED <<contract, payment, transaction, balance, charge, initializer>>

(* mutant: only the escrow account is posted                                *)
CommitOneSided(v) ==
    /\ At(v, "marked")
    /\ InTransaction(v)
    /\ payment' = [payment EXCEPT ![Of(v)] = "completed"]
    /\ transaction' = transaction \cup {Of(v)}
    /\ balance' = [balance EXCEPT !.escrow = @ + Amount]
    /\ Leave(v)
    /\ UNCHANGED <<contract, key, charge, initializer>>

(* mutant: the payment is not completed                                     *)
CommitUnverified(v) ==
    /\ At(v, "marked")
    /\ InTransaction(v)
    /\ Leave(v)
    /\ UNCHANGED <<dbVars, charge, initializer>>

(* The transaction of the callback: the payment is completed; if it has no  *)
(* Transaction yet, one is created and the ledger is posted.                *)
Commit(v) ==
    /\ At(v, "marked")
    /\ InTransaction(v)
    /\ payment' = [payment EXCEPT ![Of(v)] = "completed"]
    /\ transaction' = transaction \cup {Of(v)}
    /\ balance' = IF Of(v) \in transaction
                  THEN balance
                  ELSE [client |-> balance.client - Amount,
                        escrow |-> balance.escrow + Amount]
    /\ Leave(v)
    /\ UNCHANGED <<contract, key, charge, initializer>>

(* mutant: the ledger is posted outside the transaction                     *)
CommitRefusedPosts(v) ==
    /\ At(v, "marked")
    /\ ~InTransaction(v)
    /\ balance' = [client |-> balance.client - Amount, escrow |-> balance.escrow + Amount]
    /\ Leave(v)
    /\ UNCHANGED <<contract, payment, transaction, key, charge, initializer>>

(* The callback returns after its transaction was rolled back: an error.    *)
CommitRefused(v) ==
    /\ At(v, "marked")
    /\ ~InTransaction(v)
    /\ Leave(v)
    /\ UNCHANGED <<dbVars, charge, initializer>>

(* Prisma ends an interactive transaction that is open for too long; the    *)
(* callback is not interrupted, and markFunded does not use it.             *)
TransactionTimesOut(v) ==
    /\ MayFail
    /\ InTransaction(v)
    /\ verifier' = [verifier EXCEPT ![v].tx = "rolled back"]
    /\ UNCHANGED <<dbVars, charge, initializer>>

(* A statement in the try block of markFunded throws.                       *)
StatementFails(v) ==
    /\ MayFail
    /\ verifier[v].at \in {"acquired", "validated", "written", "completed"}
    /\ Goto(v, "failing")
    /\ UNCHANGED <<dbVars, charge, initializer>>

(* The process dies, or a statement outside that try block throws; either   *)
(* way the transaction is rolled back.                                      *)
VerifierDies(v) ==
    /\ MayFail
    /\ ~At(v, "idle")
    /\ Leave(v)
    /\ UNCHANGED <<dbVars, charge, initializer>>
-----------------------------------------------------------------------------
(* A verification does not last the hour of its key's lease.                *)
TimePasses(p) ==
    /\ Elapses(key[p])
    /\ \A v \in Verifier : Of(v) = p => verifier[v].at \in {"paid", "locked", "marked"}
    /\ key' = [key EXCEPT ![p] = Elapsed(@)]
    /\ UNCHANGED <<contract, payment, transaction, balance, charge, initializer, verifier>>

PurgeExpired ==
    /\ \E p \in Payment : Purgeable(key[p])
    /\ key' = [p \in Payment |-> IF Purgeable(key[p]) THEN "absent" ELSE key[p]]
    /\ UNCHANGED <<contract, payment, transaction, balance, charge, initializer, verifier>>

Initialize(p) == \/ CheckFundable(p) \/ RequestPayment(p) \/ OpenCharge(p)
                 \/ StoreReference(p) \/ ReadContract(p) \/ StoreOnContract(p)

Verify(v) == \/ LockPayment(v) \/ AcquireKey(v) \/ ValidateFunded(v) \/ WriteFunded(v)
             \/ CompleteKey(v) \/ Announce(v) \/ ReleaseKey(v) \/ Commit(v)
             \/ CommitRefused(v)

Next == \/ \E p \in Payment : \/ Initialize(p) \/ InitializerDies(p) \/ PayCharge(p)
                              \/ TimePasses(p)
        \/ \E v \in Verifier : \/ Verify(v) \/ TransactionTimesOut(v)
                               \/ StatementFails(v) \/ VerifierDies(v)
                               \/ \E p \in Payment : CheckPaid(v, p)
        \/ PurgeExpired

Spec == Init /\ [][Next]_vars

(* Paystack delivers charge.success until it is acknowledged, so a payment  *)
(* that is paid and not verified is verified again; a verification that     *)
(* started goes on.                                                         *)
FairSpec == /\ Spec
            /\ \A p \in Payment : WF_vars(\E v \in Verifier : CheckPaid(v, p))
            /\ \A v \in Verifier : WF_vars(Verify(v))
-----------------------------------------------------------------------------
Verified == {p \in Payment : payment[p] = "completed"}

Working(p) == \E v \in Verifier : Of(v) = p

(* However many verifications of however many payments overlap, time out or *)
(* die, the ledger holds the amount once for each verified payment, and its *)
(* accounts balance (the trial balance of ReconciliationService).           *)
LedgerMatchesPayments ==
    /\ transaction = Verified
    /\ balance.escrow = Amount * Cardinality(Verified)
    /\ balance.client + balance.escrow = 0

(* A contract is FUNDED only on account of a charge that Paystack confirmed *)
(* (IMPLEMENTATION.md: "NEVER trust frontend success").                     *)
FundedByPaidCharge ==
    /\ contract.status = "FUNDED" => /\ contract.fundedPaymentId \in Payment
                                     /\ charge[contract.fundedPaymentId] = "success"
    /\ \A p \in Verified : charge[p] = "success"

(* "Mark contract as funded INSIDE the transaction - ensures atomicity. If  *)
(* anything below fails the transaction rolls back automatically."          *)
(* (payments.service.ts:452-453), one half: once no verification is at      *)
(* work on it, the payment that funded a contract is verified.              *)
FundedIsVerified ==
    contract.status = "FUNDED"
        => \/ contract.fundedPaymentId \in Verified
           \/ Working(contract.fundedPaymentId)

(* The other half: a payment is not verified unless its contract is FUNDED. *)
VerifiedIsFunded == Verified # {} => contract.status = "FUNDED"

(* Without faults the two halves of a funding agree: a FUNDED contract's    *)
(* payment is verified, and a verified payment's contract is FUNDED         *)
(* (PaymentsService.verifyPaystackPayment, ContractsService.markFunded).    *)
FundedIffVerified == FundedIsVerified /\ VerifiedIsFunded

(* A funding key is completed only by a run that moved the contract, so a   *)
(* verification that is refused by a completed key finds it FUNDED.         *)
CompletedKeyMeansFunded ==
    \A p \in Payment : key[p] \in {"completed", "aged"} => contract.status = "FUNDED"

(* Nothing that initializeContractPayment does late takes a FUNDED contract *)
(* back, and no second payment is moved to it by the table.                 *)
FundedStays == [][contract.status = "FUNDED" => contract'.status = "FUNDED"]_vars

(* A client's money reaches the contract: once a charge succeeded, the      *)
(* contract gets FUNDED if no process dies and no transaction times out.    *)
PaidLeadsToFunded ==
    \A p \in Payment : charge[p] = "success" ~> contract.status = "FUNDED"

Escrow == INSTANCE FundedEscrow WITH
    paid <- {p \in Payment : charge[p] = "success"},
    recorded <- Verified,
    escrow <- balance.escrow

(* Money paid is recorded once, and nothing else is recorded.               *)
ImplementsEscrow == Escrow!Spec
=============================================================================
