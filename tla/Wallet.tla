------------------------------- MODULE Wallet -------------------------------
(***************************************************************************)
(* WalletService (src/src/modules/wallet/wallet.service.ts): the wallets of *)
(* a client (Payer) and an artisan (Payee), and the accounts of the ledger  *)
(* they exchange money with.                                                *)
(*                                                                          *)
(* Every operation of the service reads a wallet, computes its new balance  *)
(* and writes it where the version it read still matches.  Balances are     *)
(* absolute values, so whatever changes a balance without a new version     *)
(* between the read and the write is lost.  The webhook that confirms a     *)
(* contract's payout does so (Credit).                                      *)
(*                                                                          *)
(* Operations are one-shot: their references are unique in the table of     *)
(* transactions.                                                            *)
(***************************************************************************)
EXTENDS Integers, FiniteSets

CONSTANTS
    Actor,      \* concurrent requests, webhook deliveries and queue workers
    Deposit,    \* deposits of the client that were initiated
    Payout,     \* withdrawals of the artisan
    Hold,       \* amounts of the client that an administrator freezes
    Charge,     \* platform fees charged to the artisan
    Credit,     \* payouts of contracts that Paystack confirms
    Payer, Payee,
    None,
    Opening,    \* what each wallet has initially
    Tries,      \* attempts of a queue job, and of the optimistic locking loop
    MayFail     \* may a process die or a statement fail?

ASSUME SizesAssumption == Opening \in Nat /\ Tries \in Nat \ {0}
ASSUME UsersAssumption == Payer # Payee /\ MayFail \in BOOLEAN

User      == {Payer, Payee}
Reference == Deposit \cup Payout \cup Hold \cup Charge

(* Sizes of the operations; a wallet can pay for some of them, not for all. *)
Size(ref) == IF ref \in Deposit THEN 2 ELSE 1

VARIABLES
    wallet,     \* the LedgerAccount of each user
    ledger,     \* the balances of EXTERNAL_BANK, SYSTEM_ESCROW and SYSTEM_FEE
    status,     \* the rows of Transaction: deposits, payouts, holds, fees
    entries,    \* how many ledger entries have the reference
    job,        \* attempts left of the jobs of each payout in the payout-queue
    paystack,   \* what Paystack did: the charges paid, the transfers made
    credits,    \* the contract payouts that were booked
    lock,       \* who has the Redis lock wallet:lock of the payer
    actor       \* what each actor is doing

vars == <<wallet, ledger, status, entries, job, paystack, credits, lock, actor>>

Op == {"none", "verify", "request", "process", "execute", "freeze", "unfreeze",
       "release", "fee"}

NoWallet == [balance |-> 0, frozen |-> 0, version |-> 0]
Idle     == [op |-> "none", ref |-> None, at |-> "idle", tries |-> 0,
             seen |-> NoWallet, seenPayee |-> NoWallet]

WalletType == [balance : Int, frozen : Int, version : Nat]

TypeOK == /\ wallet \in [User -> WalletType]
          /\ ledger \in [{"bank", "escrow", "fee"} -> Int]
          /\ status \in [Reference -> {"none", "PENDING", "PROCESSING", "COMPLETED",
                                       "FAILED", "FROZEN", "RELEASED"}]
          /\ entries \in [Reference -> Nat]
          /\ job \in [Payout -> Nat]
          /\ paystack \subseteq Deposit \cup Payout
          /\ credits \subseteq Credit
          /\ lock \in Actor \cup {None}
          /\ actor \in [Actor -> [op : Op, ref : Reference \cup {None},
                                  at : {"idle", "asked", "refused", "ready", "read",
                                        "pending", "marked"},
                                  tries : 0..Tries, seen : WalletType,
                                  seenPayee : WalletType]]

Init == /\ wallet = [u \in User |-> [balance |-> Opening, frozen |-> 0, version |-> 1]]
        /\ ledger = [bank |-> -2 * Opening, escrow |-> 0, fee |-> 0]
        /\ status = [r \in Reference |-> IF r \in Deposit THEN "PENDING" ELSE "none"]
        /\ entries = [r \in Reference |-> 0]
        /\ job = [p \in Payout |-> 0]
        /\ paystack = {}
        /\ credits = {}
        /\ lock = None
        /\ actor = [a \in Actor |-> Idle]

At(a, op, step) == actor[a].op = op /\ actor[a].at = step
Doing(op, ref, step) == [op |-> op, ref |-> ref, at |-> step, tries |-> Tries,
                         seen |-> NoWallet, seenPayee |-> NoWallet]
Leave(a)        == actor' = [actor EXCEPT ![a] = Idle]
Goto(a, step)   == actor' = [actor EXCEPT ![a].at = step]
Begin(a, op, ref, step) ==
    /\ actor[a] = Idle
    /\ actor' = [actor EXCEPT ![a] = Doing(op, ref, step)]

Owner(ref) == IF ref \in Deposit \cup Hold THEN Payer ELSE Payee
-----------------------------------------------------------------------------
(* verifyWalletDeposit, by the client or the webhook charge.success: a      *)
(* deposit that is not COMPLETED is looked up at Paystack.                  *)
ReadDeposit(a, d) ==
    /\ status[d] # "COMPLETED"
    /\ Begin(a, "verify", d, "asked")
    /\ UNCHANGED <<wallet, ledger, status, entries, job, paystack, credits, lock>>

AskPaystack(a) ==
    /\ At(a, "verify", "asked")
    /\ Goto(a, IF actor[a].ref \in paystack THEN "ready" ELSE "refused")
    /\ UNCHANGED <<wallet, ledger, status, entries, job, paystack, credits, lock>>

(* A charge that did not succeed (yet) fails the row, whatever it has       *)
(* become.                                                                  *)
FailDeposit(a) ==
    /\ At(a, "verify", "refused")
    /\ status' = [status EXCEPT ![actor[a].ref] = "FAILED"]
    /\ Leave(a)
    /\ UNCHANGED <<wallet, ledger, entries, job, paystack, credits, lock>>

(* requestWalletPayout, for an eligible user                                *)
RequestPayout(a, p) ==
    /\ status[p] = "none"
    /\ \A b \in Actor : actor[b].ref # p
    /\ Begin(a, "request", p, "ready")
    /\ UNCHANGED <<wallet, ledger, status, entries, job, paystack, credits, lock>>

(* processPayout by an administrator: read, mark PROCESSING, enqueue.       *)
ReadPending(a, p) ==
    /\ status[p] = "PENDING"
    /\ Begin(a, "process", p, "pending")
    /\ UNCHANGED <<wallet, ledger, status, entries, job, paystack, credits, lock>>

MarkProcessing(a) ==
    /\ At(a, "process", "pending")
    /\ status' = [status EXCEPT ![actor[a].ref] = "PROCESSING"]
    /\ Goto(a, "marked")
    /\ UNCHANGED <<wallet, ledger, entries, job, paystack, credits, lock>>

Enqueue(a) ==
    /\ At(a, "process", "marked")
    /\ job' = [job EXCEPT ![actor[a].ref] = @ + Tries]
    /\ Leave(a)
    /\ UNCHANGED <<wallet, ledger, status, entries, paystack, credits, lock>>

(* executePayoutTask.  An attempt that throws is one attempt less.          *)
TakeJob(a, p) ==
    /\ job[p] > 0
    /\ job' = [job EXCEPT ![p] = @ - 1]
    /\ IF status[p] = "PROCESSING" THEN Begin(a, "execute", p, "marked")
                                   ELSE actor[a] = Idle /\ UNCHANGED actor
    /\ UNCHANGED <<wallet, ledger, status, entries, paystack, credits, lock>>

(* mutant: a transfer is made whether or not there was one                  *)
TransferAgain(a) ==
    /\ At(a, "execute", "marked")
    /\ paystack' = paystack \cup {actor[a].ref}
    /\ Goto(a, "ready")
    /\ UNCHANGED <<wallet, ledger, status, entries, job, credits, lock>>

(* POST /transfer.  Paystack refuses a second transfer with one reference,  *)
(* and that makes the client throw.                                         *)
Transfer(a) ==
    /\ At(a, "execute", "marked")
    /\ IF actor[a].ref \in paystack
       THEN Leave(a) /\ UNCHANGED paystack
       ELSE Goto(a, "ready") /\ paystack' = paystack \cup {actor[a].ref}
    /\ UNCHANGED <<wallet, ledger, status, entries, job, credits, lock>>

(* freezeFunds, and what becomes of frozen funds: unfreezeFunds, or         *)
(* releaseEscrowToUser to the payee.  They take the Redis lock of the       *)
(* payer's wallet; nobody in the code competes for the payee's.             *)
Lock(a, op, h) ==
    /\ lock = None
    /\ status[h] = IF op = "freeze" THEN "none" ELSE "FROZEN"
    /\ Begin(a, op, h, "ready")
    /\ lock' = a
    /\ UNCHANGED <<wallet, ledger, status, entries, job, paystack, credits>>

(* chargePlatformFee takes no lock.                                         *)
ChargeFee(a, f) ==
    /\ status[f] = "none"
    /\ Begin(a, "fee", f, "ready")
    /\ UNCHANGED <<wallet, ledger, status, entries, job, paystack, credits, lock>>
-----------------------------------------------------------------------------
(* What an operation needs of the wallet it read                            *)
Covered(op, w, n) ==
    CASE op \in {"request", "freeze", "fee"}  -> w.balance - w.frozen >= n
      [] op \in {"unfreeze", "release"}       -> w.frozen >= n
      [] op \in {"verify", "execute"}         -> TRUE

(* and what it writes: absolute values for the columns it changes.          *)
Changed(op, now, seen, n) ==
    [balance |-> CASE op = "verify"                        -> seen.balance + n
                   [] op \in {"execute", "release", "fee"} -> seen.balance - n
                   [] OTHER                                -> now.balance,
     frozen  |-> CASE op \in {"request", "freeze"}              -> seen.frozen + n
                   [] op \in {"execute", "release", "unfreeze"} -> seen.frozen - n
                   [] OTHER                                     -> now.frozen,
     version |-> seen.version + 1]

Outcome(op) == CASE op = "request"                -> "PENDING"
                 [] op = "freeze"                 -> "FROZEN"
                 [] op \in {"unfreeze", "release"} -> "RELEASED"
                 [] OTHER                         -> "COMPLETED"

(* Entries are written where money changes accounts.                        *)
Moves(op) == op \in {"verify", "execute", "release", "fee"}

(* mutant: a deposit is not booked at the bank                              *)
BookedWithoutDeposits(op, n) ==
    [ledger EXCEPT !.bank = @ + IF op = "execute" THEN n ELSE 0,
                   !.fee  = @ + IF op = "fee" THEN n ELSE 0]

Booked(op, n) ==
    [ledger EXCEPT !.bank = @ + CASE op = "verify"  -> -n
                                  [] op = "execute" -> n
                                  [] OTHER          -> 0,
                   !.fee  = @ + IF op = "fee" THEN n ELSE 0]

Unlocked(a) == IF lock = a THEN None ELSE lock

(* The transaction of a deposit updates its row first and so holds that row *)
(* until it ends.                                                           *)
RowFree(a) ==
    actor[a].op = "verify" =>
        \A b \in Actor \ {a} : ~(At(b, "verify", "read") /\ actor[b].ref = actor[a].ref)

(* findUnique on the wallet (both wallets of a release)                     *)
Read(a) ==
    LET act == actor[a]
        w   == wallet[Owner(act.ref)]
    IN  /\ act.at = "ready"
        /\ RowFree(a)
        /\ IF Covered(act.op, w, Size(act.ref))
           THEN /\ actor' = [actor EXCEPT ![a].at = "read", ![a].seen = w,
                                          ![a].seenPayee = IF act.op = "release"
                                                           THEN wallet[Payee] ELSE @]
                /\ UNCHANGED lock
           ELSE Leave(a) /\ lock' = Unlocked(a)
        /\ UNCHANGED <<wallet, ledger, status, entries, job, paystack, credits>>

(* mutant: the version is not compared                                      *)
AnyVersion(a) == actor[a].at = "read"

(* mutant: a release compares the version of the payer's wallet only        *)
PayerMatches(a) == wallet[Owner(actor[a].ref)].version = actor[a].seen.version

(* where: { id, version }                                                   *)
VersionMatches(a) ==
    /\ wallet[Owner(actor[a].ref)].version = actor[a].seen.version
    /\ actor[a].op = "release" => wallet[Payee].version = actor[a].seenPayee.version

(* Transaction.reference is unique.  A hold is frozen under one reference   *)
(* and given back or released under another.                                *)
ReferenceUnused(a) ==
    CASE actor[a].op \in {"freeze", "fee"}        -> status[actor[a].ref] = "none"
      [] actor[a].op \in {"unfreeze", "release"}  -> status[actor[a].ref] = "FROZEN"
      [] OTHER                                    -> TRUE

(* The transaction of each operation: wallet, row, entry and other account. *)
Write(a) ==
    LET act   == actor[a]
        n     == Size(act.ref)
        u     == Owner(act.ref)
        payer == [wallet EXCEPT ![u] = Changed(act.op, @, act.seen, n)]
    IN  /\ act.at = "read"
        /\ VersionMatches(a) /\ ReferenceUnused(a)
        /\ wallet' = IF act.op = "release"
                     THEN [payer EXCEPT ![Payee].balance = act.seenPayee.balance + n,
                                        ![Payee].version = @ + 1]
                     ELSE payer
        /\ ledger' = Booked(act.op, n)
        /\ status' = [status EXCEPT ![act.ref] = Outcome(act.op)]
        /\ entries' = [entries EXCEPT ![act.ref] = @ + IF Moves(act.op) THEN 1 ELSE 0]
        /\ lock' = Unlocked(a)
        /\ Leave(a)
        /\ UNCHANGED <<job, paystack, credits>>

(* mutant: the retry loop has no bound                                      *)
ConflictForever(a) ==
    /\ actor[a].at = "read"
    /\ ~(VersionMatches(a) /\ ReferenceUnused(a))
    /\ actor' = [actor EXCEPT ![a].at = "ready", ![a].tries = @ - 1]
    /\ UNCHANGED <<wallet, ledger, status, entries, job, paystack, credits, lock>>

(* P2025 (or P2002).  Only verification and request run in the retry loop;  *)
(* the others throw, after the transfer in the case of executePayoutTask.   *)
Conflict(a) ==
    LET act == actor[a]
    IN  /\ act.at = "read"
        /\ ~(VersionMatches(a) /\ ReferenceUnused(a))
        /\ IF act.op \in {"verify", "request"} /\ act.tries > 1
           THEN actor' = [actor EXCEPT ![a].at = "ready", ![a].tries = @ - 1]
           ELSE Leave(a)
        /\ lock' = Unlocked(a)
        /\ UNCHANGED <<wallet, ledger, status, entries, job, paystack, credits>>
-----------------------------------------------------------------------------
(* The client pays a deposit at Paystack.                                   *)
PayDeposit(d) ==
    /\ d \notin paystack
    /\ paystack' = paystack \cup {d}
    /\ UNCHANGED <<wallet, ledger, status, entries, job, credits, lock, actor>>

(* handleTransferSuccess for a contract: { increment } without a version.   *)
BookCredit(c) ==
    /\ c \notin credits
    /\ credits' = credits \cup {c}
    /\ wallet' = [wallet EXCEPT ![Payee].balance = @ + 1]
    /\ ledger' = [ledger EXCEPT !.escrow = @ - 1]
    /\ UNCHANGED <<status, entries, job, paystack, lock, actor>>

(* The lock ends after 10 s, or Redis is away and each process has its own. *)
LockExpires ==
    /\ lock # None
    /\ lock' = None
    /\ UNCHANGED <<wallet, ledger, status, entries, job, paystack, credits, actor>>

(* The process dies or a statement throws; transactions roll back.          *)
Fails(a) ==
    /\ MayFail
    /\ actor[a] # Idle
    /\ Leave(a)
    /\ UNCHANGED <<wallet, ledger, status, entries, job, paystack, credits, lock>>

Begins(a) == \/ \E d \in Deposit : ReadDeposit(a, d)
             \/ \E p \in Payout : RequestPayout(a, p) \/ ReadPending(a, p) \/ TakeJob(a, p)
             \/ \E h \in Hold, op \in {"freeze", "unfreeze", "release"} : Lock(a, op, h)
             \/ \E f \in Charge : ChargeFee(a, f)

Goes(a) == \/ AskPaystack(a) \/ FailDeposit(a) \/ MarkProcessing(a) \/ Enqueue(a)
           \/ Transfer(a) \/ Read(a) \/ Write(a) \/ Conflict(a)

Next == \/ \E a \in Actor : Begins(a) \/ Goes(a) \/ Fails(a)
        \/ \E d \in Deposit : PayDeposit(d)
        \/ \E c \in Credit : BookCredit(c)
        \/ LockExpires

Spec == Init /\ [][Next]_vars
-----------------------------------------------------------------------------
(* A wallet never owes: whatever requests, administrators, workers and      *)
(* webhooks do at once, optimistic locking keeps what is available from     *)
(* being spent twice.                                                       *)
NoOverdraft == \A u \in User : 0 <= wallet[u].frozen /\ wallet[u].frozen <= wallet[u].balance

(* What is frozen is what requests and holds that were not booked yet need, *)
(* no more (it would never be available again) and no less.                 *)
FrozenIsOwed ==
    /\ wallet[Payer].frozen = Cardinality({h \in Hold : status[h] = "FROZEN"})
    /\ wallet[Payee].frozen =
           Cardinality({p \in Payout : status[p] # "none" /\ entries[p] = 0})

TrialSum == wallet[Payer].balance + wallet[Payee].balance
                + ledger["bank"] + ledger["escrow"] + ledger["fee"]

(* No account is credited without another being debited: balances add up to *)
(* nothing or, where an increment was overwritten, to less.                 *)
NoMoneyMade == TrialSum <= 0

(* What the accounts lack was credited by contracts: no other interleaving  *)
(* loses money, and no credit is lost twice.  Before the first of them the  *)
(* balances add up to nothing (reconciliation.service.ts).                  *)
OnlyCreditsMissing == NoMoneyMade /\ -TrialSum <= Cardinality(credits)

(* "Deposit already verified" (wallet.service.ts:435): a deposit is         *)
(* credited once, however often it is verified.                             *)
DepositCreditedOnce == \A d \in Deposit : entries[d] <= 1

(* Not so: "the sum of all double-entry ledger accounts is ... instead of   *)
(* 0" (reconciliation.service.ts) is never reported (a contract's payout,   *)
(* credited between a read and a write, is overwritten),                    *)
TrialBalance == TrialSum = 0

(* and a withdrawal that Paystack made is booked, unless somebody works on  *)
(* it (the wallet may change between POST /transfer and the write, and the  *)
(* retried job is refused by Paystack).                                     *)
TransferBooked ==
    \A p \in Payout : p \in paystack /\ job[p] = 0 /\ (\A a \in Actor : actor[a].ref # p)
                          => entries[p] = 1

(* What contracts paid out, less what is missing in the accounts            *)
Late(u) == IF u = Payee THEN Cardinality(credits) + TrialSum ELSE 0

Atomic == INSTANCE Accounts WITH
    Amounts <- {1, 2},
    balance <- [u \in User |-> wallet[u].balance],
    frozen  <- [u \in User |-> wallet[u].frozen],
    late    <- [u \in User |-> Late(u)],
    system  <- ledger

(* The loop of reads and conditional writes has the effect of operations    *)
(* that happen at once: nobody spends what somebody else spent or set aside *)
(* after he read, and what a write loses are credits that came since then   *)
(* (executeWithOptimisticLockingRetry, handleTransferSuccess).              *)
ImplementsAccounts == Atomic!Spec
=============================================================================
