# TLA+ models of WorkSure's server

WorkSure is a NestJS monolith (`src/src`): clients post jobs, artisans propose,
accepted proposals become contracts, clients fund contracts through Paystack,
both parties confirm completion, and the money is released or refunded. PostgreSQL
(through Prisma) holds the state, Redis holds queues, caches and event keys.
Several processes may run the same code: HTTP requests, webhook deliveries, queue
workers, cron jobs and event listeners all call the same services.

The models follow the money. They say what the code does between any two database
statements, and what is left when a process dies there.

## 1. The system

| Part | State it keeps | Operations | Calls and is called by |
|---|---|---|---|
| IdempotencyService (`common/services`) | rows of `IdempotencyKey` | tryAcquire, complete, release, purgeExpired | contracts, payments; the purge by EphemeralCleanupService |
| contracts | `Contract`, status of `Job` | createContract, activate, markFunded, confirmCompletion, deliverable approved, markPaidOut, recordPayoutFailure, markRefunded, markDisputed | payments, webhooks, event listeners |
| payments | `Payment`, `Transaction`, ledger accounts and entries | initialize, verify, complete, release, release by admin, refund, escrow-queue worker, webhooks, hourly detector of stuck payouts | contracts, idempotency, Paystack, BullMQ |
| webhook intake (payments.controller) | event keys in Redis | paystackWebhook | the webhook service |
| reconciliation | reports | daily comparison of ledger and Paystack | reads the ledger |
| wallet | ledger accounts with versions, `Transaction` | deposit, payout, freeze, unfreeze, release, fee | Paystack, wallet jobs |
| disputes, admin | `Dispute`, evidence, history | create, evidence, change state, resolve (twice: disputes and admin) | payments through an event or a call |
| deliverables | `Deliverable`, versions, revisions | submit, view, request revision, approve | contracts through an event |
| proposals, jobs | `Proposal`, `Job` | create, update, withdraw, accept, reject, expire | contracts |
| reviews, reputation | `Review`, eligibility, reputation | submit, publish, recalculate | queue |
| sessions, lockout, throttler | Redis | create, rotate, revoke; count failures; count hits | guards |
| cache, distributed lock | Redis, memory | get, set, lock, unlock | most services |
| notifications, chat, KYC, verification, users, artisan, taxonomy | one row at a time | create, update, list | event listeners |
| audit, analytics, monitoring, health | logs | append, read | all |

What makes the code hard, and where a test would hardly reach:

* A status transition is several statements on the shared client: key, read,
  validate, write, job, complete. Other handlers run between them.
* `markFunded` and `markPaidOut` are called inside an interactive transaction, but use
  their own connection: what they write survives a rollback of the caller.
* A lock is a row with a lease of an hour, completed records are kept for a week, and
  neither `complete` nor `release` asks whose row it is. Whoever dies with a lock makes
  others take "somebody does it" for "it is done".
* Webhooks are repeated and handled concurrently; queue jobs are retried; the detector
  initiates payouts again.
* Release and refund of one contract exclude themselves, not each other.
* Outside the money most handlers read a row, decide, and write it by id in another
  statement. Unique columns, versions and Redis keys are the only things that stop a
  second writer.
* Redis may be away. Caches, locks and counters then fall back to the memory of one
  process, or fail closed.

`PROJECT.json` lists these hazards at their lines, with the properties that cover them.

Correctness, per part: the lock excludes, recovers and never forgets a completed
record early; a contract moves along its table, is released only when both confirmed,
and its final statuses are final; each paid charge is recorded once and funds its
contract; each transfer and refund is booked once, a contract is paid out at most once
and never both paid and refunded, the fee is charged, the accounts balance. Wallets are
not overdrawn, and a deposit is credited once; the money of a dispute moves once in each
direction, as decided; versions are numbered in order; at most one contract comes of a
job; reviews are blind; a revoked session stays so; guesses at a password are bounded;
an event is handled once for each life of its key; an eligible artisan is told.

## 2. Modules

Money:

| Module | Models |
|---|---|
| `IdempotencyKeys` | the life of one key row as pure operators, shared by all modules that take such a lock |
| `OperationGuard` | abstract: at most one owner of an operation, orphans recovered, a done operation refused |
| `Idempotency` | IdempotencyService around one operation, statement by statement; refines `OperationGuard` |
| `ContractStatus` | the statuses and `validStateTransitions` |
| `Contracts` | the handlers of ContractsService on one contract |
| `FundedEscrow` | abstract: money that moved is recorded once |
| `Funding` | initialization and verification of payments of one contract; refines `FundedEscrow` |
| `Settlement` | release, refund, worker and webhooks of one funded contract; its transfers refine `FundedEscrow` |
| `Accounts` | abstract: operations that move money between accounts, or set it aside, at once, and may lose what contracts paid in late |
| `Wallet` | WalletService on the wallets of a client and an artisan, with the payout queue; refines `Accounts` |

Business:

| Module | Models |
|---|---|
| `Marketplace` | jobs, proposals and createContract, around one job |
| `Disputes` | one dispute: evidence, changes of state, both ways to resolve it, the request to move the money |
| `Deliverables` | the versions an artisan submits for one contract, and what the client says of them |
| `Reviews` | eligibility, blind submission, moderation, and the job that recalculates the reputation |

Platform:

| Module | Models |
|---|---|
| `Sessions` | SessionService in Redis, and login, logout and password reset as its users |
| `Lockout` | the counter of failed logins |
| `Credentials` | registration, codes, verification, reset of the password of one address |
| `Throttler` | the count of requests and its block |
| `CacheLock` | the distributed lock of RedisCacheService |
| `TieredCache` | one cached key, in the memory of each process and in Redis |
| `WebhookIntake` | the event key of a delivery, from the request to the answer |
| `Notifications` | routing and delivery of one event through the queues |
| `Verification` | the two verifications of one artisan, and the flag that an administrator sets |
| `Chat` | one conversation: rooms, fetches, messages |

For TLC: `MCContracts`, `MCSettlement` and `MCWallet` add symmetry; `MCMoneyLive`,
`MCBusiness` and `MCPlatform` each put several modules into one run. Proofs:
`IdempotencyProofs`, `ContractsProofs`, `FundingProofs`, `SettlementProofs`,
`WalletProofs`, `BusinessProofs` (the business modules, as `MCBusiness` instantiates them),
`AccessProofs` and `PlatformProofs` (the platform modules, as `MCPlatform` does).

Conventions. A key is `absent`, `held`, `lapsed`, `completed` or `aged`; `TimePasses`
ends a lease or a retention, `PurgeExpired` deletes. A handler is a record with the
step it is about to do (`at`), what it works on, and what it read, if it decides by
that later. A handler that checks and writes in one statement is one action. `Fails`
(or `Crash`, `Dies`, `Stalls`) ends a handler between two of its statements and keeps
what it wrote. Operators with a comment that starts with "mutant" are faults; no action
uses them, they exist to see that the properties would notice.

**Idempotency.** `key` is the row, `pc` what each caller does. `Create` and `Reclaim`
are the two statements of tryAcquire. `LeaseMayLapse` says whether an operation may
outlast its lease; without it `TimePasses` waits for the holder.

**Contracts.** `contract` is the row (status, started, both confirmations, released),
`job` the status of its job, `key` one row per keyed handler, `call` the step of each
invocation. Handlers are keyed (`activate` per user, `funded`, `paid_out`, `refunded`,
`disputed`) or not (`approve`, `payout_failed`); they share the actions `TryAcquire`,
`Validate`, `Write`, `SyncJob`, `CompleteKey`, `ReadBack`, `Fail`. confirmCompletion
locks the row and is one action.

**Funding.** One `Payment` value stands for a call of initializeContractPayment with
its row, reference and charge. A `Verifier` is a run of verifyPaystackPayment, from a
webhook or the client. What its transaction writes appears at `Commit`; what markFunded
writes appears at once. `TransactionTimesOut` rolls back without interrupting the
callback, as Prisma does.

**Settlement.** A `Transfer` or `Refund` value stands for one request with its row,
reference and job; a `Delivery` is a webhook being handled. `paystack` is what Paystack
did (external). `feeKept` keeps the one part of the metadata that the ledger depends
on. `job` counts the attempts that BullMQ has left. The update of the job row and the
keys of markDisputed are in `Contracts` only.

**Wallet.** `wallet` has balance, frozen and version of the LedgerAccount of the two
users, `ledger` the balances of the other accounts, `entries` how many ledger entries a
reference has. All operations share `Read`, `Write` and `Conflict`: the tables `Covered`,
`Changed`, `Outcome` and `Booked` say what each needs of the wallet it read and which
absolute values it writes where the version still matches. `Conflict` repeats the two
operations that run in executeWithOptimisticLockingRetry, and those throw that do not.
`BookCredit` is the increment by which handleTransferSuccess (Settlement) credits a
contract's payout. A hold is given back or released under one reference.

**Marketplace.** A proposal is named after its artisan, since (jobId, artisanId) is
unique. A request reads (`Reads`), keeps whether the proposal was decided and its
price in `seen`, and writes by id. COMPLETED is to every handler here what FORCE_CLOSED
is; nothing sets VIEWED or SHORTLISTED. createContract is one transaction; its unique
columns refuse the second. expireOldProposals is `Expire`, the cron that writes many rows.

**Disputes.** `service` is DisputesService.resolveDispute, `admin` that of AdminService;
both emit what `ReadContract`, `Acquire` and `Enqueue` do then: read the contract, take
the key `contract:<id>:refund` or `:release`, enqueue. `chosen` collects the decisions,
`moved` counts what Paystack did. The states between OPEN and ADMIN_INVESTIGATION differ
for no handler and are one. `Settle` stands for Settlement's worker, which succeeds here.

**Deliverables.** `versions` has the numbers in the order they were inserted; two
requests may create two rows. **Reviews.** submitReview is a transaction at READ
COMMITTED: `ReadOwn` and `ReadOther` see what was committed before them; the reputation
job is queued before the commit, so `Aggregate` may count too early.

**Sessions.** A pipeline is a step. `live` has the session keys, `listed` the set of
the user's sessions; `over` remembers what was revoked while no validation had read it.
**Lockout.** The script is atomic, but `isLocked`, the comparison and the count are three
steps. **Credentials.** Tokens belong to an address, and are cleared and created by two
statements. **Throttler**, **CacheLock**, **TieredCache.** A `Store` is Redis or the
memory of a process; any call may find Redis away. **WebhookIntake.** The key is the id of
the data: `Event` are the events that share it. The handlers are one step there, and
Funding's, Settlement's and Wallet's in detail. **Notifications.** A job whose process
dies is run again (`Stalls`), whatever its attempts. **Verification.** `granted` and
`silent` say which of the events the artisan was told by. **Chat.** A message is
committed, then emitted to whoever is in the room.

Composition. `Contracts`, `Funding`, `Settlement` and `Disputes` look at the same
service. The first takes all handlers with abstract callers; the others put the handlers
they need into the transactions, jobs, webhooks and events that call them, on top of the
shared `ContractStatus` and `IdempotencyKeys`.

`MCMoneyLive`, `MCBusiness` and `MCPlatform` check several modules in one run: `part`
names the one that moves, and the variables of the others rest. The modules of one such
run share no variable, so nothing is lost against a run of each, and no more is claimed:
what one part does between the steps of another is shown only where a module models it,
such as `BookCredit` in Wallet.

Start statuses. The code reaches `PENDING_PAYMENT` and `FUNDED` on its own; it rejects
the step to `IN_PROGRESS` (run `contracts_activation`). Handlers of the later
statuses are modelled from the rows they accept, which seeds, migrations and support
staff produce, with the confirmations such a row carries (`RowIn`).

## 3. Runs

| Run | Shows |
|---|---|
| `idempotency_guard` | exclusion, recovery of orphans, completed records stay, refinement |
| `contracts_race` | with three concurrent handlers that may die: one run per operation, release only after both confirmed, a completed payout is done |
| `contracts_activation` (violation) | the table rejects every activation of a funded contract |
| `funding_faults` | the ledger matches the verified payments under all faults, a completed key means that the contract is funded, refinement |
| `funding_rollback` (violation) | marking the contract inside the transaction is not atomic |
| `settlement_faults` | one outstanding transfer under all faults while leases outlast what they guard; the artisan is credited once per confirmed transfer |
| `settlement_refund` | ledger and booking with a payout and a refund at once and overlapping deliveries |
| `settlement_twice` (violation) | a payout is made twice after a crash inside markPaidOut |
| `money_live` | without faults payment and contract agree, paid money funds the contract, payouts end, a successful transfer leads to PAID_OUT, the job follows |
| `business` | wallets are never overdrawn and freeze what they owe; the accounts lack nothing but credits of contracts, refinement; disputes move money once per direction and as decided; versions in order; reviews blind; decisions undone by stale reads only; one contract per job |
| `platform` | revoked sessions, bounded guessing, valid codes, admitted requests, locks, caches, event keys, deliveries, announcements, messages: one property for each part |
| `wallet_deposit` (violation) | a deposit that two requests verify at once is credited twice |

Bounds. A conflict of a read with a later write takes two handlers, since each
handler writes a row at most once; `contracts_race` has a third to refuse, and the lock
five callers, so that some meet what a reclaim by others left. Two payments, two
transfers: the properties compare one with another. Two deliveries: one repeats the
other. `Attempts` is 1 or 2 instead of 5: a job is retried, and gives up. Amount and fee
are single numbers; no property depends on their size.

`business`: two requests that overlap. `Opening = 0`, so that every withdrawal depends on
a deposit, a release or a credit made in the run; one operation of each kind, of sizes 2
and 1, so that a wallet can pay for some but not for all. `Tries = 2`: a loop and a job
are repeated, and give up. Two artisans: proposals compete. `VersionBound = 3`: a version
is submitted while another is revised and a third was. `EvidenceBound = 1`: evidence is
late or not. `JobBound = 2`: two reputation jobs of one user overlap.

`platform`: three logins, requests or deliveries, so that one is refused while two
overlap; `MAX_ATTEMPTS = 3` and `Limit = 2`, each passed by `HitBound = 5` hits; two
sessions, codes, events, messages, since one is the other's successor; two processes, of
which one has two of the three tasks (`TaskHome`), so that tasks meet in a memory and
across memories. `ResetBound`, `VersionBound`, `ExpiryBound` and `StallBound` are 1: one
reset, change of the data, expiry of a key, death of a worker is what others overlap
with; `RefBound = 2` makes one identity session the other's successor.

`wallet_deposit` has no fee (`Charge = {}`): none is needed. All other state is finite by
itself: nothing is cut off by a constraint.

`Timely` in Settlement says that a lease does not end while a job or event that
depends on it is outstanding. It is a hypothesis about the environment (an hour against
five attempts within a minute, and Paystack's delays). Under it
`OneTransferOutstanding` holds, while `OnePayout` does not. `money_live` goes without it.

Fairness. `money_live` states the conjuncts of the `FairSpec` of Contracts, Funding and
Settlement, each as long as its part runs. A handler that runs goes on (weak fairness of
its steps), as nothing crashes there. Paystack ends what it accepted and delivers an
event until it is handled, which is what its webhooks promise; strong fairness there,
because duplicates of other events may occupy the handlers in between. No fairness on
requests by users, on crashes, or, outside the lock's own run, on time. The lock's
orphans are recovered because time passes and the cleanup runs every five minutes.

`CHECK_DEADLOCK FALSE` in all runs but those of the lock and of Contracts: a contract that
is funded or settled, a dispute that was decided, a job that is closed have nothing left
to do, and the bounded parts of `business` and `platform` use up their operations.

Each module has a type invariant. All are theorems; `business` checks those of its parts as
well.

## 4. Proofs

Checked by tlapm for every value of the constants under the named assumptions of the
modules:

* `IdempotencyProofs`: `TypeCorrect`; and, when operations do not outlast their lease,
  `Exclusion`, `CompletedRecordSticks` and `Implementation`. The invariant `IInv` says
  that whoever holds does so under a `held` row and alone. A lapsed or completed row
  therefore has no holder, so reclaim, purge and release meet nobody.
* `ContractsProofs`: `ContractTypes`, `OneRunAtATime`, `ReadyWhenConfirmed`,
  `CompletedWhenDone`, for any number of callers and any set of start statuses. `IInv` ties
  each step of a keyed handler to its key, which is what makes `Write` and `SyncJob` of
  `markPaidOut` happen before `CompleteKey` of the same run, and adds that a handler past
  validation for READY_FOR_PAYOUT is an approval, which sets both confirmations, or the
  write-back of recordPayoutFailure, whose contract had them.
  `NoKeyIsLeaked` (assumed: `MayCrash = FALSE`) adds to `IInv` that who has only to read back
  has completed its key (`Settled`), so that leaving there leaves no key held.
  `TableFollowed` (assumed: `OneCaller`) needs what confirmCompletion may do meanwhile:
  it moves CLIENT_CONFIRMED to READY_FOR_PAYOUT, as the client's confirmation came first
  (`ClientFirst`). `Foreseen` says that whoever passed the validation may still write, or
  has nothing to change: the table allows its target from each status on that way.
* `FundingProofs`: `FundingTypes`, `LedgerAlwaysMatches`, `PaidBeforeFunded`,
  `RefusedMeansFunded`, `FundedNeverLeft`, `Implementation`, for any finite set of payments,
  any verifiers, and all faults. `IInv` says that open transactions are on different
  payments, that a payment being verified was paid, and that whoever is past the write of
  FUNDED finds it so; the ledger part counts the verified payments with the cardinality
  theorems of the library. `FundedTogether` assumes `MayFail = FALSE`, as `money_live` does,
  and strengthens `IInv` by `Quiet`: a held key has a run between acquiring and completing
  or releasing it, which has the row lock of its payment, so no other run of that payment
  meets the key held; a FUNDED contract has its payment verified or a run that only has to
  commit. With faults the property fails (`funding_rollback`).
* `SettlementProofs`: `SettlementTypes`, `BookedOnlySettled`, `LedgerAlwaysMatches`,
  `ReleaseImplemented`, `OneSentAtATime`, for any payouts, refunds, deliveries, amount and
  fee, with every fault. Assumed: the contract starts neither PAID_OUT nor REFUNDED
  (`Unsettled`); for `LedgerAlwaysMatches`, at most one refund request; for
  `OneSentAtATime`, `Timely`, without which a lease may end under a running job. `IInv`
  has three parts besides types and the booking itself. `Requests` relates a request to
  its row and its job. `Sound` says of a delivery that Paystack confirmed what it
  marks, and that in an open transaction its row is not completed.
  `RowLocks` says that two open transactions never have the same row. So the
  step that books a row meets it unbooked, and the set of booked rows, which the
  balances count, grows by exactly that row. `SendLocked` adds what the release lock
  protects: while a transfer is requested, has a job or is not booked (`Sending`), the lock
  is held or completed, so whoever takes it finds nobody sending; the catch block, which
  gives it back, is only reached before there is a job.
* `WalletProofs`: `WalletTypes`, `NeverOverdrawn`, `FrozenMeansOwed`, `NothingFromNothing`,
  for any requests, deposits, withdrawals, holds, fees and credits, any opening balance and
  any number of retries. Assumed (`Distinct`): holds and withdrawals are finitely many, and
  no name stands for two things. `IInv` says that who is about to write has read a wallet
  that covers it, and that where the version he read still matches only a credit came
  between: what is frozen is as he read it and the balance is no less (`Knows`). A
  withdrawal is requested and booked by one actor (`Alone`), and booked only once Paystack
  has it (`Rows`), so each write moves what is frozen and what is owed together.
  `CreditsOnlyMissing` and `AccountsImplemented` strengthen `IInv` to `Balanced`: where the
  version still matches, the balance that was read lacks no more than `Late`, which is what
  contracts paid in less what the accounts lack already, and nothing in the payer's wallet
  (`Near`). A write therefore moves its amount and loses at most that (`Effect`); as it renews
  the version, nobody can lose the same again. `Late` is also what the refinement mapping shows
  of the credits; each step of `Wallet` maps to one operation of `Accounts` or to a stutter
  (`StepIsAtomic`). An operation is thereby one step, but not once: `wallet_deposit` credits a
  deposit by two of them.
* `BusinessProofs`: for any artisans, requests and bounds.
  `ContractedOnce`: a contract is created where there is none, and never replaced.
  `MovedOnce`, `MovedAsDecided`: a request about to queue a direction is the only one and
  finds its key PROCESSING with nothing queued or moved yet; once something was queued or
  moved, the key is never free again. A request moves money only for a decision that was
  taken. `VersionsAreInOrder`: the versions of a row are numbered up to its length, and
  what a request read as the latest was there.
  `ReviewsAreBlind`: who publishes has seen both submissions, and a worker counts what was
  visible. `UndoneByStaleReadOnly`: each step that changes a decided row is one of a request
  whose own copy says that it was not decided. `BusinessTypes` with `Distinct`, which the
  wallets need.
* `AccessProofs`: `BoundedGuessing` and `LockoutTypes`, for any finite set of logins and
  any limit: while the account is open each guess was counted or is about to be; once it
  is locked, guesses and those let in before are together at most `MAX_ATTEMPTS` and one
  less than there are logins. `RevokedStaysRevoked`: what a validation will write back is
  disjoint from what was revoked for good, and whatever is in use was created, so no login
  creates it again. `ValidCodes`: the step that verifies uses up a code that is valid and
  was mailed. `LimitHolds`, for any finite set of requests: those admitted and
  those counted within the limit but not yet admitted are together at most the hits of the
  window, and at most the limit. `StoreExcludes`: who is on time still has his entry in
  the store he locked in. `StaleByRaceOnly`: once the writer has invalidated a store, what
  it holds, or a read is about to put there, is current or marked as late.
* `PlatformProofs`: `HandledOncePerKey`, for any events and any finite set of deliveries:
  those handled and those admitted are together at most as many as the key was set.
  `DeliveredWasSent`: a job between sending and recording has sent. `EligibleWereTold`:
  whichever of the two verifications saw the other done has granted or has still to emit.
  `NothingIsMissed`: what is committed is in the table, so a fetch contains it or the
  event of its room brings it. `PlatformTypes` composes all ten.

`MCPlatform` and `MCBusiness` instantiate modules whose variables differ, so their named
assumptions (`IntakeAssumption`, `ThrottlerAssumption`, ...) repeat those of the instances:
bounds are numbers, hits and deliveries finitely many, Redis is no process. Most
theorems there are stated twice, for the specification of the part and for `SumSpec`, which
TLC runs: a step of `SumSpec` is a step of one part and leaves the others alone (`PartSteps`).

`NoKeyIsLeaked` and `TableFollowed` are about a system in which less goes wrong than in
`contracts_race`, where what they state fails; no run of its own is kept for them. A
configuration of Contracts with `MayCrash = FALSE`, or with one caller, shows them on an
instance.

Only model-checked: `OrphanRecovered` of the lock and the four liveness properties of
`money_live`, as liveness under fairness and ENABLED are out of the prover's reach. Every
invariant, every step property and every refinement that a passing run checks is a theorem.
No definition is recursive.

## 5. What the code does not ensure

Four runs expect a violation, and `PROJECT.json` quotes what they contradict. Other
formulas of the modules, marked "not so" or named there as violated, fail too; each can be
seen by putting it into a configuration.

Money:

* `ApprovalAccepted` (Contracts, as `contracts_activation`): handleDeliverableApproved
  accepts IN_PROGRESS, from which the table does not lead to READY_FOR_PAYOUT
  (contracts.service.ts:663-672).
* `TerminalIsFinal` (Contracts, two callers): of two overlapping handlers one may take a
  contract out of a terminal status that the other reached after the first had validated.
  Handlers that do not overlap keep to the table (`TableFollowed`).
* `JobFollowsPayout` with `MayCrash`: a crash between the updates of contract and job is
  never repaired, as PAID_OUT has no transition (contracts.service.ts:176-185).
* `VerifiedIsFunded` (Funding, as `funding_rollback`): a verification whose markFunded is
  refused by the key of a crashed one commits the payment and leaves the contract
  PENDING_PAYMENT for good (contracts.service.ts:483-485).
* `NoRefundAfterSettlement` (Settlement, with one refund): the worker calls Paystack
  before ContractsService checks the status (payments.service.ts:1049-1065).
* `RefundBookedOnce` (with two refunds): a repeated refund.processed books the row that
  was created last (paystack-webhook.service.ts:331-342).
* `LedgerMatchesRows` with two refunds: the job of the first dies after it called Paystack and
  its lock lapses; refund.processed books the row of the second, whose enqueue then
  fails, and the catch block writes "failed" over the booked row.
* `FeeCharged`: releaseEscrowByAdmin replaces the metadata that has the fee
  (payments.service.ts:745-758).
* `PaidOutFollows` from FUNDED: an administrator's payout is paid by Paystack and never
  booked, since markPaidOut rejects it (payments.service.ts:723-729).
* `TrialBalance` (Wallet): a contract's payout is credited by an increment that leaves the
  version alone (paystack-webhook.service.ts:206); a withdrawal, fee or release that had read
  the wallet before writes its absolute balance over it. No more than these credits is missing
  (`OnlyCreditsMissing`).
* `TransferBooked` (Wallet): the wallet changes between POST /transfer and the write, the
  write conflicts, and Paystack refuses the transfer of the retried job: the money stays
  frozen (wallet.service.ts:733). A failed transfer of a wallet payout is recorded by
  nobody either: handleTransferFailed looks for transfers of contracts.

Business:

* `OneAccepted`, `ContractOfAccepted`, `ContractPrice`, `ContractedJobStays` (Marketplace):
  several proposals of a job may be accepted; a proposal may be withdrawn, expire or be
  edited between its acceptance and the contract, and a job be deleted meanwhile.
* `MovedOneWay`, `NoLateEvidence` (Disputes): two administrators who decide differently
  at once, or one who decides again what was closed, take different keys, so the
  contract is refunded and paid out; evidence passes a check that is stale.
* `OneDeliverable`, `ApprovedIsSettled` (Deliverables): two first submissions create two
  rows; a revision that had read the deliverable before is requested of an approved one.
* `BothPublished`, `ModerationSticks`, `ProfileCurrent` (Reviews): two overlapping
  submissions do not see each other, and neither review is published; the second
  submission publishes what an administrator hid; the older of two counts is written last.

Platform:

* `RevokedIsDead`, `ResetLogsOut` (Sessions): a validation that had read a session writes
  it back after a logout; a login that compared the old password creates a session after
  the reset.
* `OneCode`, `VerifiedKeepsPassword`, `ResetOnce` (Credentials): two requests clear the
  codes before either creates one; a registration that found the account unverified
  overwrites the password of a verified one; a reset token is found twice.
* `CountExpires` (Throttler): the process dies between `incr` and `pexpire`.
* `Exclusive` (CacheLock): who cannot reach Redis locks in his memory only.
* `StaleOnlyByRaceAnywhere` (TieredCache): an invalidation does not reach the memory of
  the other processes.
* `AckedIsHandled` (WebhookIntake): a retry after a failure, and the second of two
  events of one transfer, are answered with "already_processed" and not handled.
* `NotifiedOnce`, `FailedIsNotSent` (Notifications): a routing job that stalled begins
  anew; what was sent is FAILED if its record fails.
* `FlagIsStatus`, `VerifiedStays` (Verification): `User.artisanVerified` and the status are
  written by different operations; an `initiate` that read before a success sets PENDING.
* `StoredIsSeen`, `SocketNeedsSession` (Chat): a process dies between commit and emission;
  a socket outlives its session.

## 6. Not modelled, and the plan

Left out for good: formatting, DTO validation, authorisation beyond the guards that
change state, queries, audit and financial-event rows, which are written with the row
they describe and never read back into a decision. Database: a statement is atomic, a
transaction of plain statements is atomic, `FOR UPDATE` excludes, unique columns refuse.
Signatures of webhooks are valid. Reconciliation only reads. The queues are configuration:
their attempts are constants of the modules whose jobs they carry. Mail is templates and
SMTP. KYC overwrites one row of one user with the answer of a look-up. Lists of the
administrator, alerting, monitoring, analytics, audit and health read, or write logs that
nothing reads back. Users, artisan and taxonomy read and write one row at a time. Of
notifications, preferences and read marks are left out, one row of its owner; of the
cache, `del` and `clear`, which nobody calls; of the wallet, the look-up of dedicated
account numbers.

What remains, most important first:

1. `WebhookIntake` above the handlers of Settlement in one module, to see which money is
   lost when an event is acknowledged and not handled.
2. `Disputes` with Settlement's worker in place of one that succeeds.
