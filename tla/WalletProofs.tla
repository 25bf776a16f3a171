---------------------------- MODULE WalletProofs ----------------------------
(***************************************************************************)
(* Theorems of Wallet: for any deposits, withdrawals, holds, fees and       *)
(* credits, and any number of concurrent requests that may die anywhere.    *)
(*                                                                          *)
(* Who will write a wallet has read it with what he needs; where the        *)
(* version he read still matches, nothing but a credit came between, so     *)
(* what was frozen is frozen and the balance is no less (Knows).  Each      *)
(* withdrawal is requested and transferred by one actor only (Alone).       *)
(*                                                                          *)
(* The balance he read lacks no more than the credits that nobody lost yet  *)
(* (Near), and none in the wallet of the payer: so every write is an        *)
(* operation of the abstract accounts, which may lose such credits.         *)
(***************************************************************************)
EXTENDS Wallet, FiniteSetTheorems, TLAPS

(* What is assumed of the constants: no name stands for two things.         *)
Distinct ==
    /\ IsFiniteSet(Hold) /\ IsFiniteSet(Payout)
    /\ Deposit \cap (Payout \cup Hold \cup Charge) = {}
    /\ Payout \cap (Hold \cup Charge) = {}
    /\ Hold \cap Charge = {}
    /\ None \notin Reference

Step     == {"idle", "asked", "refused", "ready", "read", "pending", "marked"}
ActState == [op : Op, ref : Reference \cup {None}, at : Step, tries : 0..Tries,
             seen : WalletType, seenPayee : WalletType]

(* What a wallet that was read tells of the wallet that is.                 *)
Seen(u, s) ==
    /\ 0 <= s.frozen /\ s.frozen <= s.balance
    /\ s.version <= wallet[u].version
    /\ s.version = wallet[u].version => /\ s.frozen = wallet[u].frozen
                                        /\ s.balance <= wallet[u].balance

Wallets == {"verify", "request", "execute", "freeze", "unfreeze", "release", "fee"}

(* What an actor works on                                                   *)
Fits(r) ==
    /\ r.op = "verify" => r.ref \in Deposit
    /\ r.op \in {"request", "process", "execute"} => r.ref \in Payout
    /\ r.op \in {"freeze", "unfreeze", "release"} => r.ref \in Hold
    /\ r.op = "fee" => r.ref \in Charge
    /\ r.at \in {"ready", "read"} => r.op \in Wallets

(* and knows of it.                                                         *)
Informed(r) ==
    /\ r.op = "request" => status[r.ref] = "none"
    /\ r.op \in {"process", "execute"} => status[r.ref] # "none"
    /\ r.op = "execute" /\ r.at \in {"ready", "read"} =>
           r.ref \in paystack /\ entries[r.ref] = 0

Knows(r) ==
    r.at = "read" =>
        /\ Seen(Owner(r.ref), r.seen)
        /\ Covered(r.op, r.seen, Size(r.ref))
        /\ r.op = "release" => Seen(Payee, r.seenPayee)

Books(r) == r.op = "request" \/ (r.op = "execute" /\ r.at \in {"ready", "read"})

Alone == \A a, b \in Actor :
            Books(actor[a]) /\ Books(actor[b]) /\ actor[a].ref = actor[b].ref => a = b

(* A withdrawal is booked after it was requested and transferred.           *)
Rows == \A p \in Payout : status[p] = "none" \/ p \notin paystack => entries[p] = 0

Money == NoOverdraft /\ FrozenIsOwed /\ NoMoneyMade

Actors == \A a \in Actor : Fits(actor[a]) /\ Informed(actor[a]) /\ Knows(actor[a])

IInv == TypeOK /\ Money /\ Rows /\ Actors /\ Alone

Held == {h \in Hold : status[h] = "FROZEN"}
Owed == {p \in Payout : status[p] # "none" /\ entries[p] = 0}
-----------------------------------------------------------------------------
LEMMA Types ==
    ASSUME TypeOK
    PROVE  /\ actor \in [Actor -> ActState]
           /\ \A a \in Actor : actor[a] \in ActState
           /\ wallet \in [User -> WalletType]
           /\ \A u \in User : /\ wallet[u] \in WalletType
                              /\ wallet[u].balance \in Int /\ wallet[u].frozen \in Int
                              /\ wallet[u].version \in Nat
<1>1. actor \in [Actor -> ActState]
  BY DEF TypeOK, ActState, Step
<1>2. wallet \in [User -> WalletType]
  BY DEF TypeOK
<1> QED BY <1>1, <1>2 DEF WalletType

LEMMA IdleState ==
    /\ Idle \in ActState
    /\ Fits(Idle) /\ Informed(Idle) /\ Knows(Idle) /\ ~Books(Idle)
<1>1. Idle \in ActState
  BY SizesAssumption DEF Idle, ActState, Op, Step, NoWallet, WalletType
<1> QED BY <1>1 DEF Idle, Fits, Informed, Knows, Books

LEMMA DoingState ==
    ASSUME NEW op \in Op, NEW ref \in Reference, NEW s \in Step
    PROVE  Doing(op, ref, s) \in ActState
BY SizesAssumption DEF Doing, ActState, NoWallet, WalletType

LEMMA InitIInv ==
    ASSUME Distinct
    PROVE  Init => IInv
<1> SUFFICES ASSUME Init PROVE IInv
  OBVIOUS
<1>1. TypeOK
  <2>1. wallet \in [User -> WalletType]
    BY SizesAssumption DEF Init, WalletType
  <2>2. ledger \in [{"bank", "escrow", "fee"} -> Int]
    <3>1. ledger = [bank |-> -2 * Opening, escrow |-> 0, fee |-> 0]
      BY DEF Init
    <3> QED BY <3>1, SizesAssumption
  <2>3. actor \in [Actor -> ActState]
    BY IdleState DEF Init
  <2> QED BY <2>1, <2>2, <2>3 DEF Init, TypeOK, ActState, Step
<1>2. Money
  <2>1. \A u \in User : wallet[u].balance = Opening /\ wallet[u].frozen = 0
    BY DEF Init
  <2>2. Held = {} /\ Owed = {}
    BY DEF Init, Held, Owed, Distinct, Reference
  <2>3. Cardinality(Held) = 0 /\ Cardinality(Owed) = 0
    BY <2>2, FS_EmptySet
  <2>4. FrozenIsOwed
    BY <2>1, <2>3 DEF FrozenIsOwed, Held, Owed, User
  <2>5. ledger["bank"] = -2 * Opening /\ ledger["escrow"] = 0 /\ ledger["fee"] = 0
    BY DEF Init
  <2>6. NoMoneyMade
    BY <2>1, <2>5, SizesAssumption DEF NoMoneyMade, TrialSum, User
  <2> QED BY <2>1, <2>4, <2>6, SizesAssumption DEF Money, NoOverdraft
<1>3. Rows
  BY DEF Init, Rows, Reference
<1>4. Actors /\ Alone
  BY IdleState DEF Init, Actors, Alone
<1> QED BY <1>1, <1>2, <1>3, <1>4 DEF IInv
-----------------------------------------------------------------------------
(* A step that moves one actor, to the state r.                             *)
Becomes(a, r) == /\ actor' \in [Actor -> ActState]
               /\ actor'[a] = r
               /\ \A b \in Actor : b # a => actor'[b] = actor[b]

LEMMA Replaced ==
    ASSUME TypeOK, NEW a \in Actor, NEW r \in ActState,
           actor' = [actor EXCEPT ![a] = r]
    PROVE  Becomes(a, r)
BY Types DEF Becomes

LEMMA StepReplaced ==
    ASSUME NEW u \in ActState, NEW s \in Step
    PROVE  /\ [u EXCEPT !.at = s] \in ActState
           /\ [u EXCEPT !.at = s].at = s
           /\ [u EXCEPT !.at = s].op = u.op
           /\ [u EXCEPT !.at = s].ref = u.ref
           /\ [u EXCEPT !.at = s].seen = u.seen
           /\ [u EXCEPT !.at = s].seenPayee = u.seenPayee
BY DEF ActState

LEMMA GotoMoves ==
    ASSUME TypeOK, NEW a \in Actor, NEW s \in Step, Goto(a, s)
    PROVE  Becomes(a, [actor[a] EXCEPT !.at = s])
<1>1. actor[a] \in ActState /\ actor \in [Actor -> ActState]
  BY Types
<1>2. actor' = [actor EXCEPT ![a] = [actor[a] EXCEPT !.at = s]]
  BY <1>1 DEF Goto
<1> QED BY <1>1, <1>2, StepReplaced, Replaced

LEMMA LeaveMoves ==
    ASSUME TypeOK, NEW a \in Actor, Leave(a)
    PROVE  Becomes(a, Idle)
BY IdleState, Replaced DEF Leave

LEMMA BeginMoves ==
    ASSUME TypeOK, NEW a \in Actor, NEW op \in Op, NEW ref \in Reference, NEW s \in Step,
           Begin(a, op, ref, s)
    PROVE  Becomes(a, Doing(op, ref, s)) /\ actor[a] = Idle
BY DoingState, Replaced DEF Begin

(* What no property speaks of                                               *)
Rest == /\ job \in [Payout -> Nat]
        /\ paystack \subseteq Deposit \cup Payout
        /\ credits \subseteq Credit
        /\ lock \in Actor \cup {None}

LEMMA RestTyped ==
    ASSUME TypeOK
    PROVE  Rest
BY DEF TypeOK, Rest

(* A step that moves one actor and writes no wallet, row or entry           *)
LEMMA ActorStep ==
    ASSUME IInv, NEW a \in Actor, NEW r \in ActState, Becomes(a, r),
           UNCHANGED <<wallet, ledger, status, entries>>,
           Rest', paystack \subseteq paystack',
           Fits(r), Informed(r)', Knows(r),
           Books(r) => \A b \in Actor : b # a /\ Books(actor[b]) => actor[b].ref # r.ref
    PROVE  IInv'
<1>1. TypeOK'
  BY DEF IInv, TypeOK, Rest, Becomes, ActState, Step
<1>2. Money'
  BY DEF IInv, Money, NoOverdraft, FrozenIsOwed, NoMoneyMade, TrialSum
<1>3. Rows'
  BY DEF IInv, Rows
<1>4. ASSUME NEW b \in Actor
      PROVE  (Fits(actor[b]) /\ Informed(actor[b]) /\ Knows(actor[b]))'
  <2>1. CASE b = a
    <3>1. actor'[b] = r
      BY <2>1 DEF Becomes
    <3>2. Knows(r)'
      BY DEF Knows, Seen
    <3> QED BY <3>1, <3>2 DEF Fits, Informed, Knows
  <2>2. CASE b # a
    <3>1. actor'[b] = actor[b]
      BY <2>2 DEF Becomes
    <3>2. Fits(actor[b]) /\ Informed(actor[b]) /\ Knows(actor[b])
      BY DEF IInv, Actors
    <3>3. Informed(actor[b])' /\ Knows(actor[b])'
      BY <3>1, <3>2 DEF Informed, Knows, Seen
    <3> QED BY <3>1, <3>2, <3>3 DEF Fits, Informed, Knows
  <2> QED BY <2>1, <2>2
<1>5. Actors'
  BY <1>4 DEF Actors
<1>6. Alone'
  BY DEF IInv, Alone, Becomes
<1> QED BY <1>1, <1>2, <1>3, <1>5, <1>6 DEF IInv

(* An actor that stops                                                      *)
LEMMA Stops ==
    ASSUME IInv, NEW a \in Actor, Becomes(a, Idle),
           UNCHANGED <<wallet, ledger, status, entries>>,
           Rest', paystack \subseteq paystack'
    PROVE  IInv'
<1>1. Informed(Idle)'
  BY DEF Informed, Idle
<1> QED BY <1>1, IdleState, ActorStep
-----------------------------------------------------------------------------
LEMMA ActorFacts ==
    ASSUME IInv, NEW a \in Actor
    PROVE  /\ TypeOK /\ Rest /\ actor[a] \in ActState
           /\ Fits(actor[a]) /\ Informed(actor[a]) /\ Knows(actor[a])
BY Types, RestTyped DEF IInv, Actors

LEMMA ReadDepositStep ==
    ASSUME IInv, NEW a \in Actor, NEW d \in Deposit, ReadDeposit(a, d)
    PROVE  IInv'
<1> DEFINE r == Doing("verify", d, "asked")
<1>1. Becomes(a, r) /\ r \in ActState
  BY ActorFacts, BeginMoves, DoingState DEF ReadDeposit, Op, Step, Reference
<1>2. Fits(r) /\ Informed(r)' /\ Knows(r) /\ ~Books(r)
  BY DEF Doing, Fits, Informed, Knows, Books
<1>3. Rest'
  BY ActorFacts DEF ReadDeposit, Rest
<1> HIDE DEF r
<1> QED BY <1>1, <1>2, <1>3, ActorStep DEF ReadDeposit

LEMMA AskPaystackStep ==
    ASSUME IInv, NEW a \in Actor, AskPaystack(a)
    PROVE  IInv'
<1> DEFINE s == IF actor[a].ref \in paystack THEN "ready" ELSE "refused"
<1>1. s \in Step
  BY DEF Step
<1>2. PICK r \in ActState : r = [actor[a] EXCEPT !.at = s]
  BY <1>1, ActorFacts, StepReplaced
<1>3. Becomes(a, r)
  BY <1>1, <1>2, ActorFacts, GotoMoves DEF AskPaystack
<1>4. r.op = "verify" /\ r.at = s /\ r.ref = actor[a].ref
  BY <1>1, <1>2, ActorFacts, StepReplaced DEF AskPaystack, At
<1>5. Fits(r) /\ Informed(r)' /\ Knows(r) /\ ~Books(r)
  <2>1. actor[a].ref \in Deposit
    BY ActorFacts DEF AskPaystack, At, Fits
  <2> QED BY <1>4, <2>1 DEF Fits, Informed, Knows, Books, Wallets
<1>6. Rest'
  BY ActorFacts DEF AskPaystack, Rest
<1> QED BY <1>3, <1>5, <1>6, ActorStep DEF AskPaystack

LEMMA RequestPayoutStep ==
    ASSUME IInv, NEW a \in Actor, NEW p \in Payout, RequestPayout(a, p)
    PROVE  IInv'
<1> DEFINE r == Doing("request", p, "ready")
<1>1. Becomes(a, r) /\ r \in ActState
  BY ActorFacts, BeginMoves, DoingState DEF RequestPayout, Op, Step, Reference
<1>2. Fits(r) /\ Informed(r)' /\ Knows(r)
  BY DEF Doing, Fits, Informed, Knows, Wallets, RequestPayout
<1>3. \A b \in Actor : actor[b].ref # r.ref
  BY DEF RequestPayout, Doing
<1>4. Rest'
  BY ActorFacts DEF RequestPayout, Rest
<1> HIDE DEF r
<1> QED BY <1>1, <1>2, <1>3, <1>4, ActorStep DEF RequestPayout

LEMMA ReadPendingStep ==
    ASSUME IInv, NEW a \in Actor, NEW p \in Payout, ReadPending(a, p)
    PROVE  IInv'
<1> DEFINE r == Doing("process", p, "pending")
<1>1. Becomes(a, r) /\ r \in ActState
  BY ActorFacts, BeginMoves, DoingState DEF ReadPending, Op, Step, Reference
<1>2. Fits(r) /\ Informed(r)' /\ Knows(r) /\ ~Books(r)
  BY DEF Doing, Fits, Informed, Knows, Books, ReadPending
<1>3. Rest'
  BY ActorFacts DEF ReadPending, Rest
<1> HIDE DEF r
<1> QED BY <1>1, <1>2, <1>3, ActorStep DEF ReadPending

LEMMA EnqueueStep ==
    ASSUME IInv, NEW a \in Actor, Enqueue(a)
    PROVE  IInv'
<1>1. Becomes(a, Idle)
  BY ActorFacts, LeaveMoves DEF Enqueue
<1>2. actor[a].ref \in Payout
  BY ActorFacts DEF Enqueue, At, Fits
<1>3. Rest'
  BY <1>2, ActorFacts, SizesAssumption DEF Enqueue, Rest
<1> QED BY <1>1, <1>3, Stops DEF Enqueue

LEMMA TakeJobStep ==
    ASSUME IInv, NEW a \in Actor, NEW p \in Payout, TakeJob(a, p)
    PROVE  IInv'
<1>1. Rest'
  BY ActorFacts DEF TakeJob, Rest
<1>2. CASE status[p] = "PROCESSING"
  <2> DEFINE r == Doing("execute", p, "marked")
  <2>1. Becomes(a, r) /\ r \in ActState
    BY <1>2, ActorFacts, BeginMoves, DoingState DEF TakeJob, Op, Step, Reference
  <2>2. Fits(r) /\ Informed(r)' /\ Knows(r) /\ ~Books(r)
    BY <1>2 DEF Doing, Fits, Informed, Knows, Books, TakeJob
  <2> HIDE DEF r
  <2> QED BY <1>1, <2>1, <2>2, ActorStep DEF TakeJob
<1>3. CASE status[p] # "PROCESSING"
  <2>1. Becomes(a, Idle)
    BY <1>3, ActorFacts, Types DEF TakeJob, Becomes
  <2> QED BY <1>1, <2>1, Stops DEF TakeJob
<1> QED BY <1>2, <1>3

(* Who makes the transfer is the only one to book it: of those that have    *)
(* its reference the others only mark and enqueue it, or are refused.       *)
LEMMA TransferStep ==
    ASSUME Distinct, IInv, NEW a \in Actor, Transfer(a)
    PROVE  IInv'
<1>0. /\ At(a, "execute", "marked") /\ actor[a].ref \in Payout
      /\ status[actor[a].ref] # "none"
  BY ActorFacts DEF Transfer, At, Fits, Informed
<1>1. Rest' /\ paystack \subseteq paystack'
  BY <1>0, ActorFacts DEF Transfer, Rest
<1>2. CASE actor[a].ref \in paystack
  BY <1>1, <1>2, ActorFacts, LeaveMoves, Stops DEF Transfer
<1>3. CASE actor[a].ref \notin paystack
  <2>0. PICK r \in ActState : r = [actor[a] EXCEPT !.at = "ready"]
    BY ActorFacts, StepReplaced DEF Step
  <2>1. Becomes(a, r)
    BY <1>3, <2>0, ActorFacts, GotoMoves DEF Transfer, Step
  <2>2. r.op = "execute" /\ r.at = "ready" /\ r.ref = actor[a].ref
    BY <1>0, <2>0, ActorFacts, StepReplaced DEF At, Step
  <2>3. Fits(r) /\ Knows(r)
    BY <1>0, <2>2 DEF Fits, Knows, Wallets
  <2>4. Informed(r)'
    <3>1. entries[r.ref] = 0 /\ status[r.ref] # "none"
      BY <1>0, <1>3, <2>2 DEF IInv, Rows
    <3>2. r.ref \in paystack'
      BY <1>3, <2>2 DEF Transfer
    <3> QED BY <2>2, <3>1, <3>2 DEF Informed, Transfer
  <2>5. ASSUME NEW b \in Actor, Books(actor[b])
        PROVE  actor[b].ref # r.ref
    BY <1>0, <1>3, <2>2, <2>5, ActorFacts DEF Books, Informed
  <2> QED BY <1>1, <2>1, <2>3, <2>4, <2>5, ActorStep DEF Transfer
<1> QED BY <1>2, <1>3

LEMMA LockStep ==
    ASSUME IInv, NEW a \in Actor, NEW h \in Hold,
           NEW op \in {"freeze", "unfreeze", "release"}, Lock(a, op, h)
    PROVE  IInv'
<1> DEFINE r == Doing(op, h, "ready")
<1>1. Becomes(a, r) /\ r \in ActState
  BY ActorFacts, BeginMoves, DoingState DEF Lock, Op, Step, Reference
<1>2. Fits(r) /\ Informed(r)' /\ Knows(r) /\ ~Books(r)
  BY DEF Doing, Fits, Informed, Knows, Books, Wallets
<1>3. Rest'
  BY ActorFacts DEF Lock, Rest
<1> HIDE DEF r
<1> QED BY <1>1, <1>2, <1>3, ActorStep DEF Lock

LEMMA ChargeFeeStep ==
    ASSUME IInv, NEW a \in Actor, NEW f \in Charge, ChargeFee(a, f)
    PROVE  IInv'
<1> DEFINE r == Doing("fee", f, "ready")
<1>1. Becomes(a, r) /\ r \in ActState
  BY ActorFacts, BeginMoves, DoingState DEF ChargeFee, Op, Step, Reference
<1>2. Fits(r) /\ Informed(r)' /\ Knows(r) /\ ~Books(r)
  BY DEF Doing, Fits, Informed, Knows, Books, Wallets
<1>3. Rest'
  BY ActorFacts DEF ChargeFee, Rest
<1> HIDE DEF r
<1> QED BY <1>1, <1>2, <1>3, ActorStep DEF ChargeFee

(* A deposit or a withdrawal that was requested changes its status only.    *)
LEMMA RowStep ==
    ASSUME Distinct, IInv, NEW a \in Actor, NEW r \in ActState, Becomes(a, r),
           NEW x \in Deposit \cup Payout, NEW v \in {"FAILED", "PROCESSING"},
           status' = [status EXCEPT ![x] = v],
           x \in Payout => status[x] # "none",
           UNCHANGED <<wallet, ledger, entries, job, paystack, credits, lock>>,
           Fits(r), Informed(r)', Knows(r), ~Books(r)
    PROVE  IInv'
<1>1. /\ x \in Reference /\ x \notin Hold /\ (x \in Deposit => x \notin Payout)
      /\ \A y \in Reference : status'[y] = IF y = x THEN v ELSE status[y]
  BY DEF Distinct, Reference, IInv, TypeOK
<1>2. TypeOK'
  <2>1. actor' \in [Actor -> ActState]
    BY DEF Becomes
  <2>2. status' \in [Reference -> {"none", "PENDING", "PROCESSING", "COMPLETED",
                                   "FAILED", "FROZEN", "RELEASED"}]
    BY <1>1 DEF IInv, TypeOK
  <2> QED BY <2>1, <2>2 DEF IInv, TypeOK, ActState, Step
<1>3. \A p \in Payout : status'[p] = "none" <=> status[p] = "none"
  BY <1>1 DEF Reference
<1>4. Money'
  <2>1. Held' = Held /\ Owed' = Owed
    BY <1>1, <1>3 DEF Held, Owed, Reference
  <2>2. FrozenIsOwed'
    BY <2>1 DEF IInv, Money, FrozenIsOwed, Held, Owed
  <2> QED BY <2>2 DEF IInv, Money, NoOverdraft, NoMoneyMade, TrialSum
<1>5. Rows'
  BY <1>3 DEF IInv, Rows
<1>6. ASSUME NEW b \in Actor
      PROVE  (Fits(actor[b]) /\ Informed(actor[b]) /\ Knows(actor[b]))'
  <2>1. CASE b = a
    <3>1. actor'[b] = r
      BY <2>1 DEF Becomes
    <3>2. Knows(r)'
      BY DEF Knows, Seen
    <3> QED BY <3>1, <3>2 DEF Fits, Informed, Knows
  <2>2. CASE b # a
    <3>1. actor'[b] = actor[b]
      BY <2>2 DEF Becomes
    <3>2. Fits(actor[b]) /\ Informed(actor[b]) /\ Knows(actor[b])
      BY DEF IInv, Actors
    <3>3. Informed(actor[b])' /\ Knows(actor[b])'
      BY <1>3, <3>1, <3>2 DEF Informed, Knows, Seen, Fits
    <3> QED BY <3>1, <3>2, <3>3 DEF Fits, Informed, Knows
  <2> QED BY <2>1, <2>2
<1>7. Actors'
  BY <1>6 DEF Actors
<1>8. Alone'
  BY DEF IInv, Alone, Becomes
<1> QED BY <1>2, <1>4, <1>5, <1>7, <1>8 DEF IInv

LEMMA FailDepositStep ==
    ASSUME Distinct, IInv, NEW a \in Actor, FailDeposit(a)
    PROVE  IInv'
<1>1. actor[a].ref \in Deposit
  BY ActorFacts DEF FailDeposit, At, Fits
<1>2. Becomes(a, Idle)
  BY ActorFacts, LeaveMoves DEF FailDeposit
<1>3. Informed(Idle)'
  BY DEF Informed, Idle
<1>4. actor[a].ref \notin Payout
  BY <1>1 DEF Distinct
<1> QED BY <1>1, <1>2, <1>3, <1>4, IdleState, RowStep DEF FailDeposit

LEMMA MarkProcessingStep ==
    ASSUME Distinct, IInv, NEW a \in Actor, MarkProcessing(a)
    PROVE  IInv'
<1>1. PICK r \in ActState : r = [actor[a] EXCEPT !.at = "marked"]
  BY ActorFacts, StepReplaced DEF Step
<1>2. Becomes(a, r)
  BY <1>1, ActorFacts, GotoMoves DEF MarkProcessing, Step
<1>3. r.op = "process" /\ r.at = "marked" /\ r.ref = actor[a].ref
  BY <1>1, ActorFacts, StepReplaced DEF MarkProcessing, At, Step
<1>4. actor[a].ref \in Payout /\ status[actor[a].ref] # "none"
  BY ActorFacts DEF MarkProcessing, At, Fits, Informed
<1>5. Fits(r) /\ Knows(r) /\ ~Books(r)
  BY <1>3, <1>4 DEF Fits, Knows, Books
<1>6. Informed(r)'
  <2>1. status'[actor[a].ref] = "PROCESSING"
    BY <1>4 DEF MarkProcessing, IInv, TypeOK, Reference
  <2> QED BY <1>3, <2>1 DEF Informed
<1> QED BY <1>2, <1>4, <1>5, <1>6, RowStep DEF MarkProcessing

LEMMA WalletRead ==
    ASSUME NEW u \in ActState, NEW w \in WalletType, NEW sp \in WalletType
    PROVE  [u EXCEPT !.at = "read", !.seen = w, !.seenPayee = sp] =
               [op |-> u.op, ref |-> u.ref, at |-> "read", tries |-> u.tries,
                seen |-> w, seenPayee |-> sp]
<1>1. PICK v \in ActState : v = [u EXCEPT !.at = "read"]
  BY StepReplaced DEF Step
<1>2. v = [op |-> u.op, ref |-> u.ref, at |-> "read", tries |-> u.tries,
           seen |-> u.seen, seenPayee |-> u.seenPayee]
  BY <1>1 DEF ActState
<1>3. PICK x \in ActState : x = [v EXCEPT !.seen = w]
  BY DEF ActState
<1>4. x = [op |-> u.op, ref |-> u.ref, at |-> "read", tries |-> u.tries,
           seen |-> w, seenPayee |-> u.seenPayee]
  BY <1>2, <1>3 DEF ActState
<1>5. [x EXCEPT !.seenPayee = sp] = [op |-> u.op, ref |-> u.ref, at |-> "read",
                                     tries |-> u.tries, seen |-> w, seenPayee |-> sp]
  BY <1>4 DEF ActState
<1>6. [u EXCEPT !.at = "read", !.seen = w, !.seenPayee = sp] = [x EXCEPT !.seenPayee = sp]
  BY <1>1, <1>3
<1> QED BY <1>5, <1>6

LEMMA OwnerIsUser == \A ref \in Reference : Owner(ref) \in User
BY DEF Owner, User

(* What is read is what is, and enough.                                     *)
LEMMA ReadStep ==
    ASSUME Distinct, IInv, NEW a \in Actor, Read(a)
    PROVE  IInv'
<1> DEFINE act == actor[a]
           w == wallet[Owner(act.ref)]
<1>1. act.at = "ready" /\ act \in ActState /\ Fits(act) /\ Informed(act)
  BY ActorFacts DEF Read
<1>2. act.op \in Wallets /\ act.ref \in Reference
  BY <1>1 DEF Fits, Wallets, Reference
<1>3. Rest'
  BY ActorFacts DEF Read, Rest, Unlocked
<1>4. CASE Covered(act.op, w, Size(act.ref))
  <2> DEFINE sp == IF act.op = "release" THEN wallet[Payee] ELSE act.seenPayee
  <2>1. w \in WalletType /\ sp \in WalletType
    BY <1>1, <1>2, ActorFacts, Types, OwnerIsUser DEF ActState, User
  <2>2. PICK r \in ActState : r = [op |-> act.op, ref |-> act.ref, at |-> "read",
                                   tries |-> act.tries, seen |-> w, seenPayee |-> sp]
    BY <1>1, <2>1 DEF ActState, Step
  <2>3. Becomes(a, r)
    <3>1. actor' = [actor EXCEPT ![a].at = "read", ![a].seen = w,
                                 ![a].seenPayee = IF act.op = "release"
                                                  THEN wallet[Payee] ELSE @]
      BY <1>4 DEF Read
    <3>2. [act EXCEPT !.at = "read", !.seen = w, !.seenPayee = sp] = r
      BY <1>1, <2>1, <2>2, WalletRead
    <3>3. actor' = [actor EXCEPT ![a] = [act EXCEPT !.at = "read", !.seen = w,
                                                    !.seenPayee = sp]]
      BY <3>1, ActorFacts, Types
    <3> QED BY <3>2, <3>3, ActorFacts, Replaced
  <2>4. /\ r.op = act.op /\ r.ref = act.ref /\ r.at = "read" /\ r.seen = w
        /\ act.op = "release" => r.seenPayee = wallet[Payee]
    BY <2>2
  <2>5. Fits(r)
    BY <1>1, <1>2, <2>4 DEF Fits
  <2>6. Informed(r)'
    BY <1>1, <2>4 DEF Informed, Read
  <2>7. Knows(r)
    <3>1. \A u \in User : Seen(u, wallet[u])
      BY ActorFacts, Types DEF IInv, Money, NoOverdraft, Seen
    <3> QED BY <1>2, <1>4, <2>4, <3>1, OwnerIsUser DEF Knows, User
  <2>8. Books(r) => \A b \in Actor : b # a /\ Books(actor[b]) => actor[b].ref # r.ref
    <3>1. Books(r) => Books(act)
      BY <1>1, <2>4 DEF Books
    <3> QED BY <2>4, <3>1 DEF IInv, Alone
  <2> QED BY <1>3, <2>3, <2>5, <2>6, <2>7, <2>8, ActorStep DEF Read
<1>5. CASE ~Covered(act.op, w, Size(act.ref))
  <2>1. Becomes(a, Idle)
    BY <1>5, ActorFacts, LeaveMoves DEF Read
  <2> QED BY <1>3, <2>1, Stops DEF Read
<1> QED BY <1>4, <1>5

LEMMA ConflictStep ==
    ASSUME IInv, NEW a \in Actor, Conflict(a)
    PROVE  IInv'
<1> DEFINE act == actor[a]
<1>1. act.at = "read" /\ act \in ActState /\ Fits(act) /\ Informed(act)
  BY ActorFacts DEF Conflict
<1>2. Rest'
  BY ActorFacts DEF Conflict, Rest, Unlocked
<1>3. CASE act.op \in {"verify", "request"} /\ act.tries > 1
  <2>0. act.tries - 1 \in 0..Tries
    <3>1. act.tries \in 0..Tries
      BY <1>1 DEF ActState
    <3> QED BY <1>3, <3>1, SizesAssumption
  <2>1. PICK r \in ActState : r = [op |-> act.op, ref |-> act.ref, at |-> "ready",
                                   tries |-> act.tries - 1, seen |-> act.seen,
                                   seenPayee |-> act.seenPayee]
    BY <1>1, <2>0 DEF ActState, Step
  <2>2. Becomes(a, r)
    <3>1. actor' = [actor EXCEPT ![a].at = "ready", ![a].tries = @ - 1]
      BY <1>3 DEF Conflict
    <3>2. actor' = [actor EXCEPT ![a] = r]
      BY <1>1, <2>1, <3>1, ActorFacts, Types DEF ActState
    <3> QED BY <3>2, ActorFacts, Replaced
  <2>3. r.op = act.op /\ r.ref = act.ref /\ r.at = "ready"
    BY <2>1
  <2>4. Fits(r) /\ Knows(r)
    BY <1>1, <1>3, <2>3 DEF Fits, Knows, Wallets
  <2>5. Informed(r)'
    BY <1>1, <1>3, <2>3 DEF Informed, Conflict
  <2>6. Books(r) => \A b \in Actor : b # a /\ Books(actor[b]) => actor[b].ref # r.ref
    <3>1. Books(r) => Books(act)
      BY <1>1, <1>3, <2>3 DEF Books
    <3> QED BY <2>3, <3>1 DEF IInv, Alone
  <2> QED BY <1>2, <2>2, <2>4, <2>5, <2>6, ActorStep DEF Conflict
<1>4. CASE ~(act.op \in {"verify", "request"} /\ act.tries > 1)
  <2>1. Becomes(a, Idle)
    BY <1>4, ActorFacts, LeaveMoves DEF Conflict
  <2> QED BY <1>2, <2>1, Stops DEF Conflict
<1> QED BY <1>3, <1>4

LEMMA FailsStep ==
    ASSUME IInv, NEW a \in Actor, Fails(a)
    PROVE  IInv'
<1>1. Becomes(a, Idle) /\ Rest'
  BY ActorFacts, LeaveMoves DEF Fails, Rest
<1> QED BY <1>1, Stops DEF Fails
-----------------------------------------------------------------------------
(* A step of Paystack or Redis, or none                                     *)
LEMMA OutsideStep ==
    ASSUME IInv, UNCHANGED <<wallet, ledger, status, entries, actor>>,
           Rest', paystack \subseteq paystack'
    PROVE  IInv'
<1>1. TypeOK'
  BY DEF IInv, TypeOK, Rest
<1>2. Money'
  BY DEF IInv, Money, NoOverdraft, FrozenIsOwed, NoMoneyMade, TrialSum
<1>3. Rows'
  BY DEF IInv, Rows
<1>4. ASSUME NEW a \in Actor
      PROVE  (Fits(actor[a]) /\ Informed(actor[a]) /\ Knows(actor[a]))'
  <2>1. Fits(actor[a]) /\ Informed(actor[a]) /\ Knows(actor[a])
    BY DEF IInv, Actors
  <2>2. Fits(actor[a])' /\ Informed(actor[a])'
    BY <2>1 DEF Fits, Informed
  <2>3. Knows(actor[a])'
    BY <2>1 DEF Knows, Seen
  <2> QED BY <2>2, <2>3
<1>5. Alone'
  BY DEF IInv, Alone, Books
<1> QED BY <1>1, <1>2, <1>3, <1>4, <1>5 DEF IInv, Actors

(* A credit leaves the version alone, and the balance is more than whoever  *)
(* read the wallet knows.                                                   *)
LEMMA BookCreditStep ==
    ASSUME IInv, NEW c \in Credit, BookCredit(c)
    PROVE  IInv'
<1>1. Rest' /\ TypeOK
  BY RestTyped DEF IInv, BookCredit, Rest
<1>2. /\ wallet'[Payee].balance = wallet[Payee].balance + 1
      /\ wallet'[Payee].frozen = wallet[Payee].frozen
      /\ wallet'[Payee].version = wallet[Payee].version
      /\ wallet'[Payer] = wallet[Payer]
      /\ wallet' \in [User -> WalletType]
  BY <1>1, Types, UsersAssumption DEF BookCredit, User, WalletType
<1>3. /\ ledger'["bank"] = ledger["bank"] /\ ledger'["fee"] = ledger["fee"]
      /\ ledger'["escrow"] = ledger["escrow"] - 1
      /\ ledger' \in [{"bank", "escrow", "fee"} -> Int]
      /\ ledger["bank"] \in Int /\ ledger["escrow"] \in Int /\ ledger["fee"] \in Int
  BY <1>1 DEF BookCredit, TypeOK
<1>4. /\ wallet[Payee].balance \in Int /\ wallet[Payer].balance \in Int
      /\ wallet[Payee].frozen \in Int
  BY <1>1, Types DEF User
<1>5. TypeOK'
  BY <1>1, <1>2, <1>3 DEF BookCredit, TypeOK, Rest
<1>6. Money'
  <2>1. NoOverdraft'
    BY <1>2, <1>4 DEF IInv, Money, NoOverdraft, User
  <2>2. FrozenIsOwed'
    BY <1>2 DEF IInv, Money, FrozenIsOwed, BookCredit
  <2>3. NoMoneyMade'
    BY <1>2, <1>3, <1>4 DEF IInv, Money, NoMoneyMade, TrialSum
  <2> QED BY <2>1, <2>2, <2>3 DEF Money
<1>7. ASSUME NEW u \in User, NEW w \in WalletType, Seen(u, w)
      PROVE  Seen(u, w)'
  BY <1>2, <1>4, <1>7 DEF Seen, User, WalletType
<1>8. Actors'
  <2> SUFFICES ASSUME NEW a \in Actor
               PROVE  (Fits(actor[a]) /\ Informed(actor[a]) /\ Knows(actor[a]))'
    BY DEF Actors
  <2>1. /\ actor[a] \in ActState /\ Fits(actor[a]) /\ Informed(actor[a]) /\ Knows(actor[a])
    BY ActorFacts
  <2>2. (Fits(actor[a]) /\ Informed(actor[a]))'
    BY <2>1 DEF BookCredit, Fits, Informed
  <2>3. actor[a].seen \in WalletType /\ actor[a].seenPayee \in WalletType
    BY <2>1 DEF ActState
  <2>4. actor[a].at = "read" => Owner(actor[a].ref) \in User
    BY DEF Owner, User
  <2>5. Knows(actor[a])'
    BY <1>7, <2>1, <2>3, <2>4 DEF BookCredit, Knows, User
  <2> QED BY <2>2, <2>5
<1>9. Rows' /\ Alone'
  BY DEF IInv, BookCredit, Rows, Alone, Books
<1> QED BY <1>5, <1>6, <1>8, <1>9 DEF IInv
-----------------------------------------------------------------------------
(* What holds when an actor writes: nobody wrote since it read.             *)
LEMMA WriteFacts ==
    ASSUME Distinct, IInv, NEW a \in Actor, Write(a)
    PROVE  LET r == actor[a]
               u == Owner(r.ref)
           IN  /\ r \in ActState /\ r.at = "read" /\ r.op \in Wallets
               /\ Fits(r) /\ Informed(r) /\ r.ref \in Reference
               /\ u \in User /\ wallet[u] \in WalletType /\ r.seen \in WalletType
               /\ r.seen.version = wallet[u].version
               /\ r.seen.frozen = wallet[u].frozen
               /\ r.seen.balance <= wallet[u].balance
               /\ 0 <= r.seen.frozen /\ r.seen.frozen <= r.seen.balance
               /\ Covered(r.op, r.seen, Size(r.ref))
<1> DEFINE r == actor[a]
           u == Owner(r.ref)
<1>1. r.at = "read" /\ r \in ActState /\ Fits(r) /\ Informed(r) /\ Knows(r) /\ TypeOK
  BY ActorFacts DEF Write
<1>2. r.op \in Wallets /\ r.ref \in Reference
  BY <1>1 DEF Fits, Wallets, Reference
<1>3. u \in User
  BY <1>2, OwnerIsUser
<1>4. wallet[u] \in WalletType /\ r.seen \in WalletType
  BY <1>1, <1>3, Types DEF ActState
<1>5. r.seen.version = wallet[u].version
  BY DEF Write, VersionMatches
<1>6. Seen(u, r.seen) /\ Covered(r.op, r.seen, Size(r.ref))
  BY <1>1 DEF Knows
<1> QED BY <1>1, <1>2, <1>3, <1>4, <1>5, <1>6 DEF Seen

(* Its wallet becomes what it computed, the version one more.               *)
LEMMA WalletWritten ==
    ASSUME Distinct, IInv, NEW a \in Actor, Write(a), actor[a].op # "release",
           NEW u \in User, u = Owner(actor[a].ref)
    PROVE  /\ wallet'[u] = Changed(actor[a].op, wallet[u], actor[a].seen, Size(actor[a].ref))
           /\ \A v \in User : v # u => wallet'[v] = wallet[v]
           /\ wallet' \in [User -> WalletType]
<1>1. wallet' = [wallet EXCEPT ![u] = Changed(actor[a].op, wallet[u], actor[a].seen,
                                              Size(actor[a].ref))]
  BY Types DEF IInv, Write
<1>2. wallet[u] \in WalletType /\ actor[a].seen \in WalletType /\ wallet \in [User -> WalletType]
  BY WriteFacts, Types DEF IInv
<1>3. Size(actor[a].ref) \in Int
  BY DEF Size
<1>4. Changed(actor[a].op, wallet[u], actor[a].seen, Size(actor[a].ref)) \in WalletType
  BY <1>2, <1>3 DEF Changed, WalletType
<1> QED BY <1>1, <1>2, <1>4

LEMMA WalletsReleased ==
    ASSUME Distinct, IInv, NEW a \in Actor, Write(a), actor[a].op = "release"
    PROVE  /\ wallet'[Payer].balance = actor[a].seen.balance - 1
           /\ wallet'[Payer].frozen = actor[a].seen.frozen - 1
           /\ wallet'[Payer].version = wallet[Payer].version + 1
           /\ wallet'[Payee].balance = actor[a].seenPayee.balance + 1
           /\ wallet'[Payee].frozen = wallet[Payee].frozen
           /\ wallet'[Payee].version = wallet[Payee].version + 1
           /\ wallet' \in [User -> WalletType]
           /\ actor[a].seenPayee.balance <= wallet[Payee].balance
           /\ actor[a].seenPayee.balance >= wallet[Payee].frozen
           /\ actor[a].seenPayee.balance \in Int
           /\ actor[a].ref \in Hold /\ Owner(actor[a].ref) = Payer
<1>1. actor[a].ref \in Hold /\ actor[a].ref \notin Deposit
  BY WriteFacts DEF Fits, Distinct
<1>2. Owner(actor[a].ref) = Payer /\ Size(actor[a].ref) = 1
  BY <1>1 DEF Owner, Size
<1>3. /\ wallet \in [User -> WalletType] /\ Payer \in User /\ Payee \in User
      /\ wallet[Payer] \in WalletType /\ wallet[Payee] \in WalletType
      /\ actor[a].seen \in WalletType
  BY WriteFacts, Types DEF IInv, User
<1>4. actor[a].seenPayee \in WalletType /\ Seen(Payee, actor[a].seenPayee)
      /\ actor[a].seenPayee.version = wallet[Payee].version
  BY ActorFacts DEF Write, VersionMatches, Knows, ActState
<1> DEFINE c == Changed("release", wallet[Payer], actor[a].seen, 1)
           f == [wallet EXCEPT ![Payer] = c]
<1>5. c \in WalletType /\ c.balance = actor[a].seen.balance - 1
      /\ c.frozen = actor[a].seen.frozen - 1 /\ c.version = actor[a].seen.version + 1
  BY <1>3 DEF Changed, WalletType
<1>6. wallet' = [f EXCEPT ![Payee].balance = actor[a].seenPayee.balance + 1,
                          ![Payee].version = @ + 1]
  BY <1>2 DEF Write
<1>7. f \in [User -> WalletType] /\ f[Payer] = c /\ f[Payee] = wallet[Payee]
  BY <1>3, <1>5, UsersAssumption
<1>8. /\ wallet'[Payer] = c
      /\ wallet'[Payee].balance = actor[a].seenPayee.balance + 1
      /\ wallet'[Payee].frozen = wallet[Payee].frozen
      /\ wallet'[Payee].version = wallet[Payee].version + 1
      /\ wallet' \in [User -> WalletType]
  <2> HIDE DEF c, f
  <2> QED BY <1>3, <1>4, <1>6, <1>7, UsersAssumption DEF WalletType
<1>9. actor[a].seen.version = wallet[Payer].version
  BY <1>2, WriteFacts
<1>10. /\ actor[a].seenPayee.balance <= wallet[Payee].balance
       /\ actor[a].seenPayee.balance >= wallet[Payee].frozen
       /\ actor[a].seenPayee.balance \in Int
  BY <1>3, <1>4 DEF Seen, WalletType
<1> HIDE DEF c, f
<1> QED BY <1>1, <1>2, <1>5, <1>8, <1>9, <1>10

LEMMA RowsWritten ==
    ASSUME Distinct, IInv, NEW a \in Actor, Write(a)
    PROVE  LET r == actor[a]
               k == IF Moves(r.op) THEN 1 ELSE 0
           IN  /\ \A x \in Reference : /\ status'[x] = IF x = r.ref THEN Outcome(r.op) ELSE status[x]
                                       /\ entries'[x] = IF x = r.ref THEN entries[x] + k ELSE entries[x]
               /\ status' \in [Reference -> {"none", "PENDING", "PROCESSING", "COMPLETED",
                                             "FAILED", "FROZEN", "RELEASED"}]
               /\ entries' \in [Reference -> Nat]
<1> DEFINE r == actor[a]
           k == IF Moves(r.op) THEN 1 ELSE 0
<1>1. /\ status' = [status EXCEPT ![r.ref] = Outcome(r.op)]
      /\ entries' = [entries EXCEPT ![r.ref] = @ + k]
  BY DEF Write
<1>2. k \in Nat /\ r.ref \in Reference
  BY WriteFacts
<1>3. Outcome(r.op) \in {"PENDING", "FROZEN", "RELEASED", "COMPLETED"}
  BY DEF Outcome
<1>4. TypeOK
  BY DEF IInv
<1> HIDE DEF r, k
<1>5. \A x \in Reference : entries[x] \in Nat
  BY <1>4 DEF TypeOK
<1> QED BY <1>1, <1>2, <1>3, <1>4, <1>5 DEF TypeOK, r, k

LEMMA LedgerWritten ==
    ASSUME Distinct, IInv, NEW a \in Actor, Write(a)
    PROVE  LET r == actor[a]
               n == Size(r.ref)
           IN  /\ ledger'["bank"] = ledger["bank"] + CASE r.op = "verify"  -> -n
                                                      [] r.op = "execute" -> n
                                                      [] OTHER            -> 0
               /\ ledger'["escrow"] = ledger["escrow"]
               /\ ledger'["fee"] = ledger["fee"] + IF r.op = "fee" THEN n ELSE 0
               /\ ledger' \in [{"bank", "escrow", "fee"} -> Int]
               /\ ledger["bank"] \in Int /\ ledger["escrow"] \in Int /\ ledger["fee"] \in Int
<1> DEFINE r == actor[a]
           n == Size(r.ref)
           b == CASE r.op = "verify" -> -n [] r.op = "execute" -> n [] OTHER -> 0
           f == IF r.op = "fee" THEN n ELSE 0
<1>1. n \in Int /\ b \in Int /\ f \in Int
  BY DEF Size
<1>2. ledger' = [ledger EXCEPT !.bank = @ + b, !.fee = @ + f]
  BY DEF Write, Booked
<1>3. ledger \in [{"bank", "escrow", "fee"} -> Int]
  BY DEF IInv, TypeOK
<1> HIDE DEF b, f, n, r
<1>4. /\ ledger'["bank"] = ledger["bank"] + b /\ ledger'["fee"] = ledger["fee"] + f
      /\ ledger'["escrow"] = ledger["escrow"]
      /\ ledger' \in [{"bank", "escrow", "fee"} -> Int]
      /\ ledger["bank"] \in Int /\ ledger["escrow"] \in Int /\ ledger["fee"] \in Int
  <2> DEFINE g == [ledger EXCEPT !.bank = @ + b]
  <2>1. /\ g \in [{"bank", "escrow", "fee"} -> Int]
        /\ g["bank"] = ledger["bank"] + b /\ g["fee"] = ledger["fee"]
        /\ g["escrow"] = ledger["escrow"]
    BY <1>1, <1>3
  <2>2. ledger' = [g EXCEPT !.fee = @ + f]
    BY <1>2
  <2> HIDE DEF g
  <2> QED BY <1>1, <1>3, <2>1, <2>2
<1> QED BY <1>4 DEF b, f, n, r

(* The numbers of what is frozen for                                        *)
LEMMA FrozenNumbers ==
    ASSUME Distinct, IInv
    PROVE  /\ IsFiniteSet(Held) /\ IsFiniteSet(Owed)
           /\ wallet[Payer].frozen = Cardinality(Held)
           /\ wallet[Payee].frozen = Cardinality(Owed)
<1>1. Held \in SUBSET Hold /\ Owed \in SUBSET Payout
  BY DEF Held, Owed
<1> QED BY <1>1, FS_Subset DEF IInv, Money, FrozenIsOwed, Held, Owed, Distinct

(* A deposit raises a balance and the debt of the bank.                     *)
LEMMA VerifyMoney ==
    ASSUME Distinct, IInv, NEW a \in Actor, Write(a), actor[a].op = "verify"
    PROVE  Money'
<1> DEFINE r == actor[a]
<1>1. /\ r.ref \in Deposit /\ r.ref \notin Hold /\ r.ref \notin Payout
      /\ Owner(r.ref) = Payer /\ Size(r.ref) = 2
  BY WriteFacts DEF Fits, Distinct, Owner, Size
<1>2. /\ wallet'[Payer].balance = r.seen.balance + 2
      /\ wallet'[Payer].frozen = wallet[Payer].frozen
      /\ wallet'[Payee] = wallet[Payee]
  <2>1. /\ wallet'[Payer] = Changed("verify", wallet[Payer], r.seen, 2)
        /\ wallet'[Payee] = wallet[Payee]
    BY <1>1, WalletWritten, UsersAssumption DEF User
  <2> QED BY <2>1 DEF Changed
<1>3. Held' = Held /\ Owed' = Owed
  BY <1>1, RowsWritten DEF Held, Owed, Reference
<1>4. /\ wallet[Payer].balance \in Int /\ wallet[Payee].balance \in Int
      /\ wallet[Payer].frozen \in Int /\ r.seen.balance \in Int
      /\ r.seen.balance <= wallet[Payer].balance
      /\ wallet[Payer].frozen <= r.seen.balance /\ 0 <= wallet[Payer].frozen
  BY <1>1, WriteFacts, Types DEF IInv, User, WalletType
<1>5. NoOverdraft'
  BY <1>2, <1>4 DEF IInv, Money, NoOverdraft, User
<1>6. FrozenIsOwed'
  BY <1>2, <1>3 DEF IInv, Money, FrozenIsOwed, Held, Owed
<1>7. NoMoneyMade'
  <2>1. ledger'["bank"] = ledger["bank"] - 2 /\ ledger'["fee"] = ledger["fee"]
        /\ ledger'["escrow"] = ledger["escrow"]
        /\ ledger["bank"] \in Int /\ ledger["escrow"] \in Int /\ ledger["fee"] \in Int
    BY <1>1, LedgerWritten
  <2> HIDE DEF r
  <2> QED BY <1>2, <1>4, <2>1 DEF IInv, Money, NoMoneyMade, TrialSum
<1> QED BY <1>5, <1>6, <1>7 DEF Money

(* Numbers of both wallets, and of the one that was read                    *)
LEMMA Numbers ==
    ASSUME Distinct, IInv, NEW a \in Actor, Write(a), NEW u \in User,
           Owner(actor[a].ref) = u
    PROVE  LET s == actor[a].seen
           IN  /\ \A v \in User : /\ wallet[v].balance \in Int /\ wallet[v].frozen \in Int
                                  /\ 0 <= wallet[v].frozen
                                  /\ wallet[v].frozen <= wallet[v].balance
               /\ s.balance \in Int /\ s.frozen = wallet[u].frozen
               /\ s.balance <= wallet[u].balance /\ s.frozen <= s.balance
<1>1. TypeOK /\ NoOverdraft
  BY DEF IInv, Money
<1>2. actor[a].seen \in WalletType
  BY WriteFacts
<1> QED BY <1>1, <1>2, WriteFacts, Types DEF NoOverdraft, WalletType

(* A withdrawal is frozen: one more is owed.                                *)
LEMMA RequestMoney ==
    ASSUME Distinct, IInv, NEW a \in Actor, Write(a), actor[a].op = "request"
    PROVE  Money'
<1> DEFINE r == actor[a]
<1>1. /\ r.ref \in Payout /\ r.ref \notin Hold /\ r.ref \notin Deposit
      /\ status[r.ref] = "none" /\ entries[r.ref] = 0
      /\ Owner(r.ref) = Payee /\ Size(r.ref) = 1
  BY WriteFacts DEF Fits, Informed, IInv, Rows, Distinct, Owner, Size
<1>2. /\ wallet'[Payee].balance = wallet[Payee].balance
      /\ wallet'[Payee].frozen = r.seen.frozen + 1
      /\ wallet'[Payer] = wallet[Payer]
  <2>1. /\ wallet'[Payee] = Changed("request", wallet[Payee], r.seen, 1)
        /\ wallet'[Payer] = wallet[Payer]
    BY <1>1, WalletWritten, UsersAssumption DEF User
  <2> QED BY <2>1 DEF Changed
<1>3. r.seen.balance - r.seen.frozen >= 1
  BY <1>1, WriteFacts DEF Covered
<1>4. Held' = Held
  BY <1>1, RowsWritten DEF Held, Reference
<1>5. Owed' = Owed \cup {r.ref} /\ r.ref \notin Owed
  BY <1>1, RowsWritten DEF Owed, Reference, Outcome, Moves
<1>6. FrozenIsOwed'
  <2>1. Cardinality(Owed') = Cardinality(Owed) + 1
    BY <1>5, FrozenNumbers, FS_AddElement
  <2>2. r.seen.frozen = wallet[Payee].frozen
    BY <1>1, Numbers DEF User
  <2>3. wallet'[Payee].frozen = Cardinality(Owed')
    BY <1>2, <2>1, <2>2, FrozenNumbers
  <2>4. wallet'[Payer].frozen = Cardinality(Held')
    BY <1>2, <1>4, FrozenNumbers
  <2> QED BY <2>3, <2>4 DEF FrozenIsOwed, Held, Owed
<1>7. NoOverdraft'
  <2> HIDE DEF r
  <2> QED BY <1>1, <1>2, <1>3, Numbers DEF NoOverdraft, User, r
<1>8. NoMoneyMade'
  <2>1. ledger'["bank"] = ledger["bank"] /\ ledger'["fee"] = ledger["fee"]
        /\ ledger'["escrow"] = ledger["escrow"]
        /\ ledger["bank"] \in Int /\ ledger["escrow"] \in Int /\ ledger["fee"] \in Int
    BY LedgerWritten
  <2> QED BY <1>2, <2>1 DEF IInv, Money, NoMoneyMade, TrialSum
<1> QED BY <1>6, <1>7, <1>8 DEF Money

(* A withdrawal that was transferred is booked: one less is owed.           *)
LEMMA ExecuteMoney ==
    ASSUME Distinct, IInv, NEW a \in Actor, Write(a), actor[a].op = "execute"
    PROVE  Money'
<1> DEFINE r == actor[a]
<1>1. /\ r.ref \in Payout /\ r.ref \notin Hold /\ r.ref \notin Deposit
      /\ status[r.ref] # "none" /\ entries[r.ref] = 0
      /\ Owner(r.ref) = Payee /\ Size(r.ref) = 1
  BY WriteFacts DEF Fits, Informed, Distinct, Owner, Size
<1>2. /\ wallet'[Payee].balance = r.seen.balance - 1
      /\ wallet'[Payee].frozen = r.seen.frozen - 1
      /\ wallet'[Payer] = wallet[Payer]
  <2>1. /\ wallet'[Payee] = Changed("execute", wallet[Payee], r.seen, 1)
        /\ wallet'[Payer] = wallet[Payer]
    BY <1>1, WalletWritten, UsersAssumption DEF User
  <2> QED BY <2>1 DEF Changed
<1>4. Held' = Held
  BY <1>1, RowsWritten DEF Held, Reference
<1>5. Owed' = Owed \ {r.ref} /\ r.ref \in Owed
  BY <1>1, RowsWritten DEF Owed, Reference, Outcome, Moves
<1>6. Cardinality(Owed') = Cardinality(Owed) - 1 /\ Cardinality(Owed') \in Nat
  <2>1. IsFiniteSet(Owed)
    BY FrozenNumbers
  <2>2. Cardinality(Owed \ {r.ref}) = Cardinality(Owed) - 1
    BY <1>5, <2>1, FS_RemoveElement
  <2>3. IsFiniteSet(Owed \ {r.ref})
    BY <2>1, FS_Difference
  <2> QED BY <1>5, <2>2, <2>3, FS_CardinalityType
<1>7. wallet'[Payee].frozen = Cardinality(Owed')
  <2>1. r.seen.frozen = wallet[Payee].frozen
    BY <1>1, Numbers DEF User
  <2> QED BY <1>2, <1>6, <2>1, FrozenNumbers
<1>8. FrozenIsOwed'
  <2>1. wallet'[Payer].frozen = Cardinality(Held')
    BY <1>2, <1>4, FrozenNumbers
  <2> QED BY <1>7, <2>1 DEF FrozenIsOwed, Held, Owed
<1>9. NoOverdraft'
  <2>1. 0 <= wallet'[Payee].frozen
    BY <1>6, <1>7
  <2>2. wallet'[Payee].frozen <= wallet'[Payee].balance
    BY <1>1, <1>2, Numbers DEF User
  <2> QED BY <1>2, <2>1, <2>2 DEF IInv, Money, NoOverdraft, User
<1>10. NoMoneyMade'
  <2>1. ledger'["bank"] = ledger["bank"] + 1 /\ ledger'["fee"] = ledger["fee"]
        /\ ledger'["escrow"] = ledger["escrow"]
        /\ ledger["bank"] \in Int /\ ledger["escrow"] \in Int /\ ledger["fee"] \in Int
    BY <1>1, LedgerWritten
  <2>2. /\ wallet[Payer].balance \in Int /\ wallet[Payee].balance \in Int
        /\ r.seen.balance \in Int /\ r.seen.balance <= wallet[Payee].balance
    BY <1>1, Numbers DEF User
  <2> HIDE DEF r
  <2> QED BY <1>2, <2>1, <2>2 DEF IInv, Money, NoMoneyMade, TrialSum
<1> QED BY <1>8, <1>9, <1>10 DEF Money

(* An amount of the client is frozen.                                       *)
LEMMA FreezeMoney ==
    ASSUME Distinct, IInv, NEW a \in Actor, Write(a), actor[a].op = "freeze"
    PROVE  Money'
<1> DEFINE r == actor[a]
<1>1. /\ r.ref \in Hold /\ r.ref \notin Payout /\ r.ref \notin Deposit
      /\ status[r.ref] = "none"
      /\ Owner(r.ref) = Payer /\ Size(r.ref) = 1
  BY WriteFacts DEF Fits, Write, ReferenceUnused, Distinct, Owner, Size
<1>2. /\ wallet'[Payer].balance = wallet[Payer].balance
      /\ wallet'[Payer].frozen = r.seen.frozen + 1
      /\ wallet'[Payee] = wallet[Payee]
  <2>1. /\ wallet'[Payer] = Changed("freeze", wallet[Payer], r.seen, 1)
        /\ wallet'[Payee] = wallet[Payee]
    BY <1>1, WalletWritten, UsersAssumption DEF User
  <2> QED BY <2>1 DEF Changed
<1>3. r.seen.balance - r.seen.frozen >= 1
  BY <1>1, WriteFacts DEF Covered
<1>4. Owed' = Owed
  BY <1>1, RowsWritten DEF Owed, Reference
<1>5. Held' = Held \cup {r.ref} /\ r.ref \notin Held
  BY <1>1, RowsWritten DEF Held, Reference, Outcome
<1>6. FrozenIsOwed'
  <2>1. Cardinality(Held') = Cardinality(Held) + 1
    BY <1>5, FrozenNumbers, FS_AddElement
  <2>2. r.seen.frozen = wallet[Payer].frozen
    BY <1>1, Numbers DEF User
  <2>3. wallet'[Payer].frozen = Cardinality(Held')
    BY <1>2, <2>1, <2>2, FrozenNumbers
  <2>4. wallet'[Payee].frozen = Cardinality(Owed')
    BY <1>2, <1>4, FrozenNumbers
  <2> QED BY <2>3, <2>4 DEF FrozenIsOwed, Held, Owed
<1>7. NoOverdraft'
  <2> HIDE DEF r
  <2> QED BY <1>1, <1>2, <1>3, Numbers DEF NoOverdraft, User, r
<1>8. NoMoneyMade'
  <2>1. ledger'["bank"] = ledger["bank"] /\ ledger'["fee"] = ledger["fee"]
        /\ ledger'["escrow"] = ledger["escrow"]
        /\ ledger["bank"] \in Int /\ ledger["escrow"] \in Int /\ ledger["fee"] \in Int
    BY LedgerWritten
  <2> QED BY <1>2, <2>1 DEF IInv, Money, NoMoneyMade, TrialSum
<1> QED BY <1>6, <1>7, <1>8 DEF Money

(* A hold that is given back or released is held no more.                   *)
LEMMA HoldEnds ==
    ASSUME Distinct, IInv, NEW a \in Actor, Write(a),
           actor[a].op \in {"unfreeze", "release"}
    PROVE  /\ actor[a].ref \in Hold /\ Owner(actor[a].ref) = Payer
           /\ Size(actor[a].ref) = 1
           /\ Owed' = Owed
           /\ Cardinality(Held') = wallet[Payer].frozen - 1
           /\ actor[a].seen.frozen >= 1
<1> DEFINE r == actor[a]
<1>1. /\ r.ref \in Hold /\ r.ref \notin Payout /\ r.ref \notin Deposit
      /\ status[r.ref] = "FROZEN"
      /\ Owner(r.ref) = Payer /\ Size(r.ref) = 1
  BY WriteFacts DEF Fits, Write, ReferenceUnused, Distinct, Owner, Size
<1>2. Owed' = Owed
  BY <1>1, RowsWritten DEF Owed, Reference
<1>3. Held' = Held \ {r.ref} /\ r.ref \in Held
  BY <1>1, RowsWritten DEF Held, Reference, Outcome
<1>4. Cardinality(Held') = wallet[Payer].frozen - 1
  <2>1. IsFiniteSet(Held) /\ wallet[Payer].frozen = Cardinality(Held)
    BY FrozenNumbers
  <2>2. Cardinality(Held \ {r.ref}) = Cardinality(Held) - 1
    BY <1>3, <2>1, FS_RemoveElement
  <2> QED BY <1>3, <2>1, <2>2
<1>5. r.seen.frozen >= 1
  BY <1>1, WriteFacts DEF Covered
<1> QED BY <1>1, <1>2, <1>4, <1>5

LEMMA UnfreezeMoney ==
    ASSUME Distinct, IInv, NEW a \in Actor, Write(a), actor[a].op = "unfreeze"
    PROVE  Money'
<1> DEFINE r == actor[a]
<1>1. Owner(r.ref) = Payer /\ Size(r.ref) = 1 /\ Payer \in User
  BY HoldEnds DEF User
<1>2. /\ wallet'[Payer].balance = wallet[Payer].balance
      /\ wallet'[Payer].frozen = r.seen.frozen - 1
      /\ wallet'[Payee] = wallet[Payee]
  <2>1. /\ wallet'[Payer] = Changed("unfreeze", wallet[Payer], r.seen, 1)
        /\ wallet'[Payee] = wallet[Payee]
    BY <1>1, WalletWritten, UsersAssumption DEF User
  <2> QED BY <2>1 DEF Changed
<1>3. r.seen.frozen = wallet[Payer].frozen
  BY <1>1, Numbers
<1>4. FrozenIsOwed'
  <2>1. wallet'[Payer].frozen = Cardinality(Held')
    BY <1>2, <1>3, HoldEnds
  <2>2. wallet'[Payee].frozen = Cardinality(Owed')
    BY <1>2, HoldEnds, FrozenNumbers
  <2> QED BY <2>1, <2>2 DEF FrozenIsOwed, Held, Owed
<1>5. NoOverdraft'
  <2>1. r.seen.frozen >= 1
    BY HoldEnds
  <2> HIDE DEF r
  <2> QED BY <1>1, <1>2, <1>3, <2>1, Numbers DEF NoOverdraft, User, r
<1>6. NoMoneyMade'
  <2>1. ledger'["bank"] = ledger["bank"] /\ ledger'["fee"] = ledger["fee"]
        /\ ledger'["escrow"] = ledger["escrow"]
        /\ ledger["bank"] \in Int /\ ledger["escrow"] \in Int /\ ledger["fee"] \in Int
    BY LedgerWritten
  <2> QED BY <1>2, <2>1 DEF IInv, Money, NoMoneyMade, TrialSum
<1> QED BY <1>4, <1>5, <1>6 DEF Money

(* Both wallets are written where both versions match.                      *)
LEMMA ReleaseMoney ==
    ASSUME Distinct, IInv, NEW a \in Actor, Write(a), actor[a].op = "release"
    PROVE  Money'
<1> DEFINE r == actor[a]
<1>1. Owner(r.ref) = Payer /\ Payer \in User /\ Payee \in User /\ r.seen.frozen >= 1
  BY HoldEnds DEF User
<1>2. /\ wallet'[Payer].balance = r.seen.balance - 1
      /\ wallet'[Payer].frozen = r.seen.frozen - 1
      /\ wallet'[Payee].balance = r.seenPayee.balance + 1
      /\ wallet'[Payee].frozen = wallet[Payee].frozen
      /\ r.seenPayee.balance <= wallet[Payee].balance
      /\ r.seenPayee.balance >= wallet[Payee].frozen
      /\ r.seenPayee.balance \in Int
  BY WalletsReleased
<1>3. /\ r.seen.frozen = wallet[Payer].frozen
      /\ r.seen.balance \in Int /\ r.seen.balance <= wallet[Payer].balance
      /\ r.seen.frozen <= r.seen.balance
      /\ wallet[Payer].balance \in Int /\ wallet[Payer].frozen \in Int
      /\ wallet[Payee].balance \in Int /\ wallet[Payee].frozen \in Int
      /\ 0 <= wallet[Payee].frozen
  BY <1>1, Numbers
<1>4. FrozenIsOwed'
  <2>1. wallet'[Payer].frozen = Cardinality(Held')
    BY <1>2, <1>3, HoldEnds
  <2>2. wallet'[Payee].frozen = Cardinality(Owed')
    BY <1>2, HoldEnds, FrozenNumbers
  <2> QED BY <2>1, <2>2 DEF FrozenIsOwed, Held, Owed
<1>5. ledger'["bank"] = ledger["bank"] /\ ledger'["fee"] = ledger["fee"]
      /\ ledger'["escrow"] = ledger["escrow"]
      /\ ledger["bank"] \in Int /\ ledger["escrow"] \in Int /\ ledger["fee"] \in Int
  BY LedgerWritten
<1> HIDE DEF r
<1>6. NoOverdraft'
  BY <1>1, <1>2, <1>3 DEF NoOverdraft, User
<1>7. NoMoneyMade'
  BY <1>2, <1>3, <1>5 DEF IInv, Money, NoMoneyMade, TrialSum
<1> QED BY <1>4, <1>6, <1>7 DEF Money

(* The fee is what is available, at most.                                   *)
LEMMA FeeMoney ==
    ASSUME Distinct, IInv, NEW a \in Actor, Write(a), actor[a].op = "fee"
    PROVE  Money'
<1> DEFINE r == actor[a]
<1>1. /\ r.ref \in Charge /\ r.ref \notin Payout /\ r.ref \notin Deposit /\ r.ref \notin Hold
      /\ Owner(r.ref) = Payee /\ Size(r.ref) = 1
  BY WriteFacts DEF Fits, Distinct, Owner, Size
<1>2. /\ wallet'[Payee].balance = r.seen.balance - 1
      /\ wallet'[Payee].frozen = wallet[Payee].frozen
      /\ wallet'[Payer] = wallet[Payer]
  <2>1. /\ wallet'[Payee] = Changed("fee", wallet[Payee], r.seen, 1)
        /\ wallet'[Payer] = wallet[Payer]
    BY <1>1, WalletWritten, UsersAssumption DEF User
  <2> QED BY <2>1 DEF Changed
<1>3. r.seen.balance - r.seen.frozen >= 1
  BY <1>1, WriteFacts DEF Covered
<1>4. Held' = Held /\ Owed' = Owed
  BY <1>1, RowsWritten DEF Held, Owed, Reference
<1>5. FrozenIsOwed'
  BY <1>2, <1>4 DEF IInv, Money, FrozenIsOwed, Held, Owed
<1>6. ledger'["bank"] = ledger["bank"] /\ ledger'["fee"] = ledger["fee"] + 1
      /\ ledger'["escrow"] = ledger["escrow"]
      /\ ledger["bank"] \in Int /\ ledger["escrow"] \in Int /\ ledger["fee"] \in Int
  BY <1>1, LedgerWritten
<1>7. /\ r.seen.frozen = wallet[Payee].frozen
      /\ r.seen.balance \in Int /\ r.seen.balance <= wallet[Payee].balance
      /\ wallet[Payer].balance \in Int /\ wallet[Payee].balance \in Int
      /\ wallet[Payer].frozen \in Int /\ wallet[Payee].frozen \in Int
      /\ 0 <= wallet[Payee].frozen
      /\ 0 <= wallet[Payer].frozen /\ wallet[Payer].frozen <= wallet[Payer].balance
  BY <1>1, Numbers DEF User
<1> HIDE DEF r
<1>8. NoOverdraft'
  BY <1>2, <1>3, <1>7 DEF NoOverdraft, User
<1>9. NoMoneyMade'
  BY <1>2, <1>6, <1>7 DEF IInv, Money, NoMoneyMade, TrialSum
<1> QED BY <1>5, <1>8, <1>9 DEF Money
-----------------------------------------------------------------------------
(* A wallet that is written has another version.                            *)
LEMMA VersionGoesOn ==
    ASSUME Distinct, IInv, NEW a \in Actor, Write(a), NEW u \in User
    PROVE  wallet'[u] = wallet[u] \/ wallet'[u].version = wallet[u].version + 1
<1> DEFINE o == Owner(actor[a].ref)
<1>1. wallet' \in [User -> WalletType] /\ o \in User
  BY WriteFacts, WalletWritten, WalletsReleased
<1>2. CASE actor[a].op = "release"
  BY <1>2, WalletsReleased DEF User
<1>3. CASE actor[a].op # "release" /\ u = o
  <2>1. wallet'[o] = Changed(actor[a].op, wallet[o], actor[a].seen, Size(actor[a].ref))
    BY <1>1, <1>3, WalletWritten
  <2>2. wallet'[o].version = actor[a].seen.version + 1
    BY <2>1 DEF Changed
  <2>3. actor[a].seen.version = wallet[o].version
    BY WriteFacts
  <2> QED BY <1>3, <2>2, <2>3
<1>4. CASE actor[a].op # "release" /\ u # o
  BY <1>1, <1>4, WalletWritten
<1> QED BY <1>2, <1>3, <1>4

(* Whoever read it before knows nothing of it now.                          *)
LEMMA StillSeen ==
    ASSUME Distinct, IInv, NEW a \in Actor, Write(a),
           NEW u \in User, NEW w \in WalletType, Seen(u, w)
    PROVE  Seen(u, w)'
<1>1. wallet'[u] = wallet[u] \/ wallet'[u].version = wallet[u].version + 1
  BY VersionGoesOn
<1>2. wallet[u].version \in Nat /\ w.version \in Nat
  BY Types DEF IInv, WalletType
<1> QED BY <1>1, <1>2 DEF Seen

LEMMA WriteStep ==
    ASSUME Distinct, IInv, NEW a \in Actor, Write(a)
    PROVE  IInv'
<1> DEFINE r == actor[a]
<1>1. Becomes(a, Idle)
  BY ActorFacts, LeaveMoves DEF Write
<1>2. TypeOK'
  <2>1. wallet' \in [User -> WalletType]
    BY WriteFacts, WalletWritten, WalletsReleased
  <2>2. Rest'
    BY ActorFacts DEF Write, Rest, Unlocked
  <2>3. ledger' \in [{"bank", "escrow", "fee"} -> Int]
    BY LedgerWritten
  <2> QED BY <1>1, <2>1, <2>2, <2>3, RowsWritten DEF TypeOK, Becomes, Rest, ActState, Step
<1>3. Money'
  BY WriteFacts, VerifyMoney, RequestMoney, ExecuteMoney, FreezeMoney, UnfreezeMoney,
     ReleaseMoney, FeeMoney DEF Wallets
<1>4. r.op \in {"request", "execute"} <=> r.ref \in Payout
  BY WriteFacts DEF Fits, Wallets, Distinct
<1>5. \A p \in Payout : /\ p \in Reference
                        /\ status'[p] = "none" => status[p] = "none"
                        /\ status[p] # status'[p] => p = r.ref
                        /\ entries[p] # entries'[p] => p = r.ref /\ r.op = "execute"
  BY <1>4, WriteFacts, RowsWritten DEF Outcome, Moves, Wallets, Reference, IInv, TypeOK
<1>6. Rows'
  <2> SUFFICES ASSUME NEW p \in Payout, status'[p] = "none" \/ p \notin paystack'
               PROVE  entries'[p] = 0
    BY DEF Rows
  <2>1. status[p] = "none" \/ p \notin paystack
    BY <1>5 DEF Write
  <2>2. entries[p] = 0
    BY <2>1 DEF IInv, Rows
  <2>3. ~(p = r.ref /\ r.op = "execute")
    BY <2>1, WriteFacts DEF Informed
  <2> QED BY <1>5, <2>2, <2>3
<1>7. ASSUME NEW b \in Actor
      PROVE  (Fits(actor[b]) /\ Informed(actor[b]) /\ Knows(actor[b]))'
  <2>1. CASE b = a
    <3>1. actor'[b] = Idle
      BY <1>1, <2>1 DEF Becomes
    <3> QED BY <3>1 DEF Fits, Informed, Knows, Idle
  <2>2. CASE b # a
    <3>1. actor'[b] = actor[b] /\ actor[b] \in ActState
      BY <1>1, <2>2, ActorFacts DEF Becomes
    <3>2. Fits(actor[b]) /\ Informed(actor[b]) /\ Knows(actor[b])
      BY ActorFacts
    <3>3. Books(actor[b]) => actor[b].ref # r.ref
      <4>1. ASSUME Books(actor[b]), actor[b].ref = r.ref PROVE FALSE
        <5>1. r.ref \in Payout
          BY <3>2, <4>1 DEF Books, Fits
        <5>2. Books(r)
          BY <1>4, <5>1, WriteFacts DEF Books
        <5> QED BY <2>2, <4>1, <5>2 DEF IInv, Alone
      <4> QED BY <4>1
    <3>4. Informed(actor[b])'
      <4> DEFINE s == actor[b]
      <4>1. s.op = "request" => status'[s.ref] = "none"
        BY <1>5, <3>2, <3>3 DEF Informed, Books, Fits
      <4>2. s.op \in {"process", "execute"} => status'[s.ref] # "none"
        BY <1>5, <3>2 DEF Informed, Fits
      <4>3. s.op = "execute" /\ s.at \in {"ready", "read"} =>
                s.ref \in paystack' /\ entries'[s.ref] = 0
        BY <1>5, <3>2, <3>3 DEF Informed, Books, Fits, Write
      <4> QED BY <3>1, <4>1, <4>2, <4>3 DEF Informed
    <3>5. Knows(actor[b])'
      <4>1. actor[b].seen \in WalletType /\ actor[b].seenPayee \in WalletType
        BY <3>1 DEF ActState
      <4>2. Owner(actor[b].ref) \in User /\ Payee \in User
        BY DEF Owner, User
      <4> QED BY <3>1, <3>2, <4>1, <4>2, StillSeen DEF Knows
    <3> QED BY <3>1, <3>2, <3>4, <3>5 DEF Fits, Informed, Knows
  <2> QED BY <2>1, <2>2
<1>8. Actors'
  BY <1>7 DEF Actors
<1>9. Alone'
  BY <1>1, IdleState DEF IInv, Alone, Becomes
<1> QED BY <1>2, <1>3, <1>6, <1>8, <1>9 DEF IInv
-----------------------------------------------------------------------------
LEMMA NextIInv ==
    ASSUME Distinct, IInv, [Next]_vars
    PROVE  IInv'
<1>1. ASSUME NEW a \in Actor, Begins(a) PROVE IInv'
  BY <1>1, ReadDepositStep, RequestPayoutStep, ReadPendingStep, TakeJobStep, LockStep,
     ChargeFeeStep DEF Begins
<1>2. ASSUME NEW a \in Actor, Goes(a) PROVE IInv'
  BY <1>2, AskPaystackStep, FailDepositStep, MarkProcessingStep, EnqueueStep,
     TransferStep, ReadStep, WriteStep, ConflictStep DEF Goes
<1>3. ASSUME NEW d \in Deposit, PayDeposit(d) PROVE IInv'
  <2>1. Rest' /\ paystack \subseteq paystack'
    BY <1>3, RestTyped DEF IInv, PayDeposit, Rest
  <2> QED BY <1>3, <2>1, OutsideStep DEF PayDeposit
<1>4. ASSUME LockExpires PROVE IInv'
  <2>1. Rest' /\ paystack \subseteq paystack'
    BY <1>4, RestTyped DEF IInv, LockExpires, Rest
  <2> QED BY <1>4, <2>1, OutsideStep DEF LockExpires
<1>5. CASE UNCHANGED vars
  <2>1. Rest' /\ paystack \subseteq paystack'
    BY <1>5, RestTyped DEF IInv, vars, Rest
  <2> QED BY <1>5, <2>1, OutsideStep DEF vars
<1> QED BY <1>1, <1>2, <1>3, <1>4, <1>5, FailsStep, BookCreditStep DEF Next

(* Every wallet, row and request keeps to its type (WalletService).         *)
THEOREM WalletTypes ==
    ASSUME Distinct
    PROVE  Spec => []TypeOK
<1>1. IInv => TypeOK
  BY DEF IInv
<1> QED BY <1>1, InitIInv, NextIInv, PTL DEF Spec

(* A wallet never owes, whatever runs at once, is retried or dies           *)
(* (executeWithOptimisticLockingRetry, executePayoutTask).                  *)
THEOREM NeverOverdrawn ==
    ASSUME Distinct
    PROVE  Spec => []NoOverdraft
<1>1. IInv => NoOverdraft
  BY DEF IInv, Money
<1> QED BY <1>1, InitIInv, NextIInv, PTL DEF Spec

(* What is frozen is what is owed (requestWalletPayout, freezeFunds and     *)
(* what books or gives back).                                               *)
THEOREM FrozenMeansOwed ==
    ASSUME Distinct
    PROVE  Spec => []FrozenIsOwed
<1>1. IInv => FrozenIsOwed
  BY DEF IInv, Money
<1> QED BY <1>1, InitIInv, NextIInv, PTL DEF Spec

(* The balances never add up to more than nothing (the ledger entries of    *)
(* WalletService and handleTransferSuccess).                                *)
THEOREM NothingFromNothing ==
    ASSUME Distinct
    PROVE  Spec => []NoMoneyMade
<1>1. IInv => NoMoneyMade
  BY DEF IInv, Money
<1> QED BY <1>1, InitIInv, NextIInv, PTL DEF Spec
-----------------------------------------------------------------------------
(* Whoever writes a wallet knows all of its balance but credits that are    *)
(* still in it.                                                             *)
Near(u, s) == s.version = wallet[u].version => wallet[u].balance - s.balance <= Late(u)

KnowsNearly(r) ==
    r.at = "read" => /\ Near(Owner(r.ref), r.seen)
                     /\ r.op = "release" => Near(Payee, r.seenPayee)

Close == \A a \in Actor : KnowsNearly(actor[a])

Balanced == IInv /\ Close /\ IsFiniteSet(credits) /\ 0 <= Late(Payee)

LEMMA LateNumbers ==
    ASSUME Balanced
    PROVE  /\ Late(Payer) = 0 /\ Late(Payee) = Cardinality(credits) + TrialSum
           /\ TrialSum \in Int /\ Cardinality(credits) \in Nat
           /\ \A u \in User : Late(u) \in Nat
<1>1. TrialSum \in Int
  <2>1. /\ wallet[Payer].balance \in Int /\ wallet[Payee].balance \in Int
    BY Types DEF Balanced, IInv, User
  <2>2. ledger["bank"] \in Int /\ ledger["escrow"] \in Int /\ ledger["fee"] \in Int
    BY DEF Balanced, IInv, TypeOK
  <2> QED BY <2>1, <2>2 DEF TrialSum
<1>2. Cardinality(credits) \in Nat
  BY FS_CardinalityType DEF Balanced
<1>3. Late(Payer) = 0 /\ Late(Payee) = Cardinality(credits) + TrialSum
  BY UsersAssumption DEF Late
<1>4. 0 <= Late(Payee)
  BY DEF Balanced
<1> QED BY <1>1, <1>2, <1>3, <1>4 DEF User

LEMMA InitBalanced ==
    ASSUME Distinct
    PROVE  Init => Balanced
<1> SUFFICES ASSUME Init PROVE Balanced
  OBVIOUS
<1>1. IInv
  BY InitIInv
<1>2. Close
  BY DEF Init, Close, KnowsNearly, Idle
<1>3. IsFiniteSet(credits) /\ Cardinality(credits) = 0
  BY FS_EmptySet DEF Init
<1>4. TrialSum = 0
  <2>1. wallet[Payer].balance = Opening /\ wallet[Payee].balance = Opening
    BY DEF Init, User
  <2>2. ledger["bank"] = -2 * Opening /\ ledger["escrow"] = 0 /\ ledger["fee"] = 0
    BY DEF Init
  <2> QED BY <2>1, <2>2, SizesAssumption DEF TrialSum
<1>5. 0 <= Late(Payee)
  BY <1>3, <1>4 DEF Late
<1> QED BY <1>1, <1>2, <1>3, <1>5 DEF Balanced

(* A step that writes no balance and moves one actor, but not to "read"     *)
LEMMA QuietStep ==
    ASSUME Balanced, IInv', UNCHANGED <<wallet, ledger, credits>>, NEW a \in Actor, NEW r,
           Becomes(a, r), KnowsNearly(r)
    PROVE  Balanced'
<1>1. IsFiniteSet(credits)' /\ (0 <= Late(Payee))'
  BY DEF Balanced, Late, TrialSum
<1>2. ASSUME NEW b \in Actor PROVE KnowsNearly(actor[b])'
  <2>1. actor'[b] = r \/ actor'[b] = actor[b]
    BY DEF Becomes
  <2>2. KnowsNearly(actor'[b])
    BY <2>1 DEF Balanced, Close
  <2> QED BY <2>2 DEF KnowsNearly, Near, Late, TrialSum
<1> QED BY <1>1, <1>2 DEF Balanced, Close

(* or moves none.                                                           *)
LEMMA StillBalanced ==
    ASSUME Balanced, IInv', UNCHANGED <<wallet, ledger, credits, actor>>
    PROVE  Balanced'
<1>1. IsFiniteSet(credits)' /\ (0 <= Late(Payee))'
  BY DEF Balanced, Late, TrialSum
<1>2. Close'
  BY DEF Balanced, Close, KnowsNearly, Near, Late, TrialSum
<1> QED BY <1>1, <1>2 DEF Balanced

LEMMA BeginsBalanced ==
    ASSUME Balanced, IInv', NEW a \in Actor, Begins(a)
    PROVE  Balanced'
<1>1. TypeOK
  BY DEF Balanced, IInv
<1>2. ASSUME NEW op \in Op, NEW ref \in Reference, NEW s \in {"asked", "ready", "pending",
                                                              "marked"},
             Begin(a, op, ref, s), UNCHANGED <<wallet, ledger, credits>>
      PROVE  Balanced'
  <2>1. Becomes(a, Doing(op, ref, s))
    BY <1>1, <1>2, BeginMoves DEF Step
  <2>2. KnowsNearly(Doing(op, ref, s))
    BY DEF KnowsNearly, Doing
  <2> QED BY <1>2, <2>1, <2>2, QuietStep
<1>3. ASSUME NEW d \in Deposit, ReadDeposit(a, d) PROVE Balanced'
  BY <1>2, <1>3 DEF ReadDeposit, Op, Reference
<1>4. ASSUME NEW p \in Payout, RequestPayout(a, p) PROVE Balanced'
  BY <1>2, <1>4 DEF RequestPayout, Op, Reference
<1>5. ASSUME NEW p \in Payout, ReadPending(a, p) PROVE Balanced'
  BY <1>2, <1>5 DEF ReadPending, Op, Reference
<1>6. ASSUME NEW p \in Payout, TakeJob(a, p) PROVE Balanced'
  <2>1. CASE status[p] = "PROCESSING"
    BY <1>2, <1>6, <2>1 DEF TakeJob, Op, Reference
  <2>2. CASE status[p] # "PROCESSING"
    BY <1>6, <2>2, StillBalanced DEF TakeJob
  <2> QED BY <2>1, <2>2
<1>7. ASSUME NEW h \in Hold, NEW op \in {"freeze", "unfreeze", "release"}, Lock(a, op, h)
      PROVE  Balanced'
  BY <1>2, <1>7 DEF Lock, Op, Reference
<1>8. ASSUME NEW f \in Charge, ChargeFee(a, f) PROVE Balanced'
  BY <1>2, <1>8 DEF ChargeFee, Op, Reference
<1> QED BY <1>3, <1>4, <1>5, <1>6, <1>7, <1>8 DEF Begins

LEMMA GoesOnBalanced ==
    ASSUME Balanced, IInv', NEW a \in Actor,
           \/ AskPaystack(a) \/ FailDeposit(a) \/ MarkProcessing(a) \/ Enqueue(a)
           \/ Transfer(a) \/ Conflict(a) \/ Fails(a)
    PROVE  Balanced'
<1>1. TypeOK /\ actor[a] \in ActState
  BY ActorFacts DEF Balanced
<1>2. UNCHANGED <<wallet, ledger, credits>>
  BY DEF AskPaystack, FailDeposit, MarkProcessing, Enqueue, Transfer, Conflict, Fails
<1>3. CASE Leave(a)
  <2>1. Becomes(a, Idle) /\ KnowsNearly(Idle)
    BY <1>1, <1>3, LeaveMoves DEF KnowsNearly, Idle
  <2> QED BY <1>2, <2>1, QuietStep
<1>4. ASSUME NEW s \in {"ready", "refused", "marked"}, Goto(a, s) PROVE Balanced'
  <2>1. Becomes(a, [actor[a] EXCEPT !.at = s])
    BY <1>1, <1>4, GotoMoves DEF Step
  <2>2. KnowsNearly([actor[a] EXCEPT !.at = s])
    BY <1>1, StepReplaced DEF KnowsNearly, Step
  <2> QED BY <1>2, <2>1, <2>2, QuietStep
<1>5. CASE actor' = [actor EXCEPT ![a].at = "ready", ![a].tries = @ - 1]
  <2> DEFINE r == [actor[a] EXCEPT !.at = "ready", !.tries = @ - 1]
  <2>1. actor' \in [Actor -> ActState]
    BY DEF IInv, TypeOK, ActState, Step
  <2>2. actor'[a] = r /\ \A b \in Actor : b # a => actor'[b] = actor[b]
    BY <1>1, <1>5, Types
  <2>3. KnowsNearly(r)
    BY <1>1 DEF KnowsNearly, ActState
  <2> QED BY <1>2, <2>1, <2>2, <2>3, QuietStep DEF Becomes
<1>6. CASE AskPaystack(a)
  BY <1>4, <1>6 DEF AskPaystack
<1>7. CASE MarkProcessing(a)
  BY <1>4, <1>7 DEF MarkProcessing
<1>8. CASE Transfer(a)
  BY <1>3, <1>4, <1>8 DEF Transfer
<1>9. CASE Conflict(a)
  BY <1>3, <1>5, <1>9 DEF Conflict
<1> QED BY <1>3, <1>6, <1>7, <1>8, <1>9 DEF FailDeposit, Enqueue, Fails

LEMMA ReadBalanced ==
    ASSUME Balanced, IInv', NEW a \in Actor, Read(a)
    PROVE  Balanced'
<1> DEFINE act == actor[a]
           w == wallet[Owner(act.ref)]
<1>1. TypeOK /\ act \in ActState /\ actor \in [Actor -> ActState]
  BY ActorFacts, Types DEF Balanced
<1>2. UNCHANGED <<wallet, ledger, credits>>
  BY DEF Read
<1>3. CASE Covered(act.op, w, Size(act.ref))
  <2> DEFINE sp == IF act.op = "release" THEN wallet[Payee] ELSE act.seenPayee
             r  == [act EXCEPT !.at = "read", !.seen = w, !.seenPayee = sp]
  <2>1. actor' = [actor EXCEPT ![a].at = "read", ![a].seen = w,
                               ![a].seenPayee = IF act.op = "release"
                                                THEN wallet[Payee] ELSE @]
    BY <1>3 DEF Read
  <2>2. actor'[a] = r /\ \A b \in Actor : b # a => actor'[b] = actor[b]
    BY <1>1, <2>1
  <2>3. actor' \in [Actor -> ActState]
    BY DEF IInv, TypeOK, ActState, Step
  <2>4. /\ r.ref = act.ref /\ r.op = act.op /\ r.seen = w
        /\ act.op = "release" => r.seenPayee = wallet[Payee]
    BY <1>1 DEF ActState
  <2> HIDE DEF r, sp
  <2>5. ASSUME NEW u \in User PROVE Near(u, wallet[u])
    <3>1. wallet[u].balance \in Int
      BY <1>1, Types
    <3> QED BY <3>1, LateNumbers DEF Near
  <2>6. KnowsNearly(r)
    BY <2>4, <2>5 DEF KnowsNearly, Owner, User
  <2> QED BY <1>2, <2>2, <2>3, <2>6, QuietStep DEF Becomes
<1>4. CASE ~Covered(act.op, w, Size(act.ref))
  <2>1. Becomes(a, Idle) /\ KnowsNearly(Idle)
    BY <1>1, <1>4, LeaveMoves DEF KnowsNearly, Idle, Read
  <2> QED BY <1>2, <2>1, QuietStep
<1> QED BY <1>3, <1>4
-----------------------------------------------------------------------------
(* A credit is in the wallet, and known to nobody who read it before.       *)
LEMMA CreditBalanced ==
    ASSUME Balanced, IInv', NEW c \in Credit, BookCredit(c)
    PROVE  Balanced'
<1>1. /\ wallet'[Payee].balance = wallet[Payee].balance + 1
      /\ wallet'[Payee].version = wallet[Payee].version
      /\ wallet'[Payer] = wallet[Payer]
      /\ wallet[Payee].balance \in Int /\ wallet[Payer].balance \in Int
  BY Types, UsersAssumption DEF Balanced, IInv, BookCredit, User, WalletType
<1>2. /\ ledger'["bank"] = ledger["bank"] /\ ledger'["fee"] = ledger["fee"]
      /\ ledger'["escrow"] = ledger["escrow"] - 1
      /\ ledger["bank"] \in Int /\ ledger["escrow"] \in Int /\ ledger["fee"] \in Int
  BY DEF Balanced, IInv, BookCredit, TypeOK
<1>3. TrialSum' = TrialSum
  BY <1>1, <1>2 DEF TrialSum
<1>4. IsFiniteSet(credits') /\ Cardinality(credits') = Cardinality(credits) + 1
  BY FS_AddElement DEF Balanced, BookCredit
<1>5. Late(Payee)' = Late(Payee) + 1 /\ Late(Payer)' = 0 /\ Late(Payee) \in Nat
  BY <1>3, <1>4, LateNumbers, UsersAssumption DEF Late, User
<1>6. ASSUME NEW u \in User, NEW s \in WalletType, Near(u, s) PROVE Near(u, s)'
  <2>1. CASE u = Payer
    BY <1>1, <1>5, <1>6, <2>1, LateNumbers DEF Near
  <2>2. CASE u = Payee
    BY <1>1, <1>5, <1>6, <2>2 DEF Near, WalletType
  <2> QED BY <2>1, <2>2 DEF User
<1>7. ASSUME NEW b \in Actor PROVE KnowsNearly(actor[b])'
  <2>1. actor'[b] = actor[b] /\ actor[b] \in ActState
    BY ActorFacts DEF Balanced, BookCredit
  <2>2. actor[b].seen \in WalletType /\ actor[b].seenPayee \in WalletType
    BY <2>1 DEF ActState
  <2>3. Owner(actor[b].ref) \in User /\ Payee \in User
    BY DEF Owner, User
  <2>4. KnowsNearly(actor[b])
    BY DEF Balanced, Close
  <2> QED BY <1>6, <2>1, <2>2, <2>3, <2>4 DEF KnowsNearly
<1> QED BY <1>4, <1>5, <1>7 DEF Balanced, Close
-----------------------------------------------------------------------------
(* What a write changes: each operation has the effect of the abstract one, *)
(* and may lose what is late.                                               *)
Moved(u, gain, held) == /\ wallet'[u].balance = wallet[u].balance + gain
                        /\ wallet'[u].frozen = wallet[u].frozen + held

Booking(bank, fee) == /\ ledger' = [ledger EXCEPT !.bank = @ + bank, !.fee = @ + fee]
                      /\ ledger \in [{"bank", "escrow", "fee"} -> Int]

Spare(u)   == wallet[u].balance - wallet[u].frozen
Lost(u, s) == wallet[u].balance - s.balance
Loss(u)    == {l \in 0..Late(u) : l <= Spare(u)}

(* What the reader of a wallet loses when he writes it                      *)
LEMMA LostIsLoss ==
    ASSUME Balanced, NEW u \in User, NEW s \in WalletType,
           s.version = wallet[u].version, Seen(u, s), Near(u, s)
    PROVE  Lost(u, s) \in Loss(u) /\ Lost(u, s) \in Nat
<1>1. wallet[u].balance \in Int /\ wallet[u].frozen \in Int
  BY Types DEF Balanced, IInv
<1>2. s.balance \in Int
  BY DEF WalletType
<1>3. Late(u) \in Nat
  BY LateNumbers
<1>4. s.frozen = wallet[u].frozen /\ s.balance <= wallet[u].balance /\ s.frozen <= s.balance
  BY DEF Seen
<1>5. wallet[u].balance - s.balance <= Late(u)
  BY DEF Near
<1> QED BY <1>1, <1>2, <1>3, <1>4, <1>5 DEF Lost, Loss, Spare

LEMMA KnownNearly ==
    ASSUME Distinct, Balanced, NEW a \in Actor, Write(a)
    PROVE  LET r == actor[a]
               u == Owner(r.ref)
           IN  /\ u \in User
               /\ Lost(u, r.seen) \in Loss(u) /\ Lost(u, r.seen) \in Nat
               /\ r.seen.balance = wallet[u].balance - Lost(u, r.seen)
               /\ r.seen.frozen = wallet[u].frozen
               /\ wallet[u].balance \in Int /\ wallet[u].frozen \in Int
               /\ Covered(r.op, r.seen, Size(r.ref))
               /\ r.op = "release" =>
                      /\ Lost(Payee, r.seenPayee) \in Loss(Payee)
                      /\ Lost(Payee, r.seenPayee) \in Nat
                      /\ r.seenPayee.balance = wallet[Payee].balance - Lost(Payee, r.seenPayee)
<1> DEFINE r == actor[a]
           u == Owner(r.ref)
<1>1. IInv /\ KnowsNearly(r) /\ Knows(r) /\ r \in ActState
  BY ActorFacts DEF Balanced, Close
<1>2. /\ r.at = "read" /\ u \in User /\ r.seen \in WalletType
      /\ r.seen.version = wallet[u].version
      /\ r.seen.frozen = wallet[u].frozen /\ Covered(r.op, r.seen, Size(r.ref))
  BY <1>1, WriteFacts
<1>3. wallet[u].balance \in Int /\ wallet[u].frozen \in Int /\ r.seen.balance \in Int
  BY <1>1, <1>2, Types DEF IInv, WalletType
<1>4. Lost(u, r.seen) \in Loss(u) /\ Lost(u, r.seen) \in Nat
  BY <1>1, <1>2, LostIsLoss DEF Knows, KnowsNearly
<1>5. r.seen.balance = wallet[u].balance - Lost(u, r.seen)
  BY <1>3 DEF Lost
<1>6. ASSUME r.op = "release"
      PROVE  /\ Lost(Payee, r.seenPayee) \in Loss(Payee) /\ Lost(Payee, r.seenPayee) \in Nat
             /\ r.seenPayee.balance = wallet[Payee].balance - Lost(Payee, r.seenPayee)
  <2>1. /\ r.seenPayee \in WalletType /\ Payee \in User
        /\ r.seenPayee.version = wallet[Payee].version
        /\ Seen(Payee, r.seenPayee) /\ Near(Payee, r.seenPayee)
    BY <1>1, <1>2, <1>6 DEF ActState, User, Write, VersionMatches, Knows, KnowsNearly
  <2>2. wallet[Payee].balance \in Int /\ r.seenPayee.balance \in Int
    BY <1>1, <2>1, Types DEF IInv, WalletType
  <2> QED BY <2>1, <2>2, LostIsLoss DEF Lost
<1> QED BY <1>2, <1>3, <1>4, <1>5, <1>6

(* Contracts pay nothing to the payer, who loses nothing.                   *)
LEMMA PayerExact ==
    ASSUME Balanced, NEW l \in Loss(Payer)
    PROVE  l = 0
BY LateNumbers DEF Loss

(* An operation that writes one wallet writes what it had, and the other    *)
(* stays.                                                                   *)
LEMMA OneWritten ==
    ASSUME Distinct, Balanced, NEW a \in Actor, Write(a), actor[a].op # "release"
    PROVE  LET op == actor[a].op
               n  == Size(actor[a].ref)
               u  == Owner(actor[a].ref)
               l  == Lost(u, actor[a].seen)
           IN  /\ wallet'[u].balance =
                      wallet[u].balance + CASE op = "verify" -> n - l
                                            [] op \in {"execute", "fee"} -> -n - l
                                            [] OTHER -> 0
               /\ wallet'[u].frozen = wallet[u].frozen + CASE op \in {"request", "freeze"} -> n
                                                           [] op \in {"execute", "unfreeze"} -> -n
                                                           [] OTHER -> 0
               /\ wallet'[u].version # wallet[u].version
               /\ \A v \in User : v # u => wallet'[v] = wallet[v]
<1> DEFINE r == actor[a]
           n == Size(r.ref)
           u == Owner(r.ref)
           w == wallet[u]
           l == Lost(u, r.seen)
<1>1. IInv /\ n \in Int
  BY DEF Balanced, Size
<1>2. /\ u \in User /\ r.seen.balance = w.balance - l /\ r.seen.frozen = w.frozen
      /\ w.balance \in Int /\ w.frozen \in Int /\ l \in Int
  BY KnownNearly
<1>3. /\ wallet'[u] = Changed(r.op, w, r.seen, n)
      /\ \A v \in User : v # u => wallet'[v] = wallet[v]
  BY <1>1, <1>2, WalletWritten
<1> DEFINE c == Changed(r.op, w, r.seen, n)
<1>4. c.balance = CASE r.op = "verify"                        -> r.seen.balance + n
                    [] r.op \in {"execute", "release", "fee"} -> r.seen.balance - n
                    [] OTHER                                  -> w.balance
  BY DEF Changed
<1>5. c.frozen = CASE r.op \in {"request", "freeze"}              -> r.seen.frozen + n
                   [] r.op \in {"execute", "release", "unfreeze"} -> r.seen.frozen - n
                   [] OTHER                                       -> w.frozen
  BY DEF Changed
<1>6. c.version # w.version
  <2>1. c.version = r.seen.version + 1
    BY DEF Changed
  <2>2. r.seen.version = w.version /\ w \in WalletType
    BY <1>1, WriteFacts
  <2> QED BY <2>1, <2>2 DEF WalletType
<1> HIDE DEF c, n, w, l
<1>7. c.balance = w.balance + CASE r.op = "verify" -> n - l
                                [] r.op \in {"execute", "fee"} -> -n - l
                                [] OTHER -> 0
  BY <1>1, <1>2, <1>4
<1>8. c.frozen = w.frozen + CASE r.op \in {"request", "freeze"} -> n
                              [] r.op \in {"execute", "unfreeze"} -> -n
                              [] OTHER -> 0
  BY <1>1, <1>2, <1>5
<1> QED BY <1>3, <1>6, <1>7, <1>8 DEF c, n, w, l

LEMMA BookingMade ==
    ASSUME Balanced, NEW a \in Actor, Write(a)
    PROVE  LET op == actor[a].op
               n  == Size(actor[a].ref)
           IN  Booking(CASE op = "verify" -> -n [] op = "execute" -> n [] OTHER -> 0,
                       IF op = "fee" THEN n ELSE 0)
<1>1. ledger' = Booked(actor[a].op, Size(actor[a].ref))
  BY DEF Write
<1>2. ledger \in [{"bank", "escrow", "fee"} -> Int]
  BY DEF Balanced, IInv, TypeOK
<1> QED BY <1>1, <1>2 DEF Booked, Booking

(* Operations on the wallet of the payer                                    *)
LEMMA PayerMoves ==
    ASSUME Distinct, Balanced, NEW a \in Actor, Write(a),
           actor[a].op \in {"verify", "freeze", "unfreeze"}
    PROVE  /\ Moved(Payee, 0, 0)
           /\ \/ Moved(Payer, 2, 0) /\ Booking(-2, 0)
              \/ Moved(Payer, 0, 1) /\ Booking(0, 0) /\ Spare(Payer) >= 1
              \/ Moved(Payer, 0, -1) /\ Booking(0, 0) /\ wallet[Payer].frozen >= 1
<1> DEFINE r == actor[a]
<1>1. IInv /\ Fits(r) /\ r.ref \in Reference
  BY WriteFacts DEF Balanced
<1>2. Owner(r.ref) = Payer /\ (r.op = "verify" => Size(r.ref) = 2)
      /\ (r.op # "verify" => Size(r.ref) = 1)
  BY <1>1 DEF Fits, Owner, Size, Distinct
<1>3. /\ wallet[Payee].balance \in Int /\ wallet[Payee].frozen \in Int
      /\ Payee \in User /\ Payee # Payer
  BY <1>1, Types, UsersAssumption DEF IInv, User
<1>4. Moved(Payee, 0, 0)
  <2>1. wallet'[Payee] = wallet[Payee]
    BY <1>2, <1>3, OneWritten
  <2> QED BY <1>3, <2>1 DEF Moved
<1>5. /\ wallet[Payer].balance \in Int /\ wallet[Payer].frozen \in Int
      /\ Lost(Payer, r.seen) = 0
      /\ r.seen.balance = wallet[Payer].balance /\ r.seen.frozen = wallet[Payer].frozen
      /\ Covered(r.op, r.seen, Size(r.ref))
  BY <1>2, KnownNearly, PayerExact
<1> HIDE DEF r
<1>6. CASE r.op = "verify"
  <2>1. Moved(Payer, 2, 0)
    BY <1>2, <1>5, <1>6, OneWritten DEF Moved, r
  <2>2. Booking(-2, 0)
    BY <1>2, <1>6, BookingMade DEF r
  <2> QED BY <1>4, <2>1, <2>2
<1>7. CASE r.op = "freeze"
  <2>1. Moved(Payer, 0, 1)
    BY <1>2, <1>7, OneWritten DEF Moved, r
  <2>2. Booking(0, 0)
    BY <1>2, <1>7, BookingMade DEF r
  <2>3. Spare(Payer) >= 1
    BY <1>2, <1>5, <1>7 DEF Covered, Spare
  <2> QED BY <1>4, <2>1, <2>2, <2>3
<1>8. CASE r.op = "unfreeze"
  <2>1. Moved(Payer, 0, -1)
    BY <1>2, <1>8, OneWritten DEF Moved, r
  <2>2. Booking(0, 0)
    BY <1>2, <1>8, BookingMade DEF r
  <2>3. wallet[Payer].frozen >= 1
    BY <1>2, <1>5, <1>8 DEF Covered
  <2> QED BY <1>4, <2>1, <2>2, <2>3
<1> QED BY <1>6, <1>7, <1>8 DEF r

(* and of the payee                                                         *)
Renewed == wallet'[Payee].version # wallet[Payee].version

LEMMA PayeeMoves ==
    ASSUME Distinct, Balanced, NEW a \in Actor, Write(a),
           actor[a].op \in {"request", "execute", "fee"}
    PROVE  \E l \in Loss(Payee) :
              /\ Moved(Payer, 0, 0) /\ Renewed
              /\ \/ l = 0 /\ Moved(Payee, 0, 1) /\ Booking(0, 0) /\ Spare(Payee) >= 1
                 \/ Moved(Payee, -1 - l, -1) /\ Booking(1, 0) /\ wallet[Payee].frozen >= 1
                 \/ Moved(Payee, -1 - l, 0) /\ Booking(0, 1) /\ Spare(Payee) - l >= 1
<1> DEFINE r == actor[a]
           l == Lost(Payee, r.seen)
<1>1. IInv /\ Fits(r) /\ Informed(r) /\ r.ref \in Reference
  BY WriteFacts DEF Balanced
<1>2. Owner(r.ref) = Payee /\ Size(r.ref) = 1
  BY <1>1 DEF Fits, Owner, Size, Distinct
<1>3. /\ wallet[Payer].balance \in Int /\ wallet[Payer].frozen \in Int
      /\ Payer \in User /\ Payee # Payer
  BY <1>1, Types, UsersAssumption DEF IInv, User
<1>4. Moved(Payer, 0, 0)
  <2>1. wallet'[Payer] = wallet[Payer]
    BY <1>2, <1>3, OneWritten
  <2> QED BY <1>3, <2>1 DEF Moved
<1>5. /\ wallet[Payee].balance \in Int /\ wallet[Payee].frozen \in Int
      /\ l \in Loss(Payee) /\ l \in Nat
      /\ r.seen.balance = wallet[Payee].balance - l /\ r.seen.frozen = wallet[Payee].frozen
      /\ Covered(r.op, r.seen, Size(r.ref))
  BY <1>2, KnownNearly
<1>6. Renewed
  BY <1>2, OneWritten DEF Renewed
<1>7. r.op = "execute" => wallet[Payee].frozen >= 1
  <2> SUFFICES ASSUME r.op = "execute" PROVE wallet[Payee].frozen >= 1
    OBVIOUS
  <2>1. r.at = "read" /\ r.ref \in Payout
    BY <1>1, WriteFacts DEF Fits
  <2>2. r.ref \in Owed
    BY <1>1, <2>1 DEF Informed, Owed
  <2>3. IsFiniteSet(Owed) /\ wallet[Payee].frozen = Cardinality(Owed)
    BY <1>1, FrozenNumbers
  <2>4. Cardinality(Owed) \in Nat /\ Cardinality(Owed) # 0
    BY <2>2, <2>3, FS_CardinalityType, FS_EmptySet
  <2> QED BY <2>3, <2>4
<1> HIDE DEF r, l
<1>8. CASE r.op = "request"
  <2>1. Moved(Payee, 0, 1)
    BY <1>2, <1>8, OneWritten DEF Moved, r
  <2>2. Booking(0, 0)
    BY <1>2, <1>8, BookingMade DEF r
  <2>3. Spare(Payee) >= 1 /\ 0 \in Loss(Payee)
    BY <1>2, <1>5, <1>8, LateNumbers DEF Covered, Spare, Loss, User
  <2> QED BY <1>4, <1>6, <2>1, <2>2, <2>3
<1>9. CASE r.op = "execute"
  <2>1. Moved(Payee, -1 - l, -1)
    BY <1>2, <1>9, OneWritten DEF Moved, r, l
  <2>2. Booking(1, 0)
    BY <1>2, <1>9, BookingMade DEF r
  <2> QED BY <1>4, <1>5, <1>6, <1>7, <1>9, <2>1, <2>2
<1>10. CASE r.op = "fee"
  <2>1. Moved(Payee, -1 - l, 0)
    BY <1>2, <1>10, OneWritten DEF Moved, r, l
  <2>2. Booking(0, 1)
    BY <1>2, <1>10, BookingMade DEF r
  <2>3. Spare(Payee) - l >= 1
    BY <1>2, <1>5, <1>10 DEF Covered, Spare
  <2> QED BY <1>4, <1>5, <1>6, <2>1, <2>2, <2>3
<1> QED BY <1>8, <1>9, <1>10 DEF r

LEMMA ReleaseMoves ==
    ASSUME Distinct, Balanced, NEW a \in Actor, Write(a), actor[a].op = "release"
    PROVE  \E l \in Loss(Payee) :
              /\ Moved(Payer, -1, -1) /\ Moved(Payee, 1 - l, 0) /\ Booking(0, 0)
              /\ wallet[Payer].frozen >= 1 /\ Renewed
<1> DEFINE l == Lost(Payee, actor[a].seenPayee)
<1>1. IInv /\ Owner(actor[a].ref) = Payer /\ Size(actor[a].ref) = 1
  BY HoldEnds DEF Balanced
<1>2. /\ actor[a].seen.balance = wallet[Payer].balance
      /\ actor[a].seen.frozen = wallet[Payer].frozen
      /\ actor[a].seenPayee.balance = wallet[Payee].balance - l
      /\ l \in Loss(Payee) /\ l \in Nat
      /\ wallet[Payer].balance \in Int /\ wallet[Payer].frozen \in Int
  BY <1>1, KnownNearly, PayerExact
<1>3. wallet[Payee].balance \in Int /\ wallet[Payee].frozen \in Int /\ wallet[Payee].version \in Nat
  BY <1>1, Types DEF IInv, User, WalletType
<1> HIDE DEF l
<1>4. Moved(Payer, -1, -1)
  BY <1>1, <1>2, WalletsReleased DEF Moved
<1>5. Moved(Payee, 1 - l, 0)
  BY <1>1, <1>2, <1>3, WalletsReleased DEF Moved
<1>6. Booking(0, 0)
  BY <1>1, BookingMade
<1>7. wallet[Payer].frozen >= 1
  BY <1>1, <1>2, HoldEnds
<1>8. Renewed
  BY <1>1, <1>3, WalletsReleased DEF Renewed
<1> QED BY <1>2, <1>4, <1>5, <1>6, <1>7, <1>8

(* An amount moves from one account to another, or is set aside, and l of   *)
(* what is late is lost.                                                    *)
Effect(l) ==
    \/ l = 0 /\ Moved(Payer, 2, 0) /\ Moved(Payee, 0, 0) /\ Booking(-2, 0)
    \/ /\ l = 0 /\ Moved(Payer, 0, 1) /\ Moved(Payee, 0, 0) /\ Booking(0, 0)
       /\ Spare(Payer) >= 1
    \/ /\ l = 0 /\ Moved(Payer, 0, -1) /\ Moved(Payee, 0, 0) /\ Booking(0, 0)
       /\ wallet[Payer].frozen >= 1
    \/ /\ l = 0 /\ Moved(Payee, 0, 1) /\ Moved(Payer, 0, 0) /\ Booking(0, 0)
       /\ Spare(Payee) >= 1
    \/ /\ Moved(Payee, -1 - l, -1) /\ Moved(Payer, 0, 0) /\ Booking(1, 0)
       /\ wallet[Payee].frozen >= 1
    \/ /\ Moved(Payee, -1 - l, 0) /\ Moved(Payer, 0, 0) /\ Booking(0, 1)
       /\ Spare(Payee) - l >= 1
    \/ /\ Moved(Payer, -1, -1) /\ Moved(Payee, 1 - l, 0) /\ Booking(0, 0)
       /\ wallet[Payer].frozen >= 1

LEMMA WriteMoves ==
    ASSUME Distinct, Balanced, NEW a \in Actor, Write(a)
    PROVE  \E l \in Loss(Payee) : Effect(l) /\ (l = 0 \/ Renewed)
<1>1. actor[a].op \in Wallets
  BY WriteFacts DEF Balanced
<1>2. CASE actor[a].op \in {"verify", "freeze", "unfreeze"}
  <2>1. 0 \in Loss(Payee)
    <3>1. wallet[Payee].balance \in Int /\ wallet[Payee].frozen \in Int /\ Payee \in User
      BY Types DEF Balanced, IInv, User
    <3>2. wallet[Payee].frozen <= wallet[Payee].balance
      BY <3>1 DEF Balanced, IInv, Money, NoOverdraft
    <3> QED BY <3>1, <3>2, LateNumbers DEF Loss, Spare
  <2>2. Effect(0)
    BY <1>2, PayerMoves DEF Effect
  <2> QED BY <2>1, <2>2
<1>3. CASE actor[a].op \in {"request", "execute", "fee"}
  BY <1>3, PayeeMoves DEF Effect
<1>4. CASE actor[a].op = "release"
  BY <1>4, ReleaseMoves DEF Effect
<1> QED BY <1>1, <1>2, <1>3, <1>4 DEF Wallets

LEMMA BookingAdds ==
    ASSUME NEW b \in Int, NEW f \in Int, Booking(b, f)
    PROVE  /\ ledger'["bank"] = ledger["bank"] + b
           /\ ledger'["escrow"] = ledger["escrow"]
           /\ ledger'["fee"] = ledger["fee"] + f
           /\ ledger["bank"] \in Int /\ ledger["escrow"] \in Int /\ ledger["fee"] \in Int
           /\ ledger \in [{"bank", "escrow", "fee"} -> Int]
           /\ ledger' \in [{"bank", "escrow", "fee"} -> Int]
<1> DEFINE g == [ledger EXCEPT !.bank = @ + b]
<1>1. ledger \in [{"bank", "escrow", "fee"} -> Int]
  BY DEF Booking
<1>2. /\ g \in [{"bank", "escrow", "fee"} -> Int]
      /\ g["bank"] = ledger["bank"] + b /\ g["escrow"] = ledger["escrow"]
      /\ g["fee"] = ledger["fee"]
  BY <1>1
<1>3. ledger' = [g EXCEPT !["fee"] = @ + f]
  BY <1>1 DEF Booking
<1> HIDE DEF g
<1>4. /\ ledger' \in [{"bank", "escrow", "fee"} -> Int]
      /\ ledger'["bank"] = g["bank"] /\ ledger'["escrow"] = g["escrow"]
      /\ ledger'["fee"] = g["fee"] + f
  BY <1>2, <1>3
<1> QED BY <1>1, <1>2, <1>4

(* The accounts lack l more.                                                *)
LEMMA SumMoves ==
    ASSUME Balanced, NEW l \in Loss(Payee), Effect(l)
    PROVE  TrialSum' = TrialSum - l /\ l \in Nat
<1>1. l \in Nat
  BY LateNumbers DEF Loss, User
<1>2. wallet[Payer].balance \in Int /\ wallet[Payee].balance \in Int
  BY Types DEF Balanced, IInv, User
<1>3. ASSUME NEW g \in Int, NEW h \in Int, NEW b \in Int, NEW f \in Int, g + h + b + f = -l,
             wallet'[Payer].balance = wallet[Payer].balance + g,
             wallet'[Payee].balance = wallet[Payee].balance + h,
             Booking(b, f)
      PROVE  TrialSum' = TrialSum - l
  <2>1. /\ ledger'["bank"] = ledger["bank"] + b /\ ledger'["escrow"] = ledger["escrow"]
        /\ ledger'["fee"] = ledger["fee"] + f
        /\ ledger["bank"] \in Int /\ ledger["escrow"] \in Int /\ ledger["fee"] \in Int
    BY <1>3, BookingAdds
  <2> QED BY <1>1, <1>2, <1>3, <2>1 DEF TrialSum
<1> DEFINE G(g, h, b, f) == /\ g + h + b + f = -l /\ Booking(b, f)
                            /\ wallet'[Payer].balance = wallet[Payer].balance + g
                            /\ wallet'[Payee].balance = wallet[Payee].balance + h
<1>4. \/ G(2, 0, -2, 0) \/ G(0, 0, 0, 0) \/ G(0, -1 - l, 1, 0) \/ G(0, -1 - l, 0, 1)
      \/ G(-1, 1 - l, 0, 0)
  <2>1. 0 - 1 - l + 1 + 0 = -l /\ -1 + (1 - l) + 0 + 0 = -l
    BY <1>1
  <2>2. 0 + (-1 - l) + 1 + 0 = -l /\ 0 + (-1 - l) + 0 + 1 = -l
    BY <1>1
  <2> QED BY <2>1, <2>2 DEF Effect, Moved
<1>5. \E g \in Int, h \in Int, b \in Int, f \in Int : G(g, h, b, f)
  <2> HIDE DEF G
  <2>1. -1 - l \in Int /\ 1 - l \in Int
    BY <1>1
  <2> QED BY <1>4, <2>1
<1> QED BY <1>1, <1>3, <1>5

LEMMA LateMoves ==
    ASSUME Balanced, NEW l \in Loss(Payee), Effect(l), credits' = credits
    PROVE  /\ Late(Payee)' = Late(Payee) - l /\ Late(Payer)' = 0
           /\ l \in Nat /\ 0 <= Late(Payee)'
<1>1. TrialSum' = TrialSum - l /\ l \in Nat
  BY SumMoves
<1>2. Late(Payee)' = Cardinality(credits) + TrialSum' /\ Late(Payer)' = 0
  BY UsersAssumption DEF Late
<1>3. l <= Late(Payee)
  BY DEF Loss
<1> QED BY <1>1, <1>2, <1>3, LateNumbers

LEMMA WriteBalanced ==
    ASSUME Distinct, Balanced, IInv', NEW a \in Actor, Write(a)
    PROVE  Balanced'
<1>1. IInv /\ Becomes(a, Idle) /\ credits' = credits
  BY ActorFacts, LeaveMoves DEF Balanced, Write
<1>2. PICK l \in Loss(Payee) : Effect(l) /\ (l = 0 \/ Renewed)
  BY WriteMoves
<1>3. Late(Payee)' = Late(Payee) - l /\ Late(Payer)' = 0 /\ l \in Nat /\ 0 <= Late(Payee)'
  BY <1>1, <1>2, LateMoves
<1>4. ASSUME NEW u \in User, NEW s \in WalletType, Near(u, s),
             s.version <= wallet[u].version
      PROVE  Near(u, s)'
  <2>1. wallet[u].version \in Nat /\ s.version \in Nat /\ wallet[u].balance \in Int
    BY <1>1, Types DEF IInv, WalletType
  <2>2. CASE wallet'[u] # wallet[u]
    <3>1. wallet'[u].version = wallet[u].version + 1
      BY <1>1, <2>2, VersionGoesOn
    <3> QED BY <1>4, <2>1, <3>1 DEF Near
  <2>3. CASE wallet'[u] = wallet[u]
    <3>1. Late(u)' = Late(u)
      <4>1. CASE u = Payer
        BY <1>3, <4>1, LateNumbers
      <4>2. CASE u = Payee
        <5>1. l = 0
          BY <1>2, <2>3, <4>2 DEF Renewed
        <5> QED BY <1>3, <4>2, <5>1, LateNumbers
      <4> QED BY <4>1, <4>2 DEF User
    <3> QED BY <1>4, <2>3, <3>1 DEF Near
  <2> QED BY <2>2, <2>3
<1>5. ASSUME NEW b \in Actor PROVE KnowsNearly(actor[b])'
  <2>1. CASE b = a
    BY <1>1, <2>1 DEF Becomes, KnowsNearly, Idle
  <2>2. CASE b # a
    <3>1. actor'[b] = actor[b] /\ actor[b] \in ActState /\ Knows(actor[b])
      BY <1>1, <2>2, ActorFacts DEF Becomes
    <3>2. actor[b].seen \in WalletType /\ actor[b].seenPayee \in WalletType
      BY <3>1 DEF ActState
    <3>3. Owner(actor[b].ref) \in User /\ Payee \in User
      BY DEF Owner, User
    <3>4. KnowsNearly(actor[b])
      BY DEF Balanced, Close
    <3>5. actor[b].at = "read" =>
              /\ actor[b].seen.version <= wallet[Owner(actor[b].ref)].version
              /\ actor[b].op = "release" => actor[b].seenPayee.version <= wallet[Payee].version
      BY <3>1 DEF Knows, Seen
    <3>6. actor[b].at = "read" =>
              /\ Near(Owner(actor[b].ref), actor[b].seen)'
              /\ actor[b].op = "release" => Near(Payee, actor[b].seenPayee)'
      BY <1>4, <3>1, <3>2, <3>3, <3>4, <3>5 DEF KnowsNearly
    <3> QED BY <3>1, <3>6 DEF KnowsNearly
  <2> QED BY <2>1, <2>2
<1>6. IsFiniteSet(credits)'
  BY <1>1 DEF Balanced
<1> QED BY <1>3, <1>5, <1>6 DEF Balanced, Close

LEMMA NextBalanced ==
    ASSUME Distinct, Balanced, [Next]_vars
    PROVE  Balanced'
<1>1. IInv'
  BY NextIInv DEF Balanced
<1>2. ASSUME NEW a \in Actor, Begins(a) \/ Goes(a) \/ Fails(a) PROVE Balanced'
  BY <1>1, <1>2, BeginsBalanced, GoesOnBalanced, ReadBalanced, WriteBalanced DEF Goes
<1>3. ASSUME NEW d \in Deposit, PayDeposit(d) PROVE Balanced'
  BY <1>1, <1>3, StillBalanced DEF PayDeposit
<1>4. ASSUME LockExpires PROVE Balanced'
  BY <1>1, <1>4, StillBalanced DEF LockExpires
<1>5. CASE UNCHANGED vars
  BY <1>1, <1>5, StillBalanced DEF vars
<1> QED BY <1>1, <1>2, <1>3, <1>4, <1>5, CreditBalanced DEF Next

(* The accounts lack no more than contracts paid out: what one transaction  *)
(* credits it debits, and a write overwrites nothing but credits, each      *)
(* once (WalletService, handleTransferSuccess).                             *)
THEOREM CreditsOnlyMissing ==
    ASSUME Distinct
    PROVE  Spec => []OnlyCreditsMissing
<1>1. Balanced => OnlyCreditsMissing
  <2> SUFFICES ASSUME Balanced PROVE OnlyCreditsMissing
    OBVIOUS
  <2>1. NoMoneyMade
    BY DEF Balanced, IInv, Money
  <2>2. 0 <= Cardinality(credits) + TrialSum
    BY LateNumbers DEF Balanced
  <2> QED BY <2>1, <2>2, LateNumbers DEF OnlyCreditsMissing
<1> QED BY <1>1, InitBalanced, NextBalanced, PTL DEF Spec
-----------------------------------------------------------------------------
(* The abstract accounts, and the variables that show them                  *)
Balance  == [u \in User |-> wallet[u].balance]
Frozen   == [u \in User |-> wallet[u].frozen]
Lateness == [u \in User |-> Late(u)]

LEMMA Shown ==
    ASSUME NEW payerGain, NEW payerHeld, NEW payeeGain, NEW payeeHeld,
           Moved(Payer, payerGain, payerHeld), Moved(Payee, payeeGain, payeeHeld)
    PROVE  /\ Balance' = [u \in User |-> IF u = Payer THEN Balance[u] + payerGain
                                                      ELSE Balance[u] + payeeGain]
           /\ Frozen' = [u \in User |-> IF u = Payer THEN Frozen[u] + payerHeld
                                                     ELSE Frozen[u] + payeeHeld]
           /\ Payer \in User /\ Payee \in User
<1>1. /\ Payer \in User /\ Payee \in User
      /\ \A u \in User : u # Payer => u = Payee
  BY DEF User
<1>2. /\ Balance' = [u \in User |-> wallet'[u].balance]
      /\ Frozen' = [u \in User |-> wallet'[u].frozen]
  BY DEF Balance, Frozen
<1>3. \A u \in User : Balance[u] = wallet[u].balance /\ Frozen[u] = wallet[u].frozen
  BY DEF Balance, Frozen
<1>4. \A u \in User :
          /\ wallet'[u].balance = IF u = Payer THEN Balance[u] + payerGain
                                               ELSE Balance[u] + payeeGain
          /\ wallet'[u].frozen = IF u = Payer THEN Frozen[u] + payerHeld
                                              ELSE Frozen[u] + payeeHeld
  BY <1>1, <1>3 DEF Moved
<1> QED BY <1>1, <1>2, <1>4

LEMMA LateShown ==
    ASSUME Balanced, NEW n \in Int, Late(Payee)' = Late(Payee) + n, Late(Payer)' = 0
    PROVE  Lateness' = [Lateness EXCEPT ![Payee] = @ + n]
<1>1. Lateness' = [u \in User |-> Late(u)']
  BY DEF Lateness
<1>2. \A u \in User : Late(u)' = IF u = Payee THEN Late(u) + n ELSE Late(u)
  BY LateNumbers DEF User
<1>3. \A u \in User : Lateness[u] = Late(u)
  BY DEF Lateness
<1> QED BY <1>1, <1>2, <1>3 DEF Lateness

LEMMA Numeric ==
    ASSUME Balanced
    PROVE  /\ \A u \in User : Balance[u] = wallet[u].balance /\ Frozen[u] = wallet[u].frozen
           /\ \A u \in User : Balance[u] \in Int /\ Frozen[u] \in Int
           /\ Balance = [u \in User |-> Balance[u]] /\ Frozen = [u \in User |-> Frozen[u]]
           /\ Payer # Payee
<1>1. \A u \in User : wallet[u].balance \in Int /\ wallet[u].frozen \in Int
  BY Types DEF Balanced, IInv
<1> QED BY <1>1, UsersAssumption DEF Balance, Frozen

LEMMA LedgerShown ==
    ASSUME NEW n \in Int
    PROVE  /\ Booking(n, 0) => ledger' = [ledger EXCEPT !.bank = @ + n]
           /\ Booking(0, n) => ledger' = [ledger EXCEPT !.fee = @ + n]
           /\ Booking(0, 0) => ledger' = ledger
<1> DEFINE D == {"bank", "escrow", "fee"}
<1>1. ASSUME NEW f \in [D -> Int], NEW g \in [D -> Int],
             f["bank"] = g["bank"], f["escrow"] = g["escrow"], f["fee"] = g["fee"]
      PROVE  f = g
  <2>1. f = [x \in D |-> f[x]] /\ g = [x \in D |-> g[x]]
    OBVIOUS
  <2>2. \A x \in D : f[x] = g[x]
    BY <1>1
  <2> QED BY <2>1, <2>2
<1>2. ASSUME NEW b \in Int, NEW f \in Int, Booking(b, f)
      PROVE  ledger' \in [D -> Int] /\ ledger \in [D -> Int]
  BY <1>2, BookingAdds
<1>3. ASSUME Booking(n, 0) PROVE ledger' = [ledger EXCEPT !.bank = @ + n]
  <2> DEFINE g == [ledger EXCEPT !.bank = @ + n]
  <2>1. ledger' \in [D -> Int] /\ ledger \in [D -> Int]
    BY <1>2, <1>3
  <2>2. /\ g \in [D -> Int] /\ g["bank"] = ledger["bank"] + n
        /\ g["escrow"] = ledger["escrow"] /\ g["fee"] = ledger["fee"]
    BY <2>1
  <2>3. /\ ledger'["bank"] = ledger["bank"] + n /\ ledger'["escrow"] = ledger["escrow"]
        /\ ledger'["fee"] = ledger["fee"]
    BY <1>3, BookingAdds
  <2> HIDE DEF g
  <2>4. ledger' = g
    BY <1>1, <2>1, <2>2, <2>3
  <2> QED BY <2>4 DEF g
<1>4. ASSUME Booking(0, n) PROVE ledger' = [ledger EXCEPT !.fee = @ + n]
  <2> DEFINE g == [ledger EXCEPT !.fee = @ + n]
  <2>1. ledger' \in [D -> Int] /\ ledger \in [D -> Int]
    BY <1>2, <1>4
  <2>2. /\ g \in [D -> Int] /\ g["fee"] = ledger["fee"] + n
        /\ g["escrow"] = ledger["escrow"] /\ g["bank"] = ledger["bank"]
    BY <2>1
  <2>3. /\ ledger'["fee"] = ledger["fee"] + n /\ ledger'["escrow"] = ledger["escrow"]
        /\ ledger'["bank"] = ledger["bank"]
    BY <1>4, BookingAdds
  <2> HIDE DEF g
  <2>4. ledger' = g
    BY <1>1, <2>1, <2>2, <2>3
  <2> QED BY <2>4 DEF g
<1>5. ASSUME Booking(0, 0) PROVE ledger' = ledger
  <2>1. ledger' \in [D -> Int] /\ ledger \in [D -> Int]
    BY <1>2, <1>5
  <2>2. /\ ledger'["bank"] = ledger["bank"] /\ ledger'["escrow"] = ledger["escrow"]
        /\ ledger'["fee"] = ledger["fee"]
    BY <1>5, BookingAdds
  <2> QED BY <1>1, <2>1, <2>2
<1> QED BY <1>3, <1>4, <1>5

(* What may be lost of a wallet is what the abstract accounts may lose.     *)
LEMMA LossShown ==
    ASSUME Balanced, NEW u \in User, NEW l \in Loss(u)
    PROVE  l \in Atomic!Losable(u) /\ l \in Int
<1>1. Late(u) \in Nat
  BY LateNumbers
<1>2. l \in 0..Late(u) /\ l <= Spare(u)
  BY DEF Loss
<1> QED BY <1>1, <1>2 DEF Atomic!Losable, Atomic!Available, Spare

(* Each write is the operation of the abstract accounts.                    *)
LEMMA WriteIsOperation ==
    ASSUME Distinct, Balanced, NEW a \in Actor, Write(a)
    PROVE  Atomic!Operation
<1>0. /\ Payer \in User /\ Payee \in User /\ Payer # Payee /\ Payer \in User \ {Payee}
      /\ \A u \in User : u # Payer => u = Payee
      /\ 1 \in {1, 2} /\ 2 \in {1, 2}
  BY UsersAssumption DEF User
<1>1. PICK l \in Loss(Payee) : Effect(l)
  BY WriteMoves
<1>2. l \in Atomic!Losable(Payee) /\ l \in Int
  BY <1>0, <1>1, LossShown
<1>3. Lateness' = [Lateness EXCEPT ![Payee] = @ - l]
  <2>1. Late(Payee)' = Late(Payee) + (-l) /\ Late(Payer)' = 0
    BY <1>1, <1>2, LateMoves, LateNumbers DEF Write
  <2>2. Lateness' = [Lateness EXCEPT ![Payee] = @ + (-l)]
    BY <1>2, <2>1, LateShown
  <2>3. Lateness[Payee] + (-l) = Lateness[Payee] - l
    BY <1>0, <1>2, LateNumbers DEF Lateness
  <2> QED BY <2>2, <2>3
<1>4. ASSUME l = 0 PROVE Lateness' = Lateness
  <2>1. Lateness[Payee] - 0 = Lateness[Payee]
    BY <1>0, LateNumbers DEF Lateness
  <2>2. Lateness = [u \in User |-> Lateness[u]]
    BY DEF Lateness
  <2> QED BY <1>3, <1>4, <2>1, <2>2
<1>5. CASE l = 0 /\ Moved(Payer, 2, 0) /\ Moved(Payee, 0, 0) /\ Booking(-2, 0)
  <2>1. Balance' = [Balance EXCEPT ![Payer] = @ + 2 - 0] /\ Frozen' = Frozen
    BY <1>0, <1>5, Shown, Numeric
  <2>2. ledger' = [ledger EXCEPT !.bank = @ - 2]
    <3>1. ledger' = [ledger EXCEPT !.bank = @ + -2]
      BY <1>5, LedgerShown
    <3>2. ledger["bank"] + -2 = ledger["bank"] - 2
      BY <1>5 DEF Booking
    <3> QED BY <3>1, <3>2
  <2>3. 0 \in Loss(Payer)
    <3>1. wallet[Payer].frozen <= wallet[Payer].balance
      BY <1>0 DEF Balanced, IInv, Money, NoOverdraft
    <3> QED BY <1>0, <3>1, LateNumbers, Numeric DEF Loss, Spare
  <2>4. 0 \in Atomic!Losable(Payer)
    BY <1>0, <2>3, LossShown
  <2>5. Lateness' = [Lateness EXCEPT ![Payer] = @ - 0]
    <3>1. Lateness[Payer] - 0 = Lateness[Payer] /\ Lateness = [u \in User |-> Lateness[u]]
      BY <1>0, LateNumbers DEF Lateness
    <3> QED BY <1>4, <1>5, <3>1
  <2>6. Atomic!PayIn(Payer, 2, 0)
    BY <2>1, <2>2, <2>5 DEF Atomic!PayIn, Balance, Frozen, Lateness
  <2> QED BY <1>0, <2>4, <2>6 DEF Atomic!Operation
<1>6. ASSUME NEW u \in User, Spare(u) >= 1, Frozen' = [Frozen EXCEPT ![u] = @ + 1],
             Balance' = Balance, Booking(0, 0), l = 0
      PROVE  Atomic!Operation
  <2>1. Atomic!Available(u) >= 1
    BY <1>6, Numeric DEF Atomic!Available, Spare, Balance, Frozen
  <2>2. ledger' = ledger
    BY <1>6, LedgerShown
  <2>3. Atomic!SetAside(u, 1)
    BY <1>4, <1>6, <2>1, <2>2 DEF Atomic!SetAside, Balance, Frozen, Lateness
  <2> QED BY <1>0, <2>3 DEF Atomic!Operation
<1>7. CASE /\ l = 0 /\ Moved(Payer, 0, 1) /\ Moved(Payee, 0, 0) /\ Booking(0, 0)
           /\ Spare(Payer) >= 1
  <2>1. Balance' = Balance /\ Frozen' = [Frozen EXCEPT ![Payer] = @ + 1]
    BY <1>0, <1>7, Shown, Numeric
  <2> QED BY <1>0, <1>6, <1>7, <2>1
<1>8. CASE /\ l = 0 /\ Moved(Payee, 0, 1) /\ Moved(Payer, 0, 0) /\ Booking(0, 0)
           /\ Spare(Payee) >= 1
  <2>1. Balance' = Balance /\ Frozen' = [Frozen EXCEPT ![Payee] = @ + 1]
    BY <1>0, <1>8, Shown, Numeric
  <2> QED BY <1>0, <1>6, <1>8, <2>1
<1>9. CASE /\ l = 0 /\ Moved(Payer, 0, -1) /\ Moved(Payee, 0, 0) /\ Booking(0, 0)
           /\ wallet[Payer].frozen >= 1
  <2>1. Balance' = Balance /\ Frozen' = [Frozen EXCEPT ![Payer] = @ - 1]
    BY <1>0, <1>9, Shown, Numeric
  <2>2. ledger' = ledger
    BY <1>9, LedgerShown
  <2>3. Frozen[Payer] >= 1
    BY <1>0, <1>9, Numeric
  <2>4. Atomic!GiveBack(Payer, 1)
    BY <1>4, <1>9, <2>1, <2>2, <2>3 DEF Atomic!GiveBack, Balance, Frozen, Lateness
  <2> QED BY <1>0, <2>4 DEF Atomic!Operation
<1>10. CASE /\ Moved(Payee, -1 - l, -1) /\ Moved(Payer, 0, 0) /\ Booking(1, 0)
            /\ wallet[Payee].frozen >= 1
  <2>1. /\ Balance' = [Balance EXCEPT ![Payee] = @ - 1 - l]
        /\ Frozen' = [Frozen EXCEPT ![Payee] = @ - 1]
    BY <1>0, <1>2, <1>10, Shown, Numeric
  <2>2. ledger' = [ledger EXCEPT !.bank = @ + 1]
    BY <1>10, LedgerShown
  <2>3. Frozen[Payee] >= 1
    BY <1>0, <1>10, Numeric
  <2>4. Atomic!Withdraw(Payee, 1, l)
    BY <1>3, <2>1, <2>2, <2>3 DEF Atomic!Withdraw, Balance, Frozen, Lateness
  <2> QED BY <1>0, <1>2, <2>4 DEF Atomic!Operation
<1>11. CASE /\ Moved(Payee, -1 - l, 0) /\ Moved(Payer, 0, 0) /\ Booking(0, 1)
            /\ Spare(Payee) - l >= 1
  <2>1. Balance' = [Balance EXCEPT ![Payee] = @ - 1 - l] /\ Frozen' = Frozen
    BY <1>0, <1>2, <1>11, Shown, Numeric
  <2>2. ledger' = [ledger EXCEPT !.fee = @ + 1]
    BY <1>11, LedgerShown
  <2>3. Atomic!Available(Payee) - l >= 1
    BY <1>0, <1>11, Numeric DEF Atomic!Available, Spare, Balance, Frozen
  <2>4. Atomic!TakeFee(Payee, 1, l)
    BY <1>3, <2>1, <2>2, <2>3 DEF Atomic!TakeFee, Balance, Frozen, Lateness
  <2> QED BY <1>0, <1>2, <2>4 DEF Atomic!Operation
<1>12. CASE /\ Moved(Payer, -1, -1) /\ Moved(Payee, 1 - l, 0) /\ Booking(0, 0)
            /\ wallet[Payer].frozen >= 1
  <2>1. /\ Balance' = [Balance EXCEPT ![Payer] = @ - 1, ![Payee] = @ + 1 - l]
        /\ Frozen' = [Frozen EXCEPT ![Payer] = @ - 1]
    BY <1>0, <1>2, <1>12, Shown, Numeric
  <2>2. ledger' = ledger
    BY <1>12, LedgerShown
  <2>3. Frozen[Payer] >= 1
    BY <1>0, <1>12, Numeric
  <2>4. Atomic!PayOver(Payer, Payee, 1, l)
    BY <1>3, <2>1, <2>2, <2>3 DEF Atomic!PayOver, Balance, Frozen, Lateness
  <2> QED BY <1>0, <1>2, <2>4 DEF Atomic!Operation
<1> QED BY <1>1, <1>5, <1>7, <1>8, <1>9, <1>10, <1>11, <1>12 DEF Effect

(* So is a credit.                                                          *)
LEMMA CreditIsOperation ==
    ASSUME Balanced, NEW c \in Credit, BookCredit(c)
    PROVE  Atomic!Operation
<1>1. Payer \in User /\ Payee \in User /\ Payer # Payee /\ 1 \in {1, 2}
  BY UsersAssumption DEF User
<1>2. wallet \in [User -> WalletType]
  BY Types DEF Balanced, IInv
<1>3. /\ wallet'[Payee].balance = wallet[Payee].balance + 1
      /\ \A u \in User : u # Payee => wallet'[u].balance = wallet[u].balance
      /\ \A u \in User : wallet'[u].frozen = wallet[u].frozen
  BY <1>1, <1>2 DEF BookCredit, WalletType
<1>4. Balance' = [Balance EXCEPT ![Payee] = @ + 1] /\ Frozen' = Frozen
  BY <1>1, <1>3 DEF Balance, Frozen
<1>5. Cardinality(credits') = Cardinality(credits) + 1
  BY FS_AddElement DEF Balanced, BookCredit
<1>6. TrialSum' = TrialSum
  <2>1. /\ ledger'["bank"] = ledger["bank"] /\ ledger'["fee"] = ledger["fee"]
        /\ ledger'["escrow"] = ledger["escrow"] - 1
        /\ ledger["bank"] \in Int /\ ledger["escrow"] \in Int /\ ledger["fee"] \in Int
    BY DEF Balanced, IInv, BookCredit, TypeOK
  <2>2. wallet[Payee].balance \in Int /\ wallet[Payer].balance \in Int
    BY <1>1, <1>2 DEF WalletType
  <2> QED BY <1>1, <1>3, <2>1, <2>2 DEF TrialSum
<1>7. Late(Payee)' = Late(Payee) + 1 /\ Late(Payer)' = 0
  BY <1>1, <1>5, <1>6, LateNumbers DEF Late
<1>8. Lateness' = [Lateness EXCEPT ![Payee] = @ + 1]
  BY <1>7, LateShown
<1>9. ledger' = [ledger EXCEPT !.escrow = @ - 1]
  BY DEF BookCredit
<1>10. Atomic!ContractPays(Payee, 1)
  BY <1>4, <1>8, <1>9 DEF Atomic!ContractPays, Balance, Frozen, Lateness
<1> QED BY <1>1, <1>10 DEF Atomic!Operation

(* Every other step leaves the accounts alone.                              *)
LEMMA StepIsAtomic ==
    ASSUME Distinct, Balanced, [Next]_vars
    PROVE  [Atomic!Next]_(Atomic!vars)
<1>1. UNCHANGED <<wallet, ledger, credits>> => UNCHANGED Atomic!vars
  BY DEF Atomic!vars, Late, TrialSum
<1>2. ASSUME Atomic!Operation PROVE [Atomic!Next]_(Atomic!vars)
  BY <1>2 DEF Atomic!Next
<1>3. ASSUME NEW a \in Actor, Begins(a) PROVE UNCHANGED <<wallet, ledger, credits>>
  BY <1>3 DEF Begins, ReadDeposit, RequestPayout, ReadPending, TakeJob, Lock, ChargeFee
<1>4. ASSUME NEW a \in Actor, Goes(a) \/ Fails(a), ~Write(a)
      PROVE  UNCHANGED <<wallet, ledger, credits>>
  BY <1>4 DEF Goes, Fails, AskPaystack, FailDeposit, MarkProcessing, Enqueue, Transfer, Read,
              Conflict
<1>5. ASSUME NEW d \in Deposit, PayDeposit(d) PROVE UNCHANGED <<wallet, ledger, credits>>
  BY <1>5 DEF PayDeposit
<1>6. LockExpires => UNCHANGED <<wallet, ledger, credits>>
  BY DEF LockExpires
<1>7. UNCHANGED vars => UNCHANGED <<wallet, ledger, credits>>
  BY DEF vars
<1>8. \/ \E a \in Actor : Write(a)
      \/ \E c \in Credit : BookCredit(c)
      \/ UNCHANGED <<wallet, ledger, credits>>
  BY <1>3, <1>4, <1>5, <1>6, <1>7 DEF Next
<1> QED BY <1>1, <1>2, <1>8, WriteIsOperation, CreditIsOperation

(* Deposits, withdrawals, holds and fees have the effect of operations on   *)
(* the accounts that happen at once, but for credits that are lost: the     *)
(* versions make the reads and the conditional writes of                    *)
(* executeWithOptimisticLockingRetry one step.                              *)
THEOREM AccountsImplemented ==
    ASSUME Distinct
    PROVE  Spec => ImplementsAccounts
<1>1. Init => Atomic!Init
  <2> SUFFICES ASSUME Init PROVE Atomic!Init
    OBVIOUS
  <2>1. /\ [u \in User |-> wallet[u].balance] = [u \in User |-> Opening]
        /\ [u \in User |-> wallet[u].frozen] = [u \in User |-> 0]
    BY DEF Init
  <2>2. ledger = [bank |-> -2 * Opening, escrow |-> 0, fee |-> 0]
    BY DEF Init
  <2>3. [u \in User |-> Late(u)] = [u \in User |-> 0]
    <3>1. Cardinality(credits) = 0
      BY FS_EmptySet DEF Init
    <3>2. wallet[Payer].balance = Opening /\ wallet[Payee].balance = Opening
      BY DEF Init, User
    <3>3. TrialSum = 0
      BY <2>2, <3>2, SizesAssumption DEF TrialSum
    <3> QED BY <3>1, <3>3 DEF Late
  <2> QED BY <2>1, <2>2, <2>3 DEF Atomic!Init
<1>2. Balanced /\ [Next]_vars => [Atomic!Next]_(Atomic!vars)
  BY StepIsAtomic
<1> QED BY <1>1, <1>2, InitBalanced, NextBalanced, PTL
        DEF Spec, ImplementsAccounts, Atomic!Spec
=============================================================================
