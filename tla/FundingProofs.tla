--------------------------- MODULE FundingProofs ---------------------------
(***************************************************************************)
(* Funding.tla for any finite set of payments, any set of verifications and *)
(* any amount, with crashes and rolled back transactions.  The ledger       *)
(* matches the payments because a transaction that will commit still holds  *)
(* the row lock of a payment nobody else has verified (RowLocks), and the   *)
(* payment it completes was paid (Progress).                                *)
(***************************************************************************)
EXTENDS Funding, FiniteSetTheorems, TLAPS

(* What each initialisation has done to its Payment row and its charge      *)
Initializers ==
    \A p \in Payment :
        /\ initializer[p] \in {"idle", "fundable"} => payment[p] = "absent"
        /\ initializer[p] \in {"requested", "opened"} => payment[p] = "pending"
        /\ charge[p] = "success" => payment[p] \in {"initialized", "completed"}
        /\ payment[p] = "completed" => charge[p] = "success"

(* What each verification knows                                             *)
Progress ==
    \A v \in Verifier :
        /\ At(v, "idle") => verifier[v] = Resting
        /\ ~At(v, "idle") => Of(v) \in Payment /\ charge[Of(v)] = "success"
        /\ At(v, "paid") => ~InTransaction(v)
        /\ verifier[v].at \in {"written", "completed"} => contract.status = "FUNDED"

(* An open transaction is the only one on its payment, which is unverified. *)
RowLocks ==
    \A v \in Verifier : InTransaction(v) =>
        /\ payment[Of(v)] # "completed"
        /\ \A w \in Verifier : InTransaction(w) /\ Of(w) = Of(v) => w = v

Funded ==
    /\ contract.status \in {"PENDING_PAYMENT", "FUNDED"}
    /\ FundedByPaidCharge
    /\ CompletedKeyMeansFunded

IInv == TypeOK /\ Initializers /\ Progress /\ RowLocks /\ LedgerMatchesPayments /\ Funded

LEMMA InitIInv == Init => IInv
<1> SUFFICES ASSUME Init PROVE IInv
  OBVIOUS
<1>1. TypeOK
  BY DEF Init, TypeOK, Status, KeyState, Resting, VerifierStep, VerifierState,
         MaybePayment, TxState
<1>2. Initializers /\ Progress /\ RowLocks /\ Funded
  BY DEF Init, Initializers, Progress, RowLocks, Funded, FundedByPaidCharge,
         CompletedKeyMeansFunded, Verified, At, Resting, InTransaction
<1>3. LedgerMatchesPayments
  <2>1. Verified = {}
    BY DEF Init, Verified
  <2> QED BY <2>1, FS_EmptySet, AmountAssumption DEF Init, LedgerMatchesPayments
<1> QED BY <1>1, <1>2, <1>3 DEF IInv

-----------------------------------------------------------------------------
(* A step that moves one verification, to the state r.                      *)
Moves(v, r) == /\ r \in VerifierState
               /\ verifier' \in [Verifier -> VerifierState]
               /\ verifier'[v] = r
               /\ \A w \in Verifier : w # v => verifier'[w] = verifier[w]

(* A record with one field replaced                                         *)
LEMMA FieldReplaced ==
  ASSUME NEW u \in VerifierState
  PROVE  /\ \A s \in VerifierStep :
              /\ [u EXCEPT !.at = s] = [at |-> s, of |-> u.of, tx |-> u.tx]
              /\ [u EXCEPT !.at = s] \in VerifierState
         /\ \A t \in TxState :
              /\ [u EXCEPT !.tx = t] = [at |-> u.at, of |-> u.of, tx |-> t]
              /\ [u EXCEPT !.tx = t] \in VerifierState
BY DEF VerifierState

LEMMA Replaced ==
  ASSUME verifier \in [Verifier -> VerifierState], NEW v \in Verifier,
         NEW r \in VerifierState, verifier' = [verifier EXCEPT ![v] = r]
  PROVE  Moves(v, r)
BY DEF Moves

LEMMA GotoMoves ==
  ASSUME TypeOK, NEW v \in Verifier, NEW s \in VerifierStep, Goto(v, s)
  PROVE  Moves(v, [at |-> s, of |-> verifier[v].of, tx |-> verifier[v].tx])
<1>1. verifier \in [Verifier -> VerifierState]
  BY DEF TypeOK
<1>2. verifier[v] \in VerifierState
  BY <1>1
<1>3. /\ [verifier[v] EXCEPT !.at = s] = [at |-> s, of |-> verifier[v].of, tx |-> verifier[v].tx]
      /\ [verifier[v] EXCEPT !.at = s] \in VerifierState
  BY <1>2, FieldReplaced
<1>4. verifier' = [verifier EXCEPT ![v] = [verifier[v] EXCEPT !.at = s]]
  BY <1>1 DEF Goto
<1>5. Moves(v, [verifier[v] EXCEPT !.at = s])
  BY <1>1, <1>3, <1>4, Replaced
<1> QED BY <1>3, <1>5

LEMMA LeaveMoves ==
  ASSUME TypeOK, NEW v \in Verifier, Leave(v)
  PROVE  Moves(v, Resting)
<1>1. Resting \in VerifierState
  BY DEF Resting, VerifierState, VerifierStep, MaybePayment, TxState
<1>2. verifier \in [Verifier -> VerifierState]
  BY DEF TypeOK
<1> QED BY <1>1, <1>2, Replaced DEF Leave

LEMMA SetMoves ==
  ASSUME TypeOK, NEW v \in Verifier, NEW s \in VerifierStep, NEW p \in MaybePayment, NEW t \in TxState,
         verifier' = [verifier EXCEPT ![v] = [at |-> s, of |-> p, tx |-> t]]
  PROVE  Moves(v, [at |-> s, of |-> p, tx |-> t])
<1>1. [at |-> s, of |-> p, tx |-> t] \in VerifierState
  BY DEF VerifierState
<1>2. verifier \in [Verifier -> VerifierState]
  BY DEF TypeOK
<1> QED BY <1>1, <1>2, Replaced

LEMMA TimeoutMoves ==
  ASSUME TypeOK, NEW v \in Verifier, TransactionTimesOut(v)
  PROVE  Moves(v, [at |-> verifier[v].at, of |-> verifier[v].of,
                   tx |-> "rolled back"])
<1>1. verifier \in [Verifier -> VerifierState]
  BY DEF TypeOK
<1>2. verifier[v] \in VerifierState
  BY <1>1
<1>3. /\ [verifier[v] EXCEPT !.tx = "rolled back"] = [at |-> verifier[v].at, of |-> verifier[v].of, tx |-> "rolled back"]
      /\ [verifier[v] EXCEPT !.tx = "rolled back"] \in VerifierState
  BY <1>2, FieldReplaced DEF TxState
<1>4. verifier' = [verifier EXCEPT ![v] = [verifier[v] EXCEPT !.tx = "rolled back"]]
  BY <1>1 DEF TransactionTimesOut
<1>5. Moves(v, [verifier[v] EXCEPT !.tx = "rolled back"])
  BY <1>1, <1>3, <1>4, Replaced
<1> QED BY <1>3, <1>5

-----------------------------------------------------------------------------
LEMMA TypeStep == IInv /\ [Next]_vars => TypeOK'
<1> SUFFICES ASSUME IInv, [Next]_vars PROVE TypeOK'
  OBVIOUS
<1>0. TypeOK
  BY DEF IInv
<1>1. ASSUME NEW p \in Payment, Initialize(p) \/ InitializerDies(p) \/ PayCharge(p)
      PROVE  TypeOK'
  BY <1>0, <1>1 DEF TypeOK, InitStep, dbVars, MaybePayment, Initialize, CheckFundable,
     RequestPayment, OpenCharge, StoreReference, ReadContract, StoreOnContract, InitializerDies, PayCharge
<1>2. ASSUME NEW v \in Verifier, NEW r, Moves(v, r),
             UNCHANGED <<dbVars, charge, initializer>>
      PROVE  TypeOK'
  BY <1>0, <1>2 DEF TypeOK, Moves, dbVars
<1>3. ASSUME NEW v \in Verifier, NEW r, Moves(v, r), key' \in [Payment -> KeyState],
             UNCHANGED <<contract, payment, transaction, balance, charge, initializer>>
      PROVE  TypeOK'
  BY <1>0, <1>3 DEF TypeOK, Moves
<1>4. ASSUME NEW v \in Verifier, Verify(v), ~At(v, "idle") PROVE TypeOK'
  <2>0. Of(v) \in Payment /\ Of(v) \in MaybePayment
    BY <1>4 DEF IInv, Progress, MaybePayment
  <2>1. CASE LockPayment(v)
    <3>1. UNCHANGED <<dbVars, charge, initializer>>
      BY <2>1 DEF LockPayment
    <3>2. CASE Leave(v)
      BY <3>1, <3>2, <1>0, <1>2, LeaveMoves
    <3>3. CASE verifier' = [verifier EXCEPT ![v] = [at |-> "locked", of |-> Of(v), tx |-> "open"]]
      <4>1. Moves(v, [at |-> "locked", of |-> Of(v), tx |-> "open"])
        BY <2>0, <3>3, <1>0, SetMoves DEF VerifierStep, TxState
      <4> QED BY <3>1, <4>1, <1>2
    <3> QED BY <2>1, <3>2, <3>3 DEF LockPayment
  <2>2. CASE AcquireKey(v)
    <3>1. key' \in [Payment -> KeyState]
      BY <1>0, <2>2 DEF AcquireKey, Acquired, KeyState, TypeOK
    <3>2. \E r : Moves(v, r)
      BY <2>2, <1>0, GotoMoves DEF AcquireKey, VerifierStep
    <3>3. UNCHANGED <<contract, payment, transaction, balance, charge, initializer>>
      BY <2>2 DEF AcquireKey
    <3> QED BY <3>1, <3>2, <3>3, <1>3
  <2>3. CASE ValidateFunded(v)
    BY <2>3, <1>0, <1>2, GotoMoves DEF ValidateFunded, VerifierStep
  <2>4. CASE WriteFunded(v)
    <3>1. contract' \in [status : Status, reference : MaybePayment,
                         fundedPaymentId : MaybePayment]
      BY <2>0, <2>4 DEF WriteFunded, Status
    <3>2. Moves(v, [at |-> "written", of |-> verifier[v].of, tx |-> verifier[v].tx])
      BY <2>4, <1>0, GotoMoves DEF WriteFunded, VerifierStep
    <3> QED BY <3>1, <3>2, <2>4, <1>0 DEF TypeOK, Moves, WriteFunded
  <2>5. CASE CompleteKey(v)
    <3>1. key' \in [Payment -> KeyState]
      BY <1>0, <2>5 DEF CompleteKey, Completed, KeyState, TypeOK
    <3> QED BY <3>1, <2>5, <1>0, <1>3, GotoMoves DEF CompleteKey, VerifierStep
  <2>6. CASE ReleaseKey(v)
    <3>1. key' \in [Payment -> KeyState]
      BY <1>0, <2>6 DEF ReleaseKey, Released, KeyState, TypeOK
    <3> QED BY <3>1, <2>6, <1>0, <1>3, LeaveMoves DEF ReleaseKey
  <2>7. CASE Commit(v)
    <3>1. balance' \in [client : Int, escrow : Int]
      BY <1>0, <2>7, AmountAssumption DEF Commit, TypeOK
    <3>2. payment' \in [Payment -> {"absent", "pending", "initialized", "completed"}]
      BY <1>0, <2>7 DEF Commit, TypeOK
    <3>3. transaction' \subseteq Payment
      BY <1>0, <2>0, <2>7 DEF Commit, TypeOK
    <3>4. Moves(v, Resting)
      BY <1>0, <2>7, LeaveMoves DEF Commit
    <3> QED BY <3>1, <3>2, <3>3, <3>4, <2>7, <1>0 DEF TypeOK, Moves, Commit
  <2>8. CASE CommitRefused(v)
    BY <2>8, <1>0, <1>2, LeaveMoves DEF CommitRefused
  <2>9. CASE Announce(v)
    BY <2>9, <1>0, <1>2, GotoMoves DEF Announce, VerifierStep
  <2> QED BY <1>4, <2>1, <2>2, <2>3, <2>4, <2>5, <2>6, <2>7, <2>8, <2>9 DEF Verify
<1>5. ASSUME NEW v \in Verifier, Verify(v) PROVE TypeOK'
  BY <1>4, <1>5 DEF Verify, At, LockPayment, AcquireKey, ValidateFunded, WriteFunded,
                    CompleteKey, Announce, ReleaseKey, Commit, CommitRefused
<1>6. ASSUME NEW v \in Verifier,
             TransactionTimesOut(v) \/ StatementFails(v) \/ VerifierDies(v)
      PROVE  TypeOK'
  BY <1>6, <1>0, <1>2, GotoMoves, LeaveMoves, TimeoutMoves
     DEF TransactionTimesOut, StatementFails, VerifierDies, VerifierStep
<1>7. ASSUME NEW v \in Verifier, NEW p \in Payment, CheckPaid(v, p) PROVE TypeOK'
  <2>1. /\ verifier' = [verifier EXCEPT ![v] = [at |-> "paid", of |-> p, tx |-> "none"]]
        /\ UNCHANGED <<dbVars, charge, initializer>>
    BY <1>7 DEF CheckPaid
  <2>2. Moves(v, [at |-> "paid", of |-> p, tx |-> "none"])
    BY <2>1, <1>0, SetMoves DEF VerifierStep, TxState, MaybePayment
  <2> QED BY <2>1, <2>2, <1>2
<1>8. ASSUME NEW p \in Payment, TimePasses(p) PROVE TypeOK'
  BY <1>0, <1>8 DEF TypeOK, TimePasses, Elapsed, KeyState
<1>9. CASE PurgeExpired
  BY <1>0, <1>9 DEF TypeOK, PurgeExpired, KeyState
<1>10. CASE UNCHANGED vars
  BY <1>0, <1>10 DEF TypeOK, vars
<1> QED
  BY <1>1, <1>5, <1>6, <1>7, <1>8, <1>9, <1>10 DEF Next

(* A step that verifies no payment and posts nothing keeps the ledger.      *)
LEMMA LedgerKept ==
  ASSUME LedgerMatchesPayments, UNCHANGED <<transaction, balance>>,
         \A p \in Payment : payment'[p] = "completed" <=> payment[p] = "completed"
  PROVE  LedgerMatchesPayments' /\ Verified' = Verified
<1>1. Verified' = Verified
  BY DEF Verified
<1> QED BY <1>1 DEF LedgerMatchesPayments

Rest == Initializers /\ Progress /\ RowLocks /\ LedgerMatchesPayments /\ Funded

LEMMA InitializerSteps ==
  ASSUME IInv, NEW p \in Payment,
         Initialize(p) \/ InitializerDies(p) \/ PayCharge(p)
  PROVE  Rest'
<1> USE DEF IInv, TypeOK, InitStep, dbVars
<1>1. Initializers'
  BY DEF Initializers, Initialize, CheckFundable, RequestPayment, OpenCharge, StoreReference,
         ReadContract, StoreOnContract, InitializerDies, PayCharge
<1>2. /\ UNCHANGED <<transaction, balance, key, verifier>>
      /\ contract'.status = contract.status
      /\ contract'.fundedPaymentId = contract.fundedPaymentId
      /\ \A q \in Payment : payment'[q] = "completed" <=> payment[q] = "completed"
      /\ \A q \in Payment : charge[q] = "success" => charge'[q] = "success"
  BY DEF Initializers, Initialize, CheckFundable, RequestPayment, OpenCharge, StoreReference,
         ReadContract, StoreOnContract, InitializerDies, PayCharge
<1>3. LedgerMatchesPayments' /\ Verified' = Verified
  BY <1>2, LedgerKept
<1>4. Progress'
  BY <1>2 DEF Progress, At, Of, InTransaction
<1>5. RowLocks'
  <2>1. \A v \in Verifier : InTransaction(v) => Of(v) \in Payment
    BY DEF RowLocks, Progress, At, Of, Resting, InTransaction
  <2> QED BY <1>2, <2>1 DEF RowLocks, Of, InTransaction
<1>6. Funded'
  BY <1>2, <1>3 DEF Funded, FundedByPaidCharge, CompletedKeyMeansFunded, Verified
<1> QED BY <1>1, <1>3, <1>4, <1>5, <1>6 DEF Rest

(* A step of one verification that neither verifies a payment nor posts     *)
LEMMA VerifierStepKeeps ==
  ASSUME IInv, NEW v \in Verifier, NEW r, Moves(v, r),
         UNCHANGED <<payment, transaction, balance, charge, initializer>>,
         contract.status = "FUNDED" => contract'.status = "FUNDED",
         r.at = "idle" => r = Resting,
         r.at # "idle" => r.of \in Payment /\ charge[r.of] = "success",
         r.at = "paid" => r.tx # "open",
         r.at \in {"written", "completed"} => contract'.status = "FUNDED",
         r.tx = "open" => /\ payment[r.of] # "completed"
                          /\ \A w \in Verifier :
                                w # v /\ InTransaction(w) => Of(w) # r.of,
         Funded'
  PROVE  Rest'
<1> USE DEF Moves
<1>1. Initializers'
  BY DEF IInv, Initializers
<1>2. LedgerMatchesPayments'
  BY LedgerKept DEF IInv
<1>3. Progress'
  BY DEF IInv, Progress, At, Of, InTransaction
<1>4. RowLocks'
  BY DEF IInv, RowLocks, Of, InTransaction
<1> QED BY <1>1, <1>2, <1>3, <1>4 DEF Rest

(* Funded is about the contract, the charges and the completed keys.        *)
LEMMA FundedKept ==
  ASSUME Funded, UNCHANGED <<contract, payment, charge>>,
         \A p \in Payment : key'[p] \in {"completed", "aged"}
                            => \/ key[p] \in {"completed", "aged"}
                               \/ contract.status = "FUNDED"
  PROVE  Funded'
BY DEF Funded, FundedByPaidCharge, CompletedKeyMeansFunded, Verified

LEMMA VerifySteps ==
  ASSUME IInv, NEW v \in Verifier, Verify(v), ~Commit(v)
  PROVE  Rest'
<1>0. TypeOK /\ Funded
  BY DEF IInv
<1>1. /\ ~At(v, "idle")
      /\ Of(v) \in Payment /\ Of(v) \in MaybePayment /\ charge[Of(v)] = "success"
      /\ InTransaction(v) => /\ payment[Of(v)] # "completed"
                             /\ \A w \in Verifier :
                                  w # v /\ InTransaction(w) => Of(w) # Of(v)
  BY DEF IInv, Progress, RowLocks, MaybePayment, Verify, At, LockPayment, AcquireKey,
         ValidateFunded, WriteFunded, CompleteKey, Announce, ReleaseKey, Commit, CommitRefused
<1>2. ASSUME NEW s \in VerifierStep, Goto(v, s), s \notin {"idle", "paid"},
             s \in {"written", "completed"} => contract'.status = "FUNDED",
             UNCHANGED <<payment, transaction, balance, charge, initializer>>,
             contract.status = "FUNDED" => contract'.status = "FUNDED",
             Funded'
      PROVE  Rest'
  <2> DEFINE r == [at |-> s, of |-> verifier[v].of, tx |-> verifier[v].tx]
  <2>1. Moves(v, r)
    BY <1>0, <1>2, GotoMoves
  <2>2. r.at = s /\ r.of = Of(v) /\ (r.tx = "open" <=> InTransaction(v))
    BY DEF Of, InTransaction
  <2> HIDE DEF r
  <2> QED BY <1>1, <1>2, <2>1, <2>2, VerifierStepKeeps
<1>3. ASSUME Leave(v), UNCHANGED <<contract, payment, transaction, balance, charge,
                                   initializer>>,
             Funded'
      PROVE  Rest'
  <2>1. Moves(v, Resting)
    BY <1>0, <1>3, LeaveMoves
  <2> QED BY <1>3, <2>1, VerifierStepKeeps DEF Resting
<1>4. CASE LockPayment(v)
  <2>1. Funded'
    BY <1>0, <1>4, FundedKept DEF LockPayment, dbVars
  <2>2. CASE payment[Of(v)] = "completed"
    BY <1>3, <1>4, <2>1, <2>2 DEF LockPayment, dbVars
  <2>3. CASE payment[Of(v)] # "completed"
    <3> DEFINE r == [at |-> "locked", of |-> Of(v), tx |-> "open"]
    <3>1. Moves(v, r)
      BY <1>0, <1>1, <1>4, <2>3, SetMoves DEF LockPayment, VerifierStep, TxState
    <3>2. r.at = "locked" /\ r.of = Of(v) /\ r.tx = "open"
      OBVIOUS
    <3> HIDE DEF r
    <3> QED BY <1>1, <1>4, <2>1, <2>3, <3>1, <3>2, VerifierStepKeeps
            DEF LockPayment, dbVars
  <2> QED BY <2>2, <2>3
<1>5. CASE AcquireKey(v)
  <2>1. Funded'
    BY <1>0, <1>1, <1>5, FundedKept DEF AcquireKey, Acquired, TypeOK
  <2> QED BY <1>2, <1>5, <2>1 DEF AcquireKey, VerifierStep
<1>6. CASE ValidateFunded(v)
  <2>1. Funded'
    BY <1>0, <1>6, FundedKept DEF ValidateFunded, dbVars
  <2> QED BY <1>2, <1>6, <2>1 DEF ValidateFunded, VerifierStep, dbVars
<1>7. CASE WriteFunded(v)
  <2>1. /\ contract'.status = "FUNDED"
        /\ contract'.fundedPaymentId = Of(v)
    BY <1>7 DEF WriteFunded
  <2>2. Funded'
    BY <1>0, <1>1, <1>7, <2>1
       DEF WriteFunded, Funded, FundedByPaidCharge, CompletedKeyMeansFunded, Verified
  <2> QED BY <1>2, <1>7, <2>1, <2>2 DEF WriteFunded, VerifierStep
<1>8. CASE CompleteKey(v)
  <2>1. contract.status = "FUNDED"
    BY <1>8 DEF CompleteKey, IInv, Progress, At
  <2>2. Funded'
    BY <1>0, <1>8, <2>1, FundedKept DEF CompleteKey
  <2> QED BY <1>2, <1>8, <2>1, <2>2 DEF CompleteKey, VerifierStep
<1>9. CASE ReleaseKey(v)
  <2>1. Funded'
    BY <1>0, <1>1, <1>9, FundedKept DEF ReleaseKey, Released, TypeOK
  <2> QED BY <1>3, <1>9, <2>1 DEF ReleaseKey
<1>10. CASE CommitRefused(v)
  <2>1. Funded'
    BY <1>0, <1>10, FundedKept DEF CommitRefused, dbVars
  <2> QED BY <1>3, <1>10, <2>1 DEF CommitRefused, dbVars
<1>11. CASE Announce(v)
  <2>1. Funded'
    BY <1>0, <1>11, FundedKept DEF Announce, dbVars
  <2> QED BY <1>2, <1>11, <2>1 DEF Announce, VerifierStep, dbVars
<1> QED BY <1>4, <1>5, <1>6, <1>7, <1>8, <1>9, <1>10, <1>11 DEF Verify

(* The commit of a verification: the row lock makes it the first one.       *)
LEMMA CommitStep ==
  ASSUME IInv, NEW v \in Verifier, Commit(v)
  PROVE  /\ Rest'
         /\ Of(v) \notin Verified /\ charge[Of(v)] = "success"
         /\ Verified' = Verified \cup {Of(v)}
         /\ balance'.escrow = balance.escrow + Amount
<1>0. TypeOK /\ Funded /\ LedgerMatchesPayments
  BY DEF IInv
<1>1. /\ Of(v) \in Payment /\ charge[Of(v)] = "success"
      /\ payment[Of(v)] # "completed"
      /\ \A w \in Verifier : w # v /\ InTransaction(w) => Of(w) # Of(v)
  BY DEF IInv, Progress, RowLocks, At, Commit
<1>2. Of(v) \notin Verified /\ Verified \subseteq Payment
  BY <1>1 DEF Verified
<1>3. Verified' = Verified \cup {Of(v)}
  BY <1>0, <1>1 DEF Commit, Verified, TypeOK
<1>4. Of(v) \notin transaction
  BY <1>0, <1>2 DEF LedgerMatchesPayments
<1>5. /\ balance'.client = balance.client - Amount
      /\ balance'.escrow = balance.escrow + Amount
  BY <1>4 DEF Commit
<1>6. Moves(v, Resting)
  BY <1>0, LeaveMoves DEF Commit
<1>7. LedgerMatchesPayments'
  <2>1. /\ IsFiniteSet(Verified)
        /\ Cardinality(Verified') = Cardinality(Verified) + 1
        /\ Cardinality(Verified) \in Nat
    BY <1>2, <1>3, PaymentAssumption, FS_Subset, FS_AddElement, FS_CardinalityType
  <2>2. balance.client \in Int /\ balance.escrow \in Int
    BY <1>0 DEF TypeOK
  <2>3. Amount * (Cardinality(Verified) + 1) = Amount * Cardinality(Verified) + Amount
    BY <2>1, AmountAssumption
  <2>4. transaction' = Verified'
    BY <1>0, <1>3 DEF Commit, LedgerMatchesPayments
  <2>5. balance'.escrow = Amount * Cardinality(Verified')
    BY <1>0, <1>5, <2>1, <2>2, <2>3 DEF LedgerMatchesPayments
  <2>6. balance'.client + balance'.escrow = 0
    BY <1>0, <1>5, <2>2, AmountAssumption DEF LedgerMatchesPayments
  <2> QED BY <2>4, <2>5, <2>6 DEF LedgerMatchesPayments
<1>8. Initializers'
  BY <1>0, <1>1 DEF IInv, Initializers, Commit, TypeOK
<1>9. Progress'
  BY <1>6 DEF IInv, Progress, Commit, Moves, At, Of, InTransaction, Resting
<1>10. RowLocks'
  <2>1. ASSUME NEW w \in Verifier, InTransaction(w)'
        PROVE  w # v /\ InTransaction(w) /\ verifier'[w] = verifier[w]
    BY <1>6, <2>1 DEF Moves, InTransaction, Resting
  <2>2. ASSUME NEW w \in Verifier, InTransaction(w)'
        PROVE  payment'[Of(w)'] # "completed"
    <3>1. Of(w)' = Of(w) /\ Of(w) # Of(v)
      BY <1>1, <2>1, <2>2 DEF Of
    <3>2. Of(w) \in Payment /\ payment[Of(w)] # "completed"
      BY <2>1, <2>2 DEF IInv, RowLocks, Progress, At, Of, Resting, InTransaction
    <3> QED BY <1>0, <3>1, <3>2 DEF Commit, TypeOK
  <2> QED BY <2>1, <2>2 DEF IInv, RowLocks, Of
<1>11. Funded'
  BY <1>0, <1>1, <1>3
     DEF Commit, Funded, FundedByPaidCharge, CompletedKeyMeansFunded
<1> QED BY <1>1, <1>2, <1>3, <1>5, <1>7, <1>8, <1>9, <1>10, <1>11 DEF Rest

LEMMA OtherSteps ==
  ASSUME IInv, NEW v \in Verifier,
         \/ TransactionTimesOut(v) \/ StatementFails(v) \/ VerifierDies(v)
         \/ \E p \in Payment : CheckPaid(v, p)
  PROVE  Rest'
<1>0. TypeOK /\ Funded
  BY DEF IInv
<1>1. Funded'
  BY <1>0, FundedKept DEF TransactionTimesOut, StatementFails, VerifierDies, CheckPaid, dbVars
<1>2. CASE TransactionTimesOut(v)
  <2> DEFINE r == [at |-> verifier[v].at, of |-> verifier[v].of, tx |-> "rolled back"]
  <2>1. Moves(v, r)
    BY <1>0, <1>2, TimeoutMoves
  <2>2. r.at = verifier[v].at /\ r.of = Of(v) /\ r.tx = "rolled back"
    BY DEF Of
  <2>3. ~At(v, "idle")
    <3>1. verifier[v].tx = "open"
      BY <1>2 DEF TransactionTimesOut, InTransaction
    <3>2. verifier[v] # Resting
      BY <3>1 DEF Resting
    <3> QED BY <3>2 DEF IInv, Progress
  <2> HIDE DEF r
  <2> QED BY <1>1, <1>2, <2>1, <2>2, <2>3, VerifierStepKeeps
          DEF TransactionTimesOut, dbVars, IInv, Progress, At
<1>3. CASE VerifierDies(v)
  <2>1. Moves(v, Resting)
    BY <1>0, <1>3, LeaveMoves DEF VerifierDies
  <2> QED BY <1>1, <1>3, <2>1, VerifierStepKeeps DEF VerifierDies, Resting, dbVars
<1>4. ASSUME NEW p \in Payment, CheckPaid(v, p) PROVE Rest'
  <2> DEFINE r == [at |-> "paid", of |-> p, tx |-> "none"]
  <2>1. Moves(v, r)
    BY <1>0, <1>4, SetMoves DEF CheckPaid, VerifierStep, TxState, MaybePayment
  <2>2. r.at = "paid" /\ r.of = p /\ r.tx = "none"
    OBVIOUS
  <2> HIDE DEF r
  <2> QED BY <1>1, <1>4, <2>1, <2>2, VerifierStepKeeps DEF CheckPaid, dbVars
<1>5. CASE StatementFails(v)
  <2> DEFINE r == [at |-> "failing", of |-> verifier[v].of, tx |-> verifier[v].tx]
  <2>1. Moves(v, r)
    BY <1>0, <1>5, GotoMoves DEF StatementFails, VerifierStep
  <2>2. r.at = "failing" /\ r.of = Of(v) /\ (r.tx = "open" <=> InTransaction(v))
    BY DEF Of, InTransaction
  <2>3. ~At(v, "idle")
    BY <1>5 DEF StatementFails, At
  <2> HIDE DEF r
  <2> QED BY <1>1, <1>5, <2>1, <2>2, <2>3, VerifierStepKeeps
          DEF StatementFails, dbVars, IInv, Progress, RowLocks
<1> QED BY <1>2, <1>3, <1>4, <1>5

LEMMA KeySteps ==
  ASSUME IInv, PurgeExpired \/ (\E p \in Payment : TimePasses(p)) \/ UNCHANGED vars
  PROVE  Rest'
<1>0. TypeOK /\ Funded
  BY DEF IInv
<1>1. /\ UNCHANGED <<contract, payment, transaction, balance, charge, initializer,
                     verifier>>
      /\ \A p \in Payment : key'[p] \in {"completed", "aged"}
                            => key[p] \in {"completed", "aged"}
  <2>1. CASE UNCHANGED vars
    BY <2>1 DEF vars
  <2>2. CASE PurgeExpired
    BY <2>2 DEF PurgeExpired
  <2>3. ASSUME NEW p \in Payment, TimePasses(p)
        PROVE  \A q \in Payment : key'[q] \in {"completed", "aged"}
                                  => key[q] \in {"completed", "aged"}
    BY <1>0, <2>3 DEF TimePasses, Elapses, Elapsed, TypeOK
  <2>4. ASSUME NEW p \in Payment, TimePasses(p)
        PROVE  UNCHANGED <<contract, payment, transaction, balance, charge, initializer,
                           verifier>>
    BY <2>4 DEF TimePasses
  <2> QED BY <2>1, <2>2, <2>3, <2>4
<1>2. Funded'
  BY <1>0, <1>1, FundedKept
<1>3. LedgerMatchesPayments'
  BY <1>1, LedgerKept DEF IInv
<1> QED BY <1>1, <1>2, <1>3
        DEF IInv, Rest, Initializers, Progress, RowLocks, At, Of, InTransaction
-----------------------------------------------------------------------------
LEMMA IInvStep == IInv /\ [Next]_vars => IInv'
<1> SUFFICES ASSUME IInv, [Next]_vars PROVE Rest' /\ TypeOK'
  BY DEF IInv, Rest
<1>1. TypeOK'
  BY TypeStep
<1>2. Rest'
  <2>1. ASSUME NEW p \in Payment, Initialize(p) \/ InitializerDies(p) \/ PayCharge(p)
        PROVE  Rest'
    BY <2>1, InitializerSteps
  <2>2. ASSUME NEW v \in Verifier, Verify(v) PROVE Rest'
    BY <2>2, VerifySteps, CommitStep
  <2>3. ASSUME NEW v \in Verifier,
               \/ TransactionTimesOut(v) \/ StatementFails(v) \/ VerifierDies(v)
               \/ \E p \in Payment : CheckPaid(v, p)
        PROVE  Rest'
    BY <2>3, OtherSteps
  <2>4. ASSUME PurgeExpired \/ (\E p \in Payment : TimePasses(p)) \/ UNCHANGED vars
        PROVE  Rest'
    BY <2>4, KeySteps
  <2> QED BY <2>1, <2>2, <2>3, <2>4 DEF Next
<1> QED BY <1>1, <1>2

LEMMA IInvAlways == Spec => []IInv
BY InitIInv, IInvStep, PTL DEF Spec

(* The rows keep their types.                                               *)
THEOREM FundingTypes == Spec => []TypeOK
<1>1. IInv => TypeOK
  BY DEF IInv
<1> QED BY <1>1, IInvAlways, PTL

(* Whatever overlaps, dies or is rolled back in verifyPaystackPayment, the  *)
(* ledger holds the amount of every verified payment once, and its two      *)
(* accounts balance.                                                        *)
THEOREM LedgerAlwaysMatches == Spec => []LedgerMatchesPayments
<1>1. IInv => LedgerMatchesPayments
  BY DEF IInv
<1> QED BY <1>1, IInvAlways, PTL

(* Whatever overlaps or fails, a contract is FUNDED, and a payment verified, *)
(* only on account of a charge that Paystack confirmed.                     *)
THEOREM PaidBeforeFunded == Spec => []FundedByPaidCharge
<1>1. IInv => FundedByPaidCharge
  BY DEF IInv, Funded
<1> QED BY <1>1, IInvAlways, PTL

(* A verification that finds its funding key completed may return the       *)
(* contract as it is: markFunded completed the key after it moved it, and   *)
(* nothing has moved it since.                                              *)
THEOREM RefusedMeansFunded == Spec => []CompletedKeyMeansFunded
<1>1. IInv => CompletedKeyMeansFunded
  BY DEF IInv, Funded
<1> QED BY <1>1, IInvAlways, PTL

(* No step of initializeContractPayment or of a verification, however late, *)
(* takes a FUNDED contract back to another status.                          *)
THEOREM FundedNeverLeft == Spec => FundedStays
<1>1. IInv /\ [Next]_vars => [contract.status = "FUNDED" => contract'.status = "FUNDED"]_vars
  <2> SUFFICES ASSUME IInv, [Next]_vars, contract.status = "FUNDED"
               PROVE  contract'.status = "FUNDED"
    OBVIOUS
  <2>1. contract' = contract
        \/ (\E v \in Verifier : WriteFunded(v)) \/ (\E p \in Payment : StoreOnContract(p))
    BY DEF Next, vars, dbVars, Initialize, Verify, CheckFundable, RequestPayment,
           OpenCharge, StoreReference, ReadContract, InitializerDies, PayCharge,
           LockPayment, AcquireKey, ValidateFunded, CompleteKey, Announce, ReleaseKey,
           Commit, CommitRefused, TransactionTimesOut, StatementFails, VerifierDies,
           CheckPaid, TimePasses, PurgeExpired
  <2>2. ASSUME NEW v \in Verifier, WriteFunded(v) PROVE contract'.status = "FUNDED"
    BY <2>2 DEF WriteFunded
  <2>3. ASSUME NEW p \in Payment, StoreOnContract(p) PROVE contract'.status = "FUNDED"
    BY <2>3 DEF StoreOnContract, IInv, TypeOK
  <2> QED BY <2>1, <2>2, <2>3
<1> QED BY <1>1, IInvAlways, PTL DEF Spec, FundedStays

-----------------------------------------------------------------------------
(* Without faults.  A run that holds a funding key is somewhere between its *)
(* acquisition and its completion, or on its way to release it, inside a    *)
(* transaction that will commit; so a verification is never refused by a    *)
(* key that is only held, and a FUNDED contract has its payment verified or *)
(* a verification of it that has nothing left to do but to commit.          *)
Holding(p) == \E v \in Verifier :
    Of(v) = p /\ verifier[v].at \in {"acquired", "validated", "written", "failing"}

Committing(p) == \E v \in Verifier :
    Of(v) = p /\ verifier[v].at \in {"written", "completed", "marked"}

Quiet ==
    /\ \A v \in Verifier :
          /\ verifier[v].at \notin {"idle", "paid"} => InTransaction(v)
          /\ At(v, "marked") => contract.status = "FUNDED"
    /\ \A p \in Payment : key[p] # "lapsed" /\ (key[p] = "held" => Holding(p))
    /\ contract.status = "FUNDED" => \/ contract.fundedPaymentId \in Verified
                                     \/ Committing(contract.fundedPaymentId)
    /\ VerifiedIsFunded

(* A verification that moves stays a witness for its own payment as long as *)
(* its step is one that counts, and the others stay what they were.         *)
LEMMA WitnessesKept ==
  ASSUME NEW v \in Verifier, NEW r, Moves(v, r), NEW p
  PROVE  /\ Holding(p) => \/ Holding(p)'
                          \/ /\ Of(v) = p
                             /\ r.of # p \/ r.at \notin {"acquired", "validated",
                                                         "written", "failing"}
                             /\ verifier[v].at \in {"acquired", "validated", "written",
                                                    "failing"}
         /\ Committing(p) => \/ Committing(p)'
                             \/ /\ Of(v) = p
                                /\ r.of # p \/ r.at \notin {"written", "completed",
                                                            "marked"}
                                /\ verifier[v].at \in {"written", "completed", "marked"}
BY DEF Moves, Holding, Committing, Of

LEMMA QuietInitializers ==
  ASSUME IInv, Quiet, NEW p \in Payment, Initialize(p) \/ PayCharge(p)
  PROVE  Quiet'
<1>1. /\ UNCHANGED <<key, verifier>>
      /\ contract'.status = contract.status
      /\ contract'.fundedPaymentId = contract.fundedPaymentId
      /\ \A q \in Payment : payment'[q] = "completed" <=> payment[q] = "completed"
  BY DEF IInv, TypeOK, InitStep, dbVars, Initializers, Initialize, CheckFundable,
         RequestPayment, OpenCharge, StoreReference, ReadContract, StoreOnContract, PayCharge
<1>2. Verified' = Verified
  BY <1>1 DEF Verified
<1> QED BY <1>1, <1>2
        DEF Quiet, Holding, Committing, Of, At, InTransaction, VerifiedIsFunded

(* A step of one verification that leaves payments and contract alone       *)
LEMMA QuietMoves ==
  ASSUME Quiet, NEW v \in Verifier, NEW r, Moves(v, r), UNCHANGED <<contract, payment>>,
         r.at \notin {"idle", "paid"} => r.tx = "open",
         r.at = "marked" => contract.status = "FUNDED",
         verifier[v].at \in {"written", "completed", "marked"}
            => r.of = Of(v) /\ r.at \in {"written", "completed", "marked"},
         \A p \in Payment : key'[p] # "lapsed" /\ (key'[p] = "held" => Holding(p)')
  PROVE  Quiet'
<1>1. Verified' = Verified
  BY DEF Verified
<1>2. \A p : Committing(p) => Committing(p)'
  BY WitnessesKept
<1> QED BY <1>1, <1>2 DEF Quiet, Moves, At, InTransaction, VerifiedIsFunded

LEMMA QuietVerify ==
  ASSUME IInv, Quiet, NEW v \in Verifier, Verify(v)
  PROVE  Quiet'
<1>0. /\ TypeOK
      /\ ~At(v, "idle") /\ Of(v) \in Payment
      /\ verifier[v].at # "paid" => InTransaction(v)
  BY DEF IInv, Progress, Quiet, Verify, At, LockPayment, AcquireKey, ValidateFunded,
         WriteFunded, CompleteKey, Announce, ReleaseKey, Commit, CommitRefused
<1>1. ASSUME NEW s \in VerifierStep, Goto(v, s)
      PROVE  \E r : Moves(v, r) /\ r.at = s /\ r.of = Of(v)
                    /\ (r.tx = "open" <=> InTransaction(v))
  <2> DEFINE r == [at |-> s, of |-> verifier[v].of, tx |-> verifier[v].tx]
  <2>1. Moves(v, r)
    BY <1>0, <1>1, GotoMoves
  <2> QED BY <2>1 DEF Of, InTransaction
<1>2. CASE LockPayment(v)
  <2>1. PICK r : Moves(v, r) /\ (r.at \notin {"idle", "paid"} => r.tx = "open")
                 /\ r.at \in {"idle", "locked"}
    <3>1. CASE payment[Of(v)] = "completed"
      BY <1>0, <1>2, <3>1, LeaveMoves DEF LockPayment, Resting
    <3>2. CASE payment[Of(v)] # "completed"
      <4> DEFINE r == [at |-> "locked", of |-> Of(v), tx |-> "open"]
      <4>1. Moves(v, r)
        BY <1>0, <1>2, <3>2, SetMoves DEF LockPayment, VerifierStep, TxState, MaybePayment
      <4> QED BY <4>1
    <3> QED BY <3>1, <3>2
  <2>2. \A p : Holding(p) => Holding(p)'
    BY <1>2, <2>1, WitnessesKept DEF LockPayment, At
  <2> QED BY <1>2, <2>1, <2>2, QuietMoves DEF LockPayment, dbVars, At, Quiet
<1>3. CASE AcquireKey(v)
  <2>1. ASSUME Goto(v, "acquired"), key' = [key EXCEPT ![Of(v)] = Acquired] PROVE Quiet'
    <3>1. PICK r : Moves(v, r) /\ r.at = "acquired" /\ r.of = Of(v)
                   /\ (r.tx = "open" <=> InTransaction(v))
      BY <1>1, <2>1 DEF VerifierStep
    <3>2. \A p : p = Of(v) => Holding(p)'
      BY <3>1 DEF Holding, Of, Moves
    <3>3. \A p : Holding(p) => Holding(p)'
      BY <1>3, <3>1, WitnessesKept DEF AcquireKey, At
    <3>4. \A p \in Payment : key'[p] # "lapsed" /\ (key'[p] = "held" => Holding(p)')
      BY <1>0, <2>1, <3>2, <3>3 DEF Acquired, TypeOK, Quiet
    <3> QED BY <1>0, <1>3, <3>1, <3>4, QuietMoves DEF AcquireKey, At
  <2>2. ASSUME MayRefuse(key[Of(v)]), Goto(v, "marked"), UNCHANGED key PROVE Quiet'
    <3>1. PICK r : Moves(v, r) /\ r.at = "marked" /\ r.of = Of(v)
                   /\ (r.tx = "open" <=> InTransaction(v))
      BY <1>1, <2>2 DEF VerifierStep
    <3>2. ~Holding(Of(v))
      BY <1>0, <1>3 DEF Holding, AcquireKey, At, Quiet, IInv, RowLocks
    <3>3. contract.status = "FUNDED"
      BY <1>0, <2>2, <3>2
         DEF MayRefuse, KeyState, TypeOK, Quiet, IInv, Funded, CompletedKeyMeansFunded
    <3>4. \A p : Holding(p) => Holding(p)'
      BY <1>3, <3>1, WitnessesKept DEF AcquireKey, At
    <3> QED BY <1>0, <1>3, <2>2, <3>1, <3>3, <3>4, QuietMoves DEF AcquireKey, At, Quiet
  <2> QED BY <1>3, <2>1, <2>2 DEF AcquireKey
<1>4. CASE ValidateFunded(v)
  <2>1. PICK r : Moves(v, r) /\ r.at \in {"validated", "failing"} /\ r.of = Of(v)
                 /\ (r.tx = "open" <=> InTransaction(v))
    BY <1>1, <1>4 DEF ValidateFunded, VerifierStep
  <2>2. \A p : Holding(p) => Holding(p)'
    BY <2>1, WitnessesKept
  <2> QED BY <1>0, <1>4, <2>1, <2>2, QuietMoves DEF ValidateFunded, dbVars, At, Quiet
<1>5. CASE WriteFunded(v)
  <2>1. PICK r : Moves(v, r) /\ r.at = "written" /\ r.of = Of(v)
                 /\ (r.tx = "open" <=> InTransaction(v))
    BY <1>1, <1>5 DEF WriteFunded, VerifierStep
  <2>2. contract'.status = "FUNDED" /\ contract'.fundedPaymentId = Of(v)
    BY <1>5 DEF WriteFunded
  <2>3. \A p : Holding(p) => Holding(p)'
    BY <2>1, WitnessesKept
  <2>4. \A p : p = Of(v) => Committing(p)'
    BY <2>1 DEF Committing, Of, Moves
  <2>5. Committing(contract.fundedPaymentId)'
    BY <2>2, <2>4 DEF Committing, Of
  <2> QED BY <1>0, <1>5, <2>1, <2>2, <2>3, <2>5
          DEF WriteFunded, Quiet, Moves, At, InTransaction, VerifiedIsFunded
<1>6. CASE CompleteKey(v)
  <2>1. PICK r : Moves(v, r) /\ r.at = "completed" /\ r.of = Of(v)
                 /\ (r.tx = "open" <=> InTransaction(v))
    BY <1>1, <1>6 DEF CompleteKey, VerifierStep
  <2>2. \A p : p # Of(v) /\ Holding(p) => Holding(p)'
    BY <2>1, WitnessesKept
  <2>3. \A p \in Payment : key'[p] # "lapsed" /\ (key'[p] = "held" => Holding(p)')
    BY <1>0, <1>6, <2>2 DEF CompleteKey, Completed, TypeOK, Quiet
  <2> QED BY <1>0, <1>6, <2>1, <2>3, QuietMoves DEF CompleteKey, At
<1>7. CASE Announce(v)
  <2>1. PICK r : Moves(v, r) /\ r.at = "marked" /\ r.of = Of(v)
                 /\ (r.tx = "open" <=> InTransaction(v))
    BY <1>1, <1>7 DEF Announce, VerifierStep
  <2>2. \A p : Holding(p) => Holding(p)'
    BY <1>7, <2>1, WitnessesKept DEF Announce, At
  <2>3. contract.status = "FUNDED"
    BY <1>7 DEF Announce, At, IInv, Progress
  <2> QED BY <1>0, <1>7, <2>1, <2>2, <2>3, QuietMoves DEF Announce, dbVars, At, Quiet
<1>8. CASE ReleaseKey(v)
  <2>1. Moves(v, Resting)
    BY <1>0, <1>8, LeaveMoves DEF ReleaseKey
  <2>2. \A p : p # Of(v) /\ Holding(p) => Holding(p)'
    BY <2>1, WitnessesKept
  <2>3. \A p \in Payment : key'[p] # "lapsed" /\ (key'[p] = "held" => Holding(p)')
    BY <1>0, <1>8, <2>2 DEF ReleaseKey, Released, TypeOK, Quiet
  <2> QED BY <1>8, <2>1, <2>3, QuietMoves DEF ReleaseKey, At, Resting
<1>9. CASE Commit(v)
  <2>1. Moves(v, Resting)
    BY <1>0, <1>9, LeaveMoves DEF Commit
  <2>2. Verified' = Verified \cup {Of(v)} /\ UNCHANGED <<contract, key>>
    BY <1>9, CommitStep DEF Commit
  <2>3. contract.status = "FUNDED"
    BY <1>9 DEF Commit, Quiet
  <2>4. \A p : Holding(p) => Holding(p)'
    BY <1>9, <2>1, WitnessesKept DEF Commit, At
  <2>5. \A p : p # Of(v) /\ Committing(p) => Committing(p)'
    BY <2>1, WitnessesKept
  <2>6. contract.fundedPaymentId \in Verified' \/ Committing(contract.fundedPaymentId)'
    BY <2>2, <2>3, <2>5 DEF Quiet
  <2> QED BY <2>1, <2>2, <2>3, <2>4, <2>6
          DEF Quiet, Moves, At, InTransaction, VerifiedIsFunded, Resting
<1>10. CASE CommitRefused(v)
  BY <1>0, <1>10 DEF CommitRefused, At
<1> QED BY <1>2, <1>3, <1>4, <1>5, <1>6, <1>7, <1>8, <1>9, <1>10 DEF Verify

LEMMA QuietKeys ==
  ASSUME IInv, Quiet, PurgeExpired \/ (\E p \in Payment : TimePasses(p)) \/ UNCHANGED vars
  PROVE  Quiet'
<1>1. /\ UNCHANGED <<contract, payment, verifier>>
      /\ \A p \in Payment : key'[p] # key[p] => key'[p] \in {"absent", "aged"}
  <2>1. CASE UNCHANGED vars
    BY <2>1 DEF vars
  <2>2. CASE PurgeExpired
    BY <2>2 DEF PurgeExpired
  <2>3. ASSUME NEW p \in Payment, TimePasses(p)
        PROVE  /\ UNCHANGED <<contract, payment, verifier>>
               /\ \A q \in Payment : key'[q] # key[q] => key'[q] \in {"absent", "aged"}
    <3>1. key[p] # "held"
      BY <2>3 DEF TimePasses, Quiet, Holding
    <3> QED BY <2>3, <3>1 DEF TimePasses, Elapses, Elapsed, IInv, TypeOK
  <2> QED BY <2>1, <2>2, <2>3
<1> QED BY <1>1
        DEF Quiet, Holding, Committing, Of, At, InTransaction, VerifiedIsFunded, Verified

(* When no process dies and no transaction times out, what markFunded       *)
(* commits on its own connection and what the verification's transaction    *)
(* commits come out together: a FUNDED contract's payment is verified, once *)
(* nobody is at work on it, and a verified payment's contract is FUNDED.    *)
THEOREM FundedTogether ==
  ASSUME MayFail = FALSE
  PROVE  Spec => []FundedIffVerified
<1>1. Init => Quiet
  BY DEF Init, Quiet, At, Resting, VerifiedIsFunded, Verified
<1>2. IInv /\ Quiet /\ [Next]_vars => Quiet'
  <2> SUFFICES ASSUME IInv, Quiet, [Next]_vars PROVE Quiet'
    OBVIOUS
  <2>1. ASSUME NEW p \in Payment, Initialize(p) \/ InitializerDies(p) \/ PayCharge(p)
        PROVE  Quiet'
    BY <2>1, QuietInitializers DEF InitializerDies
  <2>2. ASSUME NEW v \in Verifier, Verify(v) PROVE Quiet'
    BY <2>2, QuietVerify
  <2>3. ASSUME NEW v \in Verifier,
               TransactionTimesOut(v) \/ StatementFails(v) \/ VerifierDies(v)
        PROVE  Quiet'
    BY <2>3 DEF TransactionTimesOut, StatementFails, VerifierDies
  <2>4. ASSUME NEW v \in Verifier, NEW p \in Payment, CheckPaid(v, p) PROVE Quiet'
    <3> DEFINE r == [at |-> "paid", of |-> p, tx |-> "none"]
    <3>1. Moves(v, r)
      BY <2>4, SetMoves DEF CheckPaid, VerifierStep, TxState, MaybePayment, IInv
    <3>2. r.at = "paid"
      OBVIOUS
    <3> HIDE DEF r
    <3>3. \A q : Holding(q) => Holding(q)'
      BY <2>4, <3>1, WitnessesKept DEF CheckPaid, At
    <3> QED BY <2>4, <3>1, <3>2, <3>3, QuietMoves DEF CheckPaid, dbVars, At, Quiet
  <2>5. ASSUME PurgeExpired \/ (\E p \in Payment : TimePasses(p)) \/ UNCHANGED vars
        PROVE  Quiet'
    BY <2>5, QuietKeys
  <2> QED BY <2>1, <2>2, <2>3, <2>4, <2>5 DEF Next
<1>3. Quiet => FundedIffVerified
  BY DEF Quiet, FundedIffVerified, FundedIsVerified, Committing, Working
<1> QED BY <1>1, <1>2, <1>3, IInvAlways, PTL DEF Spec

-----------------------------------------------------------------------------
(* A step that leaves the charges and the records of payments alone stutters *)
(* in FundedEscrow.                                                         *)
LEMMA Stutters ==
  ASSUME UNCHANGED <<charge, payment, balance>>
  PROVE  UNCHANGED Escrow!vars
BY DEF Escrow!vars, Verified

(* A payment records money that was paid, once, and posts it once to the    *)
(* escrow account: verification implements the abstract escrow.             *)
THEOREM Implementation == Spec => ImplementsEscrow
<1>1. Init => Escrow!Init
  BY DEF Init, Escrow!Init, Verified
<1>2. IInv /\ [Next]_vars => [Escrow!Next]_(Escrow!vars)
  <2> SUFFICES ASSUME IInv, [Next]_vars
               PROVE  Escrow!Next \/ UNCHANGED Escrow!vars
    OBVIOUS
  <2>0. TypeOK
    BY DEF IInv
  <2>1. ASSUME NEW v \in Verifier, Commit(v) PROVE Escrow!Next
    <3>1. Of(v) \in Payment
      BY <2>1 DEF IInv, Progress, At, Commit
    <3>2. Escrow!Record(Of(v))
      BY <2>1, <3>1, CommitStep DEF Escrow!Record, Commit
    <3> QED BY <3>1, <3>2 DEF Escrow!Next
  <2>2. ASSUME NEW p \in Payment, PayCharge(p) PROVE Escrow!Next
    <3>1. {q \in Payment : charge'[q] = "success"}
          = {q \in Payment : charge[q] = "success"} \cup {p}
      BY <2>0, <2>2 DEF PayCharge, TypeOK
    <3>2. p \notin {q \in Payment : charge[q] = "success"}
      BY <2>2 DEF PayCharge
    <3>3. Verified' = Verified /\ balance'.escrow = balance.escrow
      BY <2>2 DEF PayCharge, dbVars, Verified
    <3> QED BY <3>1, <3>2, <3>3 DEF Escrow!Next, Escrow!Pay
  <2>3. ASSUME NEW p \in Payment, OpenCharge(p) PROVE UNCHANGED Escrow!vars
    <3>1. payment[p] = "pending" /\ charge[p] # "success"
      BY <2>3 DEF IInv, Initializers, OpenCharge, InitStep
    <3>2. {q \in Payment : charge'[q] = "success"} = {q \in Payment : charge[q] = "success"}
      BY <2>0, <2>3, <3>1 DEF OpenCharge, TypeOK
    <3> QED BY <2>3, <3>2 DEF OpenCharge, dbVars, Escrow!vars, Verified
  <2>4. ASSUME NEW p \in Payment, RequestPayment(p) \/ StoreReference(p)
        PROVE  UNCHANGED Escrow!vars
    <3>1. payment[p] # "completed"
      BY <2>4 DEF IInv, Initializers, RequestPayment, StoreReference, InitStep
    <3>2. Verified' = Verified
      BY <2>0, <2>4, <3>1 DEF RequestPayment, StoreReference, TypeOK, Verified
    <3> QED BY <2>4, <3>2 DEF RequestPayment, StoreReference, Escrow!vars
  <2>5. CASE UNCHANGED <<charge, payment, balance>>
    BY <2>5, Stutters
  <2>6. \/ UNCHANGED <<charge, payment, balance>>
        \/ \E v \in Verifier : Commit(v)
        \/ \E p \in Payment : \/ PayCharge(p) \/ OpenCharge(p)
                              \/ RequestPayment(p) \/ StoreReference(p)
    BY DEF Next, vars, dbVars, Initialize, Verify, CheckFundable, ReadContract,
           StoreOnContract, InitializerDies, LockPayment, AcquireKey, ValidateFunded,
           WriteFunded, CompleteKey, Announce, ReleaseKey, CommitRefused,
           TransactionTimesOut, StatementFails, VerifierDies, CheckPaid, TimePasses,
           PurgeExpired
  <2> QED BY <2>1, <2>2, <2>3, <2>4, <2>5, <2>6
<1> QED BY <1>1, <1>2, IInvAlways, PTL DEF Spec, ImplementsEscrow, Escrow!Spec
=============================================================================
