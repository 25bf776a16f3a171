-------------------------- MODULE ContractsProofs --------------------------
(***************************************************************************)
(* Contracts.tla for any set of overlapping handler invocations, with       *)
(* crashes.  The three invariants are not inductive by themselves: what is  *)
(* true of the row depends on what an invocation in flight has already read *)
(* or written, which InFlight records.                                      *)
(***************************************************************************)
EXTENDS Contracts, TLAPS

Confirmed == contract.clientConfirmed /\ contract.artisanConfirmed

(* Which steps of which handlers exist, and what they can rely on.          *)
InFlight(c) ==
    /\ call[c].op = "none" => call[c].at = "idle"
    /\ call[c].op = "approve" => call[c].at \in {"acquired", "validated", "failing"}
    /\ call[c].op = "payout_failed" => call[c].at \in {"validated", "failing"}
    /\ call[c].op = "payout_failed" /\ call[c].at = "validated" => Confirmed
    /\ call[c].op \in Keyed => call[c].at # "idle"
    /\ call[c].at = "begun" => call[c].op \in Activation
    /\ call[c].at = "written" => call[c].op = "paid_out" /\ contract.escrowReleased
    /\ call[c].at = "synced"
         => /\ call[c].op \in Keyed
            /\ call[c].op = "paid_out" => contract.escrowReleased /\ job = "COMPLETED"
    /\ call[c].at = "completed" => call[c].op \in ReadsBack

Safe == /\ OneRunPerOperation
        /\ ReadyMeansBothConfirmed
        /\ CompletedMeansDone
        /\ \A c \in Caller : InFlight(c)

IInv == TypeOK /\ Safe

LEMMA InitIInv == Init => IInv
<1> SUFFICES ASSUME Init PROVE IInv
  OBVIOUS
<1>1. PICK s \in StartStatus : contract = RowIn(s)
  BY DEF Init
<1>2. s \in Status
  BY StartAssumption
<1>3. TypeOK
  BY <1>1, <1>2 DEF Init, TypeOK, RowIn, ContractRow, KeyState, NoCall, Step
<1>4. \A c \in Caller : InFlight(c)
  BY DEF Init, InFlight, NoCall, Keyed, Activation
<1> QED
  BY <1>1, <1>3, <1>4 DEF Init, IInv, Safe, RowIn, OneRunPerOperation, Runs, At, NoCall,
     Keyed, Activation, ReadyMeansBothConfirmed, CompletedMeansDone

(* What a handler writes is a row.                                          *)
LEMMA UpdatedTyped ==
    ASSUME NEW r \in ContractRow, NEW op, Target(op) \in Status
    PROVE  Updated(r, op) \in ContractRow
<1> DEFINE started == r.started \/ op \in Activation
           client  == r.clientConfirmed \/ op = "approve"
           artisan == r.artisanConfirmed \/ op = "approve"
           out     == r.escrowReleased \/ op = "paid_out"
<1>1. started \in BOOLEAN /\ client \in BOOLEAN /\ artisan \in BOOLEAN /\ out \in BOOLEAN
  OBVIOUS
<1>2. Updated(r, op) = [r EXCEPT !.status = Target(op), !.started = started,
                                 !.clientConfirmed = client, !.artisanConfirmed = artisan,
                                 !.escrowReleased = out]
  BY DEF Updated
<1> HIDE DEF started, client, artisan, out
<1> QED BY <1>1, <1>2 DEF ContractRow

LEMMA TypeStep == IInv /\ [Next]_vars => TypeOK'
<1> SUFFICES ASSUME IInv, [Next]_vars PROVE TypeOK'
  OBVIOUS
<1> USE DEF IInv, TypeOK, KeyState, NoCall, Step, Operation, Keyed, Activation,
            Goto, Enter, Leave
<1>1. ASSUME NEW c \in Caller,
             \/ \E op \in Activation : ReadFunded(c, op)
             \/ ReadApprovable(c) \/ ReadReadyForPayout(c)
      PROVE  TypeOK'
  BY <1>1 DEF ReadFunded, ReadApprovable, ReadReadyForPayout
<1>2. ASSUME NEW c \in Caller, NEW op \in Keyed, TryAcquire(c, op) PROVE TypeOK'
  BY <1>2 DEF TryAcquire, Acquired
<1>3. ASSUME NEW c \in Caller, Validate(c) PROVE TypeOK'
  BY <1>3 DEF Validate
<1>4. ASSUME NEW c \in Caller, Write(c) PROVE TypeOK'
  <2>1. Target(call[c].op) \in Status
    BY DEF Target, Status
  <2>2. contract' \in ContractRow
    <3>1. contract \in ContractRow /\ contract' = Updated(contract, call[c].op)
      BY <1>4 DEF Write
    <3> QED BY <2>1, <3>1, UpdatedTyped
  <2>3. \/ call' = [call EXCEPT ![c] = NoCall]
        \/ \E s \in Step : call' = [call EXCEPT ![c].at = s]
    BY <1>4 DEF Write
  <2>4. call' \in [Caller -> [op : Operation \cup {"none"}, at : Step]]
    BY <2>3
  <2> QED BY <1>4, <2>2, <2>4 DEF Write
<1>5. ASSUME NEW c \in Caller, SyncJob(c) \/ CompleteKey(c) \/ ReadBack(c) \/ Fail(c)
      PROVE  TypeOK'
  BY <1>5 DEF SyncJob, CompleteKey, ReadBack, Fail, Completed, Released
<1>6. ASSUME NEW isClient \in BOOLEAN, ConfirmCompletion(isClient) PROVE TypeOK'
  BY <1>6 DEF ConfirmCompletion, ContractRow, Status
<1>7. ASSUME NEW c \in Caller, Crash(c) \/ StatementFails(c) PROVE TypeOK'
  BY <1>7 DEF Crash, StatementFails
<1>8. ASSUME NEW op \in Keyed, TimePasses(op) PROVE TypeOK'
  BY <1>8 DEF TimePasses, Elapsed
<1>9. CASE PurgeExpired
  BY <1>9 DEF PurgeExpired
<1>10. CASE UNCHANGED vars
  BY <1>10 DEF vars
<1> QED
  BY <1>1, <1>2, <1>3, <1>4, <1>5, <1>6, <1>7, <1>8, <1>9, <1>10 DEF Next, Handle

-----------------------------------------------------------------------------
(* A caller that moves on to what it may rely on, while row and keys stay.  *)
LEMMA CallStep ==
  ASSUME IInv, NEW c \in Caller, NEW r, call' = [call EXCEPT ![c] = r],
         UNCHANGED <<contract, key>>, job' = job \/ job' = "COMPLETED",
         InFlight(c)',
         r.op \in Keyed /\ r.at # "begun"
            => /\ r.op = call[c].op /\ call[c].at # "begun"
               /\ r.at = "failing" \/ call[c].at \notin {"completed", "failing"}
  PROVE  Safe'
<1>1. call'[c] = r /\ \A d \in Caller : d # c => call'[d] = call[d]
  BY DEF IInv, TypeOK
<1>2. \A d \in Caller, o \in Keyed : Runs(d, o)' => Runs(d, o)
  BY <1>1 DEF Runs, At
<1>3. OneRunPerOperation'
  BY <1>1, <1>2 DEF IInv, Safe, OneRunPerOperation, Runs, At
<1>4. ReadyMeansBothConfirmed'
  BY DEF IInv, Safe, ReadyMeansBothConfirmed
<1>5. CompletedMeansDone'
  BY DEF IInv, Safe, CompletedMeansDone
<1>6. \A d \in Caller : d # c => InFlight(d)'
  BY <1>1 DEF IInv, Safe, InFlight, Confirmed
<1> QED BY <1>3, <1>4, <1>5, <1>6 DEF Safe

(* The steps that touch no key: the first reads, the validation, the job,   *)
(* and the death of a process.                                              *)
LEMMA LocalStep ==
  ASSUME IInv, NEW c \in Caller,
         \/ \E op \in Activation : ReadFunded(c, op)
         \/ ReadApprovable(c) \/ ReadReadyForPayout(c) \/ Validate(c) \/ SyncJob(c)
         \/ ReadBack(c) \/ Crash(c) \/ StatementFails(c)
  PROVE  Safe'
<1>0. /\ InFlight(c) /\ call \in [Caller -> [op : Operation \cup {"none"}, at : Step]]
      /\ contract.status = "READY_FOR_PAYOUT" => Confirmed
  BY DEF IInv, Safe, TypeOK, ReadyMeansBothConfirmed, Confirmed
<1>1. CASE ReadApprovable(c)
  <2>1. call' = [call EXCEPT ![c] = [op |-> "approve", at |-> "acquired"]]
    BY <1>1 DEF ReadApprovable, Enter
  <2>2. InFlight(c)'
    BY <1>0, <2>1 DEF InFlight, Keyed, Activation
  <2> QED BY <1>1, <2>1, <2>2, CallStep DEF ReadApprovable, Keyed, Activation
<1>2. CASE ReadReadyForPayout(c)
  <2>1. call' = [call EXCEPT ![c] = [op |-> "payout_failed", at |-> "validated"]]
    BY <1>2 DEF ReadReadyForPayout, Enter
  <2>2. InFlight(c)'
    BY <1>0, <1>2, <2>1 DEF ReadReadyForPayout, InFlight, Confirmed, Keyed, Activation
  <2> QED BY <1>2, <2>1, <2>2, CallStep DEF ReadReadyForPayout, Keyed, Activation
<1>3. ASSUME NEW op \in Activation, ReadFunded(c, op) PROVE Safe'
  <2>1. call' = [call EXCEPT ![c] = [op |-> op, at |-> "begun"]]
    BY <1>3 DEF ReadFunded, Enter
  <2>2. InFlight(c)'
    BY <1>0, <2>1 DEF InFlight, Keyed, Activation
  <2> QED BY <1>3, <2>1, <2>2, CallStep DEF ReadFunded
<1>4. ASSUME Leave(c), UNCHANGED <<contract, job, key>> PROVE Safe'
  <2>1. call' = [call EXCEPT ![c] = NoCall]
    BY <1>4 DEF Leave
  <2>2. InFlight(c)'
    BY <1>0, <2>1 DEF InFlight, NoCall, Keyed, Activation
  <2> QED BY <1>4, <2>1, <2>2, CallStep DEF NoCall, Keyed, Activation
<1>5. ASSUME NEW s \in {"validated", "failing", "synced"}, Goto(c, s),
             UNCHANGED <<contract, key>>, job' = job \/ job' = "COMPLETED",
             call[c].at \in {"acquired", "validated", "written", "synced", "completed"},
             s # "failing" => call[c].at # "completed",
             InFlight(c)'
      PROVE  Safe'
  <2>1. call' = [call EXCEPT ![c] = [call[c] EXCEPT !.at = s]]
    BY <1>0, <1>5 DEF Goto
  <2>2. [call[c] EXCEPT !.at = s] = [op |-> call[c].op, at |-> s]
    BY <1>0
  <2> QED BY <1>5, <2>1, <2>2, CallStep
<1>6. ASSUME NEW s, Goto(c, s)
      PROVE  call'[c].at = s /\ call'[c].op = call[c].op /\ call[c].op \in Operation \cup {"none"}
  BY <1>0, <1>6 DEF Goto
<1>7. CASE Validate(c)
  <2>1. /\ call[c].at = "acquired" /\ UNCHANGED <<contract, job, key>>
        /\ Goto(c, "validated") \/ Goto(c, "failing")
    BY <1>7 DEF Validate, At
  <2>2. call[c].op # "payout_failed" /\ call[c].op # "none"
    BY <1>0, <2>1 DEF InFlight
  <2>3. InFlight(c)'
    BY <1>6, <2>1, <2>2 DEF InFlight
  <2> QED BY <1>5, <2>1, <2>3
<1>8. CASE SyncJob(c)
  <2>1. /\ call[c].at = "written" /\ UNCHANGED <<contract, key>>
        /\ job' = "COMPLETED" /\ Goto(c, "synced")
    BY <1>8 DEF SyncJob, At
  <2>2. call[c].op = "paid_out" /\ contract.escrowReleased
    BY <1>0, <2>1 DEF InFlight
  <2>3. InFlight(c)'
    BY <1>6, <2>1, <2>2 DEF InFlight, Keyed
  <2> QED BY <1>5, <2>1, <2>3
<1>9. CASE ReadBack(c) \/ Crash(c)
  BY <1>4, <1>9 DEF ReadBack, Crash
<1>10. CASE StatementFails(c)
  <2>1. /\ UNCHANGED <<contract, job, key>> /\ Goto(c, "failing")
        /\ call[c].at \in {"acquired", "validated", "written", "synced", "completed"}
    BY <1>10 DEF StatementFails
  <2>2. call[c].op # "none"
    BY <1>0, <2>1 DEF InFlight
  <2>3. InFlight(c)'
    BY <1>0, <1>6, <2>1, <2>2 DEF InFlight
  <2> QED BY <1>5, <2>1, <2>3
<1> QED BY <1>1, <1>2, <1>3, <1>7, <1>8, <1>9, <1>10

LEMMA AcquireStep ==
  ASSUME IInv, NEW c \in Caller, NEW op \in Keyed, TryAcquire(c, op)
  PROVE  Safe'
<1> USE DEF IInv, TypeOK, Safe, TryAcquire
<1>1. \A d \in Caller : ~(Runs(d, op) /\ MayAcquire(key[op]))
  BY DEF OneRunPerOperation, MayAcquire
<1>2. /\ UNCHANGED <<contract, job>>
      /\ \/ /\ MayAcquire(key[op])
            /\ key' = [key EXCEPT ![op] = Acquired]
            /\ call' = [call EXCEPT ![c] = [op |-> op, at |-> "acquired"]]
         \/ /\ UNCHANGED key
            /\ call' = [call EXCEPT ![c] = NoCall]
  BY DEF Enter, Leave
<1>3. OneRunPerOperation'
  <2>1. \A d \in Caller, o \in Keyed : d # c => (Runs(d, o)' <=> Runs(d, o))
    BY <1>2 DEF Runs, At
  <2>2. \A o \in Keyed : Runs(c, o)' => o = op /\ key'[op] = "held"
    BY <1>2 DEF Runs, At, NoCall, Acquired, Keyed, Activation
  <2>3. \A o \in Keyed : key'[o] = key[o] \/ (o = op /\ MayAcquire(key[op]))
    BY <1>2
  <2>4. \A d \in Caller : d # c => call'[d] = call[d]
    BY <1>2
  <2>5. \A d \in Caller : Runs(d, op) /\ d # c => ~(Runs(c, op)')
    BY <1>1, <1>2 DEF Runs, NoCall, Keyed, Activation
  <2> QED BY <1>1, <2>1, <2>2, <2>3, <2>4, <2>5 DEF OneRunPerOperation
<1>4. ReadyMeansBothConfirmed'
  BY <1>2 DEF ReadyMeansBothConfirmed
<1>5. CompletedMeansDone'
  BY <1>2 DEF CompletedMeansDone, Acquired, Keyed
<1>6. ASSUME NEW d \in Caller PROVE InFlight(d)'
  <2>1. CASE d # c
    BY <1>2, <2>1 DEF InFlight, Confirmed
  <2>2. call'[c] = [op |-> op, at |-> "acquired"] \/ call'[c] = NoCall
    BY <1>2
  <2>3. InFlight(c)'
    BY <2>2 DEF InFlight, NoCall, Keyed, Activation
  <2> QED BY <2>1, <2>3
<1> QED BY <1>3, <1>4, <1>5, <1>6

(* The write takes effect whatever the status has become since Validate.    *)
LEMMA WriteStep ==
  ASSUME IInv, NEW c \in Caller, Write(c)
  PROVE  Safe'
<1> USE DEF IInv, TypeOK, Safe, At, Goto, Leave, NoCall
<1>1. OneRunPerOperation'
  BY DEF Write, OneRunPerOperation, Runs, Keyed, Activation, Operation
<1>2. /\ contract'.status = "READY_FOR_PAYOUT"
           => call[c].op \in {"approve", "payout_failed"}
      /\ contract.clientConfirmed => contract'.clientConfirmed
      /\ contract.artisanConfirmed => contract'.artisanConfirmed
      /\ contract.escrowReleased => contract'.escrowReleased
      /\ call[c].op = "approve" => Confirmed'
      /\ call[c].op = "paid_out" => contract'.escrowReleased
  BY DEF Write, Updated, Target, ContractRow, InFlight, Operation, Keyed, Activation, Confirmed
<1>3. ReadyMeansBothConfirmed'
  BY <1>2 DEF Write, ReadyMeansBothConfirmed, InFlight, Confirmed
<1>4. CompletedMeansDone'
  BY <1>2 DEF Write, CompletedMeansDone
<1>5. ASSUME NEW d \in Caller PROVE InFlight(d)'
  <2>1. CASE d = c
    BY <1>2, <2>1 DEF Write, InFlight, Operation, Keyed, Activation
  <2>2. CASE d # c
    BY <1>2, <2>2 DEF Write, InFlight, Confirmed
  <2> QED BY <2>1, <2>2
<1> QED BY <1>1, <1>3, <1>4, <1>5

LEMMA EndStep ==
  ASSUME IInv, NEW c \in Caller, CompleteKey(c) \/ Fail(c)
  PROVE  Safe'
<1> USE DEF IInv, TypeOK, Safe, At, Leave, Goto, NoCall
<1>1. /\ UNCHANGED <<contract, job>>
      /\ \A d \in Caller : d # c => call'[d] = call[d]
      /\ \A op \in Keyed : op # call[c].op => key'[op] = key[op]
  BY DEF CompleteKey, Fail
<1>2. /\ call[c].at # "begun"
      /\ \A op \in Keyed : Runs(c, op)'
           => /\ op = call[c].op /\ key'[op] = "completed"
              /\ call'[c].at = "completed" /\ Runs(c, op)
  <2>1. CASE Fail(c)
    BY <2>1 DEF Fail, Runs, Keyed, Activation
  <2>2. CASE CompleteKey(c)
    <3>1. call[c].op \in Keyed /\ call[c].at = "synced"
      BY <2>2 DEF CompleteKey, InFlight
    <3>2. key[call[c].op] = "held"
      BY <3>1 DEF OneRunPerOperation, Runs
    <3>3. key'[call[c].op] = "completed"
      BY <2>2, <3>1, <3>2 DEF CompleteKey, Completed
    <3> QED BY <2>2, <3>1, <3>3 DEF CompleteKey, Runs, Keyed, Activation
  <2> QED BY <2>1, <2>2
<1>3. \A op \in Keyed, d \in Caller : d # c
         => (Runs(d, op)' <=> Runs(d, op)) /\ (Runs(d, op) => op # call[c].op)
  BY <1>1, <1>2 DEF OneRunPerOperation, Runs
<1>4. OneRunPerOperation'
  BY <1>1, <1>2, <1>3 DEF OneRunPerOperation
<1>5. key'["paid_out"] \in {"completed", "aged"}
        => \/ key["paid_out"] \in {"completed", "aged"}
           \/ call[c].op = "paid_out" /\ call[c].at = "synced"
  BY <1>1 DEF CompleteKey, Fail, Released, Keyed
<1>6. CompletedMeansDone'
  BY <1>1, <1>5 DEF CompletedMeansDone, InFlight
<1>7. ReadyMeansBothConfirmed'
  BY <1>1 DEF ReadyMeansBothConfirmed
<1>8. InFlight(c)'
  <2>1. \/ call'[c] = NoCall
        \/ call'[c] = [call[c] EXCEPT !.at = "completed"] /\ call[c].op \in ReadsBack
    BY DEF CompleteKey, Fail
  <2>2. call[c] \in [op : Operation \cup {"none"}, at : Step]
    OBVIOUS
  <2>3. \/ call'[c] = NoCall
        \/ call'[c].at = "completed" /\ call'[c].op \in ReadsBack
    BY <2>1, <2>2
  <2> QED BY <2>3 DEF InFlight, ReadsBack, Keyed, Activation
<1>9. \A d \in Caller : d # c => InFlight(d)'
  BY <1>1 DEF InFlight, Confirmed
<1> QED BY <1>4, <1>6, <1>7, <1>8, <1>9

LEMMA ConfirmStep ==
  ASSUME IInv, NEW isClient \in BOOLEAN, ConfirmCompletion(isClient)
  PROVE  Safe'
<1>1. UNCHANGED <<job, key, call>>
  BY DEF ConfirmCompletion
<1>2. /\ contract.clientConfirmed => contract'.clientConfirmed
      /\ contract.artisanConfirmed => contract'.artisanConfirmed
      /\ contract'.escrowReleased = contract.escrowReleased
      /\ contract'.status = "READY_FOR_PAYOUT" => Confirmed'
  BY DEF ConfirmCompletion, IInv, TypeOK, ContractRow, Confirmed
<1>3. OneRunPerOperation'
  BY <1>1 DEF IInv, Safe, OneRunPerOperation, Runs, At
<1>4. ReadyMeansBothConfirmed' /\ CompletedMeansDone'
  BY <1>1, <1>2 DEF IInv, Safe, ReadyMeansBothConfirmed, CompletedMeansDone, Confirmed
<1>5. \A c \in Caller : InFlight(c)'
  BY <1>1, <1>2 DEF IInv, Safe, InFlight, Confirmed
<1> QED BY <1>3, <1>4, <1>5 DEF Safe

LEMMA TimeStep ==
  ASSUME IInv, PurgeExpired \/ \E op \in Keyed : TimePasses(op)
  PROVE  Safe'
<1>1. UNCHANGED <<contract, job, call>>
  BY DEF PurgeExpired, TimePasses
<1>2. ASSUME NEW o \in Keyed, NEW c \in Caller, Runs(c, o)
      PROVE  key'[o] = key[o]
  <2>1. key[o] \in {"held", "completed"}
    BY <1>2 DEF IInv, Safe, OneRunPerOperation
  <2> QED BY <1>2, <2>1 DEF PurgeExpired, Purgeable, TimePasses, Elapsed, Runs, IInv, TypeOK
<1>3. OneRunPerOperation'
  BY <1>1, <1>2 DEF IInv, Safe, OneRunPerOperation, Runs, At
<1>4. key'["paid_out"] \in {"completed", "aged"} => key["paid_out"] \in {"completed", "aged"}
  <2>1. "paid_out" \in Keyed /\ key \in [Keyed -> KeyState]
    BY DEF Keyed, IInv, TypeOK
  <2>2. \/ key'["paid_out"] \in {key["paid_out"], "absent"}
        \/ Elapses(key["paid_out"]) /\ key'["paid_out"] = Elapsed(key["paid_out"])
    BY <2>1 DEF PurgeExpired, TimePasses
  <2> QED BY <2>2 DEF Elapses, Elapsed
<1>5. CompletedMeansDone' /\ ReadyMeansBothConfirmed'
  BY <1>1, <1>4 DEF IInv, Safe, CompletedMeansDone, ReadyMeansBothConfirmed
<1>6. \A c \in Caller : InFlight(c)'
  BY <1>1 DEF IInv, Safe, InFlight, Confirmed
<1> QED BY <1>3, <1>5, <1>6 DEF Safe

LEMMA IInvStep == IInv /\ [Next]_vars => IInv'
<1> SUFFICES ASSUME IInv, [Next]_vars PROVE Safe'
  BY TypeStep DEF IInv
<1>1. CASE UNCHANGED vars
  BY <1>1 DEF vars, IInv, Safe, OneRunPerOperation, Runs, At, InFlight, Confirmed,
              ReadyMeansBothConfirmed, CompletedMeansDone
<1> QED
  BY <1>1, LocalStep, AcquireStep, WriteStep, EndStep, ConfirmStep, TimeStep
     DEF Next, Handle

LEMMA IInvAlways == Spec => []IInv
BY InitIInv, IInvStep, PTL DEF Spec

(* For any number of overlapping handlers and crashes, two runs of the same *)
(* keyed handler never overlap on the contract (IdempotencyService).        *)
THEOREM OneRunAtATime == Spec => []OneRunPerOperation
<1>1. IInv => OneRunPerOperation
  BY DEF IInv, Safe
<1> QED BY <1>1, IInvAlways, PTL

(* However the two confirmations, disputes and refunds overlap, a contract  *)
(* is READY_FOR_PAYOUT only with both confirmations in its row              *)
(* (ContractsService.confirmCompletion, handleDeliverableApproved).         *)
THEOREM ReadyWhenConfirmed == Spec => []ReadyMeansBothConfirmed
<1>1. IInv => ReadyMeansBothConfirmed
  BY DEF IInv, Safe
<1> QED BY <1>1, IInvAlways, PTL

(* A paid_out key is completed only after both writes of                    *)
(* transitionContractStatusWithClient: who is refused by it may rely on the *)
(* release and on the completed job.                                        *)
THEOREM CompletedWhenDone == Spec => []CompletedMeansDone
<1>1. IInv => CompletedMeansDone
  BY DEF IInv, Safe
<1> QED BY <1>1, IInvAlways, PTL

(* The row, the job, the keys and the calls stay within their types.        *)
THEOREM ContractTypes == Spec => []TypeOK
<1>1. IInv => TypeOK
  BY DEF IInv
<1> QED BY <1>1, IInvAlways, PTL
-----------------------------------------------------------------------------
(* Who only has to read back has completed its key.                         *)
Settled == \A c \in Caller : call[c].at = "completed" => key[call[c].op] = "completed"

Kept == IInv /\ Settled /\ NoKeyLeak

(* The steps that touch no key: nobody who runs a keyed handler leaves it,  *)
(* unless its key is completed.                                             *)
LEMMA LocalKept ==
  ASSUME Kept, ~MayCrash, NEW c \in Caller,
         \/ \E op \in Activation : ReadFunded(c, op)
         \/ ReadApprovable(c) \/ ReadReadyForPayout(c) \/ Validate(c) \/ Write(c)
         \/ SyncJob(c) \/ ReadBack(c) \/ Crash(c) \/ StatementFails(c)
  PROVE  (Settled /\ NoKeyLeak)'
<1>0. /\ InFlight(c) /\ call \in [Caller -> [op : Operation \cup {"none"}, at : Step]]
      /\ UNCHANGED key
  BY DEF Kept, IInv, Safe, TypeOK, ReadFunded, ReadApprovable, ReadReadyForPayout, Validate,
         Write, SyncJob, ReadBack, Crash, StatementFails
<1>1. ASSUME NEW o, NEW s, call' = [call EXCEPT ![c] = [op |-> o, at |-> s]],
             s # "completed",
             \A op \in Keyed : Runs(c, op) /\ key[op] = "held" => o = op /\ s # "begun"
      PROVE  (Settled /\ NoKeyLeak)'
  <2>1. call'[c] = [op |-> o, at |-> s] /\ \A d \in Caller : d # c => call'[d] = call[d]
    BY <1>0, <1>1
  <2>2. Settled'
    BY <1>0, <1>1, <2>1 DEF Kept, Settled
  <2>3. \A d \in Caller, op \in Keyed : Runs(d, op) /\ key[op] = "held" => Runs(d, op)'
    BY <1>1, <2>1 DEF Runs, At
  <2>4. NoKeyLeak'
    BY <1>0, <2>3 DEF Kept, NoKeyLeak
  <2> QED BY <2>2, <2>4
<1>2. ASSUME NEW op, NEW s \in {"begun", "acquired", "validated"}, At(c, "idle"),
             call' = [call EXCEPT ![c] = [op |-> op, at |-> s]]
      PROVE  (Settled /\ NoKeyLeak)'
  <2>1. \A o \in Keyed : ~Runs(c, o)
    BY <1>0, <1>2 DEF Runs, At, InFlight, Keyed, Activation
  <2> QED BY <1>1, <1>2, <2>1
<1>3. ASSUME NEW s \in {"validated", "written", "synced", "failing"}, Goto(c, s),
             call[c].at # "begun"
      PROVE  (Settled /\ NoKeyLeak)'
  <2>1. call' = [call EXCEPT ![c] = [call[c] EXCEPT !.at = s]]
    BY <1>0, <1>3 DEF Goto
  <2>2. [call[c] EXCEPT !.at = s] = [op |-> call[c].op, at |-> s]
    BY <1>0
  <2>3. \A op \in Keyed : Runs(c, op) => call[c].op = op
    BY DEF Runs
  <2>4. s # "completed" /\ s # "begun"
    BY <1>3
  <2> QED BY <1>1, <2>1, <2>2, <2>3, <2>4
<1>4. ASSUME Leave(c), call[c].op \notin Keyed \/ call[c].at = "completed"
      PROVE  (Settled /\ NoKeyLeak)'
  <2>1. \A op \in Keyed : Runs(c, op) => key[op] # "held"
    BY <1>4 DEF Kept, Settled, Runs, At
  <2>2. call' = [call EXCEPT ![c] = [op |-> "none", at |-> "idle"]]
    BY <1>4 DEF Leave, NoCall
  <2> QED BY <1>1, <2>1, <2>2
<1>5. CASE \E op \in Activation : ReadFunded(c, op)
  BY <1>2, <1>5 DEF ReadFunded, Enter
<1>6. CASE ReadApprovable(c) \/ ReadReadyForPayout(c)
  BY <1>2, <1>6 DEF ReadApprovable, ReadReadyForPayout, Enter
<1>7. CASE Validate(c) \/ SyncJob(c)
  BY <1>3, <1>7 DEF Validate, SyncJob, At
<1>8. CASE Write(c)
  BY <1>3, <1>4, <1>8 DEF Write, At
<1>9. CASE ReadBack(c)
  BY <1>4, <1>9 DEF ReadBack, At
<1>10. ~Crash(c) /\ ~StatementFails(c)
  BY DEF Crash, StatementFails
<1> QED BY <1>5, <1>6, <1>7, <1>8, <1>9, <1>10

LEMMA AcquireKept ==
  ASSUME Kept, NEW c \in Caller, NEW op \in Keyed, TryAcquire(c, op)
  PROVE  (Settled /\ NoKeyLeak)'
<1>1. /\ InFlight(c) /\ call \in [Caller -> [op : Operation \cup {"none"}, at : Step]]
      /\ key \in [Keyed -> KeyState]
  BY DEF Kept, IInv, Safe, TypeOK
<1>2. \A o \in Keyed : ~Runs(c, o)
  BY <1>1 DEF TryAcquire, Runs, At, InFlight, Keyed, Activation
<1>3. \A d \in Caller : d # c => call'[d] = call[d]
  BY <1>1 DEF TryAcquire, Enter, Leave
<1>4. \A d \in Caller, o \in Keyed : Runs(d, o) => Runs(d, o)'
  BY <1>2, <1>3 DEF Runs, At
<1>5. CASE key' = [key EXCEPT ![op] = "held"] /\ Enter(c, op, "acquired") /\ MayAcquire(key[op])
  <2>1. call'[c] = [op |-> op, at |-> "acquired"]
    BY <1>1, <1>5 DEF Enter
  <2>2. Runs(c, op)'
    BY <2>1 DEF Runs, At
  <2>3. \A o \in Keyed : o # op => key'[o] = key[o]
    BY <1>1, <1>5
  <2>4. NoKeyLeak'
    BY <1>4, <2>2, <2>3 DEF Kept, NoKeyLeak
  <2>5. ASSUME NEW d \in Caller, call'[d].at = "completed" PROVE key'[call'[d].op] = "completed"
    <3>1. d # c /\ call'[d] = call[d]
      BY <1>3, <2>1, <2>5
    <3>2. key[call[d].op] = "completed"
      BY <2>5, <3>1 DEF Kept, Settled
    <3>3. call[d].op # op
      BY <1>5, <3>2 DEF MayAcquire
    <3> QED BY <1>1, <1>5, <3>1, <3>2, <3>3
  <2> QED BY <2>4, <2>5 DEF Settled
<1>6. CASE UNCHANGED key /\ Leave(c)
  <2>1. call'[c].at # "completed"
    BY <1>1, <1>6 DEF Leave, NoCall
  <2>2. Settled'
    BY <1>3, <1>6, <2>1 DEF Kept, Settled
  <2>3. NoKeyLeak'
    BY <1>4, <1>6 DEF Kept, NoKeyLeak
  <2> QED BY <2>2, <2>3
<1> QED BY <1>5, <1>6 DEF TryAcquire, Acquired

LEMMA EndKept ==
  ASSUME Kept, NEW c \in Caller, CompleteKey(c) \/ Fail(c)
  PROVE  (Settled /\ NoKeyLeak)'
<1>1. /\ InFlight(c) /\ call \in [Caller -> [op : Operation \cup {"none"}, at : Step]]
      /\ key \in [Keyed -> KeyState] /\ OneRunPerOperation
  BY DEF Kept, IInv, Safe, TypeOK
<1>2. call[c].at \in {"synced", "failing"}
  BY DEF CompleteKey, Fail, At
<1>3. \A d \in Caller : d # c => call'[d] = call[d]
  BY <1>1 DEF CompleteKey, Fail, Leave, Goto
<1>4. \A o \in Keyed : o # call[c].op => key'[o] = key[o]
  BY <1>1 DEF CompleteKey, Fail
<1>5. call[c].op \in Keyed => key'[call[c].op] # "held"
  BY <1>1 DEF CompleteKey, Fail, Completed, Released
<1>6. NoKeyLeak'
  <2> SUFFICES ASSUME NEW o \in Keyed, key'[o] = "held"
               PROVE  \E d \in Caller : Runs(d, o)'
    BY DEF NoKeyLeak
  <2>1. o # call[c].op /\ key[o] = "held"
    BY <1>4, <1>5
  <2>2. PICK d \in Caller : Runs(d, o)
    BY <2>1 DEF Kept, NoKeyLeak
  <2>3. d # c
    BY <2>1, <2>2 DEF Runs
  <2> QED BY <1>3, <2>2, <2>3 DEF Runs, At
<1>7. ASSUME NEW d \in Caller, call'[d].at = "completed" PROVE key'[call'[d].op] = "completed"
  <2>1. CASE d = c
    <3>1. CompleteKey(c) /\ call[c].at = "synced" /\ call[c].op \in Keyed
      BY <1>1, <1>7, <2>1 DEF CompleteKey, Fail, Leave, NoCall, At, InFlight
    <3>2. call'[c].op = call[c].op
      BY <1>1, <1>7, <2>1, <3>1 DEF CompleteKey, Leave, Goto, NoCall
    <3>3. key[call[c].op] = "held"
      BY <1>1, <3>1 DEF OneRunPerOperation, Runs, At
    <3> QED BY <1>1, <2>1, <3>1, <3>2, <3>3 DEF CompleteKey, Completed
  <2>2. CASE d # c
    <3>1. call'[d] = call[d] /\ key[call[d].op] = "completed"
      BY <1>3, <1>7, <2>2 DEF Kept, Settled
    <3>2. call[d].op \in Keyed
      BY <1>1, <1>7, <3>1 DEF Kept, IInv, Safe, InFlight, ReadsBack, Keyed
    <3>3. Runs(d, call[d].op)
      BY <1>7, <3>1 DEF Runs, At
    <3>4. call[d].op # call[c].op
      BY <1>1, <1>2, <2>2, <3>2, <3>3 DEF OneRunPerOperation, Runs, At
    <3> QED BY <1>4, <3>1, <3>2, <3>4
  <2> QED BY <2>1, <2>2
<1> QED BY <1>6, <1>7 DEF Settled

LEMMA TimeKept ==
  ASSUME Kept, PurgeExpired \/ \E op \in Keyed : TimePasses(op)
  PROVE  (Settled /\ NoKeyLeak)'
<1>1. UNCHANGED call /\ key \in [Keyed -> KeyState] /\ \A c \in Caller : InFlight(c)
  BY DEF PurgeExpired, TimePasses, Kept, IInv, Safe, TypeOK
<1>2. \A o \in Keyed : key'[o] = "held" => key[o] = "held"
  BY <1>1 DEF PurgeExpired, TimePasses, Elapsed
<1>3. NoKeyLeak'
  BY <1>1, <1>2 DEF Kept, NoKeyLeak, Runs, At
<1>4. ASSUME NEW c \in Caller, call[c].at = "completed" PROVE key'[call[c].op] = "completed"
  <2>1. key[call[c].op] = "completed" /\ call[c].op \in Keyed
    BY <1>1, <1>4 DEF Kept, Settled, InFlight, ReadsBack, Keyed
  <2> QED BY <1>1, <1>4, <2>1 DEF PurgeExpired, Purgeable, TimePasses, At
<1> QED BY <1>1, <1>3, <1>4 DEF Settled

LEMMA KeptStep ==
  ASSUME ~MayCrash, Kept, [Next]_vars
  PROVE  Kept'
<1> SUFFICES (Settled /\ NoKeyLeak)'
  BY IInvStep DEF Kept
<1>1. CASE UNCHANGED vars
  <2>1. UNCHANGED <<call, key>>
    BY <1>1 DEF vars
  <2> QED BY <2>1 DEF Kept, Settled, NoKeyLeak, Runs, At
<1>2. ASSUME NEW isClient \in BOOLEAN, ConfirmCompletion(isClient)
      PROVE  (Settled /\ NoKeyLeak)'
  BY <1>2 DEF ConfirmCompletion, Kept, Settled, NoKeyLeak, Runs, At
<1>3. ASSUME NEW c \in Caller,
             \/ ReadApprovable(c) \/ ReadReadyForPayout(c)
             \/ \E op \in Activation : ReadFunded(c, op)
             \/ \E op \in Keyed : TryAcquire(c, op)
             \/ Handle(c) \/ Crash(c) \/ StatementFails(c)
      PROVE  (Settled /\ NoKeyLeak)'
  <2>1. CASE \E op \in Keyed : TryAcquire(c, op)
    BY <2>1, AcquireKept
  <2>2. CASE CompleteKey(c) \/ Fail(c)
    BY <2>2, EndKept
  <2>3. CASE ~(CompleteKey(c) \/ Fail(c)) /\ ~\E op \in Keyed : TryAcquire(c, op)
    BY <1>3, <2>3, LocalKept DEF Handle
  <2> QED BY <2>1, <2>2, <2>3
<1>4. CASE PurgeExpired \/ \E op \in Keyed : TimePasses(op)
  BY <1>4, TimeKept
<1> QED BY <1>1, <1>2, <1>3, <1>4 DEF Next

(* If no process dies, every way out of a handler completes or releases its *)
(* key, however many overlap: no operation is blocked for the hour of a     *)
(* lease by nobody (the try and catch blocks of ContractsService).          *)
THEOREM NoKeyIsLeaked ==
  ASSUME ~MayCrash
  PROVE  Spec => []NoKeyLeak
<1>1. Init => Kept
  <2>1. Init => Settled /\ NoKeyLeak
    BY DEF Init, Settled, NoKeyLeak, NoCall
  <2> QED BY <2>1, InitIInv DEF Kept
<1>2. Kept => NoKeyLeak
  BY DEF Kept
<1> QED BY <1>1, <1>2, KeptStep, PTL DEF Spec
-----------------------------------------------------------------------------
(* Handlers that do not overlap                                             *)
OneCaller == \A c, d \in Caller : c = d

LEMMA Table ==
  /\ \A t : ValidTransition("FUNDED", t) => t \in {"ACTIVE", "CANCELLED"}
  /\ \A t : ValidTransition("IN_PROGRESS", t)
                <=> t \in {"CLIENT_CONFIRMED", "DISPUTED", "CANCELLED"}
  /\ \A t : ValidTransition("CLIENT_CONFIRMED", t)
                <=> t \in {"READY_FOR_PAYOUT", "DISPUTED", "IN_PROGRESS"}
  /\ \A t : ValidTransition("READY_FOR_PAYOUT", t) <=> t \in {"PAID_OUT", "DISPUTED"}
<1>1. validStateTransitions["FUNDED"] = {"ACTIVE", "CANCELLED"}
  BY DEF validStateTransitions, Status
<1>2. validStateTransitions["IN_PROGRESS"] = {"CLIENT_CONFIRMED", "DISPUTED", "CANCELLED"}
  BY DEF validStateTransitions, Status
<1>3. validStateTransitions["CLIENT_CONFIRMED"] =
          {"READY_FOR_PAYOUT", "DISPUTED", "IN_PROGRESS"}
  BY DEF validStateTransitions, Status
<1>4. validStateTransitions["READY_FOR_PAYOUT"] = {"PAID_OUT", "DISPUTED"}
  BY DEF validStateTransitions, Status
<1> QED BY <1>1, <1>2, <1>3, <1>4 DEF ValidTransition

(* Whoever passed the validation may still write, whatever was confirmed    *)
(* since: a dispute is allowed from each status on the way to               *)
(* READY_FOR_PAYOUT, and an approval was validated when the client had      *)
(* confirmed.  An activation does not pass.                                 *)
Foreseen(c) ==
  /\ call[c].op \in Activation /\ call[c].at \in {"begun", "acquired"}
        => contract.status = "FUNDED"
  /\ call[c].at = "validated"
        => /\ call[c].op \notin Activation
           /\ \/ contract.status = Target(call[c].op)
              \/ ValidTransition(contract.status, Target(call[c].op))

ClientFirst == contract.status = "CLIENT_CONFIRMED" => contract.clientConfirmed

Orderly == IInv /\ ClientFirst /\ \A c \in Caller : Foreseen(c)

(* What confirmCompletion does to the status                                *)
LEMMA ConfirmMoves ==
  ASSUME Orderly, NEW isClient \in BOOLEAN, ConfirmCompletion(isClient)
  PROVE  /\ \/ contract.status = "IN_PROGRESS" /\ contract'.status = "CLIENT_CONFIRMED"
            \/ contract.status = "CLIENT_CONFIRMED" /\ contract'.status = "READY_FOR_PAYOUT"
         /\ contract'.status = "CLIENT_CONFIRMED" => contract'.clientConfirmed
         /\ UNCHANGED call
<1>1. contract \in ContractRow
  BY DEF Orderly, IInv, TypeOK
<1> DEFINE already == IF isClient THEN contract.clientConfirmed ELSE contract.artisanConfirmed
           both    == IF isClient THEN contract.artisanConfirmed ELSE contract.clientConfirmed
           next    == IF both THEN "READY_FOR_PAYOUT"
                      ELSE IF isClient THEN "CLIENT_CONFIRMED" ELSE "IN_PROGRESS"
<1>2. /\ contract.status \in {"IN_PROGRESS", "CLIENT_CONFIRMED", "READY_FOR_PAYOUT"}
      /\ ~already /\ ValidTransition(contract.status, next) /\ UNCHANGED call
      /\ contract' = [contract EXCEPT !.status = next,
                                      !.clientConfirmed = @ \/ isClient,
                                      !.artisanConfirmed = @ \/ ~isClient]
  BY DEF ConfirmCompletion
<1>3. contract'.status = next
      /\ contract'.clientConfirmed = (contract.clientConfirmed \/ isClient)
  BY <1>1, <1>2 DEF ContractRow
<1>4. contract.status = "IN_PROGRESS" => next = "CLIENT_CONFIRMED"
  BY <1>2, Table
<1>5. contract.status = "CLIENT_CONFIRMED" => next = "READY_FOR_PAYOUT"
  <2>1. contract.status = "CLIENT_CONFIRMED" => ~isClient /\ contract.clientConfirmed
    BY <1>2 DEF Orderly, ClientFirst
  <2> QED BY <2>1
<1>6. contract.status # "READY_FOR_PAYOUT"
  BY <1>2, Table
<1>7. next = "CLIENT_CONFIRMED" => isClient
  OBVIOUS
<1> HIDE DEF next, already, both
<1> QED BY <1>2, <1>3, <1>4, <1>5, <1>6, <1>7

LEMMA ConfirmOrderly ==
  ASSUME Orderly, NEW isClient \in BOOLEAN, ConfirmCompletion(isClient), NEW c \in Caller
  PROVE  Foreseen(c)'
<1>1. Foreseen(c) /\ call[c].op \in Operation \cup {"none"} /\ InFlight(c)
  BY DEF Orderly, IInv, TypeOK, Safe
<1>2. /\ \/ contract.status = "IN_PROGRESS" /\ contract'.status = "CLIENT_CONFIRMED"
         \/ contract.status = "CLIENT_CONFIRMED" /\ contract'.status = "READY_FOR_PAYOUT"
      /\ UNCHANGED call
  BY ConfirmMoves
<1>3. ~(call[c].op \in Activation /\ call[c].at \in {"begun", "acquired"})
  BY <1>1, <1>2 DEF Foreseen
<1>4. ASSUME call[c].at = "validated"
      PROVE  /\ call[c].op \notin Activation
             /\ \/ contract'.status = Target(call[c].op)
                \/ ValidTransition(contract'.status, Target(call[c].op))
  <2>1. /\ call[c].op \notin Activation /\ call[c].op # "none"
        /\ \/ contract.status = Target(call[c].op)
           \/ ValidTransition(contract.status, Target(call[c].op))
    BY <1>1, <1>4 DEF Foreseen, InFlight
  <2>2. Target(call[c].op) \in {"FUNDED", "PAID_OUT", "REFUNDED", "DISPUTED",
                                "READY_FOR_PAYOUT"}
    BY <2>1 DEF Target
  <2>3. Target(call[c].op) \in {"DISPUTED", "READY_FOR_PAYOUT"}
    BY <1>2, <2>1, <2>2, Table
  <2>4. contract.status = "IN_PROGRESS" => Target(call[c].op) = "DISPUTED"
    BY <2>1, <2>3, Table
  <2> QED BY <1>2, <2>1, <2>3, <2>4, Table
<1> QED BY <1>2, <1>3, <1>4 DEF Foreseen

(* The only handler goes on.                                                *)
LEMMA HandlerOrderly ==
  ASSUME OneCaller, Orderly, NEW c \in Caller,
         \/ ReadApprovable(c) \/ ReadReadyForPayout(c)
         \/ \E op \in Activation : ReadFunded(c, op)
         \/ \E op \in Keyed : TryAcquire(c, op)
         \/ Handle(c) \/ Crash(c) \/ StatementFails(c)
  PROVE  ClientFirst' /\ \A d \in Caller : Foreseen(d)'
<1>0. /\ Foreseen(c) /\ InFlight(c) /\ \A d \in Caller : d = c
      /\ call \in [Caller -> [op : Operation \cup {"none"}, at : Step]]
  BY DEF OneCaller, Orderly, IInv, TypeOK, Safe
<1>1. ASSUME NEW o, NEW s, call' = [call EXCEPT ![c] = [op |-> o, at |-> s]],
             UNCHANGED contract, s # "validated",
             o \in Activation /\ s \in {"begun", "acquired"} => contract.status = "FUNDED"
      PROVE  ClientFirst' /\ \A d \in Caller : Foreseen(d)'
  <2>1. call'[c] = [op |-> o, at |-> s]
    BY <1>0, <1>1
  <2>2. Foreseen(c)'
    BY <1>1, <2>1 DEF Foreseen
  <2> QED BY <1>0, <1>1, <2>2 DEF Orderly, ClientFirst
<1>2. ASSUME NEW s, Goto(c, s), UNCHANGED contract, s \notin {"begun", "acquired", "validated"}
      PROVE  ClientFirst' /\ \A d \in Caller : Foreseen(d)'
  <2>1. call' = [call EXCEPT ![c] = [call[c] EXCEPT !.at = s]]
    BY <1>0, <1>2 DEF Goto
  <2>2. [call[c] EXCEPT !.at = s] = [op |-> call[c].op, at |-> s]
    BY <1>0
  <2> QED BY <1>1, <1>2, <2>1, <2>2
<1>3. ASSUME Leave(c), UNCHANGED contract
      PROVE  ClientFirst' /\ \A d \in Caller : Foreseen(d)'
  <2>1. call' = [call EXCEPT ![c] = [op |-> "none", at |-> "idle"]]
    BY <1>3 DEF Leave, NoCall
  <2> QED BY <1>1, <1>3, <2>1
<1>4. CASE ReadApprovable(c)
  <2>1. "approve" \notin Activation
    BY DEF Activation
  <2> QED BY <1>1, <1>4, <2>1 DEF ReadApprovable, Enter
<1>5. CASE ReadReadyForPayout(c)
  <2>1. call'[c] = [op |-> "payout_failed", at |-> "validated"] /\ UNCHANGED contract
        /\ contract.status = "READY_FOR_PAYOUT"
    BY <1>0, <1>5 DEF ReadReadyForPayout, Enter
  <2>2. Foreseen(c)'
    BY <2>1 DEF Foreseen, Activation, Target
  <2> QED BY <1>0, <2>1, <2>2 DEF Orderly, ClientFirst
<1>6. ASSUME NEW op \in Activation, ReadFunded(c, op)
      PROVE  ClientFirst' /\ \A d \in Caller : Foreseen(d)'
  BY <1>1, <1>6 DEF ReadFunded, Enter
<1>7. ASSUME NEW op \in Keyed, TryAcquire(c, op)
      PROVE  ClientFirst' /\ \A d \in Caller : Foreseen(d)'
  <2>1. op \in Activation => contract.status = "FUNDED"
    BY <1>0, <1>7 DEF TryAcquire, Foreseen
  <2>2. UNCHANGED contract /\ (Enter(c, op, "acquired") \/ Leave(c))
    BY <1>7 DEF TryAcquire
  <2> QED BY <1>1, <1>3, <2>1, <2>2 DEF Enter
<1>8. CASE Validate(c)
  <2>1. CASE Goto(c, "failing")
    BY <1>2, <1>8, <2>1 DEF Validate
  <2>2. CASE Goto(c, "validated") /\ ValidTransition(contract.status, Target(call[c].op))
    <3>1. call[c].op \notin Activation
      <4>1. call[c].op \in Activation => contract.status = "FUNDED"
        BY <1>0, <1>8 DEF Validate, At, Foreseen
      <4>2. call[c].op \in Activation => Target(call[c].op) = "IN_PROGRESS"
        BY DEF Target, Activation
      <4> QED BY <2>2, <4>1, <4>2, Table
    <3>2. call'[c].op = call[c].op /\ UNCHANGED contract
      BY <1>0, <1>8, <2>2 DEF Goto, Validate
    <3>3. call'[c].at = "validated"
      BY <1>0, <2>2 DEF Goto
    <3>4. Foreseen(c)'
      BY <2>2, <3>1, <3>2, <3>3 DEF Foreseen
    <3> QED BY <1>0, <3>2, <3>4 DEF Orderly, ClientFirst
  <2> QED BY <1>8, <2>1, <2>2 DEF Validate
<1>9. CASE Write(c)
  <2>1. contract'.status = Target(call[c].op)
    BY <1>9 DEF Write, Updated, Orderly, IInv, TypeOK, ContractRow
  <2>2. contract'.status # "CLIENT_CONFIRMED"
    BY <2>1 DEF Target
  <2>3. call'[c].at \in {"written", "synced", "idle"}
    BY <1>0, <1>9 DEF Write, Goto, Leave, NoCall
  <2>4. Foreseen(c)'
    BY <2>3 DEF Foreseen
  <2> QED BY <1>0, <2>2, <2>4 DEF ClientFirst
<1>10. CASE SyncJob(c) \/ CompleteKey(c) \/ ReadBack(c) \/ Fail(c) \/ Crash(c)
            \/ StatementFails(c)
  <2>1. UNCHANGED contract
    BY <1>10 DEF SyncJob, CompleteKey, ReadBack, Fail, Crash, StatementFails
  <2>2. Leave(c) \/ Goto(c, "synced") \/ Goto(c, "completed") \/ Goto(c, "failing")
    BY <1>10 DEF SyncJob, CompleteKey, ReadBack, Fail, Crash, StatementFails
  <2> QED BY <1>2, <1>3, <2>1, <2>2
<1> QED BY <1>4, <1>5, <1>6, <1>7, <1>8, <1>9, <1>10 DEF Handle

LEMMA OrderlyStep ==
  ASSUME OneCaller, Orderly, [Next]_vars
  PROVE  Orderly'
<1> SUFFICES ClientFirst' /\ \A c \in Caller : Foreseen(c)'
  BY IInvStep DEF Orderly
<1>1. ASSUME UNCHANGED <<contract, call>>
      PROVE  ClientFirst' /\ \A c \in Caller : Foreseen(c)'
  BY <1>1 DEF Orderly, ClientFirst, Foreseen
<1>2. CASE UNCHANGED vars
  BY <1>1, <1>2 DEF vars
<1>3. ASSUME NEW isClient \in BOOLEAN, ConfirmCompletion(isClient)
      PROVE  ClientFirst' /\ \A c \in Caller : Foreseen(c)'
  BY <1>3, ConfirmMoves, ConfirmOrderly DEF ClientFirst
<1>4. CASE PurgeExpired \/ \E op \in Keyed : TimePasses(op)
  BY <1>1, <1>4 DEF PurgeExpired, TimePasses
<1> QED BY <1>2, <1>3, <1>4, HandlerOrderly DEF Next

(* Handlers that do not overlap each other take the status along            *)
(* validStateTransitions only, although they may die, and although          *)
(* confirmCompletion may come between the validation and the write of one   *)
(* (ContractsService.transitionContractStatus).                             *)
THEOREM TableFollowed ==
  ASSUME OneCaller
  PROVE  Spec => FollowsTable
<1>1. Init => Orderly
  <2> SUFFICES ASSUME Init PROVE Orderly
    OBVIOUS
  <2>1. \A c \in Caller : Foreseen(c)
    BY DEF Init, Foreseen, NoCall, Activation
  <2>2. ClientFirst
    <3>1. PICK s \in StartStatus : contract = RowIn(s)
      BY DEF Init
    <3> QED BY <3>1 DEF ClientFirst, RowIn
  <2> QED BY <2>1, <2>2, InitIInv DEF Orderly
<1>2. ASSUME Orderly, [Next]_vars
      PROVE  [contract'.status # contract.status
                 => ValidTransition(contract.status, contract'.status)]_vars
  <2> SUFFICES ASSUME contract'.status # contract.status
               PROVE  ValidTransition(contract.status, contract'.status)
    OBVIOUS
  <2>1. contract' # contract
    OBVIOUS
  <2>2. (\E c \in Caller : Write(c)) \/ \E isClient \in BOOLEAN : ConfirmCompletion(isClient)
    BY <1>2, <2>1 DEF Next, vars, Handle, ReadApprovable, ReadReadyForPayout, ReadFunded,
       TryAcquire, Validate, SyncJob, CompleteKey, ReadBack, Fail, Crash, StatementFails,
       TimePasses, PurgeExpired
  <2>3. ASSUME NEW c \in Caller, Write(c)
        PROVE  ValidTransition(contract.status, contract'.status)
    <3>1. contract'.status = Target(call[c].op)
      BY <1>2, <2>3 DEF Write, Updated, Orderly, IInv, TypeOK, ContractRow
    <3>2. Foreseen(c) /\ call[c].at = "validated"
      BY <1>2, <2>3 DEF Orderly, Write, At
    <3> QED BY <3>1, <3>2 DEF Foreseen
  <2>4. ASSUME NEW isClient \in BOOLEAN, ConfirmCompletion(isClient)
        PROVE  ValidTransition(contract.status, contract'.status)
    BY <1>2, <2>4, ConfirmMoves, Table
  <2> QED BY <2>2, <2>3, <2>4
<1> QED BY <1>1, <1>2, OrderlyStep, PTL DEF Spec, FollowsTable
=============================================================================
