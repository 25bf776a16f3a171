-------------------------- MODULE SettlementProofs --------------------------
(***************************************************************************)
(* Settlement.tla for any finite sets of payouts and refunds, any set of    *)
(* webhook deliveries, any amount and fee, with every fault.  Nothing is    *)
(* booked before Paystack moved the money because each handler came from    *)
(* what Paystack confirmed (Sound); a transfer is booked once because a     *)
(* transaction that will commit has the only lock on a row that is not      *)
(* completed (RowLocks).                                                    *)
(***************************************************************************)
EXTENDS Settlement, FiniteSetTheorems, TLAPS

(* What is assumed of the beginning: the contract was not settled.          *)
Unsettled == StartStatus \cap {"PAID_OUT", "REFUNDED"} = {}

RequestState == [at : {"idle", "cleared", "locked", "recorded", "queued", "done"},
                 by : {"party", "admin"}]
JobState == [at : {"none", "waiting", "called", "noted", "completed", "done", "dead"},
             left : 0 .. Attempts]
DeliveryStep == {"idle", "begun", "locked", "acquired", "validated", "written",
                 "completed", "marked", "failing", "refused", "ready"}
Subject == Transfer \cup {None, Processed}
TxState == {"none", "open", "rolled back"}
DeliveryState == [at : DeliveryStep, of : Subject, tx : TxState]

(* A request that did not come so far has no row, no job and no transfer;   *)
(* the charge is refunded by a job.                                         *)
Requests ==
    /\ \A x \in Settling :
          /\ request[x].at \in {"idle", "cleared", "locked"} => row[x] = "absent"
          /\ request[x].at \in {"idle", "cleared", "locked", "recorded"} => job[x].at = "none"
    /\ \A t \in Transfer : job[t].at = "none" => paystack[t] = "none"
    /\ paystack["refund"] # "none" => \E r \in Refund : job[r].at # "none"
    /\ latest \in Settling => request[latest].at \notin {"idle", "cleared", "locked"}

Confirmed(x) == \/ x \in Transfer /\ paystack[x] = "success"
                \/ x = Processed /\ paystack["refund"] = "success"

Marking == {"locked", "acquired", "validated", "written", "completed", "marked", "failing"}

(* What a handler in state r knows                                          *)
Sound(r) == /\ r.at = "begun" => r.of \in Transfer
            /\ r.at \in Marking \cup {"begun"} => Confirmed(r.of)
            /\ r.tx = "open" => /\ r.at \in Marking /\ r.of \in Transfer
                                /\ row[r.of] # "completed"

Handlers == \A d \in Delivery : Sound(delivery[d])

(* SELECT ... FOR UPDATE                                                    *)
RowLocks == \A d, e \in Delivery : InTransaction(d) /\ InTransaction(e) /\ Of(d) = Of(e) => d = e

IInv == TypeOK /\ Requests /\ Handlers /\ RowLocks /\ BookedMeansSettled

LEMMA Types ==
    ASSUME TypeOK
    PROVE  /\ request \in [Settling -> RequestState]
           /\ job \in [Settling -> JobState]
           /\ delivery \in [Delivery -> DeliveryState]
           /\ \A x \in Settling : request[x] \in RequestState /\ job[x] \in JobState
           /\ \A d \in Delivery : delivery[d] \in DeliveryState
<1>1. /\ request \in [Settling -> RequestState]
      /\ job \in [Settling -> JobState]
      /\ delivery \in [Delivery -> DeliveryState]
  BY DEF TypeOK, RequestState, JobState, DeliveryState, DeliveryStep, Subject, TxState
<1> QED BY <1>1

LEMMA InitIInv ==
    ASSUME Unsettled
    PROVE  Init => IInv
<1> SUFFICES ASSUME Init PROVE IInv
  OBVIOUS
<1>1. TypeOK
  <2>1. balance \in [client : Int, escrow : Int, artisan : Int, fee : Int]
    BY AmountAssumption DEF Init
  <2>2. /\ status \in Status /\ latest \in Refund \cup {None} /\ feeKept \subseteq Transfer
        /\ row \in [Settling -> {"absent", "pending", "completed", "failed"}]
    BY StartAssumption DEF Init
  <2>3. key \in [Key -> KeyState]
    BY DEF Init, KeyState
  <2>4. job \in [Settling -> JobState]
    BY AttemptAssumption DEF Init, JobState
  <2>5. request \in [Settling -> RequestState]
    BY DEF Init, RequestState
  <2>6. delivery \in [Delivery -> DeliveryState]
    BY DEF Init, DeliveryState, DeliveryStep, Subject, TxState, Resting
  <2>7. paystack \in [Transfer \cup {"refund"} -> {"none", "accepted", "success", "failed"}]
    BY DEF Init
  <2> QED BY <2>1, <2>2, <2>3, <2>4, <2>5, <2>6, <2>7
          DEF TypeOK, JobState, RequestState, DeliveryState, DeliveryStep, Subject, TxState
<1>2. Requests
  BY SetAssumption DEF Init, Requests, Settling
<1>3. Handlers /\ RowLocks
  BY DEF Init, Handlers, Sound, RowLocks, InTransaction, Resting, Marking
<1>4. BookedMeansSettled
  BY DEF Init, BookedMeansSettled, Booked, Settling, Unsettled
<1> QED BY <1>1, <1>2, <1>3, <1>4 DEF IInv

-----------------------------------------------------------------------------
(* A step that moves one delivery, to the state r.                          *)
Moves(d, r) == /\ r \in DeliveryState
               /\ delivery' \in [Delivery -> DeliveryState]
               /\ delivery'[d] = r
               /\ \A e \in Delivery : e # d => delivery'[e] = delivery[e]

LEMMA Replaced ==
    ASSUME TypeOK, NEW d \in Delivery, NEW r \in DeliveryState,
           delivery' = [delivery EXCEPT ![d] = r]
    PROVE  Moves(d, r)
BY Types DEF Moves

(* Records with one field replaced                                          *)
LEMMA FieldReplaced ==
    ASSUME NEW u \in DeliveryState
    PROVE  /\ \A s \in DeliveryStep :
                /\ [u EXCEPT !.at = s] = [at |-> s, of |-> u.of, tx |-> u.tx]
                /\ [u EXCEPT !.at = s] \in DeliveryState
           /\ \A t \in TxState :
                /\ [u EXCEPT !.tx = t] = [at |-> u.at, of |-> u.of, tx |-> t]
                /\ [u EXCEPT !.tx = t] \in DeliveryState
BY DEF DeliveryState

LEMMA GotoMoves ==
    ASSUME TypeOK, NEW d \in Delivery, NEW s \in DeliveryStep, Goto(d, s)
    PROVE  Moves(d, [at |-> s, of |-> delivery[d].of, tx |-> delivery[d].tx])
<1>1. delivery[d] \in DeliveryState /\ delivery \in [Delivery -> DeliveryState]
  BY Types
<1>2. /\ [delivery[d] EXCEPT !.at = s] = [at |-> s, of |-> delivery[d].of, tx |-> delivery[d].tx]
      /\ [delivery[d] EXCEPT !.at = s] \in DeliveryState
  BY <1>1, FieldReplaced
<1>3. delivery' = [delivery EXCEPT ![d] = [delivery[d] EXCEPT !.at = s]]
  BY <1>1 DEF Goto
<1>4. Moves(d, [delivery[d] EXCEPT !.at = s])
  BY <1>2, <1>3, Replaced
<1> QED BY <1>2, <1>4

LEMMA LeaveMoves ==
    ASSUME TypeOK, NEW d \in Delivery, Leave(d)
    PROVE  Moves(d, Resting)
<1>1. Resting \in DeliveryState
  BY DEF Resting, DeliveryState, DeliveryStep, Subject, TxState
<1> QED BY <1>1, Replaced DEF Leave

LEMMA SetMoves ==
    ASSUME TypeOK, NEW d \in Delivery, NEW s \in DeliveryStep,
           NEW x \in Subject, NEW t \in TxState,
           delivery' = [delivery EXCEPT ![d] = [at |-> s, of |-> x, tx |-> t]]
    PROVE  Moves(d, [at |-> s, of |-> x, tx |-> t])
<1>1. [at |-> s, of |-> x, tx |-> t] \in DeliveryState
  BY DEF DeliveryState
<1> QED BY <1>1, Replaced

(* A step of one delivery that opens no transaction keeps what all know.    *)
LEMMA HandlersKept ==
    ASSUME IInv, NEW d \in Delivery, NEW r, Moves(d, r), UNCHANGED <<row, paystack>>,
           Sound(r), r.tx = "open" => InTransaction(d) /\ r.of = Of(d)
    PROVE  Handlers' /\ RowLocks'
<1>1. \A e \in Delivery : Sound(delivery'[e])
  BY DEF IInv, Handlers, Moves
<1>2. Handlers'
  BY <1>1 DEF Handlers, Sound, Confirmed
<1>3. RowLocks'
  BY DEF IInv, RowLocks, Moves, InTransaction, Of
<1> QED BY <1>2, <1>3
-----------------------------------------------------------------------------
(* Money that Paystack moved stays moved, and nothing more is booked.       *)
Monotone ==
    /\ \A x \in Settling : row'[x] = "completed" => row[x] = "completed"
    /\ \A x \in Transfer \cup {"refund"} : paystack[x] = "success" => paystack'[x] = "success"

LEMMA BookedKept ==
    ASSUME BookedMeansSettled, Monotone,
           status' \in {status} \cup (Status \ {"PAID_OUT", "REFUNDED"})
    PROVE  BookedMeansSettled'
<1>1. Booked' \in SUBSET Booked
  BY DEF Monotone, Booked
<1> QED BY <1>1 DEF BookedMeansSettled, Monotone

LEMMA HandlersStay ==
    ASSUME IInv, Monotone, UNCHANGED delivery
    PROVE  Handlers' /\ RowLocks'
<1>1. ASSUME NEW d \in Delivery PROVE Sound(delivery[d])'
  BY DEF IInv, Handlers, Sound, Confirmed, Monotone, Settling
<1>2. Handlers'
  BY <1>1 DEF Handlers
<1> QED BY <1>2 DEF IInv, RowLocks, InTransaction, Of

(* What one step of a request does to it                                    *)
LEMMA RequestMoves ==
    ASSUME TypeOK, NEW x \in Settling, NEW from, NEW to \in {"cleared", "locked", "recorded",
                                                             "queued", "done"},
           RequestStep(x, from, to)
    PROVE  /\ request' \in [Settling -> RequestState]
           /\ request[x].at = from /\ request'[x].at = to
           /\ \A y \in Settling : y # x => request'[y] = request[y]
<1>1. /\ request \in [Settling -> RequestState] /\ request[x] \in RequestState
      /\ request' = [request EXCEPT ![x] = [request[x] EXCEPT !.at = to]]
  BY Types DEF RequestStep
<1>2. [request[x] EXCEPT !.at = to] \in RequestState /\ [request[x] EXCEPT !.at = to].at = to
  BY <1>1 DEF RequestState
<1> QED BY <1>1, <1>2 DEF RequestStep

LEMMA KeysTyped ==
    ASSUME TypeOK, NEW k \in Key
    PROVE  /\ \A s \in KeyState : [key EXCEPT ![k] = s] \in [Key -> KeyState]
           /\ key[k] \in KeyState
           /\ Acquired \in KeyState
           /\ Released(key[k]) \in KeyState
           /\ Completed(key[k]) \in KeyState
           /\ Elapsed(key[k]) \in KeyState
BY DEF TypeOK, KeyState, Acquired, Released, Completed, Elapsed

(* A lock left alone, acquired, given back or completed is still a lock.    *)
LEMMA LockTyped ==
    ASSUME TypeOK, NEW x,
           \/ key' = key
           \/ key' = [key EXCEPT ![Lock(x)] = Acquired]
           \/ key' = [key EXCEPT ![Lock(x)] = Released(key[Lock(x)])]
           \/ key' = [key EXCEPT ![Lock(x)] = Completed(key[Lock(x)])]
    PROVE  key' \in [Key -> KeyState]
<1>1. Lock(x) \in Key
  BY DEF Lock, Key
<1>2. key \in [Key -> KeyState]
  BY DEF TypeOK
<1> QED BY <1>1, <1>2, KeysTyped

(* A request, or a job, that goes on without booking or settling anything   *)
LEMMA NothingSettled ==
    ASSUME IInv, TypeOK', Requests', Monotone,
           status' \in {status} \cup (Status \ {"PAID_OUT", "REFUNDED"}),
           UNCHANGED delivery
    PROVE  IInv'
BY HandlersStay, BookedKept DEF IInv

LEMMA ClearStep ==
    ASSUME IInv, NEW x \in Settling, NEW by \in {"party", "admin"}, Clear(x, by)
    PROVE  IInv'
<1>0. TypeOK
  BY DEF IInv
<1>1. /\ request \in [Settling -> RequestState] /\ request[x].at = "idle"
      /\ [at |-> "cleared", by |-> by] \in RequestState
      /\ request' = [request EXCEPT ![x] = [at |-> "cleared", by |-> by]]
      /\ UNCHANGED <<status, settlingVars, balance, key, job, paystack, delivery>>
  BY <1>0, Types DEF Clear, RequestState
<1>2. /\ request' \in [Settling -> RequestState] /\ request'[x].at = "cleared"
      /\ \A y \in Settling : y # x => request'[y] = request[y]
  BY <1>1
<1>3. TypeOK'
  BY <1>0, <1>1, <1>2 DEF TypeOK, RequestState, settlingVars
<1>4. Requests'
  BY <1>1, <1>2 DEF IInv, Requests, settlingVars
<1>5. Monotone
  BY <1>1 DEF Monotone, settlingVars
<1> QED BY <1>1, <1>3, <1>4, <1>5, NothingSettled

LEMMA AcquireLockStep ==
    ASSUME IInv, NEW x \in Settling, AcquireLock(x)
    PROVE  IInv'
<1>0. TypeOK
  BY DEF IInv
<1>1. \E to \in {"locked", "done"} : RequestStep(x, "cleared", to)
  BY DEF AcquireLock
<1>2. PICK to \in {"locked", "done"} : RequestStep(x, "cleared", to)
  BY <1>1
<1>3. /\ request' \in [Settling -> RequestState]
      /\ request[x].at = "cleared" /\ request'[x].at = to
      /\ \A y \in Settling : y # x => request'[y] = request[y]
  BY <1>0, <1>2, RequestMoves
<1>4. key' \in [Key -> KeyState]
  <2>1. key' = key \/ key' = [key EXCEPT ![Lock(x)] = Acquired]
    BY DEF AcquireLock
  <2> QED BY <1>0, <2>1, LockTyped
<1>5. UNCHANGED <<status, settlingVars, balance, job, paystack, delivery>>
  BY DEF AcquireLock
<1>6. TypeOK'
  BY <1>0, <1>3, <1>4, <1>5 DEF TypeOK, RequestState, settlingVars
<1>7. Requests' /\ Monotone
  BY <1>3, <1>5 DEF IInv, Requests, Monotone, settlingVars
<1> QED BY <1>5, <1>6, <1>7, NothingSettled

(* The row of a request is new.                                             *)
LEMMA RecordRowStep ==
    ASSUME IInv, NEW x \in Settling, RecordRow(x)
    PROVE  IInv'
<1>0. TypeOK
  BY DEF IInv
<1>1. /\ request' \in [Settling -> RequestState]
      /\ request[x].at = "locked" /\ request'[x].at = "recorded"
      /\ \A y \in Settling : y # x => request'[y] = request[y]
  BY <1>0, RequestMoves DEF RecordRow
<1>2. /\ row' = [row EXCEPT ![x] = "pending"]
      /\ UNCHANGED <<status, balance, key, job, paystack, delivery>>
  BY DEF RecordRow
<1>3. feeKept' \subseteq Transfer /\ latest' \in Refund \cup {None}
  BY <1>0 DEF RecordRow, TypeOK
<1>4. TypeOK'
  BY <1>0, <1>1, <1>2, <1>3 DEF TypeOK, RequestState
<1>5. /\ latest' = x \/ latest' = latest
      /\ row'[x] = "pending"
      /\ \A y \in Settling : y # x => row'[y] = row[y]
  BY <1>0, <1>2 DEF RecordRow, TypeOK
<1>6. Requests'
  BY <1>1, <1>2, <1>5 DEF IInv, Requests
<1>7. Monotone
  BY <1>2, <1>5 DEF Monotone
<1> QED BY <1>2, <1>4, <1>6, <1>7, NothingSettled

(* Jobs with one field replaced, and jobs that are tried again              *)
LEMMA JobMoves ==
    ASSUME TypeOK, NEW x \in Settling,
           \/ \E s \in {"waiting", "called", "noted", "completed", "done"} :
                 job' = [job EXCEPT ![x].at = s]
           \/ Retry(x)
    PROVE  /\ job' \in [Settling -> JobState]
           /\ job'[x].at # "none"
           /\ \A y \in Settling : y # x => job'[y] = job[y]
<1>1. job \in [Settling -> JobState] /\ job[x] \in JobState
  BY Types
<1>2. ASSUME NEW u \in JobState, job' = [job EXCEPT ![x] = u], u.at # "none"
      PROVE  /\ job' \in [Settling -> JobState]
             /\ job'[x].at # "none"
             /\ \A y \in Settling : y # x => job'[y] = job[y]
  BY <1>1, <1>2
<1>3. ASSUME NEW s \in {"waiting", "called", "noted", "completed", "done"},
             job' = [job EXCEPT ![x].at = s]
      PROVE  \E u \in JobState : job' = [job EXCEPT ![x] = u] /\ u.at # "none"
  <2>1. job' = [job EXCEPT ![x] = [job[x] EXCEPT !.at = s]]
    BY <1>1, <1>3
  <2>2. [job[x] EXCEPT !.at = s] \in JobState /\ [job[x] EXCEPT !.at = s].at = s
    BY <1>1, <1>3 DEF JobState
  <2> QED BY <2>1, <2>2, <1>3
<1>4. ASSUME Retry(x)
      PROVE  \E u \in JobState : job' = [job EXCEPT ![x] = u] /\ u.at # "none"
  <2> DEFINE u == IF job[x].left > 1 THEN [at |-> "waiting", left |-> job[x].left - 1]
                                     ELSE [at |-> "dead", left |-> 0]
  <2>1. job[x].left \in 0 .. Attempts
    BY <1>1 DEF JobState
  <2>2. CASE job[x].left > 1
    <3>1. job[x].left - 1 \in 0 .. Attempts
      BY <2>1, <2>2, AttemptAssumption
    <3>2. u = [at |-> "waiting", left |-> job[x].left - 1]
      BY <2>2
    <3>3. u \in JobState /\ u.at # "none"
      BY <3>1, <3>2 DEF JobState
    <3> QED BY <3>3, <1>1, <1>4 DEF Retry
  <2>3. CASE ~(job[x].left > 1)
    <3>1. 0 \in 0 .. Attempts
      BY AttemptAssumption
    <3>2. u = [at |-> "dead", left |-> 0]
      BY <2>3
    <3>3. u \in JobState /\ u.at # "none"
      BY <3>1, <3>2 DEF JobState
    <3> QED BY <3>3, <1>1, <1>4 DEF Retry
  <2> QED BY <2>2, <2>3
<1> QED BY <1>2, <1>3, <1>4

LEMMA EnqueueStep ==
    ASSUME IInv, NEW x \in Settling, Enqueue(x)
    PROVE  IInv'
<1>0. TypeOK
  BY DEF IInv
<1>1. \E to \in {"queued", "done"} : RequestStep(x, "recorded", to)
  BY DEF Enqueue
<1>2. PICK to \in {"queued", "done"} : RequestStep(x, "recorded", to)
  BY <1>1
<1>3. /\ request' \in [Settling -> RequestState]
      /\ request[x].at = "recorded" /\ request'[x].at = to
      /\ \A y \in Settling : y # x => request'[y] = request[y]
  BY <1>0, <1>2, RequestMoves
<1>4. /\ job' \in [Settling -> JobState] /\ job'[x].at # "none"
      /\ \A y \in Settling : y # x => job'[y] = job[y]
  BY <1>0, JobMoves DEF Enqueue
<1>5. UNCHANGED <<status, settlingVars, balance, key, paystack, delivery>>
  BY DEF Enqueue
<1>6. TypeOK'
  BY <1>0, <1>3, <1>4, <1>5 DEF TypeOK, RequestState, JobState, settlingVars
<1>7. Requests' /\ Monotone
  BY <1>3, <1>4, <1>5 DEF IInv, Requests, Monotone, settlingVars, Settling
<1> QED BY <1>5, <1>6, <1>7, NothingSettled

(* RequestFails, RequestDies and Finish end a request.                      *)
LEMMA RequestEnds ==
    ASSUME IInv, NEW x \in Settling,
           RequestFails(x) \/ RequestDies(x) \/ (x \in Transfer /\ Finish(x))
    PROVE  IInv'
<1>0. TypeOK
  BY DEF IInv
<1>1. \E from : RequestStep(x, from, "done")
  BY DEF RequestFails, RequestDies, Finish, RequestStep
<1>2. PICK from : RequestStep(x, from, "done")
  BY <1>1
<1>3. /\ request' \in [Settling -> RequestState] /\ request'[x].at = "done"
      /\ \A y \in Settling : y # x => request'[y] = request[y]
  BY <1>0, <1>2, RequestMoves
<1>4. key' \in [Key -> KeyState]
  <2>1. key' = key \/ key' = [key EXCEPT ![Lock(x)] = Released(key[Lock(x)])]
    BY DEF RequestFails, RequestDies, Finish
  <2> QED BY <1>0, <2>1, LockTyped
<1>5. UNCHANGED <<status, balance, job, paystack, delivery>>
  BY DEF RequestFails, RequestDies, Finish, settlingVars
<1>6. row' = row \/ row' = [row EXCEPT ![x] = "failed"]
  BY DEF RequestFails, RequestDies, Finish, settlingVars
<1>7. feeKept' \subseteq Transfer /\ latest' = latest
  BY <1>0 DEF RequestFails, RequestDies, Finish, settlingVars, TypeOK
<1>8. row' \in [Settling -> {"absent", "pending", "completed", "failed"}]
  BY <1>0, <1>6 DEF TypeOK
<1>9. TypeOK'
  BY <1>0, <1>3, <1>4, <1>5, <1>7, <1>8 DEF TypeOK, RequestState
<1>10. \A y \in Settling : row'[y] = row[y] \/ (y = x /\ row'[y] = "failed")
  BY <1>0, <1>6 DEF TypeOK
<1>11. Requests' /\ Monotone
  BY <1>3, <1>5, <1>7, <1>10 DEF IInv, Requests, Monotone
<1> QED BY <1>5, <1>9, <1>11, NothingSettled

-----------------------------------------------------------------------------
(* The worker and Paystack                                                  *)
LEMMA JobKeeps ==
    ASSUME IInv, NEW x \in Settling, job' \in [Settling -> JobState],
           job[x].at # "none", job'[x].at # "none",
           \A y \in Settling : y # x => job'[y] = job[y],
           key' \in [Key -> KeyState],
           \/ paystack' = paystack
           \/ /\ x \in Transfer
              /\ paystack' = [paystack EXCEPT ![x] = IF @ = "none" THEN "accepted" ELSE @]
           \/ /\ x \in Refund /\ paystack["refund"] = "none"
              /\ paystack' = [paystack EXCEPT !["refund"] = "accepted"],
           UNCHANGED <<status, settlingVars, balance, request, delivery>>
    PROVE  IInv'
<1>0. TypeOK
  BY DEF IInv
<1>1. /\ paystack' \in [Transfer \cup {"refund"} -> {"none", "accepted", "success", "failed"}]
      /\ \A y \in Transfer \cup {"refund"} :
            \/ paystack'[y] = paystack[y]
            \/ paystack[y] = "none" /\ paystack'[y] = "accepted"
               /\ (y = x \/ (y = "refund" /\ x \in Refund))
  <2>1. paystack \in [Transfer \cup {"refund"} -> {"none", "accepted", "success", "failed"}]
    BY <1>0 DEF TypeOK
  <2>2. CASE paystack' = paystack
    BY <2>1, <2>2
  <2>3. CASE /\ x \in Transfer
             /\ paystack' = [paystack EXCEPT ![x] = IF @ = "none" THEN "accepted" ELSE @]
    BY <2>1, <2>3
  <2>4. CASE /\ x \in Refund /\ paystack["refund"] = "none"
             /\ paystack' = [paystack EXCEPT !["refund"] = "accepted"]
    BY <2>1, <2>4
  <2> QED BY <2>2, <2>3, <2>4
<1>2. TypeOK'
  BY <1>0, <1>1 DEF TypeOK, JobState, settlingVars
<1>3. Requests'
  <2>1. \A y \in Settling : job'[y].at = "none" => job[y].at = "none" /\ y # x
    OBVIOUS
  <2>2. \A y \in Settling : job[y].at = "none" => job'[y].at = "none"
    OBVIOUS
  <2>3. ASSUME NEW y \in Settling
        PROVE  /\ request'[y].at \in {"idle", "cleared", "locked"} => row'[y] = "absent"
               /\ request'[y].at \in {"idle", "cleared", "locked", "recorded"}
                     => job'[y].at = "none"
    BY <2>2 DEF IInv, Requests, settlingVars
  <2>4. ASSUME NEW t \in Transfer, job'[t].at = "none" PROVE paystack'[t] = "none"
    BY <1>1, <2>1, <2>4, SetAssumption DEF IInv, Requests, Settling
  <2>5. ASSUME paystack'["refund"] # "none" PROVE \E r \in Refund : job'[r].at # "none"
    BY <1>1, <2>1, <2>5, SetAssumption DEF IInv, Requests, Settling
  <2>6. latest' \in Settling => request'[latest'].at \notin {"idle", "cleared", "locked"}
    BY DEF IInv, Requests, settlingVars
  <2> QED BY <2>3, <2>4, <2>5, <2>6 DEF Requests
<1>4. Monotone
  BY <1>1 DEF Monotone, settlingVars
<1> QED BY <1>2, <1>3, <1>4, NothingSettled

LEMMA JobSteps ==
    ASSUME IInv, NEW x \in Settling, Work(x) \/ JobFails(x)
    PROVE  IInv'
<1>0. TypeOK
  BY DEF IInv
<1>1. job[x].at # "none"
  BY DEF Work, JobFails, CallTransfer, CallRefund, NoteRefund, CompleteLock, FinishJob,
         JobStep, Unfinished
<1>2. \/ \E s \in {"waiting", "called", "noted", "completed", "done"} :
            job' = [job EXCEPT ![x].at = s]
      \/ Retry(x)
  BY DEF Work, JobFails, CallTransfer, CallRefund, NoteRefund, CompleteLock, FinishJob, JobStep
<1>3. /\ job' \in [Settling -> JobState] /\ job'[x].at # "none"
      /\ \A y \in Settling : y # x => job'[y] = job[y]
  BY <1>0, <1>2, JobMoves
<1>4. key' \in [Key -> KeyState]
  <2>1. key' = key \/ key' = [key EXCEPT ![Lock(x)] = Completed(key[Lock(x)])]
    BY DEF Work, JobFails, CallTransfer, CallRefund, NoteRefund, CompleteLock, FinishJob
  <2> QED BY <1>0, <2>1, LockTyped
<1>5. \/ paystack' = paystack
      \/ /\ x \in Transfer
         /\ paystack' = [paystack EXCEPT ![x] = IF @ = "none" THEN "accepted" ELSE @]
      \/ /\ x \in Refund /\ paystack["refund"] = "none"
         /\ paystack' = [paystack EXCEPT !["refund"] = "accepted"]
  BY DEF Work, JobFails, CallTransfer, CallRefund, NoteRefund, CompleteLock, FinishJob
<1>6. UNCHANGED <<status, settlingVars, balance, request, delivery>>
  BY DEF Work, JobFails, CallTransfer, CallRefund, NoteRefund, CompleteLock, FinishJob
<1> QED BY <1>1, <1>3, <1>4, <1>5, <1>6, JobKeeps

LEMMA PaystackSteps ==
    ASSUME IInv, EndRefund \/ \E t \in Transfer : EndTransfer(t)
    PROVE  IInv'
<1>0. TypeOK
  BY DEF IInv
<1>1. /\ paystack' \in [Transfer \cup {"refund"} -> {"none", "accepted", "success", "failed"}]
      /\ \A y \in Transfer \cup {"refund"} :
            paystack'[y] = paystack[y] \/ paystack[y] = "accepted"
      /\ \A y \in Transfer \cup {"refund"} : paystack'[y] = "none" <=> paystack[y] = "none"
      /\ UNCHANGED <<status, settlingVars, balance, key, request, job, delivery>>
  <2>1. paystack \in [Transfer \cup {"refund"} -> {"none", "accepted", "success", "failed"}]
    BY <1>0 DEF TypeOK
  <2>2. ASSUME NEW x \in Transfer \cup {"refund"}, NEW end \in {"success", "failed"},
               paystack[x] = "accepted", paystack' = [paystack EXCEPT ![x] = end]
        PROVE  /\ paystack' \in [Transfer \cup {"refund"} ->
                                    {"none", "accepted", "success", "failed"}]
               /\ \A y \in Transfer \cup {"refund"} :
                     paystack'[y] = paystack[y] \/ paystack[y] = "accepted"
               /\ \A y \in Transfer \cup {"refund"} :
                     paystack'[y] = "none" <=> paystack[y] = "none"
    BY <2>1, <2>2
  <2>3. \E x \in Transfer \cup {"refund"}, end \in {"success", "failed"} :
            paystack[x] = "accepted" /\ paystack' = [paystack EXCEPT ![x] = end]
    BY DEF EndRefund, EndTransfer
  <2>4. UNCHANGED <<status, settlingVars, balance, key, request, job, delivery>>
    BY DEF EndRefund, EndTransfer
  <2> QED BY <2>2, <2>3, <2>4
<1>2. TypeOK'
  BY <1>0, <1>1 DEF TypeOK, settlingVars
<1>3. Requests' /\ Monotone
  BY <1>1 DEF IInv, Requests, Monotone, settlingVars
<1> QED BY <1>1, <1>2, <1>3, NothingSettled

(* A dispute, time and the purge                                            *)
LEMMA OtherSteps ==
    ASSUME IInv,
           \/ RaiseDispute \/ (\E k \in Key : TimePasses(k)) \/ PurgeExpired \/ UNCHANGED vars
    PROVE  IInv'
<1>0. TypeOK
  BY DEF IInv
<1>1. UNCHANGED <<settlingVars, balance, request, job, paystack, delivery>>
  BY DEF RaiseDispute, TimePasses, PurgeExpired, vars, settlingVars
<1>2. status' = status \/ status' = "DISPUTED"
  BY DEF RaiseDispute, TimePasses, PurgeExpired, vars
<1>3. key' \in [Key -> KeyState]
  <2>1. CASE PurgeExpired
    BY <1>0, <2>1 DEF PurgeExpired, TypeOK, KeyState
  <2>2. ASSUME NEW k \in Key, TimePasses(k) PROVE key' \in [Key -> KeyState]
    BY <1>0, <2>2, KeysTyped DEF TimePasses
  <2>3. CASE key' = key
    BY <1>0, <2>3 DEF TypeOK
  <2> QED BY <2>1, <2>2, <2>3 DEF RaiseDispute, vars
<1>4. TypeOK'
  BY <1>0, <1>1, <1>2, <1>3 DEF TypeOK, settlingVars, Status
<1>5. Requests' /\ Monotone
  BY <1>1 DEF IInv, Requests, Monotone, settlingVars
<1>6. status' \in {status} \cup (Status \ {"PAID_OUT", "REFUNDED"})
  BY <1>2 DEF Status
<1> QED BY <1>1, <1>4, <1>5, <1>6, NothingSettled

-----------------------------------------------------------------------------
(* The webhook                                                              *)

(* A delivery that goes on without booking anything                         *)
LEMMA DeliveryKeeps ==
    ASSUME IInv, NEW d \in Delivery, NEW r, Moves(d, r), Sound(r),
           r.tx = "open" => InTransaction(d) /\ r.of = Of(d),
           key' \in [Key -> KeyState],
           status' \in {status} \cup (Status \ {"PAID_OUT", "REFUNDED"}),
           UNCHANGED <<settlingVars, balance, request, job, paystack>>
    PROVE  IInv'
<1>0. TypeOK
  BY DEF IInv
<1>1. TypeOK'
  <2>1. delivery' \in [Delivery ->
            [at : {"idle", "begun", "locked", "acquired", "validated", "written",
                   "completed", "marked", "failing", "refused", "ready"},
             of : Transfer \cup {None, Processed},
             tx : {"none", "open", "rolled back"}]]
    BY DEF Moves, DeliveryState, DeliveryStep, Subject, TxState
  <2>2. status' \in Status
    BY <1>0 DEF TypeOK
  <2>3. UNCHANGED <<row, latest, feeKept, balance, request, job, paystack>>
    BY DEF settlingVars
  <2>4. /\ row' \in [Settling -> {"absent", "pending", "completed", "failed"}]
        /\ feeKept' \subseteq Transfer
        /\ latest' \in Refund \cup {None}
        /\ balance' \in [client : Int, escrow : Int, artisan : Int, fee : Int]
    BY <1>0, <2>3 DEF TypeOK
  <2>5. /\ request' \in [Settling -> [at : {"idle", "cleared", "locked", "recorded",
                                           "queued", "done"},
                                     by : {"party", "admin"}]]
        /\ job' \in [Settling -> [at : {"none", "waiting", "called", "noted", "completed",
                                       "done", "dead"},
                                 left : 0 .. Attempts]]
        /\ paystack' \in [Transfer \cup {"refund"} ->
                              {"none", "accepted", "success", "failed"}]
    BY <1>0, <2>3 DEF TypeOK
  <2> QED BY <2>1, <2>2, <2>4, <2>5, Zenon DEF TypeOK
<1>2. Requests' /\ Monotone
  BY DEF IInv, Requests, Monotone, settlingVars
<1>3. Handlers' /\ RowLocks'
  BY HandlersKept DEF settlingVars
<1>4. BookedMeansSettled'
  BY <1>2, BookedKept DEF IInv
<1> QED BY <1>1, <1>2, <1>3, <1>4 DEF IInv

LEMMA DeliveryLeaves ==
    ASSUME IInv, NEW d \in Delivery, Leave(d),
           key' \in [Key -> KeyState],
           status' \in {status} \cup (Status \ {"PAID_OUT", "REFUNDED"}),
           UNCHANGED <<settlingVars, balance, request, job, paystack>>
    PROVE  IInv'
<1>1. Moves(d, Resting)
  BY LeaveMoves DEF IInv
<1>2. Sound(Resting) /\ Resting.tx # "open"
  BY DEF Sound, Resting, Marking
<1> QED BY <1>1, <1>2, DeliveryKeeps

LEMMA MarkingGoesOn ==
    ASSUME IInv, NEW d \in Delivery, NEW s \in DeliveryStep, Goto(d, s),
           \/ delivery[d].at \in Marking /\ s \in Marking
           \/ delivery[d].at = "refused" /\ s = "ready",
           key' \in [Key -> KeyState], status' = status,
           UNCHANGED <<settlingVars, balance, request, job, paystack>>
    PROVE  IInv'
<1> DEFINE r == [at |-> s, of |-> delivery[d].of, tx |-> delivery[d].tx]
<1>1. Moves(d, r)
  BY GotoMoves DEF IInv
<1>2. Sound(delivery[d])
  BY DEF IInv, Handlers
<1>3. Sound(r)
  BY <1>2 DEF Sound, Marking
<1>4. r.tx = "open" => InTransaction(d) /\ r.of = Of(d)
  BY DEF InTransaction, Of
<1> HIDE DEF r
<1> QED BY <1>1, <1>3, <1>4, DeliveryKeeps

LEMMA MarkKeys ==
    ASSUME TypeOK, NEW d \in Delivery
    PROVE  /\ [key EXCEPT ![MarkKey(d)] = Acquired] \in [Key -> KeyState]
           /\ [key EXCEPT ![MarkKey(d)] = Completed(@)] \in [Key -> KeyState]
           /\ [key EXCEPT ![MarkKey(d)] = Released(@)] \in [Key -> KeyState]
           /\ key \in [Key -> KeyState]
<1>1. MarkKey(d) \in Key /\ key \in [Key -> KeyState]
  BY DEF MarkKey, Key, TypeOK
<1> QED BY <1>1, KeysTyped

(* What PaystackWebhookService does around markPaidOut and markRefunded     *)
LEMMA MarkSteps ==
    ASSUME IInv, NEW d \in Delivery,
           \/ AcquireMark(d) \/ ValidateMark(d) \/ CompleteMark(d) \/ ReleaseMark(d)
           \/ StatementFails(d) \/ Return(d)
    PROVE  IInv'
<1>0. TypeOK
  BY DEF IInv
<1>1. CASE AcquireMark(d)
  <2>1. \E s \in {"acquired", "marked"} : Goto(d, s)
    BY <1>1 DEF AcquireMark
  <2>2. /\ key' \in [Key -> KeyState] /\ delivery[d].at = "locked"
        /\ UNCHANGED <<status, settlingVars, balance, request, job, paystack>>
    BY <1>0, <1>1, MarkKeys DEF AcquireMark, At
  <2> QED BY <2>1, <2>2, MarkingGoesOn DEF Marking, DeliveryStep
<1>2. CASE ValidateMark(d)
  <2>1. \E s \in {"validated", "failing"} : Goto(d, s)
    BY <1>2 DEF ValidateMark
  <2>2. /\ key' \in [Key -> KeyState] /\ delivery[d].at = "acquired"
        /\ UNCHANGED <<status, settlingVars, balance, request, job, paystack>>
    BY <1>0, <1>2, MarkKeys DEF ValidateMark, At
  <2> QED BY <2>1, <2>2, MarkingGoesOn DEF Marking, DeliveryStep
<1>3. CASE CompleteMark(d)
  <2>1. /\ key' \in [Key -> KeyState] /\ delivery[d].at = "written" /\ Goto(d, "marked")
        /\ UNCHANGED <<status, settlingVars, balance, request, job, paystack>>
    BY <1>0, <1>3, MarkKeys DEF CompleteMark, At
  <2> QED BY <2>1, MarkingGoesOn DEF Marking, DeliveryStep
<1>4. CASE ReleaseMark(d)
  <2>1. /\ key' \in [Key -> KeyState] /\ Leave(d)
        /\ UNCHANGED <<status, settlingVars, balance, request, job, paystack>>
    BY <1>0, <1>4, MarkKeys DEF ReleaseMark
  <2> QED BY <2>1, DeliveryLeaves
<1>5. CASE StatementFails(d)
  <2>1. /\ key' \in [Key -> KeyState] /\ delivery[d].at \in Marking /\ Goto(d, "failing")
        /\ UNCHANGED <<status, settlingVars, balance, request, job, paystack>>
    BY <1>0, <1>5, MarkKeys DEF StatementFails, Marking
  <2> QED BY <2>1, MarkingGoesOn DEF Marking, DeliveryStep
<1>6. CASE Return(d)
  <2>1. /\ key' \in [Key -> KeyState] /\ Leave(d)
        /\ UNCHANGED <<status, settlingVars, balance, request, job, paystack>>
    BY <1>0, <1>6, MarkKeys DEF Return
  <2> QED BY <2>1, DeliveryLeaves
<1> QED BY <1>1, <1>2, <1>3, <1>4, <1>5, <1>6

(* The contract is marked as Paystack confirmed.                            *)
LEMMA WriteMarkStep ==
    ASSUME IInv, NEW d \in Delivery, WriteMark(d)
    PROVE  IInv'
<1>0. TypeOK
  BY DEF IInv
<1>1. /\ delivery[d].at = "validated" /\ Goto(d, "written") /\ status' = Mark(d)
      /\ UNCHANGED <<settlingVars, balance, key, request, job, paystack>>
  BY DEF WriteMark, At
<1> DEFINE r == [at |-> "written", of |-> delivery[d].of, tx |-> delivery[d].tx]
<1>2. Moves(d, r)
  BY <1>0, <1>1, GotoMoves DEF DeliveryStep
<1>3. Sound(delivery[d])
  BY DEF IInv, Handlers
<1>4. Sound(r) /\ (r.tx = "open" => InTransaction(d) /\ r.of = Of(d))
  BY <1>1, <1>3 DEF Sound, Marking, InTransaction, Of
<1>5. Handlers' /\ RowLocks'
  <2> HIDE DEF r
  <2> QED BY <1>1, <1>2, <1>4, HandlersKept DEF settlingVars
<1>6. TypeOK'
  <2>1. status' \in Status
    BY <1>1 DEF Mark, Status
  <2>2. delivery' \in [Delivery -> DeliveryState]
    BY <1>2 DEF Moves
  <2> QED BY <1>0, <1>1, <2>1, <2>2
          DEF TypeOK, settlingVars, DeliveryState, DeliveryStep, Subject, TxState
<1>7. Requests' /\ Booked' = Booked
  BY <1>1 DEF IInv, Requests, settlingVars, Booked
<1>8. Confirmed(Of(d))
  BY <1>1, <1>3 DEF Sound, Marking, Of
<1>9. BookedMeansSettled'
  BY <1>1, <1>7, <1>8, SetAssumption
     DEF IInv, BookedMeansSettled, Mark, Confirmed, Settling
<1> QED BY <1>5, <1>6, <1>7, <1>9 DEF IInv

(* recordPayoutFailure, and the ends of a delivery                          *)
LEMMA FailureSteps ==
    ASSUME IInv, NEW d \in Delivery,
           ReadReady(d) \/ WriteReady(d) \/ DeliveryDies(d)
    PROVE  IInv'
<1>0. /\ key' \in [Key -> KeyState]
      /\ UNCHANGED <<settlingVars, balance, request, job, paystack>>
  BY DEF ReadReady, WriteReady, DeliveryDies, IInv, TypeOK
<1>1. CASE Leave(d)
  <2>1. status' \in {status} \cup (Status \ {"PAID_OUT", "REFUNDED"})
    BY DEF ReadReady, WriteReady, DeliveryDies, Status
  <2> QED BY <1>0, <1>1, <2>1, DeliveryLeaves
<1>2. CASE ReadReady(d) /\ Goto(d, "ready")
  <2>1. delivery[d].at = "refused" /\ status' = status /\ "ready" \in DeliveryStep
    BY <1>2 DEF ReadReady, At, DeliveryStep
  <2> QED BY <1>0, <1>2, <2>1, MarkingGoesOn
<1> QED BY <1>1, <1>2 DEF ReadReady, WriteReady, DeliveryDies

LEMMA TimeoutStep ==
    ASSUME IInv, NEW d \in Delivery, TransactionTimesOut(d)
    PROVE  IInv'
<1>0. TypeOK /\ delivery[d] \in DeliveryState /\ delivery \in [Delivery -> DeliveryState]
  BY Types DEF IInv
<1> DEFINE r == [at |-> delivery[d].at, of |-> delivery[d].of, tx |-> "rolled back"]
<1>1. [delivery[d] EXCEPT !.tx = "rolled back"] = r /\ r \in DeliveryState
  BY <1>0, FieldReplaced DEF TxState
<1>2. delivery' = [delivery EXCEPT ![d] = [delivery[d] EXCEPT !.tx = "rolled back"]]
  BY <1>0 DEF TransactionTimesOut
<1>3. Moves(d, r)
  BY <1>0, <1>1, <1>2, Replaced
<1>4. Sound(delivery[d])
  BY DEF IInv, Handlers
<1>5. Sound(r) /\ r.tx # "open"
  BY <1>4 DEF Sound
<1>6. /\ key' \in [Key -> KeyState] /\ status' = status
      /\ UNCHANGED <<settlingVars, balance, request, job, paystack>>
  BY <1>0 DEF TransactionTimesOut, TypeOK
<1> HIDE DEF r
<1> QED BY <1>3, <1>5, <1>6, DeliveryKeeps

-----------------------------------------------------------------------------
LEMMA ReceiveSuccessStep ==
    ASSUME IInv, NEW d \in Delivery, NEW t \in Transfer, ReceiveSuccess(d, t)
    PROVE  IInv'
<1>0. TypeOK
  BY DEF IInv
<1> DEFINE r == [at |-> "begun", of |-> t, tx |-> "none"]
<1>1. Moves(d, r)
  <2>1. "begun" \in DeliveryStep /\ t \in Subject /\ "none" \in TxState
    BY DEF DeliveryStep, Subject, TxState
  <2>2. delivery' = [delivery EXCEPT ![d] = [at |-> "begun", of |-> t, tx |-> "none"]]
    BY DEF ReceiveSuccess, Deliver
  <2> QED BY <1>0, <2>1, <2>2, SetMoves
<1>2. Sound(r) /\ r.tx # "open"
  BY DEF ReceiveSuccess, Sound, Marking, Confirmed
<1>3. /\ key' \in [Key -> KeyState] /\ status' = status
      /\ UNCHANGED <<settlingVars, balance, request, job, paystack>>
  BY <1>0 DEF ReceiveSuccess, TypeOK
<1> HIDE DEF r
<1> QED BY <1>1, <1>2, <1>3, DeliveryKeeps

(* The lock of a row that is not completed and that nobody else has         *)
LEMMA LockTransferStep ==
    ASSUME IInv, NEW d \in Delivery, LockTransfer(d)
    PROVE  IInv'
<1>0. /\ TypeOK /\ Sound(delivery[d]) /\ delivery[d].at = "begun"
      /\ key' \in [Key -> KeyState]
      /\ UNCHANGED <<status, settlingVars, balance, key, request, job, paystack>>
  BY DEF IInv, Handlers, LockTransfer, At, TypeOK
<1>1. CASE row[Of(d)] = "completed"
  BY <1>0, <1>1, DeliveryLeaves DEF LockTransfer
<1>2. CASE row[Of(d)] # "completed"
  <2> DEFINE r == [at |-> "locked", of |-> Of(d), tx |-> "open"]
  <2>1. /\ delivery' = [delivery EXCEPT ![d] = [at |-> "locked", of |-> Of(d), tx |-> "open"]]
        /\ \A e \in Delivery : InTransaction(e) => Of(e) # Of(d)
    BY <1>2 DEF LockTransfer
  <2>2. Of(d) \in Transfer /\ Confirmed(Of(d))
    BY <1>0 DEF Sound, Of
  <2>3. Moves(d, r)
    BY <1>0, <2>1, <2>2, SetMoves DEF DeliveryStep, Subject, TxState
  <2>4. Sound(r)
    BY <1>2, <2>2 DEF Sound, Marking
  <2>5. \A e \in Delivery : Sound(delivery'[e])
    BY <2>3, <2>4 DEF IInv, Handlers, Moves
  <2>6. Handlers'
    BY <1>0, <2>5 DEF Handlers, Sound, Confirmed, settlingVars
  <2>7. RowLocks'
    BY <2>1, <2>3 DEF IInv, RowLocks, Moves, InTransaction, Of
  <2>8. TypeOK'
    <3>1. delivery' \in [Delivery -> DeliveryState]
      BY <2>3 DEF Moves
    <3> QED BY <1>0, <3>1
            DEF TypeOK, settlingVars, DeliveryState, DeliveryStep, Subject, TxState
  <2>9. Requests' /\ BookedMeansSettled'
    BY <1>0 DEF IInv, Requests, BookedMeansSettled, Booked, settlingVars
  <2> QED BY <2>6, <2>7, <2>8, <2>9 DEF IInv
<1> QED BY <1>1, <1>2

-----------------------------------------------------------------------------
(* What is booked                                                           *)
LEMMA CommitBooks ==
    ASSUME IInv, NEW d \in Delivery, Commit(d)
    PROVE  /\ Of(d) \in Transfer \ Booked
           /\ paystack[Of(d)] = "success"
           /\ row' = [row EXCEPT ![Of(d)] = "completed"]
           /\ Booked' = Booked \cup {Of(d)}
           /\ balance' \in [client : Int, escrow : Int, artisan : Int, fee : Int]
           /\ balance'.client = balance.client
           /\ balance'.artisan = balance.artisan + (Amount - Fee)
           /\ balance'.client + balance'.escrow + balance'.artisan + balance'.fee
                = balance.client + balance.escrow + balance.artisan + balance.fee
<1>1. Sound(delivery[d]) /\ delivery[d].tx = "open" /\ TypeOK
  BY DEF IInv, Handlers, Commit, InTransaction
<1>2. Of(d) \in Transfer /\ row[Of(d)] # "completed" /\ Confirmed(Of(d))
  BY <1>1 DEF Sound, Of
<1>3. paystack[Of(d)] = "success"
  BY <1>2, SetAssumption DEF Confirmed, Settling
<1>4. row' = [row EXCEPT ![Of(d)] = "completed"]
  BY DEF Commit
<1>5. Of(d) \in Transfer \ Booked /\ Booked' = Booked \cup {Of(d)}
  <2>1. DOMAIN row = Settling /\ Of(d) \in Settling
    BY <1>1, <1>2 DEF Settling, TypeOK
  <2> QED BY <1>2, <1>4, <2>1 DEF Booked
<1>6. PICK f \in {0, Fee} :
          balance' = [balance EXCEPT !.escrow  = @ - (Amount - Fee) - f,
                                     !.artisan = @ + Amount - Fee,
                                     !.fee     = @ + f]
  BY DEF Commit
<1>7. /\ balance' \in [client : Int, escrow : Int, artisan : Int, fee : Int]
      /\ balance'.client = balance.client
      /\ balance'.artisan = balance.artisan + (Amount - Fee)
      /\ balance'.client + balance'.escrow + balance'.artisan + balance'.fee
                = balance.client + balance.escrow + balance.artisan + balance.fee
  <2>1. balance \in [client : Int, escrow : Int, artisan : Int, fee : Int]
    BY <1>1 DEF TypeOK
  <2>2. f \in Int /\ Amount \in Int /\ Fee \in Int
    BY AmountAssumption
  <2>3. balance' = [client |-> balance.client,
                    escrow |-> balance.escrow - (Amount - Fee) - f,
                    artisan |-> balance.artisan + Amount - Fee,
                    fee |-> balance.fee + f]
    BY <1>6, <2>1
  <2> QED BY <2>1, <2>2, <2>3
<1> QED BY <1>3, <1>4, <1>5, <1>7

LEMMA CommitStep ==
    ASSUME IInv, NEW d \in Delivery, Commit(d)
    PROVE  IInv'
<1>0. TypeOK
  BY DEF IInv
<1>1. /\ Of(d) \in Transfer \ Booked /\ paystack[Of(d)] = "success"
      /\ row' = [row EXCEPT ![Of(d)] = "completed"]
      /\ Booked' = Booked \cup {Of(d)}
      /\ balance' \in [client : Int, escrow : Int, artisan : Int, fee : Int]
  BY CommitBooks
<1>2. /\ Moves(d, Resting) /\ InTransaction(d)
      /\ UNCHANGED <<status, feeKept, latest, key, request, job, paystack>>
  BY <1>0, LeaveMoves DEF Commit
<1>3. TypeOK'
  <2>1. delivery' \in [Delivery -> DeliveryState]
    BY <1>2 DEF Moves
  <2>2. row' \in [Settling -> {"absent", "pending", "completed", "failed"}]
    BY <1>0, <1>1 DEF TypeOK
  <2> QED BY <1>0, <1>1, <1>2, <2>1, <2>2
          DEF TypeOK, DeliveryState, DeliveryStep, Subject, TxState
<1>4. Requests'
  <2>1. job[Of(d)].at # "none" /\ Of(d) \in Settling
    BY <1>1 DEF IInv, Requests, Settling
  <2>2. \A y \in Settling : y # Of(d) => row'[y] = row[y]
    BY <1>0, <1>1 DEF TypeOK
  <2> QED BY <1>2, <2>1, <2>2 DEF IInv, Requests
<1>5. Handlers'
  <2>1. ASSUME NEW e \in Delivery PROVE Sound(delivery[e])'
    <3>1. CASE e = d
      BY <1>2, <3>1 DEF Moves, Sound, Resting, Marking
    <3>2. CASE e # d
      <4>1. delivery'[e] = delivery[e] /\ Sound(delivery[e])
        BY <1>2, <3>2 DEF Moves, IInv, Handlers
      <4>2. delivery[e].tx = "open" => delivery[e].of # Of(d)
        BY <1>2, <3>2 DEF IInv, RowLocks, InTransaction, Of
      <4>3. delivery[e].tx = "open" => row'[delivery[e].of] = row[delivery[e].of]
        BY <1>0, <1>1, <4>1, <4>2 DEF TypeOK, Sound, Settling
      <4> QED BY <1>2, <4>1, <4>3 DEF Sound, Confirmed
    <3> QED BY <3>1, <3>2
  <2> QED BY <2>1 DEF Handlers
<1>6. RowLocks'
  BY <1>2 DEF IInv, RowLocks, Moves, InTransaction, Of, Resting
<1>7. BookedMeansSettled'
  BY <1>1, <1>2, SetAssumption DEF IInv, BookedMeansSettled, Settling
<1> QED BY <1>3, <1>4, <1>5, <1>6, <1>7 DEF IInv

(* The row of the refund that was recorded last is completed, or nothing is *)
(* booked.                                                                  *)
LEMMA RefundBooks ==
    ASSUME IInv, NEW d \in Delivery, ReceiveRefund(d)
    PROVE  \/ UNCHANGED <<row, balance>>
           \/ /\ latest \in Refund \ Booked
              /\ row' = [row EXCEPT ![latest] = "completed"]
              /\ Booked' = Booked \cup {latest}
              /\ balance' \in [client : Int, escrow : Int, artisan : Int, fee : Int]
              /\ balance'.artisan = balance.artisan
              /\ balance'.client = balance.client + Amount
              /\ balance'.client + balance'.escrow + balance'.artisan + balance'.fee
                   = balance.client + balance.escrow + balance.artisan + balance.fee
<1>0. TypeOK
  BY DEF IInv
<1>1. CASE ~(latest # None /\ row[latest] # "completed")
  BY <1>1 DEF ReceiveRefund
<1>2. CASE latest # None /\ row[latest] # "completed"
  <2>1. latest \in Refund
    BY <1>0, <1>2 DEF TypeOK
  <2>2. row' = [row EXCEPT ![latest] = "completed"]
    BY <1>2 DEF ReceiveRefund
  <2>3. latest \in Refund \ Booked /\ Booked' = Booked \cup {latest}
    <3>1. DOMAIN row = Settling /\ latest \in Settling
      BY <1>0, <2>1 DEF Settling, TypeOK
    <3> QED BY <1>2, <2>1, <2>2, <3>1 DEF Booked
  <2>4. balance \in [client : Int, escrow : Int, artisan : Int, fee : Int]
    BY <1>0 DEF TypeOK
  <2>5. balance' = [client |-> balance.client + Amount, escrow |-> balance.escrow - Amount,
                    artisan |-> balance.artisan, fee |-> balance.fee]
    BY <1>2, <2>4 DEF ReceiveRefund
  <2>6. Amount \in Int
    BY AmountAssumption
  <2> QED BY <2>2, <2>3, <2>4, <2>5, <2>6
<1> QED BY <1>1, <1>2

LEMMA ReceiveRefundStep ==
    ASSUME IInv, NEW d \in Delivery, ReceiveRefund(d)
    PROVE  IInv'
<1>0. TypeOK
  BY DEF IInv
<1> DEFINE r == [at |-> "locked", of |-> Processed, tx |-> "none"]
<1>1. /\ paystack["refund"] = "success"
      /\ UNCHANGED <<status, feeKept, latest, key, request, job, paystack>>
      /\ delivery' = [delivery EXCEPT ![d] = [at |-> "locked", of |-> Processed, tx |-> "none"]]
  BY DEF ReceiveRefund, Deliver
<1>2. Moves(d, r)
  BY <1>0, <1>1, SetMoves DEF DeliveryStep, Subject, TxState
<1>3. /\ row' \in [Settling -> {"absent", "pending", "completed", "failed"}]
      /\ \A y \in Settling : row'[y] = row[y] \/ (y = latest /\ latest \in Refund)
      /\ Booked' = Booked \/ (latest \in Refund /\ Booked' = Booked \cup {latest})
      /\ balance' \in [client : Int, escrow : Int, artisan : Int, fee : Int]
  <2>0. /\ row \in [Settling -> {"absent", "pending", "completed", "failed"}]
        /\ balance \in [client : Int, escrow : Int, artisan : Int, fee : Int]
    BY <1>0 DEF TypeOK
  <2>1. CASE UNCHANGED <<row, balance>>
    BY <2>0, <2>1 DEF Booked
  <2>2. ASSUME ~UNCHANGED <<row, balance>>
        PROVE  /\ latest \in Refund /\ row' = [row EXCEPT ![latest] = "completed"]
               /\ Booked' = Booked \cup {latest}
               /\ balance' \in [client : Int, escrow : Int, artisan : Int, fee : Int]
    BY <2>2, RefundBooks
  <2> QED BY <2>0, <2>1, <2>2
<1>4. TypeOK'
  <2>1. delivery' \in [Delivery -> DeliveryState]
    BY <1>2 DEF Moves
  <2> QED BY <1>0, <1>1, <1>3, <2>1
          DEF TypeOK, DeliveryState, DeliveryStep, Subject, TxState
<1>5. Requests'
  BY <1>1, <1>3 DEF IInv, Requests
<1>6. Handlers'
  <2>1. ASSUME NEW e \in Delivery PROVE Sound(delivery[e])'
    <3>1. CASE e = d
      BY <1>1, <1>2, <3>1 DEF Moves, Sound, Marking, Confirmed
    <3>2. CASE e # d
      <4>1. delivery'[e] = delivery[e] /\ Sound(delivery[e])
        BY <1>2, <3>2 DEF Moves, IInv, Handlers
      <4>2. delivery[e].tx = "open" => row'[delivery[e].of] = row[delivery[e].of]
        BY <1>3, <4>1, SetAssumption DEF Sound, Settling
      <4> QED BY <1>1, <4>1, <4>2 DEF Sound, Confirmed
    <3> QED BY <3>1, <3>2
  <2> QED BY <2>1 DEF Handlers
<1>7. RowLocks'
  BY <1>2 DEF IInv, RowLocks, Moves, InTransaction, Of
<1>8. BookedMeansSettled'
  BY <1>1, <1>3, SetAssumption DEF IInv, BookedMeansSettled
<1> QED BY <1>4, <1>5, <1>6, <1>7, <1>8 DEF IInv

(* The row of a transfer that failed was not booked, and nobody works on it. *)
LEMMA ReceiveFailureStep ==
    ASSUME IInv, NEW d \in Delivery, NEW t \in Transfer, ReceiveFailure(d, t)
    PROVE  IInv'
<1>0. TypeOK
  BY DEF IInv
<1> DEFINE r == [at |-> "refused", of |-> t, tx |-> "none"]
<1>1. /\ paystack[t] = "failed" /\ row' = [row EXCEPT ![t] = "failed"]
      /\ UNCHANGED <<status, feeKept, latest, balance, key, request, job, paystack>>
      /\ delivery' = [delivery EXCEPT ![d] = [at |-> "refused", of |-> t, tx |-> "none"]]
  BY DEF ReceiveFailure, Deliver
<1>2. Moves(d, r)
  BY <1>0, <1>1, SetMoves DEF DeliveryStep, Subject, TxState
<1>3. /\ row' \in [Settling -> {"absent", "pending", "completed", "failed"}]
      /\ \A y \in Settling : row'[y] = row[y] \/ (y = t /\ row'[y] = "failed")
  BY <1>0, <1>1 DEF TypeOK
<1>4. TypeOK'
  <2>1. delivery' \in [Delivery -> DeliveryState]
    BY <1>2 DEF Moves
  <2> QED BY <1>0, <1>1, <1>3, <2>1
          DEF TypeOK, DeliveryState, DeliveryStep, Subject, TxState
<1>5. Requests'
  <2>1. job[t].at # "none" /\ t \in Settling
    BY <1>1 DEF IInv, Requests, Settling
  <2> QED BY <1>1, <1>3, <2>1 DEF IInv, Requests
<1>6. Monotone
  BY <1>1, <1>3 DEF Monotone
<1>7. Handlers'
  <2>1. ASSUME NEW e \in Delivery PROVE Sound(delivery[e])'
    <3>1. CASE e = d
      BY <1>2, <3>1 DEF Moves, Sound, Marking
    <3>2. CASE e # d
      <4>1. delivery'[e] = delivery[e] /\ Sound(delivery[e])
        BY <1>2, <3>2 DEF Moves, IInv, Handlers
      <4> QED BY <1>1, <1>3, <4>1 DEF Sound, Confirmed, Settling
    <3> QED BY <3>1, <3>2
  <2> QED BY <2>1 DEF Handlers
<1>8. RowLocks'
  BY <1>2 DEF IInv, RowLocks, Moves, InTransaction, Of
<1>9. BookedMeansSettled'
  BY <1>1, <1>6, BookedKept DEF IInv
<1> QED BY <1>4, <1>5, <1>7, <1>8, <1>9 DEF IInv

-----------------------------------------------------------------------------
LEMMA NextIInv == IInv /\ [Next]_vars => IInv'
<1> SUFFICES ASSUME IInv, [Next]_vars PROVE IInv'
  OBVIOUS
<1>1. ASSUME NEW x \in Settling, NEW by \in {"party", "admin"}, Clear(x, by) PROVE IInv'
  BY <1>1, ClearStep
<1>2. ASSUME NEW x \in Settling, Ask(x) \/ RequestFails(x) \/ RequestDies(x) PROVE IInv'
  BY <1>2, AcquireLockStep, RecordRowStep, EnqueueStep, RequestEnds DEF Ask
<1>3. ASSUME NEW x \in Settling, Work(x) \/ JobFails(x) PROVE IInv'
  BY <1>3, JobSteps
<1>4. CASE EndRefund \/ \E t \in Transfer : EndTransfer(t)
  BY <1>4, PaystackSteps
<1>5. ASSUME NEW d \in Delivery, NEW t \in Transfer, ReceiveSuccess(d, t) \/ ReceiveFailure(d, t)
      PROVE  IInv'
  BY <1>5, ReceiveSuccessStep, ReceiveFailureStep
<1>6. ASSUME NEW d \in Delivery,
             \/ ReceiveRefund(d) \/ Handle(d) \/ TransactionTimesOut(d)
             \/ StatementFails(d) \/ DeliveryDies(d)
      PROVE  IInv'
  BY <1>6, ReceiveRefundStep, LockTransferStep, MarkSteps, WriteMarkStep, CommitStep,
     FailureSteps, TimeoutStep DEF Handle
<1>7. CASE RaiseDispute \/ (\E k \in Key : TimePasses(k)) \/ PurgeExpired \/ UNCHANGED vars
  BY <1>7, OtherSteps
<1>8. \/ \E x \in Settling, by \in {"party", "admin"} : Clear(x, by)
      \/ \E x \in Settling : Ask(x) \/ RequestFails(x) \/ RequestDies(x)
      \/ \E x \in Settling : Work(x) \/ JobFails(x)
      \/ EndRefund \/ \E t \in Transfer : EndTransfer(t)
      \/ \E d \in Delivery, t \in Transfer : ReceiveSuccess(d, t) \/ ReceiveFailure(d, t)
      \/ \E d \in Delivery : \/ ReceiveRefund(d) \/ Handle(d) \/ TransactionTimesOut(d)
                             \/ StatementFails(d) \/ DeliveryDies(d)
      \/ RaiseDispute \/ (\E k \in Key : TimePasses(k)) \/ PurgeExpired \/ UNCHANGED vars
  BY DEF Next, ClearRelease, ClearReleaseByAdmin, ClearRefund, Settling
<1> QED BY <1>1, <1>2, <1>3, <1>4, <1>5, <1>6, <1>7, <1>8

LEMMA IInvAlways ==
    ASSUME Unsettled
    PROVE  Spec => []IInv
<1>1. Init => IInv
  BY InitIInv
<1> QED BY <1>1, NextIInv, PTL DEF Spec

(* The rows of a settlement keep their types.                               *)
THEOREM SettlementTypes ==
    ASSUME Unsettled
    PROVE  Spec => []TypeOK
<1>1. IInv => TypeOK
  BY DEF IInv
<1>2. Spec => []IInv
  BY IInvAlways
<1> QED BY <1>1, <1>2, PTL

(* releaseEscrow, refundContract, the worker and the webhooks, whatever     *)
(* overlaps, dies or is repeated: nothing is booked, and no contract is     *)
(* PAID_OUT or REFUNDED, before Paystack moved the money.                   *)
THEOREM BookedOnlySettled ==
    ASSUME Unsettled
    PROVE  Spec => []BookedMeansSettled
<1>1. IInv => BookedMeansSettled
  BY DEF IInv
<1>2. Spec => []IInv
  BY IInvAlways
<1> QED BY <1>1, <1>2, PTL

-----------------------------------------------------------------------------
(* A step books by Commit or by ReceiveRefund, or not at all.  Of one       *)
(* refund request only, none is forgotten after it was booked.              *)
LEMMA RowsKept ==
    ASSUME IInv, [Next]_vars,
           ~\E d \in Delivery : Commit(d) \/ ReceiveRefund(d)
    PROVE  /\ balance' = balance
           /\ \A x \in Settling : row'[x] = "completed" => row[x] = "completed"
           /\ \A t \in Transfer : row[t] = "completed" => row'[t] = "completed"
           /\ (\A q, r \in Refund : q = r) =>
                 \A r \in Refund : row[r] = "completed" => row'[r] = "completed"
<1>0. TypeOK
  BY DEF IInv
<1>1. balance' = balance
  BY DEF Next, vars, settlingVars, ClearRelease, ClearReleaseByAdmin, ClearRefund, Clear, Ask,
     AcquireLock, RecordRow, Enqueue, Finish, RequestFails, RequestDies, Work, CallTransfer,
     CallRefund, NoteRefund, CompleteLock, FinishJob, JobFails, EndTransfer, EndRefund,
     ReceiveSuccess, ReceiveFailure, Handle, LockTransfer, AcquireMark, ValidateMark, WriteMark,
     CompleteMark, ReleaseMark, Return, ReadReady, WriteReady, TransactionTimesOut,
     StatementFails, DeliveryDies, RaiseDispute, TimePasses, PurgeExpired
<1>2. \/ row' = row
      \/ \E x \in Settling :
            \/ RecordRow(x) \/ RequestFails(x)
            \/ x \in Transfer /\ \E d \in Delivery : ReceiveFailure(d, x)
  BY DEF Next, vars, settlingVars, ClearRelease, ClearReleaseByAdmin, ClearRefund, Clear, Ask,
     AcquireLock, Enqueue, Finish, RequestDies, Work, CallTransfer, Settling,
     CallRefund, NoteRefund, CompleteLock, FinishJob, JobFails, EndTransfer, EndRefund,
     ReceiveSuccess, Handle, LockTransfer, AcquireMark, ValidateMark, WriteMark,
     CompleteMark, ReleaseMark, Return, ReadReady, WriteReady, TransactionTimesOut,
     StatementFails, DeliveryDies, RaiseDispute, TimePasses, PurgeExpired
<1>3. CASE row' = row
  BY <1>1, <1>3
<1>4. ASSUME NEW x \in Settling,
             \/ RecordRow(x) \/ RequestFails(x)
             \/ x \in Transfer /\ \E d \in Delivery : ReceiveFailure(d, x)
      PROVE  /\ \A y \in Settling : row'[y] = row[y] \/ (y = x /\ row'[y] # "completed")
             /\ x \in Transfer => row[x] # "completed"
             /\ (\A q, r \in Refund : q = r) => row[x] # "completed" \/ row' = row
  <2>1. \A y \in Settling : row'[y] = row[y] \/ (y = x /\ row'[y] # "completed")
    <3>1. \/ row' = row \/ row' = [row EXCEPT ![x] = "pending"]
          \/ row' = [row EXCEPT ![x] = "failed"]
      BY <1>4 DEF RecordRow, RequestFails, ReceiveFailure
    <3>2. DOMAIN row = Settling
      BY <1>0 DEF TypeOK
    <3> QED BY <3>1, <3>2
  <2>2. CASE RecordRow(x)
    <3>1. row[x] = "absent"
      BY <2>2 DEF IInv, Requests, RecordRow, RequestStep
    <3> QED BY <2>1, <3>1
  <2>3. CASE RequestFails(x)
    <3>1. CASE row' = row /\ request[x].at = "locked"
      <4>1. row[x] = "absent"
        BY <3>1 DEF IInv, Requests
      <4> QED BY <2>1, <4>1
    <3>2. CASE request[x].at = "recorded"
      <4>1. job[x].at = "none"
        BY <3>2 DEF IInv, Requests
      <4>2. x \in Transfer => row[x] # "completed"
        BY <4>1 DEF IInv, Requests, BookedMeansSettled, Booked, Settling
      <4>3. (\A q, r \in Refund : q = r) /\ x \in Refund => row[x] # "completed"
        BY <4>1 DEF IInv, Requests, BookedMeansSettled, Booked, Settling
      <4> QED BY <2>1, <4>2, <4>3 DEF Settling
    <3> QED BY <2>3, <3>1, <3>2 DEF RequestFails, RequestStep
  <2>4. CASE x \in Transfer /\ \E d \in Delivery : ReceiveFailure(d, x)
    <3>1. paystack[x] = "failed"
      BY <2>4 DEF ReceiveFailure
    <3>2. row[x] # "completed"
      BY <2>4, <3>1 DEF IInv, BookedMeansSettled, Booked
    <3> QED BY <2>1, <3>2
  <2> QED BY <1>4, <2>2, <2>3, <2>4
<1>5. ASSUME NEW x \in Settling,
             \/ RecordRow(x) \/ RequestFails(x)
             \/ x \in Transfer /\ \E d \in Delivery : ReceiveFailure(d, x)
      PROVE  /\ \A y \in Settling : row'[y] = "completed" => row[y] = "completed"
             /\ \A t \in Transfer : row[t] = "completed" => row'[t] = "completed"
             /\ (\A q, r \in Refund : q = r) =>
                   \A r \in Refund : row[r] = "completed" => row'[r] = "completed"
  BY <1>4, <1>5 DEF Settling
<1> QED BY <1>1, <1>2, <1>3, <1>5

LEMMA FiniteBooked ==
    /\ IsFiniteSet(Booked \cap Transfer) /\ Cardinality(Booked \cap Transfer) \in Nat
    /\ IsFiniteSet(Booked \cap Refund) /\ Cardinality(Booked \cap Refund) \in Nat
<1>1. Booked \cap Transfer \in SUBSET Transfer /\ Booked \cap Refund \in SUBSET Refund
  OBVIOUS
<1> QED BY <1>1, SetAssumption, FS_Subset, FS_CardinalityType

LEMMA OneMore ==
    ASSUME NEW S, IsFiniteSet(S), NEW x, x \notin S, NEW n \in Int
    PROVE  n * Cardinality(S \cup {x}) = n * Cardinality(S) + n
<1>1. Cardinality(S \cup {x}) = Cardinality(S) + 1 /\ Cardinality(S) \in Nat
  BY FS_AddElement, FS_CardinalityType
<1>2. \A k \in Nat : n * (k + 1) = n * k + n
  OBVIOUS
<1> QED BY <1>1, <1>2

LEMMA InitLedger == Init => LedgerMatchesRows
<1> SUFFICES ASSUME Init PROVE LedgerMatchesRows
  OBVIOUS
<1>1. Booked \cap Transfer = {} /\ Booked \cap Refund = {}
  BY DEF Init, Booked
<1>2. Cardinality(Booked \cap Transfer) = 0 /\ Cardinality(Booked \cap Refund) = 0
  BY <1>1, FS_EmptySet
<1> QED BY <1>2, AmountAssumption DEF Init, LedgerMatchesRows

LEMMA LedgerStep ==
    ASSUME IInv, LedgerMatchesRows, [Next]_vars, \A q, r \in Refund : q = r
    PROVE  LedgerMatchesRows'
<1>0. /\ Amount \in Int /\ Amount - Fee \in Int
      /\ balance.client \in Int /\ balance.escrow \in Int
      /\ balance.artisan \in Int /\ balance.fee \in Int
  <2>1. balance \in [client : Int, escrow : Int, artisan : Int, fee : Int]
    BY DEF IInv, TypeOK
  <2>2. Amount \in Int /\ Fee \in Int
    BY AmountAssumption
  <2> QED BY <2>1, <2>2
<1>1. ASSUME NEW d \in Delivery, Commit(d) PROVE LedgerMatchesRows'
  <2> DEFINE t == Of(d)
  <2>1. /\ t \in Transfer \ Booked /\ Booked' = Booked \cup {t}
        /\ balance'.client = balance.client
        /\ balance'.artisan = balance.artisan + (Amount - Fee)
        /\ balance'.client + balance'.escrow + balance'.artisan + balance'.fee
             = balance.client + balance.escrow + balance.artisan + balance.fee
    BY <1>1, CommitBooks
  <2>2. /\ (Booked \cap Transfer)' = (Booked \cap Transfer) \cup {t}
        /\ (Booked \cap Refund)' = Booked \cap Refund
        /\ t \notin Booked \cap Transfer
    BY <2>1, SetAssumption
  <2>3. (Amount - Fee) * Cardinality((Booked \cap Transfer) \cup {t})
            = (Amount - Fee) * Cardinality(Booked \cap Transfer) + (Amount - Fee)
    BY <1>0, <2>2, FiniteBooked, OneMore
  <2>4. balance'.artisan = (Amount - Fee) * Cardinality((Booked \cap Transfer)')
    BY <2>1, <2>2, <2>3 DEF LedgerMatchesRows
  <2>5. balance'.client = Amount * Cardinality((Booked \cap Refund)') - Amount
    BY <2>1, <2>2 DEF LedgerMatchesRows
  <2>6. balance'.client + balance'.escrow + balance'.artisan + balance'.fee = 0
    BY <2>1 DEF LedgerMatchesRows
  <2> QED BY <2>4, <2>5, <2>6 DEF LedgerMatchesRows
<1>2. ASSUME NEW d \in Delivery, ReceiveRefund(d), row' # row \/ balance' # balance
      PROVE  LedgerMatchesRows'
  <2>1. /\ latest \in Refund \ Booked /\ Booked' = Booked \cup {latest}
        /\ balance'.artisan = balance.artisan
        /\ balance'.client = balance.client + Amount
        /\ balance'.client + balance'.escrow + balance'.artisan + balance'.fee
             = balance.client + balance.escrow + balance.artisan + balance.fee
    BY <1>2, RefundBooks
  <2>2. /\ (Booked \cap Refund)' = (Booked \cap Refund) \cup {latest}
        /\ (Booked \cap Transfer)' = Booked \cap Transfer
        /\ latest \notin Booked \cap Refund
    BY <2>1, SetAssumption
  <2>3. Amount * Cardinality((Booked \cap Refund) \cup {latest})
            = Amount * Cardinality(Booked \cap Refund) + Amount
    BY <1>0, <2>2, FiniteBooked, OneMore
  <2>4. balance'.artisan = (Amount - Fee) * Cardinality((Booked \cap Transfer)')
    BY <2>1, <2>2 DEF LedgerMatchesRows
  <2>5. balance'.client = Amount * Cardinality((Booked \cap Refund)') - Amount
    <3>1. balance.client = Amount * Cardinality(Booked \cap Refund) - Amount
      BY DEF LedgerMatchesRows
    <3>2. Amount * Cardinality((Booked \cap Refund)')
              = Amount * Cardinality(Booked \cap Refund) + Amount
      BY <2>2, <2>3
    <3>3. Cardinality(Booked \cap Refund) \in Int
      BY FiniteBooked
    <3>4. ASSUME NEW m \in Int, NEW c \in Int, NEW a \in Int, c = m - a
          PROVE  c + a = (m + a) - a
      BY <3>4
    <3>5. Amount * Cardinality(Booked \cap Refund) \in Int
      BY <1>0, <3>3
    <3>6. balance.client + Amount = (Amount * Cardinality(Booked \cap Refund) + Amount) - Amount
      BY <1>0, <3>1, <3>4, <3>5
    <3> QED BY <2>1, <3>2, <3>6
  <2>6. balance'.client + balance'.escrow + balance'.artisan + balance'.fee = 0
    BY <2>1 DEF LedgerMatchesRows
  <2> QED BY <2>4, <2>5, <2>6 DEF LedgerMatchesRows
<1>3. ASSUME Booked' = Booked, balance' = balance PROVE LedgerMatchesRows'
  BY <1>3 DEF LedgerMatchesRows
<1>4. ASSUME ~\E d \in Delivery : Commit(d) \/ ReceiveRefund(d) PROVE LedgerMatchesRows'
  <2>1. Booked' = Booked /\ balance' = balance
    BY <1>4, RowsKept DEF Booked, Settling
  <2> QED BY <2>1, <1>3
<1>5. ASSUME row' = row, balance' = balance PROVE LedgerMatchesRows'
  BY <1>3, <1>5 DEF Booked
<1> QED BY <1>1, <1>2, <1>4, <1>5

(* Whatever deliveries repeat, overlap, time out or die, the ledger holds   *)
(* what the completed rows say, while the refund of the contract is         *)
(* requested once.                                                          *)
THEOREM LedgerAlwaysMatches ==
    ASSUME Unsettled, \A q, r \in Refund : q = r
    PROVE  Spec => []LedgerMatchesRows
<1>1. IInv /\ LedgerMatchesRows /\ [Next]_vars => LedgerMatchesRows'
  BY LedgerStep
<1>2. Spec => []IInv
  BY IInvAlways
<1> QED BY <1>1, <1>2, InitLedger, PTL DEF Spec

-----------------------------------------------------------------------------
Success == {t \in Transfer : paystack[t] = "success"}

LEMMA SuccessStep ==
    ASSUME IInv, [Next]_vars
    PROVE  \/ Success' = Success
           \/ \E t \in Transfer \ Success : /\ Success' = Success \cup {t}
                                            /\ UNCHANGED <<row, balance>>
<1>0. paystack \in [Transfer \cup {"refund"} -> {"none", "accepted", "success", "failed"}]
  BY DEF IInv, TypeOK
<1>1. ASSUME NEW t \in Transfer, EndTransfer(t)
      PROVE  \/ Success' = Success
             \/ /\ t \notin Success /\ Success' = Success \cup {t}
                /\ UNCHANGED <<row, balance>>
  <2>1. /\ paystack[t] = "accepted" /\ UNCHANGED <<row, balance>>
        /\ \A u \in Transfer : u # t => paystack'[u] = paystack[u]
    BY <1>0, <1>1 DEF EndTransfer, settlingVars
  <2>2. t \notin Success
    BY <2>1 DEF Success
  <2>3. CASE paystack'[t] = "success"
    <3>1. Success' = Success \cup {t}
      BY <2>1, <2>3 DEF Success
    <3> QED BY <2>1, <2>2, <3>1
  <2>4. CASE paystack'[t] # "success"
    <3>1. Success' = Success
      BY <2>1, <2>2, <2>4 DEF Success
    <3> QED BY <3>1
  <2> QED BY <2>3, <2>4
<1>2. ASSUME NEW x \in Settling, CallTransfer(x) \/ CallRefund(x)
      PROVE  Success' = Success
  <2>1. \A u \in Transfer : paystack'[u] = "success" <=> paystack[u] = "success"
    BY <1>0, <1>2, SetAssumption DEF CallTransfer, CallRefund
  <2> QED BY <2>1 DEF Success
<1>3. CASE EndRefund
  <2>1. \A u \in Transfer : paystack'[u] = "success" <=> paystack[u] = "success"
    BY <1>0, <1>3, SetAssumption DEF EndRefund
  <2> QED BY <2>1 DEF Success
<1>4. CASE paystack' = paystack
  BY <1>4 DEF Success
<1>5. \/ paystack' = paystack \/ EndRefund
      \/ \E x \in Settling : CallTransfer(x) \/ CallRefund(x)
      \/ \E t \in Transfer : EndTransfer(t)
  BY DEF Next, vars, settlingVars, ClearRelease, ClearReleaseByAdmin, ClearRefund, Clear, Ask,
     AcquireLock, RecordRow, Enqueue, Finish, RequestFails, RequestDies, Work,
     NoteRefund, CompleteLock, FinishJob, JobFails,
     ReceiveSuccess, ReceiveFailure, ReceiveRefund, Handle, LockTransfer, AcquireMark,
     ValidateMark, WriteMark, CompleteMark, ReleaseMark, Commit, Return, ReadReady, WriteReady,
     TransactionTimesOut, StatementFails, DeliveryDies, RaiseDispute, TimePasses, PurgeExpired
<1> QED BY <1>1, <1>2, <1>3, <1>4, <1>5

(* handleTransferSuccess credits the artisan once for each transfer that    *)
(* Paystack confirmed: settlement implements the abstract escrow.           *)
THEOREM ReleaseImplemented ==
    ASSUME Unsettled
    PROVE  Spec => ImplementsRelease
<1>1. Init => Release!Init
  <2> SUFFICES ASSUME Init PROVE Release!Init
    OBVIOUS
  <2>1. Success = {} /\ Booked \cap Transfer = {} /\ balance.artisan = 0
    BY DEF Init, Success, Booked
  <2> QED BY <2>1 DEF Release!Init, Success
<1>2. IInv /\ [Next]_vars => [Release!Next]_(Release!vars)
  <2> SUFFICES ASSUME IInv, [Next]_vars
               PROVE  Release!Next \/ UNCHANGED Release!vars
    OBVIOUS
  <2>1. ASSUME NEW d \in Delivery, Commit(d) PROVE Release!Next
    <3>1. /\ Of(d) \in Transfer \ Booked /\ paystack[Of(d)] = "success"
          /\ Booked' = Booked \cup {Of(d)}
          /\ balance'.artisan = balance.artisan + (Amount - Fee)
      BY <2>1, CommitBooks
    <3>2. paystack' = paystack
      BY <2>1 DEF Commit
    <3>3. Release!Record(Of(d))
      BY <3>1, <3>2 DEF Release!Record
    <3> QED BY <3>1, <3>3 DEF Release!Next
  <2>2. ASSUME NEW d \in Delivery, ReceiveRefund(d) PROVE UNCHANGED Release!vars
    <3>1. (Booked \cap Transfer)' = Booked \cap Transfer /\ balance'.artisan = balance.artisan
      BY <2>2, RefundBooks, SetAssumption DEF Booked
    <3>2. paystack' = paystack
      BY <2>2 DEF ReceiveRefund
    <3> QED BY <3>1, <3>2 DEF Release!vars
  <2>3. ASSUME ~\E d \in Delivery : Commit(d) \/ ReceiveRefund(d)
        PROVE  Release!Next \/ UNCHANGED Release!vars
    <3>1. (Booked \cap Transfer)' = Booked \cap Transfer /\ balance' = balance
      BY <2>3, RowsKept DEF Booked, Settling
    <3>2. CASE Success' = Success
      BY <3>1, <3>2 DEF Release!vars, Success
    <3>3. ASSUME NEW t \in Transfer \ Success, Success' = Success \cup {t}
          PROVE  Release!Next
      <4>1. Release!Pay(t)
        BY <3>1, <3>3 DEF Release!Pay, Success
      <4> QED BY <4>1 DEF Release!Next
    <3> QED BY <3>2, <3>3, SuccessStep
  <2> QED BY <2>1, <2>2, <2>3
<1>3. Spec => []IInv
  BY IInvAlways
<1> QED BY <1>1, <1>2, <1>3, PTL DEF Spec, ImplementsRelease, Release!Spec

-----------------------------------------------------------------------------
(* What the release lock protects: a transfer that is being requested, has  *)
(* a job, or was sent and is not booked.  While leases outlast what they    *)
(* guard, such a transfer is the only one, and the lock is not free.        *)
Sending(t) == \/ request[t].at \in {"locked", "recorded"}
              \/ job[t].at \in Unfinished
              \/ Unbooked(t)

SendLocked ==
    /\ \A t \in Transfer : Sending(t) => key["release"] \in {"held", "completed"}
    /\ \A t, u \in Transfer : Sending(t) /\ Sending(u) => t = u

LockKept == key["release"] \in {"held", "completed"} => key'["release"] \in {"held", "completed"}

NoneStarts == \A t \in Transfer : Sending(t)' => Sending(t)

LEMMA LockStays == SendLocked /\ NoneStarts /\ LockKept => SendLocked'
BY DEF SendLocked, NoneStarts, LockKept

(* A step that touches neither requests nor jobs nor Paystack, and records  *)
(* no new row                                                               *)
LEMMA NothingSent ==
    ASSUME SendLocked, LockKept,
           \A t \in Transfer : /\ request'[t].at \in {"locked", "recorded"}
                                    => request[t].at \in {"locked", "recorded"}
                               /\ job'[t] = job[t]
                               /\ paystack'[t] = paystack[t] \/ paystack[t] = "accepted"
                               /\ row'[t] = "pending" => row[t] = "pending"
    PROVE  SendLocked'
<1>1. NoneStarts
  BY DEF NoneStarts, Sending, Unbooked
<1> QED BY <1>1, LockStays

LEMMA ClearSends ==
    ASSUME IInv, SendLocked, NEW x \in Settling, NEW by \in {"party", "admin"}, Clear(x, by)
    PROVE  SendLocked'
<1>1. /\ request \in [Settling -> RequestState]
      /\ request' = [request EXCEPT ![x] = [at |-> "cleared", by |-> by]]
      /\ UNCHANGED <<row, key, job, paystack>>
  BY Types DEF IInv, Clear, settlingVars
<1>2. \A t \in Transfer : request'[t].at \in {"locked", "recorded"}
                          => request[t].at \in {"locked", "recorded"}
  BY <1>1 DEF Settling
<1> QED BY <1>1, <1>2, NothingSent DEF LockKept

(* Who takes the lock finds it free, so nobody else is sending.             *)
LEMMA AcquireSends ==
    ASSUME IInv, SendLocked, NEW x \in Settling, AcquireLock(x)
    PROVE  SendLocked'
<1>0. TypeOK
  BY DEF IInv
<1>1. UNCHANGED <<row, job, paystack>>
  BY DEF AcquireLock, settlingVars
<1>2. CASE RequestStep(x, "cleared", "done") /\ UNCHANGED key
  <2>1. \A y \in Settling : request'[y].at \in {"locked", "recorded"}
                            => request[y].at \in {"locked", "recorded"}
    BY <1>0, <1>2, RequestMoves
  <2> QED BY <1>1, <1>2, <2>1, NothingSent DEF LockKept, Settling
<1>3. CASE /\ MayAcquire(key[Lock(x)])
           /\ key' = [key EXCEPT ![Lock(x)] = Acquired]
           /\ RequestStep(x, "cleared", "locked")
  <2>1. \A y \in Settling : y # x => request'[y] = request[y]
    BY <1>0, <1>3, RequestMoves
  <2>2. \A t \in Transfer : t # x /\ Sending(t)' => Sending(t)
    BY <1>1, <2>1 DEF Sending, Unbooked, Settling
  <2>3. CASE x \in Transfer
    <3>1. MayAcquire(key["release"]) /\ key'["release"] = "held"
      BY <1>0, <1>3, <2>3 DEF Lock, TypeOK, Key, Acquired
    <3>2. \A t \in Transfer : ~Sending(t)
      BY <3>1 DEF SendLocked, MayAcquire
    <3> QED BY <2>2, <3>1, <3>2 DEF SendLocked
  <2>4. CASE x \notin Transfer
    <3>1. LockKept
      BY <1>0, <1>3, <2>4 DEF LockKept, Lock, TypeOK, Key
    <3> QED BY <2>2, <2>4, <3>1, LockStays DEF NoneStarts
  <2> QED BY <2>3, <2>4
<1> QED BY <1>2, <1>3 DEF AcquireLock

LEMMA AskSends ==
    ASSUME IInv, SendLocked, NEW x \in Settling,
           RecordRow(x) \/ Enqueue(x) \/ RequestDies(x) \/ (x \in Transfer /\ Finish(x))
    PROVE  SendLocked'
<1>0. TypeOK
  BY DEF IInv
<1>1. LockKept /\ UNCHANGED paystack
  BY DEF LockKept, RecordRow, Enqueue, RequestDies, Finish
<1>2. PICK to \in {"recorded", "queued", "done"} :
         /\ RequestStep(x, request[x].at, to)
         /\ to = "recorded" => request[x].at = "locked"
  BY DEF RecordRow, Enqueue, RequestDies, Finish, RequestStep
<1>3. /\ request'[x].at = to
      /\ \A y \in Settling : y # x => request'[y] = request[y]
  BY <1>0, <1>2, RequestMoves
<1>4. \A y \in Settling :
         \/ job'[y] = job[y]
         \/ y = x /\ request[x].at = "recorded"
  BY <1>0, JobMoves DEF RecordRow, Enqueue, RequestDies, Finish, RequestStep
<1>5. \A y \in Settling :
         \/ row'[y] = row[y]
         \/ y = x /\ request[x].at = "locked"
  BY <1>0 DEF RecordRow, Enqueue, RequestDies, Finish, RequestStep, TypeOK, settlingVars
<1>6. NoneStarts
  BY <1>1, <1>2, <1>3, <1>4, <1>5 DEF NoneStarts, Sending, Unbooked, Settling
<1> QED BY <1>1, <1>6, LockStays

(* The catch block gives the lock back for a payout that has no job yet.    *)
LEMMA FailsSends ==
    ASSUME IInv, SendLocked, NEW x \in Settling, RequestFails(x)
    PROVE  SendLocked'
<1>0. TypeOK /\ Requests
  BY DEF IInv
<1>1. PICK from \in {"locked", "recorded"} : RequestStep(x, from, "done")
  BY DEF RequestFails
<1>2. /\ request[x].at = from /\ request'[x].at = "done"
      /\ \A y \in Settling : y # x => request'[y] = request[y]
  BY <1>0, <1>1, RequestMoves
<1>3. UNCHANGED <<job, paystack>>
  BY DEF RequestFails
<1>4. \A y \in Settling : y # x => row'[y] = row[y]
  BY <1>0 DEF RequestFails, TypeOK
<1>5. \A t \in Transfer : t # x /\ Sending(t)' => Sending(t)
  BY <1>2, <1>3, <1>4 DEF Sending, Unbooked, Settling
<1>6. CASE x \in Transfer
  <2>1. Sending(x)
    BY <1>2 DEF Sending
  <2>2. job[x].at = "none" /\ paystack[x] = "none"
    BY <1>0, <1>2, <1>6 DEF Requests
  <2>3. ~Sending(x)'
    BY <1>2, <1>3, <2>2 DEF Sending, Unbooked, Unfinished
  <2>4. \A t \in Transfer : ~Sending(t)'
    BY <1>5, <1>6, <2>1, <2>3 DEF SendLocked
  <2> QED BY <2>4 DEF SendLocked
<1>7. CASE x \notin Transfer
  <2>1. LockKept
    BY <1>0, <1>7 DEF LockKept, RequestFails, Lock, TypeOK, Key
  <2> QED BY <1>5, <1>7, <2>1, LockStays DEF NoneStarts
<1> QED BY <1>6, <1>7

(* A job only goes on sending what it was sending, and only completes the   *)
(* lock.                                                                    *)
LEMMA WorkSends ==
    ASSUME IInv, SendLocked, NEW x \in Settling, Work(x) \/ JobFails(x)
    PROVE  SendLocked'
<1>0. TypeOK
  BY DEF IInv
<1>1. job[x].at \in Unfinished
  BY DEF Work, JobFails, CallTransfer, CallRefund, NoteRefund, CompleteLock, FinishJob,
         JobStep, Unfinished
<1>2. \/ \E s \in {"waiting", "called", "noted", "completed", "done"} :
            job' = [job EXCEPT ![x].at = s]
      \/ Retry(x)
  BY DEF Work, JobFails, CallTransfer, CallRefund, NoteRefund, CompleteLock, FinishJob, JobStep
<1>3. \A y \in Settling : y # x => job'[y] = job[y]
  BY <1>0, <1>2, JobMoves
<1>4. \A t \in Transfer : t # x => paystack'[t] = paystack[t]
  BY <1>0, SetAssumption
     DEF Work, JobFails, CallTransfer, CallRefund, NoteRefund, CompleteLock, FinishJob, TypeOK
<1>5. UNCHANGED <<row, request>>
  BY DEF Work, JobFails, CallTransfer, CallRefund, NoteRefund, CompleteLock, FinishJob,
         settlingVars
<1>6. NoneStarts
  <2>1. ASSUME NEW t \in Transfer, t # x, Sending(t)' PROVE Sending(t)
    BY <1>3, <1>4, <1>5, <2>1 DEF Sending, Unbooked, Settling
  <2>2. x \in Transfer => Sending(x)
    BY <1>1 DEF Sending
  <2> QED BY <2>1, <2>2 DEF NoneStarts
<1>7. LockKept
  <2>1. CASE UNCHANGED key
    BY <2>1 DEF LockKept
  <2>2. CASE CompleteLock(x)
    BY <1>0, <2>2 DEF LockKept, CompleteLock, Completed, TypeOK, Key, Lock
  <2> QED BY <2>1, <2>2 DEF Work, JobFails, CallTransfer, CallRefund, NoteRefund, FinishJob
<1> QED BY <1>6, <1>7, LockStays

LEMMA PaystackSends ==
    ASSUME IInv, SendLocked, EndRefund \/ \E t \in Transfer : EndTransfer(t)
    PROVE  SendLocked'
<1>1. \A t \in Transfer : paystack'[t] = paystack[t] \/ paystack[t] = "accepted"
  <2>1. CASE EndRefund
    BY <2>1, SetAssumption DEF EndRefund, IInv, TypeOK
  <2>2. ASSUME NEW u \in Transfer, EndTransfer(u)
        PROVE  \A t \in Transfer : paystack'[t] = paystack[t] \/ paystack[t] = "accepted"
    BY <2>2 DEF EndTransfer, IInv, TypeOK
  <2> QED BY <2>1, <2>2
<1>2. UNCHANGED <<row, key, request, job>>
  BY DEF EndRefund, EndTransfer, settlingVars
<1> QED BY <1>1, <1>2, NothingSent DEF LockKept

(* No delivery makes a row pending, and none touches the release lock.      *)
LEMMA DeliverySends ==
    ASSUME IInv, SendLocked, NEW d \in Delivery,
           \/ ReceiveRefund(d) \/ Handle(d) \/ TransactionTimesOut(d)
           \/ StatementFails(d) \/ DeliveryDies(d)
           \/ \E t \in Transfer : ReceiveSuccess(d, t) \/ ReceiveFailure(d, t)
    PROVE  SendLocked'
<1>0. TypeOK
  BY DEF IInv
<1>1. UNCHANGED <<request, job, paystack>>
  BY DEF ReceiveRefund, Handle, TransactionTimesOut, StatementFails, DeliveryDies,
         ReceiveSuccess, ReceiveFailure, LockTransfer, AcquireMark, ValidateMark, WriteMark,
         CompleteMark, ReleaseMark, Commit, Return, ReadReady, WriteReady
<1>2. key'["release"] = key["release"]
  <2>1. CASE UNCHANGED key
    BY <2>1
  <2>2. CASE AcquireMark(d) \/ CompleteMark(d) \/ ReleaseMark(d)
    <3>1. \/ key' = key
          \/ \E s : key' = [key EXCEPT ![MarkKey(d)] = s]
      BY <2>2 DEF AcquireMark, CompleteMark, ReleaseMark
    <3>2. MarkKey(d) # "release" /\ "release" \in DOMAIN key
      BY <1>0 DEF MarkKey, TypeOK, Key
    <3> QED BY <3>1, <3>2
  <2> QED BY <2>1, <2>2
          DEF ReceiveRefund, Handle, TransactionTimesOut, StatementFails, DeliveryDies,
              ReceiveSuccess, ReceiveFailure, LockTransfer, ValidateMark, WriteMark,
              Commit, Return, ReadReady, WriteReady
<1>3. \A y \in Settling : row'[y] = "pending" => row[y] = "pending"
  <2>1. CASE UNCHANGED row
    BY <2>1
  <2>2. CASE Commit(d)
    <3>1. row' = [row EXCEPT ![Of(d)] = "completed"]
      BY <2>2 DEF Commit
    <3> QED BY <1>0, <3>1 DEF TypeOK
  <2>3. CASE ReceiveRefund(d)
    <3>1. row' = row \/ row' = [row EXCEPT ![latest] = "completed"]
      BY <2>3 DEF ReceiveRefund
    <3> QED BY <1>0, <3>1 DEF TypeOK
  <2>4. ASSUME NEW t \in Transfer, ReceiveFailure(d, t)
        PROVE  \A y \in Settling : row'[y] = "pending" => row[y] = "pending"
    BY <1>0, <2>4 DEF ReceiveFailure, TypeOK
  <2> QED BY <2>1, <2>2, <2>3, <2>4
          DEF Handle, TransactionTimesOut, StatementFails, DeliveryDies, ReceiveSuccess,
              LockTransfer, AcquireMark, ValidateMark, WriteMark, CompleteMark,
              ReleaseMark, Return, ReadReady, WriteReady, settlingVars
<1> QED BY <1>1, <1>2, <1>3, NothingSent DEF LockKept, Settling

(* A lease or a retention ends when nothing depends on it.                  *)
LEMMA TimeSends ==
    ASSUME IInv, SendLocked, Timely,
           \/ RaiseDispute \/ (\E k \in Key : TimePasses(k)) \/ PurgeExpired \/ UNCHANGED vars
    PROVE  SendLocked'
<1>0. TypeOK /\ UNCHANGED <<row, request, job, paystack>>
  BY DEF IInv, RaiseDispute, TimePasses, PurgeExpired, vars, settlingVars
<1>1. CASE UNCHANGED key
  BY <1>0, <1>1, NothingSent DEF LockKept
<1>2. CASE PurgeExpired
  <2>1. LockKept
    BY <1>0, <1>2 DEF PurgeExpired, LockKept, Purgeable, Key, TypeOK
  <2> QED BY <1>0, <2>1, NothingSent
<1>3. ASSUME NEW k \in Key, TimePasses(k) PROVE SendLocked'
  <2>1. CASE k = "release"
    <3>1. ~InUse("release") /\ ~Outstanding("release")
      BY <1>3, <2>1 DEF TimePasses
    <3>2. \A t \in Transfer : Lock(t) = "release" /\ t \in Settling
      BY DEF Lock, Settling
    <3>3. \A t \in Transfer : ~Sending(t)
      BY <3>1, <3>2 DEF InUse, Outstanding, Sending
    <3>4. \A t \in Transfer : ~Sending(t)'
      BY <1>0, <3>3 DEF Sending, Unbooked
    <3> QED BY <3>4 DEF SendLocked
  <2>2. CASE k # "release"
    <3>1. LockKept
      BY <1>0, <1>3, <2>2 DEF TimePasses, LockKept, TypeOK, Key
    <3> QED BY <1>0, <3>1, NothingSent
  <2> QED BY <2>1, <2>2
<1> QED BY <1>1, <1>2, <1>3 DEF RaiseDispute, vars

(* For any number of payouts, refunds, retried jobs and overlapping         *)
(* deliveries, with every fault: while leases and retentions outlast what   *)
(* they guard, no transfer is sent before the one before it is booked, one  *)
(* way or the other (initiatePayout, processEscrowPayout).                  *)
THEOREM OneSentAtATime ==
    ASSUME Unsettled, Timely
    PROVE  Spec => []OneTransferOutstanding
<1>1. Init => SendLocked
  BY DEF Init, SendLocked, Sending, Unbooked, Unfinished, Settling
<1>2. IInv /\ SendLocked /\ [Next]_vars => SendLocked'
  <2> SUFFICES ASSUME IInv, SendLocked, [Next]_vars PROVE SendLocked'
    OBVIOUS
  <2>1. ASSUME NEW t \in Transfer,
               \/ ClearRelease(t) \/ ClearReleaseByAdmin(t) \/ EndTransfer(t)
               \/ \E d \in Delivery : ReceiveSuccess(d, t) \/ ReceiveFailure(d, t)
        PROVE  SendLocked'
    <3>1. t \in Settling
      BY DEF Settling
    <3>2. CASE ClearRelease(t) \/ ClearReleaseByAdmin(t)
      BY <3>1, <3>2, ClearSends DEF ClearRelease, ClearReleaseByAdmin
    <3>3. CASE EndTransfer(t)
      BY <3>3, PaystackSends
    <3>4. ASSUME NEW d \in Delivery, ReceiveSuccess(d, t) \/ ReceiveFailure(d, t)
          PROVE  SendLocked'
      BY <3>4, DeliverySends
    <3> QED BY <2>1, <3>2, <3>3, <3>4
  <2>2. ASSUME NEW r \in Refund, NEW by \in {"party", "admin"}, ClearRefund(r, by)
        PROVE  SendLocked'
    BY <2>2, ClearSends DEF ClearRefund, Settling
  <2>3. ASSUME NEW x \in Settling,
               Ask(x) \/ RequestFails(x) \/ RequestDies(x) \/ Work(x) \/ JobFails(x)
        PROVE  SendLocked'
    BY <2>3, AcquireSends, AskSends, FailsSends, WorkSends DEF Ask
  <2>4. CASE EndRefund
    BY <2>4, PaystackSends
  <2>5. ASSUME NEW d \in Delivery,
               \/ ReceiveRefund(d) \/ Handle(d) \/ TransactionTimesOut(d)
               \/ StatementFails(d) \/ DeliveryDies(d)
        PROVE  SendLocked'
    BY <2>5, DeliverySends
  <2>6. ASSUME \/ RaiseDispute \/ (\E k \in Key : TimePasses(k))
               \/ PurgeExpired \/ UNCHANGED vars
        PROVE  SendLocked'
    BY <2>6, TimeSends
  <2> QED BY <2>1, <2>2, <2>3, <2>4, <2>5, <2>6 DEF Next
<1>3. SendLocked => OneTransferOutstanding
  BY DEF SendLocked, OneTransferOutstanding, Sending
<1> QED BY <1>1, <1>2, <1>3, IInvAlways, PTL DEF Spec
=============================================================================
