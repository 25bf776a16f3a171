------------------------------ MODULE Disputes ------------------------------
(***************************************************************************)
(* DisputesService, AdminService.resolveDispute and the listeners of their  *)
(* events, around the dispute of one funded contract.                       *)
(*                                                                          *)
(* There are two ways to resolve a dispute, each with a check of its own,   *)
(* and changeState checks nothing.  Whoever resolves one then asks          *)
(* PaymentsService to move the escrow; what protects the money is one       *)
(* Redis key for each direction.  The worker that moves it is Settlement's; *)
(* here it succeeds.  Keys do not expire within the behaviours here.        *)
(***************************************************************************)
EXTENDS Naturals, ContractStatus

CONSTANTS
    Request,        \* concurrent requests of the parties and administrators
    EvidenceBound   \* how many pieces of evidence are submitted

Decision  == {"CLIENT_WINS", "ARTISAN_WINS", "SPLIT_DECISION"}
Direction == {"refund", "release"}

(* UNDER_REVIEW, EVIDENCE_COLLECTION, AWAITING_RESPONSE and DECISION_PENDING *)
(* are to every handler what OPEN is.  Nothing decides CANCELLED.           *)
DisputeStatus == {"OPEN", "ADMIN_INVESTIGATION", "RESOLVED", "CLOSED"}
Locked        == {"ADMIN_INVESTIGATION", "RESOLVED", "CLOSED"}

VARIABLES
    contract,   \* Contract.status
    jobClosed,  \* is the job FORCE_CLOSED?
    dispute,    \* the row of Dispute
    chosen,     \* every decision that was written to it
    evidence,   \* how many rows of DisputeEvidence there are
    raised,     \* is DISPUTE_RAISED still to be handled?
    key,        \* the idempotency keys contract:<id>:refund and :release
    queued,     \* jobs of the escrow queue
    moved,      \* how often Paystack moved the money
    request     \* what each request is doing

vars == <<contract, jobClosed, dispute, chosen, evidence, raised, key, queued, moved,
          request>>
row  == <<contract, jobClosed, dispute, chosen, evidence, raised>>
keys == <<key, queued, moved>>

Idle == [op |-> "none", decision |-> "none", at |-> "idle", resolved |-> FALSE]

TypeOK == /\ contract \in Status
          /\ jobClosed \in BOOLEAN /\ raised \in BOOLEAN
          /\ dispute \in [status : DisputeStatus \cup {"none"},
                          decision : Decision \cup {"none"}]
          /\ chosen \subseteq Decision
          /\ evidence \in 0..EvidenceBound
          /\ key \in [Direction -> {"absent", "PROCESSING", "COMPLETED"}]
          /\ queued \in [Direction -> Nat] /\ moved \in [Direction -> Nat]
          /\ request \in [Request -> [op : {"none", "create", "submit", "service", "admin", "move"},
                                      decision : Decision \cup {"none"},
                                      at : {"idle", "read", "acquire", "queue"},
                                      resolved : BOOLEAN]]

Init == /\ contract \in {"FUNDED", "READY_FOR_PAYOUT"}
        /\ jobClosed = FALSE /\ raised = FALSE
        /\ dispute = [status |-> "none", decision |-> "none"]
        /\ chosen = {}
        /\ evidence = 0
        /\ key = [d \in Direction |-> "absent"]
        /\ queued = [d \in Direction |-> 0]
        /\ moved = [d \in Direction |-> 0]
        /\ request = [r \in Request |-> Idle]

Read(r, op, d) ==
    /\ request[r] = Idle
    /\ request' = [request EXCEPT ![r] = [op |-> op, decision |-> d, at |-> "read",
                                          resolved |-> dispute.status = "RESOLVED"]]
    /\ UNCHANGED <<row, keys>>

At(r, ops, step) == request[r].op \in ops /\ request[r].at = step
Leave(r)         == request' = [request EXCEPT ![r] = Idle]
Goto(r, step)    == request' = [request EXCEPT ![r].at = step]
-----------------------------------------------------------------------------
(* createDispute by a party: no dispute that is not CLOSED, then an insert  *)
(* that the unique contractId refuses if there is a closed one too.         *)
ReadForDispute(r) ==
    /\ dispute.status \in {"none", "CLOSED"}
    /\ Read(r, "create", "none")

CreateDispute(r) ==
    /\ At(r, {"create"}, "read")
    /\ Leave(r)
    /\ IF dispute.status = "none"
       THEN dispute' = [dispute EXCEPT !.status = "OPEN"] /\ raised' = TRUE
       ELSE UNCHANGED <<dispute, raised>>
    /\ UNCHANGED <<contract, jobClosed, chosen, evidence, keys>>

(* handleDisputeRaised: markDisputed, which the table refuses when FUNDED   *)
MarkDisputed ==
    /\ raised
    /\ raised' = FALSE
    /\ contract' = IF ValidTransition(contract, "DISPUTED") THEN "DISPUTED" ELSE contract
    /\ UNCHANGED <<jobClosed, dispute, chosen, evidence, keys, request>>

(* submitEvidence                                                           *)
ReadForEvidence(r) ==
    /\ dispute.status \notin Locked \cup {"none"}
    /\ Read(r, "submit", "none")

SubmitEvidence(r) ==
    /\ At(r, {"submit"}, "read")
    /\ evidence < EvidenceBound
    /\ evidence' = evidence + 1
    /\ Leave(r)
    /\ UNCHANGED <<contract, jobClosed, dispute, chosen, raised, keys>>

(* changeState: any status to any other; what it read it only writes down.  *)
ChangeState(s) ==
    /\ dispute.status # "none"
    /\ dispute' = [dispute EXCEPT !.status = s]
    /\ UNCHANGED <<contract, jobClosed, chosen, evidence, raised, keys, request>>
-----------------------------------------------------------------------------
(* mutant: a dispute may be resolved whatever its status                    *)
ReadAnyDispute(r, op, d) ==
    /\ dispute.status # "none"
    /\ op = "admin" => d # "SPLIT_DECISION"
    /\ Read(r, op, d)

(* resolveDispute, of DisputesService or of AdminService.  Only the former  *)
(* refuses a dispute that is CLOSED; only the latter refuses to split.      *)
ReadForDecision(r, op, d) ==
    /\ dispute.status \notin {"none", "RESOLVED"}
    /\ op = "service" => dispute.status # "CLOSED"
    /\ op = "admin"   => d # "SPLIT_DECISION"
    /\ Read(r, op, d)

(* The update by id writes status and decision.                             *)
Resolved(d) == [status |-> "RESOLVED", decision |-> d]

(* AdminService closes the job in the same transaction.                     *)
Resolve(r) ==
    LET d == request[r].decision
    IN  /\ At(r, {"service", "admin"}, "read")
        /\ dispute' = Resolved(d)
        /\ chosen' = chosen \cup {d}
        /\ jobClosed' = (jobClosed \/ (At(r, {"admin"}, "read") /\ d = "CLIENT_WINS"))
        /\ IF d = "SPLIT_DECISION"
           THEN Leave(r)
           ELSE request' = [request EXCEPT ![r] = [Idle EXCEPT !.op = "move",
                                                               !.decision = d,
                                                               !.at = "read"]]
        /\ UNCHANGED <<contract, evidence, raised, keys>>

(* mutant: the decisions are mixed up                                       *)
OtherWay(decision) == IF decision = "CLIENT_WINS" THEN "release" ELSE "refund"

DirectionOf(decision) == IF decision = "CLIENT_WINS" THEN "refund" ELSE "release"

(* refundContract for an administrator needs a verified payment, which a    *)
(* funded contract has; releaseEscrowByAdmin needs one of five statuses.    *)
ReadContract(r) ==
    /\ At(r, {"move"}, "read")
    /\ IF DirectionOf(request[r].decision) = "release"
           => contract \in {"FUNDED", "IN_PROGRESS", "CLIENT_CONFIRMED",
                            "READY_FOR_PAYOUT", "DISPUTED"}
       THEN Goto(r, "acquire")
       ELSE Leave(r)
    /\ UNCHANGED <<row, keys>>

(* mutant: whoever has the key, the movement is requested                   *)
AcquireAnyway(r) ==
    /\ At(r, {"move"}, "acquire")
    /\ key' = [key EXCEPT ![DirectionOf(request[r].decision)] = "PROCESSING"]
    /\ Goto(r, "queue")
    /\ UNCHANGED <<row, queued, moved>>

(* idempotency.tryAcquire                                                   *)
Acquire(r) ==
    LET d == DirectionOf(request[r].decision)
    IN  /\ At(r, {"move"}, "acquire")
        /\ IF key[d] = "absent"
           THEN key' = [key EXCEPT ![d] = "PROCESSING"] /\ Goto(r, "queue")
           ELSE Leave(r) /\ UNCHANGED key
        /\ UNCHANGED <<row, queued, moved>>

(* The row of Transaction and the job; if either fails the key is released. *)
(* The listener and AdminService log whatever was thrown.                   *)
Enqueue(r) ==
    LET d == DirectionOf(request[r].decision)
    IN  /\ At(r, {"move"}, "queue")
        /\ \/ queued' = [queued EXCEPT ![d] = @ + 1] /\ UNCHANGED key
           \/ key' = [key EXCEPT ![d] = "absent"] /\ UNCHANGED queued
        /\ Leave(r)
        /\ UNCHANGED <<row, moved>>

(* The escrow worker and, of a transfer, its webhook; the contract follows  *)
(* where the table lets it.                                                 *)
Settle(d) ==
    LET end == IF d = "refund" THEN "REFUNDED" ELSE "PAID_OUT"
    IN  /\ queued[d] > 0
        /\ queued' = [queued EXCEPT ![d] = @ - 1]
        /\ moved' = [moved EXCEPT ![d] = @ + 1]
        /\ key' = [key EXCEPT ![d] = "COMPLETED"]
        /\ contract' = IF ValidTransition(contract, end) THEN end ELSE contract
        /\ UNCHANGED <<jobClosed, dispute, chosen, evidence, raised, request>>

(* The request dies between two steps: before the money was requested, with *)
(* the key, or before the write.                                            *)
Fails(r) ==
    /\ request[r] # Idle
    /\ Leave(r)
    /\ UNCHANGED <<row, keys>>

Next == \/ \E r \in Request :
              \/ ReadForDispute(r) \/ CreateDispute(r)
              \/ ReadForEvidence(r) \/ SubmitEvidence(r)
              \/ \E op \in {"service", "admin"}, d \in Decision : ReadForDecision(r, op, d)
              \/ Resolve(r) \/ ReadContract(r) \/ Acquire(r) \/ Enqueue(r) \/ Fails(r)
        \/ \E s \in DisputeStatus : ChangeState(s)
        \/ \E d \in Direction : Settle(d)
        \/ MarkDisputed

Spec == Init /\ [][Next]_vars
-----------------------------------------------------------------------------
(* However many administrators resolve the dispute at once, by whichever    *)
(* way, and however often it is reopened, the money is moved at most once   *)
(* in each direction ("Payout is already in progress for this contract",    *)
(* payments.service.ts).                                                    *)
MovedOncePerDirection == \A d \in Direction : moved[d] + queued[d] <= 1

(* A party is given the money only when some decision was for it, and the   *)
(* contract ends as the money went.                                         *)
MoneyFollowsDecision ==
    /\ moved["refund"] + queued["refund"] > 0   => "CLIENT_WINS" \in chosen
    /\ moved["release"] + queued["release"] > 0 => "ARTISAN_WINS" \in chosen
    /\ contract = "REFUNDED" => moved["refund"] > 0
    /\ contract = "PAID_OUT" => moved["release"] > 0

(* A decision that stands as RESOLVED is overwritten only by a request that *)
(* had read the dispute before ("Dispute is already resolved or closed",    *)
(* disputes.service.ts).                                                    *)
DecisionOverwrittenOnlyByStaleRead ==
    [][dispute.status = "RESOLVED" /\ dispute'.decision # dispute.decision
           => \E r \in Request : /\ At(r, {"service", "admin"}, "read")
                                 /\ ~request[r].resolved
                                 /\ request'[r] # request[r]]_vars

(* Not so: the money goes one way only (two decisions that were read at the *)
(* same time, or one of a dispute that was CLOSED, take different keys),    *)
MovedOneWay == moved["refund"] = 0 \/ moved["release"] = 0

(* and evidence is not added once it is locked ("Evidence collection is     *)
(* locked for this dispute", disputes.service.ts).                          *)
NoLateEvidence == [][evidence' # evidence => dispute.status \notin Locked]_vars
=============================================================================
