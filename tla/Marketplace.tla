---------------------------- MODULE Marketplace ----------------------------
(***************************************************************************)
(* JobsService, ProposalsService, its daily cron, forceCloseJob of          *)
(* AdminService and ContractsService.createContract, around one job.        *)
(*                                                                          *)
(* Every handler reads the rows it needs, decides, and writes by id; what   *)
(* others wrote in between is not looked at again.  Only createContract     *)
(* writes several rows, in a transaction, and only the unique columns of    *)
(* Proposal (jobId, artisanId) and Contract (jobId, proposalId) stop a      *)
(* second writer.                                                           *)
(***************************************************************************)
EXTENDS Naturals

CONSTANTS
    Artisan,    \* those who may propose; a proposal is named after its artisan
    Request,    \* concurrent HTTP requests
    None

VARIABLES
    job,        \* the row of Job
    proposal,   \* the row of Proposal of each artisan
    contract,   \* the row of Contract of the job
    request     \* what each request is about to write, and what it read

vars == <<job, proposal, contract, request>>

(* The handlers that check the status of a proposal before they write it    *)
ByStatus == {"edit", "withdraw", "accept", "reject", "delete"}

(* COMPLETED is to every handler here what FORCE_CLOSED is.                 *)
JobStatus      == {"OPEN", "IN_PROGRESS", "FORCE_CLOSED"}
Pending        == {"SUBMITTED", "VIEWED", "SHORTLISTED", "DRAFT"}
Decided        == {"ACCEPTED", "REJECTED"}
ProposalStatus == Pending \cup Decided \cup {"WITHDRAWN", "EXPIRED"}
Amount         == {1, 2}

NotRead    == [decided |-> FALSE, amount |-> 1]
NoProposal == [status |-> "none", amount |-> 1, deleted |-> FALSE]
NoContract == [of |-> None, amount |-> 1]
Idle       == [op |-> "none", of |-> None, seen |-> NotRead]

RowType == [status : ProposalStatus \cup {"none"}, amount : Amount, deleted : BOOLEAN]
Op      == {"none", "propose", "updateDraft", "create", "edit", "withdraw", "accept",
            "reject", "delete", "contract", "updateJob", "assign", "deleteJob", "forceClose"}

TypeOK == /\ job \in [status : JobStatus, contracted : BOOLEAN, deleted : BOOLEAN]
          /\ proposal \in [Artisan -> RowType]
          /\ contract \in [of : Artisan \cup {None}, amount : Amount]
          /\ request \in [Request -> [op : Op, of : Artisan \cup {None},
                                      seen : [decided : BOOLEAN, amount : Amount]]]

Init == /\ job = [status |-> "OPEN", contracted |-> FALSE, deleted |-> FALSE]
        /\ proposal = [a \in Artisan |-> NoProposal]
        /\ contract = NoContract
        /\ request = [r \in Request |-> Idle]

(* The extended client hides rows with deletedAt from findUnique/findFirst. *)
Found(a) == proposal[a].status # "none" /\ ~proposal[a].deleted

Begin(r, op, a) ==
    /\ request[r] = Idle
    /\ request' = [request EXCEPT ![r] =
                     [op |-> op, of |-> a,
                      seen |-> CASE op = "contract" -> [decided |-> TRUE,
                                                        amount |-> proposal[a].amount]
                                 [] op \in ByStatus -> [NotRead EXCEPT !.decided =
                                                        proposal[a].status \in Decided]
                                 [] OTHER -> NotRead]]
    /\ UNCHANGED <<job, proposal, contract>>

Leave(r) == request' = [request EXCEPT ![r] = Idle]

Writes(r, op) == request[r].op = op /\ Leave(r)
-----------------------------------------------------------------------------
(* createProposal, by a verified artisan: the job is read and must be open, *)
(* then the artisan's live proposal, which may only be a draft.             *)
ReadOpenJob(r, a) ==
    /\ ~job.deleted /\ job.status = "OPEN"
    /\ Begin(r, "propose", a)

Live(a) == Found(a) /\ proposal[a].status \notin {"WITHDRAWN", "REJECTED"}

(* findFirst: a draft will be updated; without a live proposal one will be  *)
(* created; anything else is refused.                                       *)
FindProposal(r) ==
    LET a == request[r].of
    IN  /\ request[r].op = "propose"
        /\ IF Live(a) /\ proposal[a].status # "DRAFT"
           THEN Leave(r)
           ELSE request' = [request EXCEPT ![r].op =
                               IF Live(a) THEN "updateDraft" ELSE "create"]
        /\ UNCHANGED <<job, proposal, contract>>

(* By id; or an insert that the unique index on (jobId, artisanId) refuses  *)
(* when there is any row, a withdrawn, rejected or deleted one too.  The    *)
(* client says whether it submits or saves a draft.                         *)
StoreProposal(r) ==
    LET a == request[r].of
    IN  /\ request[r].op \in {"updateDraft", "create"}
        /\ Leave(r)
        /\ IF request[r].op = "updateDraft" \/ proposal[a].status = "none"
           THEN \E s \in {"SUBMITTED", "DRAFT"} :
                   proposal' = [proposal EXCEPT ![a].status = s]
           ELSE UNCHANGED proposal
        /\ UNCHANGED <<job, contract>>

(* mutant: what was decided may be withdrawn, edited, ...                   *)
ReadAny(r, op, a) ==
    /\ op \in ByStatus
    /\ Found(a)
    /\ Begin(r, op, a)

(* updateProposal, withdrawProposal, rejectProposal, deleteProposal,        *)
(* acceptProposal: the checks on the row that was read.                     *)
ReadProposal(r, op, a) ==
    /\ Found(a)
    /\ CASE op \in {"edit", "withdraw", "reject"} -> proposal[a].status \notin Decided
         [] op = "delete" -> proposal[a].status # "ACCEPTED"
         [] op = "accept" -> proposal[a].status \in Pending /\ job.status = "OPEN"
    /\ Begin(r, op, a)

(* A handler decided on what it read; the update is by id.                  *)
Edit(r) ==
    /\ Writes(r, "edit")
    /\ proposal' = [proposal EXCEPT ![request[r].of].amount = 2]
    /\ UNCHANGED <<job, contract>>

Withdraw(r) ==
    /\ Writes(r, "withdraw")
    /\ proposal' = [proposal EXCEPT ![request[r].of].status = "WITHDRAWN"]
    /\ UNCHANGED <<job, contract>>

Accept(r) ==
    /\ Writes(r, "accept")
    /\ proposal' = [proposal EXCEPT ![request[r].of].status = "ACCEPTED"]
    /\ UNCHANGED <<job, contract>>

Reject(r) ==
    /\ Writes(r, "reject")
    /\ proposal' = [proposal EXCEPT ![request[r].of].status = "REJECTED"]
    /\ UNCHANGED <<job, contract>>

Delete(r) ==
    /\ Writes(r, "delete")
    /\ proposal' = [proposal EXCEPT ![request[r].of].deleted = TRUE]
    /\ UNCHANGED <<job, contract>>

(* The cron: one conditional statement over all rows that are old enough.   *)
Expire(S) ==
    /\ \A a \in S : proposal[a].status \in {"SUBMITTED", "VIEWED", "SHORTLISTED"}
    /\ proposal' = [a \in Artisan |-> IF a \in S
                                      THEN [proposal[a] EXCEPT !.status = "EXPIRED"]
                                      ELSE proposal[a]]
    /\ UNCHANGED <<job, contract, request>>
-----------------------------------------------------------------------------
(* createContract: the accepted proposal, and no contract of it yet         *)
ReadForContract(r, a) ==
    /\ Found(a)
    /\ proposal[a].status = "ACCEPTED"
    /\ contract.of # a
    /\ Begin(r, "contract", a)

(* mutant: one contract per proposal, but not per job                       *)
CreateContractEach(r) ==
    LET a == request[r].of
    IN  /\ Writes(r, "contract")
        /\ contract.of # a
        /\ contract' = [of |-> a, amount |-> request[r].seen.amount]
        /\ job' = [job EXCEPT !.contracted = TRUE, !.status = "IN_PROGRESS"]
        /\ UNCHANGED proposal

(* The transaction: contract, job, and the other pending proposals.         *)
CreateContract(r) ==
    LET a == request[r].of
    IN  /\ Writes(r, "contract")
        /\ contract.of = None
        /\ contract' = [of |-> a, amount |-> request[r].seen.amount]
        /\ job' = [job EXCEPT !.contracted = TRUE, !.status = "IN_PROGRESS"]
        /\ proposal' = [b \in Artisan |-> IF b # a /\ proposal[b].status \in Pending
                                          THEN [proposal[b] EXCEPT !.status = "REJECTED"]
                                          ELSE proposal[b]]

(* jobId and proposalId are unique in Contract.                             *)
ContractRefused(r) ==
    /\ Writes(r, "contract")
    /\ contract.of # None
    /\ UNCHANGED <<job, proposal, contract>>
-----------------------------------------------------------------------------
(* updateJob, assignArtisan, deleteJob by the client, forceCloseJob by an   *)
(* administrator                                                            *)
ReadJob(r, op) ==
    /\ ~job.deleted
    /\ op = "deleteJob"  => ~job.contracted
    /\ op = "forceClose" => job.status \notin {"FORCE_CLOSED", "COMPLETED"}
    /\ Begin(r, op, None)

UpdateJob(r, s) ==
    /\ Writes(r, "updateJob")
    /\ job' = [job EXCEPT !.status = s]
    /\ UNCHANGED <<proposal, contract>>

AssignArtisan(r) ==
    /\ Writes(r, "assign")
    /\ job' = [job EXCEPT !.status = "IN_PROGRESS"]
    /\ UNCHANGED <<proposal, contract>>

DeleteJob(r) ==
    /\ Writes(r, "deleteJob")
    /\ job' = [job EXCEPT !.deleted = TRUE]
    /\ UNCHANGED <<proposal, contract>>

ForceCloseJob(r) ==
    /\ Writes(r, "forceClose")
    /\ job' = [job EXCEPT !.status = "FORCE_CLOSED"]
    /\ UNCHANGED <<proposal, contract>>

(* The request ends between its read and its write.                         *)
Fails(r) ==
    /\ request[r] # Idle
    /\ Leave(r)
    /\ UNCHANGED <<job, proposal, contract>>

Reads(r) ==
    \/ \E a \in Artisan :
          \/ ReadOpenJob(r, a)
          \/ \E op \in ByStatus : ReadProposal(r, op, a)
          \/ ReadForContract(r, a)
    \/ \E op \in {"updateJob", "assign", "deleteJob", "forceClose"} : ReadJob(r, op)

Writing(r) ==
    \/ FindProposal(r) \/ StoreProposal(r) \/ Edit(r) \/ Withdraw(r) \/ Accept(r) \/ Reject(r) \/ Delete(r)
    \/ CreateContract(r) \/ ContractRefused(r)
    \/ AssignArtisan(r) \/ DeleteJob(r) \/ ForceCloseJob(r)
    \/ \E s \in JobStatus : UpdateJob(r, s)

Next == \/ \E r \in Request : Reads(r) \/ Writing(r) \/ Fails(r)
        \/ \E S \in SUBSET Artisan \ {{}} : Expire(S)

Spec == Init /\ [][Next]_vars
-----------------------------------------------------------------------------
(* A proposal that was ACCEPTED or REJECTED changes its status or its price *)
(* only by a request that had read it before it was decided ("Cannot update *)
(* proposal in current status", proposals.service.ts): requests that do not *)
(* overlap decide once.                                                     *)
DecisionUndoneOnlyByStaleRead ==
    [][\A a \in Artisan :
          /\ proposal[a].status \in Decided
          /\ proposal'[a].status # proposal[a].status \/ proposal'[a].amount # proposal[a].amount
          => \E r \in Request : /\ request[r].of = a /\ request'[r] = Idle
                                /\ request[r].op \in ByStatus \cup {"updateDraft"}
                                /\ ~request[r].seen.decided]_vars

(* Whatever was accepted and by how many requests, the job is contracted    *)
(* once, and neither party nor price of the contract changes: what loses is *)
(* refused by the unique columns.                                           *)
OneContract == [][contract.of # None => contract' = contract]_vars

(* Not so: at most one proposal of a job is accepted (accepting one leaves  *)
(* the job open and the others as they are),                                *)
OneAccepted ==
    \A a, b \in Artisan :
        proposal[a].status = "ACCEPTED" /\ proposal[b].status = "ACCEPTED" => a = b

(* a contract is made of a proposal that is accepted (withdrawal or expiry  *)
(* may overtake it),                                                        *)
ContractOfAccepted == contract.of # None => proposal[contract.of].status = "ACCEPTED"

(* a contract has the price of its proposal (an edit that had read the      *)
(* proposal before its acceptance may change it until the contract is       *)
(* written, and after),                                                     *)
ContractPrice == contract.of # None => proposal[contract.of].amount = contract.amount

(* and a job with a contract is there ("Cannot delete job with active       *)
(* contract", jobs.service.ts).                                             *)
ContractedJobStays == contract.of # None => ~job.deleted
=============================================================================
