----------------------------- MODULE MCBusiness -----------------------------
(***************************************************************************)
(* What the users of the marketplace do with jobs, disputes, deliverables,  *)
(* reviews and wallets, for TLC.  The parts share no row that one of them   *)
(* writes and another of them reads, so a behaviour is one of one part,     *)
(* which "part" names; the variables of the others keep their values.       *)
(***************************************************************************)
EXTENDS MCWallet

CONSTANTS Artisan, EvidenceBound, VersionBound, JobBound

ASSUME DisputesAssumption == EvidenceBound \in Nat

ASSUME DeliverablesAssumption == VersionBound \in Nat

ASSUME ReviewsAssumption == JobBound \in Nat

VARIABLES
    part,
    mJob, mProposal, mContract, mRequest,
    dContract, dJobClosed, dDispute, dChosen, dEvidence, dRaised, dKey, dQueued, dMoved,
    dRequest,
    vStatus, vVersions, vRevisions, vRequest,
    rEligible, rCreated, rExpired, rReview, rSubmit, rRestored, rJobs, rProfile, rWorker

marketVars      == <<mJob, mProposal, mContract, mRequest>>
disputeVars     == <<dContract, dJobClosed, dDispute, dChosen, dEvidence, dRaised, dKey,
                     dQueued, dMoved, dRequest>>
deliverableVars == <<vStatus, vVersions, vRevisions, vRequest>>
reviewVars      == <<rEligible, rCreated, rExpired, rReview, rSubmit, rRestored, rJobs,
                     rProfile, rWorker>>

Market == INSTANCE Marketplace WITH
    Request <- Actor, job <- mJob, proposal <- mProposal, contract <- mContract,
    request <- mRequest

Dispute == INSTANCE Disputes WITH
    Request <- Actor, contract <- dContract, jobClosed <- dJobClosed, dispute <- dDispute,
    chosen <- dChosen, evidence <- dEvidence, raised <- dRaised, key <- dKey,
    queued <- dQueued, moved <- dMoved, request <- dRequest

Deliverable == INSTANCE Deliverables WITH
    Request <- Actor, status <- vStatus, versions <- vVersions, revisions <- vRevisions,
    request <- vRequest

Reviewing == INSTANCE Reviews WITH
    Worker <- Actor, eligible <- rEligible, created <- rCreated, expired <- rExpired,
    review <- rReview, submit <- rSubmit, restored <- rRestored, jobs <- rJobs,
    profile <- rProfile, worker <- rWorker

Alike == Permutations(Actor) \cup Permutations(Artisan)

(* The parts that are not the one chosen rest.                              *)
SumInit ==
    /\ part \in {"wallet", "market", "dispute", "deliverable", "review"}
    /\ Init /\ Market!Init /\ Dispute!Init /\ Deliverable!Init /\ Reviewing!Init
    /\ part # "dispute" => dContract = "FUNDED"

sumVars == <<part, vars, marketVars, disputeVars, deliverableVars, reviewVars>>

SumNext ==
    \/ /\ part = "wallet" /\ Next
       /\ UNCHANGED <<part, marketVars, disputeVars, deliverableVars, reviewVars>>
    \/ /\ part = "market" /\ Market!Next
       /\ UNCHANGED <<part, vars, disputeVars, deliverableVars, reviewVars>>
    \/ /\ part = "dispute" /\ Dispute!Next
       /\ UNCHANGED <<part, vars, marketVars, deliverableVars, reviewVars>>
    \/ /\ part = "deliverable" /\ Deliverable!Next
       /\ UNCHANGED <<part, vars, marketVars, disputeVars, reviewVars>>
    \/ /\ part = "review" /\ Reviewing!Next
       /\ UNCHANGED <<part, vars, marketVars, disputeVars, deliverableVars>>

SumSpec == SumInit /\ [][SumNext]_sumVars
-----------------------------------------------------------------------------
(* Every row, request and balance keeps to its type.                        *)
TypesCorrect ==
    CASE part = "wallet"      -> TypeOK
      [] part = "market"      -> Market!TypeOK
      [] part = "dispute"     -> Dispute!TypeOK
      [] part = "deliverable" -> Deliverable!TypeOK
      [] part = "review"      -> Reviewing!TypeOK

(* A decision on a proposal, a dispute or a deliverable is undone only by a *)
(* handler that had read the row before it was decided.                     *)
UndoneOnlyByStaleRead ==
    /\ Market!DecisionUndoneOnlyByStaleRead
    /\ Dispute!DecisionOverwrittenOnlyByStaleRead
    /\ Deliverable!ApprovalUndoneOnlyByStaleRead

(* A job is contracted once, however many proposals were accepted           *)
(* (ContractsService.createContract).                                       *)
OneContract == Market!OneContract

(* The money of a dispute moves at most once in each direction, whoever     *)
(* resolves it how often (PaymentsService.initiatePayout, refundContract),  *)
MovedOncePerDirection == Dispute!MovedOncePerDirection

(* and in a direction that somebody decided (PaymentsListener).             *)
MoneyFollowsDecision == Dispute!MoneyFollowsDecision

(* Versions of a deliverable are numbered in the order they are inserted in *)
(* (DeliverablesService.submitVersion).                                     *)
VersionsInOrder == Deliverable!VersionsInOrder

(* Nobody's review is published before both are there, unless an            *)
(* administrator does it (ReviewsService.submitReview).                     *)
BlindUnlessRestored == Reviewing!BlindUnlessRestored
=============================================================================
