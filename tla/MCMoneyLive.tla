---------------------------- MODULE MCMoneyLive ----------------------------
(***************************************************************************)
(* What must happen in the end to a contract, its payment and its payout,   *)
(* when no process dies and no transaction times out, for TLC.  A behaviour *)
(* is one of Contracts, of Funding or of Settlement, which "part" names;    *)
(* fairness is that of the three modules, each as long as its part runs.    *)
(* The properties of Funding hold as they stand: what rests is not funded.  *)
(***************************************************************************)
EXTENDS Funding, TLC

CONSTANTS Caller, LiveStatus, MayCrash,
          Transfer, Refund, Delivery, PayableStatus, Fee, Attempts, Timely

VARIABLES
    part,
    cContract, cJob, cKey, call,
    status, row, feeKept, latest, sBalance, sKey, request, sJob, paystack, delivery

contractVars == <<cContract, cJob, cKey, call>>
settleVars   == <<status, row, feeKept, latest, sBalance, sKey, request, sJob, paystack,
                  delivery>>

Con == INSTANCE Contracts WITH
    StartStatus <- LiveStatus, contract <- cContract, job <- cJob, key <- cKey

Settle == INSTANCE Settlement WITH
    StartStatus <- PayableStatus, balance <- sBalance, key <- sKey, job <- sJob

(* The parts that are not the one chosen rest.                              *)
SumInit ==
    /\ part \in {"contracts", "funding", "settlement"}
    /\ Con!Init /\ Init /\ Settle!Init
    /\ part # "contracts" => cContract.status = "FUNDED"
    /\ part # "settlement" => status = "READY_FOR_PAYOUT"

sumVars == <<part, contractVars, vars, settleVars>>

SumNext ==
    \/ part = "contracts" /\ Con!Next /\ UNCHANGED <<part, vars, settleVars>>
    \/ part = "funding" /\ Next /\ UNCHANGED <<part, contractVars, settleVars>>
    \/ part = "settlement" /\ Settle!Next /\ UNCHANGED <<part, contractVars, vars>>

ContractsGoOn ==
    \A c \in Caller : WF_contractVars(part = "contracts" /\ Con!Handle(c))

FundingGoesOn ==
    /\ \A p \in Payment :
          WF_vars(part = "funding" /\ \E v \in Verifier : CheckPaid(v, p))
    /\ \A v \in Verifier : WF_vars(part = "funding" /\ Verify(v))

SettlementGoesOn ==
    /\ \A x \in Transfer \cup Refund :
          /\ WF_settleVars(part = "settlement" /\ Settle!Ask(x))
          /\ WF_settleVars(part = "settlement" /\ Settle!Work(x))
    /\ \A t \in Transfer :
          /\ WF_settleVars(part = "settlement" /\ Settle!EndTransfer(t))
          /\ SF_settleVars(/\ part = "settlement" /\ row[t] = "pending"
                           /\ \E d \in Delivery : \/ Settle!ReceiveSuccess(d, t)
                                                  \/ Settle!ReceiveFailure(d, t))
    /\ WF_settleVars(part = "settlement" /\ Settle!EndRefund)
    /\ \A d \in Delivery : WF_settleVars(part = "settlement" /\ Settle!Handle(d))

(* The conjuncts of Contracts!FairSpec, Funding!FairSpec, Settlement!FairSpec *)
SumFairSpec ==
    /\ SumInit /\ [][SumNext]_sumVars
    /\ ContractsGoOn /\ FundingGoesOn /\ SettlementGoesOn
-----------------------------------------------------------------------------
(* A paid out contract's job is COMPLETED in the end                        *)
(* (ContractsService.transitionContractStatusWithClient).                   *)
JobFollowsPayout == part = "contracts" => Con!JobFollowsPayout

(* Every recorded payout ends completed or failed                           *)
(* (PaystackWebhookService.handleTransferSuccess, handleTransferFailed),    *)
PayoutEnds == part = "settlement" => Settle!PayoutEnds

(* and a payout that succeeded makes its contract PAID_OUT.                 *)
PaidOutFollows == part = "settlement" => Settle!PaidOutFollows
=============================================================================
