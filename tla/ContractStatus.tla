--------------------------- MODULE ContractStatus ---------------------------
(***************************************************************************)
(* The statuses of a contract and the table of transitions that             *)
(* ContractsService allows between them, validStateTransitions in           *)
(* src/src/modules/contracts/contracts.service.ts.                          *)
(***************************************************************************)

Status ==
    {"DRAFT", "PENDING_PAYMENT", "FUNDED", "ACTIVE", "IN_PROGRESS",
     "CLIENT_CONFIRMED", "READY_FOR_PAYOUT", "COMPLETED", "PAID_OUT",
     "CANCELLED", "DISPUTED", "REFUNDED", "PAYMENT_FAILED", "EXPIRED"}

validStateTransitions ==
    [s \in Status |->
       CASE s = "DRAFT"            -> {"PENDING_PAYMENT", "CANCELLED"}
         [] s = "PENDING_PAYMENT"  -> {"FUNDED", "CANCELLED", "PAYMENT_FAILED",
                                       "EXPIRED"}
         [] s = "FUNDED"           -> {"ACTIVE", "CANCELLED"}
         [] s = "ACTIVE"           -> {"IN_PROGRESS", "DISPUTED", "CANCELLED"}
         [] s = "IN_PROGRESS"      -> {"CLIENT_CONFIRMED", "DISPUTED", "CANCELLED"}
         [] s = "CLIENT_CONFIRMED" -> {"READY_FOR_PAYOUT", "DISPUTED", "IN_PROGRESS"}
         [] s = "READY_FOR_PAYOUT" -> {"PAID_OUT", "DISPUTED"}
         [] s = "DISPUTED"         -> {"REFUNDED", "PAID_OUT"}
         [] s = "PAYMENT_FAILED"   -> {"PENDING_PAYMENT", "CANCELLED"}
         [] OTHER                  -> {}]

(* validateStateTransition does not throw                                   *)
ValidTransition(from, to) == to \in validStateTransitions[from]

(* The statuses the table comments as "Terminal state"                      *)
Terminal == {"PAID_OUT", "COMPLETED", "REFUNDED", "CANCELLED", "EXPIRED"}
=============================================================================
