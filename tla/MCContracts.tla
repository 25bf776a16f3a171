---------------------------- MODULE MCContracts ----------------------------
(***************************************************************************)
(* Contracts.tla for TLC.  Handler invocations are interchangeable, so the  *)
(* runs that check safety only take them up to symmetry.                    *)
(***************************************************************************)
EXTENDS Contracts, TLC

CallersAlike == Permutations(Caller)

(* The rows a handler can meet in a system where the documented lifecycle   *)
(* is followed.                                                             *)
LiveStatus == {"PENDING_PAYMENT", "FUNDED", "IN_PROGRESS", "CLIENT_CONFIRMED",
               "READY_FOR_PAYOUT", "DISPUTED"}
=============================================================================
