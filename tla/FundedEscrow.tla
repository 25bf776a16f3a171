---------------------------- MODULE FundedEscrow ----------------------------
(***************************************************************************)
(* What verification of contract payments promises to the ledger: money     *)
(* the client really paid is recorded once, and nothing else is.            *)
(* Funding.tla implements it, crashes and rolled back transactions          *)
(* included.                                                                *)
(***************************************************************************)
EXTENDS Integers

CONSTANTS Payment, Amount

VARIABLES paid,      \* the payments whose charge succeeded at Paystack
          recorded,  \* the payments recorded as verified
          escrow     \* what the ledger holds in escrow

vars == <<paid, recorded, escrow>>

Init == paid = {} /\ recorded = {} /\ escrow = 0

Pay(p) == /\ p \notin paid
          /\ paid' = paid \cup {p}
          /\ UNCHANGED <<recorded, escrow>>

Record(p) == /\ p \in paid \ recorded
             /\ recorded' = recorded \cup {p}
             /\ escrow' = escrow + Amount
             /\ UNCHANGED paid

Next == \E p \in Payment : Pay(p) \/ Record(p)

Spec == Init /\ [][Next]_vars
=============================================================================
