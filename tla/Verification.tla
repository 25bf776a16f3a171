---------------------------- MODULE Verification ----------------------------
(***************************************************************************)
(* The verification of one artisan: MarketplaceVerificationService,         *)
(* FinancialVerificationService and the two operations of AdminService,     *)
(* which keeps a flag of its own, User.artisanVerified.  A request reads,   *)
(* writes and emits; between these steps others run.                        *)
(***************************************************************************)
EXTENDS Naturals

CONSTANTS
    Request,
    RefBound    \* sessions with the identity provider

None == 0       \* no reference

VARIABLES
    row,        \* ArtisanVerification: created or not, its two statuses, the reference
    flag,       \* User.artisanVerified
    req,        \* what each request read and is about to do
    refs,       \* sessions begun with the provider
    granted,    \* was payout.eligibility.granted emitted since the row is eligible?
    silent      \* was the row approved by verifyArtisan, which emits nothing?

vars == <<row, flag, req, refs, granted, silent>>

Market    == {"NOT_SUBMITTED", "PENDING_REVIEW", "APPROVED", "REJECTED"}
Financial == {"NOT_STARTED", "PENDING", "VERIFIED", "FAILED"}
Row  == [created : BOOLEAN, market : Market, fin : Financial, ref : 0..RefBound]
Idle == [op |-> "idle"]

TypeOK == /\ row \in Row
          /\ flag \in BOOLEAN
          /\ req \in [Request ->
                {Idle}
                \cup [op : {"initiate"}, read : Row]
                \cup [op : {"webhook"}, read : Row, result : Financial]
                \cup [op : {"emit"}, emits : SUBSET {"granted", "revoked"}]
                \cup [op : {"verifyArtisan"}]]
          /\ refs \in 0..RefBound
          /\ granted \in BOOLEAN /\ silent \in BOOLEAN

Init == /\ row = [created |-> FALSE, market |-> "NOT_SUBMITTED",
                  fin |-> "NOT_STARTED", ref |-> None]
        /\ flag = FALSE
        /\ req = [r \in Request |-> Idle]
        /\ refs = 0
        /\ granted = FALSE /\ silent = FALSE

Eligible(v) == v.market = "APPROVED" /\ v.fin = "VERIFIED"

(* update: the row as it is now, with some columns replaced.                *)
Update(new) ==
    /\ row' = new
    /\ granted' = (granted /\ Eligible(new))
-----------------------------------------------------------------------------
(* submitProfile, getStatus: an upsert, or a row of defaults                *)
Submit ==
    /\ Update([row EXCEPT !.created = TRUE, !.market = "PENDING_REVIEW"])
    /\ UNCHANGED <<flag, req, refs, silent>>

GetStatus ==
    /\ ~row.created
    /\ row' = [row EXCEPT !.created = TRUE]
    /\ UNCHANGED <<flag, req, refs, granted, silent>>

(* checkEligibility of the marketplace only grants.                         *)
ApproveEmits(new) == IF Eligible(new) THEN {"granted"} ELSE {}

Approve(r) ==
    LET new == [row EXCEPT !.market = "APPROVED"]
    IN  /\ req[r] = Idle /\ row.created
        /\ Update(new)
        /\ silent' = FALSE
        /\ req' = [req EXCEPT ![r] = [op |-> "emit", emits |-> ApproveEmits(new)]]
        /\ UNCHANGED <<flag, refs>>

Reject ==
    /\ row.created
    /\ Update([row EXCEPT !.market = "REJECTED"])
    /\ UNCHANGED <<flag, req, refs, silent>>
-----------------------------------------------------------------------------
ReadForInitiate(r) ==
    /\ req[r] = Idle
    /\ row.fin # "VERIFIED"
    /\ row' = [row EXCEPT !.created = TRUE]
    /\ req' = [req EXCEPT ![r] = [op |-> "initiate", read |-> row']]
    /\ UNCHANGED <<flag, refs, granted, silent>>

(* The session with the provider, and the update by user.                   *)
Initiate(r) ==
    /\ req[r].op = "initiate" /\ refs < RefBound
    /\ refs' = refs + 1
    /\ Update([row EXCEPT !.fin = "PENDING", !.ref = refs'])
    /\ req' = [req EXCEPT ![r] = Idle]
    /\ UNCHANGED <<flag, silent>>

(* handleWebhook: the row with that reference, unless its status is the     *)
(* result's already; any event but two means PENDING.                       *)
ReadForWebhook(r) ==
    /\ req[r] = Idle /\ row.ref # None
    /\ \E result \in {"VERIFIED", "FAILED", "PENDING"} \ {row.fin} :
          req' = [req EXCEPT ![r] = [op |-> "webhook", read |-> row, result |-> result]]
    /\ UNCHANGED <<row, flag, refs, granted, silent>>

(* checkEligibility of the financial side revokes too.                      *)
EmitsFor(updated) == IF Eligible(updated) THEN {"granted"} ELSE {"revoked"}

(* mutant: the emission is decided by the row that was read                 *)
HandleWebhookStale(r) ==
    LET new == [row EXCEPT !.fin = req[r].result]
    IN  /\ req[r].op = "webhook"
        /\ Update(new)
        /\ req' = [req EXCEPT ![r] =
                     [op |-> "emit",
                      emits |-> EmitsFor([req[r].read EXCEPT !.fin = new.fin])]]
        /\ UNCHANGED <<flag, refs, silent>>

HandleWebhook(r) ==
    LET new == [row EXCEPT !.fin = req[r].result]
    IN  /\ req[r].op = "webhook"
        /\ Update(new)
        /\ req' = [req EXCEPT ![r] =
                     [op |-> "emit", emits |-> EmitsFor(new)]]
        /\ UNCHANGED <<flag, refs, silent>>

(* A granted that comes after the row changed again does not count.         *)
Emit(r) ==
    /\ req[r].op = "emit"
    /\ granted' = (granted \/ ("granted" \in req[r].emits /\ Eligible(row)))
    /\ req' = [req EXCEPT ![r] = Idle]
    /\ UNCHANGED <<row, flag, refs, silent>>
-----------------------------------------------------------------------------
(* AdminService.verifyArtisan: the flag, and after it the status.           *)
VerifyArtisan(r) ==
    /\ req[r] = Idle /\ ~flag
    /\ flag' = TRUE
    /\ req' = [req EXCEPT ![r] = [op |-> "verifyArtisan"]]
    /\ UNCHANGED <<row, refs, granted, silent>>

ApproveSilently(r) ==
    /\ req[r].op = "verifyArtisan"
    /\ IF row.created
       THEN /\ Update([row EXCEPT !.market = "APPROVED"])
            /\ silent' = TRUE
       ELSE UNCHANGED <<row, granted, silent>>
    /\ req' = [req EXCEPT ![r] = Idle]
    /\ UNCHANGED <<flag, refs>>

Next == \/ Submit \/ GetStatus \/ Reject
        \/ \E r \in Request : \/ Approve(r) \/ ReadForInitiate(r) \/ Initiate(r)
                              \/ ReadForWebhook(r) \/ HandleWebhook(r) \/ Emit(r)
                              \/ VerifyArtisan(r) \/ ApproveSilently(r)

Spec == Init /\ [][Next]_vars
-----------------------------------------------------------------------------
(* Whichever of approval and identity check comes last, even when they run  *)
(* together, an artisan who may be paid out is told so once nothing is      *)
(* pending, unless the approval was verifyArtisan's.                        *)
EligibleIsAnnounced ==
    Eligible(row) /\ ~silent /\ (\A r \in Request : req[r].op # "emit") => granted

(* Not so: the flag and the status go together (reject and Submit leave the *)
(* flag, approve does not set it),                                          *)
FlagIsStatus ==
    (\A r \in Request : req[r] = Idle) => (flag <=> row.market = "APPROVED")

(* and a check that succeeded stays (an initiate that read before it, and   *)
(* any event but two, set PENDING again).                                   *)
VerifiedStays == [][row.fin = "VERIFIED" => row'.fin # "PENDING"]_vars
=============================================================================
