---------------------------- MODULE Deliverables ----------------------------
(***************************************************************************)
(* DeliverablesService: the versions an artisan submits for one contract,   *)
(* and what the client says of them.  Every handler reads the deliverable,  *)
(* decides, and writes by id; the version number is computed from the       *)
(* versions that were read, and the unique (deliverableId, versionNumber)   *)
(* refuses the second writer of a number.  Nothing makes the deliverable of *)
(* a contract unique.                                                       *)
(***************************************************************************)
EXTENDS Naturals, Sequences

CONSTANTS
    Request,        \* concurrent requests of the client and the artisan
    VersionBound    \* how many versions are submitted

Row == {1, 2}       \* rows of Deliverable; two requests create at most two
Approved == {"APPROVED"}    \* nothing sets COMPLETED

DeliverableStatus == {"none", "NOT_STARTED", "SUBMITTED", "UNDER_REVIEW",
                      "REVISION_REQUESTED", "RESUBMITTED", "APPROVED"}

VARIABLES
    status,     \* the status of each row
    versions,   \* the version numbers of each row, as they were inserted
    revisions,  \* the versions with a PENDING revision request
    request     \* what each request is doing, and what it read

vars == <<status, versions, revisions, request>>

Op   == {"none", "submit", "view", "revise", "approve"}
Idle == [op |-> "none", of |-> 1, at |-> "idle", latest |-> 0, approved |-> FALSE]

TypeOK == /\ status \in [Row -> DeliverableStatus]
          /\ \A d \in Row : /\ Len(versions[d]) <= VersionBound
                            /\ \A i \in DOMAIN versions[d] : versions[d][i] \in 1..VersionBound
          /\ revisions \in [Row -> SUBSET (1..VersionBound)]
          /\ request \in [Request -> [op : Op, of : Row, at : {"idle", "missing", "read"},
                                      latest : 0..VersionBound, approved : BOOLEAN]]

Init == /\ status = [d \in Row |-> "none"]
        /\ versions = [d \in Row |-> <<>>]
        /\ revisions = [d \in Row |-> {}]
        /\ request = [r \in Request |-> Idle]

Numbers(d) == {versions[d][i] : i \in DOMAIN versions[d]}
Latest(d)  == IF versions[d] = <<>> THEN 0
              ELSE CHOOSE n \in Numbers(d) : \A m \in Numbers(d) : m <= n

Read(r, op, d) == request' = [request EXCEPT ![r] =
                     [op |-> op, of |-> d, at |-> "read", latest |-> Latest(d),
                      approved |-> status[d] \in Approved]]

Leave(r)      == request' = [request EXCEPT ![r] = Idle]
Writes(r, op) == request[r].op = op /\ request[r].at = "read" /\ Leave(r)
-----------------------------------------------------------------------------
(* submitVersion, getDeliverableForContract: findFirst, any row there is.   *)
FindDeliverable(r) ==
    /\ request[r] = Idle
    /\ \/ \E d \in Row : /\ status[d] \notin Approved \cup {"none"}
                         /\ Read(r, "submit", d)
       \/ /\ \A d \in Row : status[d] = "none"
          /\ request' = [request EXCEPT ![r].op = "submit", ![r].at = "missing"]
    /\ UNCHANGED <<status, versions, revisions>>

(* None was found: one is created, whoever else created one.                *)
CreateDeliverable(r, d) ==
    /\ request[r].at = "missing"
    /\ status[d] = "none" /\ \A c \in Row : c < d => status[c] # "none"
    /\ status' = [status EXCEPT ![d] = "NOT_STARTED"]
    /\ request' = [request EXCEPT ![r].of = d, ![r].at = "read"]
    /\ UNCHANGED <<versions, revisions>>

(* mutant: a number may be taken twice                                      *)
StoreAnyVersion(r) ==
    LET d == request[r].of
        n == request[r].latest + 1
    IN  /\ Writes(r, "submit")
        /\ Len(versions[d]) < VersionBound
        /\ versions' = [versions EXCEPT ![d] = Append(@, n)]
        /\ status' = [status EXCEPT ![d] = IF n = 1 THEN "SUBMITTED" ELSE "RESUBMITTED"]
        /\ UNCHANGED revisions

(* The transaction, or the unique index refuses the number.                 *)
StoreVersion(r) ==
    LET d == request[r].of
        n == request[r].latest + 1
    IN  /\ Writes(r, "submit")
        /\ n <= VersionBound
        /\ IF n \in Numbers(d)
           THEN UNCHANGED <<versions, status>>
           ELSE /\ versions' = [versions EXCEPT ![d] = Append(@, n)]
                /\ status' = [status EXCEPT ![d] = IF n = 1 THEN "SUBMITTED"
                                                            ELSE "RESUBMITTED"]
        /\ UNCHANGED revisions

(* mutant: an approved deliverable may be revised                           *)
ReadAnyForReview(r, op, d) ==
    /\ request[r] = Idle
    /\ versions[d] # <<>>
    /\ Read(r, op, d)
    /\ UNCHANGED <<status, versions, revisions>>

(* markAsViewed, requestRevision, approve, by the client                    *)
ReadForReview(r, op, d) ==
    /\ request[r] = Idle
    /\ versions[d] # <<>>
    /\ op = "view"   => status[d] \in {"SUBMITTED", "RESUBMITTED"}
    /\ op = "revise" => status[d] \notin Approved
    /\ Read(r, op, d)
    /\ UNCHANGED <<status, versions, revisions>>

MarkAsViewed(r) ==
    /\ Writes(r, "view")
    /\ status' = [status EXCEPT ![request[r].of] = "UNDER_REVIEW"]
    /\ UNCHANGED <<versions, revisions>>

RequestRevision(r) ==
    LET d == request[r].of
    IN  /\ Writes(r, "revise")
        /\ revisions' = [revisions EXCEPT ![d] = @ \cup {request[r].latest}]
        /\ status' = [status EXCEPT ![d] = "REVISION_REQUESTED"]
        /\ UNCHANGED versions

(* The revisions of the version that was the latest are resolved.           *)
Approve(r) ==
    LET d == request[r].of
    IN  /\ Writes(r, "approve")
        /\ revisions' = [revisions EXCEPT ![d] = @ \ {request[r].latest}]
        /\ status' = [status EXCEPT ![d] = "APPROVED"]
        /\ UNCHANGED versions

(* The request dies; or it only wanted to see the deliverable it created.   *)
Fails(r) ==
    /\ request[r] # Idle
    /\ Leave(r)
    /\ UNCHANGED <<status, versions, revisions>>

Next == \E r \in Request :
           \/ FindDeliverable(r) \/ StoreVersion(r)
           \/ MarkAsViewed(r) \/ RequestRevision(r) \/ Approve(r) \/ Fails(r)
           \/ \E d \in Row : \/ CreateDeliverable(r, d)
                             \/ \E op \in {"view", "revise", "approve"} : ReadForReview(r, op, d)

Spec == Init /\ [][Next]_vars
-----------------------------------------------------------------------------
(* However submissions race, the versions of a deliverable are 1, 2, 3, ... *)
(* in the order of their insertion, and it is NOT_STARTED exactly until the *)
(* first: a status never speaks of a version that is not there.             *)
VersionsInOrder ==
    \A d \in Row : /\ \A i \in DOMAIN versions[d] : versions[d][i] = i
                   /\ versions[d] = <<>> <=> status[d] \in {"none", "NOT_STARTED"}
                   /\ revisions[d] \subseteq Numbers(d)

(* An approval is undone only by a request that had read the deliverable    *)
(* before ("Cannot request revision on an approved deliverable").           *)
ApprovalUndoneOnlyByStaleRead ==
    [][\A d \in Row :
          status[d] \in Approved /\ status'[d] # status[d]
          => \E r \in Request : /\ request[r].of = d /\ ~request[r].approved
                                /\ request[r].at = "read" /\ request'[r] = Idle]_vars

(* Not so: a contract has one deliverable,                                  *)
OneDeliverable == status[2] = "none"

(* what is approved has no version that came after the approval was decided *)
(* and no revision pending.                                                 *)
ApprovedIsSettled == \A d \in Row : status[d] \in Approved => revisions[d] = {}
=============================================================================
