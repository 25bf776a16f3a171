--------------------------- MODULE Notifications ---------------------------
(***************************************************************************)
(* NotificationsListener, the routing worker and the delivery workers, for  *)
(* one event.  The routing job has one attempt, a delivery job Tries;       *)
(* BullMQ runs a job again whose process died (it stalled).                 *)
(***************************************************************************)
EXTENDS Naturals, FiniteSets

CONSTANTS
    Channel,    \* IN_APP, EMAIL
    Tries,      \* attempts: 3 in dispatchToChannel
    StallBound  \* how many processes die with a job

Notice  == 0..StallBound    \* rows of Notification: one for each time routing began
Attempt == Notice \X Channel

VARIABLES
    route,      \* the routing job
    notices,    \* the rows of Notification that were created
    status,     \* DeliveryAttempt.status
    job,        \* attempts left of each delivery job
    at,         \* what the worker does with it
    sent,       \* how often the mail or the socket message went out
    stalls      \* how many processes died

vars   == <<route, notices, status, job, at, sent, stalls>>
delivery == <<status, job, at, sent>>

TypeOK == /\ route.at \in {"none", "waiting", "created", "dispatch", "done", "failed"}
          /\ route.left \subseteq Channel
          /\ notices \in 0..(StallBound + 1)
          /\ status \in [Attempt -> {"none", "QUEUED", "PROCESSING", "DELIVERED", "FAILED"}]
          /\ job \in [Attempt -> 0..Tries]
          /\ at \in [Attempt -> {"idle", "send", "sent"}]
          /\ sent \in [Attempt -> 0..(Tries + StallBound)]
          /\ stalls \in 0..StallBound

Init == /\ route = [at |-> "none", left |-> {}]
        /\ notices = 0
        /\ status = [a \in Attempt |-> "none"]
        /\ job = [a \in Attempt |-> 0]
        /\ at = [a \in Attempt |-> "idle"]
        /\ sent = [a \in Attempt |-> 0]
        /\ stalls = 0
-----------------------------------------------------------------------------
(* One of the five events that are listened to                              *)
Dispatch ==
    /\ route.at = "none"
    /\ route' = [route EXCEPT !.at = "waiting"]
    /\ UNCHANGED <<notices, delivery, stalls>>

(* process: a row, before anything is looked up                             *)
CreateNotification ==
    /\ route.at = "waiting"
    /\ route' = [route EXCEPT !.at = "created"]
    /\ notices' = notices + 1
    /\ UNCHANGED <<delivery, stalls>>

(* isChannelEnabled: the preferences of the user allow any set of channels, *)
(* and a CRITICAL event goes to all.                                        *)
ReadPreferences ==
    /\ route.at = "created"
    /\ \E S \in SUBSET Channel : route' = [at |-> "dispatch", left |-> S]
    /\ UNCHANGED <<notices, delivery, stalls>>

(* dispatchToChannel, of all channels at once: the attempt,                 *)
CreateAttempt(c) ==
    LET a == <<notices - 1, c>>
    IN  /\ route.at = "dispatch" /\ c \in route.left
        /\ status[a] = "none"
        /\ status' = [status EXCEPT ![a] = "QUEUED"]
        /\ UNCHANGED <<route, notices, job, at, sent, stalls>>

(* and its job; when all are there the routing job is done.                 *)
QueueDelivery(c) ==
    LET a == <<notices - 1, c>>
    IN  /\ route.at = "dispatch" /\ c \in route.left
        /\ status[a] = "QUEUED"
        /\ job' = [job EXCEPT ![a] = Tries]
        /\ route' = [route EXCEPT !.left = @ \ {c}]
        /\ UNCHANGED <<notices, status, at, sent, stalls>>

RoutingDone ==
    /\ route.at = "dispatch" /\ route.left = {}
    /\ route' = [route EXCEPT !.at = "done"]
    /\ UNCHANGED <<notices, delivery, stalls>>

(* A statement throws: the job has no other attempt.                        *)
RoutingFails ==
    /\ route.at \in {"created", "dispatch"}
    /\ route' = [at |-> "failed", left |-> {}]
    /\ UNCHANGED <<notices, delivery, stalls>>

(* The process dies: the job waits again, from its beginning.               *)
RoutingStalls ==
    /\ stalls < StallBound
    /\ route.at \in {"created", "dispatch"}
    /\ route' = [at |-> "waiting", left |-> {}]
    /\ stalls' = stalls + 1
    /\ UNCHANGED <<notices, delivery>>
-----------------------------------------------------------------------------
(* EmailDeliveryProcessor, InAppDeliveryProcessor                           *)
BeginDelivery(a) ==
    /\ job[a] > 0 /\ at[a] = "idle"
    /\ status' = [status EXCEPT ![a] = "PROCESSING"]
    /\ at' = [at EXCEPT ![a] = "send"]
    /\ UNCHANGED <<route, notices, job, sent, stalls>>

(* mutant: the attempt is DELIVERED before it is sent                       *)
RecordFirst(a) ==
    /\ at[a] \in {"send", "sent"}
    /\ status' = [status EXCEPT ![a] = "DELIVERED"]
    /\ at' = [at EXCEPT ![a] = "idle"]
    /\ job' = [job EXCEPT ![a] = 0]
    /\ UNCHANGED <<route, notices, sent, stalls>>

Send(a) ==
    /\ at[a] = "send"
    /\ sent' = [sent EXCEPT ![a] = @ + 1]
    /\ at' = [at EXCEPT ![a] = "sent"]
    /\ UNCHANGED <<route, notices, status, job, stalls>>

Record(a) ==
    /\ at[a] = "sent"
    /\ status' = [status EXCEPT ![a] = "DELIVERED"]
    /\ at' = [at EXCEPT ![a] = "idle"]
    /\ job' = [job EXCEPT ![a] = 0]
    /\ UNCHANGED <<route, notices, sent, stalls>>

(* Nobody to send to, the mail service or a statement fails, after the mail *)
(* was sent too: FAILED, and BullMQ tries again.                            *)
DeliveryFails(a) ==
    /\ at[a] # "idle"
    /\ status' = [status EXCEPT ![a] = "FAILED"]
    /\ at' = [at EXCEPT ![a] = "idle"]
    /\ job' = [job EXCEPT ![a] = @ - 1]
    /\ UNCHANGED <<route, notices, sent, stalls>>

(* The process dies; the attempt it was does not count.                     *)
DeliveryStalls(a) ==
    /\ stalls < StallBound
    /\ at[a] # "idle"
    /\ at' = [at EXCEPT ![a] = "idle"]
    /\ stalls' = stalls + 1
    /\ UNCHANGED <<route, notices, status, job, sent>>
-----------------------------------------------------------------------------
Next == \/ Dispatch \/ CreateNotification \/ ReadPreferences \/ RoutingDone
        \/ RoutingFails \/ RoutingStalls
        \/ \E c \in Channel : CreateAttempt(c) \/ QueueDelivery(c)
        \/ \E a \in Attempt : \/ BeginDelivery(a) \/ Send(a) \/ Record(a)
                              \/ DeliveryFails(a) \/ DeliveryStalls(a)

Spec == Init /\ [][Next]_vars
-----------------------------------------------------------------------------
(* What is DELIVERED went out, and no attempt is left PROCESSING without a  *)
(* job that will take it up again, whichever worker throws or dies.         *)
DeliveredIsSent ==
    \A a \in Attempt : /\ status[a] = "DELIVERED" => sent[a] > 0
                       /\ status[a] = "PROCESSING" => job[a] > 0

(* Not so: an event makes one notification (a routing job that stalled      *)
(* begins anew),                                                            *)
NotifiedOnce == notices <= 1

(* and what is FAILED in the end was not sent (Record may fail).            *)
FailedIsNotSent ==
    \A a \in Attempt : status[a] = "FAILED" /\ job[a] = 0 => sent[a] = 0
=============================================================================
