--------------------------- MODULE WebhookIntake ---------------------------
(***************************************************************************)
(* PaymentsController.paystackWebhook and WebhookSignatureService: the      *)
(* deliveries of the events of one transfer or charge, and the Redis key    *)
(* that recognises those that were processed.  The key is the id of the     *)
(* data, so transfer.failed and transfer.success of one transfer share it.  *)
(* What the handlers do is Funding's, Settlement's and Wallet's.            *)
(***************************************************************************)
EXTENDS Naturals

CONSTANTS
    Event,          \* the events that have the key
    Delivery,       \* concurrent deliveries
    ExpiryBound     \* how often the key expires

VARIABLES
    key,        \* idempotency:paystack_webhook:<id>
    delivery,   \* what each delivery is doing
    handled,    \* how often a handler of each event did its work
    acked,      \* the events that were answered with 200: Paystack sends them no more
    expiries    \* how often the key expired

vars == <<key, delivery, handled, acked, expiries>>

Idle == [of |-> "none", at |-> "idle"]
Busy == [of : Event, at : {"checked", "acquired", "handled"}]

TypeOK == /\ key \in {"absent", "processing", "completed"}
          /\ delivery \in [Delivery -> {Idle} \cup Busy]
          /\ handled \in [Event -> Nat]
          /\ acked \subseteq Event
          /\ expiries \in 0..ExpiryBound

Init == /\ key = "absent"
        /\ delivery = [d \in Delivery |-> Idle]
        /\ handled = [e \in Event |-> 0]
        /\ acked = {}
        /\ expiries = 0

Leave(d)    == delivery' = [delivery EXCEPT ![d] = Idle]
Goto(d, step) == delivery' = [delivery EXCEPT ![d].at = step]
-----------------------------------------------------------------------------
(* isEventProcessed, with a valid signature: EXISTS, whether the key says   *)
(* "processing" or "completed".                                             *)
Receive(d, e) ==
    /\ delivery[d] = Idle
    /\ e \notin acked
    /\ IF key # "absent"
       THEN acked' = acked \cup {e} /\ UNCHANGED delivery
       ELSE /\ delivery' = [delivery EXCEPT ![d] = [of |-> e, at |-> "checked"]]
            /\ UNCHANGED acked
    /\ UNCHANGED <<key, handled, expiries>>

(* mutant: without NX                                                       *)
BeginAnyway(d) ==
    /\ delivery[d].at = "checked"
    /\ key' = "processing"
    /\ Goto(d, "acquired")
    /\ UNCHANGED <<handled, acked, expiries>>

(* tryBeginEventProcessing: SET NX PX; "already_processing" is a 200 too.   *)
TryBegin(d) ==
    /\ delivery[d].at = "checked"
    /\ IF key = "absent"
       THEN key' = "processing" /\ Goto(d, "acquired") /\ UNCHANGED acked
       ELSE acked' = acked \cup {delivery[d].of} /\ Leave(d) /\ UNCHANGED key
    /\ UNCHANGED <<handled, expiries>>

(* processPaystackWebhook: the handler of the event                         *)
Handle(d) ==
    /\ delivery[d].at = "acquired"
    /\ handled' = [handled EXCEPT ![delivery[d].of] = @ + 1]
    /\ Goto(d, "handled")
    /\ UNCHANGED <<key, acked, expiries>>

(* markEventProcessed sets the key whatever it is; then the answer.         *)
MarkProcessed(d) ==
    /\ delivery[d].at = "handled"
    /\ key' = "completed"
    /\ acked' = acked \cup {delivery[d].of}
    /\ Leave(d)
    /\ UNCHANGED <<handled, expiries>>

(* The handler or Redis throws, or the process dies: no 200, and the key    *)
(* stays as it is.                                                          *)
Fails(d) ==
    /\ delivery[d] # Idle
    /\ Leave(d)
    /\ UNCHANGED <<key, handled, acked, expiries>>

(* 10 minutes of processing, 7 days of completed                            *)
KeyExpires ==
    /\ key # "absent"
    /\ expiries < ExpiryBound
    /\ key' = "absent"
    /\ expiries' = expiries + 1
    /\ UNCHANGED <<delivery, handled, acked>>

Next == \/ \E d \in Delivery : \/ TryBegin(d) \/ Handle(d) \/ MarkProcessed(d) \/ Fails(d)
                               \/ \E e \in Event : Receive(d, e)
        \/ KeyExpires

Spec == Init /\ [][Next]_vars
-----------------------------------------------------------------------------
(* A second delivery is handled only if the key of the first expired:       *)
(* deliveries that overlap, retries and failures do not repeat the work.    *)
HandledOnce == \A e \in Event : handled[e] <= 1 + expiries

(* Not so: an event that was answered with 200 was handled, or is being     *)
(* handled (a retry after a failure, and the second of two events with one  *)
(* key, are "already_processed").                                           *)
AckedIsHandled ==
    \A e \in acked : handled[e] > 0 \/ \E d \in Delivery : delivery[d].of = e
=============================================================================
