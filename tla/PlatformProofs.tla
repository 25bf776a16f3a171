--------------------------- MODULE PlatformProofs ---------------------------
(***************************************************************************)
(* Theorems of the other parts of MCPlatform: WebhookIntake, Notifications, *)
(* Verification and Chat, for any events, deliveries, channels, requests,   *)
(* users and messages, and any bounds; and the types of all ten.            *)
(***************************************************************************)
EXTENDS AccessProofs

-----------------------------------------------------------------------------
(* The deliveries that set the key and have not handled their event         *)
Admitted(e) == {d \in Delivery : delivery[d].of = e /\ delivery[d].at = "acquired"}

(* How often the key was set, of those times of which we know               *)
KeysSet == expiries + (IF key = "absent" THEN 0 ELSE 1)

(* Each handling, done or admitted, is of a key that was set.               *)
IntakeIInv ==
    /\ Intake!TypeOK
    /\ \A e \in Event : handled[e] + Cardinality(Admitted(e)) <= KeysSet

LEMMA AdmittedType ==
    ASSUME NEW e \in Event
    PROVE  /\ IsFiniteSet(Admitted(e)) /\ Cardinality(Admitted(e)) \in Nat
           /\ IsFiniteSet(Admitted(e)') /\ Cardinality(Admitted(e)') \in Nat
<1>1. Admitted(e) \in SUBSET Delivery /\ Admitted(e)' \in SUBSET Delivery
  BY DEF Admitted
<1> QED BY <1>1, FS_Subset, FS_CardinalityType, IntakeAssumption

LEMMA IntakeNumbers ==
    ASSUME Intake!TypeOK
    PROVE  expiries \in Nat /\ KeysSet \in Nat /\ \A e \in Event : handled[e] \in Nat
<1>1. expiries \in Nat
  BY IntakeAssumption DEF Intake!TypeOK
<1> QED BY <1>1 DEF KeysSet, Intake!TypeOK

LEMMA IntakeInitIInv == Intake!Init => IntakeIInv
<1> SUFFICES ASSUME Intake!Init PROVE IntakeIInv
  OBVIOUS
<1>1. Intake!TypeOK
  BY IntakeAssumption DEF Intake!Init, Intake!TypeOK, Intake!Idle
<1>2. ASSUME NEW e \in Event PROVE handled[e] + Cardinality(Admitted(e)) <= KeysSet
  <2>1. Admitted(e) = {}
    BY DEF Intake!Init, Intake!Idle, Admitted
  <2>2. Cardinality(Admitted(e)) = 0
    BY <2>1, FS_EmptySet
  <2> QED BY <2>2 DEF Intake!Init, KeysSet
<1> QED BY <1>1, <1>2 DEF IntakeIInv

(* A step that admits nobody and handles nothing, and forgets no key.       *)
LEMMA NobodyAdmitted ==
    ASSUME IntakeIInv, Intake!TypeOK', handled' = handled,
           KeysSet' \in Nat, KeysSet' >= KeysSet,
           \A e \in Event : Admitted(e)' \in SUBSET Admitted(e)
    PROVE  IntakeIInv'
<1>1. ASSUME NEW e \in Event PROVE handled'[e] + Cardinality(Admitted(e)') <= KeysSet'
  <2>1. Cardinality(Admitted(e)') <= Cardinality(Admitted(e))
    BY AdmittedType, FS_Subset
  <2>2. /\ Cardinality(Admitted(e)') \in Nat /\ Cardinality(Admitted(e)) \in Nat
        /\ handled[e] \in Nat /\ KeysSet \in Nat
    BY AdmittedType, IntakeNumbers DEF IntakeIInv
  <2>3. handled[e] + Cardinality(Admitted(e)) <= KeysSet
    BY DEF IntakeIInv
  <2> QED BY <2>1, <2>2, <2>3
<1> QED BY <1>1 DEF IntakeIInv

LEMMA ReceiveStep ==
    ASSUME IntakeIInv, NEW d \in Delivery, NEW e \in Event, Intake!Receive(d, e)
    PROVE  IntakeIInv'
<1>1. /\ handled' = handled /\ key' = key /\ expiries' = expiries
      /\ \/ delivery' = delivery
         \/ delivery' = [delivery EXCEPT ![d] = [of |-> e, at |-> "checked"]]
  BY DEF Intake!Receive
<1>2. Intake!TypeOK'
  <2>1. [of |-> e, at |-> "checked"] \in Intake!Busy
    BY DEF Intake!Busy
  <2>2. delivery' \in [Delivery -> {Intake!Idle} \cup Intake!Busy]
    BY <1>1, <2>1 DEF IntakeIInv, Intake!TypeOK
  <2> QED BY <1>1, <2>2 DEF IntakeIInv, Intake!TypeOK, Intake!Receive
<1>3. \A x \in Event : Admitted(x)' \in SUBSET Admitted(x)
  BY <1>1 DEF IntakeIInv, Intake!TypeOK, Admitted
<1>4. KeysSet' = KeysSet /\ KeysSet \in Nat
  BY <1>1, IntakeNumbers DEF IntakeIInv, KeysSet
<1> QED BY <1>1, <1>2, <1>3, <1>4, NobodyAdmitted

(* The key is set by one delivery, which it admits.                         *)
LEMMA TryBeginStep ==
    ASSUME IntakeIInv, NEW d \in Delivery, Intake!TryBegin(d)
    PROVE  IntakeIInv'
<1>1. Intake!TypeOK'
  <2>1. delivery[d] \in Intake!Busy
    BY DEF IntakeIInv, Intake!TypeOK, Intake!TryBegin, Intake!Idle
  <2>2. [delivery[d] EXCEPT !.at = "acquired"] \in Intake!Busy /\ delivery[d].of \in Event
    BY <2>1 DEF Intake!Busy
  <2>3. \/ delivery' = [delivery EXCEPT ![d] = [delivery[d] EXCEPT !.at = "acquired"]]
        \/ delivery' = [delivery EXCEPT ![d] = Intake!Idle]
    BY DEF Intake!TryBegin, Intake!Goto, Intake!Leave
  <2>4. delivery' \in [Delivery -> {Intake!Idle} \cup Intake!Busy]
    BY <2>2, <2>3 DEF IntakeIInv, Intake!TypeOK
  <2>5. /\ key' \in {"absent", "processing", "completed"} /\ acked' \subseteq Event
        /\ handled' = handled /\ expiries' = expiries
    BY <2>2 DEF IntakeIInv, Intake!TypeOK, Intake!TryBegin
  <2> QED BY <2>4, <2>5 DEF IntakeIInv, Intake!TypeOK
<1>2. CASE key = "absent"
  <2>1. /\ key' = "processing" /\ handled' = handled /\ expiries' = expiries
        /\ delivery' = [delivery EXCEPT ![d].at = "acquired"]
    BY <1>2 DEF Intake!TryBegin, Intake!Goto
  <2>2. KeysSet' = KeysSet + 1
    BY <1>2, <2>1, IntakeNumbers DEF KeysSet, IntakeIInv
  <2>3. ASSUME NEW e \in Event PROVE handled'[e] + Cardinality(Admitted(e)') <= KeysSet'
    <3>1. Admitted(e)' \in SUBSET (Admitted(e) \cup {d})
      BY <2>1 DEF IntakeIInv, Intake!TypeOK, Admitted
    <3>2. /\ IsFiniteSet(Admitted(e) \cup {d})
          /\ Cardinality(Admitted(e) \cup {d}) <= Cardinality(Admitted(e)) + 1
      <4>1. IsFiniteSet(Admitted(e)) /\ Cardinality(Admitted(e)) \in Nat
        BY AdmittedType
      <4>2. CASE d \in Admitted(e)
        <5>1. Admitted(e) \cup {d} = Admitted(e)
          BY <4>2
        <5>2. /\ Cardinality(Admitted(e) \cup {d}) = Cardinality(Admitted(e))
              /\ IsFiniteSet(Admitted(e) \cup {d})
          BY <4>1, <5>1
        <5> QED BY <4>1, <5>2
      <4>3. CASE d \notin Admitted(e)
        <5>1. /\ IsFiniteSet(Admitted(e) \cup {d})
              /\ Cardinality(Admitted(e) \cup {d}) = Cardinality(Admitted(e)) + 1
          BY <4>1, <4>3, FS_AddElement
        <5> QED BY <4>1, <5>1
      <4> QED BY <4>2, <4>3
    <3>3. Cardinality(Admitted(e)') <= Cardinality(Admitted(e) \cup {d})
      BY <3>1, <3>2, FS_Subset
    <3>4. /\ Cardinality(Admitted(e)') \in Nat /\ Cardinality(Admitted(e)) \in Nat
          /\ Cardinality(Admitted(e) \cup {d}) \in Nat
          /\ handled[e] \in Nat /\ KeysSet \in Nat
      BY <3>2, AdmittedType, FS_CardinalityType, IntakeNumbers DEF IntakeIInv
    <3>5. handled[e] + Cardinality(Admitted(e)) <= KeysSet
      BY DEF IntakeIInv
    <3> QED BY <2>1, <2>2, <3>2, <3>3, <3>4, <3>5
  <2> QED BY <1>1, <2>3 DEF IntakeIInv
<1>3. CASE key # "absent"
  <2>1. /\ handled' = handled /\ key' = key /\ expiries' = expiries
        /\ delivery' = [delivery EXCEPT ![d] = Intake!Idle]
    BY <1>3 DEF Intake!TryBegin, Intake!Leave
  <2>2. \A x \in Event : Admitted(x)' \in SUBSET Admitted(x)
    BY <2>1 DEF IntakeIInv, Intake!TypeOK, Admitted, Intake!Idle
  <2>3. KeysSet' = KeysSet /\ KeysSet \in Nat
    BY <2>1, IntakeNumbers DEF IntakeIInv, KeysSet
  <2> QED BY <1>1, <2>1, <2>2, <2>3, NobodyAdmitted
<1> QED BY <1>2, <1>3

(* An admitted delivery becomes a handled event.                            *)
LEMMA HandleStep ==
    ASSUME IntakeIInv, NEW d \in Delivery, Intake!Handle(d)
    PROVE  IntakeIInv'
<1>1. delivery[d] \in Intake!Busy /\ delivery[d].at = "acquired"
  BY DEF IntakeIInv, Intake!TypeOK, Intake!Handle, Intake!Idle
<1>2. /\ key' = key /\ expiries' = expiries /\ acked' = acked
      /\ handled' = [handled EXCEPT ![delivery[d].of] = @ + 1]
      /\ delivery' = [delivery EXCEPT ![d] = [delivery[d] EXCEPT !.at = "handled"]]
  BY DEF Intake!Handle, Intake!Goto
<1>3. Intake!TypeOK'
  <2>1. [delivery[d] EXCEPT !.at = "handled"] \in Intake!Busy /\ delivery[d].of \in Event
    BY <1>1 DEF Intake!Busy
  <2>2. delivery' \in [Delivery -> {Intake!Idle} \cup Intake!Busy]
    BY <1>2, <2>1 DEF IntakeIInv, Intake!TypeOK
  <2>3. handled' \in [Event -> Nat]
    BY <1>2, <2>1 DEF IntakeIInv, Intake!TypeOK
  <2> QED BY <1>2, <2>2, <2>3 DEF IntakeIInv, Intake!TypeOK
<1>4. ASSUME NEW e \in Event PROVE handled'[e] + Cardinality(Admitted(e)') <= KeysSet'
  <2>1. /\ handled[e] \in Nat /\ KeysSet' = KeysSet /\ KeysSet \in Nat
        /\ Cardinality(Admitted(e)) \in Nat /\ Cardinality(Admitted(e)') \in Nat
        /\ handled[e] + Cardinality(Admitted(e)) <= KeysSet
    BY <1>2, AdmittedType, IntakeNumbers DEF IntakeIInv, KeysSet
  <2>2. CASE e = delivery[d].of
    <3>1. d \in Admitted(e) /\ Admitted(e)' = Admitted(e) \ {d}
      BY <1>1, <1>2, <2>2 DEF IntakeIInv, Intake!TypeOK, Admitted
    <3>2. Cardinality(Admitted(e)') = Cardinality(Admitted(e)) - 1
      BY <3>1, AdmittedType, FS_RemoveElement
    <3>3. handled'[e] = handled[e] + 1
      BY <1>2, <2>2 DEF IntakeIInv, Intake!TypeOK
    <3> QED BY <2>1, <3>2, <3>3
  <2>3. CASE e # delivery[d].of
    <3>1. Admitted(e)' = Admitted(e)
      BY <1>1, <1>2, <2>3 DEF IntakeIInv, Intake!TypeOK, Admitted
    <3>2. handled'[e] = handled[e]
      BY <1>2, <2>3 DEF IntakeIInv, Intake!TypeOK
    <3> QED BY <2>1, <3>1, <3>2
  <2> QED BY <2>2, <2>3
<1> QED BY <1>3, <1>4 DEF IntakeIInv

(* MarkProcessed, Fails and KeyExpires                                      *)
LEMMA EndStep ==
    ASSUME IntakeIInv,
           \/ \E d \in Delivery : Intake!MarkProcessed(d) \/ Intake!Fails(d)
           \/ Intake!KeyExpires
    PROVE  IntakeIInv'
<1>1. handled' = handled
  BY DEF Intake!MarkProcessed, Intake!Fails, Intake!KeyExpires
<1>2. /\ \/ delivery' = delivery
         \/ \E d \in Delivery : delivery' = [delivery EXCEPT ![d] = Intake!Idle]
      /\ \/ key' = key /\ expiries' = expiries
         \/ key' = "completed" /\ expiries' = expiries
         \/ key # "absent" /\ key' = "absent" /\ expiries < ExpiryBound /\ expiries' = expiries + 1
  BY DEF Intake!MarkProcessed, Intake!Fails, Intake!KeyExpires, Intake!Leave
<1>3. acked' \subseteq Event
  <2>1. \A d \in Delivery : delivery[d].at = "handled" => delivery[d].of \in Event
    BY DEF IntakeIInv, Intake!TypeOK, Intake!Idle, Intake!Busy
  <2> QED BY <2>1 DEF IntakeIInv, Intake!TypeOK, Intake!MarkProcessed, Intake!Fails, Intake!KeyExpires
<1>4. delivery' \in [Delivery -> {Intake!Idle} \cup Intake!Busy]
  BY <1>2 DEF IntakeIInv, Intake!TypeOK
<1>5. key' \in {"absent", "processing", "completed"}
  BY <1>2 DEF IntakeIInv, Intake!TypeOK
<1>6. expiries' \in 0..ExpiryBound /\ expiries \in Nat /\ expiries' \in Nat
  BY <1>2, IntakeAssumption DEF IntakeIInv, Intake!TypeOK
<1>7. Intake!TypeOK'
  BY <1>1, <1>3, <1>4, <1>5, <1>6 DEF IntakeIInv, Intake!TypeOK
<1>8. \A e \in Event : Admitted(e)' \in SUBSET Admitted(e)
  BY <1>2 DEF IntakeIInv, Intake!TypeOK, Admitted, Intake!Idle
<1>9. KeysSet' \in Nat /\ KeysSet' >= KeysSet
  <2>1. CASE key # "absent" /\ key' = "absent" /\ expiries' = expiries + 1
    BY <1>6, <2>1 DEF KeysSet
  <2>2. CASE expiries' = expiries /\ (key' = key \/ key' = "completed")
    BY <1>6, <2>2 DEF KeysSet
  <2> QED BY <1>2, <2>1, <2>2
<1> QED BY <1>1, <1>7, <1>8, <1>9, NobodyAdmitted

LEMMA IntakeNextIInv == IntakeIInv /\ [Intake!Next]_(Intake!vars) => IntakeIInv'
<1> SUFFICES ASSUME IntakeIInv, [Intake!Next]_(Intake!vars) PROVE IntakeIInv'
  OBVIOUS
<1>1. ASSUME NEW d \in Delivery, NEW e \in Event, Intake!Receive(d, e) PROVE IntakeIInv'
  BY <1>1, ReceiveStep
<1>2. ASSUME NEW d \in Delivery, Intake!TryBegin(d) PROVE IntakeIInv'
  BY <1>2, TryBeginStep
<1>3. ASSUME NEW d \in Delivery, Intake!Handle(d) PROVE IntakeIInv'
  BY <1>3, HandleStep
<1>4. CASE (\E d \in Delivery : Intake!MarkProcessed(d) \/ Intake!Fails(d)) \/ Intake!KeyExpires
  BY <1>4, EndStep
<1>5. CASE UNCHANGED Intake!vars
  BY <1>5 DEF Intake!vars, IntakeIInv, Intake!TypeOK, Admitted, KeysSet
<1> QED BY <1>1, <1>2, <1>3, <1>4, <1>5 DEF Intake!Next

LEMMA IntakeIInvHandles == IntakeIInv => Intake!HandledOnce
<1> SUFFICES ASSUME IntakeIInv, NEW e \in Event PROVE handled[e] <= 1 + expiries
  BY DEF Intake!HandledOnce
<1>1. /\ Cardinality(Admitted(e)) \in Nat /\ handled[e] \in Nat /\ expiries \in Nat
      /\ handled[e] + Cardinality(Admitted(e)) <= KeysSet
  BY AdmittedType, IntakeNumbers DEF IntakeIInv
<1>2. KeysSet <= expiries + 1 /\ KeysSet \in Nat
  BY <1>1 DEF KeysSet
<1> QED BY <1>1, <1>2

(* tryBeginEventProcessing, however many deliveries of an event overlap,    *)
(* fail or are repeated: it is handled once, and once more for each time    *)
(* its key expired.                                                         *)
THEOREM HandledOncePerKey == (Intake!Spec => []HandledOnce) /\ (SumSpec => []HandledOnce)
<1>1. IntakeIInv => HandledOnce
  BY IntakeIInvHandles DEF HandledOnce
<1>2. Intake!Spec => []HandledOnce
  BY <1>1, IntakeInitIInv, IntakeNextIInv, PTL DEF Intake!Spec
<1>3. SumSpec => []HandledOnce
  BY <1>1, IntakeInitIInv, IntakeNextIInv, PartInits, PartSteps, PTL DEF SumSpec
<1> QED BY <1>2, <1>3
-----------------------------------------------------------------------------
(* Notifications: what a row of DeliveryAttempt, its job, its worker and    *)
(* what went out say of each other when k processes have died               *)
Tracked(s, j, w, n, k) ==
    /\ s \in {"none", "QUEUED", "PROCESSING", "DELIVERED", "FAILED"}
    /\ j \in 0..Tries /\ w \in {"idle", "send", "sent"} /\ n \in Nat
    /\ s \in {"none", "QUEUED"} => n = 0
    /\ s = "PROCESSING" => j > 0
    /\ s = "DELIVERED" => n > 0
    /\ w # "idle" => s = "PROCESSING"
    /\ w = "sent" => n > 0
    /\ n + j <= Tries + k + (IF w = "sent" THEN 1 ELSE 0)

(* and how many notifications there are                                     *)
NotifyIInv ==
    /\ Notify!TypeOK
    /\ \A a \in Notify!Attempt : Tracked(status[a], job[a], at[a], sent[a], stalls)
    /\ notices <= stalls + 1
    /\ route.at \in {"none", "waiting"} => notices <= stalls
    /\ route.at \in {"created", "dispatch"} => notices > 0

LEMMA NotifyInitIInv == Notify!Init => NotifyIInv
<1> SUFFICES ASSUME Notify!Init PROVE NotifyIInv
  OBVIOUS
<1>1. Notify!TypeOK
  BY NotificationsAssumption DEF Notify!Init, Notify!TypeOK
<1>2. \A a \in Notify!Attempt : Tracked(status[a], job[a], at[a], sent[a], stalls)
  BY NotificationsAssumption DEF Notify!Init, Tracked
<1> QED BY <1>1, <1>2 DEF Notify!Init, NotifyIInv

(* Nothing sends more often than its attempts and the deaths allow.         *)
LEMMA TrackedBound ==
    ASSUME NEW s, NEW j, NEW w, NEW n, NEW k \in 0..StallBound, Tracked(s, j, w, n, k)
    PROVE  n \in 0..(Tries + StallBound)
BY NotificationsAssumption DEF Tracked

LEMMA TrackedLater ==
    ASSUME NEW s, NEW j, NEW w, NEW n, NEW k \in Nat, NEW l \in Nat, k <= l,
           Tracked(s, j, w, n, k)
    PROVE  Tracked(s, j, w, n, l)
BY NotificationsAssumption DEF Tracked

(* The other attempts keep what they have,                                  *)
OnlyAttempt(a) ==
    /\ \A b \in Notify!Attempt \ {a} : /\ status'[b] = status[b] /\ job'[b] = job[b]
                                       /\ at'[b] = at[b] /\ sent'[b] = sent[b]
    /\ status' = [b \in Notify!Attempt |-> status'[b]]
    /\ job' = [b \in Notify!Attempt |-> job'[b]]
    /\ at' = [b \in Notify!Attempt |-> at'[b]]
    /\ sent' = [b \in Notify!Attempt |-> sent'[b]]

(* in a step of the workers: one changes, and perhaps a process dies.       *)
LEMMA AttemptStep ==
    ASSUME NotifyIInv, NEW a \in Notify!Attempt,
           OnlyAttempt(a),
           stalls' \in 0..StallBound, stalls <= stalls',
           Tracked(status'[a], job'[a], at'[a], sent'[a], stalls'),
           route'.at = route.at, route'.left \subseteq Channel, notices' = notices
    PROVE  NotifyIInv'
<1>1. /\ \A b \in Notify!Attempt :
            Tracked(status[b], job[b], at[b], sent[b], stalls)
      /\ stalls \in 0..StallBound /\ stalls \in Nat /\ stalls' \in Nat /\ notices \in Nat
  BY NotificationsAssumption DEF NotifyIInv, Notify!TypeOK
<1>2. ASSUME NEW b \in Notify!Attempt
      PROVE  Tracked(status'[b], job'[b], at'[b], sent'[b], stalls')
  <2>1. CASE b = a
    BY <2>1
  <2>2. CASE b # a
    <3>1. Tracked(status[b], job[b], at[b], sent[b], stalls')
      BY <1>1, TrackedLater
    <3> QED BY <2>2, <3>1 DEF OnlyAttempt
  <2> QED BY <2>1, <2>2
<1>3. ASSUME NEW b \in Notify!Attempt
      PROVE  /\ status'[b] \in {"none", "QUEUED", "PROCESSING", "DELIVERED", "FAILED"}
             /\ job'[b] \in 0..Tries /\ at'[b] \in {"idle", "send", "sent"}
             /\ sent'[b] \in 0..(Tries + StallBound)
  <2>1. sent'[b] \in 0..(Tries + StallBound)
    BY <1>2, TrackedBound
  <2> QED BY <1>2, <2>1 DEF Tracked
<1>4. Notify!TypeOK'
  <2>1. /\ status' \in [Notify!Attempt ->
                           {"none", "QUEUED", "PROCESSING", "DELIVERED", "FAILED"}]
        /\ job' \in [Notify!Attempt -> 0..Tries]
        /\ at' \in [Notify!Attempt -> {"idle", "send", "sent"}]
        /\ sent' \in [Notify!Attempt -> 0..(Tries + StallBound)]
    BY <1>3 DEF OnlyAttempt
  <2>2. /\ route'.at \in {"none", "waiting", "created", "dispatch", "done", "failed"}
        /\ notices' \in 0..(StallBound + 1)
    BY DEF NotifyIInv, Notify!TypeOK
  <2> QED BY <2>1, <2>2 DEF Notify!TypeOK
<1>5. /\ notices' <= stalls' + 1
      /\ route'.at \in {"none", "waiting"} => notices' <= stalls'
      /\ route'.at \in {"created", "dispatch"} => notices' > 0
  BY <1>1 DEF NotifyIInv
<1> QED BY <1>2, <1>4, <1>5 DEF NotifyIInv

(* Routing begins once, and once more for each process that died.           *)
LEMMA NoticesBound ==
    ASSUME NEW n \in Nat, NEW k \in 0..StallBound, n <= k + 1
    PROVE  n \in 0..(StallBound + 1)
BY NotificationsAssumption

(* A step of the routing worker that leaves the attempts alone              *)
LEMMA RouteStep ==
    ASSUME NotifyIInv, UNCHANGED <<status, job, at, sent>>,
           route'.at \in {"none", "waiting", "created", "dispatch", "done", "failed"},
           route'.left \subseteq Channel,
           stalls' \in 0..StallBound, stalls <= stalls', notices' \in Nat,
           notices' <= stalls' + 1,
           route'.at \in {"none", "waiting"} => notices' <= stalls',
           route'.at \in {"created", "dispatch"} => notices' > 0
    PROVE  NotifyIInv'
<1>1. stalls \in Nat /\ stalls' \in Nat /\ stalls' <= StallBound /\ StallBound \in Nat
  BY NotificationsAssumption DEF NotifyIInv, Notify!TypeOK
<1>2. \A b \in Notify!Attempt : Tracked(status'[b], job'[b], at'[b], sent'[b], stalls')
  <2>1. ASSUME NEW b \in Notify!Attempt
        PROVE  Tracked(status[b], job[b], at[b], sent[b], stalls')
    <3>1. Tracked(status[b], job[b], at[b], sent[b], stalls)
      BY DEF NotifyIInv
    <3> QED BY <1>1, <3>1, TrackedLater
  <2> QED BY <2>1
<1>3. notices' \in 0..(StallBound + 1)
  BY NoticesBound
<1>4. Notify!TypeOK'
  BY <1>3 DEF NotifyIInv, Notify!TypeOK
<1> QED BY <1>2, <1>4 DEF NotifyIInv

LEMMA NotifyNextIInv == NotifyIInv /\ [Notify!Next]_(Notify!vars) => NotifyIInv'
<1> SUFFICES ASSUME NotifyIInv, [Notify!Next]_(Notify!vars) PROVE NotifyIInv'
  OBVIOUS
<1>1. CASE \/ Notify!Dispatch \/ Notify!CreateNotification \/ Notify!ReadPreferences
           \/ Notify!RoutingDone \/ Notify!RoutingFails \/ Notify!RoutingStalls
  <2>1. UNCHANGED <<status, job, at, sent>> /\ stalls \in 0..StallBound /\ notices \in Nat
    BY <1>1 DEF NotifyIInv, Notify!TypeOK, Notify!delivery, Notify!Dispatch,
       Notify!CreateNotification, Notify!ReadPreferences, Notify!RoutingDone,
       Notify!RoutingFails, Notify!RoutingStalls
  <2>2. CASE Notify!Dispatch
    BY <2>1, <2>2, RouteStep, NotificationsAssumption DEF NotifyIInv, Notify!TypeOK, Notify!Dispatch
  <2>3. CASE Notify!CreateNotification
    BY <2>1, <2>3, RouteStep, NotificationsAssumption DEF NotifyIInv, Notify!TypeOK, Notify!CreateNotification
  <2>4. CASE Notify!ReadPreferences
    BY <2>1, <2>4, RouteStep, NotificationsAssumption DEF NotifyIInv, Notify!TypeOK, Notify!ReadPreferences
  <2>5. CASE Notify!RoutingDone
    BY <2>1, <2>5, RouteStep, NotificationsAssumption DEF NotifyIInv, Notify!TypeOK, Notify!RoutingDone
  <2>6. CASE Notify!RoutingFails
    BY <2>1, <2>6, RouteStep, NotificationsAssumption DEF NotifyIInv, Notify!TypeOK, Notify!RoutingFails
  <2>7. CASE Notify!RoutingStalls
    BY <2>1, <2>7, RouteStep, NotificationsAssumption DEF NotifyIInv, Notify!TypeOK, Notify!RoutingStalls
  <2> QED BY <1>1, <2>2, <2>3, <2>4, <2>5, <2>6, <2>7
<1>2. ASSUME NEW c \in Channel, Notify!CreateAttempt(c) \/ Notify!QueueDelivery(c)
      PROVE  NotifyIInv'
  <2> DEFINE a == <<notices - 1, c>>
  <2>1. a \in Notify!Attempt /\ stalls \in 0..StallBound /\ stalls \in Nat
    BY <1>2, NotificationsAssumption DEF NotifyIInv, Notify!TypeOK, Notify!CreateAttempt,
       Notify!QueueDelivery, Notify!Attempt, Notify!Notice
  <2>2. Tracked(status[a], job[a], at[a], sent[a], stalls)
    BY <2>1 DEF NotifyIInv
  <2>3. CASE Notify!CreateAttempt(c)
    <3>1. /\ status[a] = "none" /\ status' = [status EXCEPT ![a] = "QUEUED"]
          /\ UNCHANGED <<route, notices, job, at, sent, stalls>>
      BY <2>3 DEF Notify!CreateAttempt
    <3> HIDE DEF a
    <3>2. Tracked(status'[a], job'[a], at'[a], sent'[a], stalls')
      BY <2>1, <2>2, <3>1 DEF Tracked, NotifyIInv, Notify!TypeOK
    <3>3. OnlyAttempt(a)
      BY <2>1, <3>1 DEF OnlyAttempt, NotifyIInv, Notify!TypeOK
    <3>4. /\ stalls' \in 0..StallBound /\ stalls <= stalls' /\ notices' = notices
          /\ route'.at = route.at /\ route'.left \subseteq Channel
      BY <2>1, <3>1 DEF NotifyIInv, Notify!TypeOK
    <3> QED BY <2>1, <3>2, <3>3, <3>4, AttemptStep
  <2>4. CASE Notify!QueueDelivery(c)
    <3>1. /\ status[a] = "QUEUED" /\ job' = [job EXCEPT ![a] = Tries]
          /\ UNCHANGED <<notices, status, at, sent, stalls>>
          /\ route'.at = route.at /\ route'.left \subseteq Channel
      BY <2>4 DEF Notify!QueueDelivery, NotifyIInv, Notify!TypeOK
    <3> HIDE DEF a
    <3>2. Tracked(status'[a], job'[a], at'[a], sent'[a], stalls')
      BY <2>1, <2>2, <3>1, NotificationsAssumption DEF Tracked, NotifyIInv, Notify!TypeOK
    <3>3. OnlyAttempt(a)
      BY <2>1, <3>1 DEF OnlyAttempt, NotifyIInv, Notify!TypeOK
    <3>4. /\ stalls' \in 0..StallBound /\ stalls <= stalls' /\ notices' = notices
          /\ route'.at = route.at /\ route'.left \subseteq Channel
      BY <2>1, <3>1 DEF NotifyIInv, Notify!TypeOK
    <3> QED BY <2>1, <3>2, <3>3, <3>4, AttemptStep
  <2> QED BY <1>2, <2>3, <2>4
<1>3. ASSUME NEW a \in Notify!Attempt,
             \/ Notify!BeginDelivery(a) \/ Notify!Send(a) \/ Notify!Record(a)
             \/ Notify!DeliveryFails(a) \/ Notify!DeliveryStalls(a)
      PROVE  NotifyIInv'
  <2>1. /\ Tracked(status[a], job[a], at[a], sent[a], stalls)
        /\ stalls \in 0..StallBound /\ stalls \in Nat
    BY NotificationsAssumption DEF NotifyIInv, Notify!TypeOK
  <2>2. CASE Notify!BeginDelivery(a)
    <3>1. Tracked(status'[a], job'[a], at'[a], sent'[a], stalls')
      BY <2>1, <2>2, NotificationsAssumption DEF Tracked, NotifyIInv, Notify!TypeOK,
         Notify!BeginDelivery
    <3>2. OnlyAttempt(a)
      BY <2>2 DEF OnlyAttempt, NotifyIInv, Notify!TypeOK, Notify!BeginDelivery
    <3>3. /\ stalls' \in 0..StallBound /\ stalls <= stalls' /\ notices' = notices
          /\ route'.at = route.at /\ route'.left \subseteq Channel
      BY <2>1, <2>2, NotificationsAssumption DEF NotifyIInv, Notify!TypeOK, Notify!BeginDelivery
    <3> QED BY <3>1, <3>2, <3>3, AttemptStep
  <2>3. CASE Notify!Send(a)
    <3>1. Tracked(status'[a], job'[a], at'[a], sent'[a], stalls')
      BY <2>1, <2>3, NotificationsAssumption DEF Tracked, NotifyIInv, Notify!TypeOK,
         Notify!Send
    <3>2. OnlyAttempt(a)
      BY <2>3 DEF OnlyAttempt, NotifyIInv, Notify!TypeOK, Notify!Send
    <3>3. /\ stalls' \in 0..StallBound /\ stalls <= stalls' /\ notices' = notices
          /\ route'.at = route.at /\ route'.left \subseteq Channel
      BY <2>1, <2>3, NotificationsAssumption DEF NotifyIInv, Notify!TypeOK, Notify!Send
    <3> QED BY <3>1, <3>2, <3>3, AttemptStep
  <2>4. CASE Notify!Record(a)
    <3>1. Tracked(status'[a], job'[a], at'[a], sent'[a], stalls')
      BY <2>1, <2>4, NotificationsAssumption DEF Tracked, NotifyIInv, Notify!TypeOK,
         Notify!Record
    <3>2. OnlyAttempt(a)
      BY <2>4 DEF OnlyAttempt, NotifyIInv, Notify!TypeOK, Notify!Record
    <3>3. /\ stalls' \in 0..StallBound /\ stalls <= stalls' /\ notices' = notices
          /\ route'.at = route.at /\ route'.left \subseteq Channel
      BY <2>1, <2>4, NotificationsAssumption DEF NotifyIInv, Notify!TypeOK, Notify!Record
    <3> QED BY <3>1, <3>2, <3>3, AttemptStep
  <2>5. CASE Notify!DeliveryFails(a)
    <3>1. Tracked(status'[a], job'[a], at'[a], sent'[a], stalls')
      BY <2>1, <2>5, NotificationsAssumption DEF Tracked, NotifyIInv, Notify!TypeOK,
         Notify!DeliveryFails
    <3>2. OnlyAttempt(a)
      BY <2>5 DEF OnlyAttempt, NotifyIInv, Notify!TypeOK, Notify!DeliveryFails
    <3>3. /\ stalls' \in 0..StallBound /\ stalls <= stalls' /\ notices' = notices
          /\ route'.at = route.at /\ route'.left \subseteq Channel
      BY <2>1, <2>5, NotificationsAssumption DEF NotifyIInv, Notify!TypeOK, Notify!DeliveryFails
    <3> QED BY <3>1, <3>2, <3>3, AttemptStep
  <2>6. CASE Notify!DeliveryStalls(a)
    <3>1. Tracked(status'[a], job'[a], at'[a], sent'[a], stalls')
      BY <2>1, <2>6, NotificationsAssumption DEF Tracked, NotifyIInv, Notify!TypeOK,
         Notify!DeliveryStalls
    <3>2. OnlyAttempt(a)
      BY <2>6 DEF OnlyAttempt, NotifyIInv, Notify!TypeOK, Notify!DeliveryStalls
    <3>3. /\ stalls' \in 0..StallBound /\ stalls <= stalls' /\ notices' = notices
          /\ route'.at = route.at /\ route'.left \subseteq Channel
      BY <2>1, <2>6, NotificationsAssumption DEF NotifyIInv, Notify!TypeOK, Notify!DeliveryStalls
    <3> QED BY <3>1, <3>2, <3>3, AttemptStep
  <2> QED BY <1>3, <2>2, <2>3, <2>4, <2>5, <2>6
<1>4. CASE UNCHANGED Notify!vars
  BY <1>4 DEF NotifyIInv, Notify!TypeOK, Notify!vars
<1> QED BY <1>1, <1>2, <1>3, <1>4 DEF Notify!Next

(* The delivery processors: what is DELIVERED was sent, and what is being   *)
(* worked on has a job that takes it up again.                              *)
THEOREM DeliveredWasSent ==
    (Notify!Spec => []DeliveredIsSent) /\ (SumSpec => []DeliveredIsSent)
<1>1. NotifyIInv => DeliveredIsSent
  BY DEF NotifyIInv, Tracked, DeliveredIsSent, Notify!DeliveredIsSent
<1>2. Notify!Spec => []DeliveredIsSent
  BY <1>1, NotifyInitIInv, NotifyNextIInv, PTL DEF Notify!Spec
<1>3. SumSpec => []DeliveredIsSent
  BY <1>1, NotifyInitIInv, NotifyNextIInv, PartInits, PartSteps, PTL DEF SumSpec
<1> QED BY <1>2, <1>3
-----------------------------------------------------------------------------
(* Verification: whoever became eligible other than silently was told, or a *)
(* request is about to tell him.                                            *)
VerifyRequest ==
    {Verify!Idle}
        \cup [op : {"initiate"}, read : Verify!Row]
        \cup [op : {"webhook"}, read : Verify!Row, result : Verify!Financial]
        \cup [op : {"emit"}, emits : SUBSET {"granted", "revoked"}]
        \cup [op : {"verifyArtisan"}]

Tells(q) == q.op = "emit" /\ "granted" \in q.emits

VerifyIInv ==
    /\ Verify!TypeOK
    /\ Verify!Eligible(row) /\ ~silent => granted \/ \E r \in Request : Tells(req[r])

LEMMA VerifyInitIInv == Verify!Init => VerifyIInv
<1> SUFFICES ASSUME Verify!Init PROVE VerifyIInv
  OBVIOUS
<1>1. ~Verify!Eligible(row)
  BY DEF Verify!Init, Verify!Eligible
<1>2. row \in Verify!Row
  BY VerificationAssumption
  DEF Verify!Init, Verify!Row, Verify!Market, Verify!Financial, Verify!None
<1>3. Verify!TypeOK
  <2>1. req \in [Request -> {Verify!Idle}]
    BY DEF Verify!Init
  <2>2. refs \in 0..RefBound
    BY VerificationAssumption DEF Verify!Init
  <2>3. flag \in BOOLEAN /\ granted \in BOOLEAN /\ silent \in BOOLEAN
    BY Zenon DEF Verify!Init
  <2> QED BY <1>2, <2>1, <2>2, <2>3 DEF Verify!TypeOK
<1> QED BY <1>1, <1>3 DEF VerifyIInv

(* A step of one request, or of none: who is eligible after it was so       *)
(* before, or is told.                                                      *)
LEMMA VerifyStep ==
    ASSUME VerifyIInv, NEW r \in Request, NEW q \in VerifyRequest,
           req' = [req EXCEPT ![r] = q],
           row' \in Verify!Row, flag' \in BOOLEAN, refs' \in 0..RefBound,
           granted' \in BOOLEAN, silent' \in BOOLEAN,
           Verify!Eligible(row') /\ ~silent' =>
               \/ granted' \/ Tells(q)
               \/ /\ Verify!Eligible(row) /\ ~silent /\ (granted => granted')
                  /\ ~Tells(req[r])
    PROVE  VerifyIInv'
<1>1. req' \in [Request -> VerifyRequest] /\ req'[r] = q
  BY DEF VerifyIInv, Verify!TypeOK, VerifyRequest
<1>2. Verify!TypeOK'
  BY <1>1 DEF Verify!TypeOK, VerifyRequest
<1>3. \A x \in Request \ {r} : req'[x] = req[x]
  BY DEF VerifyIInv, Verify!TypeOK
<1>4. ASSUME Verify!Eligible(row'), ~silent'
      PROVE  granted' \/ \E x \in Request : Tells(req'[x])
  <2>1. CASE granted' \/ Tells(q)
    BY <1>1, <2>1
  <2>2. CASE Verify!Eligible(row) /\ ~silent /\ (granted => granted') /\ ~Tells(req[r])
    BY <1>3, <2>2 DEF VerifyIInv
  <2> QED BY <1>4, <2>1, <2>2
<1> QED BY <1>2, <1>4 DEF VerifyIInv, Verify!Eligible, Tells

(* The rows that a handler writes                                           *)
LEMMA RowsWritten ==
    ASSUME row \in Verify!Row
    PROVE  /\ [row EXCEPT !.created = TRUE] \in Verify!Row
           /\ \A m \in Verify!Market : /\ [row EXCEPT !.market = m] \in Verify!Row
                                       /\ [row EXCEPT !.created = TRUE, !.market = m] \in Verify!Row
           /\ \A f \in Verify!Financial, n \in 0..RefBound :
                 /\ [row EXCEPT !.fin = f] \in Verify!Row
                 /\ [row EXCEPT !.fin = f, !.ref = n] \in Verify!Row
BY DEF Verify!Row

LEMMA VerifyNextIInv == VerifyIInv /\ [Verify!Next]_(Verify!vars) => VerifyIInv'
<1> SUFFICES ASSUME VerifyIInv, [Verify!Next]_(Verify!vars) PROVE VerifyIInv'
  OBVIOUS
<1>1. /\ row \in Verify!Row /\ flag \in BOOLEAN /\ refs \in 0..RefBound
      /\ granted \in BOOLEAN /\ silent \in BOOLEAN
  BY DEF VerifyIInv, Verify!TypeOK
<1>2. Verify!Idle \in VerifyRequest /\ ~Tells(Verify!Idle)
  BY DEF VerifyRequest, Tells, Verify!Idle
<1>3. CASE Verify!Submit \/ Verify!GetStatus \/ Verify!Reject
  <2>1. /\ row' \in Verify!Row /\ UNCHANGED <<flag, req, refs, silent>>
        /\ granted' \in BOOLEAN
        /\ Verify!Eligible(row') => Verify!Eligible(row) /\ granted' = granted
    <3>1. CASE Verify!Submit
      <4>1. row' \in Verify!Row
        BY <1>1, <3>1, RowsWritten DEF Verify!Submit, Verify!Update, Verify!Market
      <4>2. ~Verify!Eligible(row')
        BY <1>1, <3>1 DEF Verify!Submit, Verify!Update, Verify!Eligible, Verify!Row
      <4> QED BY <3>1, <4>1, <4>2 DEF Verify!Submit, Verify!Update
    <3>2. CASE Verify!GetStatus
      <4>1. row' \in Verify!Row
        BY <1>1, <3>2, RowsWritten DEF Verify!GetStatus
      <4>2. Verify!Eligible(row') <=> Verify!Eligible(row)
        BY <1>1, <3>2 DEF Verify!GetStatus, Verify!Eligible, Verify!Row
      <4> QED BY <1>1, <3>2, <4>1, <4>2 DEF Verify!GetStatus
    <3>3. CASE Verify!Reject
      <4>1. row' \in Verify!Row
        BY <1>1, <3>3, RowsWritten DEF Verify!Reject, Verify!Update, Verify!Market
      <4>2. ~Verify!Eligible(row')
        BY <1>1, <3>3 DEF Verify!Reject, Verify!Update, Verify!Eligible, Verify!Row
      <4> QED BY <3>3, <4>1, <4>2 DEF Verify!Reject, Verify!Update
    <3> QED BY <1>3, <3>1, <3>2, <3>3
  <2> QED BY <1>1, <2>1 DEF VerifyIInv, Verify!TypeOK, Verify!Eligible, Tells
<1>4. ASSUME NEW r \in Request, Verify!Approve(r) PROVE VerifyIInv'
  <2> DEFINE new == [row EXCEPT !.market = "APPROVED"]
             q   == [op |-> "emit", emits |-> Verify!ApproveEmits(new)]
  <2>1. row' = new /\ new \in Verify!Row
    BY <1>1, <1>4, RowsWritten DEF Verify!Approve, Verify!Update, Verify!Market
  <2>2. /\ req' = [req EXCEPT ![r] = q] /\ silent' = FALSE /\ UNCHANGED <<flag, refs>>
        /\ granted' = (granted /\ Verify!Eligible(new))
    BY <1>4 DEF Verify!Approve, Verify!Update
  <2>3. q \in VerifyRequest /\ (Verify!Eligible(new) => Tells(q))
    BY DEF VerifyRequest, Tells, Verify!ApproveEmits
  <2> HIDE DEF new, q
  <2> QED BY <1>1, <2>1, <2>2, <2>3, VerifyStep
<1>5. ASSUME NEW r \in Request, Verify!ReadForInitiate(r) PROVE VerifyIInv'
  <2> DEFINE q == [op |-> "initiate", read |-> row']
  <2>1. /\ row' \in Verify!Row /\ (Verify!Eligible(row') <=> Verify!Eligible(row))
        /\ ~Tells(req[r])
    BY <1>1, <1>2, <1>5, RowsWritten DEF Verify!ReadForInitiate, Verify!Eligible, Verify!Row
  <2>2. q \in VerifyRequest
    BY <2>1 DEF VerifyRequest
  <2>3. req' = [req EXCEPT ![r] = q] /\ UNCHANGED <<flag, refs, granted, silent>>
    BY <1>5 DEF Verify!ReadForInitiate
  <2> HIDE DEF q
  <2> QED BY <1>1, <2>1, <2>2, <2>3, VerifyStep
<1>6. ASSUME NEW r \in Request, Verify!Initiate(r) PROVE VerifyIInv'
  <2>1. refs' \in 0..RefBound /\ refs' = refs + 1
    BY <1>1, <1>6, VerificationAssumption DEF Verify!Initiate
  <2>2. /\ row' = [row EXCEPT !.fin = "PENDING", !.ref = refs'] /\ row' \in Verify!Row
        /\ ~Verify!Eligible(row')
    <3>1. row' = [row EXCEPT !.fin = "PENDING", !.ref = refs']
      BY <1>6 DEF Verify!Initiate, Verify!Update
    <3>2. "PENDING" \in Verify!Financial
      BY DEF Verify!Financial
    <3>3. [row EXCEPT !.fin = "PENDING", !.ref = refs'] \in Verify!Row
      BY <1>1, <2>1, <3>2, RowsWritten
    <3>4. row'.fin = "PENDING"
      BY <1>1, <3>1 DEF Verify!Row
    <3> QED BY <3>1, <3>3, <3>4 DEF Verify!Eligible
  <2>3. /\ req' = [req EXCEPT ![r] = Verify!Idle] /\ UNCHANGED <<flag, silent>>
        /\ granted' \in BOOLEAN
    BY <1>6 DEF Verify!Initiate, Verify!Update
  <2> QED BY <1>1, <1>2, <2>1, <2>2, <2>3, VerifyStep
<1>7. ASSUME NEW r \in Request, Verify!ReadForWebhook(r) PROVE VerifyIInv'
  <2>1. PICK result \in {"VERIFIED", "FAILED", "PENDING"} :
           req' = [req EXCEPT ![r] = [op |-> "webhook", read |-> row, result |-> result]]
    BY <1>7 DEF Verify!ReadForWebhook
  <2> DEFINE q == [op |-> "webhook", read |-> row, result |-> result]
  <2>2. q \in VerifyRequest /\ ~Tells(req[r])
    BY <1>1, <1>2, <1>7 DEF VerifyRequest, Verify!Financial, Verify!ReadForWebhook
  <2>3. UNCHANGED <<row, flag, refs, granted, silent>>
    BY <1>7 DEF Verify!ReadForWebhook
  <2>4. req' = [req EXCEPT ![r] = q]
    BY <2>1
  <2> HIDE DEF q
  <2> QED BY <1>1, <2>2, <2>3, <2>4, VerifyStep
<1>8. ASSUME NEW r \in Request, Verify!HandleWebhook(r) PROVE VerifyIInv'
  <2> DEFINE new == [row EXCEPT !.fin = req[r].result]
             q   == [op |-> "emit", emits |-> Verify!EmitsFor(new)]
  <2>1. req[r].result \in Verify!Financial
    BY <1>8 DEF VerifyIInv, Verify!TypeOK, Verify!HandleWebhook, Verify!Idle
  <2>2. row' = new /\ new \in Verify!Row
    BY <1>1, <1>8, <2>1, RowsWritten DEF Verify!HandleWebhook, Verify!Update
  <2>3. /\ req' = [req EXCEPT ![r] = q] /\ UNCHANGED <<flag, refs, silent>>
        /\ granted' = (granted /\ Verify!Eligible(new))
    BY <1>8 DEF Verify!HandleWebhook, Verify!Update
  <2>4. q \in VerifyRequest /\ (Verify!Eligible(new) => Tells(q))
    BY DEF VerifyRequest, Tells, Verify!EmitsFor
  <2> HIDE DEF new, q
  <2> QED BY <1>1, <2>2, <2>3, <2>4, VerifyStep
<1>9. ASSUME NEW r \in Request, Verify!Emit(r) PROVE VerifyIInv'
  <2>1. /\ req' = [req EXCEPT ![r] = Verify!Idle] /\ UNCHANGED <<row, flag, refs, silent>>
        /\ granted' = (granted \/ ("granted" \in req[r].emits /\ Verify!Eligible(row)))
        /\ req[r].op = "emit"
    BY <1>9 DEF Verify!Emit
  <2>2. granted' \in BOOLEAN /\ (granted => granted')
        /\ (Tells(req[r]) /\ Verify!Eligible(row) => granted')
    BY <2>1 DEF Tells
  <2> QED BY <1>1, <1>2, <2>1, <2>2, VerifyStep
<1>10. ASSUME NEW r \in Request, Verify!VerifyArtisan(r) PROVE VerifyIInv'
  <2>1. [op |-> "verifyArtisan"] \in VerifyRequest /\ ~Tells(req[r])
    BY <1>2, <1>10 DEF VerifyRequest, Verify!VerifyArtisan
  <2> QED BY <1>1, <1>10, <2>1, VerifyStep DEF Verify!VerifyArtisan
<1>11. ASSUME NEW r \in Request, Verify!ApproveSilently(r) PROVE VerifyIInv'
  <2>1. ~Tells(req[r])
    BY <1>11 DEF Verify!ApproveSilently, Tells
  <2>2. CASE row.created
    <3>1. /\ row' \in Verify!Row /\ silent' = TRUE /\ granted' \in BOOLEAN
          /\ req' = [req EXCEPT ![r] = Verify!Idle] /\ UNCHANGED <<flag, refs>>
      BY <1>1, <1>11, <2>2, RowsWritten DEF Verify!ApproveSilently, Verify!Update, Verify!Market
    <3> QED BY <1>1, <1>2, <2>1, <3>1, VerifyStep
  <2>3. CASE ~row.created
    <3>1. /\ req' = [req EXCEPT ![r] = Verify!Idle]
          /\ UNCHANGED <<row, granted, silent, flag, refs>>
      BY <1>11, <2>3 DEF Verify!ApproveSilently
    <3> QED BY <1>1, <1>2, <2>1, <3>1, VerifyStep
  <2> QED BY <2>2, <2>3
<1>12. CASE UNCHANGED Verify!vars
  BY <1>12 DEF VerifyIInv, Verify!TypeOK, Verify!vars, Verify!Eligible, Tells
<1> QED BY <1>3, <1>4, <1>5, <1>6, <1>7, <1>8, <1>9, <1>10, <1>11, <1>12 DEF Verify!Next

(* checkEligibility of both services: an artisan who may be paid out is     *)
(* told so, whichever of approval and identity check comes last.            *)
THEOREM EligibleWereTold ==
    (Verify!Spec => []EligibleIsAnnounced) /\ (SumSpec => []EligibleIsAnnounced)
<1>1. VerifyIInv => EligibleIsAnnounced
  BY DEF VerifyIInv, Tells, EligibleIsAnnounced, Verify!EligibleIsAnnounced
<1>2. Verify!Spec => []EligibleIsAnnounced
  BY <1>1, VerifyInitIInv, VerifyNextIInv, PTL DEF Verify!Spec
<1>3. SumSpec => []EligibleIsAnnounced
  BY <1>1, VerifyInitIInv, VerifyNextIInv, PartInits, PartSteps, PTL DEF SumSpec
<1> QED BY <1>2, <1>3
-----------------------------------------------------------------------------
(* Chat: what is committed is in the table, so who fetches it there or      *)
(* stays in the room until it is emitted has it.                            *)
TalkIInv ==
    /\ Talk!TypeOK
    /\ NothingMissed
    /\ \A m \in Message : msg[m] \in {"stored", "emitted"} => m \in stored

LEMMA TalkInitIInv == Talk!Init => TalkIInv
BY DEF Talk!Init, TalkIInv, Talk!TypeOK, Talk!Stage, NothingMissed, Talk!NothingMissed

(* A step that is no message's: nobody sees less, and who becomes synced    *)
(* has all that is stored.                                                  *)
LEMMA SocketStep ==
    ASSUME TalkIInv, conversation' \in BOOLEAN, session' \subseteq User, token' \subseteq User,
           connected' \subseteq User, room' \subseteq connected', synced' \subseteq room',
           UNCHANGED <<msg, stored>>, view' \in [User -> SUBSET Message],
           \A u \in synced' : view[u] \subseteq view'[u] /\ (u \in synced \/ stored \subseteq view'[u])
    PROVE  TalkIInv'
BY DEF TalkIInv, Talk!TypeOK, NothingMissed, Talk!NothingMissed

LEMMA TalkNextIInv == TalkIInv /\ [Talk!Next]_(Talk!vars) => TalkIInv'
<1> SUFFICES ASSUME TalkIInv, [Talk!Next]_(Talk!vars) PROVE TalkIInv'
  OBVIOUS
<1>1. ASSUME NEW u \in User,
             \/ Talk!OpenConversation(u) \/ Talk!IssueSocketToken(u) \/ Talk!Connect(u)
             \/ Talk!Join(u) \/ Talk!Leave(u) \/ Talk!Disconnect(u)
             \/ Talk!TokenExpires(u) \/ Talk!EndSession(u)
      PROVE  TalkIInv'
  <2>1. UNCHANGED <<msg, stored, view>> /\ synced' \subseteq synced
    BY <1>1 DEF Talk!sockets, Talk!OpenConversation, Talk!IssueSocketToken, Talk!Connect,
       Talk!Join, Talk!Leave, Talk!Disconnect, Talk!TokenExpires, Talk!EndSession
  <2>2. /\ conversation' \in BOOLEAN /\ session' \subseteq User /\ token' \subseteq User
        /\ connected' \subseteq User /\ room' \subseteq connected' /\ synced' \subseteq room'
    BY <1>1 DEF TalkIInv, Talk!TypeOK, Talk!sockets, Talk!OpenConversation,
       Talk!IssueSocketToken, Talk!Connect, Talk!Join, Talk!Leave, Talk!Disconnect,
       Talk!TokenExpires, Talk!EndSession
  <2> QED BY <2>1, <2>2, SocketStep DEF TalkIInv, Talk!TypeOK
<1>2. ASSUME NEW u \in User, Talk!Fetch(u) PROVE TalkIInv'
  <2>1. /\ view' = [view EXCEPT ![u] = view[u] \cup stored]
        /\ synced' = synced \cup (room \cap {u})
        /\ UNCHANGED <<conversation, session, token, connected, room, msg, stored>>
    BY <1>2 DEF Talk!Fetch
  <2>2. view' \in [User -> SUBSET Message]
    BY <2>1 DEF TalkIInv, Talk!TypeOK
  <2>3. \A x \in User : /\ view[x] \subseteq view'[x]
                        /\ x = u => stored \subseteq view'[x]
    BY <2>1 DEF TalkIInv, Talk!TypeOK
  <2>4. synced' \subseteq User /\ synced' \subseteq room
    BY <2>1 DEF TalkIInv, Talk!TypeOK
  <2> QED BY <2>1, <2>2, <2>3, <2>4, SocketStep DEF TalkIInv, Talk!TypeOK
<1>3. ASSUME NEW m \in Message, Talk!BeginMessage(m) \/ Talk!Store(m) \/ Talk!Dies(m)
      PROVE  TalkIInv'
  <2>1. /\ UNCHANGED <<conversation, session, token, connected, room, synced, view>>
        /\ stored' \in SUBSET Message /\ stored \subseteq stored'
        /\ msg' \in [Message -> Talk!Stage]
        /\ \A x \in Message \ {m} : msg'[x] = msg[x]
        /\ msg'[m] # "emitted" /\ (msg'[m] = "stored" => m \in stored')
    BY <1>3 DEF TalkIInv, Talk!TypeOK, Talk!Stage, Talk!sockets, Talk!BeginMessage,
       Talk!Store, Talk!Dies
  <2> QED BY <2>1 DEF TalkIInv, Talk!TypeOK, NothingMissed, Talk!NothingMissed
<1>4. ASSUME NEW m \in Message, Talk!EmitMessageCreated(m) PROVE TalkIInv'
  <2>1. /\ UNCHANGED <<conversation, session, token, connected, room, synced, stored>>
        /\ view' = Talk!Seen(m) /\ msg[m] = "stored" /\ msg' = [msg EXCEPT ![m] = "emitted"]
    BY <1>4 DEF Talk!EmitMessageCreated, Talk!sockets
  <2>2. /\ view' \in [User -> SUBSET Message]
        /\ \A u \in User : view[u] \subseteq view'[u] /\ (u \in room => m \in view'[u])
    BY <2>1 DEF Talk!Seen, TalkIInv, Talk!TypeOK
  <2>3. msg' \in [Message -> Talk!Stage] /\ \A x \in Message \ {m} : msg'[x] = msg[x]
    BY <2>1 DEF TalkIInv, Talk!TypeOK, Talk!Stage
  <2> QED BY <2>1, <2>2, <2>3 DEF TalkIInv, Talk!TypeOK, NothingMissed, Talk!NothingMissed
<1>5. CASE UNCHANGED Talk!vars
  BY <1>5 DEF TalkIInv, Talk!TypeOK, NothingMissed, Talk!NothingMissed, Talk!vars
<1> QED BY <1>1, <1>2, <1>3, <1>4, <1>5 DEF Talk!Next

(* ChatService and ChatGateway: who joins a conversation and then fetches   *)
(* its messages misses none that was emitted.                               *)
THEOREM NothingIsMissed == (Talk!Spec => []NothingMissed) /\ (SumSpec => []NothingMissed)
<1>1. TalkIInv => NothingMissed
  BY DEF TalkIInv
<1>2. Talk!Spec => []NothingMissed
  BY <1>1, TalkInitIInv, TalkNextIInv, PTL DEF Talk!Spec
<1>3. SumSpec => []NothingMissed
  BY <1>1, TalkInitIInv, TalkNextIInv, PartInits, PartSteps, PTL DEF SumSpec
<1> QED BY <1>2, <1>3
-----------------------------------------------------------------------------
(* Each part keeps its invariant, whichever runs.                           *)
PlatformIInv ==
    /\ part \in {"session", "lockout", "credentials", "throttler", "lock", "cache",
                 "webhook", "notification", "verification", "chat"}
    /\ SessIInv /\ LockoutIInv /\ CredIInv /\ ThrottleIInv /\ CLockIInv
    /\ CacheIInv /\ IntakeIInv /\ NotifyIInv /\ VerifyIInv /\ TalkIInv

LEMMA PlatformNextIInv == PlatformIInv /\ [SumNext]_sumVars => PlatformIInv'
<1> SUFFICES ASSUME PlatformIInv, [SumNext]_sumVars PROVE PlatformIInv'
  OBVIOUS
<1>1. part' = part
  BY DEF SumNext, sumVars
<1>2. SessIInv' /\ LockoutIInv' /\ CredIInv' /\ ThrottleIInv' /\ CLockIInv'
  BY PartSteps, SessNextIInv, LockoutNextIInv, CredNextIInv, ThrottleNextIInv,
     CLockNextIInv DEF PlatformIInv
<1>3. CacheIInv' /\ IntakeIInv' /\ NotifyIInv' /\ VerifyIInv' /\ TalkIInv'
  BY PartSteps, CacheNextIInv, IntakeNextIInv, NotifyNextIInv, VerifyNextIInv,
     TalkNextIInv DEF PlatformIInv
<1> QED BY <1>1, <1>2, <1>3 DEF PlatformIInv

(* Every part keeps to its types: the attempts of a lockout stay below      *)
(* MAX_ATTEMPTS, each counter below its bound, each row in its statuses.    *)
THEOREM PlatformTypes == SumSpec => []TypesCorrect
<1>1. SumInit => PlatformIInv
  BY PartInits, SessInitIInv, LockoutInitIInv, CredInitIInv, ThrottleInitIInv,
     CLockInitIInv, CacheInitIInv, IntakeInitIInv, NotifyInitIInv, VerifyInitIInv,
     TalkInitIInv DEF SumInit, PlatformIInv
<1>2. PlatformIInv => TypesCorrect
  BY DEF PlatformIInv, TypesCorrect, SessIInv, LockoutIInv, CredIInv, ThrottleIInv,
     CLockIInv, CacheIInv, IntakeIInv, NotifyIInv, VerifyIInv, TalkIInv
<1> QED BY <1>1, <1>2, PlatformNextIInv, PTL DEF SumSpec
=============================================================================
