--------------------------- MODULE BusinessProofs ---------------------------
(***************************************************************************)
(* Theorems of what the users of the marketplace do, as MCBusiness          *)
(* instantiates it: Marketplace, Disputes, Deliverables and Reviews, for    *)
(* any artisans and concurrent requests, and any bounds; and with           *)
(* WalletProofs the types of all five parts.                                *)
(*                                                                          *)
(* Each part has its inductive invariant, named after its instance.         *)
(***************************************************************************)
EXTENDS MCBusiness, WalletProofs, Sequences

(* A step of MCBusiness is a step of one part, or none of it.               *)
LEMMA PartSteps ==
    ASSUME [SumNext]_sumVars
    PROVE  /\ part' = part /\ [Next]_vars
           /\ [Market!Next]_(Market!vars) /\ [Dispute!Next]_(Dispute!vars)
           /\ [Deliverable!Next]_(Deliverable!vars) /\ [Reviewing!Next]_(Reviewing!vars)
<1> USE DEF SumNext, sumVars, marketVars, disputeVars, deliverableVars, reviewVars
<1>1. part' = part /\ [Next]_vars
  BY DEF vars
<1>2. [Market!Next]_(Market!vars) /\ [Dispute!Next]_(Dispute!vars)
  BY DEF Market!vars, Dispute!vars
<1>3. [Deliverable!Next]_(Deliverable!vars) /\ [Reviewing!Next]_(Reviewing!vars)
  BY DEF Deliverable!vars, Reviewing!vars
<1> QED BY <1>1, <1>2, <1>3

LEMMA PartInits ==
    ASSUME SumInit
    PROVE  /\ part \in {"wallet", "market", "dispute", "deliverable", "review"}
           /\ Init /\ Market!Init /\ Dispute!Init /\ Deliverable!Init /\ Reviewing!Init
BY DEF SumInit
-----------------------------------------------------------------------------
(* Reviews: who submits may do so, who submits second has seen that the     *)
(* other did, and what a worker counted was visible.                        *)
Both == \A q \in Reviewing!Party : rEligible[q] = "CONSUMED"

ReviewIInv ==
    /\ Reviewing!TypeOK
    /\ BlindUnlessRestored
    /\ \A p \in Reviewing!Party :
          /\ rSubmit[p] # "idle" => rEligible[p] # "none"
          /\ rSubmit[p] \in {"second", "queued"} => rEligible[Reviewing!Other(p)] = "CONSUMED"
          /\ rCreated = "none" => rEligible[p] = "none"
    /\ rCreated = "client" => rEligible["artisan"] = "none"
    /\ \A w \in Actor : rWorker[w].of \in Reviewing!Party /\ rWorker[w].count = 1
          => Reviewing!Other(rWorker[w].of) \in rRestored \/ Both

LEMMA OtherParty ==
    \A p \in Reviewing!Party :
        /\ Reviewing!Other(p) \in Reviewing!Party /\ Reviewing!Other(p) # p
        /\ Reviewing!Other(Reviewing!Other(p)) = p
        /\ \A q \in Reviewing!Party : q = p \/ q = Reviewing!Other(p)
BY DEF Reviewing!Party, Reviewing!Other

LEMMA ReviewInitIInv == Reviewing!Init => ReviewIInv
<1> SUFFICES ASSUME Reviewing!Init PROVE ReviewIInv
  OBVIOUS
<1>1. Reviewing!TypeOK
  <2>1. 0 \in 0..JobBound /\ 0 \in 0..1
    BY ReviewsAssumption
  <2>2. Reviewing!NoWork \in [of : Reviewing!Party \cup {"none"}, count : 0..1]
    BY DEF Reviewing!NoWork
  <2> QED BY <2>1, <2>2 DEF Reviewing!Init, Reviewing!TypeOK
<1>2. BlindUnlessRestored
  BY OtherParty DEF BlindUnlessRestored, Reviewing!BlindUnlessRestored, Reviewing!Init
<1> QED BY <1>1, <1>2 DEF ReviewIInv, Reviewing!Init, Reviewing!NoWork

LEMMA ReviewNextIInv == ReviewIInv /\ [Reviewing!Next]_(Reviewing!vars) => ReviewIInv'
<1> SUFFICES ASSUME ReviewIInv, [Reviewing!Next]_(Reviewing!vars) PROVE ReviewIInv'
  OBVIOUS
<1> USE DEF Both, BlindUnlessRestored, Reviewing!BlindUnlessRestored
<1>1. CASE Reviewing!CreateEligibility
  <2>1. Reviewing!TypeOK'
    BY <1>1 DEF ReviewIInv, Reviewing!TypeOK, Reviewing!CreateEligibility, Reviewing!Party
  <2>2. \A p \in Reviewing!Party : /\ rEligible[p] = "CONSUMED" => rEligible'[p] = "CONSUMED"
                                   /\ rEligible[p] # "none" => rEligible'[p] # "none"
    BY <1>1 DEF ReviewIInv, Reviewing!TypeOK, Reviewing!CreateEligibility, Reviewing!Party
  <2>3. rCreated' # "none" /\ (rCreated' = "client" => rEligible'["artisan"] = "none")
    BY <1>1 DEF ReviewIInv, Reviewing!TypeOK, Reviewing!CreateEligibility, Reviewing!Party
  <2> QED BY <1>1, <2>1, <2>2, <2>3, OtherParty DEF ReviewIInv, Reviewing!CreateEligibility
<1>2. CASE Reviewing!EligibilityFails \/ Reviewing!Expire
  <2>1. /\ UNCHANGED <<rEligible, rReview, rSubmit, rRestored, rJobs, rProfile, rWorker>>
        /\ rCreated' \in {rCreated, "failed"} /\ rExpired' \in {rExpired, TRUE}
    BY <1>2 DEF Reviewing!EligibilityFails, Reviewing!Expire
  <2>2. Reviewing!TypeOK'
    BY <2>1 DEF ReviewIInv, Reviewing!TypeOK
  <2> QED BY <2>1, <2>2 DEF ReviewIInv
<1>3. ASSUME NEW p \in Reviewing!Party,
             \/ Reviewing!ReadOwn(p) \/ Reviewing!ReadOther(p)
             \/ Reviewing!QueueReputation(p) \/ Reviewing!RollBack(p)
      PROVE  ReviewIInv'
  <2>1. /\ UNCHANGED <<rEligible, rCreated, rExpired, rReview, rRestored, rProfile, rWorker>>
        /\ \A q \in Reviewing!Party \ {p} : rSubmit'[q] = rSubmit[q]
        /\ rSubmit' \in [Reviewing!Party -> {"idle", "read", "first", "second", "queued"}]
    BY <1>3 DEF ReviewIInv, Reviewing!TypeOK, Reviewing!ReadOwn, Reviewing!ReadOther,
       Reviewing!QueueReputation, Reviewing!RollBack
  <2>2. /\ rSubmit'[p] # "idle" => rEligible[p] # "none"
        /\ rSubmit'[p] \in {"second", "queued"} => rEligible[Reviewing!Other(p)] = "CONSUMED"
    BY <1>3 DEF ReviewIInv, Reviewing!TypeOK, Reviewing!ReadOwn, Reviewing!ReadOther,
       Reviewing!QueueReputation, Reviewing!RollBack, Reviewing!OtherSubmitted
  <2>3. rJobs' \in [Reviewing!Party -> 0..JobBound]
    BY <1>3, ReviewsAssumption DEF ReviewIInv, Reviewing!TypeOK, Reviewing!ReadOwn,
       Reviewing!ReadOther, Reviewing!QueueReputation, Reviewing!RollBack
  <2> QED BY <2>1, <2>2, <2>3 DEF ReviewIInv, Reviewing!TypeOK
<1>4. ASSUME NEW p \in Reviewing!Party, Reviewing!Commit(p) PROVE ReviewIInv'
  <2>1. /\ UNCHANGED <<rCreated, rExpired, rRestored, rJobs, rProfile, rWorker>>
        /\ rSubmit' = [rSubmit EXCEPT ![p] = "idle"]
        /\ rEligible' = [rEligible EXCEPT ![p] = "CONSUMED"]
        /\ rEligible[p] # "none"
    BY <1>4 DEF ReviewIInv, Reviewing!Commit
  <2>2. \A q \in Reviewing!Party :
           /\ rEligible'[q] = IF q = p THEN "CONSUMED" ELSE rEligible[q]
           /\ rSubmit'[q] = IF q = p THEN "idle" ELSE rSubmit[q]
    BY <2>1 DEF ReviewIInv, Reviewing!TypeOK
  <2>3. /\ rReview' \in [Reviewing!Party -> {"none", "SUBMITTED", "VISIBLE", "FLAGGED", "LOCKED"}]
        /\ \A q \in Reviewing!Party : rReview'[q] = "VISIBLE" => rReview[q] = "VISIBLE" \/ Both'
    <3>1. CASE rSubmit[p] = "queued"
      <4>1. Both'
        BY <2>2, <3>1, OtherParty DEF ReviewIInv
      <4> QED BY <1>4, <3>1, <4>1, OtherParty DEF ReviewIInv, Reviewing!TypeOK, Reviewing!Commit
    <3>2. CASE rSubmit[p] # "queued"
      BY <1>4, <3>2 DEF ReviewIInv, Reviewing!TypeOK, Reviewing!Commit
    <3> QED BY <3>1, <3>2
  <2>4. Reviewing!TypeOK'
    BY <2>1, <2>3 DEF ReviewIInv, Reviewing!TypeOK
  <2>5. Both => Both'
    BY <2>2
  <2>6. rCreated # "none" /\ (rCreated = "client" => rEligible'["artisan"] = "none")
    BY <2>1, <2>2 DEF ReviewIInv, Reviewing!Party
  <2> QED BY <2>1, <2>2, <2>3, <2>4, <2>5, <2>6, OtherParty DEF ReviewIInv
<1>5. ASSUME NEW p \in Reviewing!Party, NEW s \in {"FLAGGED", "LOCKED", "VISIBLE"},
             Reviewing!Moderate(p, s)
      PROVE  ReviewIInv'
  <2>1. Reviewing!TypeOK'
    BY <1>5, OtherParty, ReviewsAssumption DEF ReviewIInv, Reviewing!TypeOK, Reviewing!Moderate
  <2>2. /\ UNCHANGED <<rEligible, rCreated, rExpired, rSubmit, rProfile, rWorker>>
        /\ rRestored \subseteq rRestored'
        /\ \A q \in Reviewing!Party :
              rReview'[q] = "VISIBLE" => rReview[q] = "VISIBLE" \/ q \in rRestored'
    BY <1>5 DEF ReviewIInv, Reviewing!TypeOK, Reviewing!Moderate
  <2> QED BY <2>1, <2>2, OtherParty DEF ReviewIInv
<1>6. ASSUME NEW p \in Reviewing!Party, NEW w \in Actor, Reviewing!Aggregate(w, p)
      PROVE  ReviewIInv'
  <2> DEFINE q == [of |-> p, count |-> Reviewing!VisibleOf(p)]
  <2>1. q \in [of : Reviewing!Party \cup {"none"}, count : 0..1] /\ q.of = p
    BY DEF Reviewing!VisibleOf
  <2>2. q.count = 1 => Reviewing!Other(p) \in rRestored \/ Both
    BY OtherParty DEF Reviewing!VisibleOf, ReviewIInv
  <2>3. /\ rWorker' = [rWorker EXCEPT ![w] = q]
        /\ UNCHANGED <<rEligible, rCreated, rExpired, rReview, rSubmit, rRestored, rProfile>>
        /\ rJobs' \in [Reviewing!Party -> 0..JobBound]
    BY <1>6, ReviewsAssumption DEF Reviewing!Aggregate, ReviewIInv, Reviewing!TypeOK
  <2> HIDE DEF q
  <2> QED BY <2>1, <2>2, <2>3 DEF ReviewIInv, Reviewing!TypeOK
<1>7. ASSUME NEW w \in Actor, Reviewing!Upsert(w) \/ Reviewing!JobThrows(w) PROVE ReviewIInv'
  <2>1. /\ UNCHANGED <<rEligible, rCreated, rExpired, rReview, rSubmit, rRestored>>
        /\ rWorker' = [rWorker EXCEPT ![w] = Reviewing!NoWork]
        /\ rWorker[w] # Reviewing!NoWork
    BY <1>7 DEF Reviewing!Upsert, Reviewing!JobThrows
  <2>2. rWorker' \in [Actor -> [of : Reviewing!Party \cup {"none"}, count : 0..1]]
    BY <2>1 DEF ReviewIInv, Reviewing!TypeOK, Reviewing!NoWork
  <2>3. \A v \in Actor : rWorker'[v] = rWorker[v] \/ rWorker'[v].of = "none"
    BY <2>1 DEF ReviewIInv, Reviewing!TypeOK, Reviewing!NoWork
  <2>4. rJobs' \in [Reviewing!Party -> 0..JobBound]
    BY <1>7, ReviewsAssumption DEF ReviewIInv, Reviewing!TypeOK, Reviewing!Upsert, Reviewing!JobThrows
  <2>5. /\ rProfile' \in [Reviewing!Party -> 0..1]
        /\ \A p \in Reviewing!Party :
              rProfile'[p] = 1 => rProfile[p] = 1 \/ (rWorker[w].of = p /\ rWorker[w].count = 1)
    BY <1>7 DEF ReviewIInv, Reviewing!TypeOK, Reviewing!Upsert, Reviewing!JobThrows
  <2>6. Reviewing!TypeOK'
    BY <2>1, <2>2, <2>4, <2>5 DEF ReviewIInv, Reviewing!TypeOK
  <2>7. BlindUnlessRestored'
    BY <2>1, <2>5, OtherParty DEF ReviewIInv
  <2>8. "none" \notin Reviewing!Party
    BY DEF Reviewing!Party
  <2> QED BY <2>1, <2>3, <2>6, <2>7, <2>8 DEF ReviewIInv
<1>8. CASE UNCHANGED Reviewing!vars
  BY <1>8 DEF ReviewIInv, Reviewing!TypeOK, Reviewing!vars
<1> QED BY <1>1, <1>2, <1>3, <1>4, <1>5, <1>6, <1>7, <1>8 DEF Reviewing!Next

(* submitReview and calculateReputation: nobody's review can be read or     *)
(* counts before both are there, unless an administrator restored it.       *)
THEOREM ReviewsAreBlind ==
    (Reviewing!Spec => []BlindUnlessRestored) /\ (SumSpec => []BlindUnlessRestored)
<1>1. ReviewIInv => BlindUnlessRestored
  BY DEF ReviewIInv
<1>2. Reviewing!Spec => []BlindUnlessRestored
  BY <1>1, ReviewInitIInv, ReviewNextIInv, PTL DEF Reviewing!Spec
<1>3. SumSpec => []BlindUnlessRestored
  BY <1>1, ReviewInitIInv, ReviewNextIInv, PartInits, PartSteps, PTL DEF SumSpec
<1> QED BY <1>2, <1>3
-----------------------------------------------------------------------------
(* Deliverables: the versions of a row are its numbers up to their length,  *)
(* so the latest is how many there are, and what a request read as the      *)
(* latest was there.                                                        *)
Count(d) == Len(vVersions[d])

(* What a request read of rows with statuses st and versions vs             *)
ReadWell(q, st, vs) ==
    /\ q.at = "missing" => q.op = "submit" /\ q.latest = 0
    /\ q.at = "read" => /\ st[q.of] # "none"
                        /\ q.latest <= Len(vs[q.of])
                        /\ q.op \in {"view", "revise", "approve"} => q.latest > 0
    /\ q.op \in {"submit", "view", "revise"} => q.approved = FALSE

DeliverableIInv ==
    /\ Deliverable!TypeOK
    /\ vVersions \in [Deliverable!Row -> Seq(Nat)]
    /\ VersionsInOrder
    /\ \A r \in Actor : ReadWell(vRequest[r], vStatus, vVersions)

DeliverableRequest ==
    [op : Deliverable!Op, of : Deliverable!Row, at : {"idle", "missing", "read"},
     latest : 0..VersionBound, approved : BOOLEAN]

LEMMA DeliverableInitIInv == Deliverable!Init => DeliverableIInv
<1> SUFFICES ASSUME Deliverable!Init PROVE DeliverableIInv
  OBVIOUS
<1>1. Deliverable!Idle \in DeliverableRequest
  BY DeliverablesAssumption
  DEF Deliverable!Idle, Deliverable!Op, Deliverable!Row, DeliverableRequest
<1>2. vVersions \in [Deliverable!Row -> Seq(Nat)] /\ \A d \in Deliverable!Row : Len(vVersions[d]) = 0
  BY DEF Deliverable!Init
<1>3. Deliverable!TypeOK
  BY <1>1, <1>2, DeliverablesAssumption
  DEF Deliverable!Init, Deliverable!TypeOK, Deliverable!DeliverableStatus, DeliverableRequest
<1>4. VersionsInOrder
  BY <1>2 DEF VersionsInOrder, Deliverable!VersionsInOrder, Deliverable!Init
<1>5. \A r \in Actor : ReadWell(vRequest[r], vStatus, vVersions)
  BY DEF Deliverable!Init, Deliverable!Idle, ReadWell
<1> QED BY <1>2, <1>3, <1>4, <1>5 DEF DeliverableIInv

(* The numbers of a row, and the latest                                     *)
LEMMA VersionFacts ==
    ASSUME DeliverableIInv, NEW d \in Deliverable!Row
    PROVE  /\ vVersions[d] \in Seq(Nat) /\ Count(d) \in 0..VersionBound /\ Count(d) \in Nat
           /\ Deliverable!Numbers(d) = 1..Count(d)
           /\ Deliverable!Latest(d) = Count(d)
           /\ vVersions[d] = <<>> <=> Count(d) = 0
<1>1. /\ vVersions[d] \in Seq(Nat) /\ Count(d) \in Nat /\ Count(d) <= VersionBound
      /\ DOMAIN vVersions[d] = 1..Count(d)
      /\ \A i \in 1..Count(d) : vVersions[d][i] = i
      /\ vVersions[d] = <<>> <=> Count(d) = 0
  BY DEF DeliverableIInv, Deliverable!TypeOK, VersionsInOrder, Deliverable!VersionsInOrder, Count
<1>2. Deliverable!Numbers(d) = 1..Count(d)
  BY <1>1 DEF Deliverable!Numbers
<1>3. CASE Count(d) = 0
  BY <1>1, <1>2, <1>3, DeliverablesAssumption DEF Deliverable!Latest
<1>4. CASE Count(d) # 0
  <2>1. Count(d) \in 1..Count(d) /\ \A m \in 1..Count(d) : m <= Count(d)
    BY <1>1, <1>4
  <2>2. \A n \in 1..Count(d) : (\A m \in 1..Count(d) : m <= n) => n = Count(d)
    BY <1>1, <2>1
  <2>3. Deliverable!Latest(d) = CHOOSE n \in 1..Count(d) : \A m \in 1..Count(d) : m <= n
    BY <1>1, <1>2, <1>4 DEF Deliverable!Latest
  <2>4. Deliverable!Latest(d) = Count(d)
    BY <2>1, <2>2, <2>3
  <2> QED BY <1>1, <1>2, <2>4, DeliverablesAssumption
<1> QED BY <1>3, <1>4

(* A step of one request, that takes no version away and no row             *)
LEMMA DeliverableStep ==
    ASSUME DeliverableIInv, NEW r \in Actor, NEW q \in DeliverableRequest,
           vRequest' = [vRequest EXCEPT ![r] = q],
           ReadWell(q, vStatus', vVersions'),
           vVersions' \in [Deliverable!Row -> Seq(Nat)],
           vStatus' \in [Deliverable!Row -> Deliverable!DeliverableStatus],
           vRevisions' \in [Deliverable!Row -> SUBSET (1..VersionBound)],
           VersionsInOrder',
           \A d \in Deliverable!Row :
               /\ Len(vVersions'[d]) <= VersionBound
               /\ Len(vVersions[d]) <= Len(vVersions'[d])
               /\ vStatus[d] # "none" => vStatus'[d] # "none"
    PROVE  DeliverableIInv'
<1>1. /\ vRequest' \in [Actor -> DeliverableRequest] /\ vRequest'[r] = q
      /\ \A x \in Actor : vRequest[x] \in DeliverableRequest
      /\ \A x \in Actor \ {r} : vRequest'[x] = vRequest[x]
  BY DEF DeliverableIInv, Deliverable!TypeOK, DeliverableRequest
<1>2. ASSUME NEW x \in Actor PROVE ReadWell(vRequest'[x], vStatus', vVersions')
  <2>1. CASE x = r
    BY <1>1, <2>1
  <2>2. CASE x # r
    <3>1. ReadWell(vRequest[x], vStatus, vVersions) /\ vRequest'[x] = vRequest[x]
      BY <1>1, <2>2 DEF DeliverableIInv
    <3> DEFINE d == vRequest[x].of
    <3>2. d \in Deliverable!Row /\ vRequest[x].latest \in Nat
      BY <1>1, DeliverablesAssumption DEF DeliverableRequest
    <3>3. /\ Len(vVersions[d]) <= Len(vVersions'[d])
          /\ Len(vVersions[d]) \in Nat /\ Len(vVersions'[d]) \in Nat
          /\ vStatus[d] # "none" => vStatus'[d] # "none"
      BY <3>2 DEF DeliverableIInv
    <3> QED BY <3>1, <3>2, <3>3 DEF ReadWell
  <2> QED BY <2>1, <2>2
<1>3. ASSUME NEW d \in Deliverable!Row, NEW i \in DOMAIN vVersions'[d]
      PROVE  vVersions'[d][i] \in 1..VersionBound
  <2>1. vVersions'[d][i] = i
    BY DEF VersionsInOrder, Deliverable!VersionsInOrder
  <2>2. vVersions'[d] \in Seq(Nat) /\ Len(vVersions'[d]) <= VersionBound
    OBVIOUS
  <2> QED BY <2>1, <2>2, DeliverablesAssumption
<1>4. Deliverable!TypeOK'
  BY <1>1, <1>3 DEF Deliverable!TypeOK, DeliverableRequest
<1> QED BY <1>2, <1>4 DEF DeliverableIInv

(* A step that changes no row                                               *)
LEMMA DeliverableReads ==
    ASSUME DeliverableIInv, NEW r \in Actor, NEW q \in DeliverableRequest,
           vRequest' = [vRequest EXCEPT ![r] = q],
           ReadWell(q, vStatus, vVersions),
           UNCHANGED <<vStatus, vVersions, vRevisions>>
    PROVE  DeliverableIInv'
<1>1. \A d \in Deliverable!Row : Len(vVersions[d]) <= VersionBound /\ Len(vVersions[d]) \in Nat
  BY DEF DeliverableIInv, Deliverable!TypeOK
<1>2. VersionsInOrder'
  BY DEF DeliverableIInv, VersionsInOrder, Deliverable!VersionsInOrder, Deliverable!Numbers
<1>3. /\ ReadWell(q, vStatus', vVersions')
      /\ vVersions' \in [Deliverable!Row -> Seq(Nat)]
      /\ vStatus' \in [Deliverable!Row -> Deliverable!DeliverableStatus]
      /\ vRevisions' \in [Deliverable!Row -> SUBSET (1..VersionBound)]
  BY DEF DeliverableIInv, Deliverable!TypeOK
<1>4. \A d \in Deliverable!Row : /\ Len(vVersions'[d]) <= VersionBound
                                 /\ Len(vVersions[d]) <= Len(vVersions'[d])
                                 /\ vStatus[d] # "none" => vStatus'[d] # "none"
  BY <1>1
<1> QED BY <1>2, <1>3, <1>4, DeliverableStep

LEMMA DeliverableIdle ==
    \A st, vs : Deliverable!Idle \in DeliverableRequest /\ ReadWell(Deliverable!Idle, st, vs)
BY DeliverablesAssumption
DEF Deliverable!Idle, Deliverable!Op, Deliverable!Row, DeliverableRequest, ReadWell

(* What a request that found a row and reads it knows                       *)
LEMMA ReadsWell ==
    ASSUME DeliverableIInv, NEW d \in Deliverable!Row, NEW op \in {"submit", "view", "revise", "approve"},
           vStatus[d] # "none",
           op \in {"submit", "view", "revise"} => vStatus[d] # "APPROVED",
           op # "submit" => vVersions[d] # <<>>
    PROVE  LET q == [op |-> op, of |-> d, at |-> "read", latest |-> Deliverable!Latest(d),
                     approved |-> vStatus[d] \in Deliverable!Approved]
           IN  q \in DeliverableRequest /\ ReadWell(q, vStatus, vVersions)
<1>1. /\ Deliverable!Latest(d) \in 0..VersionBound
      /\ Deliverable!Latest(d) <= Len(vVersions[d])
      /\ op # "submit" => Deliverable!Latest(d) > 0
  BY VersionFacts DEF Count
<1>2. op \in {"submit", "view", "revise"} => (vStatus[d] \in Deliverable!Approved) = FALSE
  BY DEF Deliverable!Approved
<1>3. op \in Deliverable!Op /\ (vStatus[d] \in Deliverable!Approved) \in BOOLEAN
  BY DEF Deliverable!Op
<1> QED BY <1>1, <1>2, <1>3 DEF DeliverableRequest, ReadWell

LEMMA DeliverableNextIInv ==
    DeliverableIInv /\ [Deliverable!Next]_(Deliverable!vars) => DeliverableIInv'
<1> SUFFICES ASSUME DeliverableIInv, [Deliverable!Next]_(Deliverable!vars) PROVE DeliverableIInv'
  OBVIOUS
<1>0. /\ vStatus \in [Deliverable!Row -> Deliverable!DeliverableStatus]
      /\ vRevisions \in [Deliverable!Row -> SUBSET (1..VersionBound)]
      /\ vVersions \in [Deliverable!Row -> Seq(Nat)]
      /\ vRequest \in [Actor -> DeliverableRequest]
      /\ \A r \in Actor : ReadWell(vRequest[r], vStatus, vVersions)
  BY DEF DeliverableIInv, Deliverable!TypeOK, DeliverableRequest
<1>1. ASSUME NEW r \in Actor, Deliverable!FindDeliverable(r) PROVE DeliverableIInv'
  <2>1. UNCHANGED <<vStatus, vVersions, vRevisions>> /\ vRequest[r] = Deliverable!Idle
    BY <1>1 DEF Deliverable!FindDeliverable
  <2>2. ASSUME NEW d \in Deliverable!Row, vStatus[d] \notin Deliverable!Approved \cup {"none"},
               Deliverable!Read(r, "submit", d)
        PROVE  DeliverableIInv'
    <3>1. vStatus[d] # "none" /\ vStatus[d] # "APPROVED"
      BY <2>2 DEF Deliverable!Approved
    <3> QED BY <2>1, <2>2, <3>1, ReadsWell, DeliverableReads DEF Deliverable!Read
  <2>3. ASSUME vRequest' = [vRequest EXCEPT ![r].op = "submit", ![r].at = "missing"]
        PROVE  DeliverableIInv'
    <3> DEFINE q == [op |-> "submit", of |-> 1, at |-> "missing", latest |-> 0, approved |-> FALSE]
    <3>1. vRequest' = [vRequest EXCEPT ![r] = q]
      BY <1>0, <2>1, <2>3 DEF Deliverable!Idle
    <3>2. q \in DeliverableRequest /\ ReadWell(q, vStatus, vVersions)
      BY DeliverablesAssumption DEF DeliverableRequest, ReadWell, Deliverable!Op, Deliverable!Row
    <3> HIDE DEF q
    <3> QED BY <2>1, <3>1, <3>2, DeliverableReads
  <2> QED BY <1>1, <2>2, <2>3 DEF Deliverable!FindDeliverable
<1>2. ASSUME NEW r \in Actor, NEW d \in Deliverable!Row, Deliverable!CreateDeliverable(r, d)
      PROVE  DeliverableIInv'
  <2> DEFINE q == [[vRequest[r] EXCEPT !.of = d] EXCEPT !.at = "read"]
  <2>1. /\ vRequest' = [vRequest EXCEPT ![r] = q] /\ q \in DeliverableRequest
        /\ vStatus[d] = "none" /\ vStatus' = [vStatus EXCEPT ![d] = "NOT_STARTED"]
        /\ UNCHANGED <<vVersions, vRevisions>>
    <3>1. vRequest[r] \in DeliverableRequest
      BY <1>0
    <3>3. vRequest' = [[vRequest EXCEPT ![r].of = d] EXCEPT ![r].at = "read"]
      BY <1>2 DEF Deliverable!CreateDeliverable
    <3>4. vRequest' = [vRequest EXCEPT ![r] = [[vRequest[r] EXCEPT !.of = d] EXCEPT !.at = "read"]]
      BY <1>0, <3>3
    <3>5. q \in DeliverableRequest
      BY <3>1 DEF DeliverableRequest
    <3> QED BY <1>2, <3>4, <3>5 DEF Deliverable!CreateDeliverable
  <2>2. /\ vStatus' \in [Deliverable!Row -> Deliverable!DeliverableStatus]
        /\ vStatus'[d] = "NOT_STARTED"
        /\ \A c \in Deliverable!Row \ {d} : vStatus'[c] = vStatus[c]
    BY <1>0, <2>1 DEF Deliverable!DeliverableStatus
  <2>3. q.op = "submit" /\ q.latest = 0 /\ q.approved = FALSE /\ q.at = "read" /\ q.of = d
    <3>1. vRequest[r] \in DeliverableRequest
      BY <1>0
    <3>2. /\ q.op = vRequest[r].op /\ q.latest = vRequest[r].latest
          /\ q.approved = vRequest[r].approved /\ q.at = "read" /\ q.of = d
      BY <3>1 DEF DeliverableRequest
    <3>3. vRequest[r].op = "submit" /\ vRequest[r].latest = 0 /\ vRequest[r].approved = FALSE
      BY <1>0, <1>2 DEF Deliverable!CreateDeliverable, ReadWell
    <3> HIDE DEF q
    <3> QED BY <3>2, <3>3
  <2> HIDE DEF q
  <2>4. ReadWell(q, vStatus', vVersions')
    <3>1. Len(vVersions'[d]) >= 0
      BY <1>0, <2>1
    <3> QED BY <2>2, <2>3, <3>1 DEF ReadWell
  <2>5. VersionsInOrder'
    BY <2>1, <2>2 DEF DeliverableIInv, VersionsInOrder, Deliverable!VersionsInOrder,
       Deliverable!Numbers
  <2>6. \A c \in Deliverable!Row : /\ Len(vVersions'[c]) <= VersionBound
                                   /\ Len(vVersions[c]) <= Len(vVersions'[c])
                                   /\ vStatus[c] # "none" => vStatus'[c] # "none"
    BY <1>0, <2>1, <2>2 DEF DeliverableIInv, Deliverable!TypeOK
  <2> QED BY <1>0, <2>1, <2>2, <2>4, <2>5, <2>6, DeliverableStep
<1>3. ASSUME NEW r \in Actor, Deliverable!StoreVersion(r) PROVE DeliverableIInv'
  <2>0. PICK d \in Deliverable!Row, n \in Nat :
             d = vRequest[r].of /\ n = vRequest[r].latest + 1
    BY <1>0, DeliverablesAssumption DEF DeliverableRequest
  <2>1. /\ vRequest' = [vRequest EXCEPT ![r] = Deliverable!Idle] /\ UNCHANGED vRevisions
        /\ vStatus[d] # "none"
        /\ n \in 1..VersionBound /\ n <= Count(d) + 1
    BY <1>0, <1>3, <2>0, DeliverablesAssumption DEF Deliverable!StoreVersion, Deliverable!Writes,
       Deliverable!Leave, DeliverableRequest, ReadWell, Count
  <2>2. CASE n \in Deliverable!Numbers(d)
    <3>1. UNCHANGED <<vVersions, vStatus>>
      BY <1>3, <2>0, <2>2 DEF Deliverable!StoreVersion
    <3> QED BY <2>1, <3>1, DeliverableIdle, DeliverableReads
  <2>3. CASE n \notin Deliverable!Numbers(d)
    <3>1. /\ vVersions' = [vVersions EXCEPT ![d] = Append(vVersions[d], n)]
          /\ vStatus' = [vStatus EXCEPT ![d] = IF n = 1 THEN "SUBMITTED" ELSE "RESUBMITTED"]
      BY <1>3, <2>0, <2>3 DEF Deliverable!StoreVersion
    <3>2. n = Count(d) + 1 /\ Count(d) \in Nat
      BY <2>1, <2>3, VersionFacts
    <3>3. /\ vVersions' \in [Deliverable!Row -> Seq(Nat)]
          /\ vVersions'[d] = Append(vVersions[d], n)
          /\ vStatus' \in [Deliverable!Row -> Deliverable!DeliverableStatus]
          /\ vStatus'[d] \in {"SUBMITTED", "RESUBMITTED"}
          /\ \A c \in Deliverable!Row \ {d} :
                vVersions'[c] = vVersions[c] /\ vStatus'[c] = vStatus[c]
      BY <1>0, <2>1, <3>1, <3>2 DEF Deliverable!DeliverableStatus
    <3>4. /\ Len(vVersions'[d]) = n /\ vVersions'[d] # <<>>
          /\ DOMAIN vVersions'[d] = 1..n
          /\ \A i \in 1..n : vVersions'[d][i] = i
      <4>1. vVersions[d] \in Seq(Nat) /\ Len(vVersions[d]) = n - 1
        BY <3>2, VersionFacts DEF Count
      <4>2. \A i \in 1..(n - 1) : vVersions[d][i] = i
        BY <4>1 DEF DeliverableIInv, VersionsInOrder, Deliverable!VersionsInOrder
      <4>3. Len(vVersions'[d]) = n /\ DOMAIN vVersions'[d] = 1..n
        BY <3>3, <4>1
      <4>4. ASSUME NEW i \in 1..n PROVE vVersions'[d][i] = i
        <5>1. CASE i = n
          BY <3>3, <4>1, <5>1
        <5>2. CASE i # n
          BY <3>3, <4>1, <4>2, <5>2
        <5> QED BY <5>1, <5>2
      <4>5. vVersions'[d] # <<>>
        BY <2>1, <4>3
      <4> QED BY <4>3, <4>4, <4>5
    <3>5. Deliverable!Numbers(d) \subseteq Deliverable!Numbers(d)'
      <4>1. Deliverable!Numbers(d)' = {vVersions'[d][i] : i \in DOMAIN vVersions'[d]}
        BY DEF Deliverable!Numbers
      <4>2. Deliverable!Numbers(d)' = 1..n
        BY <3>4, <4>1
      <4> QED BY <3>2, <4>2, VersionFacts
    <3>6. VersionsInOrder'
      <4>1. ASSUME NEW c \in Deliverable!Row \ {d}
            PROVE  /\ vVersions'[c] = vVersions[c] /\ vStatus'[c] = vStatus[c]
                   /\ vRevisions'[c] = vRevisions[c]
                   /\ Deliverable!Numbers(c)' = Deliverable!Numbers(c)
        BY <2>1, <3>3 DEF Deliverable!Numbers
      <4>2. vRevisions'[d] \subseteq Deliverable!Numbers(d)'
        BY <2>1, <3>5 DEF DeliverableIInv, VersionsInOrder, Deliverable!VersionsInOrder
      <4>3. ASSUME NEW c \in Deliverable!Row
            PROVE  /\ \A i \in DOMAIN vVersions'[c] : vVersions'[c][i] = i
                   /\ vVersions'[c] = <<>> <=> vStatus'[c] \in {"none", "NOT_STARTED"}
                   /\ vRevisions'[c] \subseteq Deliverable!Numbers(c)'
        <5>1. CASE c = d
          BY <3>3, <3>4, <4>2, <5>1
        <5>2. CASE c # d
          BY <4>1, <5>2 DEF DeliverableIInv, VersionsInOrder, Deliverable!VersionsInOrder
        <5> QED BY <5>1, <5>2
      <4> QED BY <4>3 DEF VersionsInOrder, Deliverable!VersionsInOrder
    <3>7. \A c \in Deliverable!Row : /\ Len(vVersions'[c]) <= VersionBound
                                     /\ Len(vVersions[c]) <= Len(vVersions'[c])
                                     /\ vStatus[c] # "none" => vStatus'[c] # "none"
      BY <1>0, <2>1, <3>2, <3>3, <3>4 DEF DeliverableIInv, Deliverable!TypeOK, Count
    <3> QED BY <1>0, <2>1, <3>3, <3>6, <3>7, DeliverableIdle, DeliverableStep
  <2> QED BY <2>2, <2>3
<1>4. ASSUME NEW r \in Actor,
             \/ Deliverable!MarkAsViewed(r) \/ Deliverable!RequestRevision(r)
             \/ Deliverable!Approve(r)
      PROVE  DeliverableIInv'
  <2>0. PICK d \in Deliverable!Row : d = vRequest[r].of
    BY <1>0 DEF DeliverableRequest
  <2>1. /\ vRequest' = [vRequest EXCEPT ![r] = Deliverable!Idle] /\ UNCHANGED vVersions
        /\ vRequest[r].latest \in 1..Count(d)
    BY <1>0, <1>4, <2>0, DeliverablesAssumption DEF Deliverable!MarkAsViewed,
       Deliverable!RequestRevision, Deliverable!Approve, Deliverable!Writes,
       Deliverable!Leave, DeliverableRequest, ReadWell, Count
  <2>2. /\ vStatus' \in [Deliverable!Row -> Deliverable!DeliverableStatus]
        /\ vStatus'[d] \in {"UNDER_REVIEW", "REVISION_REQUESTED", "APPROVED"}
        /\ \A c \in Deliverable!Row \ {d} : vStatus'[c] = vStatus[c]
    BY <1>0, <1>4, <2>0, <2>1 DEF Deliverable!MarkAsViewed, Deliverable!RequestRevision,
       Deliverable!Approve, Deliverable!DeliverableStatus
  <2>3. \A c \in Deliverable!Row :
           vRevisions'[c] \subseteq vRevisions[c] \cup (IF c = d THEN {vRequest[r].latest} ELSE {})
    BY <1>0, <1>4, <2>0 DEF Deliverable!MarkAsViewed, Deliverable!RequestRevision,
       Deliverable!Approve
  <2>4. \A c \in Deliverable!Row : vRevisions'[c] \subseteq Deliverable!Numbers(c)
    BY <2>1, <2>3, VersionFacts DEF DeliverableIInv, VersionsInOrder, Deliverable!VersionsInOrder
  <2>5. vRevisions' \in [Deliverable!Row -> SUBSET (1..VersionBound)]
    <3>1. \A c \in Deliverable!Row : Deliverable!Numbers(c) \subseteq 1..VersionBound
      BY VersionFacts, DeliverablesAssumption
    <3>2. vRevisions' = [c \in Deliverable!Row |-> vRevisions'[c]]
      BY <1>0, <1>4 DEF Deliverable!MarkAsViewed, Deliverable!RequestRevision, Deliverable!Approve
    <3> QED BY <2>4, <3>1, <3>2
  <2>6. vVersions[d] # <<>>
    BY <2>1, VersionFacts
  <2>7. VersionsInOrder'
    <3>1. ASSUME NEW c \in Deliverable!Row
          PROVE  Deliverable!Numbers(c)' = Deliverable!Numbers(c)
      BY <2>1 DEF Deliverable!Numbers
    <3>2. ASSUME NEW c \in Deliverable!Row
          PROVE  vVersions'[c] = <<>> <=> vStatus'[c] \in {"none", "NOT_STARTED"}
      <4>1. CASE c = d
        BY <2>1, <2>2, <2>6, <4>1
      <4>2. CASE c # d
        BY <2>1, <2>2, <4>2 DEF DeliverableIInv, VersionsInOrder, Deliverable!VersionsInOrder
      <4> QED BY <4>1, <4>2
    <3>3. \A c \in Deliverable!Row : \A i \in DOMAIN vVersions'[c] : vVersions'[c][i] = i
      BY <2>1 DEF DeliverableIInv, VersionsInOrder, Deliverable!VersionsInOrder
    <3> QED BY <2>4, <3>1, <3>2, <3>3 DEF VersionsInOrder, Deliverable!VersionsInOrder
  <2>8. \A c \in Deliverable!Row : /\ Len(vVersions'[c]) <= VersionBound
                                   /\ Len(vVersions[c]) <= Len(vVersions'[c])
                                   /\ vStatus[c] # "none" => vStatus'[c] # "none"
    BY <1>0, <2>1, <2>2 DEF DeliverableIInv, Deliverable!TypeOK
  <2> QED BY <1>0, <2>1, <2>2, <2>5, <2>7, <2>8, DeliverableIdle, DeliverableStep
<1>5. ASSUME NEW r \in Actor, NEW d \in Deliverable!Row, NEW op \in {"view", "revise", "approve"},
             Deliverable!ReadForReview(r, op, d)
      PROVE  DeliverableIInv'
  <2>1. /\ vVersions[d] # <<>> /\ UNCHANGED <<vStatus, vVersions, vRevisions>>
        /\ op \in {"view", "revise"} => vStatus[d] # "APPROVED"
        /\ Deliverable!Read(r, op, d)
    BY <1>5 DEF Deliverable!ReadForReview, Deliverable!Approved
  <2>2. vStatus[d] # "none"
    BY <2>1 DEF DeliverableIInv, VersionsInOrder, Deliverable!VersionsInOrder
  <2> QED BY <2>1, <2>2, ReadsWell, DeliverableReads DEF Deliverable!Read
<1>6. ASSUME NEW r \in Actor, Deliverable!Fails(r) PROVE DeliverableIInv'
  BY <1>6, DeliverableIdle, DeliverableReads DEF Deliverable!Fails, Deliverable!Leave
<1>7. CASE UNCHANGED Deliverable!vars
  BY <1>7 DEF DeliverableIInv, Deliverable!TypeOK, Deliverable!vars, VersionsInOrder,
     Deliverable!VersionsInOrder, Deliverable!Numbers
<1> QED BY <1>1, <1>2, <1>3, <1>4, <1>5, <1>6, <1>7 DEF Deliverable!Next

(* However submissions race, the versions of a deliverable are numbered in  *)
(* the order they are inserted in (DeliverablesService.submitVersion).      *)
THEOREM VersionsAreInOrder ==
    /\ Deliverable!Spec => []VersionsInOrder
    /\ SumSpec => []VersionsInOrder
<1>1. DeliverableIInv => VersionsInOrder
  BY DEF DeliverableIInv
<1>2. Deliverable!Spec => []VersionsInOrder
  BY <1>1, DeliverableInitIInv, DeliverableNextIInv, PTL DEF Deliverable!Spec
<1>3. SumInit => DeliverableIInv
  BY PartInits, DeliverableInitIInv
<1>4. DeliverableIInv /\ [SumNext]_sumVars => DeliverableIInv'
  BY PartSteps, DeliverableNextIInv
<1>5. SumSpec => []VersionsInOrder
  BY <1>1, <1>3, <1>4, PTL DEF SumSpec
<1> QED BY <1>2, <1>5

(* An approval is undone only by what was read before it.                   *)
LEMMA ApprovalUndone ==
    ASSUME DeliverableIInv, [Deliverable!Next]_(Deliverable!vars)
    PROVE  [\A d \in Deliverable!Row :
              vStatus[d] \in Deliverable!Approved /\ vStatus'[d] # vStatus[d]
              => \E r \in Actor : /\ vRequest[r].of = d /\ ~vRequest[r].approved
                                  /\ vRequest[r].at = "read" /\ vRequest'[r] = Deliverable!Idle]_(Deliverable!vars)
<1> SUFFICES ASSUME Deliverable!Next, NEW d \in Deliverable!Row,
                    vStatus[d] = "APPROVED", vStatus'[d] # vStatus[d]
             PROVE  \E r \in Actor : /\ vRequest[r].of = d /\ ~vRequest[r].approved
                                     /\ vRequest[r].at = "read"
                                     /\ vRequest'[r] = Deliverable!Idle
  BY DEF Deliverable!Approved, Deliverable!vars
<1>0. /\ vStatus \in [Deliverable!Row -> Deliverable!DeliverableStatus]
      /\ vRequest \in [Actor -> DeliverableRequest]
      /\ \A r \in Actor : ReadWell(vRequest[r], vStatus, vVersions)
  BY DEF DeliverableIInv, Deliverable!TypeOK, DeliverableRequest
<1>1. ASSUME NEW r \in Actor,
             Deliverable!StoreVersion(r) \/ Deliverable!MarkAsViewed(r)
             \/ Deliverable!RequestRevision(r) \/ Deliverable!Approve(r)
      PROVE  /\ vRequest[r].of = d /\ ~vRequest[r].approved
             /\ vRequest[r].at = "read" /\ vRequest'[r] = Deliverable!Idle
  <2>1. /\ vRequest[r].at = "read" /\ vRequest'[r] = Deliverable!Idle
        /\ vRequest[r].op \in {"submit", "view", "revise", "approve"}
    BY <1>0, <1>1 DEF Deliverable!StoreVersion, Deliverable!MarkAsViewed,
       Deliverable!RequestRevision, Deliverable!Approve, Deliverable!Writes, Deliverable!Leave
  <2>2. vRequest[r].of = d
    BY <1>0, <1>1 DEF Deliverable!StoreVersion, Deliverable!MarkAsViewed,
       Deliverable!RequestRevision, Deliverable!Approve
  <2>3. vRequest[r].op # "approve"
    BY <1>0, <1>1, <2>2 DEF Deliverable!StoreVersion, Deliverable!MarkAsViewed,
       Deliverable!RequestRevision, Deliverable!Approve, Deliverable!Writes
  <2>4. vRequest[r].approved = FALSE
    BY <1>0, <2>1, <2>3 DEF ReadWell
  <2> QED BY <2>1, <2>2, <2>4
<1>2. ASSUME NEW r \in Actor, NEW c \in Deliverable!Row, Deliverable!CreateDeliverable(r, c)
      PROVE  FALSE
  BY <1>0, <1>2 DEF Deliverable!CreateDeliverable
<1>3. ASSUME NEW r \in Actor,
             \/ Deliverable!FindDeliverable(r) \/ Deliverable!Fails(r)
             \/ \E c \in Deliverable!Row, op \in {"view", "revise", "approve"} :
                   Deliverable!ReadForReview(r, op, c)
      PROVE  FALSE
  BY <1>3 DEF Deliverable!FindDeliverable, Deliverable!Fails, Deliverable!ReadForReview
<1> QED BY <1>1, <1>2, <1>3 DEF Deliverable!Next
-----------------------------------------------------------------------------
(* Marketplace: what every handler that decides on a proposal, or writes    *)
(* it, had read was not decided.                                            *)
MarketRequest ==
    [op : Market!Op, of : Artisan \cup {None},
     seen : [decided : BOOLEAN, amount : Market!Amount]]

Deciding == {"propose", "updateDraft", "create", "edit", "withdraw", "accept", "reject"}

ReadUndecided(q) == q.op \in Deciding => q.seen.decided = FALSE

MarketIInv == /\ Market!TypeOK
              /\ \A r \in Actor : ReadUndecided(mRequest[r])

LEMMA MarketIdle == Market!Idle \in MarketRequest /\ ReadUndecided(Market!Idle)
BY DEF Market!Idle, Market!NotRead, Market!Op, Market!Amount, MarketRequest, ReadUndecided,
   Deciding

LEMMA MarketInitIInv == Market!Init => MarketIInv
BY MarketIdle
DEF Market!Init, MarketIInv, Market!TypeOK, MarketRequest, Market!JobStatus, Market!RowType,
    Market!NoProposal, Market!NoContract, Market!Amount

(* A step of one request                                                    *)
LEMMA MarketStep ==
    ASSUME MarketIInv, NEW r \in Actor, NEW q \in MarketRequest,
           mRequest' = [mRequest EXCEPT ![r] = q], ReadUndecided(q),
           mJob' \in [status : Market!JobStatus, contracted : BOOLEAN, deleted : BOOLEAN],
           mProposal' \in [Artisan -> Market!RowType],
           mContract' \in [of : Artisan \cup {None}, amount : Market!Amount]
    PROVE  MarketIInv'
<1>1. /\ mRequest' \in [Actor -> MarketRequest] /\ mRequest'[r] = q
      /\ \A x \in Actor \ {r} : mRequest'[x] = mRequest[x]
  BY DEF MarketIInv, Market!TypeOK, MarketRequest
<1>2. \A x \in Actor : ReadUndecided(mRequest'[x])
  BY <1>1 DEF MarketIInv
<1> QED BY <1>1, <1>2 DEF MarketIInv, Market!TypeOK, MarketRequest

(* What a request read of a proposal                                        *)
LEMMA MarketBegins ==
    ASSUME MarketIInv, NEW r \in Actor, NEW op \in Market!Op, NEW a \in Artisan \cup {None},
           op \in Market!ByStatus \cup {"contract"} => a \in Artisan,
           op \in Market!ByStatus \ {"delete"} => mProposal[a].status \notin Market!Decided,
           Market!Begin(r, op, a)
    PROVE  MarketIInv'
<1> DEFINE seen == CASE op = "contract" -> [decided |-> TRUE, amount |-> mProposal[a].amount]
                     [] op \in Market!ByStatus ->
                          [Market!NotRead EXCEPT !.decided = mProposal[a].status \in Market!Decided]
                     [] OTHER -> Market!NotRead
           q == [op |-> op, of |-> a, seen |-> seen]
<1>1. mRequest' = [mRequest EXCEPT ![r] = q] /\ UNCHANGED <<mJob, mProposal, mContract>>
  BY DEF Market!Begin
<1>2. a \in Artisan => mProposal[a] \in Market!RowType
  BY DEF MarketIInv, Market!TypeOK
<1>3. /\ seen \in [decided : BOOLEAN, amount : Market!Amount]
      /\ op \in Deciding => seen.decided = FALSE
  <2>1. CASE op = "contract"
    <3>1. seen = [decided |-> TRUE, amount |-> mProposal[a].amount]
      BY <2>1 DEF Market!ByStatus
    <3>2. mProposal[a].amount \in Market!Amount
      BY <1>2, <2>1 DEF Market!RowType
    <3> HIDE DEF seen
    <3> QED BY <2>1, <3>1, <3>2 DEF Deciding
  <2>2. CASE op \in Market!ByStatus
    <3>1. seen = [Market!NotRead EXCEPT !.decided = mProposal[a].status \in Market!Decided]
      BY <2>2 DEF Market!ByStatus
    <3>2. op # "delete" => (mProposal[a].status \in Market!Decided) = FALSE
      BY <2>2
    <3>3. Market!NotRead \in [decided : BOOLEAN, amount : Market!Amount]
      BY DEF Market!NotRead, Market!Amount
    <3>4. (mProposal[a].status \in Market!Decided) \in BOOLEAN
      OBVIOUS
    <3> HIDE DEF seen
    <3> QED BY <3>1, <3>2, <3>3, <3>4 DEF Deciding
  <2>3. CASE op \notin Market!ByStatus \cup {"contract"}
    <3>1. seen = Market!NotRead
      BY <2>3
    <3> HIDE DEF seen
    <3> QED BY <3>1 DEF Market!NotRead, Market!Amount
  <2> QED BY <2>1, <2>2, <2>3
<1> HIDE DEF seen
<1>4. q \in MarketRequest /\ ReadUndecided(q)
  BY <1>3 DEF MarketRequest, ReadUndecided
<1>5. /\ mJob' \in [status : Market!JobStatus, contracted : BOOLEAN, deleted : BOOLEAN]
      /\ mProposal' \in [Artisan -> Market!RowType]
      /\ mContract' \in [of : Artisan \cup {None}, amount : Market!Amount]
  BY <1>1 DEF MarketIInv, Market!TypeOK
<1> HIDE DEF q
<1> QED BY <1>1, <1>4, <1>5, MarketStep

(* A write keeps the types of the rows.                                     *)
LEMMA MarketWrites ==
    ASSUME MarketIInv, NEW r \in Actor, Market!Writing(r)
    PROVE  /\ mJob' \in [status : Market!JobStatus, contracted : BOOLEAN, deleted : BOOLEAN]
           /\ mProposal' \in [Artisan -> Market!RowType]
           /\ mContract' \in [of : Artisan \cup {None}, amount : Market!Amount]
<1>0. /\ mJob \in [status : Market!JobStatus, contracted : BOOLEAN, deleted : BOOLEAN]
      /\ mProposal \in [Artisan -> Market!RowType]
      /\ mContract \in [of : Artisan \cup {None}, amount : Market!Amount]
      /\ mRequest \in [Actor -> MarketRequest]
  BY DEF MarketIInv, Market!TypeOK, MarketRequest
<1>1. ASSUME Market!FindProposal(r) \/ Market!ContractRefused(r)
      PROVE  UNCHANGED <<mJob, mProposal, mContract>>
  BY <1>1 DEF Market!FindProposal, Market!ContractRefused
<1>2. ASSUME NEW s \in {"SUBMITTED", "DRAFT", "WITHDRAWN", "ACCEPTED", "REJECTED"}, NEW a,
             mProposal' = [mProposal EXCEPT ![a].status = s]
      PROVE  mProposal' \in [Artisan -> Market!RowType]
  <2>1. s \in Market!ProposalStatus
    BY DEF Market!ProposalStatus, Market!Pending, Market!Decided
  <2>2. ASSUME NEW v \in Market!RowType PROVE [v EXCEPT !.status = s] \in Market!RowType
    BY <2>1 DEF Market!RowType
  <2> QED BY <1>0, <1>2, <2>2
<1>3. ASSUME Market!StoreProposal(r) PROVE mProposal' \in [Artisan -> Market!RowType]
  BY <1>0, <1>2, <1>3 DEF Market!StoreProposal
<1>4. ASSUME Market!Withdraw(r) \/ Market!Accept(r) \/ Market!Reject(r)
      PROVE  mProposal' \in [Artisan -> Market!RowType]
  BY <1>2, <1>4 DEF Market!Withdraw, Market!Accept, Market!Reject
<1>5. ASSUME Market!Edit(r) PROVE mProposal' \in [Artisan -> Market!RowType]
  <2>1. ASSUME NEW v \in Market!RowType PROVE [v EXCEPT !.amount = 2] \in Market!RowType
    BY DEF Market!RowType, Market!Amount
  <2> QED BY <1>0, <1>5, <2>1 DEF Market!Edit
<1>6. ASSUME Market!Delete(r) PROVE mProposal' \in [Artisan -> Market!RowType]
  <2>1. ASSUME NEW v \in Market!RowType PROVE [v EXCEPT !.deleted = TRUE] \in Market!RowType
    BY DEF Market!RowType
  <2> QED BY <1>0, <1>6, <2>1 DEF Market!Delete
<1>7. ASSUME NEW s \in Market!JobStatus, mJob' = [mJob EXCEPT !.status = s]
      PROVE  mJob' \in [status : Market!JobStatus, contracted : BOOLEAN, deleted : BOOLEAN]
  BY <1>0, <1>7
<1>8. ASSUME Market!AssignArtisan(r) \/ Market!ForceCloseJob(r)
             \/ \E s \in Market!JobStatus : Market!UpdateJob(r, s)
      PROVE  mJob' \in [status : Market!JobStatus, contracted : BOOLEAN, deleted : BOOLEAN]
  BY <1>7, <1>8 DEF Market!AssignArtisan, Market!ForceCloseJob, Market!UpdateJob,
     Market!JobStatus
<1>9. ASSUME Market!DeleteJob(r)
      PROVE  mJob' \in [status : Market!JobStatus, contracted : BOOLEAN, deleted : BOOLEAN]
  BY <1>0, <1>9 DEF Market!DeleteJob
<1>10. ASSUME Market!CreateContract(r)
       PROVE  /\ mJob' \in [status : Market!JobStatus, contracted : BOOLEAN, deleted : BOOLEAN]
              /\ mProposal' \in [Artisan -> Market!RowType]
              /\ mContract' \in [of : Artisan \cup {None}, amount : Market!Amount]
  <2>1. mJob' \in [status : Market!JobStatus, contracted : BOOLEAN, deleted : BOOLEAN]
    BY <1>0, <1>10 DEF Market!CreateContract, Market!JobStatus
  <2>2. ASSUME NEW v \in Market!RowType
        PROVE  [v EXCEPT !.status = "REJECTED"] \in Market!RowType
    BY DEF Market!RowType, Market!ProposalStatus, Market!Decided
  <2>3. mProposal' \in [Artisan -> Market!RowType]
    BY <1>0, <1>10, <2>2 DEF Market!CreateContract
  <2>4. mRequest[r] \in MarketRequest
    BY <1>0
  <2>5. mRequest[r].of \in Artisan \cup {None} /\ mRequest[r].seen.amount \in Market!Amount
    BY <2>4 DEF MarketRequest
  <2>6. mContract' \in [of : Artisan \cup {None}, amount : Market!Amount]
    BY <1>10, <2>5 DEF Market!CreateContract
  <2> QED BY <2>1, <2>3, <2>6
<1> QED
  BY <1>0, <1>1, <1>3, <1>4, <1>5, <1>6, <1>8, <1>9, <1>10
  DEF Market!Writing, Market!StoreProposal, Market!Withdraw, Market!Accept, Market!Reject,
      Market!Edit, Market!Delete, Market!AssignArtisan, Market!ForceCloseJob,
      Market!UpdateJob, Market!DeleteJob

LEMMA MarketNextIInv == MarketIInv /\ [Market!Next]_(Market!vars) => MarketIInv'
<1> SUFFICES ASSUME MarketIInv, [Market!Next]_(Market!vars) PROVE MarketIInv'
  OBVIOUS
<1>0. /\ mJob \in [status : Market!JobStatus, contracted : BOOLEAN, deleted : BOOLEAN]
      /\ mProposal \in [Artisan -> Market!RowType]
      /\ mContract \in [of : Artisan \cup {None}, amount : Market!Amount]
      /\ mRequest \in [Actor -> MarketRequest]
  BY DEF MarketIInv, Market!TypeOK, MarketRequest
<1>1. ASSUME NEW r \in Actor, Market!Reads(r) PROVE MarketIInv'
  <2>1. ASSUME NEW a \in Artisan, Market!ReadOpenJob(r, a) PROVE MarketIInv'
    BY <2>1, MarketBegins DEF Market!ReadOpenJob, Market!Op, Market!ByStatus
  <2>2. ASSUME NEW a \in Artisan, NEW op \in Market!ByStatus, Market!ReadProposal(r, op, a)
        PROVE  MarketIInv'
    <3>1. op \in Market!Op
      BY DEF Market!Op, Market!ByStatus
    <3>2. op # "delete" => mProposal[a].status \notin Market!Decided
      BY <2>2 DEF Market!ReadProposal, Market!ByStatus, Market!Pending, Market!Decided
    <3>3. Market!Begin(r, op, a)
      BY <2>2 DEF Market!ReadProposal
    <3> QED BY <3>1, <3>2, <3>3, MarketBegins
  <2>3. ASSUME NEW a \in Artisan, Market!ReadForContract(r, a) PROVE MarketIInv'
    BY <2>3, MarketBegins DEF Market!ReadForContract, Market!Op, Market!ByStatus
  <2>4. ASSUME NEW op \in {"updateJob", "assign", "deleteJob", "forceClose"}, Market!ReadJob(r, op)
        PROVE  MarketIInv'
    <3>1. op \in Market!Op /\ op \notin Market!ByStatus \cup {"contract"}
      BY DEF Market!Op, Market!ByStatus
    <3> QED BY <2>4, <3>1, MarketBegins DEF Market!ReadJob
  <2> QED BY <1>1, <2>1, <2>2, <2>3, <2>4 DEF Market!Reads
<1>2. ASSUME NEW r \in Actor, Market!Writing(r), Market!Leave(r) PROVE MarketIInv'
  BY <1>2, MarketWrites, MarketIdle, MarketStep DEF Market!Leave
<1>3. ASSUME NEW r \in Actor, Market!FindProposal(r) PROVE MarketIInv'
  <2>1. CASE Market!Leave(r)
    BY <1>2, <1>3, <2>1 DEF Market!Writing
  <2>2. CASE ~Market!Leave(r)
    <3>1. PICK op \in {"updateDraft", "create"} :
             mRequest' = [mRequest EXCEPT ![r] = [mRequest[r] EXCEPT !.op = op]]
      BY <1>0, <1>3, <2>2 DEF Market!FindProposal
    <3>2. mRequest[r] \in MarketRequest /\ mRequest[r].op = "propose" /\ ReadUndecided(mRequest[r])
      BY <1>0, <1>3 DEF Market!FindProposal, MarketIInv
    <3>3. [mRequest[r] EXCEPT !.op = op] \in MarketRequest
      BY <3>2 DEF MarketRequest, Market!Op
    <3>4. ReadUndecided([mRequest[r] EXCEPT !.op = op])
      <4>1. [mRequest[r] EXCEPT !.op = op].seen = mRequest[r].seen
        BY <3>2 DEF MarketRequest
      <4>2. mRequest[r].seen.decided = FALSE
        BY <3>2 DEF ReadUndecided, Deciding
      <4> QED BY <4>1, <4>2 DEF ReadUndecided
    <3> QED BY <1>3, <3>1, <3>3, <3>4, MarketWrites, MarketStep DEF Market!Writing
  <2> QED BY <2>1, <2>2
<1>4. ASSUME NEW r \in Actor, Market!Writing(r) PROVE MarketIInv'
  BY <1>2, <1>3, <1>4
  DEF Market!Writing, Market!Writes, Market!StoreProposal, Market!Withdraw, Market!Accept,
      Market!Reject, Market!Edit, Market!Delete, Market!AssignArtisan, Market!ForceCloseJob,
      Market!UpdateJob, Market!DeleteJob, Market!CreateContract, Market!ContractRefused
<1>5. ASSUME NEW r \in Actor, Market!Fails(r) PROVE MarketIInv'
  BY <1>0, <1>5, MarketIdle, MarketStep DEF Market!Fails, Market!Leave
<1>6. ASSUME NEW S \in SUBSET Artisan \ {{}}, Market!Expire(S) PROVE MarketIInv'
  <2>1. ASSUME NEW v \in Market!RowType
        PROVE  [v EXCEPT !.status = "EXPIRED"] \in Market!RowType
    BY DEF Market!RowType, Market!ProposalStatus
  <2>2. mProposal' \in [Artisan -> Market!RowType]
    BY <1>0, <1>6, <2>1 DEF Market!Expire
  <2> QED BY <1>6, <2>2 DEF Market!Expire, MarketIInv, Market!TypeOK
<1>7. CASE UNCHANGED Market!vars
  BY <1>7 DEF MarketIInv, Market!TypeOK, Market!vars
<1> QED BY <1>1, <1>4, <1>5, <1>6, <1>7 DEF Market!Next

(* A decided proposal is changed only by what had read it undecided.        *)
LEMMA DecisionUndone ==
    ASSUME MarketIInv, [Market!Next]_(Market!vars)
    PROVE  [\A a \in Artisan :
              /\ mProposal[a].status \in Market!Decided
              /\ mProposal'[a].status # mProposal[a].status
                 \/ mProposal'[a].amount # mProposal[a].amount
              => \E r \in Actor : /\ mRequest[r].of = a /\ mRequest'[r] = Market!Idle
                                  /\ mRequest[r].op \in Market!ByStatus \cup {"updateDraft"}
                                  /\ ~mRequest[r].seen.decided]_(Market!vars)
<1> SUFFICES ASSUME Market!Next, NEW a \in Artisan, mProposal[a].status \in Market!Decided,
                    mProposal'[a].status # mProposal[a].status
                    \/ mProposal'[a].amount # mProposal[a].amount
             PROVE  \E r \in Actor : /\ mRequest[r].of = a /\ mRequest'[r] = Market!Idle
                                     /\ mRequest[r].op \in Market!ByStatus \cup {"updateDraft"}
                                     /\ ~mRequest[r].seen.decided
  BY DEF Market!vars
<1>0. /\ mProposal \in [Artisan -> Market!RowType]
      /\ mRequest \in [Actor -> MarketRequest]
      /\ \A r \in Actor : ReadUndecided(mRequest[r])
      /\ mProposal'[a] # mProposal[a]
  BY DEF MarketIInv, Market!TypeOK, MarketRequest
<1>1. ASSUME NEW r \in Actor, Market!Leave(r), mRequest[r].of = a,
             mRequest[r].op \in {"updateDraft", "edit", "withdraw", "accept", "reject"}
      PROVE  /\ mRequest[r].of = a /\ mRequest'[r] = Market!Idle
             /\ mRequest[r].op \in Market!ByStatus \cup {"updateDraft"}
             /\ ~mRequest[r].seen.decided
  <2>1. mRequest[r].seen.decided = FALSE
    BY <1>0, <1>1 DEF ReadUndecided, Deciding
  <2>2. mRequest'[r] = Market!Idle
    BY <1>0, <1>1 DEF Market!Leave
  <2> QED BY <1>1, <2>1, <2>2 DEF Market!ByStatus
<1>2. ASSUME NEW r \in Actor, Market!StoreProposal(r)
      PROVE  Market!Leave(r) /\ mRequest[r].of = a /\ mRequest[r].op = "updateDraft"
  BY <1>0, <1>2 DEF Market!StoreProposal, Market!Decided
<1>3. ASSUME NEW r \in Actor,
             Market!Edit(r) \/ Market!Withdraw(r) \/ Market!Accept(r) \/ Market!Reject(r)
      PROVE  /\ Market!Leave(r) /\ mRequest[r].of = a
             /\ mRequest[r].op \in {"edit", "withdraw", "accept", "reject"}
  BY <1>0, <1>3 DEF Market!Edit, Market!Withdraw, Market!Accept, Market!Reject, Market!Writes
<1>4. ASSUME NEW r \in Actor, Market!Delete(r) PROVE FALSE
  BY <1>0, <1>4 DEF Market!Delete, Market!RowType
<1>5. ASSUME NEW r \in Actor, Market!CreateContract(r) PROVE FALSE
  BY <1>0, <1>5 DEF Market!CreateContract, Market!Decided, Market!Pending
<1>6. ASSUME NEW S \in SUBSET Artisan, Market!Expire(S) PROVE FALSE
  BY <1>0, <1>6 DEF Market!Expire, Market!Decided
<1>7. ASSUME NEW r \in Actor, Market!Reads(r) PROVE FALSE
  BY <1>0, <1>7 DEF Market!Reads, Market!ReadOpenJob, Market!ReadProposal,
     Market!ReadForContract, Market!ReadJob, Market!Begin
<1>8. ASSUME NEW r \in Actor, Market!Fails(r) PROVE FALSE
  BY <1>0, <1>8 DEF Market!Fails
<1>9. ASSUME NEW r \in Actor, Market!Writing(r)
      PROVE  \/ Market!StoreProposal(r) \/ Market!Delete(r) \/ Market!CreateContract(r)
             \/ Market!Edit(r) \/ Market!Withdraw(r) \/ Market!Accept(r) \/ Market!Reject(r)
  BY <1>0, <1>9 DEF Market!Writing, Market!FindProposal, Market!ContractRefused,
     Market!AssignArtisan, Market!DeleteJob, Market!ForceCloseJob, Market!UpdateJob
<1>10. ASSUME NEW r \in Actor, Market!Writing(r)
       PROVE  /\ mRequest[r].of = a /\ mRequest'[r] = Market!Idle
              /\ mRequest[r].op \in Market!ByStatus \cup {"updateDraft"}
              /\ ~mRequest[r].seen.decided
  BY <1>1, <1>2, <1>3, <1>4, <1>5, <1>9, <1>10
<1> QED BY <1>6, <1>7, <1>8, <1>10 DEF Market!Next

(* A job is contracted once, however many proposals were accepted, and      *)
(* party and price of the contract stay (ContractsService.createContract).  *)
THEOREM ContractedOnce ==
    /\ Market!Spec => OneContract
    /\ SumSpec => OneContract
<1>1. [Market!Next]_(Market!vars)
      => [mContract.of # None => mContract' = mContract]_(Market!vars)
  <2> SUFFICES ASSUME Market!Next, mContract.of # None PROVE mContract' = mContract
    OBVIOUS
  <2>1. ASSUME NEW r \in Actor, Market!Reads(r) PROVE mContract' = mContract
    BY <2>1 DEF Market!Reads, Market!ReadOpenJob, Market!ReadProposal,
       Market!ReadForContract, Market!ReadJob, Market!Begin
  <2>2. ASSUME NEW r \in Actor, Market!Writing(r) PROVE mContract' = mContract
    BY <2>2 DEF Market!Writing, Market!FindProposal, Market!StoreProposal, Market!Edit,
       Market!Withdraw, Market!Accept, Market!Reject, Market!Delete, Market!CreateContract,
       Market!ContractRefused, Market!AssignArtisan, Market!DeleteJob, Market!ForceCloseJob,
       Market!UpdateJob
  <2> QED BY <2>1, <2>2 DEF Market!Next, Market!Fails, Market!Expire
<1>2. Market!Spec => OneContract
  BY <1>1, PTL DEF Market!Spec, OneContract, Market!OneContract
<1>3. [SumNext]_sumVars => [mContract.of # None => mContract' = mContract]_(Market!vars)
  BY <1>1, PartSteps
<1>4. SumSpec => OneContract
  BY <1>3, PTL DEF SumSpec, OneContract, Market!OneContract
<1> QED BY <1>2, <1>4
-----------------------------------------------------------------------------
(* Disputes: a request that has the key of a direction is the only one that *)
(* has it, and nothing has been requested in that direction yet; and it     *)
(* moves the money for a decision that was written.                         *)
DisputeRequest ==
    [op : {"none", "create", "submit", "service", "admin", "move"},
     decision : Dispute!Decision \cup {"none"}, at : {"idle", "read", "acquire", "queue"},
     resolved : BOOLEAN]

Asks(q, d) == q.op = "move" /\ q.at = "queue" /\ Dispute!DirectionOf(q.decision) = d

KeyedOnce(d) ==
    /\ dMoved[d] + dQueued[d] <= 1
    /\ dMoved[d] + dQueued[d] > 0 => dKey[d] # "absent"
    /\ \A r \in Actor : Asks(dRequest[r], d)
                        => dKey[d] = "PROCESSING" /\ dMoved[d] + dQueued[d] = 0
    /\ \A r, s \in Actor : Asks(dRequest[r], d) /\ Asks(dRequest[s], d) => r = s

(* What a request acts upon, when the decisions in ch were written          *)
ActsWell(q, ch) ==
    /\ q.op = "move" => q.decision \in ch \cap {"CLIENT_WINS", "ARTISAN_WINS"}
    /\ q.op \in {"service", "admin"} => q.decision \in Dispute!Decision /\ q.resolved = FALSE

DisputeIInv ==
    /\ Dispute!TypeOK
    /\ \A d \in Dispute!Direction : KeyedOnce(d)
    /\ \A r \in Actor : ActsWell(dRequest[r], dChosen)
    /\ MoneyFollowsDecision

LEMMA DisputeIdle ==
    /\ Dispute!Idle \in DisputeRequest
    /\ Dispute!Idle.at = "idle" /\ Dispute!Idle.op = "none"
BY DEF Dispute!Idle, DisputeRequest

LEMMA DisputeInitIInv == Dispute!Init => DisputeIInv
<1> SUFFICES ASSUME Dispute!Init PROVE DisputeIInv
  OBVIOUS
<1>1. Dispute!TypeOK
  <2>1. dContract \in Dispute!Status /\ dChosen \subseteq Dispute!Decision
        /\ dJobClosed \in BOOLEAN /\ dRaised \in BOOLEAN
    BY DEF Dispute!Init, Dispute!Status
  <2>2. dEvidence \in 0..EvidenceBound
    BY DisputesAssumption DEF Dispute!Init
  <2>3. dDispute \in [status : Dispute!DisputeStatus \cup {"none"},
                      decision : Dispute!Decision \cup {"none"}]
    BY DEF Dispute!Init
  <2>4. /\ dKey \in [Dispute!Direction -> {"absent", "PROCESSING", "COMPLETED"}]
        /\ dQueued \in [Dispute!Direction -> Nat] /\ dMoved \in [Dispute!Direction -> Nat]
    BY DEF Dispute!Init
  <2>5. dRequest \in [Actor -> DisputeRequest]
    BY DisputeIdle DEF Dispute!Init
  <2> QED BY <2>1, <2>2, <2>3, <2>4, <2>5 DEF Dispute!TypeOK, DisputeRequest
<1>2. \A d \in Dispute!Direction : dMoved[d] = 0 /\ dQueued[d] = 0
  BY DEF Dispute!Init
<1>3. \A r \in Actor : dRequest[r] = Dispute!Idle
  BY DEF Dispute!Init
<1>4. \A d \in Dispute!Direction : KeyedOnce(d)
  BY <1>2, <1>3, DisputeIdle DEF KeyedOnce, Asks
<1>5. \A r \in Actor : ActsWell(dRequest[r], dChosen)
  BY <1>3, DisputeIdle DEF ActsWell
<1>6. MoneyFollowsDecision
  BY <1>2 DEF MoneyFollowsDecision, Dispute!MoneyFollowsDecision, Dispute!Direction,
     Dispute!Init
<1> QED BY <1>1, <1>4, <1>5, <1>6 DEF DisputeIInv

(* A direction whose key and money a step leaves alone                      *)
LEMMA KeyRests ==
    ASSUME NEW d, KeyedOnce(d),
           dKey'[d] = dKey[d], dMoved'[d] = dMoved[d], dQueued'[d] = dQueued[d],
           \A r \in Actor : Asks(dRequest'[r], d) => Asks(dRequest[r], d)
    PROVE  KeyedOnce(d)'
BY DEF KeyedOnce

(* A step of requests that moves no key and no money                        *)
LEMMA DisputeRests ==
    ASSUME DisputeIInv, UNCHANGED Dispute!keys,
           dRequest' \in [Actor -> DisputeRequest],
           \A r \in Actor : \/ dRequest'[r] = dRequest[r]
                            \/ dRequest'[r].at # "queue" /\ ActsWell(dRequest'[r], dChosen'),
           dContract' \in {dContract, "DISPUTED"}, dChosen \subseteq dChosen',
           dChosen' \subseteq Dispute!Decision,
           dDispute' \in [status : Dispute!DisputeStatus \cup {"none"},
                          decision : Dispute!Decision \cup {"none"}],
           dJobClosed' \in BOOLEAN, dRaised' \in BOOLEAN, dEvidence' \in 0..EvidenceBound
    PROVE  DisputeIInv'
<1>1. UNCHANGED dKey /\ UNCHANGED dMoved /\ UNCHANGED dQueued
  BY DEF Dispute!keys
<1>2. Dispute!TypeOK'
  BY <1>1 DEF DisputeIInv, Dispute!TypeOK, DisputeRequest, Dispute!Status
<1>3. ASSUME NEW d \in Dispute!Direction PROVE KeyedOnce(d)'
  <2>1. \A r \in Actor : Asks(dRequest'[r], d) => Asks(dRequest[r], d)
    BY DEF Asks
  <2> QED BY <1>1, <2>1, KeyRests DEF DisputeIInv
<1>4. \A r \in Actor : ActsWell(dRequest'[r], dChosen')
  BY DEF DisputeIInv, ActsWell
<1>5. MoneyFollowsDecision'
  BY <1>1 DEF DisputeIInv, MoneyFollowsDecision, Dispute!MoneyFollowsDecision
<1> QED BY <1>2, <1>3, <1>4, <1>5 DEF DisputeIInv

(* One request of them                                                      *)
LEMMA DisputeStep ==
    ASSUME DisputeIInv, UNCHANGED Dispute!keys,
           NEW r \in Actor, NEW q \in DisputeRequest, dRequest' = [dRequest EXCEPT ![r] = q],
           q.at # "queue", ActsWell(q, dChosen'),
           UNCHANGED dContract, dChosen \subseteq dChosen',
           dChosen' \subseteq Dispute!Decision,
           dDispute' \in [status : Dispute!DisputeStatus \cup {"none"},
                          decision : Dispute!Decision \cup {"none"}],
           dJobClosed' \in BOOLEAN, dRaised' \in BOOLEAN, dEvidence' \in 0..EvidenceBound
    PROVE  DisputeIInv'
<1>1. /\ dRequest' \in [Actor -> DisputeRequest] /\ dRequest'[r] = q
      /\ \A x \in Actor \ {r} : dRequest'[x] = dRequest[x]
  BY DEF DisputeIInv, Dispute!TypeOK, DisputeRequest
<1> QED BY <1>1, DisputeRests

LEMMA DisputeFacts ==
    ASSUME DisputeIInv
    PROVE  /\ dRequest \in [Actor -> DisputeRequest]
           /\ dContract \in Dispute!Status /\ dChosen \subseteq Dispute!Decision
           /\ dDispute \in [status : Dispute!DisputeStatus \cup {"none"},
                            decision : Dispute!Decision \cup {"none"}]
           /\ dJobClosed \in BOOLEAN /\ dRaised \in BOOLEAN /\ dEvidence \in 0..EvidenceBound
           /\ dKey \in [Dispute!Direction -> {"absent", "PROCESSING", "COMPLETED"}]
           /\ dQueued \in [Dispute!Direction -> Nat] /\ dMoved \in [Dispute!Direction -> Nat]
           /\ \A r \in Actor : ActsWell(dRequest[r], dChosen)
BY DEF DisputeIInv, Dispute!TypeOK, DisputeRequest

LEMMA DisputeLeaves ==
    ASSUME DisputeIInv, NEW r \in Actor, Dispute!Leave(r), UNCHANGED <<Dispute!row, Dispute!keys>>
    PROVE  DisputeIInv'
<1>1. ActsWell(Dispute!Idle, dChosen')
  BY DisputeIdle DEF ActsWell
<1>2. UNCHANGED <<dContract, dJobClosed, dDispute, dChosen, dEvidence, dRaised>>
  BY DEF Dispute!row
<1> QED BY <1>1, <1>2, DisputeIdle, DisputeFacts, DisputeStep DEF Dispute!Leave

LEMMA DisputeReads ==
    ASSUME DisputeIInv, NEW r \in Actor,
           NEW op \in {"create", "submit", "service", "admin"},
           NEW d \in Dispute!Decision \cup {"none"}, Dispute!Read(r, op, d),
           op \in {"service", "admin"} => dDispute.status # "RESOLVED" /\ d \in Dispute!Decision
    PROVE  DisputeIInv'
<1> DEFINE q == [op |-> op, decision |-> d, at |-> "read",
                 resolved |-> dDispute.status = "RESOLVED"]
<1>1. dRequest' = [dRequest EXCEPT ![r] = q] /\ UNCHANGED <<Dispute!row, Dispute!keys>>
  BY DEF Dispute!Read
<1>2. q \in DisputeRequest
  <2>1. (dDispute.status = "RESOLVED") \in BOOLEAN
    OBVIOUS
  <2> QED BY <2>1 DEF DisputeRequest
<1>3. op \in {"service", "admin"} => (dDispute.status = "RESOLVED") = FALSE
  OBVIOUS
<1>4. q.at # "queue" /\ ActsWell(q, dChosen')
  BY <1>3 DEF ActsWell
<1> HIDE DEF q
<1>5. UNCHANGED <<dContract, dJobClosed, dDispute, dChosen, dEvidence, dRaised>>
  BY <1>1 DEF Dispute!row
<1> QED BY <1>1, <1>2, <1>4, <1>5, DisputeFacts, DisputeStep

(* The decision is written, and what was decided is going to be done.       *)
LEMMA ResolveStep ==
    ASSUME DisputeIInv, NEW r \in Actor, Dispute!Resolve(r)
    PROVE  DisputeIInv'
<1> PICK d \in Dispute!Decision : d = dRequest[r].decision
  BY DisputeFacts DEF Dispute!Resolve, Dispute!At, ActsWell
<1>1. /\ dDispute' = Dispute!Resolved(d) /\ dChosen' = dChosen \cup {d}
      /\ dJobClosed' \in BOOLEAN
      /\ UNCHANGED <<dContract, dEvidence, dRaised>> /\ UNCHANGED Dispute!keys
  BY DEF Dispute!Resolve
<1>2. /\ dDispute' \in [status : Dispute!DisputeStatus \cup {"none"},
                        decision : Dispute!Decision \cup {"none"}]
      /\ dChosen \subseteq dChosen' /\ dChosen' \subseteq Dispute!Decision
      /\ dRaised' \in BOOLEAN /\ dEvidence' \in 0..EvidenceBound
  BY <1>1, DisputeFacts DEF Dispute!Resolved, Dispute!DisputeStatus
<1>3. CASE Dispute!Leave(r)
  <2>1. Dispute!Idle.at # "queue" /\ ActsWell(Dispute!Idle, dChosen')
    BY DisputeIdle DEF ActsWell
  <2> QED BY <1>1, <1>2, <1>3, <2>1, DisputeIdle, DisputeStep DEF Dispute!Leave
<1>4. CASE ~Dispute!Leave(r)
  <2> DEFINE q == [op |-> "move", decision |-> d, at |-> "read", resolved |-> FALSE]
  <2>1. d # "SPLIT_DECISION" /\ dRequest' = [dRequest EXCEPT ![r] = q]
    BY <1>4 DEF Dispute!Resolve, Dispute!Idle
  <2>2. q \in DisputeRequest /\ q.at # "queue"
    BY DEF DisputeRequest
  <2>3. ActsWell(q, dChosen')
    BY <1>1, <2>1 DEF ActsWell, Dispute!Decision
  <2> HIDE DEF q
  <2> QED BY <1>1, <1>2, <2>1, <2>2, <2>3, DisputeStep
<1> QED BY <1>3, <1>4

(* A request goes on with the movement: to a step of its own                *)
LEMMA MovesOn ==
    ASSUME DisputeIInv, NEW r \in Actor, NEW step \in {"acquire", "queue"},
           dRequest[r].op = "move", Dispute!Goto(r, step), UNCHANGED Dispute!row
    PROVE  /\ dRequest' \in [Actor -> DisputeRequest]
           /\ dRequest'[r].op = "move" /\ dRequest'[r].at = step
           /\ dRequest'[r].decision = dRequest[r].decision
           /\ ActsWell(dRequest'[r], dChosen')
           /\ \A x \in Actor \ {r} : dRequest'[x] = dRequest[x]
<1> DEFINE q == [dRequest[r] EXCEPT !.at = step]
<1>1. dRequest[r] \in DisputeRequest /\ dRequest \in [Actor -> DisputeRequest]
      /\ ActsWell(dRequest[r], dChosen)
  BY DisputeFacts
<1>2. /\ q \in DisputeRequest /\ q.op = "move" /\ q.at = step
      /\ q.decision = dRequest[r].decision
  BY <1>1 DEF DisputeRequest
<1>3. dRequest' = [dRequest EXCEPT ![r] = q] /\ dChosen' = dChosen
  BY <1>1 DEF Dispute!Goto, Dispute!row
<1> HIDE DEF q
<1>4. ActsWell(q, dChosen')
  BY <1>1, <1>2, <1>3 DEF ActsWell
<1> QED BY <1>1, <1>2, <1>3, <1>4

LEMMA DirectionIsOne == \A x : Dispute!DirectionOf(x) \in Dispute!Direction
BY DEF Dispute!DirectionOf, Dispute!Direction

LEMMA AcquireStep ==
    ASSUME DisputeIInv, NEW r \in Actor, Dispute!Acquire(r)
    PROVE  DisputeIInv'
<1> PICK d \in Dispute!Direction : d = Dispute!DirectionOf(dRequest[r].decision)
  BY DirectionIsOne
<1>1. /\ dRequest[r].op = "move" /\ dRequest[r].at = "acquire"
      /\ UNCHANGED Dispute!row /\ UNCHANGED <<dQueued, dMoved>>
  BY DEF Dispute!Acquire, Dispute!At
<1>2. CASE dKey[d] # "absent"
  BY <1>1, <1>2, DisputeLeaves DEF Dispute!Acquire, Dispute!keys
<1>3. CASE dKey[d] = "absent"
  <2>1. dKey' = [dKey EXCEPT ![d] = "PROCESSING"] /\ Dispute!Goto(r, "queue")
    BY <1>3 DEF Dispute!Acquire
  <2>2. /\ dRequest' \in [Actor -> DisputeRequest]
        /\ dRequest'[r].decision = dRequest[r].decision
        /\ ActsWell(dRequest'[r], dChosen')
        /\ \A x \in Actor \ {r} : dRequest'[x] = dRequest[x]
    BY <1>1, <2>1, MovesOn
  <2>3. /\ dKey'[d] = "PROCESSING"
        /\ \A c \in Dispute!Direction \ {d} : dKey'[c] = dKey[c]
        /\ dKey' \in [Dispute!Direction -> {"absent", "PROCESSING", "COMPLETED"}]
        /\ dMoved[d] \in Nat /\ dQueued[d] \in Nat
    BY <2>1, DisputeFacts
  <2>4. dMoved[d] + dQueued[d] = 0 /\ \A x \in Actor : ~Asks(dRequest[x], d)
    <3>1. KeyedOnce(d)
      BY DEF DisputeIInv
    <3> QED BY <1>3, <2>3, <3>1 DEF KeyedOnce
  <2>5. KeyedOnce(d)'
    <3>1. \A x \in Actor : Asks(dRequest'[x], d) => x = r
      BY <2>2, <2>4
    <3>2. dMoved'[d] + dQueued'[d] = 0
      BY <1>1, <2>4
    <3> QED BY <2>3, <3>1, <3>2 DEF KeyedOnce
  <2>6. ASSUME NEW c \in Dispute!Direction \ {d} PROVE KeyedOnce(c)'
    <3>1. \A x \in Actor : Asks(dRequest'[x], c) => Asks(dRequest[x], c)
      BY <2>2 DEF Asks
    <3> QED BY <1>1, <2>3, <3>1, KeyRests DEF DisputeIInv
  <2>7. Dispute!TypeOK'
    BY <1>1, <2>2, <2>3 DEF DisputeIInv, Dispute!TypeOK, Dispute!row, DisputeRequest
  <2>8. \A x \in Actor : ActsWell(dRequest'[x], dChosen')
    BY <1>1, <2>2, DisputeFacts DEF Dispute!row
  <2>9. MoneyFollowsDecision'
    BY <1>1 DEF DisputeIInv, MoneyFollowsDecision, Dispute!MoneyFollowsDecision, Dispute!row
  <2> QED BY <2>5, <2>6, <2>7, <2>8, <2>9 DEF DisputeIInv
<1> QED BY <1>2, <1>3

LEMMA EnqueueDisputeStep ==
    ASSUME DisputeIInv, NEW r \in Actor, Dispute!Enqueue(r)
    PROVE  DisputeIInv'
<1> PICK d \in Dispute!Direction : d = Dispute!DirectionOf(dRequest[r].decision)
  BY DirectionIsOne
<1>1. /\ Asks(dRequest[r], d) /\ dRequest' = [dRequest EXCEPT ![r] = Dispute!Idle]
      /\ UNCHANGED Dispute!row /\ UNCHANGED dMoved
      /\ \/ dQueued' = [dQueued EXCEPT ![d] = @ + 1] /\ UNCHANGED dKey
         \/ dKey' = [dKey EXCEPT ![d] = "absent"] /\ UNCHANGED dQueued
  BY DEF Dispute!Enqueue, Dispute!At, Dispute!Leave, Asks
<1>2. /\ dRequest' \in [Actor -> DisputeRequest] /\ dRequest'[r] = Dispute!Idle
      /\ \A x \in Actor \ {r} : dRequest'[x] = dRequest[x]
  BY <1>1, DisputeIdle, DisputeFacts
<1>3. /\ dMoved[d] \in Nat /\ dQueued[d] \in Nat /\ dMoved[d] + dQueued[d] = 0
      /\ dKey[d] = "PROCESSING" /\ \A x \in Actor : Asks(dRequest[x], d) => x = r
  BY <1>1, DisputeFacts DEF DisputeIInv, KeyedOnce
<1>4. /\ dKey' \in [Dispute!Direction -> {"absent", "PROCESSING", "COMPLETED"}]
      /\ dQueued' \in [Dispute!Direction -> Nat]
      /\ \A c \in Dispute!Direction \ {d} : dKey'[c] = dKey[c] /\ dQueued'[c] = dQueued[c]
      /\ \/ dQueued'[d] = 1 /\ dKey'[d] = "PROCESSING"
         \/ dQueued'[d] = 0
  <2>1. dKey \in [Dispute!Direction -> {"absent", "PROCESSING", "COMPLETED"}]
        /\ dQueued \in [Dispute!Direction -> Nat] /\ dQueued[d] = 0
    BY <1>3, DisputeFacts
  <2> QED BY <1>1, <1>3, <2>1
<1>5. dMoved[d] = 0 /\ dQueued[d] = 0
  BY <1>3
<1>6. KeyedOnce(d)'
  <2>1. \A x \in Actor : ~Asks(dRequest'[x], d)
    BY <1>2, <1>3, DisputeIdle DEF Asks
  <2>2. dMoved'[d] = 0
    BY <1>1, <1>5
  <2> QED BY <1>4, <2>1, <2>2 DEF KeyedOnce
<1>7. ASSUME NEW c \in Dispute!Direction \ {d} PROVE KeyedOnce(c)'
  <2>1. \A x \in Actor : Asks(dRequest'[x], c) => Asks(dRequest[x], c)
    BY <1>2, DisputeIdle DEF Asks
  <2> QED BY <1>1, <1>4, <2>1, KeyRests DEF DisputeIInv
<1>8. Dispute!TypeOK'
  BY <1>1, <1>2, <1>4 DEF DisputeIInv, Dispute!TypeOK, Dispute!row, DisputeRequest
<1>9. \A x \in Actor : ActsWell(dRequest'[x], dChosen')
  BY <1>1, <1>2, DisputeIdle, DisputeFacts DEF Dispute!row, ActsWell
<1>10. MoneyFollowsDecision'
  <2>1. /\ d = "refund" => "CLIENT_WINS" \in dChosen
        /\ d = "release" => "ARTISAN_WINS" \in dChosen
    BY <1>1, DisputeFacts DEF Asks, ActsWell, Dispute!DirectionOf
  <2>2. "refund" \in Dispute!Direction /\ "release" \in Dispute!Direction
    BY DEF Dispute!Direction
  <2>3. /\ d # "refund" => dQueued'["refund"] = dQueued["refund"]
        /\ d # "release" => dQueued'["release"] = dQueued["release"]
    BY <1>4, <2>2
  <2>4. dChosen' = dChosen /\ dContract' = dContract /\ dMoved' = dMoved
    BY <1>1 DEF Dispute!row
  <2> QED BY <2>1, <2>3, <2>4 DEF DisputeIInv, MoneyFollowsDecision,
          Dispute!MoneyFollowsDecision, Dispute!Direction
<1> QED BY <1>6, <1>7, <1>8, <1>9, <1>10 DEF DisputeIInv

LEMMA SettleStep ==
    ASSUME DisputeIInv, NEW d \in Dispute!Direction, Dispute!Settle(d)
    PROVE  DisputeIInv'
<1>1. /\ dQueued[d] > 0 /\ dQueued' = [dQueued EXCEPT ![d] = @ - 1]
      /\ dMoved' = [dMoved EXCEPT ![d] = @ + 1]
      /\ dKey' = [dKey EXCEPT ![d] = "COMPLETED"]
      /\ UNCHANGED <<dJobClosed, dDispute, dChosen, dEvidence, dRaised, dRequest>>
  BY DEF Dispute!Settle
<1>2. /\ dKey \in [Dispute!Direction -> {"absent", "PROCESSING", "COMPLETED"}]
      /\ dQueued \in [Dispute!Direction -> Nat] /\ dMoved \in [Dispute!Direction -> Nat]
  BY DisputeFacts
<1>3. /\ dKey' \in [Dispute!Direction -> {"absent", "PROCESSING", "COMPLETED"}]
      /\ dQueued' \in [Dispute!Direction -> Nat] /\ dMoved' \in [Dispute!Direction -> Nat]
      /\ dMoved'[d] + dQueued'[d] = dMoved[d] + dQueued[d] /\ dMoved'[d] > 0
      /\ dMoved[d] + dQueued[d] > 0 /\ dKey'[d] = "COMPLETED"
      /\ \A c \in Dispute!Direction \ {d} :
            dKey'[c] = dKey[c] /\ dQueued'[c] = dQueued[c] /\ dMoved'[c] = dMoved[c]
  BY <1>1, <1>2
<1>4. KeyedOnce(d)'
  <2>1. KeyedOnce(d)
    BY DEF DisputeIInv
  <2>2. \A x \in Actor : ~Asks(dRequest'[x], d)
    BY <1>1, <1>3, <2>1 DEF KeyedOnce
  <2> QED BY <1>3, <2>1, <2>2 DEF KeyedOnce
<1>5. ASSUME NEW c \in Dispute!Direction \ {d} PROVE KeyedOnce(c)'
  BY <1>1, <1>3, KeyRests DEF DisputeIInv
<1>6. dContract' \in {dContract, IF d = "refund" THEN "REFUNDED" ELSE "PAID_OUT"}
  BY DEF Dispute!Settle
<1>7. Dispute!TypeOK'
  BY <1>1, <1>3, <1>6 DEF DisputeIInv, Dispute!TypeOK, Dispute!Status
<1>8. \A x \in Actor : ActsWell(dRequest'[x], dChosen')
  BY <1>1, DisputeFacts
<1>9. MoneyFollowsDecision'
  <2>1. "refund" \in Dispute!Direction /\ "release" \in Dispute!Direction
    BY DEF Dispute!Direction
  <2>2. CASE d = "refund"
    <3>1. /\ dMoved'["refund"] + dQueued'["refund"] = dMoved["refund"] + dQueued["refund"]
          /\ dMoved'["refund"] > 0
          /\ dMoved'["release"] = dMoved["release"] /\ dQueued'["release"] = dQueued["release"]
      BY <1>3, <2>1, <2>2
    <3>2. dContract' \in {dContract, "REFUNDED"} /\ dChosen' = dChosen
      BY <1>1, <1>6, <2>2
    <3> QED BY <3>1, <3>2 DEF DisputeIInv, MoneyFollowsDecision, Dispute!MoneyFollowsDecision
  <2>3. CASE d = "release"
    <3>1. /\ dMoved'["release"] + dQueued'["release"] = dMoved["release"] + dQueued["release"]
          /\ dMoved'["release"] > 0
          /\ dMoved'["refund"] = dMoved["refund"] /\ dQueued'["refund"] = dQueued["refund"]
      BY <1>3, <2>1, <2>3
    <3>2. dContract' \in {dContract, "PAID_OUT"} /\ dChosen' = dChosen
      BY <1>1, <1>6, <2>3
    <3> QED BY <3>1, <3>2 DEF DisputeIInv, MoneyFollowsDecision, Dispute!MoneyFollowsDecision
  <2> QED BY <2>2, <2>3 DEF Dispute!Direction
<1> QED BY <1>4, <1>5, <1>7, <1>8, <1>9 DEF DisputeIInv

LEMMA DisputeNextIInv == DisputeIInv /\ [Dispute!Next]_(Dispute!vars) => DisputeIInv'
<1> SUFFICES ASSUME DisputeIInv, [Dispute!Next]_(Dispute!vars) PROVE DisputeIInv'
  OBVIOUS
<1>1. ASSUME NEW r \in Actor,
             \/ Dispute!ReadForDispute(r) \/ Dispute!ReadForEvidence(r)
             \/ \E op \in {"service", "admin"}, d \in Dispute!Decision :
                   Dispute!ReadForDecision(r, op, d)
      PROVE  DisputeIInv'
  BY <1>1, DisputeReads DEF Dispute!ReadForDispute, Dispute!ReadForEvidence,
     Dispute!ReadForDecision
<1>2. ASSUME NEW r \in Actor, Dispute!CreateDispute(r) \/ Dispute!SubmitEvidence(r)
      PROVE  DisputeIInv'
  <2>1. /\ dRequest' = [dRequest EXCEPT ![r] = Dispute!Idle] /\ UNCHANGED Dispute!keys
        /\ UNCHANGED <<dContract, dChosen, dJobClosed>>
    BY <1>2 DEF Dispute!CreateDispute, Dispute!SubmitEvidence, Dispute!Leave
  <2>2. dRaised' \in BOOLEAN /\ dEvidence' \in 0..EvidenceBound
    <3>1. dRaised' = dRaised \/ dRaised' = TRUE
      BY <1>2 DEF Dispute!CreateDispute, Dispute!SubmitEvidence
    <3>2. \/ dEvidence' = dEvidence
          \/ dEvidence < EvidenceBound /\ dEvidence' = dEvidence + 1
      BY <1>2 DEF Dispute!CreateDispute, Dispute!SubmitEvidence
    <3>3. dEvidence \in 0..EvidenceBound
      BY DisputeFacts
    <3>4. dEvidence' \in 0..EvidenceBound
      BY <3>2, <3>3, DisputesAssumption
    <3> QED BY <3>1, <3>4, DisputeFacts
  <2>3. dDispute' \in [status : Dispute!DisputeStatus \cup {"none"},
                       decision : Dispute!Decision \cup {"none"}]
    BY <1>2, DisputeFacts
    DEF Dispute!CreateDispute, Dispute!SubmitEvidence, Dispute!DisputeStatus
  <2>4. ActsWell(Dispute!Idle, dChosen')
    BY DisputeIdle DEF ActsWell
  <2> QED BY <2>1, <2>2, <2>3, <2>4, DisputeIdle, DisputeFacts, DisputeStep
<1>3. ASSUME NEW r \in Actor, Dispute!ReadContract(r) PROVE DisputeIInv'
  <2>1. UNCHANGED <<Dispute!row, Dispute!keys>> /\ dRequest[r].op = "move"
    BY <1>3 DEF Dispute!ReadContract, Dispute!At
  <2>2. CASE Dispute!Leave(r)
    BY <2>1, <2>2, DisputeLeaves
  <2>3. CASE Dispute!Goto(r, "acquire")
    <3>1. UNCHANGED <<dContract, dJobClosed, dDispute, dChosen, dEvidence, dRaised>>
      BY <2>1 DEF Dispute!row
    <3>2. /\ dRequest' \in [Actor -> DisputeRequest]
          /\ dRequest'[r].at = "acquire" /\ ActsWell(dRequest'[r], dChosen')
          /\ \A x \in Actor \ {r} : dRequest'[x] = dRequest[x]
      BY <2>1, <2>3, MovesOn
    <3>3. \A x \in Actor : \/ dRequest'[x] = dRequest[x]
                           \/ dRequest'[x].at # "queue" /\ ActsWell(dRequest'[x], dChosen')
      BY <3>2
    <3> QED BY <2>1, <3>1, <3>2, <3>3, DisputeFacts, DisputeRests
  <2> QED BY <1>3, <2>2, <2>3 DEF Dispute!ReadContract
<1>4. ASSUME NEW r \in Actor, Dispute!Fails(r) PROVE DisputeIInv'
  BY <1>4, DisputeLeaves DEF Dispute!Fails
<1>5. ASSUME NEW s \in Dispute!DisputeStatus, Dispute!ChangeState(s) PROVE DisputeIInv'
  <2>1. dDispute' \in [status : Dispute!DisputeStatus \cup {"none"},
                       decision : Dispute!Decision \cup {"none"}]
    BY <1>5, DisputeFacts DEF Dispute!ChangeState
  <2>2. /\ UNCHANGED <<dContract, dJobClosed, dChosen, dEvidence, dRaised, dRequest>>
        /\ UNCHANGED Dispute!keys
    BY <1>5 DEF Dispute!ChangeState
  <2> QED BY <2>1, <2>2, DisputeFacts, DisputeRests
<1>6. ASSUME Dispute!MarkDisputed PROVE DisputeIInv'
  <2>1. /\ UNCHANGED <<dJobClosed, dDispute, dChosen, dEvidence, dRequest>>
        /\ UNCHANGED Dispute!keys /\ dContract' \in {dContract, "DISPUTED"}
        /\ dRaised' \in BOOLEAN
    BY <1>6 DEF Dispute!MarkDisputed
  <2> QED BY <2>1, DisputeFacts, DisputeRests
<1>7. CASE UNCHANGED Dispute!vars
  <2>1. /\ UNCHANGED <<dContract, dJobClosed, dDispute, dChosen, dEvidence, dRaised, dRequest>>
        /\ UNCHANGED Dispute!keys
    BY <1>7 DEF Dispute!vars, Dispute!keys
  <2> QED BY <2>1, DisputeFacts, DisputeRests
<1> QED BY <1>1, <1>2, <1>3, <1>4, <1>5, <1>6, <1>7, ResolveStep, AcquireStep,
        EnqueueDisputeStep, SettleStep DEF Dispute!Next

(* A decision that stands is overwritten only by what had read before it.   *)
LEMMA DecisionOverwritten ==
    ASSUME DisputeIInv, [Dispute!Next]_(Dispute!vars)
    PROVE  [dDispute.status = "RESOLVED" /\ dDispute'.decision # dDispute.decision
            => \E r \in Actor : /\ Dispute!At(r, {"service", "admin"}, "read")
                                /\ ~dRequest[r].resolved
                                /\ dRequest'[r] # dRequest[r]]_(Dispute!vars)
<1> SUFFICES ASSUME Dispute!Next, dDispute'.decision # dDispute.decision
             PROVE  \E r \in Actor : /\ Dispute!At(r, {"service", "admin"}, "read")
                                     /\ ~dRequest[r].resolved
                                     /\ dRequest'[r] # dRequest[r]
  OBVIOUS
<1>1. ASSUME NEW r \in Actor, Dispute!Resolve(r)
      PROVE  /\ Dispute!At(r, {"service", "admin"}, "read") /\ ~dRequest[r].resolved
             /\ dRequest'[r] # dRequest[r]
  <2>1. Dispute!At(r, {"service", "admin"}, "read")
    BY <1>1 DEF Dispute!Resolve
  <2>2. dRequest[r].resolved = FALSE
    BY <2>1, DisputeFacts DEF Dispute!At, ActsWell
  <2>3. dRequest'[r].op \in {"none", "move"}
    <3>1. dRequest \in [Actor -> DisputeRequest]
      BY DisputeFacts
    <3>2. CASE dRequest[r].decision = "SPLIT_DECISION"
      BY <1>1, <3>1, <3>2, DisputeIdle DEF Dispute!Resolve, Dispute!Leave
    <3>3. CASE dRequest[r].decision # "SPLIT_DECISION"
      <4> DEFINE q == [op |-> "move", decision |-> dRequest[r].decision, at |-> "read",
                       resolved |-> FALSE]
      <4>1. dRequest' = [dRequest EXCEPT ![r] = q]
        BY <1>1, <3>3 DEF Dispute!Resolve, Dispute!Idle
      <4>2. q.op = "move"
        OBVIOUS
      <4> HIDE DEF q
      <4> QED BY <3>1, <4>1, <4>2
    <3> QED BY <3>2, <3>3
  <2> QED BY <2>1, <2>2, <2>3 DEF Dispute!At
<1>2. ASSUME \/ \E s \in Dispute!DisputeStatus : Dispute!ChangeState(s)
             \/ \E r \in Actor : Dispute!CreateDispute(r)
      PROVE  FALSE
  BY <1>2, DisputeFacts DEF Dispute!ChangeState, Dispute!CreateDispute
<1>3. ASSUME \/ \E d \in Dispute!Direction : Dispute!Settle(d)
             \/ Dispute!MarkDisputed
             \/ \E r \in Actor : Dispute!SubmitEvidence(r)
      PROVE  FALSE
  BY <1>3 DEF Dispute!Settle, Dispute!MarkDisputed, Dispute!SubmitEvidence
<1>4. ASSUME NEW r \in Actor,
             \/ Dispute!ReadForDispute(r) \/ Dispute!ReadForEvidence(r)
             \/ \E op \in {"service", "admin"}, d \in Dispute!Decision :
                   Dispute!ReadForDecision(r, op, d)
             \/ Dispute!ReadContract(r) \/ Dispute!Acquire(r) \/ Dispute!Enqueue(r)
             \/ Dispute!Fails(r)
      PROVE  FALSE
  BY <1>4 DEF Dispute!ReadForDispute, Dispute!ReadForEvidence, Dispute!ReadForDecision,
     Dispute!Read, Dispute!ReadContract, Dispute!Acquire, Dispute!Enqueue, Dispute!Fails,
     Dispute!row
<1> QED BY <1>1, <1>2, <1>3, <1>4 DEF Dispute!Next

(* However many administrators resolve the dispute, and however often it is *)
(* reopened, the money is moved at most once in each direction              *)
(* (PaymentsService.initiatePayout, refundContract).                        *)
THEOREM MovedOnce ==
    /\ Dispute!Spec => []MovedOncePerDirection
    /\ SumSpec => []MovedOncePerDirection
<1>1. DisputeIInv => MovedOncePerDirection
  BY DEF DisputeIInv, KeyedOnce, MovedOncePerDirection, Dispute!MovedOncePerDirection
<1>2. Dispute!Spec => []MovedOncePerDirection
  BY <1>1, DisputeInitIInv, DisputeNextIInv, PTL DEF Dispute!Spec
<1>3. SumInit => DisputeIInv
  BY PartInits, DisputeInitIInv
<1>4. DisputeIInv /\ [SumNext]_sumVars => DisputeIInv'
  BY PartSteps, DisputeNextIInv
<1>5. SumSpec => []MovedOncePerDirection
  BY <1>1, <1>3, <1>4, PTL DEF SumSpec
<1> QED BY <1>2, <1>5

(* A party is given the money only when some decision was for it, and the   *)
(* contract ends as the money went (PaymentsListener).                      *)
THEOREM MovedAsDecided ==
    /\ Dispute!Spec => []MoneyFollowsDecision
    /\ SumSpec => []MoneyFollowsDecision
<1>1. DisputeIInv => MoneyFollowsDecision
  BY DEF DisputeIInv
<1>2. Dispute!Spec => []MoneyFollowsDecision
  BY <1>1, DisputeInitIInv, DisputeNextIInv, PTL DEF Dispute!Spec
<1>3. SumInit => DisputeIInv
  BY PartInits, DisputeInitIInv
<1>4. DisputeIInv /\ [SumNext]_sumVars => DisputeIInv'
  BY PartSteps, DisputeNextIInv
<1>5. SumSpec => []MoneyFollowsDecision
  BY <1>1, <1>3, <1>4, PTL DEF SumSpec
<1> QED BY <1>2, <1>5
-----------------------------------------------------------------------------
(* A decision on a proposal, a dispute or a deliverable is undone only by a *)
(* handler that had read the row before it was decided (ProposalsService,   *)
(* DisputesService, DeliverablesService).                                   *)
THEOREM UndoneByStaleReadOnly == SumSpec => UndoneOnlyByStaleRead
<1>1. SumInit => MarketIInv /\ DisputeIInv /\ DeliverableIInv
  BY PartInits, MarketInitIInv, DisputeInitIInv, DeliverableInitIInv
<1>2. MarketIInv /\ DisputeIInv /\ DeliverableIInv /\ [SumNext]_sumVars
      => (MarketIInv /\ DisputeIInv /\ DeliverableIInv)'
  BY PartSteps, MarketNextIInv, DisputeNextIInv, DeliverableNextIInv
<1>3. MarketIInv /\ [SumNext]_sumVars
      => [\A a \in Artisan :
            /\ mProposal[a].status \in Market!Decided
            /\ mProposal'[a].status # mProposal[a].status
               \/ mProposal'[a].amount # mProposal[a].amount
            => \E r \in Actor : /\ mRequest[r].of = a /\ mRequest'[r] = Market!Idle
                                /\ mRequest[r].op \in Market!ByStatus \cup {"updateDraft"}
                                /\ ~mRequest[r].seen.decided]_(Market!vars)
  BY PartSteps, DecisionUndone
<1>4. DisputeIInv /\ [SumNext]_sumVars
      => [dDispute.status = "RESOLVED" /\ dDispute'.decision # dDispute.decision
          => \E r \in Actor : /\ Dispute!At(r, {"service", "admin"}, "read")
                              /\ ~dRequest[r].resolved
                              /\ dRequest'[r] # dRequest[r]]_(Dispute!vars)
  BY PartSteps, DecisionOverwritten
<1>5. DeliverableIInv /\ [SumNext]_sumVars
      => [\A d \in Deliverable!Row :
            vStatus[d] \in Deliverable!Approved /\ vStatus'[d] # vStatus[d]
            => \E r \in Actor : /\ vRequest[r].of = d /\ ~vRequest[r].approved
                                /\ vRequest[r].at = "read" /\ vRequest'[r] = Deliverable!Idle]_(Deliverable!vars)
  BY PartSteps, ApprovalUndone
<1>6. SumSpec => Market!DecisionUndoneOnlyByStaleRead
  BY <1>1, <1>2, <1>3, PTL DEF SumSpec, Market!DecisionUndoneOnlyByStaleRead
<1>7. SumSpec => Dispute!DecisionOverwrittenOnlyByStaleRead
  BY <1>1, <1>2, <1>4, PTL DEF SumSpec, Dispute!DecisionOverwrittenOnlyByStaleRead
<1>8. SumSpec => Deliverable!ApprovalUndoneOnlyByStaleRead
  BY <1>1, <1>2, <1>5, PTL DEF SumSpec, Deliverable!ApprovalUndoneOnlyByStaleRead
<1> QED BY <1>6, <1>7, <1>8 DEF UndoneOnlyByStaleRead

BusinessIInv ==
    /\ part \in {"wallet", "market", "dispute", "deliverable", "review"}
    /\ IInv /\ MarketIInv /\ DisputeIInv /\ DeliverableIInv /\ ReviewIInv

(* Every row, request and balance of the five parts keeps to its type: no   *)
(* status outside its enum, no counter past its bound.                      *)
THEOREM BusinessTypes ==
    ASSUME Distinct
    PROVE  SumSpec => []TypesCorrect
<1>1. SumInit => BusinessIInv
  BY PartInits, InitIInv, MarketInitIInv, DisputeInitIInv, DeliverableInitIInv,
     ReviewInitIInv DEF BusinessIInv
<1>2. BusinessIInv /\ [SumNext]_sumVars => BusinessIInv'
  BY PartSteps, NextIInv, MarketNextIInv, DisputeNextIInv, DeliverableNextIInv,
     ReviewNextIInv DEF BusinessIInv
<1>3. BusinessIInv => TypesCorrect
  BY DEF BusinessIInv, TypesCorrect, IInv, MarketIInv, DisputeIInv, DeliverableIInv,
     ReviewIInv
<1> QED BY <1>1, <1>2, <1>3, PTL DEF SumSpec
=============================================================================
