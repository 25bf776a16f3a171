------------------------------ MODULE Reviews ------------------------------
(***************************************************************************)
(* ReviewsService, its listener, ReputationService and                      *)
(* AdminService.moderateReview, for one completed contract: client and      *)
(* artisan review each other, blindly, and what is VISIBLE counts for the   *)
(* reputation of its target.                                                *)
(*                                                                          *)
(* submitReview is one transaction at READ COMMITTED, so it does not see    *)
(* what the other party's transaction has not committed; the jobs it queues *)
(* are not part of it.                                                      *)
(***************************************************************************)
EXTENDS Naturals

CONSTANTS
    Worker,     \* concurrent jobs of the reputation worker
    JobBound    \* how many reputation jobs of one user may wait

Party    == {"client", "artisan"}
Other(p) == IF p = "client" THEN "artisan" ELSE "client"

VARIABLES
    eligible,   \* ReviewEligibility of each party
    created,    \* the parties whose eligibility the listener created, or "failed"
    expired,    \* did the 14 days end?
    review,     \* the review each party wrote
    submit,     \* the transaction of each party's submitReview
    restored,   \* the authors whose review an administrator made VISIBLE
    jobs,       \* the waiting jobs that recalculate the reputation of each party
    profile,    \* how many reviews the profile of each party counts
    worker      \* what each worker computes

vars == <<eligible, created, expired, review, submit, restored, jobs, profile, worker>>

NoWork == [of |-> "none", count |-> 0]

TypeOK == /\ eligible \in [Party -> {"none", "PENDING", "CONSUMED"}]
          /\ created \in {"none", "client", "both", "failed"}
          /\ expired \in BOOLEAN
          /\ review \in [Party -> {"none", "SUBMITTED", "VISIBLE", "FLAGGED", "LOCKED"}]
          /\ submit \in [Party -> {"idle", "read", "first", "second", "queued"}]
          /\ restored \subseteq Party
          /\ jobs \in [Party -> 0..JobBound]
          /\ profile \in [Party -> 0..1]
          /\ worker \in [Worker -> [of : Party \cup {"none"}, count : 0..1]]

Init == /\ eligible = [p \in Party |-> "none"]
        /\ created = "none"
        /\ expired = FALSE
        /\ review = [p \in Party |-> "none"]
        /\ submit = [p \in Party |-> "idle"]
        /\ restored = {}
        /\ jobs = [p \in Party |-> 0]
        /\ profile = [p \in Party |-> 0]
        /\ worker = [w \in Worker |-> NoWork]
-----------------------------------------------------------------------------
(* CONTRACT_COMPLETED: the client's eligibility, then the artisan's.        *)
CreateEligibility ==
    /\ \/ created = "none"   /\ created' = "client"
                             /\ eligible' = [eligible EXCEPT !["client"] = "PENDING"]
       \/ created = "client" /\ created' = "both"
                             /\ eligible' = [eligible EXCEPT !["artisan"] = "PENDING"]
    /\ UNCHANGED <<expired, review, submit, restored, jobs, profile, worker>>

(* What it throws is logged.                                                *)
EligibilityFails ==
    /\ created \in {"none", "client"}
    /\ created' = "failed"
    /\ UNCHANGED <<eligible, expired, review, submit, restored, jobs, profile, worker>>

(* expiresAt passes.  The status EXPIRED is written in a transaction that   *)
(* then throws, so nobody ever has it.                                      *)
Expire ==
    /\ ~expired
    /\ expired' = TRUE
    /\ UNCHANGED <<eligible, created, review, submit, restored, jobs, profile, worker>>
-----------------------------------------------------------------------------
ReadOwn(p) ==
    /\ submit[p] = "idle"
    /\ eligible[p] = "PENDING" /\ ~expired
    /\ submit' = [submit EXCEPT ![p] = "read"]
    /\ UNCHANGED <<eligible, created, expired, review, restored, jobs, profile, worker>>

(* mutant: a party that may not review is not waited for                    *)
OtherNotPending(p) == eligible[Other(p)] # "PENDING"

OtherSubmitted(p) == eligible[Other(p)] = "CONSUMED"

(* Whether the other party has submitted decides what this one becomes.     *)
ReadOther(p) ==
    /\ submit[p] = "read"
    /\ submit' = [submit EXCEPT ![p] = IF OtherSubmitted(p) THEN "second" ELSE "first"]
    /\ UNCHANGED <<eligible, created, expired, review, restored, jobs, profile, worker>>

(* The second party queues both recalculations before it commits.           *)
QueueReputation(p) ==
    /\ submit[p] = "second"
    /\ \A q \in Party : jobs[q] < JobBound
    /\ jobs' = [q \in Party |-> jobs[q] + 1]
    /\ submit' = [submit EXCEPT ![p] = "queued"]
    /\ UNCHANGED <<eligible, created, expired, review, restored, profile, worker>>

(* A second request of the same party is refused by (contractId, authorId). *)
Commit(p) ==
    /\ submit[p] \in {"first", "queued"}
    /\ submit' = [submit EXCEPT ![p] = "idle"]
    /\ eligible' = [eligible EXCEPT ![p] = "CONSUMED"]
    /\ review' = IF submit[p] = "queued"
                 THEN [review EXCEPT ![p] = "VISIBLE",
                                     ![Other(p)] = IF @ = "none" THEN @ ELSE "VISIBLE"]
                 ELSE [review EXCEPT ![p] = "SUBMITTED"]
    /\ UNCHANGED <<created, expired, restored, jobs, profile, worker>>

(* It rolls back; what it queued stays queued.                              *)
RollBack(p) ==
    /\ submit[p] # "idle"
    /\ submit' = [submit EXCEPT ![p] = "idle"]
    /\ UNCHANGED <<eligible, created, expired, review, restored, jobs, profile, worker>>
-----------------------------------------------------------------------------
(* FLAG, LOCK or RESTORE, whatever the status, and a recalculation          *)
Moderate(p, s) ==
    /\ review[p] # "none"
    /\ jobs[Other(p)] < JobBound
    /\ review' = [review EXCEPT ![p] = s]
    /\ restored' = IF s = "VISIBLE" THEN restored \cup {p} ELSE restored
    /\ jobs' = [jobs EXCEPT ![Other(p)] = @ + 1]
    /\ UNCHANGED <<eligible, created, expired, submit, profile, worker>>

(* mutant: the count is one of all reviews                                  *)
CountAll(p) == IF review[Other(p)] # "none" THEN 1 ELSE 0

VisibleOf(p) == IF review[Other(p)] = "VISIBLE" THEN 1 ELSE 0

(* calculateReputation: aggregate, then upsert; two jobs run at once.       *)
Aggregate(w, p) ==
    /\ worker[w] = NoWork
    /\ jobs[p] > 0
    /\ jobs' = [jobs EXCEPT ![p] = @ - 1]
    /\ worker' = [worker EXCEPT ![w] = [of |-> p, count |-> VisibleOf(p)]]
    /\ UNCHANGED <<eligible, created, expired, review, submit, restored, profile>>

Upsert(w) ==
    /\ worker[w] # NoWork
    /\ profile' = [profile EXCEPT ![worker[w].of] = worker[w].count]
    /\ worker' = [worker EXCEPT ![w] = NoWork]
    /\ UNCHANGED <<eligible, created, expired, review, submit, restored, jobs>>

(* A job that throws is tried again, until its five attempts are used.      *)
JobThrows(w) ==
    /\ worker[w] # NoWork
    /\ \/ jobs[worker[w].of] < JobBound /\ jobs' = [jobs EXCEPT ![worker[w].of] = @ + 1]
       \/ UNCHANGED jobs
    /\ worker' = [worker EXCEPT ![w] = NoWork]
    /\ UNCHANGED <<eligible, created, expired, review, submit, restored, profile>>

Next == \/ CreateEligibility \/ EligibilityFails \/ Expire
        \/ \E p \in Party : \/ ReadOwn(p) \/ ReadOther(p) \/ QueueReputation(p)
                            \/ Commit(p) \/ RollBack(p)
                            \/ \E s \in {"FLAGGED", "LOCKED", "VISIBLE"} : Moderate(p, s)
                            \/ \E w \in Worker : Aggregate(w, p)
        \/ \E w \in Worker : Upsert(w) \/ JobThrows(w)

Spec == Init /\ [][Next]_vars
-----------------------------------------------------------------------------
(* Reviews are blind: nobody can read a review before its target has        *)
(* written one too, unless an administrator restored it; and a profile      *)
(* counts a review only if it may have been read.                           *)
BlindUnlessRestored ==
    \A p \in Party :
        review[p] = "VISIBLE" \/ profile[Other(p)] = 1
            => p \in restored \/ \A q \in Party : eligible[q] = "CONSUMED"

(* Not so: once both have written, both are published (transactions that    *)
(* overlap do not see each other),                                          *)
BothPublished == (\A p \in Party : eligible[p] = "CONSUMED")
                     => \A p \in Party : review[p] # "SUBMITTED"

(* what an administrator hid stays hidden (the second submission publishes  *)
(* the first whatever its status),                                          *)
ModerationSticks ==
    [][\A p \in Party : review[p] \in {"FLAGGED", "LOCKED"} /\ review'[p] = "VISIBLE"
                            => jobs'[Other(p)] > jobs[Other(p)]]_vars

(* and a profile is right once all jobs are done (a job may run before the  *)
(* commit, and the older of two counts may be written last).                *)
ProfileCurrent ==
    (\A p \in Party : jobs[p] = 0 /\ submit[p] = "idle") /\ (\A w \in Worker : worker[w] = NoWork)
        => \A p \in Party : profile[p] = VisibleOf(p)
=============================================================================
