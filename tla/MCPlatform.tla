----------------------------- MODULE MCPlatform -----------------------------
(***************************************************************************)
(* What the rest stands on, for TLC: sessions, lockout, credentials,        *)
(* throttling, the two caches, webhook intake, notifications, verification  *)
(* and chat.  The parts share no state, so a behaviour is one of one part,  *)
(* which "part" names; the variables of the others keep their values.       *)
(***************************************************************************)
EXTENDS Lockout, TLC

CONSTANTS
    Session, Call, ResetBound,
    Request, Code,
    Process, Hit, Limit, HitBound,
    Task, Home,
    Read, VersionBound,
    Event, Delivery, ExpiryBound,
    Channel, Tries, StallBound,
    RefBound,
    User, Party, Message

ASSUME SessionsAssumption == ResetBound \in Nat

ASSUME ThrottlerAssumption ==
    IsFiniteSet(Hit) /\ Limit \in Nat /\ HitBound \in Nat /\ "redis" \notin Process

ASSUME CacheLockAssumption == Home \in [Task -> Process] /\ "none" \notin Task

ASSUME CacheAssumption == VersionBound \in Nat

ASSUME IntakeAssumption == IsFiniteSet(Delivery) /\ ExpiryBound \in Nat

ASSUME NotificationsAssumption == Tries \in Nat /\ StallBound \in Nat

ASSUME VerificationAssumption == RefBound \in Nat

VARIABLES
    part,
    password, made, live, listed, over, call,
    user, tokens, mailed, resetToken, request,
    hits, lasting, blocked, admitted, hit,
    lock, mirror, task, late,
    version, memory, redis, up, read, write, missed,
    key, delivery, handled, acked, expiries,
    route, notices, status, job, at, sent, stalls,
    row, flag, req, refs, granted, silent,
    conversation, session, token, connected, room, msg, stored, view, synced

sessVars     == <<password, made, live, listed, over, call>>
credVars     == <<user, tokens, mailed, resetToken, request>>
throttleVars == <<hits, lasting, blocked, admitted, hit>>
clockVars    == <<lock, mirror, task, late>>
cacheVars    == <<version, memory, redis, up, read, write, missed>>
intakeVars   == <<key, delivery, handled, acked, expiries>>
notifyVars   == <<route, notices, status, job, at, sent, stalls>>
verifyVars   == <<row, flag, req, refs, granted, silent>>
talkVars     == <<conversation, session, token, connected, room, msg, stored, view, synced>>

Sess     == INSTANCE Sessions
Cred     == INSTANCE Credentials
Throttle == INSTANCE Throttler
CLock    == INSTANCE CacheLock
Cache    == INSTANCE TieredCache
Intake   == INSTANCE WebhookIntake
Notify   == INSTANCE Notifications
Verify   == INSTANCE Verification
Talk     == INSTANCE Chat

Alike == Permutations(Call) \cup Permutations(Request)

(* The home of each task that takes the distributed lock                    *)
TaskHome == CHOOSE f \in [Task -> Process] :
               \E p \in Process : Cardinality({t \in Task : f[t] = p}) = 1

(* The parts that are not the one chosen rest.                              *)
SumInit ==
    /\ part \in {"session", "lockout", "credentials", "throttler", "lock", "cache",
                 "webhook", "notification", "verification", "chat"}
    /\ Sess!Init /\ Init /\ Cred!Init /\ Throttle!Init /\ CLock!Init
    /\ Cache!Init /\ Intake!Init /\ Notify!Init /\ Verify!Init /\ Talk!Init
    /\ part # "cache" => write.home = Home[CHOOSE t \in Task : TRUE]

sumVars == <<part, sessVars, vars, credVars, throttleVars, clockVars, cacheVars, intakeVars,
             notifyVars, verifyVars, talkVars>>

SumNext ==
    \/ /\ part = "session" /\ Sess!Next
       /\ UNCHANGED <<part, vars, credVars, throttleVars, clockVars, cacheVars,
                      intakeVars, notifyVars, verifyVars, talkVars>>
    \/ /\ part = "lockout" /\ Next
       /\ UNCHANGED <<part, sessVars, credVars, throttleVars, clockVars, cacheVars,
                      intakeVars, notifyVars, verifyVars, talkVars>>
    \/ /\ part = "credentials" /\ Cred!Next
       /\ UNCHANGED <<part, sessVars, vars, throttleVars, clockVars, cacheVars,
                      intakeVars, notifyVars, verifyVars, talkVars>>
    \/ /\ part = "throttler" /\ Throttle!Next
       /\ UNCHANGED <<part, sessVars, vars, credVars, clockVars, cacheVars,
                      intakeVars, notifyVars, verifyVars, talkVars>>
    \/ /\ part = "lock" /\ CLock!Next
       /\ UNCHANGED <<part, sessVars, vars, credVars, throttleVars, cacheVars,
                      intakeVars, notifyVars, verifyVars, talkVars>>
    \/ /\ part = "cache" /\ Cache!Next
       /\ UNCHANGED <<part, sessVars, vars, credVars, throttleVars, clockVars,
                      intakeVars, notifyVars, verifyVars, talkVars>>
    \/ /\ part = "webhook" /\ Intake!Next
       /\ UNCHANGED <<part, sessVars, vars, credVars, throttleVars, clockVars,
                      cacheVars, notifyVars, verifyVars, talkVars>>
    \/ /\ part = "notification" /\ Notify!Next
       /\ UNCHANGED <<part, sessVars, vars, credVars, throttleVars, clockVars,
                      cacheVars, intakeVars, verifyVars, talkVars>>
    \/ /\ part = "verification" /\ Verify!Next
       /\ UNCHANGED <<part, sessVars, vars, credVars, throttleVars, clockVars,
                      cacheVars, intakeVars, notifyVars, talkVars>>
    \/ /\ part = "chat" /\ Talk!Next
       /\ UNCHANGED <<part, sessVars, vars, credVars, throttleVars, clockVars,
                      cacheVars, intakeVars, notifyVars, verifyVars>>

SumSpec == SumInit /\ [][SumNext]_sumVars
-----------------------------------------------------------------------------
(* Every part keeps to its types: each counter stays below its bound (the   *)
(* attempts of a lockout below MAX_ATTEMPTS), each row in its statuses.     *)
TypesCorrect ==
    CASE part = "session" -> Sess!TypeOK
      [] part = "lockout" -> TypeOK
      [] part = "credentials" -> Cred!TypeOK
      [] part = "throttler" -> Throttle!TypeOK
      [] part = "lock" -> CLock!TypeOK
      [] part = "cache" -> Cache!TypeOK
      [] part = "webhook" -> Intake!TypeOK
      [] part = "notification" -> Notify!TypeOK
      [] part = "verification" -> Verify!TypeOK
      [] part = "chat" -> Talk!TypeOK

(* A session that was revoked while no request had read it is gone for      *)
(* good: no sliding expiry brings it back (SessionService).                 *)
RevokedForGood == Sess!RevokedForGood

(* An account is verified only with a code that was valid when it was read  *)
(* (AuthService.verifyEmail).                                               *)
VerifiedByValidCode == Cred!VerifiedByValidCode

(* A store admits no more than Limit requests of a window                   *)
(* (RedisThrottlerStorage).                                                 *)
AdmittedWithinLimit == Throttle!AdmittedWithinLimit

(* In one store at most one task holds a lock that did not expire           *)
(* (RedisCacheService.acquireLock).                                         *)
ExclusiveInStore == CLock!ExclusiveInStore

(* Who changed the data and invalidated the cache is served an old value    *)
(* only if a reader raced with him (RedisCacheService.invalidatePattern).   *)
StaleOnlyByRace == Cache!StaleOnlyByRace

(* While its key lasts an event is handled once, however often and at once  *)
(* it is delivered (PaystackController.webhook).                            *)
HandledOnce == Intake!HandledOnce

(* What is DELIVERED was sent, and what is being worked on has a job (the   *)
(* delivery processors).                                                    *)
DeliveredIsSent == Notify!DeliveredIsSent

(* Whichever of approval and identity check comes last, the eligible        *)
(* artisan is told (checkEligibility of both verification services).        *)
EligibleIsAnnounced == Verify!EligibleIsAnnounced

(* Who joins a conversation and then fetches its messages misses none       *)
(* (ChatService.persistMessage).                                            *)
NothingMissed == Talk!NothingMissed
=============================================================================
