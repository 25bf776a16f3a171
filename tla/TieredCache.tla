---------------------------- MODULE TieredCache ----------------------------
(***************************************************************************)
(* One key of RedisCacheService: a store in the memory of each process and  *)
(* one in Redis.  A reader (AnalyticsService, TaxonomyService) looks it up, *)
(* computes and sets; AdminService changes the data and invalidates the     *)
(* reports.                                                                 *)
(***************************************************************************)
EXTENDS Naturals

CONSTANTS
    Process,
    Read,           \* calls that read through the cache
    VersionBound    \* changes of the data

VARIABLES
    version,    \* of the data in the database
    memory,     \* InMemoryCacheService of each process
    redis,
    up,         \* processes for which isRedisAvailable
    read,       \* the calls under way
    write,      \* the operation that changes the data
    missed      \* did the last change not reach one of its two stores?

vars == <<version, memory, redis, up, read, write, missed>>

(* late: read from the database before an invalidation, stored after it     *)
Entry == [v : 0..VersionBound, late : BOOLEAN]
None  == [v |-> 0, none |-> TRUE]
Idle  == [at |-> "idle"]

TypeOK == /\ version \in 0..VersionBound
          /\ memory \in [Process -> Entry \cup {None}]
          /\ redis \in Entry \cup {None}
          /\ up \subseteq Process
          /\ read \in [Read -> {Idle}
                \cup [at : {"missing"}, home : Process]
                \cup [at : {"computed", "stored"}, home : Process, entry : Entry]]
          /\ write \in [at : {"idle", "written", "memory"}, home : Process]
          /\ missed \in BOOLEAN

Init == /\ version = 0
        /\ memory = [p \in Process |-> None] /\ redis = None
        /\ up = Process
        /\ read = [r \in Read |-> Idle]
        /\ write \in [at : {"idle"}, home : Process]
        /\ missed = FALSE
-----------------------------------------------------------------------------
(* get: Redis if it has the key, and the memory of the process if not       *)
Served(p) == IF p \in up /\ redis # None THEN redis ELSE memory[p]

(* A hit ends the call, unless an administrator forces a new report.        *)
Get(r, p, force) ==
    /\ read[r] = Idle
    /\ force \/ Served(p) = None
    /\ read' = [read EXCEPT ![r] = [at |-> "missing", home |-> p]]
    /\ UNCHANGED <<version, memory, redis, up, write, missed>>

Compute(r) ==
    /\ read[r].at = "missing"
    /\ read' = [read EXCEPT ![r] = [at |-> "computed", home |-> read[r].home,
                                    entry |-> [v |-> version, late |-> FALSE]]]
    /\ UNCHANGED <<version, memory, redis, up, write, missed>>

(* set: the memory,                                                         *)
SetMemory(r) ==
    /\ read[r].at = "computed"
    /\ memory' = [memory EXCEPT ![read[r].home] = read[r].entry]
    /\ read' = [read EXCEPT ![r].at = "stored"]
    /\ UNCHANGED <<version, redis, up, write, missed>>

(* and then Redis, if it is available.                                      *)
SetRedis(r) ==
    /\ read[r].at = "stored"
    /\ redis' = IF read[r].home \in up THEN read[r].entry ELSE redis
    /\ read' = [read EXCEPT ![r] = Idle]
    /\ UNCHANGED <<version, memory, up, write, missed>>

(* An error trips the circuit breaker of the process.                       *)
SetRedisFails(r) ==
    /\ read[r].at = "stored" /\ read[r].home \in up
    /\ up' = up \ {read[r].home}
    /\ read' = [read EXCEPT ![r] = Idle]
    /\ UNCHANGED <<version, memory, redis, write, missed>>
-----------------------------------------------------------------------------
Change(p) ==
    /\ write.at = "idle" /\ version < VersionBound
    /\ version' = version + 1
    /\ write' = [at |-> "written", home |-> p]
    /\ UNCHANGED <<memory, redis, up, read, missed>>

(* Values that were computed before are late from now on.                   *)
Late == [r \in Read |-> IF read[r].at \in {"computed", "stored"}
                        THEN [read[r] EXCEPT !.entry.late = TRUE]
                        ELSE read[r]]

(* mutant: invalidatePattern only asks Redis                                *)
InvalidateNothing ==
    /\ write.at = "written"
    /\ read' = Late
    /\ write' = [write EXCEPT !.at = "memory"]
    /\ UNCHANGED <<version, memory, redis, up, missed>>

(* invalidatePattern: the memory of this process,                           *)
InvalidateMemory ==
    /\ write.at = "written"
    /\ memory' = [memory EXCEPT ![write.home] = None]
    /\ read' = Late
    /\ write' = [write EXCEPT !.at = "memory"]
    /\ UNCHANGED <<version, redis, up, missed>>

(* and then Redis, if it is available.                                      *)
InvalidateRedis ==
    /\ write.at = "memory"
    /\ redis' = IF write.home \in up THEN None ELSE redis
    /\ missed' = (write.home \notin up)
    /\ read' = Late
    /\ write' = [write EXCEPT !.at = "idle"]
    /\ UNCHANGED <<version, memory, up>>

InvalidateRedisFails ==
    /\ write.at = "memory" /\ write.home \in up
    /\ up' = up \ {write.home}
    /\ missed' = TRUE
    /\ read' = Late
    /\ write' = [write EXCEPT !.at = "idle"]
    /\ UNCHANGED <<version, memory, redis>>

(* The audit log of the operation fails: nothing is invalidated.            *)
ChangeFails ==
    /\ write.at = "written"
    /\ missed' = TRUE
    /\ write' = [write EXCEPT !.at = "idle"]
    /\ UNCHANGED <<version, memory, redis, up, read>>
-----------------------------------------------------------------------------
(* The time to live ends, or the oldest tenth is evicted.                   *)
Expire ==
    /\ \/ redis # None /\ redis' = None /\ UNCHANGED memory
       \/ \E p \in Process : /\ memory[p] # None
                             /\ memory' = [memory EXCEPT ![p] = None]
                             /\ UNCHANGED redis
    /\ UNCHANGED <<version, up, read, write, missed>>

(* The connection closes, or its cool-down ends.                            *)
Availability(p) ==
    /\ up' = IF p \in up THEN up \ {p} ELSE up \cup {p}
    /\ UNCHANGED <<version, memory, redis, read, write, missed>>

Next == \/ \E r \in Read : \/ \E p \in Process, force \in BOOLEAN : Get(r, p, force)
                           \/ Compute(r) \/ SetMemory(r)
                           \/ SetRedis(r) \/ SetRedisFails(r)
        \/ InvalidateMemory \/ InvalidateRedis \/ InvalidateRedisFails
        \/ ChangeFails \/ Expire
        \/ \E p \in Process : Change(p) \/ Availability(p)

Spec == Init /\ [][Next]_vars
-----------------------------------------------------------------------------
Stale(e) == e # None /\ e.v < version

(* Once a change has invalidated both stores, the process that made it is   *)
(* served an old value only if somebody read it from the database before    *)
(* the invalidation and stored it after.                                    *)
StaleOnlyByRace ==
    write.at = "idle" /\ ~missed /\ Stale(Served(write.home)) => Served(write.home).late

(* Not so: this holds in every process (the others keep what is in their    *)
(* memory, and serve it as soon as Redis has nothing).                      *)
StaleOnlyByRaceAnywhere ==
    \A p \in Process :
        write.at = "idle" /\ ~missed /\ Stale(Served(p)) => Served(p).late
=============================================================================
