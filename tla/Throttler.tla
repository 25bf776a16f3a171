----------------------------- MODULE Throttler -----------------------------
(***************************************************************************)
(* RedisThrottlerStorage: how many requests with one key are admitted.      *)
(* Every process counts in Redis and, when Redis is away, in a map of its   *)
(* own, which it alone uses and in one step.                                *)
(***************************************************************************)
EXTENDS Naturals, FiniteSets

CONSTANTS
    Process,
    Hit,        \* concurrent requests with the key
    Limit,
    HitBound    \* hits that are counted before their count expires

Redis == "redis"
Store == {Redis} \cup Process

VARIABLES
    hits,       \* the count of each store; 0 if there is none
    lasting,    \* the stores whose count has no expiry (yet)
    blocked,    \* the stores with a block
    admitted,   \* requests let in since the count began, in each store
    hit         \* what each request is doing

vars == <<hits, lasting, blocked, admitted, hit>>

Idle == [at |-> "idle", n |-> 0, expires |-> FALSE]

TypeOK == /\ hits \in [Store -> 0..HitBound]
          /\ admitted \in [Store -> 0..HitBound]
          /\ lasting \subseteq Store /\ blocked \subseteq Store
          /\ hit \in [Hit -> [at : {"idle", "free", "counted"}, n : 0..HitBound,
                              expires : BOOLEAN]]

Init == /\ hits = [s \in Store |-> 0]
        /\ lasting = {} /\ blocked = {}
        /\ admitted = [s \in Store |-> 0]
        /\ hit = [h \in Hit |-> Idle]
-----------------------------------------------------------------------------
(* pttl of the block; a blocked request is refused and not counted.         *)
ReadBlock(h) ==
    /\ hit[h] = Idle
    /\ Redis \notin blocked
    /\ hit' = [hit EXCEPT ![h].at = "free"]
    /\ UNCHANGED <<hits, lasting, blocked, admitted>>

(* incr and pttl in one pipeline                                            *)
Increment(h) ==
    /\ hit[h].at = "free"
    /\ hits[Redis] < HitBound
    /\ hits' = [hits EXCEPT ![Redis] = @ + 1]
    /\ lasting' = IF hits[Redis] = 0 THEN lasting \cup {Redis} ELSE lasting
    /\ hit' = [hit EXCEPT ![h] = [at |-> "counted", n |-> hits[Redis] + 1,
                                  expires |-> Redis \notin lasting']]
    /\ UNCHANGED <<blocked, admitted>>

(* mutant: one more                                                         *)
WithinMore(n) == n <= Limit + 1

Within(n) == n <= Limit

(* pexpire where there was no expiry; then the answer, or a block.          *)
Answer(h) ==
    /\ hit[h].at = "counted"
    /\ lasting' = IF hit[h].expires THEN lasting ELSE lasting \ {Redis}
    /\ hit' = [hit EXCEPT ![h] = Idle]
    /\ IF Within(hit[h].n)
       THEN admitted' = [admitted EXCEPT ![Redis] = @ + 1] /\ UNCHANGED blocked
       ELSE blocked' = blocked \cup {Redis} /\ UNCHANGED admitted
    /\ UNCHANGED hits

(* Redis is away or fails, at any step: the process counts for itself.      *)
CountInMemory(h, p) ==
    /\ hits[p] < HitBound
    /\ hit' = [hit EXCEPT ![h] = Idle]
    /\ IF p \in blocked
       THEN UNCHANGED <<hits, blocked, admitted>>
       ELSE /\ hits' = [hits EXCEPT ![p] = @ + 1]
            /\ IF Within(hits[p] + 1)
               THEN admitted' = [admitted EXCEPT ![p] = @ + 1] /\ UNCHANGED blocked
               ELSE blocked' = blocked \cup {p} /\ UNCHANGED admitted
    /\ UNCHANGED lasting

(* The window ends, if the count has one: minutes after what was counted in *)
(* it was answered.                                                         *)
WindowEnds(s) ==
    /\ hits[s] > 0 /\ s \notin lasting
    /\ \A h \in Hit : s = Redis => hit[h].at # "counted"
    /\ hits' = [hits EXCEPT ![s] = 0]
    /\ admitted' = [admitted EXCEPT ![s] = 0]
    /\ UNCHANGED <<lasting, blocked, hit>>

BlockEnds(s) ==
    /\ s \in blocked
    /\ blocked' = blocked \ {s}
    /\ UNCHANGED <<hits, lasting, admitted, hit>>

Next == \/ \E h \in Hit : \/ ReadBlock(h) \/ Increment(h) \/ Answer(h)
                          \/ \E p \in Process : CountInMemory(h, p)
        \/ \E s \in Store : WindowEnds(s) \/ BlockEnds(s)

Spec == Init /\ [][Next]_vars
-----------------------------------------------------------------------------
(* In one window a store admits Limit requests, whatever checks the block   *)
(* before it was set, and however often Redis comes and goes: together at   *)
(* most Limit for Redis and Limit for each process.                         *)
AdmittedWithinLimit == \A s \in Store : admitted[s] <= Limit

(* Not so: a count expires (the process may fail between incr and pexpire;  *)
(* the next hit repairs it, but until then the key is blocked again and     *)
(* again).                                                                  *)
CountExpires == Redis \in lasting => \E h \in Hit : hit[h].at = "counted"
=============================================================================
