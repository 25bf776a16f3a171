------------------------------ MODULE Sessions ------------------------------
(***************************************************************************)
(* SessionService: the sessions of one user in Redis, a key for each with   *)
(* its time to live and a set that lists them; and those who use them in    *)
(* AuthService: login, verifyAccessToken, logout, resetPassword.            *)
(*                                                                          *)
(* A pipeline is one step.  Validation reads a session and writes it back   *)
(* to slide its expiry: what was deleted in between is there again.         *)
(***************************************************************************)
EXTENDS Naturals

CONSTANTS
    Session,    \* the identifiers that logins generate
    Call,       \* concurrent requests
    ResetBound  \* how often the password is reset

VARIABLES
    password,   \* which password User.passwordHash is of
    made,       \* the password each session was created with
    live,       \* the sessions whose key auth:session:<id> exists
    listed,     \* the set auth:user_sessions:<user>
    over,       \* the sessions that were revoked while no validation had read them
    call        \* what each request is doing

vars  == <<password, made, live, listed, over, call>>
store == <<password, made, live, listed, over>>

Fresh == ResetBound + 1     \* the session was not created yet
Doing(op, step, S, pw) == [op |-> op, at |-> step, on |-> S, with |-> pw]
Idle == Doing("none", "idle", {}, 0)

TypeOK == /\ password \in 0..ResetBound
          /\ made \in [Session -> 0..Fresh]
          /\ live \subseteq Session /\ listed \subseteq Session /\ over \subseteq Session
          /\ call \in [Call -> [op : {"none", "login", "verify", "logout", "reset", "list",
                                      "clean"},
                                at : {"idle", "begun", "read"}, on : SUBSET Session,
                                with : 0..ResetBound]]

Init == /\ password = 0
        /\ made = [s \in Session |-> Fresh]
        /\ live = {} /\ listed = {} /\ over = {}
        /\ call = [c \in Call |-> Idle]

Leave(c)        == call' = [call EXCEPT ![c] = Idle]
At(c, op, step) == call[c].op = op /\ call[c].at = step
Holds(c, op, S) == call' = [call EXCEPT ![c] = Doing(op, "read", S, 0)]
-----------------------------------------------------------------------------
(* login compares the password that was read; then createSession.           *)
ComparePassword(c) ==
    /\ call[c] = Idle
    /\ call' = [call EXCEPT ![c] = Doing("login", "begun", {}, password)]
    /\ UNCHANGED store

CreateSession(c, s) ==
    /\ At(c, "login", "begun")
    /\ made[s] = Fresh
    /\ made' = [made EXCEPT ![s] = call[c].with]
    /\ live' = live \cup {s}
    /\ listed' = listed \cup {s}
    /\ call' = [call EXCEPT ![c] = Doing("list", "begun", {}, 0)]
    /\ UNCHANGED <<password, over>>

(* detectSuspiciousActivity, getUserSessions: smembers, mget, and srem of   *)
(* what has expired.                                                        *)
ListMembers(c) ==
    /\ At(c, "list", "begun")
    /\ Holds(c, "list", listed)
    /\ UNCHANGED store

ReadListed(c) ==
    /\ At(c, "list", "read")
    /\ IF call[c].on \subseteq live
       THEN Leave(c)
       ELSE Holds(c, "clean", call[c].on \ live)
    /\ UNCHANGED store

(* mutant: the session is written whether or not it was found               *)
GetAnySession(c, s) ==
    /\ call[c] = Idle
    /\ made[s] # Fresh
    /\ Holds(c, "verify", {s})
    /\ UNCHANGED store

(* validateSession, of a token that was issued: get, then setex             *)
GetSession(c, s) ==
    /\ call[c] = Idle
    /\ s \in live
    /\ Holds(c, "verify", {s})
    /\ UNCHANGED store

Slide(c) ==
    /\ At(c, "verify", "read")
    /\ live' = live \cup call[c].on
    /\ Leave(c)
    /\ UNCHANGED <<password, made, listed, over>>
-----------------------------------------------------------------------------
(* The sessions that no validation is about to write back                   *)
Unread(c, S) == {s \in S : \A d \in Call \ {c} : ~(At(d, "verify", "read") /\ s \in call[d].on)}

(* logout, invalidateSession: get, then del and srem                        *)
GetForLogout(c, s) ==
    /\ call[c] = Idle
    /\ s \in live
    /\ Holds(c, "logout", {s})
    /\ UNCHANGED store

DropSession(c) ==
    /\ At(c, "logout", "read")
    /\ live' = live \ call[c].on
    /\ listed' = listed \ call[c].on
    /\ over' = over \cup Unread(c, call[c].on)
    /\ Leave(c)
    /\ UNCHANGED <<password, made>>

(* resetPassword: updatePassword, then invalidateUserSessions: smembers,    *)
(* and del of each and of the whole set, later members included.            *)
UpdatePassword(c) ==
    /\ call[c] = Idle
    /\ password < ResetBound
    /\ password' = password + 1
    /\ call' = [call EXCEPT ![c] = Doing("reset", "begun", {}, 0)]
    /\ UNCHANGED <<made, live, listed, over>>

ReadMembers(c) ==
    /\ At(c, "reset", "begun")
    /\ IF listed = {} THEN Leave(c) ELSE Holds(c, "reset", listed)
    /\ UNCHANGED store

DropAll(c) ==
    /\ At(c, "reset", "read")
    /\ live' = live \ call[c].on
    /\ listed' = {}
    /\ over' = over \cup Unread(c, call[c].on)
    /\ Leave(c)
    /\ UNCHANGED <<password, made>>

(* The srem of getUserSessions                                              *)
CleanUp(c) ==
    /\ At(c, "clean", "read")
    /\ listed' = listed \ call[c].on
    /\ Leave(c)
    /\ UNCHANGED <<password, made, live, over>>
-----------------------------------------------------------------------------
(* 24 hours without a validation                                            *)
Expire(s) ==
    /\ s \in live
    /\ live' = live \ {s}
    /\ UNCHANGED <<password, made, listed, over, call>>

(* Redis fails: login throws; validation says there is no session; those    *)
(* who revoke return false or 0, which their callers ignore.                *)
RedisFails(c) ==
    /\ call[c] # Idle
    /\ Leave(c)
    /\ UNCHANGED store

Next == \/ \E c \in Call :
              \/ ComparePassword(c) \/ ListMembers(c) \/ ReadListed(c) \/ CleanUp(c)
              \/ Slide(c) \/ DropSession(c) \/ UpdatePassword(c) \/ ReadMembers(c)
              \/ DropAll(c) \/ RedisFails(c)
              \/ \E s \in Session : CreateSession(c, s) \/ GetSession(c, s) \/ GetForLogout(c, s)
        \/ \E s \in Session : Expire(s)

Spec == Init /\ [][Next]_vars
-----------------------------------------------------------------------------
(* A session that was revoked while no validation had read it never lives   *)
(* again, whatever is created, validated, listed or revoked meanwhile.      *)
RevokedForGood == over \cap live = {}

(* Not so: a revoked session is dead (a validation that had read it writes  *)
(* it back),                                                                *)
RevokedIsDead ==
    [][\A c \in Call : At(c, "verify", "read") /\ call'[c] = Idle => live' = live]_vars

(* and once a password was reset, no session lives that was made with an    *)
(* older one (a login that compared before the reset creates it after, or   *)
(* it was created between smembers and del and is listed no more).          *)
ResetLogsOut ==
    (\A c \in Call : call[c].op \notin {"reset", "verify", "login"})
        => \A s \in live : made[s] = password
=============================================================================
