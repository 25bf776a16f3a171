-------------------------------- MODULE Chat --------------------------------
(***************************************************************************)
(* The conversation of one contract: ChatService and ChatGateway.  A        *)
(* message is committed and then emitted to the room; a client fetches the  *)
(* messages over HTTP and receives others on its socket.                    *)
(***************************************************************************)
EXTENDS FiniteSets

CONSTANTS
    User,       \* who is logged in
    Party,      \* the client and the artisan of the contract, a subset of User
    Message     \* calls of createMessage

VARIABLES
    conversation,   \* does the row exist?
    session,        \* users whose session is valid
    token,          \* users with a socket token
    connected,      \* users whose socket was accepted
    room,           \* users whose socket joined the conversation
    msg,            \* the state of each call, and its sender
    stored,         \* rows of Message
    view,           \* the messages a user has fetched or received
    synced          \* users who fetched since they joined

vars == <<conversation, session, token, connected, room, msg, stored, view, synced>>
sockets == <<token, connected, room, synced>>

Stage == {"new", "allowed", "stored", "emitted", "died"}

TypeOK == /\ conversation \in BOOLEAN
          /\ session \subseteq User /\ token \subseteq User /\ connected \subseteq User
          /\ room \subseteq connected /\ synced \subseteq room
          /\ msg \in [Message -> Stage]
          /\ stored \subseteq Message
          /\ view \in [User -> SUBSET Message]

Init == /\ conversation = FALSE
        /\ session = User /\ token = {} /\ connected = {} /\ room = {} /\ synced = {}
        /\ msg = [m \in Message |-> "new"]
        /\ stored = {}
        /\ view = [u \in User |-> {}]
-----------------------------------------------------------------------------
(* getOrCreateConversationByContract: an upsert, for the parties            *)
OpenConversation(u) ==
    /\ u \in session \cap Party
    /\ conversation' = TRUE
    /\ UNCHANGED <<session, sockets, msg, stored, view>>

(* ensureParticipant: neither a stranger nor a conversation that is not     *)
Participant(u) == conversation /\ u \in Party

IssueSocketToken(u) ==
    /\ u \in session
    /\ token' = token \cup {u}
    /\ UNCHANGED <<conversation, session, connected, room, synced, msg, stored, view>>

(* handleConnection: the token, and the session it names                    *)
Connect(u) ==
    /\ u \in token \cap session /\ u \notin connected
    /\ connected' = connected \cup {u}
    /\ UNCHANGED <<conversation, session, token, room, synced, msg, stored, view>>

(* joinConversation asks for a socket, not for a session.                   *)
Join(u) ==
    /\ u \in connected /\ Participant(u)
    /\ room' = room \cup {u}
    /\ UNCHANGED <<conversation, session, token, connected, synced, msg, stored, view>>

Leave(u) ==
    /\ u \in room
    /\ room' = room \ {u} /\ synced' = synced \ {u}
    /\ UNCHANGED <<conversation, session, token, connected, msg, stored, view>>

Disconnect(u) ==
    /\ u \in connected
    /\ connected' = connected \ {u} /\ room' = room \ {u} /\ synced' = synced \ {u}
    /\ UNCHANGED <<conversation, session, token, msg, stored, view>>

(* The token ends with its ten minutes, the session when the user logs out. *)
TokenExpires(u) ==
    /\ u \in token
    /\ token' = token \ {u}
    /\ UNCHANGED <<conversation, session, connected, room, synced, msg, stored, view>>

EndSession(u) ==
    /\ u \in session
    /\ session' = session \ {u}
    /\ UNCHANGED <<conversation, sockets, msg, stored, view>>
-----------------------------------------------------------------------------
(* getMessages                                                              *)
Fetch(u) ==
    /\ u \in session /\ Participant(u)
    /\ view' = [view EXCEPT ![u] = @ \cup stored]
    /\ synced' = synced \cup (room \cap {u})
    /\ UNCHANGED <<conversation, session, token, connected, room, msg, stored>>

(* createMessage, from the socket or over HTTP                              *)
BeginMessage(m) ==
    /\ msg[m] = "new"
    /\ \E u \in session \cup connected : Participant(u)
    /\ msg' = [msg EXCEPT ![m] = "allowed"]
    /\ UNCHANGED <<conversation, session, sockets, stored, view>>

(* persistMessage commits the row and the conversation's updatedAt,         *)
Store(m) ==
    /\ msg[m] = "allowed"
    /\ stored' = stored \cup {m}
    /\ msg' = [msg EXCEPT ![m] = "stored"]
    /\ UNCHANGED <<conversation, session, sockets, view>>

Seen(m) == [u \in User |-> IF u \in room THEN view[u] \cup {m} ELSE view[u]]

(* mutant: and emits it before, when it is allowed                          *)
EmitFirst(m) ==
    /\ \/ msg[m] = "allowed" /\ view' = Seen(m) /\ UNCHANGED msg
       \/ msg[m] = "stored" /\ msg' = [msg EXCEPT ![m] = "emitted"] /\ UNCHANGED view
    /\ UNCHANGED <<conversation, session, sockets, stored>>

(* and emits it then to those who are in the room.                          *)
EmitMessageCreated(m) ==
    /\ msg[m] = "stored"
    /\ view' = Seen(m)
    /\ msg' = [msg EXCEPT ![m] = "emitted"]
    /\ UNCHANGED <<conversation, session, sockets, stored>>

Dies(m) ==
    /\ msg[m] \in {"allowed", "stored"}
    /\ msg' = [msg EXCEPT ![m] = "died"]
    /\ UNCHANGED <<conversation, session, sockets, stored, view>>

Next == \/ \E u \in User : \/ OpenConversation(u) \/ IssueSocketToken(u) \/ Connect(u)
                           \/ Join(u) \/ Leave(u) \/ Disconnect(u)
                           \/ TokenExpires(u) \/ EndSession(u) \/ Fetch(u)
        \/ \E m \in Message : \/ BeginMessage(m) \/ Store(m)
                              \/ EmitMessageCreated(m) \/ Dies(m)

Spec == Init /\ [][Next]_vars
-----------------------------------------------------------------------------
(* Who joins the room and then fetches misses no message whose call is      *)
(* done: what was not there yet is emitted later.                           *)
NothingMissed ==
    \A u \in synced, m \in Message : msg[m] = "emitted" => m \in view[u]

(* Not so: a message that is stored reaches those who are there (its        *)
(* process may die before it emits),                                        *)
StoredIsSeen ==
    \A u \in synced, m \in stored : msg[m] # "stored" => m \in view[u]

(* and a session that ended ends its socket.                                *)
SocketNeedsSession == room \subseteq session
=============================================================================
