---------------------------- MODULE Credentials ----------------------------
(***************************************************************************)
(* Registration of one e-mail address, its verification by a one-time code, *)
(* and the reset of its password (AuthService, UsersService).  Rows of      *)
(* VerificationToken belong to the address, not to the user; they are       *)
(* cleared and created by separate statements.                              *)
(***************************************************************************)
EXTENDS Naturals

CONSTANTS
    Request,    \* concurrent requests
    Code        \* the one-time codes and reset tokens that are generated

NoCode == "none"

VARIABLES
    user,       \* the row of User: is it there, verified, and whose password?
    tokens,     \* the rows of VerificationToken that did not expire
    mailed,     \* the codes that were queued or sent
    resetToken, \* User.passwordResetTokenHash
    request     \* what each request is doing

vars == <<user, tokens, mailed, resetToken, request>>

Op   == {"none", "create", "update", "resend", "verify", "reset"}
Idle == [op |-> "none", at |-> "idle", code |-> NoCode]

TypeOK == /\ user \in [there : BOOLEAN, verified : BOOLEAN, password : Request \cup {NoCode}]
          /\ tokens \subseteq Code /\ mailed \subseteq Code
          /\ resetToken \in Code \cup {NoCode}
          /\ request \in [Request -> [op : Op, code : Code \cup {NoCode},
                                      at : {"idle", "read", "clear", "generate", "store",
                                            "send"}]]

Init == /\ user = [there |-> FALSE, verified |-> FALSE, password |-> NoCode]
        /\ tokens = {} /\ mailed = {}
        /\ resetToken = NoCode
        /\ request = [r \in Request |-> Idle]

Leave(r)          == request' = [request EXCEPT ![r] = Idle]
Goto(r, step)     == request' = [request EXCEPT ![r].at = step]
At(r, ops, step)  == request[r].op \in ops /\ request[r].at = step
Begin(r, op, step, c) ==
    /\ request[r] = Idle
    /\ request' = [request EXCEPT ![r] = [op |-> op, at |-> step, code |-> c]]
-----------------------------------------------------------------------------
(* register: findByEmail; one that is verified is a conflict.               *)
Register(r) ==
    /\ ~user.verified
    /\ Begin(r, IF user.there THEN "update" ELSE "create", "read", NoCode)
    /\ UNCHANGED <<user, tokens, mailed, resetToken>>

(* createUser, with the wallet; email is unique.                            *)
CreateUser(r) ==
    /\ At(r, {"create"}, "read")
    /\ IF user.there
       THEN Leave(r) /\ UNCHANGED user
       ELSE /\ user' = [there |-> TRUE, verified |-> FALSE, password |-> r]
            /\ Goto(r, "generate")
    /\ UNCHANGED <<tokens, mailed, resetToken>>

(* Whoever registered an address that is not verified may do so again; the  *)
(* update does not look at it once more.                                    *)
UpdateUser(r) ==
    /\ At(r, {"update"}, "read")
    /\ user' = [user EXCEPT !.password = r]
    /\ Goto(r, "clear")
    /\ UNCHANGED <<tokens, mailed, resetToken>>

ResendVerification(r) ==
    /\ user.there /\ ~user.verified
    /\ Begin(r, "resend", "clear", NoCode)
    /\ UNCHANGED <<user, tokens, mailed, resetToken>>

(* deleteMany                                                               *)
ClearTokens(r) ==
    /\ At(r, {"update", "resend"}, "clear")
    /\ tokens' = {}
    /\ Goto(r, "generate")
    /\ UNCHANGED <<user, mailed, resetToken>>

(* generateOtp: a code that no row has, or after three tries a conflict.    *)
GenerateOtp(r, c) ==
    /\ At(r, {"create", "update", "resend"}, "generate")
    /\ IF c \in tokens
       THEN Leave(r)
       ELSE request' = [request EXCEPT ![r].at = "store", ![r].code = c]
    /\ UNCHANGED <<user, tokens, mailed, resetToken>>

(* token is unique.                                                         *)
StoreToken(r) ==
    /\ At(r, {"create", "update", "resend"}, "store")
    /\ IF request[r].code \in tokens
       THEN Leave(r) /\ UNCHANGED tokens
       ELSE Goto(r, "send") /\ tokens' = tokens \cup {request[r].code}
    /\ UNCHANGED <<user, mailed, resetToken>>

(* sendVerificationEmail: by the queue, or directly if that fails; if both  *)
(* fail that is logged.                                                     *)
SendCode(r) ==
    /\ At(r, {"create", "update", "resend"}, "send")
    /\ mailed' \in {mailed, mailed \cup {request[r].code}}
    /\ Leave(r)
    /\ UNCHANGED <<user, tokens, resetToken>>
-----------------------------------------------------------------------------
(* verifyEmail: the row of the code and the user, who is not verified yet.  *)
ReadToken(r, c) ==
    /\ c \in tokens \cap mailed
    /\ user.there /\ ~user.verified
    /\ Begin(r, "verify", "read", c)
    /\ UNCHANGED <<user, tokens, mailed, resetToken>>

(* mutant: the code need not be there any more (deleteMany)                 *)
VerifyAnyway(r) ==
    /\ At(r, {"verify"}, "read")
    /\ Leave(r)
    /\ user' = [user EXCEPT !.verified = TRUE]
    /\ tokens' = tokens \ {request[r].code}
    /\ UNCHANGED <<mailed, resetToken>>

(* The transaction: delete throws when the row is gone, and rolls back.     *)
VerifyEmail(r) ==
    /\ At(r, {"verify"}, "read")
    /\ Leave(r)
    /\ IF request[r].code \in tokens
       THEN /\ user' = [user EXCEPT !.verified = TRUE]
            /\ tokens' = tokens \ {request[r].code}
       ELSE UNCHANGED <<user, tokens>>
    /\ UNCHANGED <<mailed, resetToken>>
-----------------------------------------------------------------------------
(* requestPasswordReset, issueUserPasswordReset: the last token counts.     *)
IssueResetToken(c) ==
    /\ user.there
    /\ c # resetToken
    /\ resetToken' = c
    /\ UNCHANGED <<user, tokens, mailed, request>>

(* resetPassword: find by hash, and later updatePassword                    *)
FindByResetToken(r, c) ==
    /\ resetToken = c
    /\ Begin(r, "reset", "read", c)
    /\ UNCHANGED <<user, tokens, mailed, resetToken>>

UpdatePassword(r) ==
    /\ At(r, {"reset"}, "read")
    /\ user' = [user EXCEPT !.password = r]
    /\ resetToken' = NoCode
    /\ Leave(r)
    /\ UNCHANGED <<tokens, mailed>>

(* 15 or 30 minutes                                                         *)
TokenExpires(c) ==
    /\ \/ c \in tokens   /\ tokens' = tokens \ {c} /\ UNCHANGED resetToken
       \/ c = resetToken /\ resetToken' = NoCode /\ UNCHANGED tokens
    /\ UNCHANGED <<user, mailed, request>>

Fails(r) ==
    /\ request[r] # Idle
    /\ Leave(r)
    /\ UNCHANGED <<user, tokens, mailed, resetToken>>

Next == \/ \E r \in Request :
              \/ Register(r) \/ CreateUser(r) \/ UpdateUser(r) \/ ResendVerification(r)
              \/ ClearTokens(r) \/ StoreToken(r) \/ SendCode(r) \/ VerifyEmail(r)
              \/ UpdatePassword(r) \/ Fails(r)
              \/ \E c \in Code : GenerateOtp(r, c) \/ ReadToken(r, c) \/ FindByResetToken(r, c)
        \/ \E c \in Code : IssueResetToken(c) \/ TokenExpires(c)

Spec == Init /\ [][Next]_vars
-----------------------------------------------------------------------------
(* An address is verified once, and by a code that is still there: one that *)
(* was superseded, expired or used while the request had it does not count. *)
VerifiedByValidCode ==
    [][user'.verified # user.verified
           => \E c \in tokens \cap mailed : tokens' = tokens \ {c}]_vars

(* Not so: only the last code that was sent is valid ("to avoid             *)
(* redundancy", auth.service.ts; two requests clear before either creates), *)
OneCode == \A c, d \in tokens : c = d

(* a verified account keeps its password but for a reset (a registration    *)
(* that found it unverified overwrites it),                                 *)
VerifiedKeepsPassword ==
    [][user.verified /\ user'.password # user.password
           => \E r \in Request : At(r, {"reset"}, "read")]_vars

(* and a reset token resets once (it may be found twice before it is        *)
(* cleared, and clears a newer one).                                        *)
ResetOnce == [][\A r \in Request : At(r, {"reset"}, "read") /\ user'.password = r
                    /\ user' # user => resetToken = request[r].code]_vars
=============================================================================
