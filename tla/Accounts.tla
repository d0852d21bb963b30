----------------------------- MODULE Accounts -----------------------------
(***************************************************************************)
(* Accounts: registration, sessions (auth.service.ts, jwt.strategy.ts,     *)
(* roles.guard.ts), identity documents (users.module.ts) and what an       *)
(* administrator does to a user (admin.module.ts).                         *)
(*                                                                         *)
(* No handler takes a lock. Each awaits the database between what it reads *)
(* and what it writes; `seen` is what it has read. A user is named by the  *)
(* e-mail address, which is a unique key. Passwords are right or the       *)
(* request leaves no trace.                                                *)
(***************************************************************************)
EXTENDS Integers, FiniteSets

CONSTANTS
    Users,          \* e-mail addresses
    Admins,         \* the administrators the seed creates
    Tokens,         \* ids of refresh tokens (bound)
    Documents,      \* identity documents a user may submit
    Requests,       \* slots for requests in flight (bound)
    RefreshTime,    \* JWT_REFRESH_EXPIRES
    MaxTime,        \* bound on the clock
    None

ASSUME AccountsAssumption ==
    /\ Admins \subseteq Users
    /\ RefreshTime \in Nat
    /\ MaxTime \in Nat
    /\ None \notin Users \cup Tokens

VARIABLES
    now,
    user,       \* User rows, NoUser where there is none
    docs,       \* the committed KycDocument rows of each user
    token,      \* RefreshToken rows, NoToken where there is none
    bearer,     \* users that have been given an access token
    pc,
    seen

vars == <<now, user, docs, token, bearer, pc, seen>>

Kyc == {"NOT_SUBMITTED", "PENDING", "APPROVED", "REJECTED"}

UserType == [role : {"BUYER", "BANK_STAFF", "ADMIN"}, active : BOOLEAN, kyc : Kyc]

TokenType == [user : Users, until : Nat, revoked : BOOLEAN,
              from : Tokens \cup {None}]       \* history: the token it was refreshed from

NoUser == [role |-> "NONE", active |-> FALSE, kyc |-> "NOT_SUBMITTED"]
NoToken == [user |-> None, until |-> 0, revoked |-> FALSE, from |-> None]

PCs == {"idle", "insert", "rotate", "issue", "logout", "submit", "delete", "commit",
        "review", "deactivate", "kill", "staff"}

SeenType == [user  : Users \cup {None},      \* whom the request is about
             token : Tokens \cup {None},     \* the refresh token it has looked up
             docs  : SUBSET Documents]       \* the rows its DELETE has seen

Nothing == [user |-> None, token |-> None, docs |-> {}]
About(u) == [Nothing EXCEPT !.user = u]

Init ==
    /\ now = 0
    /\ user = [u \in Users |-> IF u \in Admins
                 THEN [role |-> "ADMIN", active |-> TRUE, kyc |-> "APPROVED"] ELSE NoUser]
    /\ docs = [u \in Users |-> {}]
    /\ token = [t \in Tokens |-> NoToken]
    /\ bearer = Admins
    /\ pc = [r \in Requests |-> "idle"]
    /\ seen = [r \in Requests |-> Nothing]

Goto(r, p, s) ==
    /\ pc' = [pc EXCEPT ![r] = p]
    /\ seen' = [seen EXCEPT ![r] = s]

Answer(r) == Goto(r, "idle", Nothing)

----------------------------------------------------------------------------
(* AuthService: register, login, refresh                                   *)

(* register finds no user of that address, ...                              *)
Register(r, u) ==
    /\ pc[r] = "idle" /\ user[u] = NoUser
    /\ Goto(r, "insert", About(u))
    /\ UNCHANGED <<now, user, docs, token, bearer>>

(* ... and inserts one, unless the address has been taken since.            *)
InsertUser(r) ==
    LET u == seen[r].user IN
    /\ pc[r] = "insert"
    /\ IF user[u] = NoUser
       THEN /\ user' = [user EXCEPT ![u] =
                          [role |-> "BUYER", active |-> TRUE, kyc |-> "NOT_SUBMITTED"]]
            /\ Goto(r, "issue", seen[r])
       ELSE Answer(r) /\ UNCHANGED user
    /\ UNCHANGED <<now, docs, token, bearer>>

Login(r, u) ==
    /\ pc[r] = "idle" /\ user[u].active
    /\ Goto(r, "issue", About(u))
    /\ UNCHANGED <<now, user, docs, token, bearer>>

(* Mutant: the user's isActive is not looked at.                            *)
HonouredInactive(t) ==
    token[t] # NoToken /\ ~token[t].revoked /\ now <= token[t].until

(* Mutant: revokedAt is not looked at.                                      *)
HonouredRevoked(t) ==
    token[t] # NoToken /\ now <= token[t].until /\ user[token[t].user].active

(* refresh refuses a token that is unknown, revoked, expired, or of an      *)
(* inactive user.                                                           *)
Honoured(t) ==
    /\ token[t] # NoToken
    /\ ~token[t].revoked
    /\ now <= token[t].until
    /\ user[token[t].user].active

Refresh(r, t) ==
    /\ pc[r] = "idle" /\ Honoured(t)
    /\ Goto(r, "rotate", [user |-> token[t].user, token |-> t, docs |-> {}])
    /\ UNCHANGED <<now, user, docs, token, bearer>>

(* Mutant: the old token stays good.                                        *)
RotateNothing(r) ==
    /\ pc[r] = "rotate"
    /\ Goto(r, "issue", seen[r])
    /\ UNCHANGED <<now, user, docs, token, bearer>>

(* The old token is revoked by its id, ...                                  *)
Rotate(r) ==
    /\ pc[r] = "rotate"
    /\ token' = [token EXCEPT ![seen[r].token].revoked = TRUE]
    /\ Goto(r, "issue", seen[r])
    /\ UNCHANGED <<now, user, docs, bearer>>

(* Mutant: a token without an owner.                                        *)
IssueUnowned(r, t) ==
    /\ pc[r] = "issue" /\ token[t] = NoToken
    /\ token' = [token EXCEPT ![t] = [NoToken EXCEPT !.until = now + RefreshTime]]
    /\ bearer' = bearer \cup {seen[r].user}
    /\ Answer(r)
    /\ UNCHANGED <<now, user, docs>>

(* ... and issueTokens hands out a new pair, whatever has happened since.   *)
IssueTokens(r, t) ==
    /\ pc[r] = "issue" /\ token[t] = NoToken
    /\ token' = [token EXCEPT ![t] =
                   [user |-> seen[r].user, until |-> now + RefreshTime, revoked |-> FALSE,
                    from |-> seen[r].token]]
    /\ bearer' = bearer \cup {seen[r].user}
    /\ Answer(r)
    /\ UNCHANGED <<now, user, docs>>

----------------------------------------------------------------------------
(* The guards of every other request                                       *)

(* JwtStrategy.validate: the access token names a user who is still active. *)
Authenticated(u) == u \in bearer /\ user[u].active

(* RolesGuard: the administration is for administrators.                    *)
RoleAllows(u, p) ==
    p \in {"review", "deactivate", "staff"} => user[u].role = "ADMIN"

(* u's request, about the user v: himself unless he administers.            *)
Admit(r, u, p, v) ==
    /\ pc[r] = "idle"
    /\ Authenticated(u) /\ RoleAllows(u, p)
    /\ p \in {"logout", "submit"} => v = u
    /\ Goto(r, p, About(v))
    /\ UNCHANGED <<now, user, docs, token, bearer>>

Revoke(u, which) ==
    token' = [t \in Tokens |->
                IF t \in which /\ token[t].user = u THEN [token[t] EXCEPT !.revoked = TRUE]
                ELSE token[t]]

(* logout of one session, or of all.                                        *)
Logout(r, which) ==
    /\ pc[r] = "logout"
    /\ Revoke(seen[r].user, which)
    /\ Answer(r)
    /\ UNCHANGED <<now, user, docs, bearer>>

----------------------------------------------------------------------------
(* UsersService.submitKyc                                                  *)

(* Mutant: an approved user may submit again.                               *)
ReadKycAnyhow(r) ==
    /\ pc[r] = "submit"
    /\ Goto(r, "delete", seen[r])
    /\ UNCHANGED <<now, user, docs, token, bearer>>

ReadKyc(r) ==
    /\ pc[r] = "submit"
    /\ IF user[seen[r].user].kyc = "APPROVED" THEN Answer(r) ELSE Goto(r, "delete", seen[r])
    /\ UNCHANGED <<now, user, docs, token, bearer>>

(* The transaction. Its DELETE sees the documents committed by now; ...     *)
DeleteDocuments(r) ==
    /\ pc[r] = "delete"
    /\ Goto(r, "commit", [seen[r] EXCEPT !.docs = docs[seen[r].user]])
    /\ UNCHANGED <<now, user, docs, token, bearer>>

(* ... its commit adds the new ones and asks for a review.                  *)
CommitKyc(r, submitted) ==
    LET u == seen[r].user IN
    /\ pc[r] = "commit"
    /\ docs' = [docs EXCEPT ![u] = (@ \ seen[r].docs) \cup submitted]
    /\ user' = [user EXCEPT ![u].kyc = "PENDING"]
    /\ Answer(r)
    /\ UNCHANGED <<now, token, bearer>>

----------------------------------------------------------------------------
(* AdminService                                                            *)

(* Any user may be reviewed, whatever his status.                           *)
ReviewKyc(r, verdict) ==
    /\ pc[r] = "review"
    /\ IF user[seen[r].user] = NoUser THEN UNCHANGED user
       ELSE user' = [user EXCEPT ![seen[r].user].kyc = verdict]
    /\ Answer(r)
    /\ UNCHANGED <<now, docs, token, bearer>>

(* deactivateUser first closes the account, ...                             *)
DeactivateUser(r) ==
    LET u == seen[r].user IN
    /\ pc[r] = "deactivate"
    /\ IF user[u] = NoUser THEN Answer(r) /\ UNCHANGED user
       ELSE user' = [user EXCEPT ![u].active = FALSE] /\ Goto(r, "kill", seen[r])
    /\ UNCHANGED <<now, docs, token, bearer>>

(* ... then revokes all its tokens: an administrator's crash leaves them.   *)
KillTokens(r) ==
    /\ pc[r] = "kill"
    /\ Revoke(seen[r].user, Tokens)
    /\ Answer(r)
    /\ UNCHANGED <<now, user, docs, bearer>>

(* Bank staff are born approved.                                            *)
CreateBankStaff(r) ==
    LET u == seen[r].user IN
    /\ pc[r] = "staff"
    /\ IF user[u] = NoUser
       THEN user' = [user EXCEPT ![u] =
                       [role |-> "BANK_STAFF", active |-> TRUE, kyc |-> "APPROVED"]]
       ELSE UNCHANGED user
    /\ Answer(r)
    /\ UNCHANGED <<now, docs, token, bearer>>

(* An await throws or the pod dies; an open transaction rolls back.         *)
Drop(r) ==
    /\ pc[r] # "idle"
    /\ Answer(r)
    /\ UNCHANGED <<now, user, docs, token, bearer>>

Tick ==
    /\ now < MaxTime
    /\ now' = now + 1
    /\ UNCHANGED <<user, docs, token, bearer, pc, seen>>

----------------------------------------------------------------------------
Session(r) ==
    \/ \E u \in Users : Register(r, u) \/ Login(r, u)
    \/ InsertUser(r) \/ Rotate(r)
    \/ \E t \in Tokens : Refresh(r, t) \/ IssueTokens(r, t)
    \/ \E which \in {Tokens} \cup {{t} : t \in Tokens} : Logout(r, which)

Submission(r) ==
    \/ ReadKyc(r) \/ DeleteDocuments(r)
    \/ \E submitted \in SUBSET Documents : CommitKyc(r, submitted)

Administration(r) ==
    \/ \E verdict \in {"APPROVED", "REJECTED"} : ReviewKyc(r, verdict)
    \/ DeactivateUser(r) \/ KillTokens(r) \/ CreateBankStaff(r)

Serve(r) ==
    \/ \E u, v \in Users, p \in {"logout", "submit", "review", "deactivate", "staff"} :
         Admit(r, u, p, v)
    \/ Session(r) \/ Submission(r) \/ Administration(r) \/ Drop(r)

Next == (\E r \in Requests : Serve(r)) \/ Tick

Spec == Init /\ [][Next]_vars

----------------------------------------------------------------------------
(* Properties                                                              *)

RequestOK(r) ==
    /\ pc[r] # "idle" => seen[r].user # None
    /\ pc[r] = "rotate" => seen[r].token # None
    /\ seen[r].token # None => /\ token[seen[r].token] # NoToken
                               /\ token[seen[r].token].user = seen[r].user
    /\ pc[r] \in {"issue", "submit", "delete", "commit", "kill"} => user[seen[r].user] # NoUser

(* The columns hold what their declarations say; a token and a request that *)
(* goes beyond the lookup belong to a user that exists.                     *)
TypeOK ==
    /\ now \in Nat
    /\ user \in [Users -> UserType \cup {NoUser}]
    /\ docs \in [Users -> SUBSET Documents]
    /\ token \in [Tokens -> TokenType \cup {NoToken}]
    /\ bearer \subseteq Users
    /\ pc \in [Requests -> PCs]
    /\ seen \in [Requests -> SeenType]
    /\ \A u \in bearer : user[u] # NoUser
    /\ \A t \in Tokens : token[t] # NoToken => user[token[t].user] # NoUser
    /\ \A r \in Requests : RequestOK(r)

InFlight(u, where) == \E r \in Requests : pc[r] \in where /\ seen[r].user = u

(* jwt.strategy.ts:26-30 and admin.module.ts:205: once an account is closed *)
(* and what it had in flight is over, it stays closed, gets no new token    *)
(* and changes no document, even if the tokens were never killed.           *)
ClosedAndQuiet(u) ==
    /\ user[u] # NoUser /\ ~user[u].active
    /\ ~InFlight(u, {"rotate", "issue", "submit", "delete", "commit"})

TokensOf(u) == {t \in Tokens : token[t].user = u}

DeactivatedStaysOut ==
    [][\A u \in Users : ClosedAndQuiet(u) =>
         ClosedAndQuiet(u)' /\ TokensOf(u)' \subseteq TokensOf(u) /\ docs'[u] = docs[u]]_vars

(* auth.service.ts:101, "invalidate the old token, issue a new pair": a     *)
(* token with a successor is revoked, the successor is its owner's; and a   *)
(* token that is revoked, and that no refresh under way had found good,     *)
(* never gets a successor again.                                            *)
SuccessorReplaces ==
    \A t \in Tokens : LET p == token[t].from IN
        p # None => token[p].revoked /\ token[p].user = token[t].user

Spent(t) == token[t].revoked /\ \A r \in Requests : seen[r].token # t

Successors(t) == {s \in Tokens : token[s].from = t}

TokensRotate ==
    [][/\ SuccessorReplaces'
       /\ \A t \in Tokens : Spent(t) => Spent(t)' /\ Successors(t)' = Successors(t)]_vars

(* README.md:81, "rotating refresh tokens", auth.service.ts:101: a token is *)
(* exchanged once, also by refreshes that overlap.                          *)
OneSuccessor ==
    \A s, t \in Tokens : token[s].from # None /\ token[s].from = token[t].from => s = t

(* users.module.ts:69-71, "KYC is already approved": a submission that      *)
(* overlaps the review may undo it, but once that is over the documents of  *)
(* an approved user stay the ones on file, and only a review ends approval. *)
ApprovedAndQuiet(u) ==
    user[u].kyc = "APPROVED" /\ ~InFlight(u, {"delete", "commit"})

ApprovalSettles ==
    [][\A u \in Users : ApprovedAndQuiet(u) =>
         docs'[u] = docs[u] /\ (ApprovedAndQuiet(u)' \/ user'[u].kyc = "REJECTED")]_vars
============================================================================
