-------------------------- MODULE AccountsProofs --------------------------
(* What Accounts keeps for all users, tokens, documents and any number of   *)
(* requests in flight.                                                      *)
EXTENDS Accounts, TLAPS

LEMMA NoRows ==
    /\ NoUser \notin UserType /\ ~NoUser.active /\ NoUser.kyc # "APPROVED"
    /\ NoToken.user = None /\ NoToken.from = None /\ ~NoToken.revoked
    /\ Nothing \in SeenType /\ Nothing.user = None /\ Nothing.token = None
BY DEF NoUser, UserType, NoToken, Nothing, SeenType

(* A token that is a row has an owner; a row with an owner is a token.      *)
LEMMA TokenRows ==
    ASSUME TypeOK, NEW t \in Tokens
    PROVE  /\ token[t] # NoToken <=> token[t].user # None
           /\ token[t] # NoToken => token[t] \in TokenType /\ token[t].user \in Users
           /\ token[t].revoked => token[t] # NoToken
           /\ token[t].from # None => token[t] # NoToken /\ token[t].from \in Tokens
           /\ token[t].user \in Users \cup {None}
BY NoRows, AccountsAssumption DEF TypeOK, TokenType

(* What a step may do to the rows: no user and no token is ever forgotten,  *)
(* a token keeps its owner, its origin and its revocation.                  *)
TokenKept(t) ==
    /\ token'[t] # NoToken
    /\ token'[t].user = token[t].user /\ token'[t].from = token[t].from
    /\ token[t].revoked => token'[t].revoked

RowsKept ==
    /\ \A u \in Users : user[u] # NoUser => user'[u] # NoUser
    /\ \A t \in Tokens : token[t] # NoToken => TokenKept(t)

LEMMA KeptByUnchanged ==
    ASSUME UNCHANGED <<user, token>> PROVE RowsKept
BY DEF RowsKept, TokenKept

LEMMA RevokeTyped ==
    ASSUME TypeOK, NEW u \in Users, NEW which, Revoke(u, which)
    PROVE  /\ token' \in [Tokens -> TokenType \cup {NoToken}]
           /\ \A t \in Tokens : /\ token[t] # NoToken => TokenKept(t)
                                /\ token[t] = NoToken => token'[t] = NoToken
<1>1. ASSUME NEW t \in Tokens
      PROVE  /\ token'[t] \in TokenType \cup {NoToken}
             /\ token[t] # NoToken => TokenKept(t)
             /\ token[t] = NoToken => token'[t] = NoToken
  <2>1. CASE t \in which /\ token[t].user = u
    <3>1. token[t] \in TokenType /\ token[t] # NoToken
      BY <2>1, TokenRows, AccountsAssumption
    <3>2. token'[t] = [token[t] EXCEPT !.revoked = TRUE]
      BY <2>1 DEF Revoke
    <3>3. token'[t] \in TokenType
      BY <3>1, <3>2 DEF TokenType
    <3>4. token'[t].user = token[t].user /\ token[t].user # None
      BY <2>1, <3>1, <3>2, AccountsAssumption DEF TokenType
    <3>5. token'[t] # NoToken
      BY <3>4, NoRows
    <3>6. token'[t].from = token[t].from /\ token'[t].revoked
      BY <3>1, <3>2 DEF TokenType
    <3>7. QED BY <3>1, <3>3, <3>4, <3>5, <3>6 DEF TokenKept
  <2>2. CASE ~(t \in which /\ token[t].user = u)
    BY <2>2 DEF Revoke, TypeOK, TokenKept
  <2>3. QED BY <2>1, <2>2
<1>2. token' = [t \in Tokens |-> token'[t]]
  BY DEF Revoke
<1>3. QED BY <1>1, <1>2

(* How a request moves on: the others stay as they are.                     *)
LEMMA Moved ==
    ASSUME TypeOK, NEW r \in Requests, NEW p \in PCs, NEW s \in SeenType, Goto(r, p, s)
    PROVE  /\ pc' \in [Requests -> PCs] /\ seen' \in [Requests -> SeenType]
           /\ pc'[r] = p /\ seen'[r] = s
           /\ \A q \in Requests \ {r} : pc'[q] = pc[q] /\ seen'[q] = seen[q]
BY DEF TypeOK, Goto

(* Requests keep what they rest on when one of them moves.                  *)
LEMMA RequestsOK ==
    ASSUME TypeOK, RowsKept, NEW r \in Requests, NEW p \in PCs, NEW s \in SeenType,
           Goto(r, p, s),
           p # "idle" => s.user # None,
           p = "rotate" => s.token # None,
           s.token # None => token[s.token] # NoToken /\ token[s.token].user = s.user,
           p \in {"issue", "submit", "delete", "commit", "kill"} => user'[s.user] # NoUser
    PROVE  /\ pc' \in [Requests -> PCs] /\ seen' \in [Requests -> SeenType]
           /\ \A q \in Requests : RequestOK(q)'
<1>1. /\ pc' \in [Requests -> PCs] /\ seen' \in [Requests -> SeenType]
      /\ pc'[r] = p /\ seen'[r] = s
      /\ \A q \in Requests \ {r} : pc'[q] = pc[q] /\ seen'[q] = seen[q]
  BY Moved
<1>2. ASSUME NEW q \in Requests, q # r PROVE RequestOK(q)'
  <2>1. seen[q] \in SeenType /\ RequestOK(q) /\ pc'[q] = pc[q] /\ seen'[q] = seen[q]
    BY <1>1, <1>2 DEF TypeOK
  <2>2. ASSUME seen[q].token # None
        PROVE  token'[seen[q].token] # NoToken /\ token'[seen[q].token].user = seen[q].user
    <3>1. seen[q].token \in Tokens /\ token[seen[q].token] # NoToken
          /\ token[seen[q].token].user = seen[q].user
      BY <2>1, <2>2 DEF RequestOK, SeenType
    <3>2. QED BY <3>1 DEF RowsKept, TokenKept
  <2>3. QED BY <2>1, <2>2 DEF RequestOK, RowsKept, SeenType
<1>3. RequestOK(r)'
  <2>1. s.token # None => token'[s.token] # NoToken /\ token'[s.token].user = s.user
    BY DEF RowsKept, TokenKept, SeenType
  <2>2. QED BY <1>1, <2>1 DEF RequestOK
<1>4. QED BY <1>1, <1>2, <1>3

(* The same for a request that ends: nothing is asked of it.                *)
LEMMA AnswerOK ==
    ASSUME TypeOK, RowsKept, NEW r \in Requests, Answer(r)
    PROVE  /\ pc' \in [Requests -> PCs] /\ seen' \in [Requests -> SeenType]
           /\ \A q \in Requests : RequestOK(q)'
BY RequestsOK, NoRows DEF Answer, PCs

(* What a request in flight has in hand.                                    *)
LEMMA InHand ==
    ASSUME TypeOK, NEW r \in Requests
    PROVE  /\ seen[r] \in SeenType
           /\ pc[r] # "idle" => seen[r].user \in Users
           /\ pc[r] = "rotate" => seen[r].token \in Tokens
           /\ seen[r].token # None => /\ seen[r].token \in Tokens
                                      /\ token[seen[r].token] # NoToken
                                      /\ token[seen[r].token].user = seen[r].user
           /\ pc[r] \in {"issue", "submit", "delete", "commit", "kill"} => user[seen[r].user] # NoUser
BY DEF TypeOK, RequestOK, SeenType

LEMMA AboutTyped ==
    ASSUME NEW u \in Users
    PROVE  About(u) \in SeenType /\ About(u).user = u /\ About(u).token = None
BY DEF About, Nothing, SeenType

(* A change of a user's row that leaves a row is all that matters to others. *)
LEMMA UserChanged ==
    ASSUME TypeOK, NEW u \in Users, NEW row \in UserType,
           user' = [user EXCEPT ![u] = row], UNCHANGED token
    PROVE  /\ user' \in [Users -> UserType \cup {NoUser}] /\ user'[u] = row /\ user'[u] # NoUser
           /\ \A v \in Users \ {u} : user'[v] = user[v]
           /\ RowsKept
BY NoRows DEF TypeOK, RowsKept, TokenKept

(* Type correctness: rows and requests in flight are well typed, and what a *)
(* request works on exists.                                                 *)
THEOREM TypeCorrect == Spec => []TypeOK
<1> USE AccountsAssumption
<1>1. Init => TypeOK
  <2> SUFFICES ASSUME Init PROVE TypeOK
    OBVIOUS
  <2>1. user \in [Users -> UserType \cup {NoUser}]
    BY DEF Init, UserType, Kyc
  <2>2. \A u \in bearer : user[u] # NoUser
    <3>1. [role |-> "ADMIN", active |-> TRUE, kyc |-> "APPROVED"] # NoUser
      BY DEF NoUser
    <3>2. QED BY <3>1 DEF Init
  <2>3. \A r \in Requests : RequestOK(r)
    BY NoRows DEF Init, RequestOK
  <2>4. QED BY <2>1, <2>2, <2>3, NoRows DEF Init, TypeOK, PCs
<1>2. TypeOK /\ [Next]_vars => TypeOK'
  <2> SUFFICES ASSUME TypeOK, [Next]_vars PROVE TypeOK'
    OBVIOUS
  <2> DEFINE Typed == /\ user' \in [Users -> UserType \cup {NoUser}]
                      /\ token' \in [Tokens -> TokenType \cup {NoToken}]
             Owned == /\ \A u \in bearer' : user'[u] # NoUser
                      /\ \A t \in Tokens : token'[t] # NoToken => user'[token'[t].user] # NoUser
  <2>1. ASSUME UNCHANGED <<user, token>>
        PROVE  Typed /\ RowsKept /\ (bearer' = bearer => Owned)
    BY <2>1, KeptByUnchanged DEF TypeOK
  <2>2. ASSUME NEW u \in Users, NEW row \in UserType, user' = [user EXCEPT ![u] = row],
               UNCHANGED <<token, bearer>>
        PROVE  Typed /\ RowsKept /\ Owned /\ user'[u] # NoUser
    <3>1. RowsKept /\ user' \in [Users -> UserType \cup {NoUser}] /\ user'[u] # NoUser
      BY <2>2, UserChanged
    <3>2. Owned
      BY <2>2, <3>1, TokenRows DEF RowsKept, TypeOK
    <3>3. QED BY <2>2, <3>1, <3>2 DEF TypeOK
  <2>3. ASSUME NEW u \in Users, NEW which, Revoke(u, which), UNCHANGED <<user, bearer>>
        PROVE  Typed /\ RowsKept /\ Owned
    <3>1. /\ token' \in [Tokens -> TokenType \cup {NoToken}]
          /\ \A t \in Tokens : /\ token[t] # NoToken => TokenKept(t)
                               /\ token[t] = NoToken => token'[t] = NoToken
      BY <2>3, RevokeTyped
    <3>2. RowsKept
      BY <2>3, <3>1 DEF RowsKept
    <3>3. Owned
      BY <2>3, <3>1 DEF TokenKept, TypeOK
    <3>4. QED BY <2>3, <3>1, <3>2, <3>3 DEF TypeOK
  <2>4. ASSUME NEW r \in Requests, NEW u \in Users, Register(r, u) PROVE TypeOK'
    <3>1. Goto(r, "insert", About(u)) /\ RowsKept /\ Typed /\ Owned
      BY <2>4, <2>1 DEF Register
    <3>2. QED BY <2>4, <3>1, AboutTyped, RequestsOK DEF TypeOK, Register, PCs
  <2>5. ASSUME NEW r \in Requests, InsertUser(r) PROVE TypeOK'
    <3> DEFINE u == seen[r].user
               row == [role |-> "BUYER", active |-> TRUE, kyc |-> "NOT_SUBMITTED"]
    <3>1. pc[r] = "insert" /\ u \in Users /\ seen[r] \in SeenType
      BY <2>5, InHand DEF InsertUser
    <3>2. CASE user[u] = NoUser
      <4>1. row \in UserType
        BY DEF UserType, Kyc
      <4>2. user' = [user EXCEPT ![u] = row] /\ UNCHANGED <<token, bearer>>
        BY <2>5, <3>2 DEF InsertUser
      <4>3. Typed /\ RowsKept /\ Owned /\ user'[u] # NoUser
        BY <2>2, <3>1, <4>1, <4>2
      <4>4. Goto(r, "issue", seen[r])
        BY <2>5, <3>2 DEF InsertUser
      <4>5. QED BY <2>5, <3>1, <4>3, <4>4, InHand, RequestsOK DEF TypeOK, InsertUser, PCs
    <3>3. CASE user[u] # NoUser
      BY <2>1, <2>5, <3>3, AnswerOK DEF InsertUser, TypeOK
    <3>4. QED BY <3>2, <3>3
  <2>6. ASSUME NEW r \in Requests, NEW u \in Users, Login(r, u) PROVE TypeOK'
    <3>1. Goto(r, "issue", About(u)) /\ RowsKept /\ Typed /\ Owned /\ user'[u] # NoUser
      BY <2>6, <2>1, NoRows DEF Login
    <3>2. QED BY <2>6, <3>1, AboutTyped, RequestsOK DEF TypeOK, Login, PCs
  <2>7. ASSUME NEW r \in Requests, NEW t \in Tokens, Refresh(r, t) PROVE TypeOK'
    <3> DEFINE s == [user |-> token[t].user, token |-> t, docs |-> {}]
    <3>1. token[t] # NoToken /\ token[t].user \in Users
      BY <2>7, TokenRows DEF Refresh, Honoured
    <3>2. s \in SeenType /\ s.user = token[t].user /\ s.token = t
      BY <3>1 DEF SeenType
    <3> HIDE DEF s
    <3>3. Goto(r, "rotate", s) /\ RowsKept /\ Typed /\ Owned
      BY <2>7, <2>1 DEF Refresh, s
    <3>4. QED BY <2>7, <3>1, <3>2, <3>3, RequestsOK DEF TypeOK, Refresh, PCs
  <2>8. ASSUME NEW r \in Requests, Rotate(r) PROVE TypeOK'
    <3> DEFINE t == seen[r].token
               row == [token[t] EXCEPT !.revoked = TRUE]
    <3>1. t \in Tokens /\ token[t] \in TokenType /\ token[t].user = seen[r].user
          /\ seen[r].user \in Users /\ pc[r] = "rotate" /\ seen[r] \in SeenType
          /\ token[t] # NoToken /\ user[seen[r].user] # NoUser
      BY <2>8, InHand, TokenRows DEF Rotate, TypeOK
    <3>2. row \in TokenType /\ row.user = token[t].user /\ row.from = token[t].from /\ row.revoked
      BY <3>1 DEF TokenType
    <3>3. token' = [token EXCEPT ![t] = row]
      BY <2>8 DEF Rotate
    <3>4. row # NoToken
      BY <3>1, <3>2, NoRows
    <3> HIDE DEF row, t
    <3>5. token'[t] = row /\ (\A x \in Tokens \ {t} : token'[x] = token[x])
          /\ token' \in [Tokens -> TokenType \cup {NoToken}]
      BY <3>1, <3>2, <3>3 DEF TypeOK
    <3>6. RowsKept /\ Owned /\ Typed
      <4>1. user' = user /\ bearer' = bearer
        BY <2>8 DEF Rotate
      <4>2. RowsKept
        <5>1. ASSUME NEW x \in Tokens, token[x] # NoToken PROVE TokenKept(x)
          <6>1. CASE x = t
            BY <3>1, <3>2, <3>4, <3>5, <6>1 DEF TokenKept
          <6>2. CASE x # t
            BY <3>5, <5>1, <6>2 DEF TokenKept
          <6>3. QED BY <6>1, <6>2
        <5>2. QED BY <4>1, <5>1 DEF RowsKept
      <4>3. Owned
        BY <3>1, <3>2, <3>5, <4>1 DEF TypeOK
      <4>4. Typed
        BY <3>5, <4>1 DEF TypeOK
      <4>5. QED BY <4>2, <4>3, <4>4
    <3>7. Goto(r, "issue", seen[r]) /\ user' = user
      BY <2>8 DEF Rotate
    <3>8. QED BY <2>8, <3>1, <3>6, <3>7, RequestsOK DEF TypeOK, Rotate, PCs, t
  <2>9. ASSUME NEW r \in Requests, NEW t \in Tokens, IssueTokens(r, t) PROVE TypeOK'
    <3> DEFINE row == [user |-> seen[r].user, until |-> now + RefreshTime, revoked |-> FALSE,
                       from |-> seen[r].token]
    <3>1. seen[r] \in SeenType /\ seen[r].user \in Users /\ user[seen[r].user] # NoUser
      BY <2>9, InHand DEF IssueTokens
    <3>2. row \in TokenType /\ row.user = seen[r].user /\ row # NoToken
      BY <3>1, NoRows DEF TokenType, SeenType, TypeOK
    <3>3. token' = [token EXCEPT ![t] = row] /\ token[t] = NoToken
      BY <2>9 DEF IssueTokens
    <3> HIDE DEF row
    <3>4. token'[t] = row /\ (\A x \in Tokens \ {t} : token'[x] = token[x])
          /\ token' \in [Tokens -> TokenType \cup {NoToken}]
      BY <3>2, <3>3 DEF TypeOK
    <3>5. RowsKept
      BY <2>9, <3>3, <3>4 DEF RowsKept, TokenKept, IssueTokens
    <3>6. Owned /\ Typed /\ bearer' \subseteq Users
      BY <2>9, <3>1, <3>2, <3>4 DEF TypeOK, IssueTokens
    <3>7. Answer(r)
      BY <2>9 DEF IssueTokens
    <3>8. QED BY <2>9, <3>5, <3>6, <3>7, AnswerOK DEF TypeOK, IssueTokens
  <2>10. ASSUME NEW r \in Requests, NEW u \in Users, NEW v \in Users,
                NEW p \in {"logout", "submit", "review", "deactivate", "staff"}, Admit(r, u, p, v)
         PROVE  TypeOK'
    <3>1. Goto(r, p, About(v)) /\ RowsKept /\ Typed /\ Owned /\ p \in PCs
      BY <2>10, <2>1 DEF Admit, PCs
    <3>2. p \notin {"idle", "rotate", "issue", "delete", "commit", "kill"}
      OBVIOUS
    <3>3. p = "submit" => user'[v] # NoUser
      BY <2>10, NoRows DEF Admit, Authenticated
    <3>4. QED BY <2>10, <3>1, <3>2, <3>3, AboutTyped, RequestsOK DEF TypeOK, Admit
  <2>11. ASSUME NEW r \in Requests, NEW which, Logout(r, which) PROVE TypeOK'
    <3>1. seen[r].user \in Users
      BY <2>11, InHand DEF Logout
    <3>2. Typed /\ RowsKept /\ Owned
      BY <2>3, <2>11, <3>1 DEF Logout
    <3>3. QED BY <2>11, <3>2, AnswerOK DEF TypeOK, Logout
  <2>12. ASSUME NEW r \in Requests, ReadKyc(r) PROVE TypeOK'
    <3>1. seen[r] \in SeenType /\ seen[r].user \in Users /\ pc[r] = "submit"
      BY <2>12, InHand DEF ReadKyc
    <3>2. RowsKept /\ Typed /\ Owned
      BY <2>12, <2>1 DEF ReadKyc
    <3>3. CASE Answer(r)
      BY <2>12, <3>2, <3>3, AnswerOK DEF TypeOK, ReadKyc
    <3>4. CASE Goto(r, "delete", seen[r])
      BY <2>12, <3>1, <3>2, <3>4, InHand, RequestsOK DEF TypeOK, ReadKyc, PCs
    <3>5. QED BY <2>12, <3>3, <3>4 DEF ReadKyc
  <2>13. ASSUME NEW r \in Requests, DeleteDocuments(r) PROVE TypeOK'
    <3> DEFINE s == [seen[r] EXCEPT !.docs = docs[seen[r].user]]
    <3>1. seen[r] \in SeenType /\ seen[r].user \in Users
      BY <2>13, InHand DEF DeleteDocuments
    <3>2. s \in SeenType /\ s.user = seen[r].user /\ s.token = seen[r].token
      BY <3>1 DEF SeenType, TypeOK
    <3> HIDE DEF s
    <3>3. Goto(r, "commit", s) /\ RowsKept /\ Typed /\ Owned
      BY <2>13, <2>1 DEF DeleteDocuments, s
    <3>4. user'[s.user] # NoUser /\ pc[r] = "delete"
      BY <2>13, <3>2, InHand DEF DeleteDocuments
    <3>5. QED BY <2>13, <3>1, <3>2, <3>3, <3>4, InHand, RequestsOK DEF TypeOK, DeleteDocuments, PCs
  <2>14. ASSUME NEW r \in Requests, NEW submitted \in SUBSET Documents, CommitKyc(r, submitted)
         PROVE  TypeOK'
    <3> DEFINE u == seen[r].user
               row == [user[u] EXCEPT !.kyc = "PENDING"]
    <3>1. u \in Users /\ user[u] \in UserType
      BY <2>14, InHand DEF CommitKyc, TypeOK
    <3>2. row \in UserType
      BY <3>1 DEF UserType, Kyc
    <3>3. user' = [user EXCEPT ![u] = row] /\ UNCHANGED <<token, bearer>>
      BY <2>14 DEF CommitKyc
    <3>4. docs' \in [Users -> SUBSET Documents]
      BY <2>14, <3>1 DEF CommitKyc, TypeOK
    <3> HIDE DEF row, u
    <3>5. Typed /\ RowsKept /\ Owned
      BY <2>2, <3>1, <3>2, <3>3
    <3>6. QED BY <2>14, <3>4, <3>5, AnswerOK DEF TypeOK, CommitKyc
  <2>15. ASSUME NEW r \in Requests, NEW verdict \in {"APPROVED", "REJECTED"}, ReviewKyc(r, verdict)
         PROVE  TypeOK'
    <3> DEFINE u == seen[r].user
               row == [user[u] EXCEPT !.kyc = verdict]
    <3>1. u \in Users
      BY <2>15, InHand DEF ReviewKyc
    <3>2. CASE user[u] = NoUser
      BY <2>1, <2>15, <3>2, AnswerOK DEF ReviewKyc, TypeOK
    <3>3. CASE user[u] # NoUser
      <4>1. user[u] \in UserType
        BY <3>1, <3>3 DEF TypeOK
      <4>2. row \in UserType
        BY <4>1 DEF UserType, Kyc
      <4>3. user' = [user EXCEPT ![u] = row] /\ UNCHANGED <<token, bearer>>
        BY <2>15, <3>3 DEF ReviewKyc
      <4> HIDE DEF row, u
      <4>4. Typed /\ RowsKept /\ Owned
        BY <2>2, <3>1, <4>2, <4>3
      <4>5. QED BY <2>15, <4>4, AnswerOK DEF TypeOK, ReviewKyc
    <3>4. QED BY <3>2, <3>3
  <2>16. ASSUME NEW r \in Requests, DeactivateUser(r) PROVE TypeOK'
    <3> DEFINE u == seen[r].user
               row == [user[u] EXCEPT !.active = FALSE]
    <3>1. u \in Users /\ seen[r] \in SeenType /\ pc[r] = "deactivate"
      BY <2>16, InHand DEF DeactivateUser
    <3>2. CASE user[u] = NoUser
      BY <2>1, <2>16, <3>2, AnswerOK DEF DeactivateUser, TypeOK
    <3>3. CASE user[u] # NoUser
      <4>1. user[u] \in UserType
        BY <3>1, <3>3 DEF TypeOK
      <4>2. row \in UserType
        BY <4>1 DEF UserType, Kyc
      <4>3. user' = [user EXCEPT ![u] = row] /\ UNCHANGED <<token, bearer>>
        BY <2>16, <3>3 DEF DeactivateUser
      <4> HIDE DEF row
      <4>4. Typed /\ RowsKept /\ Owned /\ user'[u] # NoUser
        BY <2>2, <3>1, <4>2, <4>3
      <4>5. Goto(r, "kill", seen[r])
        BY <2>16, <3>3 DEF DeactivateUser
      <4>6. QED BY <2>16, <3>1, <4>4, <4>5, InHand, RequestsOK DEF TypeOK, DeactivateUser, PCs
    <3>4. QED BY <3>2, <3>3
  <2>17. ASSUME NEW r \in Requests, KillTokens(r) PROVE TypeOK'
    <3>1. seen[r].user \in Users
      BY <2>17, InHand DEF KillTokens
    <3>2. Typed /\ RowsKept /\ Owned
      BY <2>3, <2>17, <3>1 DEF KillTokens
    <3>3. QED BY <2>17, <3>2, AnswerOK DEF TypeOK, KillTokens
  <2>18. ASSUME NEW r \in Requests, CreateBankStaff(r) PROVE TypeOK'
    <3> DEFINE u == seen[r].user
               row == [role |-> "BANK_STAFF", active |-> TRUE, kyc |-> "APPROVED"]
    <3>1. u \in Users
      BY <2>18, InHand DEF CreateBankStaff
    <3>2. CASE user[u] # NoUser
      BY <2>1, <2>18, <3>2, AnswerOK DEF CreateBankStaff, TypeOK
    <3>3. CASE user[u] = NoUser
      <4>1. row \in UserType
        BY DEF UserType, Kyc
      <4>2. user' = [user EXCEPT ![u] = row] /\ UNCHANGED <<token, bearer>>
        BY <2>18, <3>3 DEF CreateBankStaff
      <4>3. Typed /\ RowsKept /\ Owned
        BY <2>2, <3>1, <4>1, <4>2
      <4>4. QED BY <2>18, <4>3, AnswerOK DEF TypeOK, CreateBankStaff
    <3>4. QED BY <3>2, <3>3
  <2>19. ASSUME NEW r \in Requests, Drop(r) PROVE TypeOK'
    BY <2>1, <2>19, AnswerOK DEF TypeOK, Drop
  <2>20. CASE Tick
    BY <2>20 DEF Tick, TypeOK, RequestOK
  <2>21. CASE UNCHANGED vars
    BY <2>21 DEF vars, TypeOK, RequestOK
  <2>22. QED
    BY <2>4, <2>5, <2>6, <2>7, <2>8, <2>9, <2>10, <2>11, <2>12, <2>13, <2>14, <2>15, <2>16,
       <2>17, <2>18, <2>19, <2>20, <2>21
    DEF Next, Serve, Session, Submission, Administration
<1>3. QED BY <1>1, <1>2, PTL DEF Spec

----------------------------------------------------------------------------
(* Deactivation. A closed account has no request that could bring in a new  *)
(* token or document, and no new one passes the gate.                       *)
THEOREM DeactivatedCorrect == Spec => DeactivatedStaysOut
<1>1. TypeOK /\ [Next]_vars =>
        [\A u \in Users : ClosedAndQuiet(u) =>
           ClosedAndQuiet(u)' /\ TokensOf(u)' \subseteq TokensOf(u) /\ docs'[u] = docs[u]]_vars
  <2> SUFFICES ASSUME TypeOK, Next, NEW u \in Users, ClosedAndQuiet(u)
               PROVE  ClosedAndQuiet(u)' /\ TokensOf(u)' \subseteq TokensOf(u) /\ docs'[u] = docs[u]
    BY DEF vars
  <2> DEFINE Risky == {"rotate", "issue", "submit", "delete", "commit"}
             Closed == user'[u] # NoUser /\ ~user'[u].active
             Quiet == \A q \in Requests : pc'[q] \in Risky => seen'[q].user # u
             Kept == TokensOf(u)' \subseteq TokensOf(u) /\ docs'[u] = docs[u]
  <2>1. /\ user[u] \in UserType /\ user[u] # NoUser /\ ~user[u].active
        /\ \A q \in Requests : pc[q] \in Risky => seen[q].user # u
    BY DEF ClosedAndQuiet, InFlight, TypeOK
  <2> SUFFICES Closed /\ Quiet /\ Kept
    BY DEF ClosedAndQuiet, InFlight
  <2>2. ASSUME NEW r \in Requests, NEW p \in PCs, NEW s \in SeenType, Goto(r, p, s),
               p \in Risky => s.user # u
        PROVE  Quiet
    BY <2>1, <2>2, Moved
  <2>3. ASSUME NEW r \in Requests, Answer(r) PROVE Quiet
    <3>1. Goto(r, "idle", Nothing) /\ "idle" \in PCs
      BY <2>3 DEF Answer, PCs
    <3>2. QED BY <2>2, <3>1, NoRows
  <2>4. UNCHANGED user => Closed
    BY <2>1
  <2>5. UNCHANGED <<token, docs>> => Kept
    BY DEF TokensOf
  <2>6. ASSUME NEW v \in Users, NEW which, Revoke(v, which)
        PROVE  TokensOf(u)' \subseteq TokensOf(u)
    BY <2>6, TokenRows, NoRows, RevokeTyped, AccountsAssumption DEF TokensOf, TokenKept
  <2>7. ASSUME NEW r \in Requests, NEW v \in Users, Register(r, v) PROVE Closed /\ Quiet /\ Kept
    BY <2>2, <2>4, <2>5, <2>7, AboutTyped DEF Register, PCs
  <2>8. ASSUME NEW r \in Requests, InsertUser(r) PROVE Closed /\ Quiet /\ Kept
    <3>1. seen[r] \in SeenType /\ seen[r].user \in Users
      BY <2>8, InHand DEF InsertUser
    <3>2. CASE user[seen[r].user] = NoUser
      <4>1. seen[r].user # u /\ Goto(r, "issue", seen[r])
        BY <2>1, <2>8, <3>2 DEF InsertUser
      <4>2. Quiet
        BY <2>2, <3>1, <4>1 DEF PCs
      <4>3. user'[u] = user[u]
        BY <2>8, <3>2, <4>1 DEF InsertUser, TypeOK
      <4>4. QED BY <2>1, <2>5, <2>8, <4>2, <4>3 DEF InsertUser
    <3>3. CASE user[seen[r].user] # NoUser
      BY <2>3, <2>4, <2>5, <2>8, <3>3 DEF InsertUser
    <3>4. QED BY <3>2, <3>3
  <2>9. ASSUME NEW r \in Requests, NEW v \in Users, Login(r, v) PROVE Closed /\ Quiet /\ Kept
    BY <2>1, <2>2, <2>4, <2>5, <2>9, AboutTyped DEF Login, PCs
  <2>10. ASSUME NEW r \in Requests, NEW t \in Tokens, Refresh(r, t) PROVE Closed /\ Quiet /\ Kept
    <3> DEFINE s == [user |-> token[t].user, token |-> t, docs |-> {}]
    <3>1. token[t].user \in Users /\ token[t].user # u
      BY <2>1, <2>10, TokenRows DEF Refresh, Honoured
    <3>2. s \in SeenType /\ s.user # u
      BY <3>1 DEF SeenType
    <3> HIDE DEF s
    <3>3. Goto(r, "rotate", s)
      BY <2>10 DEF Refresh, s
    <3>4. QED BY <2>2, <2>4, <2>5, <2>10, <3>2, <3>3 DEF Refresh, PCs
  <2>11. ASSUME NEW r \in Requests, Rotate(r) PROVE Closed /\ Quiet /\ Kept
    <3>1. seen[r] \in SeenType /\ seen[r].user # u /\ seen[r].token \in Tokens
          /\ token[seen[r].token].user = seen[r].user /\ pc[r] = "rotate"
          /\ token[seen[r].token] \in TokenType
      <4>1. pc[r] = "rotate" /\ pc[r] # "idle"
        BY <2>11 DEF Rotate
      <4>2. seen[r] \in SeenType /\ seen[r].user # u /\ seen[r].token \in Tokens
            /\ seen[r].token # None
        BY <2>1, <4>1, InHand, AccountsAssumption
      <4>3. token[seen[r].token] # NoToken /\ token[seen[r].token].user = seen[r].user
        BY <4>2, InHand
      <4>4. QED BY <4>1, <4>2, <4>3, TokenRows
    <3>2. Quiet
      BY <2>2, <2>11, <3>1 DEF Rotate, PCs
    <3>3. TokensOf(u)' \subseteq TokensOf(u)
      BY <2>11, <3>1 DEF Rotate, TokensOf, TypeOK, TokenType
    <3>4. QED BY <2>4, <2>11, <3>2, <3>3 DEF Rotate
  <2>12. ASSUME NEW r \in Requests, NEW t \in Tokens, IssueTokens(r, t) PROVE Closed /\ Quiet /\ Kept
    <3>1. seen[r].user # u
      BY <2>1, <2>12 DEF IssueTokens
    <3>2. TokensOf(u)' \subseteq TokensOf(u)
      BY <2>12, <3>1 DEF IssueTokens, TokensOf, TypeOK
    <3>3. QED BY <2>3, <2>4, <2>12, <3>2 DEF IssueTokens
  <2>13. ASSUME NEW r \in Requests, NEW w \in Users, NEW v \in Users,
                NEW p \in {"logout", "submit", "review", "deactivate", "staff"}, Admit(r, w, p, v)
         PROVE  Closed /\ Quiet /\ Kept
    <3>1. p \in PCs /\ (p \in Risky => v # u)
      BY <2>1, <2>13 DEF Admit, Authenticated, PCs
    <3>2. QED BY <2>2, <2>4, <2>5, <2>13, <3>1, AboutTyped DEF Admit
  <2>14. ASSUME NEW r \in Requests, NEW which, Logout(r, which) PROVE Closed /\ Quiet /\ Kept
    BY <2>3, <2>4, <2>6, <2>14, InHand DEF Logout
  <2>15. ASSUME NEW r \in Requests, ReadKyc(r) PROVE Closed /\ Quiet /\ Kept
    <3>1. seen[r].user # u /\ seen[r] \in SeenType /\ (Answer(r) \/ Goto(r, "delete", seen[r]))
      BY <2>1, <2>15, InHand DEF ReadKyc
    <3>2. QED BY <2>2, <2>3, <2>4, <2>5, <2>15, <3>1 DEF ReadKyc, PCs
  <2>16. ASSUME NEW r \in Requests, DeleteDocuments(r) PROVE Closed /\ Quiet /\ Kept
    <3> DEFINE s == [seen[r] EXCEPT !.docs = docs[seen[r].user]]
    <3>1. seen[r] \in SeenType /\ seen[r].user \in Users /\ seen[r].user # u
      BY <2>1, <2>16, InHand DEF DeleteDocuments
    <3>2. s \in SeenType /\ s.user # u
      BY <3>1 DEF SeenType, TypeOK
    <3> HIDE DEF s
    <3>3. Goto(r, "commit", s)
      BY <2>16 DEF DeleteDocuments, s
    <3>4. QED BY <2>2, <2>4, <2>5, <2>16, <3>2, <3>3 DEF DeleteDocuments, PCs
  <2>17. ASSUME NEW r \in Requests, NEW submitted \in SUBSET Documents, CommitKyc(r, submitted)
         PROVE  Closed /\ Quiet /\ Kept
    <3>1. seen[r].user # u /\ seen[r].user \in Users
      BY <2>1, <2>17, InHand DEF CommitKyc
    <3>2. user'[u] = user[u] /\ docs'[u] = docs[u]
      BY <2>17, <3>1 DEF CommitKyc, TypeOK
    <3>3. QED BY <2>1, <2>3, <2>17, <3>2 DEF CommitKyc, TokensOf
  <2>18. ASSUME NEW r \in Requests, NEW verdict \in {"APPROVED", "REJECTED"}, ReviewKyc(r, verdict)
         PROVE  Closed /\ Quiet /\ Kept
    <3>1. user'[u].active = user[u].active /\ user'[u] \in UserType
      BY <2>1, <2>18 DEF ReviewKyc, TypeOK, UserType, Kyc
    <3>2. QED BY <2>1, <2>3, <2>5, <2>18, <3>1, NoRows DEF ReviewKyc
  <2>19. ASSUME NEW r \in Requests, DeactivateUser(r) PROVE Closed /\ Quiet /\ Kept
    <3>1. ~user'[u].active /\ user'[u] \in UserType
      <4>1. CASE user' = user
        BY <2>1, <4>1
      <4>2. CASE user' = [user EXCEPT ![seen[r].user].active = FALSE]
        BY <2>1, <4>2 DEF TypeOK, UserType
      <4>3. QED BY <2>19, <4>1, <4>2 DEF DeactivateUser
    <3>2. Quiet
      BY <2>2, <2>3, <2>19, InHand DEF DeactivateUser, PCs
    <3>3. QED BY <2>5, <2>19, <3>1, <3>2, NoRows DEF DeactivateUser
  <2>20. ASSUME NEW r \in Requests, KillTokens(r) PROVE Closed /\ Quiet /\ Kept
    BY <2>3, <2>4, <2>6, <2>20, InHand DEF KillTokens
  <2>21. ASSUME NEW r \in Requests, CreateBankStaff(r) PROVE Closed /\ Quiet /\ Kept
    <3>1. user'[u] = user[u]
      BY <2>1, <2>21 DEF CreateBankStaff, TypeOK
    <3>2. QED BY <2>1, <2>3, <2>5, <2>21, <3>1 DEF CreateBankStaff
  <2>22. ASSUME NEW r \in Requests, Drop(r) PROVE Closed /\ Quiet /\ Kept
    BY <2>3, <2>4, <2>5, <2>22 DEF Drop
  <2>23. CASE Tick
    BY <2>1, <2>4, <2>5, <2>23 DEF Tick
  <2>24. QED
    BY <2>7, <2>8, <2>9, <2>10, <2>11, <2>12, <2>13, <2>14, <2>15, <2>16, <2>17, <2>18, <2>19,
       <2>20, <2>21, <2>22, <2>23
    DEF Next, Serve, Session, Submission, Administration
<1>2. QED BY <1>1, TypeCorrect, PTL DEF Spec, DeactivatedStaysOut

----------------------------------------------------------------------------
(* Rotation. Whoever is about to issue a successor has revoked the token it *)
(* replaces, and only a refresh has one in hand.                            *)
Handed(r) ==
    seen[r].token # None =>
      /\ pc[r] \in {"rotate", "issue"}
      /\ pc[r] = "issue" => token[seen[r].token].revoked

Rotation == (\A r \in Requests : Handed(r)) /\ SuccessorReplaces

(* A step that issues no token leaves the successors alone.                 *)
NoneIssued ==
    \A t \in Tokens : /\ token[t] # NoToken => TokenKept(t)
                      /\ token[t] = NoToken => token'[t] = NoToken

LEMMA NoneIssuedKeeps ==
    ASSUME TypeOK, Rotation, NoneIssued, NEW r \in Requests, NEW p \in PCs, NEW s \in SeenType,
           Goto(r, p, s),
           s = seen[r] \/ (s.token # None => token[s.token] # NoToken /\ ~token[s.token].revoked),
           s.token # None => p \in {"rotate", "issue"},
           s.token # None /\ p = "issue" => token'[s.token].revoked
    PROVE  /\ Rotation'
           /\ \A t \in Tokens : Spent(t) => Spent(t)' /\ Successors(t)' = Successors(t)
<1>1. /\ pc'[r] = p /\ seen'[r] = s /\ seen' \in [Requests -> SeenType]
      /\ \A q \in Requests \ {r} : pc'[q] = pc[q] /\ seen'[q] = seen[q]
  BY Moved
<1>2. ASSUME NEW t \in Tokens
      PROVE  /\ token'[t].user = token[t].user /\ token'[t].from = token[t].from
             /\ token[t].revoked => token'[t].revoked
  BY NoRows DEF NoneIssued, TokenKept
<1>3. ASSUME NEW q \in Requests PROVE Handed(q)'
  <2>1. CASE q = r
    BY <1>1, <2>1 DEF Handed
  <2>2. CASE q # r
    BY <1>1, <1>2, <2>2, InHand DEF Handed, Rotation
  <2>3. QED BY <2>1, <2>2
<1>4. SuccessorReplaces'
  BY <1>2, TokenRows DEF Rotation, SuccessorReplaces
<1>5. ASSUME NEW t \in Tokens, Spent(t) PROVE Spent(t)' /\ Successors(t)' = Successors(t)
  BY <1>1, <1>2, <1>5, AccountsAssumption DEF Spent, Successors
<1>6. QED BY <1>3, <1>4, <1>5 DEF Rotation

(* How a step preserves Rotation, and what it leaves of a spent token.      *)
LEMMA RotationStep ==
    ASSUME TypeOK, Rotation, [Next]_vars
    PROVE  /\ Rotation'
           /\ \/ UNCHANGED vars
              \/ /\ SuccessorReplaces'
                 /\ \A t \in Tokens : Spent(t) => Spent(t)' /\ Successors(t)' = Successors(t)
<1> DEFINE Step == /\ SuccessorReplaces'
                   /\ \A t \in Tokens : Spent(t) => Spent(t)' /\ Successors(t)' = Successors(t)
<1> DEFINE Goal == Rotation' /\ Step
<1>1. UNCHANGED token => NoneIssued
  BY DEF NoneIssued, TokenKept
<1>2. ASSUME NoneIssued, NEW r \in Requests, Answer(r) PROVE Goal
  <2>1. Goto(r, "idle", Nothing) /\ "idle" \in PCs
    BY <1>2 DEF Answer, PCs
  <2>2. QED BY <1>2, <2>1, NoRows, NoneIssuedKeeps DEF Rotation
<1>3. ASSUME NoneIssued, NEW r \in Requests, NEW p \in PCs, NEW s \in SeenType, Goto(r, p, s),
             s.token = None
      PROVE  Goal
  BY <1>3, NoneIssuedKeeps DEF Rotation
<1>4. ASSUME NEW r \in Requests, pc[r] \notin {"rotate", "issue"} PROVE seen[r].token = None
  BY <1>4 DEF Rotation, Handed
<1>5. ASSUME NEW r \in Requests, NEW u \in Users, Register(r, u) \/ Login(r, u) PROVE Goal
  BY <1>1, <1>3, <1>5, AboutTyped DEF Register, Login, PCs
<1>6. ASSUME NEW r \in Requests, InsertUser(r) PROVE Goal
  <2>1. seen[r].token = None /\ seen[r] \in SeenType
    BY <1>4, <1>6, InHand DEF InsertUser
  <2>2. Answer(r) \/ Goto(r, "issue", seen[r])
    BY <1>6 DEF InsertUser
  <2>3. QED BY <1>1, <1>2, <1>3, <1>6, <2>1, <2>2 DEF InsertUser, PCs
<1>7. ASSUME NEW r \in Requests, NEW t \in Tokens, Refresh(r, t) PROVE Goal
  <2> DEFINE s == [user |-> token[t].user, token |-> t, docs |-> {}]
  <2>1. token[t] # NoToken /\ token[t].user \in Users /\ ~token[t].revoked
    BY <1>7, TokenRows DEF Refresh, Honoured
  <2>2. s \in SeenType /\ s.user = token[t].user /\ s.token = t
    BY <2>1 DEF SeenType
  <2> HIDE DEF s
  <2>3. Goto(r, "rotate", s) /\ "rotate" \in PCs
    BY <1>7 DEF Refresh, s, PCs
  <2>4. QED BY <1>1, <1>7, <2>1, <2>2, <2>3, NoneIssuedKeeps DEF Refresh, Rotation
<1>8. ASSUME NEW r \in Requests, Rotate(r) PROVE Goal
  <2> DEFINE t == seen[r].token
  <2>1. pc[r] = "rotate" /\ pc[r] # "idle"
    BY <1>8 DEF Rotate
  <2>2. seen[r] \in SeenType /\ t \in Tokens /\ t # None
    BY <2>1, InHand, AccountsAssumption
  <2>3. token[t] \in TokenType /\ token[t] # NoToken /\ token[t].user # None
    BY <2>2, InHand, TokenRows
  <2>4. token' = [token EXCEPT ![t] = [token[t] EXCEPT !.revoked = TRUE]]
    BY <1>8 DEF Rotate
  <2>5. token'[t].user = token[t].user /\ token'[t].from = token[t].from /\ token'[t].revoked
    BY <2>2, <2>3, <2>4 DEF TokenType, TypeOK
  <2>6. \A x \in Tokens \ {t} : token'[x] = token[x]
    BY <2>4 DEF TypeOK
  <2>7. token'[t] # NoToken
    BY <2>3, <2>5, NoRows
  <2> HIDE DEF t
  <2>8. NoneIssued
    BY <2>3, <2>5, <2>6, <2>7 DEF NoneIssued, TokenKept
  <2>9. Goto(r, "issue", seen[r]) /\ "issue" \in PCs
    BY <1>8 DEF Rotate, PCs
  <2>10. QED BY <2>2, <2>5, <2>8, <2>9, NoneIssuedKeeps DEF Rotation, t
<1>9. ASSUME NEW r \in Requests, NEW t \in Tokens, IssueTokens(r, t) PROVE Goal
  <2> DEFINE row == [user |-> seen[r].user, until |-> now + RefreshTime, revoked |-> FALSE,
                     from |-> seen[r].token]
  <2>1. seen[r] \in SeenType /\ pc[r] = "issue" /\ token[t] = NoToken
    BY <1>9, InHand DEF IssueTokens
  <2>2. seen[r].token # None => /\ seen[r].token \in Tokens /\ seen[r].token # t
                                /\ token[seen[r].token].revoked
                                /\ token[seen[r].token].user = seen[r].user
    BY <2>1, InHand DEF Rotation, Handed
  <2>3. row.from = seen[r].token /\ row.user = seen[r].user
    OBVIOUS
  <2>4. token' = [token EXCEPT ![t] = row]
    BY <1>9 DEF IssueTokens
  <2> HIDE DEF row
  <2>5. token'[t] = row /\ \A x \in Tokens \ {t} : token'[x] = token[x]
    BY <2>4 DEF TypeOK
  <2>6. /\ pc'[r] = "idle" /\ seen'[r] = Nothing
        /\ \A q \in Requests \ {r} : pc'[q] = pc[q] /\ seen'[q] = seen[q]
    <3>1. Goto(r, "idle", Nothing) /\ "idle" \in PCs
      BY <1>9 DEF IssueTokens, Answer, PCs
    <3>2. QED BY <3>1, NoRows, Moved
  <2>7. ASSUME NEW q \in Requests PROVE Handed(q)'
    <3>1. CASE q = r
      BY <2>6, <3>1, NoRows DEF Handed
    <3>2. CASE q # r
      <4>1. seen[q].token # None => seen[q].token # t /\ seen[q].token \in Tokens
        BY <2>1, InHand
      <4>2. QED BY <2>5, <2>6, <3>2, <4>1 DEF Handed, Rotation
    <3>3. QED BY <3>1, <3>2
  <2>8. SuccessorReplaces'
    <3>1. ASSUME NEW x \in Tokens, token'[x].from # None
          PROVE  /\ token'[token'[x].from].revoked
                 /\ token'[token'[x].from].user = token'[x].user
      <4>1. CASE x = t
        BY <2>2, <2>3, <2>5, <3>1, <4>1
      <4>2. CASE x # t
        <5>1. token[x].from \in Tokens /\ token[x].from # None /\ token'[x] = token[x]
          BY <2>5, <3>1, <4>2, TokenRows
        <5>2. token[token[x].from].revoked /\ token[token[x].from].user = token[x].user
          BY <5>1 DEF Rotation, SuccessorReplaces
        <5>3. token[x].from # t
          BY <2>1, <5>2, NoRows
        <5>4. QED BY <2>5, <5>1, <5>2, <5>3
      <4>3. QED BY <4>1, <4>2
    <3>2. QED BY <3>1 DEF SuccessorReplaces
  <2>9. ASSUME NEW x \in Tokens, Spent(x) PROVE Spent(x)' /\ Successors(x)' = Successors(x)
    <3>1. x # t /\ x # seen[r].token /\ x # None /\ token[x].revoked
          /\ \A q \in Requests : seen[q].token # x
      BY <2>1, <2>9, NoRows, AccountsAssumption DEF Spent
    <3>2. Spent(x)'
      BY <2>5, <2>6, <3>1, NoRows DEF Spent
    <3>3. Successors(x)' = Successors(x)
      BY <2>1, <2>3, <2>5, <3>1, NoRows DEF Successors
    <3>4. QED BY <3>2, <3>3
  <2>10. QED BY <2>7, <2>8, <2>9 DEF Rotation
<1>10. ASSUME NEW r \in Requests, NEW u \in Users, NEW v \in Users,
              NEW p \in {"logout", "submit", "review", "deactivate", "staff"}, Admit(r, u, p, v)
       PROVE  Goal
  <2>1. p \in PCs
    BY DEF PCs
  <2>2. QED BY <1>1, <1>3, <1>10, <2>1, AboutTyped DEF Admit
<1>11. ASSUME NEW u \in Users, NEW which, Revoke(u, which) PROVE NoneIssued
  BY <1>11, RevokeTyped DEF NoneIssued
<1>12. ASSUME NEW r \in Requests, (\E which : Logout(r, which)) \/ KillTokens(r) PROVE Goal
  BY <1>2, <1>11, <1>12, InHand DEF Logout, KillTokens
<1>13. ASSUME NEW r \in Requests, ReadKyc(r) \/ DeactivateUser(r) PROVE Goal
  <2>1. seen[r].token = None /\ seen[r] \in SeenType
    BY <1>4, <1>13, InHand DEF ReadKyc, DeactivateUser
  <2>2. Answer(r) \/ \E p \in {"delete", "kill"} : Goto(r, p, seen[r])
    BY <1>13 DEF ReadKyc, DeactivateUser
  <2>3. QED BY <1>1, <1>2, <1>3, <1>13, <2>1, <2>2 DEF ReadKyc, DeactivateUser, PCs
<1>14. ASSUME NEW r \in Requests, DeleteDocuments(r) PROVE Goal
  <2> DEFINE s == [seen[r] EXCEPT !.docs = docs[seen[r].user]]
  <2>1. seen[r] \in SeenType /\ seen[r].user \in Users /\ seen[r].token = None
    BY <1>4, <1>14, InHand DEF DeleteDocuments
  <2>2. s \in SeenType /\ s.token = None
    BY <2>1 DEF SeenType, TypeOK
  <2> HIDE DEF s
  <2>3. Goto(r, "commit", s) /\ "commit" \in PCs
    BY <1>14 DEF DeleteDocuments, s, PCs
  <2>4. QED BY <1>1, <1>3, <1>14, <2>2, <2>3 DEF DeleteDocuments
<1>15. ASSUME NEW r \in Requests, \/ \E submitted \in SUBSET Documents : CommitKyc(r, submitted)
                                  \/ \E v \in {"APPROVED", "REJECTED"} : ReviewKyc(r, v)
                                  \/ CreateBankStaff(r) \/ Drop(r)
       PROVE  Goal
  BY <1>1, <1>2, <1>15 DEF CommitKyc, ReviewKyc, CreateBankStaff, Drop
<1>16. CASE Tick
  BY <1>16 DEF Tick, Rotation, Handed, SuccessorReplaces, Spent, Successors
<1>17. CASE UNCHANGED vars
  BY <1>17 DEF vars, Rotation, Handed, SuccessorReplaces
<1>18. QED
  BY <1>5, <1>6, <1>7, <1>8, <1>9, <1>10, <1>12, <1>13, <1>14, <1>15, <1>16, <1>17
  DEF Next, Serve, Session, Submission, Administration

LEMMA RotationInit == Init => Rotation
BY NoRows DEF Init, Rotation, Handed, SuccessorReplaces

(* Refresh tokens: a successor replaces the token it came from, and a token *)
(* that is spent has no further successor.                                  *)
THEOREM RotationCorrect == Spec => TokensRotate
<1>1. TypeOK /\ Rotation /\ [Next]_vars
        => /\ Rotation'
           /\ [/\ SuccessorReplaces'
               /\ \A t \in Tokens : Spent(t) => Spent(t)' /\ Successors(t)' = Successors(t)]_vars
  BY RotationStep
<1>2. QED BY <1>1, RotationInit, TypeCorrect, PTL DEF Spec, TokensRotate

(* A request that has rotated a token and is about to issue its successor.  *)
Exchanging(r) == pc[r] = "issue" /\ seen[r].token # None

(* The rotation updates a token by its id: it finds it not yet revoked.     *)
RotatesFresh == \A r \in Requests : Rotate(r) => ~token[seen[r].token].revoked

(* Then only one request at a time works on the successor of a token that   *)
(* has none yet.                                                            *)
Exchange ==
    \A r \in Requests : Exchanging(r) =>
        /\ \A t \in Tokens : token[t].from # seen[r].token
        /\ \A q \in Requests \ {r} : Exchanging(q) => seen[q].token # seen[r].token

LEMMA ExchangeFrame ==
    ASSUME TypeOK, Rotation, [Next]_vars
    PROVE  \/ \E r \in Requests, t \in Tokens : IssueTokens(r, t)
           \/ /\ \A t \in Tokens : token'[t].from = token[t].from
              /\ \A q \in Requests : pc'[q] = "issue" /\ seen'[q].token # None =>
                    Rotate(q) \/ (pc[q] = "issue" /\ seen'[q] = seen[q])
<1> DEFINE Kept == \A t \in Tokens : token'[t].from = token[t].from
           Stays(q) == \/ pc'[q] # "issue" \/ seen'[q].token = None
                       \/ (pc[q] = "issue" /\ seen'[q] = seen[q])
<1>1. ASSUME NEW r \in Requests, NEW q \in Requests, q # r, Serve(r) PROVE Stays(q)
  <2>1. \E p, s : Goto(r, p, s)
    BY <1>1, Zenon
    DEF Serve, Session, Submission, Administration, Register, Login, InsertUser, Refresh, Rotate,
        IssueTokens, Logout, Admit, ReadKyc, DeleteDocuments, CommitKyc, ReviewKyc,
        DeactivateUser, KillTokens, CreateBankStaff, Drop, Answer
  <2>2. QED BY <1>1, <2>1 DEF Goto, TypeOK
<1>2. ASSUME NEW r \in Requests, Serve(r), ~Rotate(r), \A t \in Tokens : ~IssueTokens(r, t)
      PROVE  Stays(r)
  <2>1. ASSUME Answer(r) PROVE Stays(r)
    BY <2>1 DEF Answer, Goto, TypeOK
  <2>2. ASSUME InsertUser(r) PROVE Stays(r)
    <3>1. seen[r].token = None
      BY <2>2 DEF InsertUser, Rotation, Handed
    <3>2. QED BY <2>1, <2>2, <3>1 DEF InsertUser, Goto, TypeOK
  <2>3. ASSUME NEW u \in Users, Register(r, u) \/ Login(r, u) PROVE Stays(r)
    BY <2>3 DEF Register, Login, About, Nothing, Goto, TypeOK
  <2>4. ASSUME NEW t \in Tokens, Refresh(r, t) PROVE Stays(r)
    BY <2>4 DEF Refresh, Goto, TypeOK
  <2>5. ASSUME NEW u, NEW v, NEW p \in {"logout", "submit", "review", "deactivate", "staff"},
               Admit(r, u, p, v)
        PROVE  Stays(r)
    BY <2>5 DEF Admit, Goto, TypeOK
  <2>6. ASSUME ReadKyc(r) \/ DeleteDocuments(r) \/ DeactivateUser(r) PROVE Stays(r)
    BY <2>1, <2>6 DEF ReadKyc, DeleteDocuments, DeactivateUser, Goto, TypeOK
  <2>7. ASSUME (\E which : Logout(r, which)) \/ (\E d : CommitKyc(r, d)) \/ (\E k : ReviewKyc(r, k))
                  \/ KillTokens(r) \/ CreateBankStaff(r) \/ Drop(r)
        PROVE  Stays(r)
    BY <2>1, <2>7 DEF Logout, CommitKyc, ReviewKyc, KillTokens, CreateBankStaff, Drop
  <2> HIDE DEF Stays
  <2>8. QED BY <1>2, <2>2, <2>3, <2>4, <2>5, <2>6, <2>7 DEF Serve, Session, Submission, Administration
<1>3. ASSUME NEW r \in Requests, Serve(r), \A t \in Tokens : ~IssueTokens(r, t) PROVE Kept
  <2>1. ASSUME Rotate(r) PROVE Kept
    BY <2>1 DEF Rotate, TypeOK, TokenType
  <2>2. ASSUME NEW u \in Users, NEW which, Revoke(u, which) PROVE Kept
    BY <2>2, RevokeTyped, NoRows DEF TokenKept
  <2>3. ASSUME (\E which : Logout(r, which)) \/ KillTokens(r) PROVE Kept
    BY <2>2, <2>3, InHand DEF Logout, KillTokens
  <2>4. CASE token' = token
    BY <2>4
  <2> HIDE DEF Kept
  <2>5. QED
    BY <1>3, <2>1, <2>3, <2>4
    DEF Serve, Session, Submission, Administration, Register, Login, InsertUser, Refresh, Admit,
        ReadKyc, DeleteDocuments, CommitKyc, ReviewKyc, DeactivateUser, CreateBankStaff, Drop
<1>4. CASE Tick \/ UNCHANGED vars
  BY <1>4 DEF Tick, vars
<1>5. ASSUME NEW r \in Requests, Serve(r), \A t \in Tokens : ~IssueTokens(r, t)
      PROVE  Kept /\ \A q \in Requests : Rotate(q) \/ Stays(q)
  BY <1>1, <1>2, <1>3, <1>5
<1>6. QED BY <1>4, <1>5 DEF Next

LEMMA ExchangeStep ==
    ASSUME TypeOK, Rotation, Exchange, OneSuccessor, RotatesFresh, [Next]_vars
    PROVE  Exchange' /\ OneSuccessor'
<1>1. ASSUME NEW r \in Requests, NEW t \in Tokens, IssueTokens(r, t)
      PROVE  Exchange' /\ OneSuccessor'
  <2>1. /\ token'[t].from = seen[r].token /\ pc[r] = "issue" /\ pc'[r] = "idle"
        /\ \A x \in Tokens \ {t} : token'[x] = token[x]
        /\ \A q \in Requests \ {r} : pc'[q] = pc[q] /\ seen'[q] = seen[q]
    BY <1>1 DEF IssueTokens, Answer, Goto, TypeOK
  <2>2. ASSUME NEW q \in Requests, pc'[q] = "issue", seen'[q].token # None
        PROVE  /\ q # r /\ Exchanging(q) /\ seen'[q] = seen[q]
               /\ \A x \in Tokens : token'[x].from # seen[q].token
    <3>1. q # r /\ Exchanging(q) /\ seen'[q] = seen[q]
      BY <2>1, <2>2 DEF Exchanging
    <3>2. seen[r].token # seen[q].token
      BY <2>1, <3>1 DEF Exchange, Exchanging
    <3>3. QED BY <2>1, <3>1, <3>2 DEF Exchange
  <2>3. Exchange'
    BY <2>2 DEF Exchange, Exchanging
  <2>4. ASSUME NEW x \in Tokens, NEW y \in Tokens, token'[x].from # None,
               token'[x].from = token'[y].from
        PROVE  x = y
    <3>1. \A z \in Tokens : seen[r].token # None => token[z].from # seen[r].token
      BY <2>1 DEF Exchange, Exchanging
    <3>2. QED BY <2>1, <2>4, <3>1 DEF OneSuccessor
  <2>5. QED BY <2>3, <2>4 DEF OneSuccessor
<1>2. ASSUME \A t \in Tokens : token'[t].from = token[t].from,
             \A q \in Requests : pc'[q] = "issue" /\ seen'[q].token # None =>
                Rotate(q) \/ (pc[q] = "issue" /\ seen'[q] = seen[q])
      PROVE  Exchange' /\ OneSuccessor'
  <2>1. OneSuccessor'
    BY <1>2 DEF OneSuccessor
  <2>2. ASSUME NEW r \in Requests, Rotate(r)
        PROVE  /\ seen'[r] = seen[r] /\ pc[r] = "rotate"
               /\ \A q \in Requests \ {r} : pc'[q] = pc[q] /\ seen'[q] = seen[q]
               /\ \A t \in Tokens : token[t].from # seen[r].token
               /\ \A q \in Requests : Exchanging(q) => seen[q].token # seen[r].token
    <3>1. /\ seen'[r] = seen[r] /\ pc[r] = "rotate"
          /\ \A q \in Requests \ {r} : pc'[q] = pc[q] /\ seen'[q] = seen[q]
      BY <2>2 DEF Rotate, Goto, TypeOK
    <3>2. ~token[seen[r].token].revoked /\ seen[r].token # None
      BY <2>2, <3>1, AccountsAssumption DEF RotatesFresh, TypeOK, RequestOK
    <3>3. QED BY <3>1, <3>2 DEF Rotation, Handed, SuccessorReplaces, Exchanging
  <2>3. ASSUME NEW r \in Requests, pc'[r] = "issue", seen'[r].token # None
        PROVE  /\ seen'[r] = seen[r]
               /\ \A t \in Tokens : token[t].from # seen[r].token
               /\ \A q \in Requests \ {r} : pc'[q] = "issue" /\ seen'[q].token # None =>
                    seen'[q].token # seen[r].token
    <3>1. CASE Rotate(r)
      BY <2>2, <3>1 DEF Exchanging
    <3>2. CASE Exchanging(r) /\ seen'[r] = seen[r]
      BY <1>2, <2>2, <3>2 DEF Exchange, Exchanging
    <3>3. QED BY <1>2, <2>3, <3>1, <3>2 DEF Exchanging
  <2>4. Exchange'
    BY <1>2, <2>3 DEF Exchange, Exchanging
  <2>5. QED BY <2>1, <2>4
<1>3. QED BY <1>1, <1>2, ExchangeFrame

(* auth.service.ts:101-104: only an update that revokes a token which was   *)
(* revoked since its lookup lets it be exchanged twice.                     *)
THEOREM SuccessorCorrect == Spec /\ [][RotatesFresh]_vars => []OneSuccessor
<1>1. Init => Exchange /\ OneSuccessor
  BY NoRows DEF Init, Exchange, Exchanging, OneSuccessor
<1>2. TypeOK /\ Rotation /\ [Next]_vars => Rotation'
  BY RotationStep
<1>3. TypeOK /\ Rotation /\ Exchange /\ OneSuccessor /\ [Next]_vars /\ [RotatesFresh]_vars
        => Exchange' /\ OneSuccessor'
  <2>1. Exchange /\ OneSuccessor /\ UNCHANGED vars => Exchange' /\ OneSuccessor'
    BY DEF vars, Exchange, Exchanging, OneSuccessor
  <2>2. QED BY <2>1, ExchangeStep
<1>4. QED BY <1>1, <1>2, <1>3, RotationInit, TypeCorrect, PTL DEF Spec

----------------------------------------------------------------------------
(* Approval. Only a submission that read another status than APPROVED       *)
(* writes documents, and only a review and a submission write the status.   *)
THEOREM ApprovalCorrect == Spec => ApprovalSettles
<1>1. TypeOK /\ [Next]_vars =>
        [\A u \in Users : ApprovedAndQuiet(u) =>
           docs'[u] = docs[u] /\ (ApprovedAndQuiet(u)' \/ user'[u].kyc = "REJECTED")]_vars
  <2> SUFFICES ASSUME TypeOK, Next, NEW u \in Users, ApprovedAndQuiet(u)
               PROVE  docs'[u] = docs[u] /\ (ApprovedAndQuiet(u)' \/ user'[u].kyc = "REJECTED")
    BY DEF vars
  <2> DEFINE Quiet == \A q \in Requests : pc'[q] \in {"delete", "commit"} => seen'[q].user # u
             Settled == docs'[u] = docs[u] /\ user'[u].kyc = "APPROVED"
             Goal == Settled /\ Quiet
  <2>1. /\ user[u] \in UserType /\ user[u] # NoUser /\ user[u].kyc = "APPROVED"
        /\ \A q \in Requests : pc[q] \in {"delete", "commit"} => seen[q].user # u
    BY NoRows DEF ApprovedAndQuiet, InFlight, TypeOK
  <2>2. Goal => docs'[u] = docs[u] /\ (ApprovedAndQuiet(u)' \/ user'[u].kyc = "REJECTED")
    BY DEF ApprovedAndQuiet, InFlight
  <2>3. UNCHANGED <<user, docs>> => Settled
    BY <2>1
  <2>4. ASSUME NEW r \in Requests, NEW p \in PCs, NEW s \in SeenType, Goto(r, p, s),
               p \in {"delete", "commit"} => s.user # u
        PROVE  Quiet
    BY <2>1, <2>4, Moved
  <2>5. ASSUME NEW r \in Requests, Answer(r) PROVE Quiet
    <3>1. Goto(r, "idle", Nothing) /\ "idle" \in PCs
      BY <2>5 DEF Answer, PCs
    <3>2. QED BY <2>4, <3>1, NoRows
  <2>6. ASSUME NEW r \in Requests, NEW v \in Users, Register(r, v) \/ Login(r, v) PROVE Goal
    BY <2>3, <2>4, <2>6, AboutTyped DEF Register, Login, PCs
  <2>7. ASSUME NEW r \in Requests, InsertUser(r) \/ CreateBankStaff(r) PROVE Goal
    <3>1. seen[r] \in SeenType
      BY <2>7, InHand
    <3>2. user'[u] = user[u]
      BY <2>1, <2>7 DEF InsertUser, CreateBankStaff, TypeOK
    <3>3. Answer(r) \/ Goto(r, "issue", seen[r])
      BY <2>7 DEF InsertUser, CreateBankStaff
    <3>4. QED BY <2>1, <2>4, <2>5, <2>7, <3>1, <3>2, <3>3 DEF InsertUser, CreateBankStaff, PCs
  <2>8. ASSUME NEW r \in Requests, NEW t \in Tokens, Refresh(r, t) PROVE Goal
    <3> DEFINE s == [user |-> token[t].user, token |-> t, docs |-> {}]
    <3>1. token[t].user \in Users
      BY <2>8, TokenRows DEF Refresh, Honoured
    <3>2. s \in SeenType
      BY <3>1 DEF SeenType
    <3> HIDE DEF s
    <3>3. Goto(r, "rotate", s) /\ "rotate" \in PCs
      BY <2>8 DEF Refresh, s, PCs
    <3>4. QED BY <2>3, <2>4, <2>8, <3>2, <3>3 DEF Refresh
  <2>9. ASSUME NEW r \in Requests, Rotate(r) PROVE Goal
    BY <2>3, <2>4, <2>9, InHand DEF Rotate, PCs
  <2>10. ASSUME NEW r \in Requests, NEW w \in Users, NEW v \in Users,
                NEW p \in {"logout", "submit", "review", "deactivate", "staff"}, Admit(r, w, p, v)
         PROVE  Goal
    <3>1. p \in PCs /\ p \notin {"delete", "commit"}
      BY DEF PCs
    <3>2. QED BY <2>3, <2>4, <2>10, <3>1, AboutTyped DEF Admit
  <2>11. ASSUME NEW r \in Requests, \/ \E t \in Tokens : IssueTokens(r, t)
                                    \/ \E which : Logout(r, which)
                                    \/ KillTokens(r) \/ Drop(r)
         PROVE  Goal
    BY <2>3, <2>5, <2>11 DEF IssueTokens, Logout, KillTokens, Drop
  <2>12. ASSUME NEW r \in Requests, ReadKyc(r) PROVE Goal
    <3>1. Answer(r) \/ (Goto(r, "delete", seen[r]) /\ seen[r].user # u)
      BY <2>1, <2>12 DEF ReadKyc
    <3>2. QED BY <2>3, <2>4, <2>5, <2>12, <3>1, InHand DEF ReadKyc, PCs
  <2>13. ASSUME NEW r \in Requests, DeleteDocuments(r) PROVE Goal
    <3> DEFINE s == [seen[r] EXCEPT !.docs = docs[seen[r].user]]
    <3>1. seen[r] \in SeenType /\ seen[r].user \in Users /\ seen[r].user # u
      BY <2>1, <2>13, InHand DEF DeleteDocuments
    <3>2. s \in SeenType /\ s.user # u
      BY <3>1 DEF SeenType, TypeOK
    <3> HIDE DEF s
    <3>3. Goto(r, "commit", s) /\ "commit" \in PCs
      BY <2>13 DEF DeleteDocuments, s, PCs
    <3>4. QED BY <2>3, <2>4, <2>13, <3>2, <3>3 DEF DeleteDocuments
  <2>14. ASSUME NEW r \in Requests, NEW submitted \in SUBSET Documents, CommitKyc(r, submitted)
         PROVE  Goal
    <3>1. seen[r].user # u /\ seen[r].user \in Users
      BY <2>1, <2>14, InHand DEF CommitKyc
    <3>2. user'[u] = user[u] /\ docs'[u] = docs[u]
      BY <2>14, <3>1 DEF CommitKyc, TypeOK
    <3>3. QED BY <2>1, <2>5, <2>14, <3>2 DEF CommitKyc
  <2>15. ASSUME NEW r \in Requests, NEW verdict \in {"APPROVED", "REJECTED"}, ReviewKyc(r, verdict)
         PROVE  docs'[u] = docs[u] /\ Quiet /\ user'[u].kyc \in {"APPROVED", "REJECTED"}
    <3>1. user'[u].kyc \in {"APPROVED", "REJECTED"}
      <4>1. CASE user' = user
        BY <2>1, <4>1
      <4>2. CASE user' = [user EXCEPT ![seen[r].user].kyc = verdict]
        BY <2>1, <4>2 DEF TypeOK, UserType
      <4>3. QED BY <2>15, <4>1, <4>2 DEF ReviewKyc
    <3>2. QED BY <2>5, <2>15, <3>1 DEF ReviewKyc
  <2>16. ASSUME NEW r \in Requests, DeactivateUser(r) PROVE Goal
    <3>1. user'[u].kyc = "APPROVED"
      <4>1. CASE user' = user
        BY <2>1, <4>1
      <4>2. CASE user' = [user EXCEPT ![seen[r].user].active = FALSE]
        BY <2>1, <4>2 DEF TypeOK, UserType
      <4>3. QED BY <2>16, <4>1, <4>2 DEF DeactivateUser
    <3>2. Answer(r) \/ Goto(r, "kill", seen[r])
      BY <2>16 DEF DeactivateUser
    <3>3. QED BY <2>4, <2>5, <2>16, <3>1, <3>2, InHand DEF DeactivateUser, PCs
  <2>17. CASE Tick
    BY <2>1, <2>17 DEF Tick, ApprovedAndQuiet, InFlight
  <2>18. QED
    BY <2>2, <2>6, <2>7, <2>8, <2>9, <2>10, <2>11, <2>12, <2>13, <2>14, <2>15, <2>16, <2>17
    DEF Next, Serve, Session, Submission, Administration, ApprovedAndQuiet, InFlight
<1>2. QED BY <1>1, TypeCorrect, PTL DEF Spec, ApprovalSettles
============================================================================
