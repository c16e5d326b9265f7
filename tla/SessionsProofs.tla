---------------------------- MODULE SessionsProofs ----------------------------
(***************************************************************************)
(* What Sessions promises, for any number of accounts, requests and tokens.*)
(* The inductive invariant adds what a request whose reading is still up   *)
(* to date may rely on: a commit makes all the others outdated, so the     *)
(* guard of the only request that can write still holds when it does.      *)
(***************************************************************************)
EXTENDS Sessions, TLAPS

\* What a request has read and may rely on while nobody has committed since.
Relies(req) ==
    /\ req.kind = "login" => /\ account[req.user].state = "active"
                             /\ account[req.user].password = req.password
    /\ req.kind = "refresh" => /\ Loads(req.token)
                               /\ account[tokens[req.token].user].state = "active"
    /\ req.kind = "create" => account[req.user].state = "absent"
    /\ req.kind = "update" => /\ req.by \in Users
                              /\ account[req.by].state = "active" /\ account[req.by].admin
                              /\ account[req.user].state # "absent"
                              /\ Allowed(req.by, req.user, req.change)

FreshIsTrue == \A r \in Requests : request[r].fresh => Relies(request[r])

\* A token was issued in exchange for an earlier one.
FromEarlier == \A t \in DOMAIN tokens : tokens[t].from < t

IInv == TypeOK /\ FreshIsTrue /\ FromEarlier
        /\ SessionsAreCurrent /\ ExchangedOnce /\ SomebodyAdministers

USE SessionsAssumption

-----------------------------------------------------------------------------
(* Types. *)

LEMMA ChangeType ==
    /\ NoChange \in Change
    /\ \A c \in Change : /\ c.password \in BOOLEAN
                         /\ c.admin \in {"same", "yes", "no"}
                         /\ c.active \in {"same", "yes", "no"}
  BY DEF Change, NoChange

LEMMA NoRequestType == NoRequest \in Request
  BY ChangeType DEF NoRequest, Request

LEMMA InitType == Init => TypeOK
<1> SUFFICES ASSUME Init PROVE TypeOK
  OBVIOUS
<1>1. account \in [Users -> Account]
  BY DEF Init, Account
<1>2. tokens \in Seq(Token)
  BY DEF Init
<1>3. \A r \in Requests : request[r] = NoRequest
  BY DEF Init
<1>4. request \in [Requests -> Request]
  BY <1>3, NoRequestType DEF Init
<1> QED
  BY <1>1, <1>2, <1>3, <1>4 DEF TypeOK, NoRequest

\* The rows a step writes.
LEMMA TokenParts ==
    ASSUME NEW t \in Token
    PROVE /\ t.user \in Users /\ t.password \in Nat /\ t.revoked \in BOOLEAN /\ t.from \in Nat
          /\ Revoked(t) \in Token
          /\ Revoked(t).user = t.user /\ Revoked(t).password = t.password
          /\ Revoked(t).from = t.from /\ Revoked(t).revoked = TRUE
  BY DEF Token, Revoked

LEMMA RequestParts ==
    ASSUME NEW q \in Request
    PROVE /\ q.token \in Nat /\ q.password \in Nat /\ q.fresh \in BOOLEAN
          /\ q.change \in Change /\ q.user \in Users \cup {None}
          /\ Outdated(q) \in Request
          /\ Outdated(q).kind = q.kind /\ Outdated(q).token = q.token
          /\ Outdated(q).user = q.user /\ Outdated(q).fresh = FALSE
  BY DEF Request, Outdated

LEMMA ChangedType ==
    ASSUME NEW row \in Account, NEW change \in Change
    PROVE Changed(row, change) \in Account
<1>1. Decide(change.admin, row.admin) \in BOOLEAN
  BY ChangeType DEF Decide, Account
<1>2. row.password \in Nat /\ change.password \in BOOLEAN
  BY ChangeType DEF Account
<1> QED
  BY <1>1, <1>2 DEF Changed, Account

\* A request that begins.
LEMMA BeginType ==
    ASSUME TypeOK, NEW r \in Requests, NEW row \in Request, Begin(r, row),
           row.kind \in {"refresh", "logout"} => row.token \in DOMAIN tokens,
           row.kind \in {"login", "create", "update"} => row.user \in Users
    PROVE TypeOK'
<1>1. request' \in [Requests -> Request]
  BY DEF TypeOK, Begin
<1>2. \A q \in Requests : request'[q] = IF q = r THEN row ELSE request[q]
  BY DEF TypeOK, Begin
<1> QED
  BY <1>1, <1>2 DEF TypeOK, Begin

\* A commit leaves the requests well typed and none of them up to date.
LEMMA CommitRequests ==
    ASSUME TypeOK, NEW r \in Requests, Commit(r)
    PROVE /\ request[r].fresh
          /\ request' \in [Requests -> Request]
          /\ \A q \in Requests : request'[q].fresh = FALSE
          /\ \A q \in Requests :
                /\ request'[q].kind \in {"refresh", "logout"} =>
                      request'[q].token \in DOMAIN tokens
                /\ request'[q].kind \in {"login", "create", "update"} =>
                      request'[q].user \in Users
<1>1. \A q \in Requests : request[q] \in Request
  BY DEF TypeOK
<1>2. \A q \in Requests : request'[q] = IF q = r THEN NoRequest
                                        ELSE Outdated(request[q])
  BY DEF Commit
<1>3. \A q \in Requests : request'[q] \in Request
  BY <1>1, <1>2, NoRequestType, RequestParts
<1>4. \A q \in Requests : request'[q].fresh = FALSE
  <2> SUFFICES ASSUME NEW q \in Requests PROVE request'[q].fresh = FALSE
    OBVIOUS
  <2>1. CASE q = r
    BY <2>1, <1>2 DEF NoRequest
  <2>2. CASE q # r
    BY <2>2, <1>1, <1>2, RequestParts
  <2> QED
    BY <2>1, <2>2
<1>5. \A q \in Requests :
          /\ request'[q].kind \in {"refresh", "logout"} => request'[q].token \in DOMAIN tokens
          /\ request'[q].kind \in {"login", "create", "update"} => request'[q].user \in Users
  <2> SUFFICES ASSUME NEW q \in Requests
               PROVE /\ request'[q].kind \in {"refresh", "logout"} =>
                           request'[q].token \in DOMAIN tokens
                     /\ request'[q].kind \in {"login", "create", "update"} =>
                           request'[q].user \in Users
    OBVIOUS
  <2>1. CASE q = r
    BY <2>1, <1>2 DEF NoRequest
  <2>2. CASE q # r
    BY <2>2, <1>1, <1>2, RequestParts DEF TypeOK
  <2> QED
    BY <2>1, <2>2
<1> QED
  BY <1>2, <1>3, <1>4, <1>5 DEF Commit, MayWrite

-----------------------------------------------------------------------------
(* Steps that only read. *)

\* Nothing but the request changes, and it may rely on what it has read.
LEMMA BeginKeeps ==
    ASSUME IInv, NEW r \in Requests, NEW row \in Request, Begin(r, row),
           row.kind \in {"refresh", "logout"} => row.token \in DOMAIN tokens,
           row.kind \in {"login", "create", "update"} => row.user \in Users,
           row.fresh => Relies(row)
    PROVE IInv'
<1>1. TypeOK'
  BY BeginType DEF IInv
<1>2. account' = account /\ tokens' = tokens
  BY DEF Begin
<1>3. FreshIsTrue'
  <2> SUFFICES ASSUME NEW q \in Requests, request'[q].fresh PROVE Relies(request[q])'
    BY DEF FreshIsTrue
  <2>1. request'[q] = IF q = r THEN row ELSE request[q]
    BY DEF Begin, IInv, TypeOK
  <2>2. Relies(request'[q])
    BY <2>1 DEF IInv, FreshIsTrue
  <2> QED
    BY <2>2, <1>2 DEF Relies, Loads
<1>4. (FromEarlier /\ SessionsAreCurrent /\ ExchangedOnce /\ SomebodyAdministers)'
  BY <1>2 DEF IInv, FromEarlier, SessionsAreCurrent, ExchangedOnce, SomebodyAdministers, Loads
<1> QED
  BY <1>1, <1>3, <1>4 DEF IInv

LEMMA FailKeeps ==
    ASSUME IInv, NEW r \in Requests, Fail(r)
    PROVE IInv'
<1>1. account' = account /\ tokens' = tokens
  BY DEF Fail
<1>2. \A q \in Requests : request'[q] = IF q = r THEN NoRequest ELSE request[q]
  BY DEF Fail, IInv, TypeOK
<1>3. request' \in [Requests -> Request]
  BY NoRequestType DEF Fail, IInv, TypeOK
<1>4. TypeOK'
  BY <1>1, <1>2, <1>3 DEF IInv, TypeOK, NoRequest
<1>5. FreshIsTrue'
  <2> SUFFICES ASSUME NEW q \in Requests, request'[q].fresh PROVE Relies(request[q])'
    BY DEF FreshIsTrue
  <2>1. q # r
    BY <1>2 DEF NoRequest
  <2>2. Relies(request'[q])
    BY <2>1, <1>2 DEF IInv, FreshIsTrue
  <2> QED
    BY <2>2, <1>1 DEF Relies, Loads
<1>6. (FromEarlier /\ SessionsAreCurrent /\ ExchangedOnce /\ SomebodyAdministers)'
  BY <1>1 DEF IInv, FromEarlier, SessionsAreCurrent, ExchangedOnce, SomebodyAdministers, Loads
<1> QED
  BY <1>4, <1>5, <1>6 DEF IInv

\* Each Begin... writes a request that may rely on what was read.
LEMMA BeginLoginKeeps ==
    ASSUME IInv, NEW r \in Requests, NEW u \in Users, BeginLogin(r, u)
    PROVE IInv'
<1> DEFINE row == [NoRequest EXCEPT !.kind = "login", !.user = u, !.fresh = TRUE,
                                    !.password = account[u].password]
<1>1. account[u].password \in Nat
  BY DEF IInv, TypeOK, Account
<1>2. row \in Request
  BY <1>1, ChangeType DEF NoRequest, Request
<1>3. row.kind = "login" /\ row.user = u /\ row.password = account[u].password
  BY DEF NoRequest
<1>4. Relies(row)
  BY <1>3 DEF BeginLogin, Relies
<1>5. Begin(r, row)
  BY DEF BeginLogin
<1> HIDE DEF row
<1> QED
  BY <1>2, <1>3, <1>4, <1>5, BeginKeeps

LEMMA BeginRefreshKeeps ==
    ASSUME IInv, NEW r \in Requests, NEW t \in DOMAIN tokens, BeginRefresh(r, t)
    PROVE IInv'
<1> DEFINE row == [NoRequest EXCEPT !.kind = "refresh", !.token = t, !.fresh = TRUE]
<1>1. t \in Nat
  BY DEF IInv, TypeOK
<1>2. row \in Request
  BY <1>1, ChangeType DEF NoRequest, Request
<1>3. row.kind = "refresh" /\ row.token = t
  BY DEF NoRequest
<1>4. Relies(row)
  BY <1>3 DEF BeginRefresh, Relies
<1>5. Begin(r, row)
  BY DEF BeginRefresh
<1> HIDE DEF row
<1> QED
  BY <1>2, <1>3, <1>4, <1>5, BeginKeeps

LEMMA BeginLogoutKeeps ==
    ASSUME IInv, NEW r \in Requests, NEW t \in DOMAIN tokens, BeginLogout(r, t)
    PROVE IInv'
<1> DEFINE row == [NoRequest EXCEPT !.kind = "logout", !.token = t, !.fresh = TRUE]
<1>1. t \in Nat
  BY DEF IInv, TypeOK
<1>2. row \in Request
  BY <1>1, ChangeType DEF NoRequest, Request
<1>3. row.kind = "logout" /\ row.token = t
  BY DEF NoRequest
<1>4. Relies(row)
  BY <1>3 DEF Relies
<1>5. Begin(r, row)
  BY DEF BeginLogout
<1> HIDE DEF row
<1> QED
  BY <1>2, <1>3, <1>4, <1>5, BeginKeeps

LEMMA BeginCreateKeeps ==
    ASSUME IInv, NEW r \in Requests, NEW a \in Users, NEW u \in Users,
           NEW admin \in {"yes", "no"}, BeginCreate(r, a, u, admin)
    PROVE IInv'
<1> DEFINE row == [NoRequest EXCEPT !.kind = "create", !.user = u, !.fresh = TRUE,
                                    !.change.admin = admin]
<1>1. [NoChange EXCEPT !.admin = admin] \in Change
  BY DEF NoChange, Change
<1>2. row = [NoRequest EXCEPT !.kind = "create", !.user = u, !.fresh = TRUE,
                              !.change = [NoChange EXCEPT !.admin = admin]]
  BY DEF NoRequest
<1>3. row \in Request
  BY <1>1, <1>2 DEF NoRequest, Request
<1>4. row.kind = "create" /\ row.user = u
  BY DEF NoRequest
<1>5. Relies(row)
  BY <1>4 DEF BeginCreate, Relies
<1>6. Begin(r, row)
  BY DEF BeginCreate
<1> HIDE DEF row
<1> QED
  BY <1>3, <1>4, <1>5, <1>6, BeginKeeps

LEMMA BeginUpdateKeeps ==
    ASSUME IInv, NEW r \in Requests, NEW a \in Users, NEW u \in Users,
           NEW change \in Changes, BeginUpdate(r, a, u, change)
    PROVE IInv'
<1> DEFINE row == [NoRequest EXCEPT !.kind = "update", !.by = a, !.user = u,
                                    !.fresh = TRUE, !.change = change]
<1>1. change \in Change
  OBVIOUS
<1>2. row \in Request
  BY <1>1 DEF NoRequest, Request
<1>3. row.kind = "update" /\ row.by = a /\ row.user = u /\ row.change = change
  BY DEF NoRequest
<1>4. Relies(row)
  BY <1>3 DEF BeginUpdate, Relies, Administrator
<1>5. Begin(r, row)
  BY DEF BeginUpdate
<1> HIDE DEF row
<1> QED
  BY <1>2, <1>3, <1>4, <1>5, BeginKeeps

-----------------------------------------------------------------------------
(* Steps that commit. *)

\* The parts of the invariant that no step of this kind can disturb, and the types.
LEMMA CommitKeeps ==
    ASSUME IInv, NEW r \in Requests, Commit(r),
           account' \in [Users -> Account], tokens' \in Seq(Token),
           DOMAIN tokens \subseteq DOMAIN tokens',
           FromEarlier', SessionsAreCurrent', ExchangedOnce', SomebodyAdministers'
    PROVE IInv'
<1>1. TypeOK'
  BY CommitRequests DEF IInv, TypeOK
<1>2. FreshIsTrue'
  BY CommitRequests DEF IInv, FreshIsTrue
<1> QED
  BY <1>1, <1>2 DEF IInv

\* The table after one more token.
LEMMA Longer ==
    ASSUME NEW s \in Seq(Token), NEW row \in Token
    PROVE /\ Append(s, row) \in Seq(Token)
          /\ DOMAIN s \subseteq DOMAIN Append(s, row)
          /\ Len(s) + 1 \in DOMAIN Append(s, row)
          /\ Append(s, row)[Len(s) + 1] = row
          /\ \A t \in DOMAIN Append(s, row) :
                 t = Len(s) + 1 \/ (t \in DOMAIN s /\ Append(s, row)[t] = s[t])
  OBVIOUS

LEMMA LoginKeeps ==
    ASSUME IInv, NEW r \in Requests, Login(r)
    PROVE IInv'
<1> DEFINE u == request[r].user
           row == Issued(u, request[r].password, 0)
           n == Len(tokens) + 1
<1>1. Commit(r) /\ request[r].fresh /\ request[r].kind = "login"
  BY CommitRequests DEF Login, IInv
<1>2. u \in Users /\ request[r].password \in Nat
  BY <1>1, RequestParts DEF IInv, TypeOK
<1>3. account[u].state = "active" /\ account[u].password = request[r].password
  BY <1>1 DEF IInv, FreshIsTrue, Relies
<1>4. row \in Token
  BY <1>2 DEF Issued, Token
<1>5. row.user = u /\ row.password = request[r].password /\ row.from = 0
  BY DEF Issued
<1>6. account' = account /\ tokens' = Append(tokens, row)
  BY DEF Login
<1> HIDE DEF row
<1>7. tokens \in Seq(Token)
  BY DEF IInv, TypeOK
<1>8. /\ tokens' \in Seq(Token) /\ DOMAIN tokens \subseteq DOMAIN tokens'
      /\ tokens'[n] = row
      /\ \A t \in DOMAIN tokens' : t = n \/ (t \in DOMAIN tokens /\ tokens'[t] = tokens[t])
  BY <1>4, <1>6, <1>7, Longer
<1>9. n \in Nat /\ 0 < n
  BY <1>7
<1> HIDE DEF n
<1>10. FromEarlier'
  BY <1>5, <1>8, <1>9 DEF IInv, FromEarlier
<1>11. SessionsAreCurrent'
  BY <1>3, <1>5, <1>6, <1>8 DEF IInv, SessionsAreCurrent, Loads
<1>12. \A t \in DOMAIN tokens : tokens[t].from \in Nat /\ tokens[t].from < t /\ t \in Nat
  <2>1. \A t \in DOMAIN tokens : tokens[t] \in Token /\ t \in Nat
    BY <1>7
  <2> QED
    BY <2>1, TokenParts DEF IInv, FromEarlier
<1>13. \A s \in DOMAIN tokens : tokens[s].from # 0 => tokens[s].from \in DOMAIN tokens
  BY <1>7, <1>12
<1>14. ExchangedOnce'
  <2> SUFFICES ASSUME NEW s \in DOMAIN tokens', tokens'[s].from # 0
               PROVE /\ tokens'[tokens'[s].from].revoked
                     /\ \A t \in DOMAIN tokens' : tokens'[t].from = tokens'[s].from => t = s
    BY DEF ExchangedOnce
  <2>1. s # n /\ s \in DOMAIN tokens /\ tokens'[s] = tokens[s]
    BY <1>5, <1>8
  <2>2. tokens[s].from \in DOMAIN tokens /\ tokens[tokens[s].from].revoked
    BY <2>1, <1>13 DEF IInv, ExchangedOnce
  <2>3. tokens[s].from # n
    BY <2>2, <1>7 DEF n
  <2>4. tokens'[tokens'[s].from].revoked
    BY <2>1, <2>2, <2>3, <1>8
  <2>5. ASSUME NEW t \in DOMAIN tokens', tokens'[t].from = tokens'[s].from PROVE t = s
    <3>1. t # n /\ t \in DOMAIN tokens /\ tokens'[t] = tokens[t]
      BY <2>5, <1>5, <1>8
    <3> QED
      BY <2>1, <2>5, <3>1 DEF IInv, ExchangedOnce
  <2> QED
    BY <2>4, <2>5
<1>15. SomebodyAdministers'
  BY <1>6 DEF IInv, SomebodyAdministers
<1> QED
  BY <1>1, <1>6, <1>8, <1>10, <1>11, <1>14, <1>15, CommitKeeps DEF IInv, TypeOK

LEMMA RefreshKeeps ==
    ASSUME IInv, NEW r \in Requests, Refresh(r)
    PROVE IInv'
<1> DEFINE o == request[r].token
           u == tokens[o].user
           row == Issued(u, tokens[o].password, o)
           n == Len(tokens) + 1
           old == [tokens EXCEPT ![o] = Revoked(tokens[o])]
<1>1. Commit(r) /\ request[r].fresh /\ request[r].kind = "refresh"
  BY CommitRequests DEF Refresh, IInv
<1>2. o \in DOMAIN tokens
  BY <1>1 DEF IInv, TypeOK
<1>3. ~tokens[o].revoked /\ account[u].state = "active"
  BY <1>1 DEF IInv, FreshIsTrue, Relies, Loads
<1>4. tokens[o].password = account[u].password
  BY <1>2, <1>3 DEF IInv, SessionsAreCurrent, Loads
<1>5. tokens \in Seq(Token)
  BY DEF IInv, TypeOK
<1>6. tokens[o] \in Token /\ o \in Nat
  BY <1>2, <1>5
<1>7. row \in Token
  BY <1>6, TokenParts DEF Issued, Token
<1>8. row.user = u /\ row.password = tokens[o].password /\ row.from = o
  BY DEF Issued
<1>9. account' = account /\ tokens' = Append(old, row)
  BY DEF Refresh
<1>10. Revoked(tokens[o]) \in Token
  BY <1>6, TokenParts
<1>11. old \in Seq(Token) /\ Len(old) = Len(tokens) /\ DOMAIN old = DOMAIN tokens
  BY <1>5, <1>2, <1>10
<1>12. \A t \in DOMAIN tokens : old[t] = IF t = o THEN Revoked(tokens[o]) ELSE tokens[t]
  BY <1>5
<1> HIDE DEF row, old
<1>13. /\ tokens' \in Seq(Token) /\ DOMAIN tokens \subseteq DOMAIN tokens'
       /\ tokens'[n] = row
       /\ \A t \in DOMAIN tokens' : t = n \/ (t \in DOMAIN tokens /\ tokens'[t] = old[t])
  BY <1>7, <1>9, <1>11, Longer
<1>14. n \in Nat /\ o < n /\ o # n
  BY <1>2, <1>5
<1>15. \A t \in DOMAIN tokens :
          /\ old[t].user = tokens[t].user /\ old[t].password = tokens[t].password
          /\ old[t].from = tokens[t].from
          /\ old[t].revoked = (t = o \/ tokens[t].revoked)
  <2> SUFFICES ASSUME NEW t \in DOMAIN tokens
               PROVE /\ old[t].user = tokens[t].user /\ old[t].password = tokens[t].password
                     /\ old[t].from = tokens[t].from
                     /\ old[t].revoked = (t = o \/ tokens[t].revoked)
    OBVIOUS
  <2>1. CASE t = o
    BY <2>1, <1>6, <1>12, TokenParts
  <2>2. CASE t # o
    <3>1. tokens[t] \in Token
      BY <1>5
    <3>2. tokens[t].revoked \in BOOLEAN
      BY <3>1, TokenParts
    <3> QED
      BY <2>2, <3>2, <1>12
  <2> QED
    BY <2>1, <2>2
<1> HIDE DEF n
<1>16. FromEarlier'
  BY <1>8, <1>13, <1>14, <1>15 DEF IInv, FromEarlier
<1>17. SessionsAreCurrent'
  <2> SUFFICES ASSUME NEW t \in DOMAIN tokens', ~tokens'[t].revoked
               PROVE /\ account[tokens'[t].user].state = "active"
                     /\ tokens'[t].password = account[tokens'[t].user].password
    BY <1>9 DEF SessionsAreCurrent, Loads
  <2>1. CASE t = n
    BY <2>1, <1>3, <1>4, <1>8, <1>13
  <2>2. CASE t # n
    <3>1. t \in DOMAIN tokens /\ tokens'[t] = old[t] /\ ~tokens[t].revoked
      BY <2>2, <1>13, <1>15
    <3> QED
      BY <3>1, <1>15 DEF IInv, SessionsAreCurrent, Loads
  <2> QED
    BY <2>1, <2>2
<1>18. \A t \in DOMAIN tokens : tokens[t].from \in Nat /\ tokens[t].from < t /\ t \in Nat
  <2>1. \A t \in DOMAIN tokens : tokens[t] \in Token /\ t \in Nat
    BY <1>5
  <2> QED
    BY <2>1, TokenParts DEF IInv, FromEarlier
<1>19. \A s \in DOMAIN tokens : tokens[s].from # 0 => tokens[s].from \in DOMAIN tokens
  BY <1>5, <1>18
<1>20. \A s \in DOMAIN tokens : tokens[s].from # o
  <2> SUFFICES ASSUME NEW s \in DOMAIN tokens, tokens[s].from = o PROVE FALSE
    OBVIOUS
  <2>1. o # 0
    BY <1>2, <1>5
  <2> QED
    BY <2>1, <1>3 DEF IInv, ExchangedOnce
<1>21. tokens'[o] = old[o] /\ old[o].revoked
  BY <1>2, <1>13, <1>14, <1>15
<1>22. \A s \in DOMAIN tokens : tokens[s].from # 0 =>
          /\ tokens'[tokens[s].from] = old[tokens[s].from]
          /\ old[tokens[s].from].revoked
  <2> SUFFICES ASSUME NEW s \in DOMAIN tokens, tokens[s].from # 0
               PROVE /\ tokens'[tokens[s].from] = old[tokens[s].from]
                     /\ old[tokens[s].from].revoked
    OBVIOUS
  <2>1. tokens[s].from \in DOMAIN tokens /\ tokens[tokens[s].from].revoked
    BY <1>19 DEF IInv, ExchangedOnce
  <2>2. tokens[s].from # n
    BY <2>1, <1>5 DEF n
  <2> QED
    BY <2>1, <2>2, <1>13, <1>15
<1>23. ExchangedOnce'
  <2> SUFFICES ASSUME NEW s \in DOMAIN tokens', tokens'[s].from # 0
               PROVE /\ tokens'[tokens'[s].from].revoked
                     /\ \A t \in DOMAIN tokens' : tokens'[t].from = tokens'[s].from => t = s
    BY DEF ExchangedOnce
  <2>1. CASE s = n
    BY <2>1, <1>8, <1>13, <1>15, <1>20, <1>21
  <2>2. CASE s # n
    <3>1. s \in DOMAIN tokens /\ tokens'[s].from = tokens[s].from
      BY <2>2, <1>13, <1>15
    <3>2. tokens'[tokens'[s].from].revoked
      BY <3>1, <1>22
    <3>3. ASSUME NEW t \in DOMAIN tokens', tokens'[t].from = tokens'[s].from PROVE t = s
      <4>1. t # n
        BY <3>1, <3>3, <1>8, <1>13, <1>20
      <4>2. t \in DOMAIN tokens /\ tokens'[t].from = tokens[t].from
        BY <4>1, <1>13, <1>15
      <4> QED
        BY <3>1, <3>3, <4>2 DEF IInv, ExchangedOnce
    <3> QED
      BY <3>2, <3>3
  <2> QED
    BY <2>1, <2>2
<1>24. SomebodyAdministers'
  BY <1>9 DEF IInv, SomebodyAdministers
<1> QED
  BY <1>1, <1>9, <1>13, <1>16, <1>17, <1>23, <1>24, CommitKeeps DEF IInv, TypeOK

\* Every token keeps its row, or is revoked: the tables of before and after agree on
\* all but that, and what was revoked stays so.
OnlyRevokes(new) ==
    /\ new \in Seq(Token) /\ DOMAIN new = DOMAIN tokens
    /\ \A t \in DOMAIN tokens :
          /\ new[t].user = tokens[t].user /\ new[t].password = tokens[t].password
          /\ new[t].from = tokens[t].from
          /\ tokens[t].revoked => new[t].revoked

LEMMA RevokingKeeps ==
    ASSUME IInv, OnlyRevokes(tokens')
    PROVE FromEarlier' /\ ExchangedOnce'
<1>1. FromEarlier'
  BY DEF OnlyRevokes, IInv, FromEarlier
<1>2. tokens \in Seq(Token)
  BY DEF IInv, TypeOK
<1>3. \A t \in DOMAIN tokens : tokens[t] \in Token /\ t \in Nat
  BY <1>2
<1>4. \A t \in DOMAIN tokens : tokens[t].from \in Nat /\ tokens[t].from < t
  BY <1>3, TokenParts DEF IInv, FromEarlier
<1>5. \A s \in DOMAIN tokens : tokens[s].from # 0 => tokens[s].from \in DOMAIN tokens
  BY <1>2, <1>3, <1>4
<1>6. ExchangedOnce'
  BY <1>5 DEF OnlyRevokes, IInv, ExchangedOnce
<1> QED
  BY <1>1, <1>6

LEMMA LogoutKeeps ==
    ASSUME IInv, NEW r \in Requests, Logout(r)
    PROVE IInv'
<1> DEFINE o == request[r].token
<1>1. Commit(r) /\ request[r].kind = "logout"
  BY DEF Logout
<1>2. o \in DOMAIN tokens /\ tokens \in Seq(Token)
  BY <1>1 DEF IInv, TypeOK
<1>3. account' = account /\ tokens' = [tokens EXCEPT ![o] = Revoked(tokens[o])]
  BY DEF Logout
<1>4. tokens[o] \in Token
  BY <1>2
<1>5. Revoked(tokens[o]) \in Token
  BY <1>4, TokenParts
<1>6. tokens' \in Seq(Token) /\ DOMAIN tokens' = DOMAIN tokens
  BY <1>2, <1>3, <1>5
<1>7. \A t \in DOMAIN tokens : tokens'[t] = IF t = o THEN Revoked(tokens[o]) ELSE tokens[t]
  BY <1>2, <1>3
<1>8. \A t \in DOMAIN tokens :
          /\ tokens'[t].user = tokens[t].user /\ tokens'[t].password = tokens[t].password
          /\ tokens'[t].from = tokens[t].from
          /\ tokens[t].revoked => tokens'[t].revoked
  <2> SUFFICES ASSUME NEW t \in DOMAIN tokens
               PROVE /\ tokens'[t].user = tokens[t].user
                     /\ tokens'[t].password = tokens[t].password
                     /\ tokens'[t].from = tokens[t].from
                     /\ tokens[t].revoked => tokens'[t].revoked
    OBVIOUS
  <2>1. CASE t = o
    BY <2>1, <1>4, <1>7, TokenParts
  <2>2. CASE t # o
    BY <2>2, <1>7
  <2> QED
    BY <2>1, <2>2
<1>9. OnlyRevokes(tokens')
  BY <1>6, <1>8 DEF OnlyRevokes
<1>10. SessionsAreCurrent'
  BY <1>3, <1>6, <1>8 DEF IInv, SessionsAreCurrent, Loads
<1>11. SomebodyAdministers'
  BY <1>3 DEF IInv, SomebodyAdministers
<1> QED
  BY <1>1, <1>3, <1>6, <1>9, <1>10, <1>11, RevokingKeeps, CommitKeeps DEF IInv, TypeOK

LEMMA CreateKeeps ==
    ASSUME IInv, NEW r \in Requests, Create(r)
    PROVE IInv'
<1> DEFINE u == request[r].user
           row == [state |-> "active", admin |-> request[r].change.admin = "yes",
                   password |-> 0]
<1>1. Commit(r) /\ request[r].fresh /\ request[r].kind = "create"
  BY CommitRequests DEF Create, IInv
<1>2. u \in Users
  BY <1>1 DEF IInv, TypeOK
<1>3. account[u].state = "absent"
  BY <1>1 DEF IInv, FreshIsTrue, Relies
<1>4. account' = [account EXCEPT ![u] = row] /\ tokens' = tokens
  BY DEF Create
<1>5. row \in Account
  BY DEF Account
<1> HIDE DEF row
<1>6. account' \in [Users -> Account]
  BY <1>4, <1>5 DEF IInv, TypeOK
<1>7. \A v \in Users : v # u => account'[v] = account[v]
  BY <1>4 DEF IInv, TypeOK
<1>8. tokens \in Seq(Token)
  BY DEF IInv, TypeOK
<1>9. \A t \in DOMAIN tokens : tokens[t] \in Token
  BY <1>8
<1>10. \A t \in DOMAIN tokens : tokens[t].user \in Users
  BY <1>9, TokenParts
<1>11. SessionsAreCurrent'
  BY <1>3, <1>4, <1>7, <1>10 DEF IInv, SessionsAreCurrent, Loads
<1>12. SomebodyAdministers'
  BY <1>3, <1>7 DEF IInv, SomebodyAdministers
<1>13. (FromEarlier /\ ExchangedOnce)'
  BY <1>4 DEF IInv, FromEarlier, ExchangedOnce
<1> QED
  BY <1>1, <1>4, <1>6, <1>8, <1>11, <1>12, <1>13, CommitKeeps

LEMMA UpdateKeeps ==
    ASSUME IInv, NEW r \in Requests, Update(r)
    PROVE IInv'
<1> DEFINE u == request[r].user
           a == request[r].by
           change == request[r].change
           row == Changed(account[u], change)
<1>1. Commit(r) /\ request[r].fresh /\ request[r].kind = "update"
  BY CommitRequests DEF Update, IInv
<1>2. u \in Users /\ change \in Change
  BY <1>1, RequestParts DEF IInv, TypeOK
<1>3. /\ a \in Users /\ account[a].state = "active" /\ account[a].admin
      /\ account[u].state # "absent" /\ Allowed(a, u, change)
  BY <1>1 DEF IInv, FreshIsTrue, Relies
<1>4. account' = [account EXCEPT ![u] = row]
  BY DEF Update
<1>5. account[u] \in Account
  BY <1>2 DEF IInv, TypeOK
<1>6. row \in Account
  BY <1>2, <1>5, ChangedType
<1>7. ~Revokes(change) /\ account[u].state = "active" =>
         row.state = "active" /\ row.password = account[u].password
  BY <1>2, ChangeType DEF Revokes, Changed, Decide
<1>8. a = u => row.state = "active" /\ row.admin
  BY <1>2, <1>3, ChangeType DEF Allowed, Changed, Decide
<1> HIDE DEF row
<1>9. account' \in [Users -> Account]
  BY <1>4, <1>6 DEF IInv, TypeOK
<1>10. \A v \in Users : account'[v] = IF v = u THEN row ELSE account[v]
  BY <1>4 DEF IInv, TypeOK
<1>11. tokens \in Seq(Token)
  BY DEF IInv, TypeOK
<1>12. \A t \in DOMAIN tokens : tokens[t] \in Token
  BY <1>11
<1> DEFINE Dies(t) == tokens[t].user = u /\ Revokes(change)
<1>13. tokens' = [t \in DOMAIN tokens |-> IF Dies(t) THEN Revoked(tokens[t]) ELSE tokens[t]]
  BY DEF Update
<1> HIDE DEF Dies
<1>14. \A t \in DOMAIN tokens : tokens'[t] = IF Dies(t) THEN Revoked(tokens[t]) ELSE tokens[t]
  BY <1>13
<1>15. \A t \in DOMAIN tokens : tokens'[t] \in Token
  <2> SUFFICES ASSUME NEW t \in DOMAIN tokens PROVE tokens'[t] \in Token
    OBVIOUS
  <2>1. tokens[t] \in Token
    BY <1>12
  <2>2. Revoked(tokens[t]) \in Token
    BY <2>1, TokenParts
  <2> QED
    BY <2>1, <2>2, <1>14
<1>16. DOMAIN tokens' = DOMAIN tokens /\ DOMAIN tokens = 1 .. Len(tokens) /\ Len(tokens) \in Nat
  BY <1>11, <1>13
<1>17. tokens' = [t \in 1 .. Len(tokens) |->
                     IF Dies(t) THEN Revoked(tokens[t]) ELSE tokens[t]]
  BY <1>13, <1>16
<1>18. tokens' \in Seq(Token)
  BY <1>15, <1>16, <1>17
<1>19. \A t \in DOMAIN tokens :
          /\ tokens'[t].user = tokens[t].user /\ tokens'[t].password = tokens[t].password
          /\ tokens'[t].from = tokens[t].from
          /\ tokens[t].revoked => tokens'[t].revoked
          /\ Dies(t) => tokens'[t].revoked
  <2> SUFFICES ASSUME NEW t \in DOMAIN tokens
               PROVE /\ tokens'[t].user = tokens[t].user
                     /\ tokens'[t].password = tokens[t].password
                     /\ tokens'[t].from = tokens[t].from
                     /\ tokens[t].revoked => tokens'[t].revoked
                     /\ Dies(t) => tokens'[t].revoked
    OBVIOUS
  <2>1. tokens[t] \in Token
    BY <1>12
  <2>2. CASE Dies(t)
    <3>1. tokens'[t] = Revoked(tokens[t])
      BY <2>2, <1>14
    <3>2. /\ Revoked(tokens[t]).user = tokens[t].user
          /\ Revoked(tokens[t]).password = tokens[t].password
          /\ Revoked(tokens[t]).from = tokens[t].from
          /\ Revoked(tokens[t]).revoked = TRUE
      BY <2>1, TokenParts
    <3> QED
      BY <3>1, <3>2
  <2>3. CASE ~Dies(t)
    BY <2>3, <1>14
  <2> QED
    BY <2>2, <2>3
<1>20. OnlyRevokes(tokens')
  BY <1>16, <1>18, <1>19 DEF OnlyRevokes
<1>21. SessionsAreCurrent'
  <2> SUFFICES ASSUME NEW t \in DOMAIN tokens, ~tokens'[t].revoked
               PROVE /\ account'[tokens[t].user].state = "active"
                     /\ tokens[t].password = account'[tokens[t].user].password
    BY <1>16, <1>19 DEF SessionsAreCurrent, Loads
  <2>1. ~tokens[t].revoked /\ ~Dies(t) /\ tokens[t].user \in Users
    BY <1>12, <1>19, TokenParts
  <2>2. /\ account[tokens[t].user].state = "active"
        /\ tokens[t].password = account[tokens[t].user].password
    BY <2>1 DEF IInv, SessionsAreCurrent, Loads
  <2>3. CASE tokens[t].user = u
    <3>1. ~Revokes(change)
      BY <2>1, <2>3 DEF Dies
    <3> QED
      BY <2>2, <2>3, <3>1, <1>2, <1>7, <1>10
  <2>4. CASE tokens[t].user # u
    BY <2>1, <2>2, <2>4, <1>10
  <2> QED
    BY <2>3, <2>4
<1>22. SomebodyAdministers'
  BY <1>3, <1>8, <1>10 DEF SomebodyAdministers
<1> QED
  BY <1>1, <1>9, <1>16, <1>18, <1>20, <1>21, <1>22, RevokingKeeps, CommitKeeps

-----------------------------------------------------------------------------
(* The theorems. *)

LEMMA InitKeeps == Init => IInv
<1> SUFFICES ASSUME Init PROVE IInv
  OBVIOUS
<1>1. TypeOK
  BY InitType
<1>2. \A r \in Requests : ~request[r].fresh
  BY DEF Init, NoRequest
<1>3. DOMAIN tokens = {}
  BY DEF Init
<1>4. SomebodyAdministers
  BY DEF Init, SomebodyAdministers
<1> QED
  BY <1>1, <1>2, <1>3, <1>4
     DEF IInv, FreshIsTrue, FromEarlier, SessionsAreCurrent, ExchangedOnce

LEMMA StepKeeps == IInv /\ [Next]_vars => IInv'
<1> SUFFICES ASSUME IInv, [Next]_vars PROVE IInv'
  OBVIOUS
<1>1. ASSUME NEW r \in Requests, NEW u \in Users, BeginLogin(r, u) PROVE IInv'
  BY <1>1, BeginLoginKeeps
<1>2. ASSUME NEW r \in Requests, NEW t \in DOMAIN tokens, BeginRefresh(r, t) PROVE IInv'
  BY <1>2, BeginRefreshKeeps
<1>3. ASSUME NEW r \in Requests, NEW t \in DOMAIN tokens, BeginLogout(r, t) PROVE IInv'
  BY <1>3, BeginLogoutKeeps
<1>4. ASSUME NEW r \in Requests, NEW a \in Users, NEW u \in Users,
             NEW admin \in {"yes", "no"}, BeginCreate(r, a, u, admin)
      PROVE IInv'
  BY <1>4, BeginCreateKeeps
<1>5. ASSUME NEW r \in Requests, NEW a \in Users, NEW u \in Users,
             NEW change \in Changes, BeginUpdate(r, a, u, change)
      PROVE IInv'
  BY <1>5, BeginUpdateKeeps
<1>6. ASSUME NEW r \in Requests, Login(r) PROVE IInv'
  BY <1>6, LoginKeeps
<1>7. ASSUME NEW r \in Requests, Refresh(r) PROVE IInv'
  BY <1>7, RefreshKeeps
<1>8. ASSUME NEW r \in Requests, Logout(r) PROVE IInv'
  BY <1>8, LogoutKeeps
<1>9. ASSUME NEW r \in Requests, Create(r) PROVE IInv'
  BY <1>9, CreateKeeps
<1>10. ASSUME NEW r \in Requests, Update(r) PROVE IInv'
  BY <1>10, UpdateKeeps
<1>11. ASSUME NEW r \in Requests, Fail(r) PROVE IInv'
  BY <1>11, FailKeeps
<1>12. CASE UNCHANGED vars
  BY <1>12 DEF vars, IInv, TypeOK, FreshIsTrue, Relies, Loads, FromEarlier,
               SessionsAreCurrent, ExchangedOnce, SomebodyAdministers
<1> QED
  BY <1>1, <1>2, <1>3, <1>4, <1>5, <1>6, <1>7, <1>8, <1>9, <1>10, <1>11, <1>12 DEF Next

LEMMA Inductive == Spec => []IInv
<1>1. Init => IInv
  BY InitKeeps
<1>2. IInv /\ [Next]_vars => IInv'
  BY StepKeeps
<1> QED
  BY <1>1, <1>2, PTL DEF Spec

\* The tables and the requests keep their columns, whatever overlaps.
THEOREM TypeCorrect == Spec => []TypeOK
  BY Inductive, PTL DEF IInv

\* However many requests overlap, no session of before a locking or a change of the
\* password can be refreshed after it.
THEOREM SessionsStayCurrent == Spec => []SessionsAreCurrent
  BY Inductive, PTL DEF IInv

\* Of any number of requests with one refresh token at most one gets a successor.
THEOREM TokensAreExchangedOnce == Spec => []ExchangedOnce
  BY Inductive, PTL DEF IInv

\* The installation never loses its last administrator.
THEOREM AlwaysAdministered == Spec => []SomebodyAdministers
  BY Inductive, PTL DEF IInv
=============================================================================
