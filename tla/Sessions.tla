-------------------------------- MODULE Sessions --------------------------------
(***************************************************************************)
(* Accounts, refresh tokens and the requests about them: login, refresh    *)
(* with rotation, logout, and the administration of users.                 *)
(*                                                                         *)
(* A request is one transaction, from its first read (Begin...) to its     *)
(* commit, with the hashing of a password or the work of other requests in *)
(* between.  What it decides it decides on what it read.  SQLite refuses   *)
(* the write of a transaction that read before another one committed:      *)
(* fresh says that nobody has, and such a request fails.                   *)
(***************************************************************************)
EXTENDS Naturals, Sequences

CONSTANTS Users,         \* the accounts there may be
          FirstAdmin,    \* the one the installation begins with
          Requests,      \* the requests under way at a time
          MaxTokens,     \* bound: the refresh tokens ever issued
          MaxPasswords,  \* bound: the passwords an account gets
          Changes,       \* bound: the bodies of PATCH /admin/users/{id} that are tried
          None

VARIABLES account,  \* the tables users and user_roles
          tokens,   \* the table refresh_tokens; a jti is the position
          request   \* request[r]: what the transaction read and is about to do

vars == << account, tokens, request >>

Account == [state : {"absent", "active", "inactive"}, admin : BOOLEAN, password : Nat]

\* password, from: history, the password the session was opened with and the token
\* this one was issued in exchange for (0 after a login).
Token == [user : Users, password : Nat, revoked : BOOLEAN, from : Nat]

\* The body of PATCH /admin/users/{id}; "same" is a field left out.
Change == [password : BOOLEAN, admin : {"same", "yes", "no"}, active : {"same", "yes", "no"}]
NoChange == [password |-> FALSE, admin |-> "same", active |-> "same"]

ASSUME SessionsAssumption ==
    /\ FirstAdmin \in Users
    /\ None \notin Users
    /\ MaxTokens \in Nat /\ MaxPasswords \in Nat
    /\ Changes \subseteq Change


Request == [kind : {"none", "login", "refresh", "logout", "create", "update"},
            by : Users \cup {None}, user : Users \cup {None}, password : Nat, token : Nat,
            change : Change, fresh : BOOLEAN]
NoRequest == [kind |-> "none", by |-> None, user |-> None, password |-> 0, token |-> 0,
              change |-> NoChange, fresh |-> FALSE]

Init ==
    /\ account = [u \in Users |-> [state |-> IF u = FirstAdmin THEN "active" ELSE "absent",
                                   admin |-> u = FirstAdmin, password |-> 0]]
    /\ tokens = << >>
    /\ request = [r \in Requests |-> NoRequest]

-----------------------------------------------------------------------------
(* Transactions. *)

Begin(r, row) ==
    /\ request[r].kind = "none"
    /\ request' = [request EXCEPT ![r] = row]
    /\ UNCHANGED << account, tokens >>

\* A mutated form of MayWrite: as if a transaction wrote over what others committed.
MayWriteAnyway(r) == TRUE

\* The first write of a transaction succeeds only if nobody committed since its
\* first read.
MayWrite(r) == request[r].fresh

Outdated(row) == [row EXCEPT !.fresh = FALSE]

\* The commit: the request is over, and those that read before it are outdated.
Commit(r) ==
    /\ MayWrite(r)
    /\ request' = [q \in Requests |-> IF q = r THEN NoRequest ELSE Outdated(request[q])]

\* Any answer that changes nothing: refused, locked, or the process ended.
Fail(r) ==
    /\ request[r].kind # "none"
    /\ request' = [request EXCEPT ![r] = NoRequest]
    /\ UNCHANGED << account, tokens >>

-----------------------------------------------------------------------------
(* Sessions. *)

\* _load_refresh does not raise TOKEN_REVOKED.
Loads(t) == ~tokens[t].revoked

Issued(u, password, from) ==
    [user |-> u, password |-> password, revoked |-> FALSE, from |-> from]

\* authenticate: the account is there and active, and the password is the right one.
BeginLogin(r, u) ==
    /\ account[u].state = "active"
    /\ Begin(r, [NoRequest EXCEPT !.kind = "login", !.user = u, !.fresh = TRUE,
                                  !.password = account[u].password])

Login(r) ==
    LET u == request[r].user IN
    /\ request[r].kind = "login" /\ Len(tokens) < MaxTokens
    /\ Commit(r)
    /\ tokens' = Append(tokens, Issued(u, request[r].password, 0))
    /\ UNCHANGED account

BeginRefresh(r, t) ==
    /\ Loads(t) /\ account[tokens[t].user].state = "active"
    /\ Begin(r, [NoRequest EXCEPT !.kind = "refresh", !.token = t, !.fresh = TRUE])

Revoked(row) == [row EXCEPT !.revoked = TRUE]

\* rotate_refresh: the old token is revoked with the commit that issues the new one.
Refresh(r) ==
    LET t == request[r].token
        u == tokens[t].user
    IN
    /\ request[r].kind = "refresh" /\ Len(tokens) < MaxTokens
    /\ Commit(r)
    /\ tokens' = Append([tokens EXCEPT ![t] = Revoked(tokens[t])],
                        Issued(u, tokens[t].password, t))
    /\ UNCHANGED account

\* revoke_refresh; a token that does not load is left alone.
BeginLogout(r, t) ==
    /\ Loads(t)
    /\ Begin(r, [NoRequest EXCEPT !.kind = "logout", !.token = t, !.fresh = TRUE])

Logout(r) ==
    /\ request[r].kind = "logout"
    /\ Commit(r)
    /\ tokens' = [tokens EXCEPT ![request[r].token] = Revoked(tokens[request[r].token])]
    /\ UNCHANGED account

-----------------------------------------------------------------------------
(* Administration. *)

\* get_current_user and require_roles("ADMIN"): the access token, which came with a
\* refresh token, names the user; whether he is active and an administrator is read
\* from the tables.
Administrator(a) ==
    /\ \E t \in DOMAIN tokens : tokens[t].user = a
    /\ account[a].state = "active"
    /\ account[a].admin

\* POST /admin/users; the name and the address are free.
BeginCreate(r, a, u, admin) ==
    /\ Administrator(a) /\ account[u].state = "absent"
    /\ Begin(r, [NoRequest EXCEPT !.kind = "create", !.user = u, !.fresh = TRUE,
                                  !.change.admin = admin])

Create(r) ==
    /\ request[r].kind = "create"
    /\ Commit(r)
    /\ account' = [account EXCEPT ![request[r].user] =
                      [state |-> "active", admin |-> request[r].change.admin = "yes",
                       password |-> 0]]
    /\ UNCHANGED tokens

\* A mutated form of Allowed: one may lock one's own account.
AllowedToLeave(a, u, change) == u = a => change.admin # "no"

\* The refusals of update_user: nobody takes his own rights or locks himself out.
Allowed(a, u, change) == u = a => change.admin # "no" /\ change.active # "no"

BeginUpdate(r, a, u, change) ==
    /\ Administrator(a) /\ account[u].state # "absent"
    /\ Allowed(a, u, change)
    /\ change.password => account[u].password < MaxPasswords
    /\ Begin(r, [NoRequest EXCEPT !.kind = "update", !.by = a, !.user = u,
                                  !.fresh = TRUE, !.change = change])

Decide(word, otherwise) ==
    CASE word = "yes" -> TRUE [] word = "no" -> FALSE [] OTHER -> otherwise

Changed(row, change) ==
    [state |-> IF Decide(change.active, row.state = "active") THEN "active" ELSE "inactive",
     admin |-> Decide(change.admin, row.admin),
     password |-> IF change.password THEN row.password + 1 ELSE row.password]

\* A mutated form of Revokes: a new password leaves the sessions open.
RevokesLocked(change) == change.active = "no"

\* When update_user calls _revoke_all.
Revokes(change) == change.password \/ change.active = "no"

Update(r) ==
    LET u == request[r].user
        change == request[r].change
    IN
    /\ request[r].kind = "update"
    /\ Commit(r)
    /\ account' = [account EXCEPT ![u] = Changed(account[u], change)]
    /\ tokens' = [t \in DOMAIN tokens |->
          IF tokens[t].user = u /\ Revokes(change)
          THEN Revoked(tokens[t]) ELSE tokens[t]]

Next ==
    \E r \in Requests :
        \/ \E u \in Users : BeginLogin(r, u)
        \/ \E t \in DOMAIN tokens : BeginRefresh(r, t) \/ BeginLogout(r, t)
        \/ \E a, u \in Users : \/ \E admin \in {"yes", "no"} : BeginCreate(r, a, u, admin)
                               \/ \E change \in Changes : BeginUpdate(r, a, u, change)
        \/ Login(r) \/ Refresh(r) \/ Logout(r) \/ Create(r) \/ Update(r)
        \/ Fail(r)

Spec == Init /\ [][Next]_vars

-----------------------------------------------------------------------------
(* Properties. *)

\* The tables and the requests have the columns declared above.
TypeOK ==
    /\ account \in [Users -> Account]
    /\ tokens \in Seq(Token)
    /\ request \in [Requests -> Request]
    /\ \A r \in Requests :
          /\ request[r].kind \in {"refresh", "logout"} => request[r].token \in DOMAIN tokens
          /\ request[r].kind \in {"login", "create", "update"} => request[r].user \in Users

\* A refresh token that would be accepted belongs to an account that is active, and
\* to a session opened with the password the account has now: however a login or a
\* refresh overlaps with a locking or a change of the password, no session of
\* before survives it.
SessionsAreCurrent ==
    \A t \in DOMAIN tokens : Loads(t) =>
        /\ account[tokens[t].user].state = "active"
        /\ tokens[t].password = account[tokens[t].user].password

\* A refresh token is exchanged once: of several requests with one token (two tabs,
\* a repeated call) at most one gets a successor, and then the token is dead.
ExchangedOnce ==
    \A s \in DOMAIN tokens : tokens[s].from # 0 =>
        /\ tokens[tokens[s].from].revoked
        /\ \A t \in DOMAIN tokens : tokens[t].from = tokens[s].from => t = s

\* There is always an active administrator, though two may take each other's rights
\* or lock each other at the same time.
SomebodyAdministers ==
    \E u \in Users : account[u].state = "active" /\ account[u].admin
=============================================================================
