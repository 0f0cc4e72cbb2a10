------------------------------ MODULE Sessions -------------------------------
(***************************************************************************)
(* Login sessions: services/auth.py, api/auth.py and web/deps.py.          *)
(*                                                                         *)
(* A session is a row of the sessions table, found by the hash of its      *)
(* token and touched or deleted by its integer id.  Dependencies that are  *)
(* plain `def` run in a pool of threads, so requests overlap between any   *)
(* two statements: resolve_session reads the row in one and updates or     *)
(* deletes it in another, and sqlite3 opens no transaction for the first.  *)
(* The id column is an INTEGER PRIMARY KEY without AUTOINCREMENT: SQLite   *)
(* gives the id of a deleted last row to the next one.                     *)
(***************************************************************************)
EXTENDS Naturals, FiniteSets, FiniteSetsExt

CONSTANTS
    Tokens,    \* tokens: secrets.token_urlsafe, so one is issued once
    Requests,  \* requests under way
    NoToken,   \* no row, no cookie
    Limit      \* session_idle_timeout_minutes, in ticks

ASSUME LimitAssumption == Limit \in Nat
ASSUME NoTokenAssumption == NoToken \notin Tokens
ASSUME TokensAssumption == IsFiniteSet(Tokens)

VARIABLES
    table,   \* table[i]: the token of the row with id i
    idle,    \* idle[t]: the time since the row's last_seen
    role,    \* role[t]: the role in the row; "none" before the login
    out,     \* tokens logged out
    pc,      \* where request r is
    cookie,  \* the token it came with
    loaded,  \* the row it has read: id, the token's user, idle time, role
    as       \* the session the route gets

vars == <<table, idle, role, out, pc, cookie, loaded, as>>
dbVars == <<table, idle, role, out>>

Ids == 1..Cardinality(Tokens)
Used == {i \in Ids : table[i] # NoToken}
NoRow == [id |-> 0, token |-> NoToken, idle |-> 0, role |-> "none"]

Init ==
    /\ table = [i \in Ids |-> NoToken]
    /\ idle = [t \in Tokens |-> 0]
    /\ role = [t \in Tokens |-> "none"]
    /\ out = {}
    /\ pc = [r \in Requests |-> "idle"]
    /\ cookie = [r \in Requests |-> NoToken]
    /\ loaded = [r \in Requests |-> NoRow]
    /\ as = [r \in Requests |-> NoToken]

\* Time passes for every row; more than the limit is all the same.
Tick ==
    /\ idle' = [t \in Tokens |-> IF idle[t] > Limit THEN idle[t] ELSE idle[t] + 1]
    /\ idle' # idle
    /\ UNCHANGED <<table, role, out, pc, cookie, loaded, as>>

-----------------------------------------------------------------------------
(* Login and logout.                                                        *)

\* PamAuthenticator: nasos-admin gives admin, nasos-users gives user, and
\* whoever is in neither is refused like a wrong password.
Roles == {"admin", "user"}

\* SQLite: one more than the largest id there is.
NextId == Max(Used \cup {0}) + 1

\* create_session: the row and its commit.
create_session(t, ro) ==
    /\ table' = [table EXCEPT ![NextId] = t]
    /\ idle' = [idle EXCEPT ![t] = 0]
    /\ role' = [role EXCEPT ![t] = ro]

\* POST /login: the agent has authenticated the user.
login(t, ro) ==
    /\ role[t] = "none"
    /\ create_session(t, ro)
    /\ UNCHANGED <<out, pc, cookie, loaded, as>>

\* destroy_session: DELETE ... WHERE token_hash = ..., in one statement.
destroy_session(t) ==
    table' = [i \in Ids |-> IF table[i] = t THEN NoToken ELSE table[i]]

\* POST /logout does not ask whether the session is still good.
logout(t) ==
    /\ role[t] # "none" /\ t \notin out
    /\ destroy_session(t)
    /\ out' = out \cup {t}
    /\ UNCHANGED <<idle, role, pc, cookie, loaded, as>>

-----------------------------------------------------------------------------
(* A request that needs a session.                                          *)

Refuse(r, t) ==
    /\ pc[r] = "idle"
    /\ pc' = [pc EXCEPT ![r] = "refused"]
    /\ cookie' = [cookie EXCEPT ![r] = t]
    /\ UNCHANGED <<dbVars, loaded, as>>

\* A mutating request without the header goes no further.
csrf_guard(r, t) == Refuse(r, t)

\* get_current_session: no cookie, or a token that has no row.
NotAuthenticated(r, t) == t \notin {table[i] : i \in Used} /\ Refuse(r, t)

\* Fault: the session goes when the limit is reached, not past it.
Expired_atLimit(n) == n >= Limit
\* now - last_seen > idle_timeout
Expired(n) == n > Limit

\* resolve_session: the SELECT, and the comparison with the clock.
Select(r, i) ==
    /\ pc[r] = "idle" /\ table[i] # NoToken
    /\ LET t == table[i] IN
         /\ cookie' = [cookie EXCEPT ![r] = t]
         /\ loaded' = [loaded EXCEPT ![r] =
                         [id |-> i, token |-> t, idle |-> idle[t], role |-> role[t]]]
         /\ pc' = [pc EXCEPT ![r] = IF Expired(idle[t]) THEN "evict" ELSE "touch"]
    /\ UNCHANGED <<dbVars, as>>

\* The row with the id that was read, whoever's it is by now.
RowNow(r) == table[loaded[r].id]

\* Fault: the attributes are read again from the table after the commit.
Identity_reloaded(r) == RowNow(r)
\* expire_on_commit=False: the object keeps what the SELECT gave it.
Identity(r) == loaded[r].token

\* Fault: db.merge: a row that is gone is inserted again.
Touch_merge(r) ==
    /\ pc[r] = "touch"
    /\ table' = [table EXCEPT ![loaded[r].id] = cookie[r]]
    /\ as' = [as EXCEPT ![r] = Identity(r)]
    /\ pc' = [pc EXCEPT ![r] = "resolved"]
    /\ UNCHANGED <<idle, role, out, cookie, loaded>>
\* last_seen = now and commit: UPDATE ... WHERE id = ....
Touch(r) ==
    /\ pc[r] = "touch" /\ RowNow(r) # NoToken
    /\ idle' = [idle EXCEPT ![RowNow(r)] = 0]
    /\ as' = [as EXCEPT ![r] = Identity(r)]
    /\ pc' = [pc EXCEPT ![r] = "resolved"]
    /\ UNCHANGED <<table, role, out, cookie, loaded>>

\* The UPDATE matches no row (StaleDataError), or another writer keeps the
\* database locked for longer than sqlite3 waits.
WriteFails(r) ==
    /\ pc[r] \in {"touch", "evict"}
    /\ pc' = [pc EXCEPT ![r] = "error"]
    /\ UNCHANGED <<dbVars, cookie, loaded, as>>

\* DELETE ... WHERE id = ...: one that is gone already is no error.
Evicted(r) == [table EXCEPT ![loaded[r].id] = NoToken]

\* db.delete(row) and commit: 401.
Evict(r) ==
    /\ pc[r] = "evict"
    /\ table' = Evicted(r)
    /\ pc' = [pc EXCEPT ![r] = "refused"]
    /\ UNCHANGED <<idle, role, out, cookie, loaded, as>>

\* require_admin looks at the role the row had.
MayEnter(r, route) == route = "admin" => loaded[r].role = "admin"

\* The route runs, or answers 403.
Enter(r, route) ==
    /\ pc[r] = "resolved"
    /\ pc' = [pc EXCEPT ![r] = IF MayEnter(r, route) THEN route ELSE "refused"]
    /\ UNCHANGED <<dbVars, cookie, loaded, as>>

\* The answer has been sent; the request's place is free for another.
End(r) ==
    /\ pc[r] \in {"admin", "user", "refused", "error"}
    /\ pc' = [pc EXCEPT ![r] = "idle"]
    /\ cookie' = [cookie EXCEPT ![r] = NoToken]
    /\ loaded' = [loaded EXCEPT ![r] = NoRow]
    /\ as' = [as EXCEPT ![r] = NoToken]
    /\ UNCHANGED dbVars

Next ==
    \/ Tick
    \/ \E t \in Tokens, ro \in Roles : login(t, ro)
    \/ \E t \in Tokens : logout(t)
    \/ \E r \in Requests, t \in Tokens \cup {NoToken} :
          csrf_guard(r, t) \/ NotAuthenticated(r, t)
    \/ \E r \in Requests, i \in Ids : Select(r, i)
    \/ \E r \in Requests : Touch(r) \/ WriteFails(r) \/ Evict(r) \/ End(r)
    \/ \E r \in Requests, route \in Roles : Enter(r, route)

Spec == Init /\ [][Next]_vars

-----------------------------------------------------------------------------
(* Properties.                                                              *)

\* The variables have their types, and a token has at most one row.
TypeOK ==
    /\ table \in [Ids -> Tokens \cup {NoToken}]
    /\ \A i, j \in Used : table[i] = table[j] => i = j
    /\ idle \in [Tokens -> 0..(Limit + 1)]
    /\ role \in [Tokens -> Roles \cup {"none"}]
    /\ out \subseteq Tokens
    /\ pc \in [Requests -> {"idle", "touch", "evict", "resolved", "admin", "user",
                            "refused", "error"}]
    /\ cookie \in [Requests -> Tokens \cup {NoToken}]
    /\ loaded \in [Requests -> [id : Ids \cup {0}, token : Tokens \cup {NoToken},
                                idle : 0..(Limit + 1), role : Roles \cup {"none"}]]
    /\ as \in [Requests -> Tokens \cup {NoToken}]

\* A request acts for the user its own token was issued to, and with that
\* user's role, even when its row was deleted under way and the id given to
\* somebody else's session.
ServedAsItself ==
    \A r \in Requests :
        /\ pc[r] \in {"resolved", "admin", "user"} => as[r] = cookie[r]
        /\ pc[r] = "admin" => role[cookie[r]] = "admin"

\* A session that was logged out does not come back, although requests that
\* had read its row before go on and write to it; nor does one that a request
\* found expired and was refused for.
EndedStaysEnded ==
    /\ \A i \in Used : table[i] \notin out
    /\ \A r \in Requests :
         pc[r] = "refused" /\ cookie[r] # NoToken /\ Expired(loaded[r].idle) =>
             \A i \in Used : table[i] # cookie[r]

\* A session ends by its own logout, or by a request that came with its own
\* token and found it idle for longer than the limit.  The one exception is
\* what the reuse of ids allows: two requests find one session expired, the
\* first deletes it, its user logs in again and gets the same id, and the
\* second deletes the new session.
EndsByItsOwn ==
    [][\A t \in Tokens :
         (\E i \in Ids : table[i] = t) /\ ~(\E i \in Ids : table'[i] = t) =>
            \/ t \in out'
            \/ \E r \in Requests :
                 pc[r] = "evict" /\ cookie[r] = t /\ loaded[r].idle > Limit
            \/ \E r \in Requests :
                 pc[r] = "evict" /\ cookie[r] # t /\ RowNow(r) = t]_vars
==============================================================================
