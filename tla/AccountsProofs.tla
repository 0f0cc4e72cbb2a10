---------------------------- MODULE AccountsProofs ---------------------------
(***************************************************************************)
(* Proofs about who has an account and who is served as whom.              *)
(*                                                                         *)
(* Sessions, for any number of tokens and of requests that overlap: whom a *)
(* request is served as, that an ended session stays ended, and what can   *)
(* end one.  The argument is about ids.  SQLite gives the id of a deleted  *)
(* row to a new one, so a request may hold the id of a row that is no      *)
(* longer its own; but a token is issued once, so the only row its token   *)
(* can ever have is the one it read.                                       *)
(*                                                                         *)
(* Accounts, for any names, passwords and requests at one time, and any    *)
(* number of requests, failures and restarts: a row tells the truth, and   *)
(* no account or passdb entry is left unaccounted.  The argument goes name *)
(* by name.  A request that others overlap, or whose answer is lost,       *)
(* leaves its name in doubt, and nothing is claimed of it; a request that  *)
(* is alone on its name finds the name as it left it, so what is true of   *)
(* the name follows its commands stage by stage.  A step for one name      *)
(* changes nothing for another, except a row written by a stale number.    *)
(* That no account is forgotten is a count: creates that are at work and   *)
(* rows outnumber accounts and deletes that are through.                   *)
(***************************************************************************)
EXTENDS Sessions, Accounts, FiniteSetTheorems, WellFoundedInduction, TLAPS

-----------------------------------------------------------------------------
(* Sessions.                                                                *)

\* A token in the table was issued and has not been logged out.
RowInv ==
    /\ \A i \in Used : role[table[i]] # "none" /\ table[i] \notin out
    /\ \A t \in out : role[t] # "none"

\* The row request r has read is its token's, and no other row ever is.
HasRead(r) ==
    /\ cookie[r] \in Tokens /\ loaded[r].token = cookie[r] /\ loaded[r].id \in Ids
    /\ role[cookie[r]] # "none" /\ loaded[r].role = role[cookie[r]]
    /\ \A i \in Used : table[i] = cookie[r] => i = loaded[r].id

\* A request goes from step to step with the row it has read.
RequestInv ==
    \A r \in Requests :
        /\ pc[r] = "idle" => loaded[r] = NoRow
        /\ loaded[r] = NoRow \/ HasRead(r)
        /\ pc[r] \in {"touch", "evict", "resolved", "admin", "user"} => HasRead(r)
        /\ pc[r] = "evict" => Expired(loaded[r].idle)
        /\ pc[r] \in {"touch", "resolved"} => ~Expired(loaded[r].idle)
        /\ pc[r] = "admin" => loaded[r].role = "admin"

\* The inductive invariant.
IInv == TypeOK /\ RowInv /\ RequestInv /\ ServedAsItself /\ EndedStaysEnded

-----------------------------------------------------------------------------
\* A set of numbers with a bound has a largest one.
LEMMA MaxFacts ==
    ASSUME NEW S \in SUBSET Nat, S # {}, NEW n \in Nat, \A s \in S : s <= n
    PROVE  Max(S) \in S /\ \A s \in S : s <= Max(S)
  <1> DEFINE Above == {m \in Nat : \A s \in S : s <= m}
  <1>1. n \in Above /\ Above \subseteq Nat
    OBVIOUS
  <1>2. PICK m \in Above : \A k \in Above : ~(<<k, m>> \in OpToRel(<, Nat))
    BY <1>1, WFMin, NatLessThanWellFounded
  <1>3. \A k \in Above : ~(k < m)
    BY <1>2 DEF OpToRel
  <1>4. m \in S
    <2>1. SUFFICES ASSUME m \notin S PROVE FALSE
      OBVIOUS
    <2>2. \A s \in S : s <= m /\ s # m /\ s \in Nat
      BY <2>1
    <2>3. m # 0
      <3>1. PICK s \in S : TRUE
        OBVIOUS
      <3>2. s <= m /\ s # m /\ s \in Nat
        BY <2>2
      <3>3. QED
        BY <3>2
    <2>4. m - 1 \in Above
      BY <2>2, <2>3
    <2>5. QED
      BY <1>3, <2>3, <2>4
  <1>5. \A s \in S : m >= s
    OBVIOUS
  <1>6. \A x \in S : (\A y \in S : x >= y) => x = m
    BY <1>4, <1>5
  <1>7. QED
    BY <1>4, <1>5, <1>6 DEF Max

\* The id of a new row is nobody's.
LEMMA NextIdIsFree == NextId \notin Used
  <1>1. Cardinality(Tokens) \in Nat
    BY TokensAssumption, FS_CardinalityType
  <1>2. Used \cup {0} \in SUBSET Nat /\ \A i \in Used \cup {0} : i <= Cardinality(Tokens)
    BY <1>1 DEF Used, Ids
  <1>3. Max(Used \cup {0}) \in Nat /\ \A i \in Used : i <= Max(Used \cup {0})
    BY <1>1, <1>2, MaxFacts
  <1>4. QED
    BY <1>2, <1>3 DEF NextId

\* As long as rows are only deleted, or inserted for a token that had never
\* been issued, what a request has read stays what it says.
LEMMA ReadsAreKept ==
    ASSUME TypeOK, NEW r \in Requests, HasRead(r),
           \A t \in Tokens : role[t] # "none" => role'[t] = role[t],
           \A i \in Ids : table'[i] = table[i] \/ table'[i] = NoToken
                          \/ role[table'[i]] = "none",
           cookie'[r] = cookie[r], loaded'[r] = loaded[r]
    PROVE  HasRead(r)'
  <1>1. cookie[r] \in Tokens /\ cookie[r] # NoToken
    BY NoTokenAssumption DEF HasRead
  <1>2. \A i \in Used' : table'[i] = cookie[r] => i = loaded[r].id
    BY <1>1 DEF HasRead, Used
  <1>3. QED
    BY <1>1, <1>2 DEF HasRead

\* Every step keeps the types, and one row at most per token.
LEMMA TypeStep ==
    ASSUME TypeOK, RowInv, RequestInv, [Next]_vars
    PROVE  TypeOK'
  <1> USE LimitAssumption, NoTokenAssumption DEF TypeOK, dbVars
  <1>1. CASE Tick
    <2>1. idle' \in [Tokens -> 0..(Limit + 1)]
      BY <1>1 DEF Tick
    <2>2. QED
      BY <1>1, <2>1 DEF Tick, Used
  <1>2. ASSUME NEW t \in Tokens, NEW ro \in Roles, login(t, ro)
        PROVE  TypeOK'
    <2>1. \A i \in Used : table[i] # t
      BY <1>2 DEF login, RowInv
    <2>2. table \in [Ids -> Tokens \cup {NoToken}] /\ table' = [table EXCEPT ![NextId] = t]
      BY <1>2 DEF login, create_session
    <2>3. /\ table' \in [Ids -> Tokens \cup {NoToken}]
          /\ \A i \in Ids : table'[i] = table[i] \/ (i = NextId /\ table'[i] = t)
      BY <2>2
    <2>4. \A i, j \in Used' : table'[i] = table'[j] => i = j
      BY <2>1, <2>3 DEF Used
    <2>5. /\ idle' \in [Tokens -> 0..(Limit + 1)]
          /\ role' \in [Tokens -> Roles \cup {"none"}]
      BY <1>2 DEF login, create_session
    <2>6. QED
      BY <1>2, <2>3, <2>4, <2>5 DEF login
  <1>3. ASSUME NEW t \in Tokens, logout(t)
        PROVE  TypeOK'
    BY <1>3 DEF logout, destroy_session, Used
  <1>4. ASSUME NEW r \in Requests, NEW t \in Tokens \cup {NoToken}, Refuse(r, t)
        PROVE  TypeOK'
    BY <1>4 DEF Refuse, Used
  <1>5. ASSUME NEW r \in Requests, NEW i \in Ids, Select(r, i)
        PROVE  TypeOK'
    <2>1. table[i] \in Tokens
      BY <1>5 DEF Select
    <2>2. [id |-> i, token |-> table[i], idle |-> idle[table[i]], role |-> role[table[i]]]
            \in [id : Ids \cup {0}, token : Tokens \cup {NoToken},
                 idle : 0..(Limit + 1), role : Roles \cup {"none"}]
      BY <2>1
    <2>3. QED
      BY <1>5, <2>1, <2>2 DEF Select, Used
  <1>6. ASSUME NEW r \in Requests, Touch(r)
        PROVE  TypeOK'
    <2>1. loaded[r].token \in Tokens \cup {NoToken}
      OBVIOUS
    <2>2. as' \in [Requests -> Tokens \cup {NoToken}]
      BY <1>6, <2>1 DEF Touch, Identity
    <2>3. idle' \in [Tokens -> 0..(Limit + 1)]
      <3>1. idle' = [idle EXCEPT ![RowNow(r)] = 0] /\ 0 \in 0..(Limit + 1)
        BY <1>6 DEF Touch
      <3>2. QED
        BY <3>1
    <2>4. QED
      BY <1>6, <2>2, <2>3 DEF Touch, Used
  <1>7. ASSUME NEW r \in Requests, WriteFails(r)
        PROVE  TypeOK'
    BY <1>7 DEF WriteFails, Used
  <1>8. ASSUME NEW r \in Requests, Evict(r)
        PROVE  TypeOK'
    BY <1>8 DEF Evict, Evicted, Used
  <1>9. ASSUME NEW r \in Requests, NEW route \in Roles, Enter(r, route)
        PROVE  TypeOK'
    BY <1>9 DEF Enter, Used, Roles
  <1>10. ASSUME NEW r \in Requests, End(r)
         PROVE  TypeOK'
    <2>1. NoRow \in [id : Ids \cup {0}, token : Tokens \cup {NoToken},
                     idle : 0..(Limit + 1), role : Roles \cup {"none"}]
      BY DEF NoRow
    <2>2. QED
      BY <1>10, <2>1 DEF End, Used
  <1>11. CASE UNCHANGED vars
    BY <1>11 DEF vars, Used
  <1>12. QED
    BY <1>1, <1>2, <1>3, <1>4, <1>5, <1>6, <1>7, <1>8, <1>9, <1>10, <1>11
       DEF Next, csrf_guard, NotAuthenticated

\* Every step keeps the rows apart from what was logged out or never issued.
LEMMA RowStep ==
    ASSUME IInv, [Next]_vars
    PROVE  /\ RowInv'
           /\ \A t \in Tokens : role[t] # "none" => role'[t] = role[t]
           /\ \A i \in Ids : \/ table'[i] = table[i]
                             \/ table'[i] = NoToken
                             \/ table'[i] \in Tokens /\ role[table'[i]] = "none"
  <1> USE NoTokenAssumption DEF IInv, TypeOK, dbVars
  <1>1. ASSUME NEW t \in Tokens, NEW ro \in Roles, login(t, ro)
        PROVE  /\ RowInv'
               /\ \A u \in Tokens : role[u] # "none" => role'[u] = role[u]
               /\ \A i \in Ids : table'[i] = table[i] \/ (table'[i] = t /\ role[t] = "none")
    <2>1. \A i \in Ids : table'[i] = table[i] \/ table'[i] = t
      BY <1>1 DEF login, create_session
    <2>2. /\ role[t] = "none" /\ out' = out /\ role'[t] # "none"
          /\ \A u \in Tokens : u # t => role'[u] = role[u]
      BY <1>1 DEF login, create_session, Roles
    <2>3. QED
      BY <2>1, <2>2 DEF RowInv, Used
  <1>2. ASSUME NEW t \in Tokens, logout(t)
        PROVE  RowInv' /\ role' = role /\ \A i \in Ids : table'[i] \in {table[i], NoToken}
    <2>1. /\ role' = role /\ out' = out \cup {t} /\ role[t] # "none"
          /\ \A i \in Ids : table'[i] = IF table[i] = t THEN NoToken ELSE table[i]
      BY <1>2 DEF logout, destroy_session
    <2>2. QED
      BY <2>1 DEF RowInv, Used
  <1>3. ASSUME NEW r \in Requests, Evict(r)
        PROVE  RowInv' /\ role' = role /\ \A i \in Ids : table'[i] \in {table[i], NoToken}
    <2>1. role' = role /\ out' = out /\ \A i \in Ids : table'[i] \in {table[i], NoToken}
      BY <1>3 DEF Evict, Evicted
    <2>2. QED
      BY <2>1 DEF RowInv, Used
  <1>4. CASE UNCHANGED <<table, role, out>>
    <2>1. RowInv'
      BY <1>4 DEF RowInv, Used
    <2>2. QED
      BY <1>4, <2>1
  <1>5. ASSUME NEW r \in Requests,
               \/ Touch(r) \/ WriteFails(r) \/ End(r)
               \/ \E i \in Ids : Select(r, i)
               \/ \E route \in Roles : Enter(r, route)
               \/ \E t \in Tokens \cup {NoToken} : Refuse(r, t)
        PROVE  UNCHANGED <<table, role, out>>
    BY <1>5 DEF Touch, WriteFails, End, Select, Enter, Refuse
  <1>6. ASSUME Tick \/ UNCHANGED vars
        PROVE  UNCHANGED <<table, role, out>>
    BY <1>6 DEF Tick, vars
  <1>7. CASE \E t \in Tokens, ro \in Roles : login(t, ro)
    BY <1>1, <1>7
  <1>8. CASE \E t \in Tokens : logout(t)
    BY <1>2, <1>8
  <1>9. CASE \E r \in Requests : Evict(r)
    BY <1>3, <1>9
  <1>10. QED
    BY <1>4, <1>5, <1>6, <1>7, <1>8, <1>9 DEF Next, csrf_guard, NotAuthenticated
\* What RequestInv and the two properties say of one request.
Good(r) ==
    /\ pc[r] = "idle" => loaded[r] = NoRow
    /\ loaded[r] = NoRow \/ HasRead(r)
    /\ pc[r] \in {"touch", "evict", "resolved", "admin", "user"} => HasRead(r)
    /\ pc[r] = "evict" => Expired(loaded[r].idle)
    /\ pc[r] \in {"touch", "resolved"} => ~Expired(loaded[r].idle)
    /\ pc[r] = "admin" => loaded[r].role = "admin"
    /\ pc[r] \in {"resolved", "admin", "user"} => as[r] = cookie[r]
    /\ pc[r] = "refused" /\ cookie[r] # NoToken /\ Expired(loaded[r].idle) =>
         \A i \in Used : table[i] # cookie[r]

\* IInv is the rows' part and every request's.
LEMMA GoodIsInv ==
    /\ IInv <=> TypeOK /\ RowInv /\ \A r \in Requests : Good(r)
    /\ IInv' <=> TypeOK' /\ RowInv' /\ \A r \in Requests : Good(r)'
  <1>1. TypeOK /\ RowInv => (IInv <=> \A r \in Requests : Good(r))
    BY DEF IInv, RowInv, RequestInv, ServedAsItself, EndedStaysEnded, Good, HasRead
  <1>2. TypeOK' /\ RowInv' => (IInv' <=> \A r \in Requests : Good(r)')
    BY DEF IInv, RowInv, RequestInv, ServedAsItself, EndedStaysEnded, Good, HasRead
  <1>3. QED
    BY <1>1, <1>2 DEF IInv

\* A request that does nothing in a step stays good: what the others do to
\* the table cannot give its token another row.
LEMMA BystanderStep ==
    ASSUME IInv, [Next]_vars, NEW r \in Requests,
           UNCHANGED <<pc[r], cookie[r], loaded[r], as[r]>>
    PROVE  Good(r)'
  <1>1. TypeOK /\ Good(r)
    BY GoodIsInv
  <1>2. /\ \A t \in Tokens : role[t] # "none" => role'[t] = role[t]
        /\ \A i \in Ids : \/ table'[i] = table[i]
                          \/ table'[i] = NoToken
                          \/ table'[i] \in Tokens /\ role[table'[i]] = "none"
    BY RowStep
  <1>3. HasRead(r) => HasRead(r)'
    BY <1>1, <1>2, ReadsAreKept
  <1>4. pc[r] = "refused" /\ cookie[r] # NoToken /\ Expired(loaded[r].idle) =>
          \A i \in Used' : table'[i] # cookie[r]
    <2>1. SUFFICES ASSUME pc[r] = "refused", cookie[r] # NoToken, Expired(loaded[r].idle)
                   PROVE  \A i \in Used' : table'[i] # cookie[r]
      OBVIOUS
    <2>2. loaded[r] # NoRow
      BY <2>1, LimitAssumption DEF Expired, NoRow
    <2>3. role[cookie[r]] # "none"
      BY <1>1, <2>2 DEF Good, HasRead
    <2>4. \A i \in Used : table[i] # cookie[r]
      BY <1>1, <2>1 DEF Good
    <2>5. QED
      BY <1>2, <2>1, <2>3, <2>4 DEF Used
  <1>5. QED
    BY <1>1, <1>3, <1>4 DEF Good

\* A request that does a step itself.
LEMMA OwnStep ==
    ASSUME IInv, [Next]_vars, NEW r \in Requests,
           \/ Touch(r) \/ WriteFails(r) \/ Evict(r) \/ End(r)
           \/ \E i \in Ids : Select(r, i)
           \/ \E route \in Roles : Enter(r, route)
           \/ \E t \in Tokens \cup {NoToken} : Refuse(r, t)
    PROVE  Good(r)'
  <1> USE DEF dbVars
  <1>1. TypeOK /\ Good(r)
    BY GoodIsInv
  <1>2. /\ pc \in [Requests -> {"idle", "touch", "evict", "resolved", "admin", "user",
                                "refused", "error"}]
        /\ cookie \in [Requests -> Tokens \cup {NoToken}]
        /\ as \in [Requests -> Tokens \cup {NoToken}]
        /\ table \in [Ids -> Tokens \cup {NoToken}]
        /\ DOMAIN loaded = Requests
        /\ \A i, j \in Used : table[i] = table[j] => i = j
    BY <1>1 DEF TypeOK
  <1>3. /\ \A t \in Tokens : role[t] # "none" => role'[t] = role[t]
        /\ \A i \in Ids : \/ table'[i] = table[i]
                          \/ table'[i] = NoToken
                          \/ table'[i] \in Tokens /\ role[table'[i]] = "none"
    BY RowStep
  <1>4. HasRead(r) /\ UNCHANGED <<cookie[r], loaded[r]>> => HasRead(r)'
    BY <1>1, <1>3, ReadsAreKept
  <1>5. CASE Touch(r)
    <2>1. pc[r] = "touch" /\ HasRead(r) /\ ~Expired(loaded[r].idle)
      BY <1>1, <1>5 DEF Touch, Good
    <2>2. pc'[r] = "resolved" /\ as'[r] = cookie[r] /\ UNCHANGED <<cookie, loaded>>
      BY <1>2, <1>5, <2>1 DEF Touch, Identity, HasRead
    <2>3. QED
      BY <1>4, <2>1, <2>2 DEF Good
  <1>6. CASE WriteFails(r)
    <2>1. HasRead(r) /\ pc'[r] = "error" /\ UNCHANGED <<cookie, loaded>>
      BY <1>1, <1>2, <1>6 DEF WriteFails, Good
    <2>2. QED
      BY <1>4, <2>1 DEF Good
  <1>7. CASE Evict(r)
    <2>1. pc[r] = "evict" /\ HasRead(r)
      BY <1>1, <1>7 DEF Evict, Good
    <2>2. /\ pc'[r] = "refused" /\ UNCHANGED <<cookie, loaded>>
          /\ table' = [table EXCEPT ![loaded[r].id] = NoToken]
      BY <1>2, <1>7 DEF Evict, Evicted
    <2>3. \A i \in Used' : table'[i] # cookie[r]
      BY <1>2, <2>1, <2>2 DEF HasRead, Used
    <2>4. QED
      BY <1>4, <2>1, <2>2, <2>3 DEF Good
  <1>8. CASE End(r)
    <2>1. pc'[r] = "idle" /\ loaded'[r] = NoRow
      BY <1>2, <1>8 DEF End
    <2>2. QED
      BY <2>1 DEF Good
  <1>9. ASSUME NEW i \in Ids, Select(r, i)
        PROVE  Good(r)'
    <2> DEFINE t == table[i]
    <2>1. i \in Used /\ t \in Tokens /\ role[t] # "none"
      BY <1>2, <1>9 DEF Select, Used, IInv, RowInv
    <2>2. /\ cookie'[r] = t /\ UNCHANGED <<table, role>>
          /\ loaded'[r] = [id |-> i, token |-> t, idle |-> idle[t], role |-> role[t]]
          /\ pc'[r] = IF Expired(idle[t]) THEN "evict" ELSE "touch"
      BY <1>2, <1>9 DEF Select
    <2>3. HasRead(r)'
      BY <1>2, <2>1, <2>2 DEF HasRead, Used
    <2>4. loaded'[r].idle = idle[t]
      BY <2>2
    <2>5. QED
      BY <2>2, <2>3, <2>4 DEF Good
  <1>10. ASSUME NEW route \in Roles, Enter(r, route)
         PROVE  Good(r)'
    <2>1. pc[r] = "resolved" /\ HasRead(r) /\ ~Expired(loaded[r].idle) /\ as[r] = cookie[r]
      BY <1>1, <1>10 DEF Enter, Good
    <2>2. /\ UNCHANGED <<cookie, loaded, as>>
          /\ pc'[r] \in {"admin", "user", "refused"}
          /\ pc'[r] = "admin" => loaded[r].role = "admin"
      BY <1>2, <1>10 DEF Enter, MayEnter, Roles
    <2>3. QED
      BY <1>4, <2>1, <2>2 DEF Good
  <1>11. ASSUME NEW t \in Tokens \cup {NoToken}, Refuse(r, t)
         PROVE  Good(r)'
    <2>1. loaded[r] = NoRow /\ loaded' = loaded /\ pc'[r] = "refused"
      BY <1>1, <1>2, <1>11 DEF Refuse, Good
    <2>2. ~Expired(loaded'[r].idle)
      BY <2>1, LimitAssumption DEF NoRow, Expired
    <2>3. QED
      BY <2>1, <2>2 DEF Good
  <1>12. QED
    BY <1>5, <1>6, <1>7, <1>8, <1>9, <1>10, <1>11

\* Every step keeps the invariant: it is one request's own, or nobody's.
LEMMA NextIInv ==
    ASSUME IInv, [Next]_vars
    PROVE  IInv'
  <1>1. TypeOK' /\ RowInv'
    BY TypeStep, RowStep DEF IInv
  <1>2. ASSUME NEW r \in Requests
        PROVE  Good(r)'
    <2>1. CASE UNCHANGED <<pc[r], cookie[r], loaded[r], as[r]>>
      BY <2>1, BystanderStep
    <2>2. ASSUME NEW s \in Requests, s # r,
                 \/ Touch(s) \/ WriteFails(s) \/ Evict(s) \/ End(s)
                 \/ \E i \in Ids : Select(s, i)
                 \/ \E route \in Roles : Enter(s, route)
                 \/ \E t \in Tokens \cup {NoToken} : Refuse(s, t)
          PROVE  UNCHANGED <<pc[r], cookie[r], loaded[r], as[r]>>
      BY <2>2 DEF Touch, WriteFails, Evict, End, Select, Enter, Refuse, IInv, TypeOK
    <2>3. ASSUME \/ Tick \/ UNCHANGED vars \/ (\E t \in Tokens : logout(t))
                 \/ \E t \in Tokens, ro \in Roles : login(t, ro)
          PROVE  UNCHANGED <<pc[r], cookie[r], loaded[r], as[r]>>
      BY <2>3 DEF Tick, vars, logout, login
    <2>4. QED
      BY <2>1, <2>2, <2>3, OwnStep DEF Next, csrf_guard, NotAuthenticated
  <1>3. QED
    BY <1>1, <1>2, GoodIsInv

\* IInv is an invariant of sessions.
THEOREM Invariance == Spec => []IInv
  <1>1. Init => IInv
    BY LimitAssumption, NoTokenAssumption
       DEF Init, IInv, TypeOK, RowInv, RequestInv, ServedAsItself, EndedStaysEnded, Used,
           NoRow, Roles
  <1>2. IInv /\ [Next]_vars => IInv'
    BY NextIInv
  <1>3. QED
    BY <1>1, <1>2, PTL DEF Spec

\* A request acts for the user and with the role its own token was issued
\* to, also when the id of its row has gone to another session.
THEOREM EveryoneIsItself == Spec => []ServedAsItself
  <1>1. IInv => ServedAsItself
    BY DEF IInv
  <1>2. QED
    BY <1>1, Invariance, PTL

\* No request that had read the row of a session before its logout, or before
\* it was found expired, brings the session back.
THEOREM NoSessionReturns == Spec => []EndedStaysEnded
  <1>1. IInv => EndedStaysEnded
    BY DEF IInv
  <1>2. QED
    BY <1>1, Invariance, PTL

\* A login overwrites nobody's row, and a session ends by its own logout or
\* expiry, or by the one reuse of an id that EndsByItsOwn names.
THEOREM SessionsEndByTheirOwn == Spec => EndsByItsOwn
  <1> DEFINE Gone(t) == (\E i \in Ids : table[i] = t) /\ ~(\E i \in Ids : table'[i] = t)
             Step == \A t \in Tokens : Gone(t) =>
                        \/ t \in out'
                        \/ \E r \in Requests :
                             pc[r] = "evict" /\ cookie[r] = t /\ loaded[r].idle > Limit
                        \/ \E r \in Requests :
                             pc[r] = "evict" /\ cookie[r] # t /\ RowNow(r) = t
  <1>1. ASSUME IInv, Next
        PROVE  Step
    <2>1. SUFFICES ASSUME NEW t \in Tokens, Gone(t)
                   PROVE  \/ t \in out'
                          \/ \E r \in Requests :
                               pc[r] = "evict" /\ cookie[r] = t /\ loaded[r].idle > Limit
                          \/ \E r \in Requests :
                               pc[r] = "evict" /\ cookie[r] # t /\ RowNow(r) = t
      OBVIOUS
    <2>2. PICK i \in Ids : table[i] = t /\ table'[i] # t
      BY <2>1
    <2>3. table \in [Ids -> Tokens \cup {NoToken}] /\ i \in Used
      BY <1>1, <2>2, NoTokenAssumption DEF IInv, TypeOK, Used
    <2>4. ASSUME NEW u \in Tokens, NEW ro \in Roles, login(u, ro)
          PROVE  FALSE
      <3>1. table' = [table EXCEPT ![NextId] = u] /\ i # NextId
        BY <2>3, <2>4, NextIdIsFree DEF login, create_session
      <3>2. QED
        BY <2>2, <2>3, <3>1
    <2>5. ASSUME NEW u \in Tokens, logout(u)
          PROVE  t \in out'
      BY <2>2, <2>5 DEF logout, destroy_session
    <2>6. ASSUME NEW r \in Requests, Evict(r)
          PROVE  /\ pc[r] = "evict" /\ RowNow(r) = t
                 /\ cookie[r] = t => loaded[r].idle > Limit
      <3>1. pc[r] = "evict" /\ table' = [table EXCEPT ![loaded[r].id] = NoToken]
        BY <2>6 DEF Evict, Evicted
      <3>2. loaded[r].id = i
        BY <2>2, <2>3, <3>1
      <3>3. Expired(loaded[r].idle)
        BY <1>1, <3>1, GoodIsInv DEF Good
      <3>4. QED
        BY <2>2, <3>1, <3>2, <3>3 DEF RowNow, Expired
    <2>7. table' # table
      BY <2>2
    <2>8. QED
      BY <1>1, <2>4, <2>5, <2>6, <2>7
         DEF Next, Tick, csrf_guard, NotAuthenticated, Refuse, Select, Touch, WriteFails,
             End, Enter, dbVars
  <1>2. IInv /\ [Next]_vars => [Step]_vars
    BY <1>1
  <1>3. QED
    BY <1>2, Invariance, PTL DEF Spec, EndsByItsOwn

-----------------------------------------------------------------------------
(* Accounts.                                                                *)

-----------------------------------------------------------------------------
(* Types.                                                                   *)

Words == Passwords \cup {"none", "old", "locked"}

System == [acct    : [Names -> [uid : Numbers \cup {0}, pw : Words]],
           entry   : [Names -> [pw : Words, on : BOOLEAN, there : BOOLEAN]],
           gid     : [Groups -> Numbers \cup {0}],
           members : [Groups \cup {NasosUsers} -> SUBSET Names]]

UserRow == [name : Names, smb : BOOLEAN, synced : BOOLEAN]

UserOps == {"create", "import", "set_smb", "set_password", "delete"}
GroupOps == {"create_group", "delete_group", "member"}

\* What is left of a handler's commands.
AfterUseradd == <<"id", "chpasswd", "smbpasswd_add">>
AfterId == <<"chpasswd", "smbpasswd_add">>
AfterChpasswd == <<"smbpasswd_add">>
AfterLookup == <<"usermod">>
AfterPdbedit == <<"userdel">>
AfterPassword == <<"smbpasswd">>
AfterGroupadd == <<"getent">>

Todos == {users_create, AfterUseradd, AfterId, AfterChpasswd, users_import_existing, AfterLookup,
          users_set_smb_enabled, users_set_password, AfterPassword, users_delete, AfterPdbedit,
          groups_create, AfterGroupadd, groups_delete, groups_add_member, groups_remove_member,
          <<>>}

Stages(op) ==
    CASE op = "create" -> {users_create, AfterUseradd, AfterId, AfterChpasswd, <<>>}
      [] op = "import" -> {users_import_existing, AfterLookup, <<>>}
      [] op = "set_smb" -> {users_set_smb_enabled, <<>>}
      [] op = "set_password" -> {users_set_password, AfterPassword, <<>>}
      [] op = "delete" -> {users_delete, AfterPdbedit, <<>>}
      [] op = "create_group" -> {groups_create, AfterGroupadd, <<>>}
      [] op = "delete_group" -> {groups_delete, <<>>}
      [] op = "member" -> {groups_add_member, groups_remove_member, <<>>}
      [] op = "idle" -> {<<>>}

Codes == {"ok", "not_found", "smb_password_sync_failed", "system_error"}

Request == [op : UserOps \cup GroupOps \cup {"idle"},
            name : Names \cup Groups \cup {NoName}, user : Names \cup {NoName},
            group : Groups \cup {NasosUsers, NoName}, pw : Words, on : BOOLEAN,
            id : Numbers \cup {0}, row : UserRow \cup {NoUser}, todo : Todos, code : Codes,
            lost : BOOLEAN, alone : BOOLEAN]

\* A request at work: what its route set, where its handler is, and that the
\* number of a new row has been looked up when the row is written.
Well(q) ==
    /\ q.todo \in Stages(q.op)
    /\ q.op \in UserOps => q.name \in Names
    /\ q.op \in GroupOps => q.name \in Groups
    /\ q.op = "import" => q.user = q.name /\ q.group = NasosUsers
    /\ q.op = "member" => q.group = q.name /\ q.user \in Names
    /\ q.op \in {"set_smb", "set_password", "delete", "delete_group", "member"} => q.id \in Numbers
    /\ q.op \in {"set_smb", "set_password", "delete"} => q.row \in UserRow
    /\ q.lost => q.todo # <<>>
    /\ q.todo # <<>> => q.code = "ok"
    /\ q.code = "smb_password_sync_failed" => q.op = "set_password"
    /\ q.code = "not_found" => q.op = "import"
    /\ q.op = "create" /\ q.code = "ok" /\ q.todo \notin {users_create, AfterUseradd} =>
         q.id \in Numbers
    /\ q.op = "import" /\ q.code = "ok" /\ q.todo # users_import_existing => q.id \in Numbers
    /\ q.op = "create_group" /\ q.code = "ok" /\ q.todo = <<>> => q.id \in Numbers

TablesInv ==
    /\ users \in [Numbers -> UserRow \cup {NoUser}] /\ groups \in [Numbers -> Groups \cup {NoName}]
    /\ \A u, v \in Numbers : users[u] # NoUser /\ users[u].name = users[v].name => u = v
    /\ \A i, j \in Numbers : groups[i] # NoName /\ groups[i] = groups[j] => i = j

HistoryInv ==
    /\ orphans \subseteq Names /\ stranded \subseteq Names
    /\ doubt \subseteq (Names \cup Groups) \X Aspects

RequestsInv ==
    /\ req \in [Slots -> Request]
    /\ \A r \in Slots : Works(r) => Well(req[r])

TypeInv == os \in System /\ TablesInv /\ HistoryInv /\ RequestsInv

LEMMA NumbersFacts == Numbers \subseteq Nat /\ 0 \notin Numbers
<1>1. Cardinality(Names) \in Nat
  BY FS_CardinalityType, AccountBoundsAssumption
<1> QED BY <1>1 DEF Numbers

\* The stages of one handler differ.
LEMMA StagesDiffer ==
    /\ users_create # AfterUseradd /\ users_create # AfterId /\ users_create # AfterChpasswd
    /\ AfterUseradd # AfterId /\ AfterUseradd # AfterChpasswd /\ AfterId # AfterChpasswd
    /\ users_import_existing # AfterLookup /\ users_set_password # AfterPassword
    /\ users_delete # AfterPdbedit /\ groups_create # AfterGroupadd
BY DEF users_create, AfterUseradd, AfterId, AfterChpasswd, users_import_existing, AfterLookup,
       users_set_password, AfterPassword, users_delete, AfterPdbedit, groups_create, AfterGroupadd

LEMMA StagesNotDone ==
    /\ users_create # <<>> /\ AfterUseradd # <<>> /\ AfterId # <<>> /\ AfterChpasswd # <<>>
    /\ users_import_existing # <<>> /\ AfterLookup # <<>> /\ users_set_smb_enabled # <<>>
    /\ users_set_password # <<>> /\ AfterPassword # <<>> /\ users_delete # <<>>
    /\ AfterPdbedit # <<>> /\ groups_create # <<>> /\ AfterGroupadd # <<>>
    /\ groups_delete # <<>> /\ groups_add_member # <<>> /\ groups_remove_member # <<>>
BY DEF users_create, AfterUseradd, AfterId, AfterChpasswd, users_import_existing, AfterLookup,
       users_set_smb_enabled, users_set_password, AfterPassword, users_delete, AfterPdbedit,
       groups_create, AfterGroupadd, groups_delete, groups_add_member, groups_remove_member

\* Which command is next, and what is left after it.
LEMMA Heads ==
    /\ Head(users_create) = "useradd" /\ Head(AfterUseradd) = "id"
    /\ Head(AfterId) = "chpasswd" /\ Head(AfterChpasswd) = "smbpasswd_add"
    /\ Head(users_import_existing) = "lookup" /\ Head(AfterLookup) = "usermod"
    /\ Head(users_set_smb_enabled) = "smbpasswd_enable"
    /\ Head(users_set_password) = "chpasswd" /\ Head(AfterPassword) = "smbpasswd"
    /\ Head(users_delete) = "pdbedit" /\ Head(AfterPdbedit) = "userdel"
    /\ Head(groups_create) = "groupadd" /\ Head(AfterGroupadd) = "getent"
    /\ Head(groups_delete) = "groupdel" /\ Head(groups_add_member) = "usermod"
    /\ Head(groups_remove_member) = "gpasswd"
BY DEF users_create, AfterUseradd, AfterId, AfterChpasswd, users_import_existing, AfterLookup,
       users_set_smb_enabled, users_set_password, AfterPassword, users_delete, AfterPdbedit,
       groups_create, AfterGroupadd, groups_delete, groups_add_member, groups_remove_member

LEMMA Tails ==
    /\ Tail(users_create) = AfterUseradd /\ Tail(AfterUseradd) = AfterId
    /\ Tail(AfterId) = AfterChpasswd /\ Tail(AfterChpasswd) = <<>>
    /\ Tail(users_import_existing) = AfterLookup /\ Tail(AfterLookup) = <<>>
    /\ Tail(users_set_smb_enabled) = <<>>
    /\ Tail(users_set_password) = AfterPassword /\ Tail(AfterPassword) = <<>>
    /\ Tail(users_delete) = AfterPdbedit /\ Tail(AfterPdbedit) = <<>>
    /\ Tail(groups_create) = AfterGroupadd /\ Tail(AfterGroupadd) = <<>>
    /\ Tail(groups_delete) = <<>> /\ Tail(groups_add_member) = <<>>
    /\ Tail(groups_remove_member) = <<>>
<1>1. \A a : Tail(<<a>>) = <<>>
  OBVIOUS
<1>2. \A a, b : Tail(<<a, b>>) = <<b>>
  OBVIOUS
<1>3. \A a, b, c : Tail(<<a, b, c>>) = <<b, c>>
  OBVIOUS
<1>4. \A a, b, c, d : Tail(<<a, b, c, d>>) = <<b, c, d>>
  OBVIOUS
<1>5. Tail(users_create) = AfterUseradd
  BY <1>4, Zenon DEF users_create, AfterUseradd
<1>6. Tail(AfterUseradd) = AfterId
  BY <1>3, Zenon DEF AfterUseradd, AfterId
<1>7. Tail(AfterId) = AfterChpasswd
  BY <1>2, Zenon DEF AfterId, AfterChpasswd
<1>8. Tail(users_import_existing) = AfterLookup
  BY <1>2, Zenon DEF users_import_existing, AfterLookup
<1>9. Tail(users_set_password) = AfterPassword
  BY <1>2, Zenon DEF users_set_password, AfterPassword
<1>10. Tail(users_delete) = AfterPdbedit
  BY <1>2, Zenon DEF users_delete, AfterPdbedit
<1>11. Tail(groups_create) = AfterGroupadd
  BY <1>2, Zenon DEF groups_create, AfterGroupadd
<1>12. /\ Tail(AfterChpasswd) = <<>> /\ Tail(AfterLookup) = <<>> /\ Tail(AfterPassword) = <<>>
       /\ Tail(users_set_smb_enabled) = <<>> /\ Tail(AfterPdbedit) = <<>>
       /\ Tail(AfterGroupadd) = <<>> /\ Tail(groups_delete) = <<>>
       /\ Tail(groups_add_member) = <<>> /\ Tail(groups_remove_member) = <<>>
  BY <1>1, Zenon
     DEF AfterChpasswd, AfterLookup, AfterPassword, users_set_smb_enabled, AfterPdbedit,
         AfterGroupadd, groups_delete, groups_add_member, groups_remove_member
<1> QED BY <1>5, <1>6, <1>7, <1>8, <1>9, <1>10, <1>11, <1>12

-----------------------------------------------------------------------------
(* What each command does to the system: nothing to other names, except    *)
(* for the members of managed groups.                                       *)

Elsewhere(v, w, n) ==
    /\ \A m \in Names \ {n} :
         /\ w.acct[m] = v.acct[m] /\ w.entry[m] = v.entry[m]
         /\ m \in w.members[NasosUsers] <=> m \in v.members[NasosUsers]
    /\ \A g \in Groups \ {n} : w.gid[g] = v.gid[g]

\* The account, the entry and the number of a name as they were.
SameAccount(v, w, n) ==
    w.acct[n] = v.acct[n] /\ (n \in w.members[NasosUsers] <=> n \in v.members[NasosUsers])
SameEntry(v, w, n) == w.entry[n] = v.entry[n]

LEMMA UseraddDoes ==
  ASSUME NEW v \in System, NEW q \in Request, q.name \in Names, NEW w \in useradd(v, q)
  PROVE  /\ w \in System /\ Elsewhere(v, w, q.name) /\ SameEntry(v, w, q.name)
         /\ ~Exists(v, q.name) /\ w.acct[q.name].uid \in Numbers
         /\ q.name \in w.members[NasosUsers]
<1> DEFINE n == q.name
<1>1. PICK u \in Numbers : /\ ~Exists(v, n)
                           /\ w = [v EXCEPT !.acct[n] = [uid |-> u, pw |-> "locked"],
                                            !.members[NasosUsers] = @ \cup {n}]
  BY DEF useradd
<1>2. w.acct = [v.acct EXCEPT ![n] = [uid |-> u, pw |-> "locked"]]
  BY <1>1 DEF System
<1>3. w.members = [v.members EXCEPT ![NasosUsers] = @ \cup {n}]
  BY <1>1 DEF System
<1>4. w.entry = v.entry /\ w.gid = v.gid
  BY <1>1 DEF System
<1>5. w \in System
  BY <1>1 DEF System, Words
<1> QED BY <1>1, <1>2, <1>3, <1>4, <1>5 DEF Elsewhere, SameEntry, System

LEMMA UserdelDoes ==
  ASSUME NEW v \in System, NEW q \in Request, q.name \in Names, NEW w \in userdel(v, q)
  PROVE  /\ w \in System /\ Elsewhere(v, w, q.name) /\ SameEntry(v, w, q.name)
         /\ Exists(v, q.name) /\ ~Exists(w, q.name)
<1> DEFINE n == q.name
<1>1. /\ Exists(v, n)
      /\ w = [v EXCEPT !.acct[n] = NoAccount, !.members = [g \in DOMAIN @ |-> @[g] \ {n}]]
  BY DEF userdel, When
<1>2. w.acct = [v.acct EXCEPT ![n] = NoAccount]
  BY <1>1 DEF System
<1>3. w.members = [g \in Groups \cup {NasosUsers} |-> v.members[g] \ {n}]
  BY <1>1 DEF System
<1>4. w.entry = v.entry /\ w.gid = v.gid
  BY <1>1 DEF System
<1>5. w.members \in [Groups \cup {NasosUsers} -> SUBSET Names]
  BY <1>3 DEF System
<1>6. w.acct \in [Names -> [uid : Numbers \cup {0}, pw : Words]]
  BY <1>2 DEF System, NoAccount, Words
<1>7. w = [acct |-> w.acct, entry |-> v.entry, gid |-> v.gid, members |-> w.members]
  BY <1>1 DEF System
<1>8. w \in System
  BY <1>5, <1>6, <1>7 DEF System
<1> QED BY <1>1, <1>2, <1>3, <1>4, <1>8 DEF Elsewhere, SameEntry, System, Exists, NoAccount

LEMMA ChpasswdDoes ==
  ASSUME NEW v \in System, NEW q \in Request, q.name \in Names, NEW w \in chpasswd(v, q)
  PROVE  /\ w \in System /\ Elsewhere(v, w, q.name) /\ SameEntry(v, w, q.name)
         /\ Exists(v, q.name) /\ w.acct[q.name].uid = v.acct[q.name].uid
         /\ q.name \in w.members[NasosUsers] <=> q.name \in v.members[NasosUsers]
         /\ w.acct[q.name].pw = q.pw
<1> DEFINE n == q.name
<1>1. Exists(v, n) /\ w = [v EXCEPT !.acct[n].pw = q.pw]
  BY DEF chpasswd, When
<1>2. w.acct = [v.acct EXCEPT ![n].pw = q.pw]
  BY <1>1 DEF System
<1>3. w.entry = v.entry /\ w.gid = v.gid /\ w.members = v.members
  BY <1>1 DEF System
<1>4. q.pw \in Words /\ v.acct \in [Names -> [uid : Numbers \cup {0}, pw : Words]]
  BY DEF Request, System
<1>5. w.acct[n] = [v.acct[n] EXCEPT !.pw = q.pw] /\ \A m \in Names \ {n} : w.acct[m] = v.acct[m]
  BY <1>2, <1>4
<1>6. w.acct \in [Names -> [uid : Numbers \cup {0}, pw : Words]]
  BY <1>2, <1>4
<1>7. w = [acct |-> w.acct, entry |-> v.entry, gid |-> v.gid, members |-> v.members]
  BY <1>1 DEF System
<1>8. w \in System
  BY <1>6, <1>7 DEF System
<1>9. v.acct[n] \in [uid : Numbers \cup {0}, pw : Words]
  BY <1>4
<1> QED BY <1>1, <1>3, <1>4, <1>5, <1>8, <1>9 DEF Elsewhere, SameEntry, HasEntry

LEMMA UsermodDoes ==
  ASSUME NEW v \in System, NEW q \in Request, q.user \in Names,
         q.group \in Groups \cup {NasosUsers}, q.group = NasosUsers => q.name = q.user,
         NEW w \in usermod(v, q)
  PROVE  /\ w \in System /\ Elsewhere(v, w, q.name)
         /\ w.acct = v.acct /\ w.entry = v.entry /\ w.gid = v.gid
         /\ q.group = NasosUsers => q.name \in w.members[NasosUsers]
<1>1. w = [v EXCEPT !.members[q.group] = @ \cup {q.user}]
  BY DEF usermod, When
<1>2. w.members = [v.members EXCEPT ![q.group] = @ \cup {q.user}]
  BY <1>1 DEF System
<1>3. w.entry = v.entry /\ w.gid = v.gid /\ w.acct = v.acct
  BY <1>1 DEF System
<1>5. w \in System
  BY <1>1 DEF System
<1> QED BY <1>1, <1>2, <1>3, <1>5, NamesAssumption DEF Elsewhere, System

LEMMA GpasswdDoes ==
  ASSUME NEW v \in System, NEW q \in Request, q.group \in Groups, NEW w \in gpasswd(v, q)
  PROVE  /\ w \in System /\ Elsewhere(v, w, q.name)
         /\ w.acct = v.acct /\ w.entry = v.entry /\ w.gid = v.gid
<1>1. w = [v EXCEPT !.members[q.group] = @ \ {q.user}]
  BY DEF gpasswd, When
<1>2. w.members = [v.members EXCEPT ![q.group] = @ \ {q.user}]
  BY <1>1 DEF System
<1>3. w.entry = v.entry /\ w.gid = v.gid /\ w.acct = v.acct
  BY <1>1 DEF System
<1>5. w \in System
  BY <1>1 DEF System
<1> QED BY <1>1, <1>2, <1>3, <1>5, NamesAssumption DEF Elsewhere, System

\* The four commands on the passdb leave accounts alone.
LEMMA SmbpasswdAddDoes ==
  ASSUME NEW v \in System, NEW q \in Request, q.name \in Names, NEW w \in smbpasswd_add(v, q)
  PROVE  /\ w \in System /\ Elsewhere(v, w, q.name) /\ SameAccount(v, w, q.name)
         /\ Exists(v, q.name) /\ HasEntry(w, q.name) /\ w.entry[q.name].pw = q.pw
         /\ w.entry[q.name].on \/ (HasEntry(v, q.name) /\ ~v.entry[q.name].on)
<1>1. PICK on \in BOOLEAN :
        /\ Exists(v, q.name)
        /\ on \/ (HasEntry(v, q.name) /\ ~v.entry[q.name].on)
        /\ w = [v EXCEPT !.entry[q.name] = [pw |-> q.pw, on |-> on, there |-> TRUE]]
  BY DEF smbpasswd_add
<1>2. w.entry = [v.entry EXCEPT ![q.name] = [pw |-> q.pw, on |-> on, there |-> TRUE]]
  BY <1>1 DEF System
<1>3. w.acct = v.acct /\ w.gid = v.gid /\ w.members = v.members
  BY <1>1 DEF System
<1>4. q.pw \in Words
  BY DEF Request
<1>5. w \in System
  BY <1>1, <1>4 DEF System
<1>6. /\ w.entry[q.name] = [pw |-> q.pw, on |-> on, there |-> TRUE]
      /\ \A m \in Names \ {q.name} : w.entry[m] = v.entry[m]
  BY <1>2 DEF System
<1>7. w.entry[q.name].pw = q.pw /\ w.entry[q.name].on = on /\ HasEntry(w, q.name)
  BY <1>6 DEF HasEntry
<1>8. w.entry[q.name].on \/ (HasEntry(v, q.name) /\ ~v.entry[q.name].on)
  BY <1>1, <1>7, Zenon
<1>9. Elsewhere(v, w, q.name) /\ SameAccount(v, w, q.name)
  BY <1>3, <1>6 DEF Elsewhere, SameAccount
<1> QED BY <1>1, <1>5, <1>7, <1>8, <1>9

LEMMA SmbpasswdDoes ==
  ASSUME NEW v \in System, NEW q \in Request, q.name \in Names, NEW w \in smbpasswd(v, q)
  PROVE  /\ w \in System /\ Elsewhere(v, w, q.name) /\ SameAccount(v, w, q.name)
         /\ HasEntry(v, q.name) /\ HasEntry(w, q.name) /\ w.entry[q.name].pw = q.pw
         /\ w.entry[q.name].on = v.entry[q.name].on
<1> DEFINE n == q.name
<1>1. HasEntry(v, n) /\ w = [v EXCEPT !.entry[n].pw = q.pw]
  BY DEF smbpasswd, When
<1>2. w.entry = [v.entry EXCEPT ![n].pw = q.pw]
  BY <1>1 DEF System
<1>3. w.acct = v.acct /\ w.gid = v.gid /\ w.members = v.members
  BY <1>1 DEF System
<1>4. q.pw \in Words /\ v.entry \in [Names -> [pw : Words, on : BOOLEAN, there : BOOLEAN]]
  BY DEF Request, System
<1>5. w.entry[n] = [v.entry[n] EXCEPT !.pw = q.pw] /\ \A m \in Names \ {n} : w.entry[m] = v.entry[m]
  BY <1>2, <1>4
<1>6. w.entry \in [Names -> [pw : Words, on : BOOLEAN, there : BOOLEAN]]
  BY <1>2, <1>4
<1>7. w = [acct |-> v.acct, entry |-> w.entry, gid |-> v.gid, members |-> v.members]
  BY <1>1 DEF System
<1>8. w \in System
  BY <1>6, <1>7 DEF System
<1>9. v.entry[n] \in [pw : Words, on : BOOLEAN, there : BOOLEAN]
  BY <1>4
<1> QED BY <1>1, <1>3, <1>4, <1>5, <1>8, <1>9 DEF Elsewhere, SameAccount, HasEntry

LEMMA PdbeditDoes ==
  ASSUME NEW v \in System, NEW q \in Request, q.name \in Names, NEW w \in pdbedit(v, q)
  PROVE  /\ w \in System /\ Elsewhere(v, w, q.name) /\ SameAccount(v, w, q.name)
         /\ HasEntry(v, q.name) /\ ~HasEntry(w, q.name)
<1> DEFINE n == q.name
<1>1. HasEntry(v, n) /\ w = [v EXCEPT !.entry[n] = NoEntry]
  BY DEF pdbedit, When
<1>2. w.entry = [v.entry EXCEPT ![n] = NoEntry]
  BY <1>1 DEF System
<1>3. w.acct = v.acct /\ w.gid = v.gid /\ w.members = v.members
  BY <1>1 DEF System
<1>5. w \in System
  BY <1>1 DEF System, NoEntry, Words
<1> QED BY <1>1, <1>2, <1>3, <1>5 DEF Elsewhere, SameAccount, System, HasEntry, NoEntry

LEMMA SmbpasswdEnableDoes ==
  ASSUME NEW v \in System, NEW q \in Request, q.name \in Names, NEW w \in smbpasswd_enable(v, q)
  PROVE  /\ w \in System /\ Elsewhere(v, w, q.name) /\ SameAccount(v, w, q.name)
         /\ HasEntry(v, q.name) /\ HasEntry(w, q.name) /\ w.entry[q.name].on = q.on
         /\ w.entry[q.name].pw = v.entry[q.name].pw
<1> DEFINE n == q.name
<1>1. HasEntry(v, n) /\ w = [v EXCEPT !.entry[n].on = q.on]
  BY DEF smbpasswd_enable, When
<1>2. w.entry = [v.entry EXCEPT ![n].on = q.on]
  BY <1>1 DEF System
<1>3. w.acct = v.acct /\ w.gid = v.gid /\ w.members = v.members
  BY <1>1 DEF System
<1>4. q.on \in BOOLEAN /\ v.entry \in [Names -> [pw : Words, on : BOOLEAN, there : BOOLEAN]]
  BY DEF Request, System
<1>5. w.entry[n] = [v.entry[n] EXCEPT !.on = q.on] /\ \A m \in Names \ {n} : w.entry[m] = v.entry[m]
  BY <1>2, <1>4
<1>6. w.entry \in [Names -> [pw : Words, on : BOOLEAN, there : BOOLEAN]]
  BY <1>2, <1>4
<1>7. w = [acct |-> v.acct, entry |-> w.entry, gid |-> v.gid, members |-> v.members]
  BY <1>1 DEF System
<1>8. w \in System
  BY <1>6, <1>7 DEF System
<1>9. v.entry[n] \in [pw : Words, on : BOOLEAN, there : BOOLEAN]
  BY <1>4
<1> QED BY <1>1, <1>3, <1>4, <1>5, <1>8, <1>9 DEF Elsewhere, SameAccount, HasEntry

LEMMA GroupaddDoes ==
  ASSUME NEW v \in System, NEW q \in Request, q.name \in Groups, NEW w \in groupadd(v, q)
  PROVE  /\ w \in System /\ Elsewhere(v, w, q.name) /\ w.acct = v.acct /\ w.entry = v.entry
         /\ v.gid[q.name] = 0 /\ w.gid[q.name] \in Numbers
<1> DEFINE n == q.name
<1>1. PICK i \in Numbers : v.gid[n] = 0 /\ w = [v EXCEPT !.gid[n] = i]
  BY DEF groupadd
<1>2. w.gid = [v.gid EXCEPT ![n] = i]
  BY <1>1 DEF System
<1>3. w.acct = v.acct /\ w.entry = v.entry /\ w.members = v.members
  BY <1>1 DEF System
<1>5. w \in System
  BY <1>1 DEF System
<1> QED BY <1>1, <1>2, <1>3, <1>5 DEF Elsewhere, System

LEMMA GroupdelDoes ==
  ASSUME NEW v \in System, NEW q \in Request, q.name \in Groups, NEW w \in groupdel(v, q)
  PROVE  /\ w \in System /\ Elsewhere(v, w, q.name) /\ w.acct = v.acct /\ w.entry = v.entry
<1> DEFINE n == q.name
<1>1. w = [v EXCEPT !.gid[n] = 0, !.members[n] = {}]
  BY DEF groupdel, When
<1>2. w.gid = [v.gid EXCEPT ![n] = 0] /\ w.members = [v.members EXCEPT ![n] = {}]
  BY <1>1 DEF System
<1>3. w.acct = v.acct /\ w.entry = v.entry
  BY <1>1 DEF System
<1>5. w \in System
  BY <1>1 DEF System
<1> QED BY <1>1, <1>2, <1>3, <1>5, NamesAssumption DEF Elsewhere, System

-----------------------------------------------------------------------------
(* What is true of a user's name while nobody, or one request that is alone *)
(* and whose answer will come, is at work on it: n is the name, w the       *)
(* system, us the rows, db and st what is in doubt and stranded, q the      *)
(* request, or Idle.                                                        *)

\* The request has changed the system, and the row does not say so yet.
Alters(q, a) ==
    \/ a = "account" /\ q.op \in {"delete", "delete_group"} /\ q.todo = <<>> /\ q.code = "ok"
    \/ a = "smb" /\ q.op = "set_smb" /\ q.todo = <<>> /\ q.code = "ok"
    \/ a \in {"smb", "password"} /\ q.op = "delete" /\ q.todo # users_delete
    \/ a = "password" /\ q.op = "set_password" /\ q.todo # users_set_password
         /\ q.code # "system_error"

Truth(n, w, us, db, st, q) ==
    /\ <<n, "account">> \notin db /\ ~Alters(q, "account") =>
         /\ \A u \in Numbers : us[u].name = n => w.acct[n].uid = u /\ n \in w.members[NasosUsers]
         /\ HasEntry(w, n) /\ ~Exists(w, n) => n \in st /\ <<n, "smb">> \in db
    /\ <<n, "smb">> \notin db /\ ~Alters(q, "smb") =>
         \A u \in Numbers : us[u].name = n /\ us[u].smb => w.entry[n].on
    /\ <<n, "password">> \notin db /\ ~Alters(q, "password") =>
         \A u \in Numbers : us[u].name = n /\ us[u].synced =>
           Exists(w, n) /\ HasEntry(w, n) /\ w.entry[n].pw = w.acct[n].pw

\* The row that was read is the row still.
RowStage(n, us, q) ==
    q.op \in {"set_smb", "set_password", "delete"} => us[q.id] = q.row /\ q.row.name = n

\* Nothing says that the name has an entry from before.
NoOldEntry(n, db, st) ==
    <<n, "account">> \notin db /\ (n \notin st \/ <<n, "smb">> \notin db)

CreateStage(n, w, us, db, st, q) ==
    q.op = "create" /\ q.code = "ok" /\ q.todo # users_create =>
      /\ Exists(w, n) /\ n \in w.members[NasosUsers]
      /\ <<n, "account">> \notin db => \A u \in Numbers : us[u].name # n
      /\ <<n, "password">> \notin db => \A u \in Numbers : us[u].name = n => ~us[u].synced
      /\ q.todo # AfterUseradd => q.id = w.acct[n].uid
      /\ q.todo \in {AfterChpasswd, <<>>} => w.acct[n].pw = q.pw
      /\ q.todo # <<>> /\ NoOldEntry(n, db, st) => ~HasEntry(w, n)
      /\ q.todo = <<>> => /\ HasEntry(w, n) /\ w.entry[n].pw = q.pw
                          /\ NoOldEntry(n, db, st) => w.entry[n].on

ImportStage(n, w, q) ==
    q.op = "import" /\ q.code = "ok" /\ q.todo # users_import_existing =>
      /\ Exists(w, n) /\ q.id = w.acct[n].uid
      /\ q.todo = <<>> => n \in w.members[NasosUsers]

SmbStage(n, w, q) ==
    q.op = "set_smb" /\ q.code = "ok" /\ q.todo = <<>> => w.entry[n].on = q.on

PasswordStage(n, w, q) ==
    q.op = "set_password" /\ q.code = "ok" /\ q.todo # users_set_password =>
      /\ Exists(w, n) /\ w.acct[n].pw = q.pw
      /\ q.todo = <<>> => HasEntry(w, n) /\ w.entry[n].pw = q.pw

DeleteStage(n, w, db, st, q) ==
    q.op = "delete" /\ q.todo # users_delete =>
      /\ HasEntry(w, n) => n \in st /\ <<n, "smb">> \in db
      /\ q.todo = <<>> /\ q.code = "ok" => ~Exists(w, n)

Stage(n, w, us, db, st, q) ==
    /\ RowStage(n, us, q) /\ CreateStage(n, w, us, db, st, q) /\ ImportStage(n, w, q)
    /\ SmbStage(n, w, q) /\ PasswordStage(n, w, q) /\ DeleteStage(n, w, db, st, q)

\* A step elsewhere changes nothing of it, and more doubt does no harm.
LEMMA TruthStays ==
  ASSUME NEW n, NEW v, NEW w, NEW us, NEW us2, NEW db, NEW db2, NEW st, NEW st2, NEW q,
         SameAccount(v, w, n), SameEntry(v, w, n),
         \A u \in Numbers : us[u].name = n \/ us2[u].name = n => us2[u] = us[u],
         \A a \in Aspects : <<n, a>> \in db => <<n, a>> \in db2,
         n \in st => n \in st2,
         Truth(n, v, us, db, st, q)
  PROVE  Truth(n, w, us2, db2, st2, q)
<1>1. /\ <<n, "account">> \notin db2 => <<n, "account">> \notin db
      /\ <<n, "smb">> \notin db2 => <<n, "smb">> \notin db
      /\ <<n, "password">> \notin db2 => <<n, "password">> \notin db
      /\ <<n, "smb">> \in db => <<n, "smb">> \in db2
  BY DEF Aspects
<1> QED BY <1>1 DEF Truth, SameAccount, SameEntry, HasEntry, Exists

LEMMA StageStays ==
  ASSUME NEW n, NEW v, NEW w, NEW us, NEW us2, NEW db, NEW db2, NEW st, NEW st2, NEW q,
         SameAccount(v, w, n), SameEntry(v, w, n),
         \A u \in Numbers : us[u].name = n \/ us2[u].name = n => us2[u] = us[u],
         \A a \in Aspects : <<n, a>> \in db => <<n, a>> \in db2,
         n \in st => n \in st2,
         q.op \in {"set_smb", "set_password", "delete"} => q.id \in Numbers,
         Stage(n, v, us, db, st, q)
  PROVE  Stage(n, w, us2, db2, st2, q)
<1>1. /\ <<n, "account">> \notin db2 => <<n, "account">> \notin db
      /\ <<n, "password">> \notin db2 => <<n, "password">> \notin db
      /\ <<n, "smb">> \in db => <<n, "smb">> \in db2
      /\ NoOldEntry(n, db2, st2) => NoOldEntry(n, db, st)
  BY DEF Aspects, NoOldEntry
<1>2. RowStage(n, us2, q)
  BY DEF Stage, RowStage
<1>3. CreateStage(n, w, us2, db2, st2, q)
  BY <1>1 DEF Stage, CreateStage, SameAccount, SameEntry, HasEntry, Exists
<1>4. ImportStage(n, w, q) /\ SmbStage(n, w, q) /\ PasswordStage(n, w, q)
  BY DEF Stage, ImportStage, SmbStage, PasswordStage, SameAccount, SameEntry, HasEntry, Exists
<1>5. DeleteStage(n, w, db2, st2, q)
  BY <1>1 DEF Stage, DeleteStage, SameAccount, SameEntry, HasEntry, Exists
<1> QED BY <1>2, <1>3, <1>4, <1>5 DEF Stage

-----------------------------------------------------------------------------
(* The commands of a request that is alone, one after another.              *)

\* p is request q, further on.
Follows(q, p) ==
    /\ p.op = q.op /\ p.name = q.name /\ p.user = q.user /\ p.group = q.group /\ p.pw = q.pw
    /\ p.on = q.on /\ p.row = q.row /\ p.code = q.code /\ p.lost = q.lost /\ p.alone = q.alone

LEMMA CreateUseradd ==
  ASSUME NEW v \in System, NEW us, NEW db, NEW st, NEW q \in Request, Well(q),
         q.op = "create", q.todo = users_create, NEW w \in useradd(v, q),
         NEW p, Follows(q, p), p.todo = AfterUseradd,
         Truth(q.name, v, us, db, st, q), Stage(q.name, v, us, db, st, q)
  PROVE  Truth(q.name, w, us, db, st, p) /\ Stage(q.name, w, us, db, st, p)
<1>1. q.code = "ok" /\ q.name \in Names
  BY StagesNotDone DEF Well, UserOps
<1>2. /\ ~Exists(v, q.name) /\ Exists(w, q.name) /\ q.name \in w.members[NasosUsers]
      /\ SameEntry(v, w, q.name)
  BY <1>1, UseraddDoes, NumbersFacts DEF Exists
<1>3. Truth(q.name, w, us, db, st, p)
  BY <1>1, <1>2, StagesDiffer, StagesNotDone, NumbersFacts
     DEF Truth, Alters, Stage, CreateStage, PasswordStage, DeleteStage, SameAccount, SameEntry,
         HasEntry, Exists, Follows
<1>4. RowStage(q.name, us, p)
  BY DEF Stage, RowStage, Follows, Well
<1>5. CreateStage(q.name, w, us, db, st, p)
  BY <1>1, <1>2, StagesDiffer, StagesNotDone, NumbersFacts
     DEF Truth, Alters, Stage, CreateStage, NoOldEntry, SameAccount, SameEntry, HasEntry,
         Exists, Follows
<1>6. ImportStage(q.name, w, p) /\ SmbStage(q.name, w, p)
  BY <1>1, <1>2, StagesDiffer, StagesNotDone
     DEF Stage, ImportStage, SmbStage, SameAccount, SameEntry, HasEntry, Exists, Follows
<1>7. PasswordStage(q.name, w, p) /\ DeleteStage(q.name, w, db, st, p)
  BY <1>1, <1>2, StagesDiffer, StagesNotDone
     DEF Stage, PasswordStage, DeleteStage, SameAccount, SameEntry, HasEntry, Exists, Follows
<1> QED BY <1>3, <1>4, <1>5, <1>6, <1>7 DEF Stage

LEMMA CreateId ==
  ASSUME NEW v \in System, NEW us, NEW db, NEW st, NEW q \in Request, Well(q),
         q.op = "create", q.todo = AfterUseradd, NEW w \in lookup(v, q),
         NEW p, Follows(q, p), p.todo = AfterId, p.id = w.acct[q.name].uid,
         Truth(q.name, v, us, db, st, q), Stage(q.name, v, us, db, st, q)
  PROVE  Truth(q.name, w, us, db, st, p) /\ Stage(q.name, w, us, db, st, p)
<1>1. q.code = "ok" /\ q.name \in Names
  BY StagesNotDone DEF Well, UserOps
<1>2. w = v /\ Exists(v, q.name)
  BY DEF lookup, When
<1>3. Truth(q.name, w, us, db, st, p)
  BY <1>1, <1>2, StagesDiffer, StagesNotDone
     DEF Truth, Alters, Stage, CreateStage, PasswordStage, DeleteStage, SameAccount, SameEntry,
         HasEntry, Exists, Follows
<1>4. RowStage(q.name, us, p)
  BY DEF Stage, RowStage, Follows, Well
<1>5. CreateStage(q.name, w, us, db, st, p)
  BY <1>1, <1>2, StagesDiffer, StagesNotDone
     DEF Truth, Alters, Stage, CreateStage, NoOldEntry, SameAccount, SameEntry, HasEntry,
         Exists, Follows
<1>6. ImportStage(q.name, w, p) /\ SmbStage(q.name, w, p)
  BY <1>1, <1>2, StagesDiffer, StagesNotDone
     DEF Stage, ImportStage, SmbStage, SameAccount, SameEntry, HasEntry, Exists, Follows
<1>7. PasswordStage(q.name, w, p) /\ DeleteStage(q.name, w, db, st, p)
  BY <1>1, <1>2, StagesDiffer, StagesNotDone
     DEF Stage, PasswordStage, DeleteStage, SameAccount, SameEntry, HasEntry, Exists, Follows
<1> QED BY <1>3, <1>4, <1>5, <1>6, <1>7 DEF Stage

LEMMA CreateChpasswd ==
  ASSUME NEW v \in System, NEW us, NEW db, NEW st, NEW q \in Request, Well(q),
         q.op = "create", q.todo = AfterId, NEW w \in chpasswd(v, q),
         NEW p, Follows(q, p), p.todo = AfterChpasswd, p.id = q.id,
         Truth(q.name, v, us, db, st, q), Stage(q.name, v, us, db, st, q)
  PROVE  Truth(q.name, w, us, db, st, p) /\ Stage(q.name, w, us, db, st, p)
<1>1. q.code = "ok" /\ q.name \in Names
  BY StagesNotDone DEF Well, UserOps
<1>2. /\ SameEntry(v, w, q.name) /\ Exists(v, q.name) /\ w.acct[q.name].uid = v.acct[q.name].uid
      /\ q.name \in w.members[NasosUsers] <=> q.name \in v.members[NasosUsers]
      /\ w.acct[q.name].pw = q.pw
  BY <1>1, ChpasswdDoes
<1>3. Truth(q.name, w, us, db, st, p)
  BY <1>1, <1>2, StagesDiffer, StagesNotDone
     DEF Truth, Alters, Stage, CreateStage, PasswordStage, DeleteStage, SameAccount, SameEntry,
         HasEntry, Exists, Follows
<1>4. RowStage(q.name, us, p)
  BY DEF Stage, RowStage, Follows, Well
<1>5. CreateStage(q.name, w, us, db, st, p)
  BY <1>1, <1>2, StagesDiffer, StagesNotDone
     DEF Truth, Alters, Stage, CreateStage, NoOldEntry, SameAccount, SameEntry, HasEntry,
         Exists, Follows
<1>6. ImportStage(q.name, w, p) /\ SmbStage(q.name, w, p)
  BY <1>1, <1>2, StagesDiffer, StagesNotDone
     DEF Stage, ImportStage, SmbStage, SameAccount, SameEntry, HasEntry, Exists, Follows
<1>7. PasswordStage(q.name, w, p) /\ DeleteStage(q.name, w, db, st, p)
  BY <1>1, <1>2, StagesDiffer, StagesNotDone
     DEF Stage, PasswordStage, DeleteStage, SameAccount, SameEntry, HasEntry, Exists, Follows
<1> QED BY <1>3, <1>4, <1>5, <1>6, <1>7 DEF Stage

LEMMA CreateSmbpasswd ==
  ASSUME NEW v \in System, NEW us, NEW db, NEW st, NEW q \in Request, Well(q),
         q.op = "create", q.todo = AfterChpasswd, NEW w \in smbpasswd_add(v, q),
         NEW p, Follows(q, p), p.todo = <<>>, p.id = q.id,
         Truth(q.name, v, us, db, st, q), Stage(q.name, v, us, db, st, q)
  PROVE  Truth(q.name, w, us, db, st, p) /\ Stage(q.name, w, us, db, st, p)
<1>1. q.code = "ok" /\ q.name \in Names
  BY StagesNotDone DEF Well, UserOps
<1>2. /\ SameAccount(v, w, q.name) /\ HasEntry(w, q.name) /\ w.entry[q.name].pw = q.pw
      /\ w.entry[q.name].on \/ (HasEntry(v, q.name) /\ ~v.entry[q.name].on)
  BY <1>1, SmbpasswdAddDoes
<1>3. Truth(q.name, w, us, db, st, p)
  BY <1>1, <1>2, StagesDiffer, StagesNotDone
     DEF Truth, Alters, Stage, CreateStage, PasswordStage, DeleteStage, SameAccount, SameEntry,
         HasEntry, Exists, Follows
<1>4. RowStage(q.name, us, p)
  BY DEF Stage, RowStage, Follows, Well
<1>5. CreateStage(q.name, w, us, db, st, p)
  BY <1>1, <1>2, StagesDiffer, StagesNotDone
     DEF Truth, Alters, Stage, CreateStage, NoOldEntry, SameAccount, SameEntry, HasEntry,
         Exists, Follows
<1>6. ImportStage(q.name, w, p) /\ SmbStage(q.name, w, p)
  BY <1>1, <1>2, StagesDiffer, StagesNotDone
     DEF Stage, ImportStage, SmbStage, SameAccount, SameEntry, HasEntry, Exists, Follows
<1>7. PasswordStage(q.name, w, p) /\ DeleteStage(q.name, w, db, st, p)
  BY <1>1, <1>2, StagesDiffer, StagesNotDone
     DEF Stage, PasswordStage, DeleteStage, SameAccount, SameEntry, HasEntry, Exists, Follows
<1> QED BY <1>3, <1>4, <1>5, <1>6, <1>7 DEF Stage

LEMMA ImportLookup ==
  ASSUME NEW v \in System, NEW us, NEW db, NEW st, NEW q \in Request, Well(q),
         q.op = "import", q.todo = users_import_existing, NEW w \in lookup(v, q),
         NEW p, Follows(q, p), p.todo = AfterLookup, p.id = w.acct[q.name].uid,
         Truth(q.name, v, us, db, st, q), Stage(q.name, v, us, db, st, q)
  PROVE  Truth(q.name, w, us, db, st, p) /\ Stage(q.name, w, us, db, st, p)
<1>1. q.code = "ok" /\ q.name \in Names
  BY StagesNotDone DEF Well, UserOps
<1>2. w = v /\ Exists(v, q.name)
  BY DEF lookup, When
<1>3. Truth(q.name, w, us, db, st, p)
  BY <1>1, <1>2, StagesDiffer, StagesNotDone
     DEF Truth, Alters, Stage, CreateStage, PasswordStage, DeleteStage, SameAccount, SameEntry,
         HasEntry, Exists, Follows
<1>4. RowStage(q.name, us, p)
  BY DEF Stage, RowStage, Follows, Well
<1>5. CreateStage(q.name, w, us, db, st, p)
  BY <1>1, <1>2, StagesDiffer, StagesNotDone
     DEF Truth, Alters, Stage, CreateStage, NoOldEntry, SameAccount, SameEntry, HasEntry,
         Exists, Follows
<1>6. ImportStage(q.name, w, p) /\ SmbStage(q.name, w, p)
  BY <1>1, <1>2, StagesDiffer, StagesNotDone
     DEF Stage, ImportStage, SmbStage, SameAccount, SameEntry, HasEntry, Exists, Follows
<1>7. PasswordStage(q.name, w, p) /\ DeleteStage(q.name, w, db, st, p)
  BY <1>1, <1>2, StagesDiffer, StagesNotDone
     DEF Stage, PasswordStage, DeleteStage, SameAccount, SameEntry, HasEntry, Exists, Follows
<1> QED BY <1>3, <1>4, <1>5, <1>6, <1>7 DEF Stage

LEMMA ImportUsermod ==
  ASSUME NEW v \in System, NEW us, NEW db, NEW st, NEW q \in Request, Well(q),
         q.op = "import", q.todo = AfterLookup, NEW w \in usermod(v, q),
         NEW p, Follows(q, p), p.todo = <<>>, p.id = q.id,
         Truth(q.name, v, us, db, st, q), Stage(q.name, v, us, db, st, q)
  PROVE  Truth(q.name, w, us, db, st, p) /\ Stage(q.name, w, us, db, st, p)
<1>1. /\ q.code = "ok" /\ q.name \in Names /\ q.user \in Names /\ q.group = NasosUsers
      /\ q.name = q.user
  BY StagesNotDone DEF Well, UserOps
<1>2. /\ w.acct = v.acct /\ w.entry = v.entry /\ q.name \in w.members[NasosUsers]
  BY <1>1, UsermodDoes
<1>3. Truth(q.name, w, us, db, st, p)
  BY <1>1, <1>2, StagesDiffer, StagesNotDone
     DEF Truth, Alters, Stage, CreateStage, PasswordStage, DeleteStage, SameAccount, SameEntry,
         HasEntry, Exists, Follows
<1>4. RowStage(q.name, us, p)
  BY DEF Stage, RowStage, Follows, Well
<1>5. CreateStage(q.name, w, us, db, st, p)
  BY <1>1, <1>2, StagesDiffer, StagesNotDone
     DEF Truth, Alters, Stage, CreateStage, NoOldEntry, SameAccount, SameEntry, HasEntry,
         Exists, Follows
<1>6. ImportStage(q.name, w, p) /\ SmbStage(q.name, w, p)
  BY <1>1, <1>2, StagesDiffer, StagesNotDone
     DEF Stage, ImportStage, SmbStage, SameAccount, SameEntry, HasEntry, Exists, Follows
<1>7. PasswordStage(q.name, w, p) /\ DeleteStage(q.name, w, db, st, p)
  BY <1>1, <1>2, StagesDiffer, StagesNotDone
     DEF Stage, PasswordStage, DeleteStage, SameAccount, SameEntry, HasEntry, Exists, Follows
<1> QED BY <1>3, <1>4, <1>5, <1>6, <1>7 DEF Stage

LEMMA SetSmbEnable ==
  ASSUME NEW v \in System, NEW us, NEW db, NEW st, NEW q \in Request, Well(q),
         q.op = "set_smb", q.todo = users_set_smb_enabled, NEW w \in smbpasswd_enable(v, q),
         NEW p, Follows(q, p), p.todo = <<>>, p.id = q.id,
         Truth(q.name, v, us, db, st, q), Stage(q.name, v, us, db, st, q)
  PROVE  Truth(q.name, w, us, db, st, p) /\ Stage(q.name, w, us, db, st, p)
<1>1. q.code = "ok" /\ q.name \in Names
  BY StagesNotDone DEF Well, UserOps
<1>2. /\ SameAccount(v, w, q.name) /\ HasEntry(v, q.name) /\ HasEntry(w, q.name)
      /\ w.entry[q.name].on = q.on /\ w.entry[q.name].pw = v.entry[q.name].pw
  BY <1>1, SmbpasswdEnableDoes
<1>3. Truth(q.name, w, us, db, st, p)
  BY <1>1, <1>2, StagesDiffer, StagesNotDone
     DEF Truth, Alters, Stage, CreateStage, PasswordStage, DeleteStage, SameAccount, SameEntry,
         HasEntry, Exists, Follows
<1>4. RowStage(q.name, us, p)
  BY DEF Stage, RowStage, Follows, Well
<1>5. CreateStage(q.name, w, us, db, st, p)
  BY <1>1, <1>2, StagesDiffer, StagesNotDone
     DEF Truth, Alters, Stage, CreateStage, NoOldEntry, SameAccount, SameEntry, HasEntry,
         Exists, Follows
<1>6. ImportStage(q.name, w, p) /\ SmbStage(q.name, w, p)
  BY <1>1, <1>2, StagesDiffer, StagesNotDone
     DEF Stage, ImportStage, SmbStage, SameAccount, SameEntry, HasEntry, Exists, Follows
<1>7. PasswordStage(q.name, w, p) /\ DeleteStage(q.name, w, db, st, p)
  BY <1>1, <1>2, StagesDiffer, StagesNotDone
     DEF Stage, PasswordStage, DeleteStage, SameAccount, SameEntry, HasEntry, Exists, Follows
<1> QED BY <1>3, <1>4, <1>5, <1>6, <1>7 DEF Stage

LEMMA PasswordChpasswd ==
  ASSUME NEW v \in System, NEW us, NEW db, NEW st, NEW q \in Request, Well(q),
         q.op = "set_password", q.todo = users_set_password, NEW w \in chpasswd(v, q),
         NEW p, Follows(q, p), p.todo = AfterPassword, p.id = q.id,
         Truth(q.name, v, us, db, st, q), Stage(q.name, v, us, db, st, q)
  PROVE  Truth(q.name, w, us, db, st, p) /\ Stage(q.name, w, us, db, st, p)
<1>1. q.code = "ok" /\ q.name \in Names
  BY StagesNotDone DEF Well, UserOps
<1>2. /\ SameEntry(v, w, q.name) /\ Exists(v, q.name) /\ w.acct[q.name].uid = v.acct[q.name].uid
      /\ q.name \in w.members[NasosUsers] <=> q.name \in v.members[NasosUsers]
      /\ w.acct[q.name].pw = q.pw
  BY <1>1, ChpasswdDoes
<1>3. Truth(q.name, w, us, db, st, p)
  BY <1>1, <1>2, StagesDiffer, StagesNotDone
     DEF Truth, Alters, Stage, CreateStage, PasswordStage, DeleteStage, SameAccount, SameEntry,
         HasEntry, Exists, Follows
<1>4. RowStage(q.name, us, p)
  BY DEF Stage, RowStage, Follows, Well
<1>5. CreateStage(q.name, w, us, db, st, p)
  BY <1>1, <1>2, StagesDiffer, StagesNotDone
     DEF Truth, Alters, Stage, CreateStage, NoOldEntry, SameAccount, SameEntry, HasEntry,
         Exists, Follows
<1>6. ImportStage(q.name, w, p) /\ SmbStage(q.name, w, p)
  BY <1>1, <1>2, StagesDiffer, StagesNotDone
     DEF Stage, ImportStage, SmbStage, SameAccount, SameEntry, HasEntry, Exists, Follows
<1>7. PasswordStage(q.name, w, p) /\ DeleteStage(q.name, w, db, st, p)
  BY <1>1, <1>2, StagesDiffer, StagesNotDone
     DEF Stage, PasswordStage, DeleteStage, SameAccount, SameEntry, HasEntry, Exists, Follows
<1> QED BY <1>3, <1>4, <1>5, <1>6, <1>7 DEF Stage

LEMMA PasswordSmbpasswd ==
  ASSUME NEW v \in System, NEW us, NEW db, NEW st, NEW q \in Request, Well(q),
         q.op = "set_password", q.todo = AfterPassword, NEW w \in smbpasswd(v, q),
         NEW p, Follows(q, p), p.todo = <<>>, p.id = q.id,
         Truth(q.name, v, us, db, st, q), Stage(q.name, v, us, db, st, q)
  PROVE  Truth(q.name, w, us, db, st, p) /\ Stage(q.name, w, us, db, st, p)
<1>1. q.code = "ok" /\ q.name \in Names
  BY StagesNotDone DEF Well, UserOps
<1>2. /\ SameAccount(v, w, q.name) /\ HasEntry(v, q.name) /\ HasEntry(w, q.name)
      /\ w.entry[q.name].pw = q.pw /\ w.entry[q.name].on = v.entry[q.name].on
  BY <1>1, SmbpasswdDoes
<1>3. Truth(q.name, w, us, db, st, p)
  BY <1>1, <1>2, StagesDiffer, StagesNotDone
     DEF Truth, Alters, Stage, CreateStage, PasswordStage, DeleteStage, SameAccount, SameEntry,
         HasEntry, Exists, Follows
<1>4. RowStage(q.name, us, p)
  BY DEF Stage, RowStage, Follows, Well
<1>5. CreateStage(q.name, w, us, db, st, p)
  BY <1>1, <1>2, StagesDiffer, StagesNotDone
     DEF Truth, Alters, Stage, CreateStage, NoOldEntry, SameAccount, SameEntry, HasEntry,
         Exists, Follows
<1>6. ImportStage(q.name, w, p) /\ SmbStage(q.name, w, p)
  BY <1>1, <1>2, StagesDiffer, StagesNotDone
     DEF Stage, ImportStage, SmbStage, SameAccount, SameEntry, HasEntry, Exists, Follows
<1>7. PasswordStage(q.name, w, p) /\ DeleteStage(q.name, w, db, st, p)
  BY <1>1, <1>2, StagesDiffer, StagesNotDone
     DEF Stage, PasswordStage, DeleteStage, SameAccount, SameEntry, HasEntry, Exists, Follows
<1> QED BY <1>3, <1>4, <1>5, <1>6, <1>7 DEF Stage

LEMMA DeletePdbedit ==
  ASSUME NEW v \in System, NEW us, NEW db, NEW st, NEW q \in Request, Well(q),
         q.op = "delete", q.todo = users_delete, NEW w \in pdbedit(v, q),
         NEW p, Follows(q, p), p.todo = AfterPdbedit, p.id = q.id,
         Truth(q.name, v, us, db, st, q), Stage(q.name, v, us, db, st, q)
  PROVE  Truth(q.name, w, us, db, st, p) /\ Stage(q.name, w, us, db, st, p)
<1>1. q.code = "ok" /\ q.name \in Names
  BY StagesNotDone DEF Well, UserOps
<1>2. /\ SameAccount(v, w, q.name) /\ ~HasEntry(w, q.name)
  BY <1>1, PdbeditDoes
<1>3. Truth(q.name, w, us, db, st, p)
  BY <1>1, <1>2, StagesDiffer, StagesNotDone
     DEF Truth, Alters, Stage, CreateStage, PasswordStage, DeleteStage, SameAccount, SameEntry,
         HasEntry, Exists, Follows
<1>4. RowStage(q.name, us, p)
  BY DEF Stage, RowStage, Follows, Well
<1>5. CreateStage(q.name, w, us, db, st, p)
  BY <1>1, <1>2, StagesDiffer, StagesNotDone
     DEF Truth, Alters, Stage, CreateStage, NoOldEntry, SameAccount, SameEntry, HasEntry,
         Exists, Follows
<1>6. ImportStage(q.name, w, p) /\ SmbStage(q.name, w, p)
  BY <1>1, <1>2, StagesDiffer, StagesNotDone
     DEF Stage, ImportStage, SmbStage, SameAccount, SameEntry, HasEntry, Exists, Follows
<1>7. PasswordStage(q.name, w, p) /\ DeleteStage(q.name, w, db, st, p)
  BY <1>1, <1>2, StagesDiffer, StagesNotDone
     DEF Stage, PasswordStage, DeleteStage, SameAccount, SameEntry, HasEntry, Exists, Follows
<1> QED BY <1>3, <1>4, <1>5, <1>6, <1>7 DEF Stage

LEMMA DeleteUserdel ==
  ASSUME NEW v \in System, NEW us, NEW db, NEW st, NEW q \in Request, Well(q),
         q.op = "delete", q.todo = AfterPdbedit, NEW w \in userdel(v, q),
         NEW p, Follows(q, p), p.todo = <<>>, p.id = q.id,
         Truth(q.name, v, us, db, st, q), Stage(q.name, v, us, db, st, q)
  PROVE  Truth(q.name, w, us, db, st, p) /\ Stage(q.name, w, us, db, st, p)
<1>1. q.code = "ok" /\ q.name \in Names
  BY StagesNotDone DEF Well, UserOps
<1>2. /\ SameEntry(v, w, q.name) /\ ~Exists(w, q.name)
  BY <1>1, UserdelDoes
<1>3. Truth(q.name, w, us, db, st, p)
  BY <1>1, <1>2, StagesDiffer, StagesNotDone
     DEF Truth, Alters, Stage, CreateStage, PasswordStage, DeleteStage, SameAccount, SameEntry,
         HasEntry, Exists, Follows
<1>4. RowStage(q.name, us, p)
  BY DEF Stage, RowStage, Follows, Well
<1>5. CreateStage(q.name, w, us, db, st, p)
  BY <1>1, <1>2, StagesDiffer, StagesNotDone
     DEF Truth, Alters, Stage, CreateStage, NoOldEntry, SameAccount, SameEntry, HasEntry,
         Exists, Follows
<1>6. ImportStage(q.name, w, p) /\ SmbStage(q.name, w, p)
  BY <1>1, <1>2, StagesDiffer, StagesNotDone
     DEF Stage, ImportStage, SmbStage, SameAccount, SameEntry, HasEntry, Exists, Follows
<1>7. PasswordStage(q.name, w, p) /\ DeleteStage(q.name, w, db, st, p)
  BY <1>1, <1>2, StagesDiffer, StagesNotDone
     DEF Stage, PasswordStage, DeleteStage, SameAccount, SameEntry, HasEntry, Exists, Follows
<1> QED BY <1>3, <1>4, <1>5, <1>6, <1>7 DEF Stage

\* A command that fails ends the handler, but pdbedit, which leaves the entry.
LEMMA CommandFails ==
  ASSUME NEW v, NEW us, NEW db, NEW st, NEW q \in Request, Well(q), q.op \in UserOps,
         q.todo # <<>>, NEW p, p.op = q.op, p.row = q.row, p.id = q.id, p.todo = <<>>,
         ~Ignored(Head(q.todo)), p.code = ErrorCode(q.op, Head(q.todo)),
         Truth(q.name, v, us, db, st, q), Stage(q.name, v, us, db, st, q)
  PROVE  Truth(q.name, v, us, db, st, p) /\ Stage(q.name, v, us, db, st, p)
<1>1. q.code = "ok" /\ p.code # "ok"
  BY DEF Well, ErrorCode
<1>2. q.op = "delete" => q.todo = AfterPdbedit
  BY Heads DEF Well, Stages, Ignored
<1>3. p.op = "set_password" /\ p.code = "system_error" => q.todo = users_set_password
  BY Heads DEF Well, Stages, ErrorCode
<1>4. Truth(q.name, v, us, db, st, p)
  BY <1>1, <1>2, <1>3, StagesDiffer, StagesNotDone DEF Truth, Alters
<1>5. RowStage(q.name, us, p)
  BY DEF Stage, RowStage
<1>6. /\ CreateStage(q.name, v, us, db, st, p) /\ ImportStage(q.name, v, p)
      /\ SmbStage(q.name, v, p) /\ PasswordStage(q.name, v, p)
  BY <1>1 DEF CreateStage, ImportStage, SmbStage, PasswordStage
<1>7. DeleteStage(q.name, v, db, st, p)
  BY <1>1, <1>2, StagesDiffer, StagesNotDone DEF Stage, DeleteStage
<1> QED BY <1>4, <1>5, <1>6, <1>7 DEF Stage

LEMMA PdbeditFails ==
  ASSUME NEW v, NEW us, NEW db, NEW st, NEW db2, NEW st2, NEW q \in Request, Well(q),
         q.op \in UserOps, q.todo = users_delete, NEW p, p.op = q.op, p.row = q.row,
         p.id = q.id, p.todo = AfterPdbedit, p.code = q.code,
         IF HasEntry(v, q.name)
         THEN st2 = st \cup {q.name} /\ db2 = db \cup {<<q.name, "smb">>}
         ELSE st2 = st /\ db2 = db,
         Truth(q.name, v, us, db, st, q), Stage(q.name, v, us, db, st, q)
  PROVE  Truth(q.name, v, us, db2, st2, p) /\ Stage(q.name, v, us, db2, st2, p)
<1>1. q.op = "delete"
  BY Heads, StagesNotDone DEF Well, Stages, UserOps
<1>2. Truth(q.name, v, us, db2, st2, p)
  BY <1>1, StagesDiffer, StagesNotDone DEF Truth, Alters
<1>3. RowStage(q.name, us, p)
  BY DEF Stage, RowStage
<1>4. Stage(q.name, v, us, db2, st2, p)
  BY <1>1, <1>3, StagesDiffer, StagesNotDone
     DEF Stage, CreateStage, ImportStage, SmbStage, PasswordStage, DeleteStage
<1> QED BY <1>2, <1>4

\* What Results and Found are for each command.
LEMMA ResultsAre ==
  ASSUME NEW v, NEW w, NEW q
  PROVE  /\ Results("useradd", v, q) = useradd(v, q) /\ Results("id", v, q) = lookup(v, q)
         /\ Results("chpasswd", v, q) = chpasswd(v, q)
         /\ Results("smbpasswd_add", v, q) = smbpasswd_add(v, q)
         /\ Results("lookup", v, q) = lookup(v, q) /\ Results("usermod", v, q) = usermod(v, q)
         /\ Results("smbpasswd_enable", v, q) = smbpasswd_enable(v, q)
         /\ Results("smbpasswd", v, q) = smbpasswd(v, q)
         /\ Results("pdbedit", v, q) = pdbedit(v, q) /\ Results("userdel", v, q) = userdel(v, q)
         /\ Results("groupadd", v, q) = groupadd(v, q)
         /\ Results("getent", v, q) = When(v.gid[q.name] # 0, v)
         /\ Results("groupdel", v, q) = groupdel(v, q)
         /\ Results("gpasswd", v, q) = gpasswd(v, q)
BY DEF Results

LEMMA FoundIs ==
  ASSUME NEW w, NEW q
  PROVE  /\ Found("id", w, q) = w.acct[q.name].uid /\ Found("lookup", w, q) = w.acct[q.name].uid
         /\ Found("getent", w, q) = w.gid[q.name]
         /\ \A c \in {"useradd", "chpasswd", "smbpasswd_add", "usermod", "smbpasswd_enable",
                      "smbpasswd", "pdbedit", "userdel", "groupadd", "groupdel", "gpasswd"} :
              Found(c, w, q) = q.id
BY DEF Found

\* One after another, whichever it is.
LEMMA UserCommand ==
  ASSUME NEW v \in System, NEW us, NEW db, NEW st, NEW q \in Request, Well(q),
         q.op \in UserOps, q.todo # <<>>, NEW w \in Results(Head(q.todo), v, q),
         NEW p, Follows(q, p), p.todo = Tail(q.todo), p.id = Found(Head(q.todo), w, q),
         Truth(q.name, v, us, db, st, q), Stage(q.name, v, us, db, st, q)
  PROVE  Truth(q.name, w, us, db, st, p) /\ Stage(q.name, w, us, db, st, p)
<1>1. CASE q.op = "create"
  <2>1. q.todo \in {users_create, AfterUseradd, AfterId, AfterChpasswd}
    BY <1>1 DEF Well, Stages
  <2>2. CASE q.todo = users_create
    <3>1. w \in useradd(v, q) /\ p.todo = AfterUseradd /\ p.id = q.id
      BY <2>2, Heads, Tails, ResultsAre, FoundIs
    <3> QED BY <1>1, <2>2, <3>1, CreateUseradd
  <2>3. CASE q.todo = AfterUseradd
    <3>1. w \in lookup(v, q) /\ p.todo = AfterId /\ p.id = w.acct[q.name].uid
      BY <2>3, Heads, Tails, ResultsAre, FoundIs
    <3> QED BY <1>1, <2>3, <3>1, CreateId
  <2>4. CASE q.todo = AfterId
    <3>1. w \in chpasswd(v, q) /\ p.todo = AfterChpasswd /\ p.id = q.id
      BY <2>4, Heads, Tails, ResultsAre, FoundIs
    <3> QED BY <1>1, <2>4, <3>1, CreateChpasswd
  <2>5. CASE q.todo = AfterChpasswd
    <3>1. w \in smbpasswd_add(v, q) /\ p.todo = <<>> /\ p.id = q.id
      BY <2>5, Heads, Tails, ResultsAre, FoundIs
    <3> QED BY <1>1, <2>5, <3>1, CreateSmbpasswd
  <2> QED BY <2>1, <2>2, <2>3, <2>4, <2>5
<1>2. CASE q.op = "import"
  <2>1. q.todo \in {users_import_existing, AfterLookup}
    BY <1>2 DEF Well, Stages
  <2>2. CASE q.todo = users_import_existing
    <3>1. w \in lookup(v, q) /\ p.todo = AfterLookup /\ p.id = w.acct[q.name].uid
      BY <2>2, Heads, Tails, ResultsAre, FoundIs
    <3> QED BY <1>2, <2>2, <3>1, ImportLookup
  <2>3. CASE q.todo = AfterLookup
    <3>1. w \in usermod(v, q) /\ p.todo = <<>> /\ p.id = q.id
      BY <2>3, Heads, Tails, ResultsAre, FoundIs
    <3> QED BY <1>2, <2>3, <3>1, ImportUsermod
  <2> QED BY <2>1, <2>2, <2>3
<1>3. CASE q.op = "set_smb"
  <2>1. q.todo = users_set_smb_enabled
    BY <1>3 DEF Well, Stages
  <2>2. w \in smbpasswd_enable(v, q) /\ p.todo = <<>> /\ p.id = q.id
    BY <2>1, Heads, Tails, ResultsAre, FoundIs
  <2> QED BY <1>3, <2>1, <2>2, SetSmbEnable
<1>4. CASE q.op = "set_password"
  <2>1. q.todo \in {users_set_password, AfterPassword}
    BY <1>4 DEF Well, Stages
  <2>2. CASE q.todo = users_set_password
    <3>1. w \in chpasswd(v, q) /\ p.todo = AfterPassword /\ p.id = q.id
      BY <2>2, Heads, Tails, ResultsAre, FoundIs
    <3> QED BY <1>4, <2>2, <3>1, PasswordChpasswd
  <2>3. CASE q.todo = AfterPassword
    <3>1. w \in smbpasswd(v, q) /\ p.todo = <<>> /\ p.id = q.id
      BY <2>3, Heads, Tails, ResultsAre, FoundIs
    <3> QED BY <1>4, <2>3, <3>1, PasswordSmbpasswd
  <2> QED BY <2>1, <2>2, <2>3
<1>5. CASE q.op = "delete"
  <2>1. q.todo \in {users_delete, AfterPdbedit}
    BY <1>5 DEF Well, Stages
  <2>2. CASE q.todo = users_delete
    <3>1. w \in pdbedit(v, q) /\ p.todo = AfterPdbedit /\ p.id = q.id
      BY <2>2, Heads, Tails, ResultsAre, FoundIs
    <3> QED BY <1>5, <2>2, <3>1, DeletePdbedit
  <2>3. CASE q.todo = AfterPdbedit
    <3>1. w \in userdel(v, q) /\ p.todo = <<>> /\ p.id = q.id
      BY <2>3, Heads, Tails, ResultsAre, FoundIs
    <3> QED BY <1>5, <2>3, <3>1, DeleteUserdel
  <2> QED BY <2>1, <2>2, <2>3
<1> QED BY <1>1, <1>2, <1>3, <1>4, <1>5 DEF UserOps

\* A command that took effect and reports a failure is one that worked and
\* whose request then failed.
LEMMA CommandMisreports ==
  ASSUME NEW v \in System, NEW us, NEW db, NEW st, NEW q \in Request, Well(q),
         q.op \in UserOps, q.todo # <<>>, NEW w \in Results(Head(q.todo), v, q),
         NEW db2, db2 = db \cup ({q.name} \X HiddenBy(Head(q.todo))),
         NEW p, p.op = q.op, p.row = q.row, p.id = q.id, p.todo = <<>>,
         ~Ignored(Head(q.todo)), p.code = ErrorCode(q.op, Head(q.todo)),
         Truth(q.name, v, us, db, st, q), Stage(q.name, v, us, db, st, q)
  PROVE  Truth(q.name, w, us, db2, st, p) /\ Stage(q.name, w, us, db2, st, p)
<1> DEFINE c == Head(q.todo)
           s == [q EXCEPT !.todo = Tail(@), !.id = Found(c, w, q)]
<1>1. /\ Follows(q, s) /\ s.todo = Tail(q.todo) /\ s.id = Found(c, w, q)
      /\ s.op = q.op /\ s.code = q.code
  BY DEF Request, Follows
<1> HIDE DEF s
<1>2. Truth(q.name, w, us, db, st, s) /\ Stage(q.name, w, us, db, st, s)
  BY <1>1, UserCommand
<1>3. q.code = "ok" /\ p.code # "ok"
  BY DEF Well, ErrorCode
<1>4. q.op = "delete" => q.todo = AfterPdbedit /\ c = "userdel" /\ Tail(q.todo) = <<>>
  BY Heads, Tails DEF Well, Stages, Ignored
<1>5. /\ q.op = "set_smb" => c = "smbpasswd_enable"
      /\ q.op = "set_password" => c = "chpasswd" \/ p.code = "smb_password_sync_failed"
  BY Heads DEF Well, Stages, ErrorCode
<1>6. \A a \in Aspects : /\ <<q.name, a>> \in db => <<q.name, a>> \in db2
                         /\ a \in HiddenBy(c) => <<q.name, a>> \in db2
  BY DEF Aspects
<1>7. /\ <<q.name, "account">> \notin db2 /\ ~Alters(p, "account") =>
           <<q.name, "account">> \notin db /\ ~Alters(s, "account")
      /\ <<q.name, "smb">> \notin db2 /\ ~Alters(p, "smb") =>
           <<q.name, "smb">> \notin db /\ ~Alters(s, "smb")
      /\ <<q.name, "password">> \notin db2 /\ ~Alters(p, "password") =>
           <<q.name, "password">> \notin db /\ ~Alters(s, "password")
  <2>1. q.op # "delete_group" /\ (q.op = "delete" => p.todo # users_delete)
    BY StagesNotDone DEF UserOps
  <2>2. q.op = "delete" => "account" \in HiddenBy(c)
    BY <1>4 DEF HiddenBy
  <2>3. q.op = "set_smb" => "smb" \in HiddenBy(c)
    BY <1>5 DEF HiddenBy
  <2>4. q.op = "set_password" => "password" \in HiddenBy(c) \/ Alters(p, "password")
    BY <1>5, StagesNotDone DEF HiddenBy, Alters
  <2> QED BY <1>1, <1>6, <2>1, <2>2, <2>3, <2>4 DEF Alters, Aspects
<1>8. Truth(q.name, w, us, db2, st, p)
  <2>1. <<q.name, "smb">> \in db => <<q.name, "smb">> \in db2
    BY <1>6 DEF Aspects
  <2> QED BY <1>2, <1>7, <2>1 DEF Truth
<1>9. RowStage(q.name, us, p)
  BY DEF Stage, RowStage
<1>10. /\ CreateStage(q.name, w, us, db2, st, p) /\ ImportStage(q.name, w, p)
       /\ SmbStage(q.name, w, p) /\ PasswordStage(q.name, w, p)
  BY <1>3 DEF CreateStage, ImportStage, SmbStage, PasswordStage
<1>11. DeleteStage(q.name, w, db2, st, p)
  <2>1. <<q.name, "smb">> \in db => <<q.name, "smb">> \in db2
    BY <1>6 DEF Aspects
  <2> QED BY <1>1, <1>2, <1>3, <1>4, <2>1, StagesNotDone DEF Stage, DeleteStage
<1> QED BY <1>8, <1>9, <1>10, <1>11 DEF Stage

-----------------------------------------------------------------------------
(* The same of a group's name: gs are the rows.                             *)

GroupTruth(g, w, gs, db, q) ==
    <<g, "account">> \notin db /\ ~Alters(q, "account") =>
      \A i \in Numbers : gs[i] = g => w.gid[g] = i

GroupStage(g, w, gs, db, q) ==
    /\ q.op \in {"delete_group", "member"} => gs[q.id] = g
    /\ q.op = "create_group" /\ q.code = "ok" /\ q.todo # groups_create =>
         /\ w.gid[g] # 0
         /\ <<g, "account">> \notin db => \A i \in Numbers : gs[i] # g
         /\ q.todo = <<>> => q.id = w.gid[g]

LEMMA GroupStays ==
  ASSUME NEW g, NEW v, NEW w, NEW gs, NEW gs2, NEW db, NEW db2, NEW q,
         w.gid[g] = v.gid[g],
         \A i \in Numbers : gs[i] = g \/ gs2[i] = g => gs2[i] = gs[i],
         \A a \in Aspects : <<g, a>> \in db => <<g, a>> \in db2,
         q.op \in {"delete_group", "member"} => q.id \in Numbers,
         GroupTruth(g, v, gs, db, q), GroupStage(g, v, gs, db, q)
  PROVE  GroupTruth(g, w, gs2, db2, q) /\ GroupStage(g, w, gs2, db2, q)
<1>1. <<g, "account">> \notin db2 => <<g, "account">> \notin db
  BY DEF Aspects
<1> QED BY <1>1 DEF GroupTruth, GroupStage

LEMMA GroupCommand ==
  ASSUME NEW v \in System, NEW gs, NEW db, NEW q \in Request, Well(q),
         q.op \in GroupOps, q.todo # <<>>, NEW w \in Results(Head(q.todo), v, q),
         NEW p, Follows(q, p), p.todo = Tail(q.todo), p.id = Found(Head(q.todo), w, q),
         GroupTruth(q.name, v, gs, db, q), GroupStage(q.name, v, gs, db, q)
  PROVE  GroupTruth(q.name, w, gs, db, p) /\ GroupStage(q.name, w, gs, db, p)
<1>1. q.code = "ok" /\ q.name \in Groups
  BY DEF Well
<1>2. CASE q.op = "create_group" /\ q.todo = groups_create
  <2>1. w \in groupadd(v, q) /\ p.todo = AfterGroupadd
    BY <1>2, Heads, Tails, ResultsAre
  <2>2. v.gid[q.name] = 0 /\ w.gid[q.name] # 0
    BY <1>1, <2>1, GroupaddDoes, NumbersFacts
  <2> QED BY <1>1, <1>2, <2>1, <2>2, StagesNotDone, NumbersFacts
             DEF GroupTruth, GroupStage, Alters, Follows
<1>3. CASE q.op = "create_group" /\ q.todo = AfterGroupadd
  <2>1. w \in When(v.gid[q.name] # 0, v) /\ p.todo = <<>> /\ p.id = w.gid[q.name]
    BY <1>3, Heads, Tails, ResultsAre, FoundIs
  <2>2. w = v
    BY <2>1 DEF When
  <2> QED BY <1>1, <1>3, <2>1, <2>2, StagesNotDone, StagesDiffer
             DEF GroupTruth, GroupStage, Alters, Follows
<1>4. CASE q.op = "delete_group"
  <2>1. q.todo = groups_delete
    BY <1>4 DEF Well, Stages
  <2>2. p.todo = <<>> /\ p.id = q.id
    BY <2>1, Heads, Tails, FoundIs
  <2> QED BY <1>1, <1>4, <2>2 DEF GroupTruth, GroupStage, Alters, Follows
<1>5. CASE q.op = "member"
  <2>1. q.todo \in {groups_add_member, groups_remove_member}
    BY <1>5 DEF Well, Stages
  <2>2. /\ w \in usermod(v, q) \/ w \in gpasswd(v, q)
        /\ p.todo = <<>> /\ p.id = q.id
    <3>1. CASE q.todo = groups_add_member
      <4>1. Head(q.todo) = "usermod" /\ Tail(q.todo) = <<>>
        BY <3>1, Heads, Tails
      <4> QED BY <4>1, ResultsAre, FoundIs
    <3>2. CASE q.todo = groups_remove_member
      <4>1. Head(q.todo) = "gpasswd" /\ Tail(q.todo) = <<>>
        BY <3>2, Heads, Tails
      <4> QED BY <4>1, ResultsAre, FoundIs
    <3> QED BY <2>1, <3>1, <3>2
  <2>3. q.group \in Groups /\ q.user \in Names
    BY <1>1, <1>5 DEF Well
  <2>4. q.group # NasosUsers
    BY <2>3, NamesAssumption
  <2>5. w.gid = v.gid
    BY <2>2, <2>3, <2>4, UsermodDoes, GpasswdDoes
  <2> QED BY <1>1, <1>5, <2>2, <2>5 DEF GroupTruth, GroupStage, Alters, Follows
<1>6. q.op = "create_group" => q.todo \in {groups_create, AfterGroupadd}
  BY DEF Well, Stages
<1> QED BY <1>2, <1>3, <1>4, <1>5, <1>6 DEF GroupOps

LEMMA GroupCommandFails ==
  ASSUME NEW v, NEW gs, NEW db, NEW q \in Request, Well(q), q.op \in GroupOps,
         q.todo # <<>>, NEW p, p.op = q.op, p.id = q.id, p.todo = <<>>,
         p.code = ErrorCode(q.op, Head(q.todo)),
         GroupTruth(q.name, v, gs, db, q), GroupStage(q.name, v, gs, db, q)
  PROVE  GroupTruth(q.name, v, gs, db, p) /\ GroupStage(q.name, v, gs, db, p)
<1>1. q.code = "ok" /\ p.code # "ok"
  BY DEF Well, ErrorCode
<1> QED BY <1>1 DEF GroupTruth, GroupStage, Alters

LEMMA GroupCommandMisreports ==
  ASSUME NEW v \in System, NEW gs, NEW db, NEW q \in Request, Well(q), q.op \in GroupOps,
         q.todo # <<>>, NEW w \in Results(Head(q.todo), v, q),
         NEW db2, db2 = db \cup ({q.name} \X HiddenBy(Head(q.todo))),
         NEW p, p.op = q.op, p.id = q.id, p.todo = <<>>,
         p.code = ErrorCode(q.op, Head(q.todo)),
         GroupTruth(q.name, v, gs, db, q), GroupStage(q.name, v, gs, db, q)
  PROVE  GroupTruth(q.name, w, gs, db2, p) /\ GroupStage(q.name, w, gs, db2, p)
<1> DEFINE c == Head(q.todo)
           s == [q EXCEPT !.todo = Tail(@), !.id = Found(c, w, q)]
<1>1. /\ Follows(q, s) /\ s.todo = Tail(q.todo) /\ s.id = Found(c, w, q)
      /\ s.op = q.op /\ s.code = q.code
  BY DEF Request, Follows
<1> HIDE DEF s
<1>2. GroupTruth(q.name, w, gs, db, s) /\ GroupStage(q.name, w, gs, db, s)
  BY <1>1, GroupCommand
<1>3. q.code = "ok" /\ p.code # "ok"
  BY DEF Well, ErrorCode
<1>4. q.op = "delete_group" => "account" \in HiddenBy(c)
  BY Heads DEF Well, Stages, HiddenBy
<1>5. <<q.name, "account">> \notin db2 =>
        <<q.name, "account">> \notin db /\ "account" \notin HiddenBy(c)
  OBVIOUS
<1>6. GroupTruth(q.name, w, gs, db2, p)
  BY <1>1, <1>2, <1>4, <1>5 DEF GroupTruth, Alters, GroupOps
<1>7. GroupStage(q.name, w, gs, db2, p)
  BY <1>3 DEF GroupStage
<1> QED BY <1>6, <1>7

-----------------------------------------------------------------------------
(* The types after a command.                                               *)

LEMMA StagesAre ==
    /\ Stages("create") = {users_create, AfterUseradd, AfterId, AfterChpasswd, <<>>}
    /\ Stages("import") = {users_import_existing, AfterLookup, <<>>}
    /\ Stages("set_smb") = {users_set_smb_enabled, <<>>}
    /\ Stages("set_password") = {users_set_password, AfterPassword, <<>>}
    /\ Stages("delete") = {users_delete, AfterPdbedit, <<>>}
    /\ Stages("create_group") = {groups_create, AfterGroupadd, <<>>}
    /\ Stages("delete_group") = {groups_delete, <<>>}
    /\ Stages("member") = {groups_add_member, groups_remove_member, <<>>}
BY DEF Stages

\* Request q is at this stage; its next command is c, and t is left then.
At(q, op, todo, c, t) == q.op = op /\ q.todo = todo /\ Head(q.todo) = c /\ Tail(q.todo) = t

LEMMA StageIs ==
  ASSUME NEW q, Well(q), q.op \in UserOps \cup GroupOps, q.todo # <<>>
  PROVE  \/ At(q, "create", users_create, "useradd", AfterUseradd)
         \/ At(q, "create", AfterUseradd, "id", AfterId)
         \/ At(q, "create", AfterId, "chpasswd", AfterChpasswd)
         \/ At(q, "create", AfterChpasswd, "smbpasswd_add", <<>>)
         \/ At(q, "import", users_import_existing, "lookup", AfterLookup)
         \/ At(q, "import", AfterLookup, "usermod", <<>>)
         \/ At(q, "set_smb", users_set_smb_enabled, "smbpasswd_enable", <<>>)
         \/ At(q, "set_password", users_set_password, "chpasswd", AfterPassword)
         \/ At(q, "set_password", AfterPassword, "smbpasswd", <<>>)
         \/ At(q, "delete", users_delete, "pdbedit", AfterPdbedit)
         \/ At(q, "delete", AfterPdbedit, "userdel", <<>>)
         \/ At(q, "create_group", groups_create, "groupadd", AfterGroupadd)
         \/ At(q, "create_group", AfterGroupadd, "getent", <<>>)
         \/ At(q, "delete_group", groups_delete, "groupdel", <<>>)
         \/ At(q, "member", groups_add_member, "usermod", <<>>)
         \/ At(q, "member", groups_remove_member, "gpasswd", <<>>)
<1>1. q.todo \in Stages(q.op)
  BY DEF Well
<1>2. CASE q.op = "create"
  <2>1. q.todo \in {users_create, AfterUseradd, AfterId, AfterChpasswd}
    BY <1>1, <1>2 DEF Stages
  <2> QED BY <1>2, <2>1, Heads, Tails DEF At
<1>3. CASE q.op = "import"
  <2>1. q.todo \in {users_import_existing, AfterLookup}
    BY <1>1, <1>3 DEF Stages
  <2> QED BY <1>3, <2>1, Heads, Tails DEF At
<1>4. CASE q.op = "set_smb"
  <2>1. q.todo \in {users_set_smb_enabled}
    BY <1>1, <1>4 DEF Stages
  <2> QED BY <1>4, <2>1, Heads, Tails DEF At
<1>5. CASE q.op = "set_password"
  <2>1. q.todo \in {users_set_password, AfterPassword}
    BY <1>1, <1>5 DEF Stages
  <2> QED BY <1>5, <2>1, Heads, Tails DEF At
<1>6. CASE q.op = "delete"
  <2>1. q.todo \in {users_delete, AfterPdbedit}
    BY <1>1, <1>6 DEF Stages
  <2> QED BY <1>6, <2>1, Heads, Tails DEF At
<1>7. CASE q.op = "create_group"
  <2>1. q.todo \in {groups_create, AfterGroupadd}
    BY <1>1, <1>7 DEF Stages
  <2> QED BY <1>7, <2>1, Heads, Tails DEF At
<1>8. CASE q.op = "delete_group"
  <2>1. q.todo \in {groups_delete}
    BY <1>1, <1>8 DEF Stages
  <2> QED BY <1>8, <2>1, Heads, Tails DEF At
<1>9. CASE q.op = "member"
  <2>1. q.todo \in {groups_add_member, groups_remove_member}
    BY <1>1, <1>9 DEF Stages
  <2> QED BY <1>9, <2>1, Heads, Tails DEF At
<1> QED BY <1>2, <1>3, <1>4, <1>5, <1>6, <1>7, <1>8, <1>9 DEF UserOps, GroupOps

LEMMA CommandTypes ==
  ASSUME NEW v \in System, NEW q \in Request, Well(q), q.op \in UserOps \cup GroupOps,
         q.todo # <<>>, NEW w \in Results(Head(q.todo), v, q)
  PROVE  w \in System /\ Elsewhere(v, w, q.name)
<1> USE DEF UserOps, GroupOps
<1>1. /\ q.op \in UserOps => q.name \in Names
      /\ q.op \in GroupOps => q.name \in Groups
      /\ q.op = "import" => q.user = q.name /\ q.group = NasosUsers
      /\ q.op = "member" => q.group \in Groups /\ q.user \in Names
  BY DEF Well
<1>2. Elsewhere(v, v, q.name)
  BY DEF Elsewhere
<1>3. CASE At(q, "create", users_create, "useradd", AfterUseradd)
  <2>1. w \in useradd(v, q)
    BY <1>3, ResultsAre DEF At
  <2> QED BY <1>1, <1>3, <2>1, UseraddDoes DEF At
<1>4. CASE At(q, "create", AfterUseradd, "id", AfterId)
  <2>1. w \in lookup(v, q)
    BY <1>4, ResultsAre DEF At
  <2>2. w = v
    BY <2>1 DEF lookup, When
  <2> QED BY <1>2, <2>2
<1>5. CASE At(q, "create", AfterId, "chpasswd", AfterChpasswd)
  <2>1. w \in chpasswd(v, q)
    BY <1>5, ResultsAre DEF At
  <2> QED BY <1>1, <1>5, <2>1, ChpasswdDoes DEF At
<1>6. CASE At(q, "create", AfterChpasswd, "smbpasswd_add", <<>>)
  <2>1. w \in smbpasswd_add(v, q)
    BY <1>6, ResultsAre DEF At
  <2> QED BY <1>1, <1>6, <2>1, SmbpasswdAddDoes DEF At
<1>7. CASE At(q, "import", users_import_existing, "lookup", AfterLookup)
  <2>1. w \in lookup(v, q)
    BY <1>7, ResultsAre DEF At
  <2>2. w = v
    BY <2>1 DEF lookup, When
  <2> QED BY <1>2, <2>2
<1>8. CASE At(q, "import", AfterLookup, "usermod", <<>>)
  <2>1. w \in usermod(v, q)
    BY <1>8, ResultsAre DEF At
  <2> QED BY <1>1, <1>8, <2>1, UsermodDoes DEF At
<1>9. CASE At(q, "set_smb", users_set_smb_enabled, "smbpasswd_enable", <<>>)
  <2>1. w \in smbpasswd_enable(v, q)
    BY <1>9, ResultsAre DEF At
  <2> QED BY <1>1, <1>9, <2>1, SmbpasswdEnableDoes DEF At
<1>10. CASE At(q, "set_password", users_set_password, "chpasswd", AfterPassword)
  <2>1. w \in chpasswd(v, q)
    BY <1>10, ResultsAre DEF At
  <2> QED BY <1>1, <1>10, <2>1, ChpasswdDoes DEF At
<1>11. CASE At(q, "set_password", AfterPassword, "smbpasswd", <<>>)
  <2>1. w \in smbpasswd(v, q)
    BY <1>11, ResultsAre DEF At
  <2> QED BY <1>1, <1>11, <2>1, SmbpasswdDoes DEF At
<1>12. CASE At(q, "delete", users_delete, "pdbedit", AfterPdbedit)
  <2>1. w \in pdbedit(v, q)
    BY <1>12, ResultsAre DEF At
  <2> QED BY <1>1, <1>12, <2>1, PdbeditDoes DEF At
<1>13. CASE At(q, "delete", AfterPdbedit, "userdel", <<>>)
  <2>1. w \in userdel(v, q)
    BY <1>13, ResultsAre DEF At
  <2> QED BY <1>1, <1>13, <2>1, UserdelDoes DEF At
<1>14. CASE At(q, "create_group", groups_create, "groupadd", AfterGroupadd)
  <2>1. w \in groupadd(v, q)
    BY <1>14, ResultsAre DEF At
  <2> QED BY <1>1, <1>14, <2>1, GroupaddDoes DEF At
<1>15. CASE At(q, "create_group", AfterGroupadd, "getent", <<>>)
  <2>1. w \in When(v.gid[q.name] # 0, v)
    BY <1>15, ResultsAre DEF At
  <2>2. w = v
    BY <2>1 DEF When
  <2> QED BY <1>2, <2>2
<1>16. CASE At(q, "delete_group", groups_delete, "groupdel", <<>>)
  <2>1. w \in groupdel(v, q)
    BY <1>16, ResultsAre DEF At
  <2> QED BY <1>1, <1>16, <2>1, GroupdelDoes DEF At
<1>17. CASE At(q, "member", groups_add_member, "usermod", <<>>)
  <2>1. w \in usermod(v, q)
    BY <1>17, ResultsAre DEF At
  <2> QED BY <1>1, <1>17, <2>1, UsermodDoes, NamesAssumption DEF At
<1>18. CASE At(q, "member", groups_remove_member, "gpasswd", <<>>)
  <2>1. w \in gpasswd(v, q)
    BY <1>18, ResultsAre DEF At
  <2> QED BY <1>1, <1>18, <2>1, GpasswdDoes DEF At
<1> QED BY StageIs, <1>3, <1>4, <1>5, <1>6, <1>7, <1>8, <1>9, <1>10, <1>11, <1>12, <1>13,
           <1>14, <1>15, <1>16, <1>17, <1>18

\* The request after the command: its type, and what is known of it unless
\* it has ended with nobody waiting.
LEMMA CommandGoesOn ==
  ASSUME NEW v \in System, NEW q \in Request, Well(q), q.op \in UserOps \cup GroupOps,
         q.todo # <<>>, NEW w \in Results(Head(q.todo), v, q), NEW p,
         p = [q EXCEPT !.todo = Tail(@), !.id = Found(Head(q.todo), w, q)]
  PROVE  p \in Request /\ Follows(q, p) /\ p.todo = Tail(q.todo)
         /\ p.id = Found(Head(q.todo), w, q) /\ (~p.lost \/ p.todo # <<>> => Well(p))
<1> USE DEF UserOps, GroupOps
<1>1. /\ Follows(q, p) /\ p.todo = Tail(q.todo) /\ p.id = Found(Head(q.todo), w, q)
  BY DEF Request, Follows
<1>2. w \in System
  BY CommandTypes
<1>3. q.id \in Numbers \cup {0} /\ q.code = "ok" /\ q.name \in Names \cup Groups
  BY DEF Request, Well
<1>4. ASSUME At(q, "create", users_create, "useradd", AfterUseradd)
      PROVE  p.id \in Numbers \cup {0} /\ p.todo \in Todos /\ (~p.lost \/ p.todo # <<>> => Well(p))
  <2>3. p.id = q.id
    BY <1>1, <1>4, FoundIs DEF At
  <2>4. p.op = "create" /\ p.todo = AfterUseradd /\ p.code = "ok"
    BY <1>1, <1>3, <1>4 DEF At, Follows
  <2>5. p.todo \in Stages(p.op)
    BY <2>4, StagesAre
  <2>6. p.todo \in Todos
    BY <2>4 DEF Todos
  <2> QED BY <1>1, <1>3, <1>4, <2>3, <2>4, <2>5, <2>6, StagesDiffer, StagesNotDone DEF At,
             Follows, Well
<1>5. ASSUME At(q, "create", AfterUseradd, "id", AfterId)
      PROVE  p.id \in Numbers \cup {0} /\ p.todo \in Todos /\ (~p.lost \/ p.todo # <<>> => Well(p))
  <2>1. w \in lookup(v, q) /\ q.name \in Names
    BY <1>5, ResultsAre DEF At, Well
  <2>2. w = v /\ Exists(v, q.name)
    BY <2>1 DEF lookup, When
  <2>3. p.id \in Numbers
    BY <1>1, <1>5, <2>1, <2>2, FoundIs DEF At, Exists, System
  <2>4. p.op = "create" /\ p.todo = AfterId /\ p.code = "ok"
    BY <1>1, <1>3, <1>5 DEF At, Follows
  <2>5. p.todo \in Stages(p.op)
    BY <2>4, StagesAre
  <2>6. p.todo \in Todos
    BY <2>4 DEF Todos
  <2> QED BY <1>1, <1>3, <1>5, <2>3, <2>4, <2>5, <2>6, StagesDiffer, StagesNotDone DEF At,
             Follows, Well
<1>6. ASSUME At(q, "create", AfterId, "chpasswd", AfterChpasswd)
      PROVE  p.id \in Numbers \cup {0} /\ p.todo \in Todos /\ (~p.lost \/ p.todo # <<>> => Well(p))
  <2>3. p.id = q.id
    BY <1>1, <1>6, FoundIs DEF At
  <2>4. p.op = "create" /\ p.todo = AfterChpasswd /\ p.code = "ok"
    BY <1>1, <1>3, <1>6 DEF At, Follows
  <2>5. p.todo \in Stages(p.op)
    BY <2>4, StagesAre
  <2>6. p.todo \in Todos
    BY <2>4 DEF Todos
  <2> QED BY <1>1, <1>3, <1>6, <2>3, <2>4, <2>5, <2>6, StagesDiffer, StagesNotDone DEF At,
             Follows, Well
<1>7. ASSUME At(q, "create", AfterChpasswd, "smbpasswd_add", <<>>)
      PROVE  p.id \in Numbers \cup {0} /\ p.todo \in Todos /\ (~p.lost \/ p.todo # <<>> => Well(p))
  <2>3. p.id = q.id
    BY <1>1, <1>7, FoundIs DEF At
  <2>4. p.op = "create" /\ p.todo = <<>> /\ p.code = "ok"
    BY <1>1, <1>3, <1>7 DEF At, Follows
  <2>5. p.todo \in Stages(p.op)
    BY <2>4, StagesAre
  <2>6. p.todo \in Todos
    BY <2>4 DEF Todos
  <2> QED BY <1>1, <1>3, <1>7, <2>3, <2>4, <2>5, <2>6, StagesDiffer, StagesNotDone DEF At,
             Follows, Well
<1>8. ASSUME At(q, "import", users_import_existing, "lookup", AfterLookup)
      PROVE  p.id \in Numbers \cup {0} /\ p.todo \in Todos /\ (~p.lost \/ p.todo # <<>> => Well(p))
  <2>1. w \in lookup(v, q) /\ q.name \in Names
    BY <1>8, ResultsAre DEF At, Well
  <2>2. w = v /\ Exists(v, q.name)
    BY <2>1 DEF lookup, When
  <2>3. p.id \in Numbers
    BY <1>1, <1>8, <2>1, <2>2, FoundIs DEF At, Exists, System
  <2>4. p.op = "import" /\ p.todo = AfterLookup /\ p.code = "ok"
    BY <1>1, <1>3, <1>8 DEF At, Follows
  <2>5. p.todo \in Stages(p.op)
    BY <2>4, StagesAre
  <2>6. p.todo \in Todos
    BY <2>4 DEF Todos
  <2> QED BY <1>1, <1>3, <1>8, <2>3, <2>4, <2>5, <2>6, StagesDiffer, StagesNotDone DEF At,
             Follows, Well
<1>9. ASSUME At(q, "import", AfterLookup, "usermod", <<>>)
      PROVE  p.id \in Numbers \cup {0} /\ p.todo \in Todos /\ (~p.lost \/ p.todo # <<>> => Well(p))
  <2>3. p.id = q.id
    BY <1>1, <1>9, FoundIs DEF At
  <2>4. p.op = "import" /\ p.todo = <<>> /\ p.code = "ok"
    BY <1>1, <1>3, <1>9 DEF At, Follows
  <2>5. p.todo \in Stages(p.op)
    BY <2>4, StagesAre
  <2>6. p.todo \in Todos
    BY <2>4 DEF Todos
  <2> QED BY <1>1, <1>3, <1>9, <2>3, <2>4, <2>5, <2>6, StagesDiffer, StagesNotDone DEF At,
             Follows, Well
<1>10. ASSUME At(q, "set_smb", users_set_smb_enabled, "smbpasswd_enable", <<>>)
      PROVE  p.id \in Numbers \cup {0} /\ p.todo \in Todos /\ (~p.lost \/ p.todo # <<>> => Well(p))
  <2>3. p.id = q.id
    BY <1>1, <1>10, FoundIs DEF At
  <2>4. p.op = "set_smb" /\ p.todo = <<>> /\ p.code = "ok"
    BY <1>1, <1>3, <1>10 DEF At, Follows
  <2>5. p.todo \in Stages(p.op)
    BY <2>4, StagesAre
  <2>6. p.todo \in Todos
    BY <2>4 DEF Todos
  <2> QED BY <1>1, <1>3, <1>10, <2>3, <2>4, <2>5, <2>6, StagesDiffer, StagesNotDone DEF At,
             Follows, Well
<1>11. ASSUME At(q, "set_password", users_set_password, "chpasswd", AfterPassword)
      PROVE  p.id \in Numbers \cup {0} /\ p.todo \in Todos /\ (~p.lost \/ p.todo # <<>> => Well(p))
  <2>3. p.id = q.id
    BY <1>1, <1>11, FoundIs DEF At
  <2>4. p.op = "set_password" /\ p.todo = AfterPassword /\ p.code = "ok"
    BY <1>1, <1>3, <1>11 DEF At, Follows
  <2>5. p.todo \in Stages(p.op)
    BY <2>4, StagesAre
  <2>6. p.todo \in Todos
    BY <2>4 DEF Todos
  <2> QED BY <1>1, <1>3, <1>11, <2>3, <2>4, <2>5, <2>6, StagesDiffer, StagesNotDone DEF At,
             Follows, Well
<1>12. ASSUME At(q, "set_password", AfterPassword, "smbpasswd", <<>>)
      PROVE  p.id \in Numbers \cup {0} /\ p.todo \in Todos /\ (~p.lost \/ p.todo # <<>> => Well(p))
  <2>3. p.id = q.id
    BY <1>1, <1>12, FoundIs DEF At
  <2>4. p.op = "set_password" /\ p.todo = <<>> /\ p.code = "ok"
    BY <1>1, <1>3, <1>12 DEF At, Follows
  <2>5. p.todo \in Stages(p.op)
    BY <2>4, StagesAre
  <2>6. p.todo \in Todos
    BY <2>4 DEF Todos
  <2> QED BY <1>1, <1>3, <1>12, <2>3, <2>4, <2>5, <2>6, StagesDiffer, StagesNotDone DEF At,
             Follows, Well
<1>13. ASSUME At(q, "delete", users_delete, "pdbedit", AfterPdbedit)
      PROVE  p.id \in Numbers \cup {0} /\ p.todo \in Todos /\ (~p.lost \/ p.todo # <<>> => Well(p))
  <2>3. p.id = q.id
    BY <1>1, <1>13, FoundIs DEF At
  <2>4. p.op = "delete" /\ p.todo = AfterPdbedit /\ p.code = "ok"
    BY <1>1, <1>3, <1>13 DEF At, Follows
  <2>5. p.todo \in Stages(p.op)
    BY <2>4, StagesAre
  <2>6. p.todo \in Todos
    BY <2>4 DEF Todos
  <2> QED BY <1>1, <1>3, <1>13, <2>3, <2>4, <2>5, <2>6, StagesDiffer, StagesNotDone DEF At,
             Follows, Well
<1>14. ASSUME At(q, "delete", AfterPdbedit, "userdel", <<>>)
      PROVE  p.id \in Numbers \cup {0} /\ p.todo \in Todos /\ (~p.lost \/ p.todo # <<>> => Well(p))
  <2>3. p.id = q.id
    BY <1>1, <1>14, FoundIs DEF At
  <2>4. p.op = "delete" /\ p.todo = <<>> /\ p.code = "ok"
    BY <1>1, <1>3, <1>14 DEF At, Follows
  <2>5. p.todo \in Stages(p.op)
    BY <2>4, StagesAre
  <2>6. p.todo \in Todos
    BY <2>4 DEF Todos
  <2> QED BY <1>1, <1>3, <1>14, <2>3, <2>4, <2>5, <2>6, StagesDiffer, StagesNotDone DEF At,
             Follows, Well
<1>15. ASSUME At(q, "create_group", groups_create, "groupadd", AfterGroupadd)
      PROVE  p.id \in Numbers \cup {0} /\ p.todo \in Todos /\ (~p.lost \/ p.todo # <<>> => Well(p))
  <2>3. p.id = q.id
    BY <1>1, <1>15, FoundIs DEF At
  <2>4. p.op = "create_group" /\ p.todo = AfterGroupadd /\ p.code = "ok"
    BY <1>1, <1>3, <1>15 DEF At, Follows
  <2>5. p.todo \in Stages(p.op)
    BY <2>4, StagesAre
  <2>6. p.todo \in Todos
    BY <2>4 DEF Todos
  <2> QED BY <1>1, <1>3, <1>15, <2>3, <2>4, <2>5, <2>6, StagesDiffer, StagesNotDone DEF At,
             Follows, Well
<1>16. ASSUME At(q, "create_group", AfterGroupadd, "getent", <<>>)
      PROVE  p.id \in Numbers \cup {0} /\ p.todo \in Todos /\ (~p.lost \/ p.todo # <<>> => Well(p))
  <2>1. w \in When(v.gid[q.name] # 0, v) /\ q.name \in Groups
    BY <1>16, ResultsAre DEF At, Well
  <2>2. w = v /\ v.gid[q.name] # 0
    BY <2>1 DEF When
  <2>3. p.id \in Numbers
    BY <1>1, <1>16, <2>1, <2>2, FoundIs DEF At, System
  <2>4. p.op = "create_group" /\ p.todo = <<>> /\ p.code = "ok"
    BY <1>1, <1>3, <1>16 DEF At, Follows
  <2>5. p.todo \in Stages(p.op)
    BY <2>4, StagesAre
  <2>6. p.todo \in Todos
    BY <2>4 DEF Todos
  <2> QED BY <1>1, <1>3, <1>16, <2>3, <2>4, <2>5, <2>6, StagesDiffer, StagesNotDone DEF At,
             Follows, Well
<1>17. ASSUME At(q, "delete_group", groups_delete, "groupdel", <<>>)
      PROVE  p.id \in Numbers \cup {0} /\ p.todo \in Todos /\ (~p.lost \/ p.todo # <<>> => Well(p))
  <2>3. p.id = q.id
    BY <1>1, <1>17, FoundIs DEF At
  <2>4. p.op = "delete_group" /\ p.todo = <<>> /\ p.code = "ok"
    BY <1>1, <1>3, <1>17 DEF At, Follows
  <2>5. p.todo \in Stages(p.op)
    BY <2>4, StagesAre
  <2>6. p.todo \in Todos
    BY <2>4 DEF Todos
  <2> QED BY <1>1, <1>3, <1>17, <2>3, <2>4, <2>5, <2>6, StagesDiffer, StagesNotDone DEF At,
             Follows, Well
<1>18. ASSUME At(q, "member", groups_add_member, "usermod", <<>>)
      PROVE  p.id \in Numbers \cup {0} /\ p.todo \in Todos /\ (~p.lost \/ p.todo # <<>> => Well(p))
  <2>3. p.id = q.id
    BY <1>1, <1>18, FoundIs DEF At
  <2>4. p.op = "member" /\ p.todo = <<>> /\ p.code = "ok"
    BY <1>1, <1>3, <1>18 DEF At, Follows
  <2>5. p.todo \in Stages(p.op)
    BY <2>4, StagesAre
  <2>6. p.todo \in Todos
    BY <2>4 DEF Todos
  <2> QED BY <1>1, <1>3, <1>18, <2>3, <2>4, <2>5, <2>6, StagesDiffer, StagesNotDone DEF At,
             Follows, Well
<1>19. ASSUME At(q, "member", groups_remove_member, "gpasswd", <<>>)
      PROVE  p.id \in Numbers \cup {0} /\ p.todo \in Todos /\ (~p.lost \/ p.todo # <<>> => Well(p))
  <2>3. p.id = q.id
    BY <1>1, <1>19, FoundIs DEF At
  <2>4. p.op = "member" /\ p.todo = <<>> /\ p.code = "ok"
    BY <1>1, <1>3, <1>19 DEF At, Follows
  <2>5. p.todo \in Stages(p.op)
    BY <2>4, StagesAre
  <2>6. p.todo \in Todos
    BY <2>4 DEF Todos
  <2> QED BY <1>1, <1>3, <1>19, <2>3, <2>4, <2>5, <2>6, StagesDiffer, StagesNotDone DEF At,
             Follows, Well
<1>20. p.id \in Numbers \cup {0} /\ p.todo \in Todos /\ (~p.lost \/ p.todo # <<>> => Well(p))
  BY StageIs, <1>4, <1>5, <1>6, <1>7, <1>8, <1>9, <1>10, <1>11, <1>12, <1>13, <1>14, <1>15,
     <1>16, <1>17, <1>18, <1>19
<1>21. p \in Request
  BY <1>20 DEF Request
<1> QED BY <1>1, <1>20, <1>21

-----------------------------------------------------------------------------
(* Every step keeps the types.                                              *)

LEMMA IdleType == Idle \in Request
BY DEF Idle, Request, Words, Todos, Codes, UserOps, GroupOps

\* A request as its route makes it.
Fresh(q) ==
    /\ q \in Request /\ Well(q) /\ q.op \in UserOps \cup GroupOps /\ ~q.lost
    /\ q.code = "ok" /\ q.todo # <<>>
    /\ q.op = "create" => q.todo = users_create
    /\ q.op = "import" => q.todo = users_import_existing
    /\ q.op = "set_password" => q.todo = users_set_password
    /\ q.op = "delete" => q.todo = users_delete
    /\ q.op = "create_group" => q.todo = groups_create
    /\ q.op \in {"set_smb", "set_password", "delete"} =>
         users[q.id] = q.row /\ q.row.name = q.name
    /\ q.op \in {"delete_group", "member"} => groups[q.id] = q.name

LEMMA RouteBegins ==
  ASSUME TypeInv, NEW r \in Slots, Route(r)
  PROVE  \E q : Fresh(q) /\ Begin(r, q)
<1> USE IdleType, NamesAssumption
<1>1. ASSUME NEW n \in Names, import_user(r, n)
      PROVE  \E q : Fresh(q) /\ Begin(r, q)
  <2> DEFINE q == [Idle EXCEPT !.op = "import", !.name = n, !.user = n, !.group = NasosUsers,
                               !.todo = users_import_existing]
  <2>1. Begin(r, q)
    BY <1>1 DEF import_user
  <2>2. q \in Request
    BY DEF Request, UserOps, Todos
  <2>3. /\ q.op = "import" /\ q.name = n /\ q.user = n /\ q.group = NasosUsers
        /\ q.todo = users_import_existing /\ ~q.lost /\ q.code = "ok"
    BY DEF Idle
  <2> HIDE DEF q
  <2>4. Fresh(q)
    BY <2>2, <2>3, StagesAre, StagesNotDone DEF Fresh, Well, UserOps, GroupOps
  <2> QED BY <2>1, <2>4
<1>2. ASSUME NEW n \in Names, NEW p \in Passwords, create_user(r, n, p)
      PROVE  \E q : Fresh(q) /\ Begin(r, q)
  <2> DEFINE q == [Idle EXCEPT !.op = "create", !.name = n, !.pw = p, !.todo = users_create]
  <2>1. Begin(r, q)
    BY <1>2 DEF create_user
  <2>2. q \in Request
    BY DEF Request, UserOps, Todos, Words
  <2>3. /\ q.op = "create" /\ q.name = n /\ q.todo = users_create /\ ~q.lost /\ q.code = "ok"
    BY DEF Idle
  <2> HIDE DEF q
  <2>4. Fresh(q)
    BY <2>2, <2>3, StagesAre, StagesNotDone DEF Fresh, Well, UserOps, GroupOps
  <2> QED BY <2>1, <2>4
<1>3. ASSUME NEW u \in Numbers, NEW p \in Request, OnUser(r, u, p), p.code = "ok", ~p.lost,
             \/ p.op = "set_smb" /\ p.todo = users_set_smb_enabled
             \/ p.op = "set_password" /\ p.todo = users_set_password
             \/ p.op = "delete" /\ p.todo = users_delete
      PROVE  \E q : Fresh(q) /\ Begin(r, q)
  <2> DEFINE q == [p EXCEPT !.name = users[u].name, !.id = u, !.row = users[u]]
  <2>1. Begin(r, q) /\ users[u] # NoUser
    BY <1>3 DEF OnUser
  <2>2. users[u] \in UserRow /\ users[u].name \in Names
    BY <2>1 DEF TypeInv, TablesInv, UserRow
  <2>3. q \in Request
    BY <2>2 DEF Request
  <2>4. /\ q.op = p.op /\ q.todo = p.todo /\ q.code = "ok" /\ ~q.lost /\ q.id = u
        /\ q.name = users[u].name /\ q.row = users[u]
    BY <1>3 DEF Request
  <2> HIDE DEF q
  <2>5. Well(q)
    BY <1>3, <2>2, <2>4, StagesAre, StagesNotDone DEF Well, UserOps, GroupOps
  <2>6. Fresh(q)
    BY <1>3, <2>2, <2>3, <2>4, <2>5, StagesNotDone DEF Fresh, UserOps, GroupOps
  <2> QED BY <2>1, <2>6
<1>4. ASSUME NEW i \in Numbers, NEW p \in Request, OnGroup(r, i, p), p.code = "ok", ~p.lost,
             \/ p.op = "delete_group" /\ p.todo = groups_delete
             \/ /\ p.op = "member" /\ p.user \in Names
                /\ p.todo \in {groups_add_member, groups_remove_member}
      PROVE  \E q : Fresh(q) /\ Begin(r, q)
  <2> DEFINE q == [p EXCEPT !.name = groups[i], !.id = i, !.group = groups[i]]
  <2>1. Begin(r, q) /\ groups[i] # NoName
    BY <1>4 DEF OnGroup
  <2>2. groups[i] \in Groups
    BY <2>1 DEF TypeInv, TablesInv
  <2>3. q \in Request
    BY <2>2 DEF Request
  <2>4. /\ q.op = p.op /\ q.todo = p.todo /\ q.code = "ok" /\ ~q.lost /\ q.id = i
        /\ q.name = groups[i] /\ q.group = groups[i] /\ q.user = p.user
    BY <1>4 DEF Request
  <2> HIDE DEF q
  <2>5. Well(q)
    BY <1>4, <2>2, <2>4, StagesAre, StagesNotDone DEF Well, UserOps, GroupOps
  <2>6. Fresh(q)
    BY <1>4, <2>2, <2>3, <2>4, <2>5, StagesNotDone DEF Fresh, UserOps, GroupOps
  <2> QED BY <2>1, <2>6
<1>5. ASSUME NEW g \in Groups, create_group(r, g)
      PROVE  \E q : Fresh(q) /\ Begin(r, q)
  <2> DEFINE q == [Idle EXCEPT !.op = "create_group", !.name = g, !.todo = groups_create]
  <2>1. Begin(r, q)
    BY <1>5 DEF create_group
  <2>2. q \in Request
    BY DEF Request, GroupOps, Todos
  <2>3. /\ q.op = "create_group" /\ q.name = g /\ q.todo = groups_create /\ ~q.lost
        /\ q.code = "ok"
    BY DEF Idle
  <2> HIDE DEF q
  <2>4. Fresh(q)
    BY <2>2, <2>3, StagesAre, StagesNotDone DEF Fresh, Well, UserOps, GroupOps
  <2> QED BY <2>1, <2>4
<1>6. ASSUME NEW u \in Numbers, delete_user(r, u)
      PROVE  \E q : Fresh(q) /\ Begin(r, q)
  <2> DEFINE p == [Idle EXCEPT !.op = "delete", !.todo = users_delete]
  <2>1. p \in Request /\ p.op = "delete" /\ p.todo = users_delete /\ p.code = "ok" /\ ~p.lost
    BY DEF Request, Idle, UserOps, Todos
  <2>2. OnUser(r, u, p)
    BY <1>6 DEF delete_user
  <2> QED BY <1>3, <2>1, <2>2
<1>7. ASSUME NEW u \in Numbers, NEW on \in BOOLEAN, update_user(r, u, on)
      PROVE  \E q : Fresh(q) /\ Begin(r, q)
  <2> DEFINE p == [Idle EXCEPT !.op = "set_smb", !.on = on, !.todo = users_set_smb_enabled]
  <2>1. p \in Request /\ p.op = "set_smb" /\ p.todo = users_set_smb_enabled /\ p.code = "ok"
        /\ ~p.lost
    BY DEF Request, Idle, UserOps, Todos
  <2>2. OnUser(r, u, p)
    BY <1>7 DEF update_user
  <2> QED BY <1>3, <2>1, <2>2
<1>8. ASSUME NEW u \in Numbers, NEW pw \in Passwords, set_password(r, u, pw)
      PROVE  \E q : Fresh(q) /\ Begin(r, q)
  <2> DEFINE p == [Idle EXCEPT !.op = "set_password", !.pw = pw, !.todo = users_set_password]
  <2>1. p \in Request /\ p.op = "set_password" /\ p.todo = users_set_password /\ p.code = "ok"
        /\ ~p.lost
    BY DEF Request, Idle, UserOps, Todos, Words
  <2>2. OnUser(r, u, p)
    BY <1>8 DEF set_password
  <2> QED BY <1>3, <2>1, <2>2
<1>9. ASSUME NEW i \in Numbers, delete_group(r, i)
      PROVE  \E q : Fresh(q) /\ Begin(r, q)
  <2> DEFINE p == [Idle EXCEPT !.op = "delete_group", !.todo = groups_delete]
  <2>1. p \in Request /\ p.op = "delete_group" /\ p.todo = groups_delete /\ p.code = "ok"
        /\ ~p.lost
    BY DEF Request, Idle, GroupOps, Todos
  <2>2. OnGroup(r, i, p)
    BY <1>9 DEF delete_group
  <2> QED BY <1>4, <2>1, <2>2
<1>10. ASSUME NEW i \in Numbers, NEW n \in Names, add_member(r, i, n) \/ remove_member(r, i, n)
       PROVE  \E q : Fresh(q) /\ Begin(r, q)
  <2>1. PICK t \in {groups_add_member, groups_remove_member} :
          OnGroup(r, i, [Idle EXCEPT !.op = "member", !.user = n, !.todo = t])
    BY <1>10 DEF add_member, remove_member
  <2> DEFINE p == [Idle EXCEPT !.op = "member", !.user = n, !.todo = t]
  <2>2. p \in Request /\ p.op = "member" /\ p.todo = t /\ p.code = "ok" /\ ~p.lost /\ p.user = n
    BY DEF Request, Idle, GroupOps, Todos
  <2> QED BY <1>4, <2>1, <2>2
<1> QED
  BY <1>1, <1>2, <1>5, <1>6, <1>7, <1>8, <1>9, <1>10 DEF Route

\* The other requests at work on these names are no longer alone.
Others(r, names) ==
    \A s \in Slots \ {r} :
      req'[s] = IF Works(s) /\ req[s].name \in names THEN [req[s] EXCEPT !.alone = FALSE]
                ELSE req[s]

LEMMA Quieter ==
  ASSUME NEW q \in Request, NEW b \in BOOLEAN, NEW p, p = [q EXCEPT !.alone = b]
  PROVE  /\ p \in Request /\ Follows(q, [p EXCEPT !.alone = q.alone]) /\ p.alone = b
         /\ p.op = q.op /\ p.name = q.name /\ p.user = q.user /\ p.group = q.group /\ p.pw = q.pw
         /\ p.on = q.on /\ p.id = q.id /\ p.row = q.row /\ p.todo = q.todo /\ p.code = q.code
         /\ p.lost = q.lost /\ (Well(q) => Well(p))
<1>1. p \in Request
  BY DEF Request
<1>2. /\ p.op = q.op /\ p.name = q.name /\ p.user = q.user /\ p.group = q.group /\ p.pw = q.pw
      /\ p.on = q.on /\ p.id = q.id /\ p.row = q.row /\ p.todo = q.todo /\ p.code = q.code
      /\ p.lost = q.lost /\ p.alone = b
  BY DEF Request
<1>3. Follows(q, [p EXCEPT !.alone = q.alone])
  BY <1>1, <1>2 DEF Request, Follows
<1>4. Well(q) => Well(p)
  BY <1>2 DEF Well
<1> QED BY <1>1, <1>2, <1>3, <1>4

LEMMA NobodyDisturbed ==
  ASSUME RequestsInv
  PROVE  Disturbed({}) = req
<1>1. Disturbed({}) = [s \in Slots |-> req[s]]
  BY DEF Disturbed
<1> QED BY <1>1 DEF RequestsInv

LEMMA RequestsStep ==
  ASSUME RequestsInv, NEW r \in Slots, NEW names, NEW p \in Request, p.op # "idle" => Well(p),
         req' = [Disturbed(names) EXCEPT ![r] = p]
  PROVE  RequestsInv' /\ req'[r] = p /\ Others(r, names)
<1>1. req'[r] = p
  BY DEF Disturbed
<1>2. Others(r, names)
  BY DEF Others, Disturbed
<1>3. ASSUME NEW s \in Slots
      PROVE  req'[s] \in Request /\ (req'[s].op # "idle" => Well(req'[s]))
  <2>1. CASE s = r
    BY <1>1, <2>1
  <2>2. CASE s # r /\ Works(s) /\ req[s].name \in names
    <3>1. req'[s] = [req[s] EXCEPT !.alone = FALSE]
      BY <1>2, <2>2 DEF Others
    <3>2. req[s] \in Request /\ Well(req[s])
      BY <2>2 DEF RequestsInv
    <3> QED BY <3>1, <3>2, Quieter
  <2>3. CASE s # r /\ ~(Works(s) /\ req[s].name \in names)
    <3>1. req'[s] = req[s]
      BY <1>2, <2>3 DEF Others
    <3> QED BY <3>1 DEF RequestsInv, Works
  <2> QED BY <2>1, <2>2, <2>3
<1>4. req' \in [Slots -> Request]
  BY <1>3 DEF Disturbed
<1> QED BY <1>1, <1>2, <1>3, <1>4 DEF RequestsInv, Works

\* The type of a request at work.
LEMMA AtWork ==
  ASSUME TypeInv, NEW r \in Slots, Works(r)
  PROVE  /\ req[r] \in Request /\ Well(req[r]) /\ req[r].op \in UserOps \cup GroupOps
         /\ req[r].name \in Names \cup Groups
         /\ req[r].op \in UserOps => req[r].name \in Names
         /\ req[r].op \in GroupOps => req[r].name \in Groups
BY DEF TypeInv, RequestsInv, Works, Request, Well

LEMMA BeginTypes ==
  ASSUME TypeInv, NEW r \in Slots, NEW q, Fresh(q), Begin(r, q)
  PROVE  TypeInv' /\ Others(r, {q.name}) /\ req'[r] = [q EXCEPT !.alone = (Busy(q.name) = {})]
<1> DEFINE p == [q EXCEPT !.alone = (Busy(q.name) = {})]
<1>1. p \in Request /\ Well(p)
  <2>1. (Busy(q.name) = {}) \in BOOLEAN
    OBVIOUS
  <2> QED BY <2>1, Quieter DEF Fresh
<1>2. req' = [Disturbed({q.name}) EXCEPT ![r] = p]
  BY DEF Begin
<1> HIDE DEF p
<1>3. RequestsInv' /\ req'[r] = p /\ Others(r, {q.name})
  BY <1>1, <1>2, RequestsStep DEF TypeInv
<1>4. q.name \in Names \cup Groups
  BY DEF Fresh, Well
<1>5. HistoryInv'
  BY <1>4 DEF Begin, TypeInv, HistoryInv
<1>6. os' \in System /\ TablesInv'
  BY DEF Begin, TypeInv, TablesInv
<1> QED BY <1>3, <1>5, <1>6 DEF TypeInv, p

LEMMA RunsTypes ==
  ASSUME TypeInv, NEW r \in Slots, Runs(r)
  PROVE  /\ TypeInv' /\ Others(r, {})
         /\ \E p : /\ os' \in Results(Head(req[r].todo), os, req[r])
                   /\ p = [req[r] EXCEPT !.todo = Tail(@),
                                         !.id = Found(Head(req[r].todo), os', req[r])]
                   /\ p \in Request /\ Follows(req[r], p) /\ p.todo = Tail(req[r].todo)
                   /\ p.id = Found(Head(req[r].todo), os', req[r])
                   /\ req'[r] = Left(p)
<1> DEFINE q == req[r]
<1>1. q \in Request /\ Well(q) /\ q.op \in UserOps \cup GroupOps /\ q.todo # <<>>
  BY AtWork DEF Runs
<1>2. PICK w \in Results(Head(q.todo), os, q) :
        /\ os' = w
        /\ req' = [req EXCEPT ![r] = Left([q EXCEPT !.todo = Tail(@),
                                                    !.id = Found(Head(q.todo), w, q)])]
  BY DEF Runs
<1> DEFINE p == [q EXCEPT !.todo = Tail(@), !.id = Found(Head(q.todo), w, q)]
<1>3. /\ p \in Request /\ Follows(q, p) /\ p.todo = Tail(q.todo)
      /\ p.id = Found(Head(q.todo), w, q) /\ (~p.lost \/ p.todo # <<>> => Well(p))
  BY <1>1, CommandGoesOn DEF TypeInv
<1>4. w \in System
  BY <1>1, CommandTypes DEF TypeInv
<1>5. Left(p) \in Request /\ (Left(p).op # "idle" => Well(Left(p)))
  BY <1>3, IdleType DEF Left, Idle
<1>6. req' = [Disturbed({}) EXCEPT ![r] = Left(p)]
  BY <1>2, NobodyDisturbed DEF TypeInv
<1> HIDE DEF p
<1>7. RequestsInv' /\ req'[r] = Left(p) /\ Others(r, {})
  BY <1>5, <1>6, RequestsStep DEF TypeInv
<1>8. HistoryInv' /\ TablesInv'
  BY DEF Runs, TypeInv, HistoryInv, TablesInv
<1>9. TypeInv'
  BY <1>2, <1>4, <1>7, <1>8 DEF TypeInv
<1> QED BY <1>2, <1>3, <1>7, <1>9 DEF p

\* The request after a command that failed.
LEMMA FailedRequest ==
  ASSUME TypeInv, NEW r \in Slots, Works(r), req[r].todo # <<>>,
         req' = [req EXCEPT ![r] = Left(Failed(req[r], Head(req[r].todo)))]
  PROVE  /\ RequestsInv' /\ Others(r, {})
         /\ \E p : /\ p \in Request /\ req'[r] = Left(p)
                   /\ p.op = req[r].op /\ p.name = req[r].name /\ p.row = req[r].row
                   /\ p.id = req[r].id /\ p.lost = req[r].lost /\ p.alone = req[r].alone
                   /\ IF Ignored(Head(req[r].todo))
                      THEN /\ p.todo = Tail(req[r].todo) /\ p.code = req[r].code
                           /\ Follows(req[r], p)
                      ELSE /\ p.todo = <<>>
                           /\ p.code = ErrorCode(req[r].op, Head(req[r].todo))
<1> DEFINE q == req[r]
           c == Head(q.todo)
           p == Failed(q, c)
<1>1. q \in Request /\ Well(q) /\ q.op \in UserOps \cup GroupOps /\ q.todo # <<>>
  BY AtWork
<1>2. Ignored(c) => q.op = "delete" /\ q.todo = users_delete /\ Tail(q.todo) = AfterPdbedit
  BY <1>1, StageIs DEF Ignored, At
<1>3. ErrorCode(q.op, c) \in Codes
      /\ (ErrorCode(q.op, c) = "smb_password_sync_failed" => q.op = "set_password")
      /\ (ErrorCode(q.op, c) = "not_found" => q.op = "import")
      /\ ErrorCode(q.op, c) # "ok"
  <2>1. c = "lookup" => q.op = "import"
    BY <1>1, StageIs DEF At
  <2> QED BY <2>1 DEF ErrorCode, Codes
<1>4. p \in Request
  <2>1. Ignored(c) => Tail(q.todo) \in Todos
    BY <1>2 DEF Todos
  <2>2. <<>> \in Todos
    BY DEF Todos
  <2> QED BY <1>1, <1>3, <2>1, <2>2 DEF Request, Failed
<1>5. /\ p.op = q.op /\ p.name = q.name /\ p.row = q.row /\ p.id = q.id /\ p.lost = q.lost
      /\ p.alone = q.alone /\ p.user = q.user /\ p.group = q.group
      /\ Ignored(c) => p.todo = Tail(q.todo) /\ p.code = q.code /\ Follows(q, p)
      /\ ~Ignored(c) => p.todo = <<>> /\ p.code = ErrorCode(q.op, c)
  BY <1>1 DEF Request, Failed, Follows
<1>6. req' = [Disturbed({}) EXCEPT ![r] = Left(p)]
  BY NobodyDisturbed DEF TypeInv
<1>7. \A t \in Stages(q.op) : <<>> \in Stages(q.op)
  BY <1>1, StagesAre DEF UserOps, GroupOps
<1> HIDE DEF p
<1>8. ~p.lost \/ p.todo # <<>> => Well(p)
  <2>1. CASE Ignored(c)
    <3>1. p.todo = AfterPdbedit /\ p.code = "ok" /\ p.op = "delete"
      BY <1>1, <1>2, <1>5, <2>1, StagesNotDone DEF Well
    <3> QED BY <1>1, <1>5, <3>1, StagesAre, StagesNotDone DEF Well
  <2>2. CASE ~Ignored(c)
    <3>1. p.todo = <<>> /\ p.code # "ok" /\ <<>> \in Stages(q.op)
      BY <1>1, <1>3, <1>5, <1>7, <2>2 DEF Well
    <3> QED BY <1>1, <1>3, <1>5, <2>2, <3>1 DEF Well
  <2> QED BY <2>1, <2>2
<1>9. Left(p) \in Request /\ (Left(p).op # "idle" => Well(Left(p)))
  BY <1>4, <1>8, IdleType DEF Left, Idle
<1>10. RequestsInv' /\ req'[r] = Left(p) /\ Others(r, {})
  BY <1>6, <1>9, RequestsStep DEF TypeInv
<1> QED BY <1>4, <1>5, <1>10

LEMMA FailsTypes ==
  ASSUME TypeInv, NEW r \in Slots, Fails(r)
  PROVE  TypeInv'
<1> DEFINE q == req[r]
           c == Head(q.todo)
<1>1. q \in Request /\ Well(q) /\ q.op \in UserOps \cup GroupOps /\ q.todo # <<>>
  BY AtWork DEF Fails
<1>2. Ignored(c) => q.name \in Names
  <2>1. Ignored(c) => q.op = "delete"
    BY <1>1, StageIs DEF Ignored, At
  <2> QED BY <1>1, <2>1 DEF Well, UserOps
<1>3. RequestsInv'
  BY FailedRequest DEF Fails
<1>4. TablesInv' /\ os' \in System
  BY DEF Fails, TypeInv, TablesInv
<1>5. HistoryInv'
  <2>1. /\ orphans' = orphans
        /\ \/ stranded' = stranded /\ doubt' = doubt
           \/ /\ Ignored(c) /\ stranded' = stranded \cup {q.name}
              /\ doubt' = doubt \cup {<<q.name, "smb">>}
    BY DEF Fails, Ignored
  <2> QED BY <1>2, <2>1 DEF TypeInv, HistoryInv, Aspects
<1> QED BY <1>3, <1>4, <1>5 DEF TypeInv

LEMMA MisreportsTypes ==
  ASSUME TypeInv, NEW r \in Slots, Misreports(r)
  PROVE  TypeInv'
<1> DEFINE q == req[r]
           c == Head(q.todo)
<1>1. /\ q \in Request /\ Well(q) /\ q.op \in UserOps \cup GroupOps /\ q.todo # <<>>
      /\ q.name \in Names \cup Groups
  BY AtWork DEF Misreports
<1>2. os' \in Results(c, os, q)
  BY DEF Misreports
<1>3. os' \in System
  BY <1>1, <1>2, CommandTypes DEF TypeInv
<1>4. RequestsInv'
  BY FailedRequest DEF Misreports
<1>5. TablesInv'
  BY DEF Misreports, TypeInv, TablesInv
<1>6. HistoryInv'
  <2>1. HiddenBy(c) \subseteq Aspects
    BY DEF HiddenBy, Aspects
  <2>2. /\ orphans' = orphans /\ stranded' = stranded
        /\ doubt' = doubt \cup ({q.name} \X HiddenBy(c))
    BY DEF Misreports
  <2> QED BY <1>1, <2>1, <2>2 DEF TypeInv, HistoryInv
<1> QED BY <1>3, <1>4, <1>5, <1>6 DEF TypeInv

LEMMA LostTypes ==
  ASSUME TypeInv, NEW r \in Slots, Lost(r)
  PROVE  /\ TypeInv' /\ Others(r, {})
         /\ req'[r] = Idle \/ (req'[r].lost /\ req'[r].name = req[r].name)
<1> DEFINE q == req[r]
           p == [q EXCEPT !.lost = TRUE]
<1>1. q \in Request /\ Well(q) /\ q.name \in Names \cup Groups
      /\ (q.op = "create" => q.name \in Names)
  BY AtWork DEF Lost, UserOps
<1>2. p \in Request /\ p.op = q.op /\ p.name = q.name /\ p.user = q.user /\ p.group = q.group
      /\ p.id = q.id /\ p.row = q.row /\ p.todo = q.todo /\ p.code = q.code /\ p.lost
  BY <1>1 DEF Request
<1>3. req' = [Disturbed({}) EXCEPT ![r] = Left(p)]
  <2>1. req' = [req EXCEPT ![r] = Left(p)]
    BY DEF Lost
  <2> QED BY <2>1, NobodyDisturbed DEF TypeInv
<1> HIDE DEF p
<1>4. p.todo # <<>> => Well(p)
  BY <1>1, <1>2 DEF Well
<1>5. Left(p) \in Request /\ (Left(p).op # "idle" => Well(Left(p)))
      /\ (Left(p) = Idle \/ Left(p) = p)
  BY <1>2, <1>4, IdleType DEF Left, Idle
<1>6. RequestsInv' /\ req'[r] = Left(p) /\ Others(r, {})
  BY <1>3, <1>5, RequestsStep DEF TypeInv
<1>7. TablesInv' /\ os' \in System
  BY DEF Lost, TypeInv, TablesInv
<1>8. HistoryInv'
  BY <1>1 DEF Lost, Created, TypeInv, HistoryInv
<1> QED BY <1>2, <1>5, <1>6, <1>7, <1>8 DEF TypeInv

LEMMA AgentRestartTypes ==
  ASSUME TypeInv, AgentRestart
  PROVE  /\ TypeInv'
         /\ \A s \in Slots : req'[s] = IF Works(s) /\ req[s].todo # <<>> THEN Idle ELSE req[s]
<1> DEFINE cut == {s \in Slots : Works(s) /\ req[s].todo # <<>>}
<1>1. req' = [s \in Slots |-> IF s \in cut THEN Idle ELSE req[s]]
  BY DEF AgentRestart
<1>2. \A s \in Slots : req'[s] = IF Works(s) /\ req[s].todo # <<>> THEN Idle ELSE req[s]
  BY <1>1
<1>3. Idle.op = "idle"
  BY DEF Idle
<1>4. RequestsInv'
  BY <1>1, <1>2, <1>3, IdleType DEF TypeInv, RequestsInv, Works
<1>5. \A s \in cut : /\ req[s].name \in Names \cup Groups
                     /\ req[s].op = "create" => req[s].name \in Names
  BY AtWork DEF UserOps
<1>6. doubt' = doubt \cup ({req[s].name : s \in cut} \X Aspects)
      /\ orphans' = orphans \cup UNION {Created(req[s]) : s \in cut} /\ stranded' = stranded
  BY DEF AgentRestart
<1>7. HistoryInv'
  BY <1>5, <1>6 DEF TypeInv, HistoryInv, Created
<1>8. TablesInv' /\ os' \in System
  BY DEF AgentRestart, TypeInv, TablesInv
<1> QED BY <1>2, <1>4, <1>7, <1>8 DEF TypeInv

LEMMA AnsweredTypes ==
  ASSUME TypeInv, NEW r \in Slots, NEW op, NEW code, NEW struck, Answered(r, op, code, struck)
  PROVE  /\ RequestsInv' /\ Others(r, struck) /\ req'[r] = Idle /\ os' = os /\ os' \in System
         /\ stranded' = stranded /\ stranded' \subseteq Names
<1>1. Idle \in Request /\ Idle.op = "idle"
  BY IdleType DEF Idle
<1>2. req' = [Disturbed(struck) EXCEPT ![r] = Idle]
  BY DEF Answered
<1>3. RequestsInv' /\ req'[r] = Idle /\ Others(r, struck)
  BY <1>1, <1>2, RequestsStep DEF TypeInv
<1> QED BY <1>3 DEF Answered, TypeInv, HistoryInv

\* Names that are struck are names.
LEMMA StruckIsName ==
  ASSUME TypeInv, NEW q, q.id \in Numbers, NEW row
  PROVE  /\ Struck(q, row) \subseteq Names
         /\ \A m \in Names : users[q.id].name = m /\ m # q.name /\ users[q.id] # row =>
              m \in Struck(q, row)
<1>1. users[q.id] # NoUser => users[q.id].name \in Names
  BY DEF TypeInv, TablesInv, UserRow
<1>2. NoUser.name \notin Names
  BY NamesAssumption DEF NoUser
<1> QED BY <1>1, <1>2 DEF Struck

LEMMA AddUserTypes ==
  ASSUME TypeInv, NEW q \in Request, q.name \in Names, q.id \in Numbers,
         NEW flag \in BOOLEAN, AddUser(q, flag)
  PROVE  TablesInv' /\ orphans' \subseteq Names /\ doubt' \subseteq (Names \cup Groups) \X Aspects
<1> DEFINE row == [name |-> q.name, smb |-> flag, synced |-> flag]
<1>1. groups' = groups /\ orphans' \subseteq Names
      /\ doubt' \subseteq (Names \cup Groups) \X Aspects
  BY DEF AddUser, OldEntry, Vouched, TypeInv, HistoryInv, TablesInv, Aspects
<1>2. CASE users' = users
  BY <1>1, <1>2 DEF TypeInv, TablesInv
<1>3. CASE ~UserClash(q) /\ users' = [users EXCEPT ![q.id] = row]
  <2>1. row \in UserRow /\ row.name = q.name
    BY DEF UserRow
  <2>2. \A u \in Numbers : users[u].name # q.name
    BY <1>3 DEF UserClash, RowsOf
  <2>3. users' \in [Numbers -> UserRow \cup {NoUser}]
    BY <1>3, <2>1 DEF TypeInv, TablesInv
  <2>4. \A u \in Numbers : users'[u] = IF u = q.id THEN row ELSE users[u]
    BY <1>3 DEF TypeInv, TablesInv
  <2> HIDE DEF row
  <2>5. \A u, v \in Numbers : users'[u] # NoUser /\ users'[u].name = users'[v].name => u = v
    BY <2>1, <2>2, <2>4 DEF TypeInv, TablesInv
  <2> QED BY <1>1, <2>3, <2>5 DEF TypeInv, TablesInv
<1> QED BY <1>2, <1>3 DEF AddUser

LEMMA UpdateTypes ==
  ASSUME TypeInv, NEW q \in Request, q.id \in Numbers, NEW row, Update(q, row),
         users[q.id] # NoUser => row \in UserRow /\ row.name = users[q.id].name,
         groups' = groups
  PROVE  /\ TablesInv' /\ \A u \in Numbers : users'[u].name = users[u].name
         /\ \A u \in Numbers \ {q.id} : users'[u] = users[u]
         /\ users'[q.id] = IF users[q.id] = NoUser THEN NoUser ELSE row
<1>1. CASE users[q.id] = NoUser
  BY <1>1 DEF TypeInv, TablesInv, Update
<1>2. CASE users[q.id] # NoUser
  <2>1. users' = [users EXCEPT ![q.id] = row] /\ row \in UserRow /\ row.name = users[q.id].name
    BY <1>2 DEF Update
  <2>2. users' \in [Numbers -> UserRow \cup {NoUser}]
    BY <2>1 DEF TypeInv, TablesInv
  <2>3. \A u \in Numbers : users'[u] = IF u = q.id THEN row ELSE users[u]
    BY <2>1 DEF TypeInv, TablesInv
  <2>4. \A u \in Numbers : users'[u].name = users[u].name
    BY <2>1, <2>3
  <2>5. \A u \in Numbers : users'[u] # NoUser => users[u] # NoUser
    BY <1>2, <2>3
  <2>6. \A u, v \in Numbers : users'[u] # NoUser /\ users'[u].name = users'[v].name => u = v
    BY <2>4, <2>5 DEF TypeInv, TablesInv
  <2> QED BY <1>2, <2>1, <2>2, <2>3, <2>4, <2>6 DEF TypeInv, TablesInv
<1> QED BY <1>1, <1>2

\* The rows set_smb and set_password write.
SmbRow(q) == IF q.row.smb = q.on THEN users[q.id] ELSE [users[q.id] EXCEPT !.smb = q.on]
SyncedRow(q) ==
    IF q.row.synced = SyncedNow(q.code) THEN users[q.id]
    ELSE [users[q.id] EXCEPT !.synced = SyncedNow(q.code)]

LEMMA WrittenRows ==
  ASSUME TypeInv, NEW q \in Request, q.id \in Numbers, users[q.id] # NoUser
  PROVE  /\ SmbRow(q) \in UserRow /\ SmbRow(q).name = users[q.id].name
         /\ SmbRow(q).synced = users[q.id].synced
         /\ q.row = users[q.id] => SmbRow(q).smb = q.on
         /\ SyncedRow(q) \in UserRow /\ SyncedRow(q).name = users[q.id].name
         /\ SyncedRow(q).smb = users[q.id].smb
         /\ q.row = users[q.id] => SyncedRow(q).synced = (q.code = "ok")
<1>1. users[q.id] \in UserRow /\ q.on \in BOOLEAN
  BY DEF TypeInv, TablesInv, Request
<1>2. SyncedNow(q.code) \in BOOLEAN /\ SyncedNow(q.code) = (q.code = "ok")
  BY DEF SyncedNow
<1>3. /\ SmbRow(q) \in UserRow /\ SmbRow(q).name = users[q.id].name
      /\ SmbRow(q).synced = users[q.id].synced
      /\ q.row = users[q.id] => SmbRow(q).smb = q.on
  BY <1>1 DEF SmbRow, UserRow
<1>4. /\ SyncedRow(q) \in UserRow /\ SyncedRow(q).name = users[q.id].name
      /\ SyncedRow(q).smb = users[q.id].smb
      /\ q.row = users[q.id] => SyncedRow(q).synced = SyncedNow(q.code)
  BY <1>1, <1>2 DEF SyncedRow, UserRow
<1> QED BY <1>2, <1>3, <1>4

\* What is known of a request whose answer is there.
LEMMA Answer ==
  ASSUME TypeInv, NEW r \in Slots, NEW op, op # "idle", NEW code, NEW struck,
         Answered(r, op, code, struck)
  PROVE  /\ Works(r) /\ req[r] \in Request /\ Well(req[r]) /\ req[r].todo = <<>> /\ ~req[r].lost
         /\ req[r].code = code /\ req[r].op = op /\ op \in UserOps \cup GroupOps
         /\ op \in UserOps => req[r].name \in Names
         /\ op \in GroupOps => req[r].name \in Groups
         /\ op \in {"set_smb", "set_password", "delete", "delete_group", "member"} =>
              req[r].id \in Numbers
         /\ code = "ok" /\ op \in {"create", "import", "create_group"} => req[r].id \in Numbers
<1>1. Works(r) /\ req[r].op = op /\ req[r].todo = <<>> /\ req[r].code = code
  BY DEF Answered, Works
<1>2. req[r] \in Request /\ Well(req[r]) /\ op \in UserOps \cup GroupOps
  BY <1>1, AtWork
<1> QED BY <1>1, <1>2, StagesNotDone DEF Well

LEMMA ServiceTypes ==
  ASSUME TypeInv, NEW r \in Slots, Service(r)
  PROVE  TypeInv'
<1> DEFINE q == req[r]
<1> USE DEF UserOps, GroupOps
<1>1. CASE svc_create_user(r)
  <2>1. Answered(r, "create", "ok", {}) /\ AddUser(q, TRUE)
    BY <1>1 DEF svc_create_user
  <2>2. q \in Request /\ q.name \in Names /\ q.id \in Numbers
    BY <2>1, Answer
  <2>3. TablesInv' /\ orphans' \subseteq Names /\ doubt' \subseteq (Names \cup Groups) \X Aspects
    BY <2>1, <2>2, AddUserTypes
  <2> QED BY <2>1, <2>3, AnsweredTypes DEF TypeInv, HistoryInv
<1>2. CASE svc_import_user(r)
  <2>1. Answered(r, "import", "ok", {}) /\ AddUser(q, FALSE)
    BY <1>2 DEF svc_import_user
  <2>2. q \in Request /\ q.name \in Names /\ q.id \in Numbers
    BY <2>1, Answer
  <2>3. TablesInv' /\ orphans' \subseteq Names /\ doubt' \subseteq (Names \cup Groups) \X Aspects
    BY <2>1, <2>2, AddUserTypes
  <2> QED BY <2>1, <2>3, AnsweredTypes DEF TypeInv, HistoryInv
<1>3. CASE svc_set_smb_enabled(r)
  <2>1. /\ Answered(r, "set_smb", "ok", Struck(q, SmbRow(q))) /\ Update(q, SmbRow(q))
        /\ doubt' = Vouched(q, {"smb"}) \cup (Struck(q, SmbRow(q)) \X Aspects)
        /\ groups' = groups /\ orphans' = orphans
    BY <1>3 DEF svc_set_smb_enabled, SmbRow
  <2>2. q \in Request /\ q.name \in Names /\ q.id \in Numbers
    BY <2>1, Answer
  <2>3. TablesInv'
    BY <2>1, <2>2, WrittenRows, UpdateTypes
  <2>4. HistoryInv'
    BY <2>1, <2>2, StruckIsName, AnsweredTypes DEF TypeInv, HistoryInv, Vouched
  <2> QED BY <2>1, <2>3, <2>4, AnsweredTypes DEF TypeInv
<1>4. CASE svc_set_password(r)
  <2>1. /\ Answered(r, "set_password", q.code, Struck(q, SyncedRow(q))) /\ Update(q, SyncedRow(q))
        /\ doubt' = Vouched(q, {"password"}) \cup (Struck(q, SyncedRow(q)) \X Aspects)
        /\ groups' = groups /\ orphans' = orphans
    BY <1>4 DEF svc_set_password, SyncedRow
  <2>2. q \in Request /\ q.name \in Names /\ q.id \in Numbers
    BY <2>1, Answer
  <2>3. TablesInv'
    BY <2>1, <2>2, WrittenRows, UpdateTypes
  <2>4. HistoryInv'
    BY <2>1, <2>2, StruckIsName, AnsweredTypes DEF TypeInv, HistoryInv, Vouched
  <2> QED BY <2>1, <2>3, <2>4, AnsweredTypes DEF TypeInv
<1>5. CASE svc_delete_user(r)
  <2>1. /\ Answered(r, "delete", "ok", Struck(q, NoUser))
        /\ users' = [users EXCEPT ![q.id] = NoUser]
        /\ doubt' = Vouched(q, Aspects \ {"smb"}) \cup (Struck(q, NoUser) \X Aspects)
        /\ groups' = groups /\ orphans' \subseteq orphans \cup Struck(q, NoUser)
    BY <1>5 DEF svc_delete_user
  <2>2. q \in Request /\ q.name \in Names /\ q.id \in Numbers
    BY <2>1, Answer
  <2>3. TablesInv'
    <3>1. users' \in [Numbers -> UserRow \cup {NoUser}]
      BY <2>1 DEF TypeInv, TablesInv
    <3>2. \A u \in Numbers : users'[u] = IF u = q.id THEN NoUser ELSE users[u]
      BY <2>1 DEF TypeInv, TablesInv
    <3>3. \A u \in Numbers : users[u] # NoUser => users[u].name # NoUser.name
      BY NamesAssumption DEF TypeInv, TablesInv, UserRow, NoUser
    <3>4. \A u, v \in Numbers : users'[u] # NoUser /\ users'[u].name = users'[v].name => u = v
      BY <3>2, <3>3 DEF TypeInv, TablesInv
    <3> QED BY <2>1, <3>1, <3>4 DEF TypeInv, TablesInv
  <2>4. HistoryInv'
    BY <2>1, <2>2, StruckIsName, AnsweredTypes DEF TypeInv, HistoryInv, Vouched
  <2> QED BY <2>1, <2>3, <2>4, AnsweredTypes DEF TypeInv
<1>6. CASE svc_create_group(r)
  <2>1. Answered(r, "create_group", "ok", {})
    BY <1>6 DEF svc_create_group
  <2>2. q \in Request /\ q.name \in Groups /\ q.id \in Numbers
    BY <2>1, Answer
  <2>3. TablesInv'
    BY <1>6, <2>2 DEF svc_create_group, GroupClash, TypeInv, TablesInv
  <2>4. HistoryInv'
    BY <1>6, <2>1, AnsweredTypes DEF svc_create_group, TypeInv, HistoryInv, Vouched
  <2> QED BY <2>1, <2>3, <2>4, AnsweredTypes DEF TypeInv
<1>7. CASE svc_delete_group(r)
  <2> DEFINE struck == {groups[q.id]} \ {NoName, q.name}
  <2>1. /\ Answered(r, "delete_group", "ok", struck) /\ groups' = [groups EXCEPT ![q.id] = NoName]
        /\ doubt' = Vouched(q, Aspects) \cup (struck \X Aspects)
        /\ users' = users /\ orphans' = orphans
    BY <1>7 DEF svc_delete_group
  <2>2. q \in Request /\ q.name \in Groups /\ q.id \in Numbers
    BY <2>1, Answer
  <2>3. TablesInv'
    BY <2>1, <2>2 DEF TypeInv, TablesInv
  <2>4. struck \subseteq Groups
    BY <2>2 DEF TypeInv, TablesInv
  <2>5. HistoryInv'
    BY <2>1, <2>4, AnsweredTypes DEF TypeInv, HistoryInv, Vouched
  <2> QED BY <2>1, <2>3, <2>5, AnsweredTypes DEF TypeInv
<1>8. CASE svc_member(r)
  <2>1. /\ Answered(r, "member", "ok", {}) /\ users' = users /\ groups' = groups
        /\ orphans' = orphans /\ doubt' = doubt
    BY <1>8 DEF svc_member
  <2> QED BY <2>1, AnsweredTypes DEF TypeInv, TablesInv, HistoryInv
<1>9. CASE ServiceError(r)
  <2>1. /\ Answered(r, q.op, q.code, {}) /\ Works(r) /\ users' = users /\ groups' = groups
        /\ orphans' = orphans \cup Created(q)
        /\ doubt' \in {doubt, doubt \cup ({q.name} \X {"smb", "password"})}
    BY <1>9 DEF ServiceError
  <2>2. q.name \in Names \cup Groups /\ Created(q) \subseteq Names
    BY <2>1, AtWork DEF Created
  <2>3. HistoryInv' /\ TablesInv'
    BY <2>1, <2>2, AnsweredTypes DEF TypeInv, HistoryInv, TablesInv, Aspects
  <2> QED BY <2>1, <2>3, AnsweredTypes DEF TypeInv
<1> QED BY <1>1, <1>2, <1>3, <1>4, <1>5, <1>6, <1>7, <1>8, <1>9 DEF Service

-----------------------------------------------------------------------------
(* Requests that are alone, and what the others leave in doubt.             *)

AloneInv ==
    \A r, s \in Slots :
      Works(r) /\ req[r].alone /\ Works(s) /\ req[s].name = req[r].name => r = s

InDoubt(n) == \A a \in Aspects : <<n, a>> \in doubt

DoubtInv ==
    \A r \in Slots : Works(r) /\ (~req[r].alone \/ req[r].lost) => InDoubt(req[r].name)

\* What the end of request r changes, but for its own name: the rows of names
\* that are struck, whose requests are no longer alone and which are in doubt.
Confined(r, struck) ==
    /\ Works(r) /\ req'[r] = Idle /\ Others(r, struck) /\ os' = os /\ stranded' = stranded
    /\ req[r].name \notin struck
    /\ \A m \in struck, a \in Aspects : <<m, a>> \in doubt'
    /\ \A m, a : <<m, a>> \in doubt =>
         <<m, a>> \in doubt' \/ (req[r].alone /\ m = req[r].name)
    /\ \A m \in Names : m \notin struck /\ m # req[r].name =>
         \A u \in Numbers : users[u].name = m \/ users'[u].name = m => users'[u] = users[u]
    /\ \A g \in Groups : g \notin struck /\ g # req[r].name =>
         \A i \in Numbers : groups[i] = g \/ groups'[i] = g => groups'[i] = groups[i]

LEMMA ServiceIsConfined ==
  ASSUME TypeInv, NEW r \in Slots, Service(r)
  PROVE  \E struck : Confined(r, struck)
<1> DEFINE q == req[r]
<1> USE DEF UserOps, GroupOps
<1>0. NoUser.name \notin Names /\ NoName \notin Groups
  BY NamesAssumption DEF NoUser
<1>1. CASE svc_create_user(r) \/ svc_import_user(r)
  <2>1. PICK op \in {"create", "import"}, flag \in BOOLEAN :
          Answered(r, op, "ok", {}) /\ AddUser(q, flag)
    BY <1>1 DEF svc_create_user, svc_import_user
  <2>2. q \in Request /\ q.name \in Names /\ q.id \in Numbers /\ Works(r)
    BY <2>1, Answer
  <2>3. \/ users' = users
        \/ /\ users[q.id] = NoUser
           /\ users' = [users EXCEPT ![q.id] = [name |-> q.name, smb |-> flag, synced |-> flag]]
    BY <2>1 DEF AddUser, UserClash
  <2>4. \A m \in Names : m # q.name =>
          \A u \in Numbers : users[u].name = m \/ users'[u].name = m => users'[u] = users[u]
    BY <1>0, <2>2, <2>3 DEF TypeInv, TablesInv
  <2>5. groups' = groups
    BY <2>1 DEF AddUser
  <2>6. \A m, a : <<m, a>> \in doubt => <<m, a>> \in doubt' \/ (q.alone /\ m = q.name)
    BY <2>1 DEF AddUser, Vouched
  <2> QED BY <2>1, <2>2, <2>4, <2>5, <2>6, AnsweredTypes DEF Confined
<1>3. CASE svc_set_smb_enabled(r)
  <2> DEFINE struck == Struck(q, SmbRow(q))
  <2>1. /\ Answered(r, "set_smb", "ok", struck) /\ Update(q, SmbRow(q))
        /\ doubt' = Vouched(q, {"smb"}) \cup (struck \X Aspects)
        /\ groups' = groups /\ orphans' = orphans
    BY <1>3 DEF svc_set_smb_enabled, SmbRow
  <2>2. q \in Request /\ q.name \in Names /\ q.id \in Numbers /\ Works(r)
    BY <2>1, Answer
  <2>3. /\ \A u \in Numbers : users'[u].name = users[u].name
        /\ \A u \in Numbers \ {q.id} : users'[u] = users[u]
        /\ users'[q.id] = IF users[q.id] = NoUser THEN NoUser ELSE SmbRow(q)
    BY <2>1, <2>2, WrittenRows, UpdateTypes
  <2>4. \A m \in Names : users[q.id].name = m /\ m # q.name /\ users[q.id] # SmbRow(q) =>
          m \in struck
    BY <2>2, StruckIsName
  <2>5. q.name \notin struck
    BY DEF Struck
  <2> HIDE DEF struck
  <2>6. \A m \in Names : m \notin struck /\ m # q.name =>
          \A u \in Numbers : users[u].name = m \/ users'[u].name = m => users'[u] = users[u]
    BY <1>0, <2>2, <2>3, <2>4
  <2>7. \A m, a : <<m, a>> \in doubt => <<m, a>> \in doubt' \/ (q.alone /\ m = q.name)
    BY <2>1 DEF Vouched
  <2>8. \A m \in struck, a \in Aspects : <<m, a>> \in doubt'
    BY <2>1
  <2> QED BY <2>1, <2>2, <2>5, <2>6, <2>7, <2>8, AnsweredTypes DEF Confined
<1>4. CASE svc_set_password(r)
  <2> DEFINE struck == Struck(q, SyncedRow(q))
  <2>1. /\ Answered(r, "set_password", q.code, struck) /\ Update(q, SyncedRow(q))
        /\ doubt' = Vouched(q, {"password"}) \cup (struck \X Aspects)
        /\ groups' = groups /\ orphans' = orphans
    BY <1>4 DEF svc_set_password, SyncedRow
  <2>2. q \in Request /\ q.name \in Names /\ q.id \in Numbers /\ Works(r)
    BY <2>1, Answer
  <2>3. /\ \A u \in Numbers : users'[u].name = users[u].name
        /\ \A u \in Numbers \ {q.id} : users'[u] = users[u]
        /\ users'[q.id] = IF users[q.id] = NoUser THEN NoUser ELSE SyncedRow(q)
    BY <2>1, <2>2, WrittenRows, UpdateTypes
  <2>4. \A m \in Names : users[q.id].name = m /\ m # q.name /\ users[q.id] # SyncedRow(q) =>
          m \in struck
    BY <2>2, StruckIsName
  <2>5. q.name \notin struck
    BY DEF Struck
  <2> HIDE DEF struck
  <2>6. \A m \in Names : m \notin struck /\ m # q.name =>
          \A u \in Numbers : users[u].name = m \/ users'[u].name = m => users'[u] = users[u]
    BY <1>0, <2>2, <2>3, <2>4
  <2>7. \A m, a : <<m, a>> \in doubt => <<m, a>> \in doubt' \/ (q.alone /\ m = q.name)
    BY <2>1 DEF Vouched
  <2>8. \A m \in struck, a \in Aspects : <<m, a>> \in doubt'
    BY <2>1
  <2> QED BY <2>1, <2>2, <2>5, <2>6, <2>7, <2>8, AnsweredTypes DEF Confined
<1>5. CASE svc_delete_user(r)
  <2> DEFINE struck == Struck(q, NoUser)
  <2>1. /\ Answered(r, "delete", "ok", struck) /\ users' = [users EXCEPT ![q.id] = NoUser]
        /\ doubt' = Vouched(q, Aspects \ {"smb"}) \cup (struck \X Aspects)
        /\ groups' = groups
    BY <1>5 DEF svc_delete_user
  <2>2. q \in Request /\ q.name \in Names /\ q.id \in Numbers /\ Works(r)
    BY <2>1, Answer
  <2>3. \A u \in Numbers : users'[u] = IF u = q.id THEN NoUser ELSE users[u]
    BY <2>1 DEF TypeInv, TablesInv
  <2>4. \A m \in Names : users[q.id].name = m /\ m # q.name /\ users[q.id] # NoUser =>
          m \in struck
    BY <2>2, StruckIsName
  <2>5. q.name \notin struck
    BY DEF Struck
  <2> HIDE DEF struck
  <2>6. \A m \in Names : m \notin struck /\ m # q.name =>
          \A u \in Numbers : users[u].name = m \/ users'[u].name = m => users'[u] = users[u]
    BY <1>0, <2>2, <2>3, <2>4
  <2>7. \A m, a : <<m, a>> \in doubt => <<m, a>> \in doubt' \/ (q.alone /\ m = q.name)
    BY <2>1 DEF Vouched
  <2>8. \A m \in struck, a \in Aspects : <<m, a>> \in doubt'
    BY <2>1
  <2> QED BY <2>1, <2>2, <2>5, <2>6, <2>7, <2>8, AnsweredTypes DEF Confined
<1>6. CASE svc_create_group(r)
  <2>1. Answered(r, "create_group", "ok", {}) /\ users' = users
    BY <1>6 DEF svc_create_group
  <2>2. q \in Request /\ q.name \in Groups /\ q.id \in Numbers /\ Works(r)
    BY <2>1, Answer
  <2>3. \A g \in Groups : g # q.name =>
          \A i \in Numbers : groups[i] = g \/ groups'[i] = g => groups'[i] = groups[i]
    BY <1>0, <1>6, <2>2 DEF svc_create_group, GroupClash, TypeInv, TablesInv
  <2>4. \A m, a : <<m, a>> \in doubt => <<m, a>> \in doubt' \/ (q.alone /\ m = q.name)
    BY <1>6 DEF svc_create_group, Vouched
  <2> QED BY <2>1, <2>2, <2>3, <2>4, AnsweredTypes DEF Confined
<1>7. CASE svc_delete_group(r)
  <2> DEFINE struck == {groups[q.id]} \ {NoName, q.name}
  <2>1. /\ Answered(r, "delete_group", "ok", struck) /\ groups' = [groups EXCEPT ![q.id] = NoName]
        /\ doubt' = Vouched(q, Aspects) \cup (struck \X Aspects)
        /\ users' = users
    BY <1>7 DEF svc_delete_group
  <2>2. q \in Request /\ q.name \in Groups /\ q.id \in Numbers /\ Works(r)
    BY <2>1, Answer
  <2>3. \A i \in Numbers : groups'[i] = IF i = q.id THEN NoName ELSE groups[i]
    BY <2>1 DEF TypeInv, TablesInv
  <2>4. \A g \in Groups : g \notin struck /\ g # q.name =>
          \A i \in Numbers : groups[i] = g \/ groups'[i] = g => groups'[i] = groups[i]
    BY <1>0, <2>2, <2>3
  <2>5. q.name \notin struck
    OBVIOUS
  <2> HIDE DEF struck
  <2>6. \A m, a : <<m, a>> \in doubt => <<m, a>> \in doubt' \/ (q.alone /\ m = q.name)
    BY <2>1 DEF Vouched
  <2>7. \A m \in struck, a \in Aspects : <<m, a>> \in doubt'
    BY <2>1
  <2> QED BY <2>1, <2>2, <2>4, <2>5, <2>6, <2>7, AnsweredTypes DEF Confined
<1>8. CASE svc_member(r)
  <2>1. /\ Answered(r, "member", "ok", {}) /\ users' = users /\ groups' = groups
        /\ doubt' = doubt
    BY <1>8 DEF svc_member
  <2>2. Works(r)
    BY <2>1, Answer
  <2> QED BY <2>1, <2>2, AnsweredTypes DEF Confined
<1>9. CASE ServiceError(r)
  <2>1. /\ Answered(r, q.op, q.code, {}) /\ Works(r) /\ users' = users /\ groups' = groups
        /\ doubt' \in {doubt, doubt \cup ({q.name} \X {"smb", "password"})}
    BY <1>9 DEF ServiceError
  <2> QED BY <2>1, AnsweredTypes DEF Confined
<1> QED BY <1>1, <1>3, <1>4, <1>5, <1>6, <1>7, <1>8, <1>9 DEF Service

LEMMA OthersAre ==
  ASSUME TypeInv, NEW r \in Slots, NEW names, Others(r, names), NEW s \in Slots, s # r
  PROVE  /\ req'[s].op = req[s].op /\ req'[s].name = req[s].name /\ req'[s].lost = req[s].lost
         /\ req'[s].todo = req[s].todo /\ req'[s].code = req[s].code
         /\ Works(s) /\ req[s].name \in names => req'[s].alone = FALSE
         /\ ~(Works(s) /\ req[s].name \in names) => req'[s] = req[s]
<1>1. req[s] \in Request
  BY DEF TypeInv, RequestsInv
<1>2. CASE Works(s) /\ req[s].name \in names
  <2>1. req'[s] = [req[s] EXCEPT !.alone = FALSE]
    BY <1>2 DEF Others
  <2> QED BY <1>1, <1>2, <2>1, Quieter
<1>3. CASE ~(Works(s) /\ req[s].name \in names)
  BY <1>3 DEF Others
<1> QED BY <1>2, <1>3

LEMMA AloneStep ==
  ASSUME TypeInv, AloneInv, AccountsNext
  PROVE  AloneInv'
<1>1. ASSUME \A s \in Slots : req'[s].op # "idle" =>
               /\ Works(s) /\ req'[s].name = req[s].name
               /\ req'[s].alone => req[s].alone
      PROVE  AloneInv'
  BY <1>1 DEF AloneInv, Works
<1>2. Idle.op = "idle"
  BY DEF Idle
<1>3. ASSUME NEW r \in Slots, NEW names, Others(r, names), Works(r),
             \/ req'[r].op = "idle"
             \/ req'[r].name = req[r].name /\ req'[r].alone = req[r].alone
      PROVE  AloneInv'
  <2>1. \A s \in Slots \ {r} : /\ req'[s].op = req[s].op /\ req'[s].name = req[s].name
                               /\ req'[s].alone => req[s].alone
    BY <1>3, OthersAre
  <2> QED BY <1>1, <1>3, <2>1 DEF Works
<1>4. ASSUME NEW r \in Slots, Route(r)
      PROVE  AloneInv'
  <2>1. PICK q : Fresh(q) /\ Begin(r, q)
    BY <1>4, RouteBegins
  <2>2. Others(r, {q.name}) /\ req'[r] = [q EXCEPT !.alone = (Busy(q.name) = {})]
    BY <2>1, BeginTypes
  <2>3. (Busy(q.name) = {}) \in BOOLEAN /\ q \in Request
    BY <2>1 DEF Fresh
  <2>4. req'[r].name = q.name /\ req'[r].alone = (Busy(q.name) = {})
    BY <2>2, <2>3, Quieter
  <2>5. ~Works(r)
    BY <2>1 DEF Begin
  <2>7. \A s \in Slots \ {r} :
          /\ req'[s].op = req[s].op /\ req'[s].name = req[s].name
          /\ req'[s].alone => req[s].alone
          /\ Works(s) /\ req[s].name = q.name => ~req'[s].alone
    BY <2>2, OthersAre
  <2>8. ASSUME NEW s \in Slots, NEW t \in Slots, req'[s].op # "idle", req'[s].alone,
               req'[t].op # "idle", req'[t].name = req'[s].name
        PROVE  s = t
    <3>1. CASE s = r /\ t # r
      <4>1. Works(t) /\ req[t].name = q.name
        BY <2>4, <2>7, <2>8, <3>1 DEF Works
      <4>2. Busy(q.name) # {}
        BY <4>1 DEF Busy
      <4> QED BY <2>4, <2>8, <3>1, <4>2
    <3>2. CASE s # r /\ t = r
      BY <2>4, <2>7, <2>8, <3>2 DEF Works
    <3>3. CASE s # r /\ t # r
      BY <2>7, <2>8, <3>3 DEF AloneInv, Works
    <3> QED BY <3>1, <3>2, <3>3
  <2> QED BY <2>8 DEF AloneInv, Works
<1>5. ASSUME NEW r \in Slots, Runs(r)
      PROVE  AloneInv'
  <2>1. PICK p : Others(r, {}) /\ Follows(req[r], p) /\ req'[r] = Left(p)
    BY <1>5, RunsTypes
  <2> QED BY <1>2, <1>3, <1>5, <2>1 DEF Left, Follows, Runs
<1>6. ASSUME NEW r \in Slots, Fails(r) \/ Misreports(r)
      PROVE  AloneInv'
  <2>1. PICK p : /\ Others(r, {}) /\ req'[r] = Left(p) /\ p.name = req[r].name
                 /\ p.alone = req[r].alone
    BY <1>6, FailedRequest DEF Fails, Misreports
  <2> QED BY <1>2, <1>3, <1>6, <2>1 DEF Left, Fails, Misreports
<1>7. ASSUME NEW r \in Slots, Lost(r)
      PROVE  AloneInv'
  <2>1. Others(r, {})
    BY <1>7, LostTypes
  <2>2. req[r] \in Request /\ req'[r] = Left([req[r] EXCEPT !.lost = TRUE])
    BY <1>7 DEF Lost, TypeInv, RequestsInv
  <2>3. req'[r] = Idle \/ (req'[r].name = req[r].name /\ req'[r].alone = req[r].alone)
    BY <2>2 DEF Left, Request
  <2> QED BY <1>2, <1>3, <1>7, <2>1, <2>3 DEF Lost
<1>8. CASE AgentRestart
  BY <1>1, <1>2, <1>8, AgentRestartTypes DEF Works
<1>9. ASSUME NEW r \in Slots, Service(r)
      PROVE  AloneInv'
  <2>1. PICK struck : Confined(r, struck)
    BY <1>9, ServiceIsConfined
  <2> QED BY <1>2, <1>3, <2>1 DEF Confined
<1> QED BY <1>4, <1>5, <1>6, <1>7, <1>8, <1>9 DEF AccountsNext

LEMMA DoubtStep ==
  ASSUME TypeInv, AloneInv, DoubtInv, AccountsNext
  PROVE  DoubtInv'
<1>2. Idle.op = "idle"
  BY DEF Idle
<1>3. ASSUME NEW r \in Slots, Others(r, {}), Works(r), doubt \subseteq doubt',
             \/ req'[r].op = "idle"
             \/ /\ req'[r].name = req[r].name
                /\ req'[r].alone = req[r].alone /\ req'[r].lost = req[r].lost
             \/ \A a \in Aspects : <<req'[r].name, a>> \in doubt'
      PROVE  DoubtInv'
  <2>1. \A s \in Slots \ {r} : req'[s] = req[s]
    BY <1>3 DEF Others
  <2> QED BY <1>3, <2>1 DEF DoubtInv, InDoubt, Works
<1>4. ASSUME NEW r \in Slots, Route(r)
      PROVE  DoubtInv'
  <2>1. PICK q : Fresh(q) /\ Begin(r, q)
    BY <1>4, RouteBegins
  <2>2. Others(r, {q.name}) /\ req'[r] = [q EXCEPT !.alone = (Busy(q.name) = {})]
    BY <2>1, BeginTypes
  <2>3. (Busy(q.name) = {}) \in BOOLEAN /\ q \in Request /\ ~q.lost
    BY <2>1 DEF Fresh
  <2>4. /\ req'[r].name = q.name /\ req'[r].alone = (Busy(q.name) = {}) /\ ~req'[r].lost
    BY <2>2, <2>3, Quieter
  <2>5. \A s \in Slots \ {r} : ~(Works(s) /\ req[s].name = q.name) => req'[s] = req[s]
    BY <2>2 DEF Others
  <2>6. \A s \in Slots \ {r} :
          req'[s].op = req[s].op /\ req'[s].name = req[s].name /\ req'[s].lost = req[s].lost
    BY <2>2, OthersAre
  <2>7. doubt' = IF Busy(q.name) = {} THEN doubt ELSE doubt \cup ({q.name} \X Aspects)
    BY <2>1 DEF Begin
  <2>8. Busy(q.name) # {} => \A a \in Aspects : <<q.name, a>> \in doubt'
    BY <2>7
  <2>9. ASSUME NEW s \in Slots, req'[s].op # "idle", ~req'[s].alone \/ req'[s].lost
        PROVE  \A a \in Aspects : <<req'[s].name, a>> \in doubt'
    <3>1. CASE s = r
      BY <2>4, <2>8, <2>9, <3>1
    <3>2. CASE s # r /\ Works(s) /\ req[s].name = q.name
      <4>1. Busy(q.name) # {}
        BY <3>2 DEF Busy
      <4> QED BY <2>6, <2>8, <3>2, <4>1
    <3>3. CASE s # r /\ ~(Works(s) /\ req[s].name = q.name)
      <4>1. \A a \in Aspects : <<req[s].name, a>> \in doubt
        BY <2>5, <2>6, <2>9, <3>3 DEF DoubtInv, InDoubt, Works
      <4> QED BY <2>6, <2>7, <3>3, <4>1
    <3> QED BY <3>1, <3>2, <3>3
  <2> QED BY <2>9 DEF DoubtInv, InDoubt, Works
<1>5. ASSUME NEW r \in Slots, Runs(r)
      PROVE  DoubtInv'
  <2>1. PICK p : Others(r, {}) /\ Follows(req[r], p) /\ req'[r] = Left(p)
    BY <1>5, RunsTypes
  <2> QED BY <1>2, <1>3, <1>5, <2>1 DEF Left, Follows, Runs
<1>6. ASSUME NEW r \in Slots, Fails(r) \/ Misreports(r)
      PROVE  DoubtInv'
  <2>1. PICK p : /\ Others(r, {}) /\ req'[r] = Left(p) /\ p.name = req[r].name
                 /\ p.alone = req[r].alone /\ p.lost = req[r].lost
    BY <1>6, FailedRequest DEF Fails, Misreports
  <2>2. Works(r) /\ doubt \subseteq doubt'
    BY <1>6 DEF Fails, Misreports
  <2> QED BY <1>2, <1>3, <2>1, <2>2 DEF Left
<1>7. ASSUME NEW r \in Slots, Lost(r)
      PROVE  DoubtInv'
  <2>1. Others(r, {}) /\ (req'[r] = Idle \/ req'[r].name = req[r].name)
    BY <1>7, LostTypes
  <2>2. Works(r) /\ doubt' = doubt \cup ({req[r].name} \X Aspects)
    BY <1>7 DEF Lost
  <2>3. \A a \in Aspects : <<req[r].name, a>> \in doubt'
    BY <2>2
  <2> QED BY <1>2, <1>3, <2>1, <2>2, <2>3 DEF InDoubt
<1>8. CASE AgentRestart
  <2>1. doubt \subseteq doubt'
    BY <1>8 DEF AgentRestart
  <2> QED BY <1>2, <1>8, <2>1, AgentRestartTypes DEF DoubtInv, InDoubt, Works
<1>9. ASSUME NEW r \in Slots, Service(r)
      PROVE  DoubtInv'
  <2>1. PICK struck : Confined(r, struck)
    BY <1>9, ServiceIsConfined
  <2>2. ASSUME NEW s \in Slots, req'[s].op # "idle", ~req'[s].alone \/ req'[s].lost
        PROVE  \A a \in Aspects : <<req'[s].name, a>> \in doubt'
    <3>1. s # r /\ req[s] \in Request
      BY <1>2, <2>1, <2>2 DEF Confined, TypeInv, RequestsInv
    <3>2. CASE Works(s) /\ req[s].name \in struck
      <4>1. req'[s].name = req[s].name
        BY <2>1, <3>1, OthersAre DEF Confined
      <4> QED BY <2>1, <3>2, <4>1 DEF Confined
    <3>3. CASE ~(Works(s) /\ req[s].name \in struck)
      <4>1. req'[s] = req[s]
        BY <2>1, <3>1, <3>3 DEF Confined, Others
      <4>2. Works(s) /\ \A a \in Aspects : <<req[s].name, a>> \in doubt
        BY <2>2, <4>1 DEF DoubtInv, InDoubt, Works
      <4>3. ~(req[r].alone /\ req[s].name = req[r].name)
        BY <2>1, <3>1, <4>2 DEF Confined, AloneInv
      <4> QED BY <2>1, <4>1, <4>2, <4>3 DEF Confined
    <3> QED BY <3>2, <3>3
  <2> QED BY <2>2 DEF DoubtInv, InDoubt, Works
<1> QED BY <1>4, <1>5, <1>6, <1>7, <1>8, <1>9 DEF AccountsNext

-----------------------------------------------------------------------------
(* What is true of a name in every state.                                   *)

UserInv(n) ==
    /\ (\A s \in Slots : Works(s) => req[s].name # n) =>
         Truth(n, os, users, doubt, stranded, Idle)
    /\ \A s \in Slots : Works(s) /\ req[s].name = n /\ req[s].alone /\ ~req[s].lost =>
         /\ Truth(n, os, users, doubt, stranded, req[s])
         /\ Stage(n, os, users, doubt, stranded, req[s])

GroupInv(g) ==
    /\ (\A s \in Slots : Works(s) => req[s].name # g) => GroupTruth(g, os, groups, doubt, Idle)
    /\ \A s \in Slots : Works(s) /\ req[s].name = g /\ req[s].alone /\ ~req[s].lost =>
         GroupTruth(g, os, groups, doubt, req[s]) /\ GroupStage(g, os, groups, doubt, req[s])

NamesInv == (\A n \in Names : UserInv(n)) /\ (\A g \in Groups : GroupInv(g))

\* The requests on this name stay as they are.
Undisturbed(n) ==
    \A s \in Slots : (Works(s) /\ req[s].name = n) \/ (req'[s].op # "idle" /\ req'[s].name = n) =>
      req'[s] = req[s]

LEMMA UserInvStays ==
  ASSUME TypeInv, NEW n \in Names, UserInv(n), SameAccount(os, os', n), SameEntry(os, os', n),
         \A u \in Numbers : users[u].name = n \/ users'[u].name = n => users'[u] = users[u],
         \A a \in Aspects : <<n, a>> \in doubt => <<n, a>> \in doubt',
         n \in stranded => n \in stranded', Undisturbed(n)
  PROVE  UserInv(n)'
<1>1. ASSUME \A s \in Slots : req'[s].op # "idle" => req'[s].name # n
      PROVE  Truth(n, os', users', doubt', stranded', Idle)
  <2>1. \A s \in Slots : Works(s) => req[s].name # n
    BY <1>1 DEF Undisturbed, Works
  <2>2. Truth(n, os, users, doubt, stranded, Idle)
    BY <2>1 DEF UserInv
  <2> QED BY <2>2, TruthStays
<1>2. ASSUME NEW s \in Slots, req'[s].op # "idle", req'[s].name = n, req'[s].alone, ~req'[s].lost
      PROVE  /\ Truth(n, os', users', doubt', stranded', req'[s])
             /\ Stage(n, os', users', doubt', stranded', req'[s])
  <2>1. req'[s] = req[s]
    BY <1>2 DEF Undisturbed
  <2>2. Works(s)
    BY <1>2, <2>1 DEF Works
  <2>3. /\ Truth(n, os, users, doubt, stranded, req[s])
        /\ Stage(n, os, users, doubt, stranded, req[s])
    BY <1>2, <2>1, <2>2 DEF UserInv
  <2>4. req[s].op \in {"set_smb", "set_password", "delete"} => req[s].id \in Numbers
    BY <2>2, AtWork DEF Well
  <2> QED BY <2>1, <2>3, <2>4, TruthStays, StageStays
<1> QED BY <1>1, <1>2 DEF UserInv, Works

LEMMA UserInvInDoubt ==
  ASSUME NEW n, \A a \in Aspects : <<n, a>> \in doubt',
         \A s \in Slots : req'[s].op # "idle" /\ req'[s].name = n => ~req'[s].alone \/ req'[s].lost
  PROVE  UserInv(n)'
<1>1. <<n, "account">> \in doubt' /\ <<n, "smb">> \in doubt' /\ <<n, "password">> \in doubt'
  BY DEF Aspects
<1>2. Truth(n, os', users', doubt', stranded', Idle)
  BY <1>1 DEF Truth
<1> QED BY <1>2 DEF UserInv, Works

LEMMA GroupInvStays ==
  ASSUME TypeInv, NEW g \in Groups, GroupInv(g), os'.gid[g] = os.gid[g],
         \A i \in Numbers : groups[i] = g \/ groups'[i] = g => groups'[i] = groups[i],
         \A a \in Aspects : <<g, a>> \in doubt => <<g, a>> \in doubt', Undisturbed(g)
  PROVE  GroupInv(g)'
<1>0. Idle.op = "idle"
  BY DEF Idle
<1>1. ASSUME \A s \in Slots : req'[s].op # "idle" => req'[s].name # g
      PROVE  GroupTruth(g, os', groups', doubt', Idle)
  <2>1. \A s \in Slots : Works(s) => req[s].name # g
    BY <1>1 DEF Undisturbed, Works
  <2>2. GroupTruth(g, os, groups, doubt, Idle)
    BY <2>1 DEF GroupInv
  <2>3. GroupStage(g, os, groups, doubt, Idle)
    BY <1>0 DEF GroupStage
  <2> QED BY <1>0, <2>2, <2>3, GroupStays
<1>2. ASSUME NEW s \in Slots, req'[s].op # "idle", req'[s].name = g, req'[s].alone, ~req'[s].lost
      PROVE  /\ GroupTruth(g, os', groups', doubt', req'[s])
             /\ GroupStage(g, os', groups', doubt', req'[s])
  <2>1. req'[s] = req[s]
    BY <1>2 DEF Undisturbed
  <2>2. Works(s)
    BY <1>2, <2>1 DEF Works
  <2>3. /\ GroupTruth(g, os, groups, doubt, req[s])
        /\ GroupStage(g, os, groups, doubt, req[s])
    BY <1>2, <2>1, <2>2 DEF GroupInv
  <2>4. req[s].op \in {"delete_group", "member"} => req[s].id \in Numbers
    BY <2>2, AtWork DEF Well
  <2> QED BY <2>1, <2>3, <2>4, GroupStays
<1> QED BY <1>1, <1>2 DEF GroupInv, Works

LEMMA GroupInvInDoubt ==
  ASSUME NEW g, \A a \in Aspects : <<g, a>> \in doubt',
         \A s \in Slots : req'[s].op # "idle" /\ req'[s].name = g => ~req'[s].alone \/ req'[s].lost
  PROVE  GroupInv(g)'
<1>1. <<g, "account">> \in doubt'
  BY DEF Aspects
<1>2. GroupTruth(g, os', groups', doubt', Idle)
  BY <1>1 DEF GroupTruth
<1> QED BY <1>2 DEF GroupInv, Works

\* A step of request r that is not alone, or whose answer is lost, leaves its
\* name in doubt.
LEMMA NotAlone ==
  ASSUME TypeInv, AloneInv, DoubtInv, NEW r \in Slots, Works(r), ~req[r].alone \/ req[r].lost,
         \A a \in Aspects : <<req[r].name, a>> \in doubt => <<req[r].name, a>> \in doubt',
         NEW names, Others(r, names),
         \/ req'[r].op = "idle"
         \/ req'[r].alone = req[r].alone /\ req'[r].lost = req[r].lost
         \/ req'[r].lost
  PROVE  /\ \A a \in Aspects : <<req[r].name, a>> \in doubt'
         /\ \A s \in Slots : req'[s].op # "idle" /\ req'[s].name = req[r].name =>
              ~req'[s].alone \/ req'[s].lost
<1>1. \A a \in Aspects : <<req[r].name, a>> \in doubt
  BY DEF DoubtInv, InDoubt
<1>2. ASSUME NEW s \in Slots, s # r, req'[s].op # "idle", req'[s].name = req[r].name
      PROVE  ~req'[s].alone
  <2>1. Works(s) /\ req[s].name = req[r].name
    BY <1>2, OthersAre DEF Works
  <2>2. ~req[s].alone
    BY <1>2, <2>1 DEF AloneInv
  <2> QED BY <1>2, <2>2, OthersAre
<1> QED BY <1>1, <1>2

\* Nobody else is at work on the name of a request that is alone.
LEMMA OthersElsewhere ==
  ASSUME TypeInv, AloneInv, NEW r \in Slots, Works(r), req[r].alone, NEW names, Others(r, names),
         NEW s \in Slots, s # r, req'[s].op # "idle"
  PROVE  req'[s].name # req[r].name
<1>1. Works(s) /\ req'[s].name = req[s].name
  BY OthersAre DEF Works
<1> QED BY <1>1 DEF AloneInv

LEMMA UndisturbedElsewhere ==
  ASSUME TypeInv, NEW r \in Slots, Others(r, {}), Works(r),
         req'[r].op = "idle" \/ req'[r].name = req[r].name, NEW n, n # req[r].name
  PROVE  Undisturbed(n)
BY DEF Others, Undisturbed

LEMMA RunsNames ==
  ASSUME TypeInv, AloneInv, DoubtInv, NamesInv, NEW r \in Slots, Runs(r)
  PROVE  NamesInv'
<1> DEFINE q == req[r]
<1>1. PICK p : /\ Others(r, {}) /\ os' \in Results(Head(q.todo), os, q)
               /\ p \in Request /\ Follows(q, p) /\ p.todo = Tail(q.todo)
               /\ p.id = Found(Head(q.todo), os', q) /\ req'[r] = Left(p)
  BY RunsTypes
<1>2. /\ q \in Request /\ Well(q) /\ q.op \in UserOps \cup GroupOps /\ q.todo # <<>> /\ Works(r)
      /\ q.op \in UserOps => q.name \in Names
      /\ q.op \in GroupOps => q.name \in Groups
  BY AtWork DEF Runs
<1>3. /\ users' = users /\ groups' = groups /\ doubt' = doubt /\ stranded' = stranded
  BY DEF Runs
<1>4. Elsewhere(os, os', q.name) /\ os \in System
  BY <1>1, <1>2, CommandTypes DEF TypeInv
<1>5. Idle.op = "idle"
  BY DEF Idle
<1>6. req'[r].op = "idle" \/ req'[r] = p
  BY <1>1, <1>5 DEF Left
<1>7. p.name = q.name /\ p.alone = q.alone /\ p.lost = q.lost /\ p.op = q.op
  BY <1>1 DEF Follows
<1>8. ASSUME NEW n \in Names, n # q.name
      PROVE  UserInv(n)'
  <2>1. Undisturbed(n)
    BY <1>1, <1>2, <1>6, <1>7, <1>8, UndisturbedElsewhere
  <2>2. SameAccount(os, os', n) /\ SameEntry(os, os', n)
    BY <1>4, <1>8 DEF Elsewhere, SameAccount, SameEntry
  <2>3. UserInv(n)
    BY DEF NamesInv
  <2> QED BY <1>3, <2>1, <2>2, <2>3, UserInvStays
<1>9. ASSUME NEW g \in Groups, g # q.name
      PROVE  GroupInv(g)'
  <2>1. Undisturbed(g)
    BY <1>1, <1>2, <1>6, <1>7, <1>9, UndisturbedElsewhere
  <2>2. os'.gid[g] = os.gid[g]
    BY <1>4, <1>9 DEF Elsewhere
  <2>3. GroupInv(g)
    BY DEF NamesInv
  <2> QED BY <1>3, <2>1, <2>2, <2>3, GroupInvStays
<1>10. ASSUME ~q.alone \/ q.lost
       PROVE  /\ \A n \in Names : n = q.name => UserInv(n)'
              /\ \A g \in Groups : g = q.name => GroupInv(g)'
  <2>1. /\ \A a \in Aspects : <<q.name, a>> \in doubt'
        /\ \A s \in Slots : req'[s].op # "idle" /\ req'[s].name = q.name =>
             ~req'[s].alone \/ req'[s].lost
    BY <1>1, <1>2, <1>3, <1>6, <1>7, <1>10, NotAlone
  <2> QED BY <2>1, UserInvInDoubt, GroupInvInDoubt
<1>11. ASSUME q.alone, ~q.lost
       PROVE  /\ \A n \in Names : n = q.name => UserInv(n)'
              /\ \A g \in Groups : g = q.name => GroupInv(g)'
  <2>1. req'[r] = p /\ req'[r].op # "idle"
    BY <1>1, <1>2, <1>7, <1>11 DEF Left, Works
  <2>2. \A s \in Slots : req'[s].op # "idle" /\ req'[s].name = q.name => s = r
    BY <1>1, <1>2, <1>11, OthersElsewhere
  <2>3. ASSUME NEW n \in Names, n = q.name
        PROVE  UserInv(n)'
    <3>1. q.op \in UserOps
      BY <1>2, <2>3, NamesAssumption
    <3>2. /\ Truth(q.name, os, users, doubt, stranded, q)
          /\ Stage(q.name, os, users, doubt, stranded, q)
      BY <1>2, <1>11, <2>3 DEF NamesInv, UserInv
    <3>3. /\ Truth(q.name, os', users, doubt, stranded, p)
          /\ Stage(q.name, os', users, doubt, stranded, p)
      BY <1>1, <1>2, <1>4, <3>1, <3>2, UserCommand
    <3> QED BY <1>3, <1>7, <2>1, <2>2, <2>3, <3>3 DEF UserInv, Works
  <2>4. ASSUME NEW g \in Groups, g = q.name
        PROVE  GroupInv(g)'
    <3>1. q.op \in GroupOps
      BY <1>2, <2>4, NamesAssumption
    <3>2. GroupTruth(q.name, os, groups, doubt, q) /\ GroupStage(q.name, os, groups, doubt, q)
      BY <1>2, <1>11, <2>4 DEF NamesInv, GroupInv
    <3>3. /\ GroupTruth(q.name, os', groups, doubt, p)
          /\ GroupStage(q.name, os', groups, doubt, p)
      BY <1>1, <1>2, <1>4, <3>1, <3>2, GroupCommand
    <3> QED BY <1>3, <1>7, <2>1, <2>2, <2>4, <3>3 DEF GroupInv, Works
  <2> QED BY <2>3, <2>4
<1> QED BY <1>8, <1>9, <1>10, <1>11 DEF NamesInv

LEMMA FailsNames ==
  ASSUME TypeInv, AloneInv, DoubtInv, NamesInv, NEW r \in Slots, Fails(r)
  PROVE  NamesInv'
<1> DEFINE q == req[r]
           c == Head(q.todo)
<1>1. PICK p : /\ Others(r, {}) /\ p \in Request /\ req'[r] = Left(p)
               /\ p.op = q.op /\ p.name = q.name /\ p.row = q.row /\ p.id = q.id
               /\ p.lost = q.lost /\ p.alone = q.alone
               /\ IF Ignored(c) THEN p.todo = Tail(q.todo) /\ p.code = q.code
                  ELSE p.todo = <<>> /\ p.code = ErrorCode(q.op, c)
  BY FailedRequest DEF Fails
<1>2. /\ q \in Request /\ Well(q) /\ q.op \in UserOps \cup GroupOps /\ q.todo # <<>> /\ Works(r)
      /\ q.op \in UserOps => q.name \in Names
      /\ q.op \in GroupOps => q.name \in Groups
  BY AtWork DEF Fails
<1>3. /\ os' = os /\ users' = users /\ groups' = groups
      /\ IF Ignored(c) /\ HasEntry(os, q.name)
         THEN stranded' = stranded \cup {q.name} /\ doubt' = doubt \cup {<<q.name, "smb">>}
         ELSE stranded' = stranded /\ doubt' = doubt
  BY DEF Fails, Ignored
<1>4. Ignored(c) => q.op = "delete" /\ q.todo = users_delete /\ Tail(q.todo) = AfterPdbedit
  BY <1>2, StageIs DEF Ignored, At
<1>5. Idle.op = "idle"
  BY DEF Idle
<1>6. req'[r].op = "idle" \/ req'[r] = p
  BY <1>1, <1>5 DEF Left
<1>7. /\ \A m, a : <<m, a>> \in doubt => <<m, a>> \in doubt'
      /\ \A m : m \in stranded => m \in stranded'
  BY <1>3
<1>8. ASSUME NEW n \in Names, n # q.name
      PROVE  UserInv(n)'
  <2>1. Undisturbed(n)
    BY <1>1, <1>2, <1>6, <1>8, UndisturbedElsewhere
  <2>2. SameAccount(os, os', n) /\ SameEntry(os, os', n)
    BY <1>3 DEF SameAccount, SameEntry
  <2>3. UserInv(n)
    BY DEF NamesInv
  <2> QED BY <1>3, <1>7, <2>1, <2>2, <2>3, UserInvStays
<1>9. ASSUME NEW g \in Groups, g # q.name
      PROVE  GroupInv(g)'
  <2>1. Undisturbed(g)
    BY <1>1, <1>2, <1>6, <1>9, UndisturbedElsewhere
  <2>2. GroupInv(g)
    BY DEF NamesInv
  <2> QED BY <1>3, <1>7, <2>1, <2>2, GroupInvStays
<1>10. ASSUME ~q.alone \/ q.lost
       PROVE  /\ \A n \in Names : n = q.name => UserInv(n)'
              /\ \A g \in Groups : g = q.name => GroupInv(g)'
  <2>1. /\ \A a \in Aspects : <<q.name, a>> \in doubt'
        /\ \A s \in Slots : req'[s].op # "idle" /\ req'[s].name = q.name =>
             ~req'[s].alone \/ req'[s].lost
    BY <1>1, <1>2, <1>6, <1>7, <1>10, NotAlone
  <2> QED BY <2>1, UserInvInDoubt, GroupInvInDoubt
<1>11. ASSUME q.alone, ~q.lost
       PROVE  /\ \A n \in Names : n = q.name => UserInv(n)'
              /\ \A g \in Groups : g = q.name => GroupInv(g)'
  <2>1. req'[r] = p /\ req'[r].op # "idle"
    BY <1>1, <1>2, <1>11 DEF Left, Works
  <2>2. \A s \in Slots : req'[s].op # "idle" /\ req'[s].name = q.name => s = r
    BY <1>1, <1>2, <1>11, OthersElsewhere
  <2>3. ASSUME NEW n \in Names, n = q.name
        PROVE  UserInv(n)'
    <3>1. q.op \in UserOps
      BY <1>2, <2>3, NamesAssumption
    <3>2. /\ Truth(q.name, os, users, doubt, stranded, q)
          /\ Stage(q.name, os, users, doubt, stranded, q)
      BY <1>2, <1>11, <2>3 DEF NamesInv, UserInv
    <3>3. /\ Truth(q.name, os, users, doubt', stranded', p)
          /\ Stage(q.name, os, users, doubt', stranded', p)
      <4>1. CASE Ignored(c)
        <5>1. p.todo = AfterPdbedit /\ p.code = q.code /\ q.todo = users_delete
          BY <1>1, <1>4, <4>1
        <5>2. IF HasEntry(os, q.name)
              THEN stranded' = stranded \cup {q.name} /\ doubt' = doubt \cup {<<q.name, "smb">>}
              ELSE stranded' = stranded /\ doubt' = doubt
          BY <1>3, <4>1
        <5> QED BY <1>1, <1>2, <3>1, <3>2, <5>1, <5>2, PdbeditFails
      <4>2. CASE ~Ignored(c)
        <5>1. p.todo = <<>> /\ p.code = ErrorCode(q.op, c)
          BY <1>1, <4>2
        <5>2. stranded' = stranded /\ doubt' = doubt
          BY <1>3, <4>2
        <5> QED BY <1>1, <1>2, <3>1, <3>2, <4>2, <5>1, <5>2, CommandFails
      <4> QED BY <4>1, <4>2
    <3> QED BY <1>1, <1>3, <2>1, <2>2, <2>3, <3>3 DEF UserInv, Works
  <2>4. ASSUME NEW g \in Groups, g = q.name
        PROVE  GroupInv(g)'
    <3>1. q.op \in GroupOps /\ ~Ignored(c)
      BY <1>2, <1>4, <2>4, NamesAssumption DEF GroupOps, UserOps
    <3>2. GroupTruth(q.name, os, groups, doubt, q) /\ GroupStage(q.name, os, groups, doubt, q)
      BY <1>2, <1>11, <2>4 DEF NamesInv, GroupInv
    <3>3. p.todo = <<>> /\ p.code = ErrorCode(q.op, c) /\ doubt' = doubt
      BY <1>1, <1>3, <3>1
    <3>4. /\ GroupTruth(q.name, os, groups, doubt, p)
          /\ GroupStage(q.name, os, groups, doubt, p)
      BY <1>1, <1>2, <3>1, <3>2, <3>3, GroupCommandFails
    <3> QED BY <1>1, <1>3, <2>1, <2>2, <2>4, <3>3, <3>4 DEF GroupInv, Works
  <2> QED BY <2>3, <2>4
<1> QED BY <1>8, <1>9, <1>10, <1>11 DEF NamesInv

LEMMA MisreportsNames ==
  ASSUME TypeInv, AloneInv, DoubtInv, NamesInv, NEW r \in Slots, Misreports(r)
  PROVE  NamesInv'
<1> DEFINE q == req[r]
           c == Head(q.todo)
<1>1. PICK p : /\ Others(r, {}) /\ p \in Request /\ req'[r] = Left(p)
               /\ p.op = q.op /\ p.name = q.name /\ p.row = q.row /\ p.id = q.id
               /\ p.lost = q.lost /\ p.alone = q.alone
               /\ IF Ignored(c) THEN p.todo = Tail(q.todo) /\ p.code = q.code /\ Follows(q, p)
                  ELSE p.todo = <<>> /\ p.code = ErrorCode(q.op, c)
  BY FailedRequest DEF Misreports
<1>2. /\ q \in Request /\ Well(q) /\ q.op \in UserOps \cup GroupOps /\ q.todo # <<>> /\ Works(r)
      /\ q.op \in UserOps => q.name \in Names
      /\ q.op \in GroupOps => q.name \in Groups
  BY AtWork DEF Misreports
<1>3. /\ os' \in Results(c, os, q) /\ users' = users /\ groups' = groups
      /\ stranded' = stranded /\ doubt' = doubt \cup ({q.name} \X HiddenBy(c))
  BY DEF Misreports
<1>4. Ignored(c) => q.op = "delete" /\ q.todo = users_delete /\ Tail(q.todo) = AfterPdbedit
  BY <1>2, StageIs DEF Ignored, At
<1>5. Idle.op = "idle"
  BY DEF Idle
<1>6. req'[r].op = "idle" \/ req'[r] = p
  BY <1>1, <1>5 DEF Left
<1>7. \A m, a : <<m, a>> \in doubt => <<m, a>> \in doubt'
  BY <1>3
<1>8. Elsewhere(os, os', q.name) /\ os \in System
  BY <1>2, <1>3, CommandTypes DEF TypeInv
<1>9. ASSUME NEW n \in Names, n # q.name
      PROVE  UserInv(n)'
  <2>1. Undisturbed(n)
    BY <1>1, <1>2, <1>6, <1>9, UndisturbedElsewhere
  <2>2. SameAccount(os, os', n) /\ SameEntry(os, os', n)
    BY <1>8, <1>9 DEF Elsewhere, SameAccount, SameEntry
  <2>3. UserInv(n)
    BY DEF NamesInv
  <2> QED BY <1>3, <1>7, <2>1, <2>2, <2>3, UserInvStays
<1>10. ASSUME NEW g \in Groups, g # q.name
      PROVE  GroupInv(g)'
  <2>1. Undisturbed(g)
    BY <1>1, <1>2, <1>6, <1>10, UndisturbedElsewhere
  <2>2. os'.gid[g] = os.gid[g]
    BY <1>8, <1>10 DEF Elsewhere
  <2>3. GroupInv(g)
    BY DEF NamesInv
  <2> QED BY <1>3, <1>7, <2>1, <2>2, <2>3, GroupInvStays
<1>11. ASSUME ~q.alone \/ q.lost
       PROVE  /\ \A n \in Names : n = q.name => UserInv(n)'
              /\ \A g \in Groups : g = q.name => GroupInv(g)'
  <2>1. /\ \A a \in Aspects : <<q.name, a>> \in doubt'
        /\ \A s \in Slots : req'[s].op # "idle" /\ req'[s].name = q.name =>
             ~req'[s].alone \/ req'[s].lost
    BY <1>1, <1>2, <1>6, <1>7, <1>11, NotAlone
  <2> QED BY <2>1, UserInvInDoubt, GroupInvInDoubt
<1>12. ASSUME q.alone, ~q.lost
       PROVE  /\ \A n \in Names : n = q.name => UserInv(n)'
              /\ \A g \in Groups : g = q.name => GroupInv(g)'
  <2>1. req'[r] = p /\ req'[r].op # "idle"
    BY <1>1, <1>2, <1>12 DEF Left, Works
  <2>2. \A s \in Slots : req'[s].op # "idle" /\ req'[s].name = q.name => s = r
    BY <1>1, <1>2, <1>12, OthersElsewhere
  <2>3. ASSUME NEW n \in Names, n = q.name
        PROVE  UserInv(n)'
    <3>1. q.op \in UserOps
      BY <1>2, <2>3, NamesAssumption
    <3>2. /\ Truth(q.name, os, users, doubt, stranded, q)
          /\ Stage(q.name, os, users, doubt, stranded, q)
      BY <1>2, <1>12, <2>3 DEF NamesInv, UserInv
    <3>3. /\ Truth(q.name, os', users, doubt', stranded, p)
          /\ Stage(q.name, os', users, doubt', stranded, p)
      <4>1. CASE Ignored(c)
        <5>1. p.todo = Tail(q.todo) /\ Follows(q, p) /\ c = "pdbedit"
          BY <1>1, <4>1 DEF Ignored
        <5>2. p.id = Found(c, os', q)
          BY <1>1, <5>1, FoundIs
        <5>3. doubt' = doubt
          BY <1>3, <5>1 DEF HiddenBy
        <5> QED BY <1>2, <1>3, <1>8, <3>1, <3>2, <5>1, <5>2, <5>3, UserCommand
      <4>2. CASE ~Ignored(c)
        <5>1. p.todo = <<>> /\ p.code = ErrorCode(q.op, c)
          BY <1>1, <4>2
        <5> QED BY <1>1, <1>2, <1>3, <1>8, <3>1, <3>2, <4>2, <5>1, CommandMisreports
      <4> QED BY <4>1, <4>2
    <3> QED BY <1>1, <1>3, <2>1, <2>2, <2>3, <3>3 DEF UserInv, Works
  <2>4. ASSUME NEW g \in Groups, g = q.name
        PROVE  GroupInv(g)'
    <3>1. q.op \in GroupOps /\ ~Ignored(c)
      BY <1>2, <1>4, <2>4, NamesAssumption DEF GroupOps, UserOps
    <3>2. GroupTruth(q.name, os, groups, doubt, q) /\ GroupStage(q.name, os, groups, doubt, q)
      BY <1>2, <1>12, <2>4 DEF NamesInv, GroupInv
    <3>3. p.todo = <<>> /\ p.code = ErrorCode(q.op, c)
      BY <1>1, <3>1
    <3>4. /\ GroupTruth(q.name, os', groups, doubt', p)
          /\ GroupStage(q.name, os', groups, doubt', p)
      BY <1>1, <1>2, <1>3, <1>8, <3>1, <3>2, <3>3, GroupCommandMisreports
    <3> QED BY <1>1, <1>3, <2>1, <2>2, <2>4, <3>3, <3>4 DEF GroupInv, Works
  <2> QED BY <2>3, <2>4
<1> QED BY <1>9, <1>10, <1>11, <1>12 DEF NamesInv

LEMMA LostNames ==
  ASSUME TypeInv, AloneInv, DoubtInv, NamesInv, NEW r \in Slots, Lost(r)
  PROVE  NamesInv'
<1> DEFINE q == req[r]
<1>1. /\ Works(r) /\ os' = os /\ users' = users /\ groups' = groups /\ stranded' = stranded
      /\ doubt' = doubt \cup ({q.name} \X Aspects)
  BY DEF Lost
<1>2. /\ Others(r, {}) /\ (req'[r].op = "idle" \/ (req'[r].lost /\ req'[r].name = q.name))
  BY LostTypes DEF Idle
<1>3. /\ \A m, a : <<m, a>> \in doubt => <<m, a>> \in doubt'
      /\ \A a \in Aspects : <<q.name, a>> \in doubt'
  BY <1>1
<1>4. \A s \in Slots : req'[s].op # "idle" /\ req'[s].name = q.name =>
        ~req'[s].alone \/ req'[s].lost
  <2>1. ASSUME NEW s \in Slots, s # r, req'[s].op # "idle", req'[s].name = q.name
        PROVE  ~req'[s].alone \/ req'[s].lost
    <3>1. req'[s] = req[s]
      BY <1>2, <2>1 DEF Others
    <3>2. Works(s) /\ req[s].name = q.name
      BY <2>1, <3>1 DEF Works
    <3> QED BY <1>1, <2>1, <3>1, <3>2 DEF AloneInv
  <2> QED BY <1>2, <2>1
<1>5. ASSUME NEW n, n # q.name
      PROVE  Undisturbed(n)
  BY <1>1, <1>2, <1>5, UndisturbedElsewhere
<1>6. ASSUME NEW n \in Names
      PROVE  UserInv(n)'
  <2>1. CASE n = q.name
    BY <1>3, <1>4, <2>1, UserInvInDoubt
  <2>2. CASE n # q.name
    <3>1. SameAccount(os, os', n) /\ SameEntry(os, os', n) /\ UserInv(n)
      BY <1>1 DEF SameAccount, SameEntry, NamesInv
    <3> QED BY <1>1, <1>3, <1>5, <2>2, <3>1, UserInvStays
  <2> QED BY <2>1, <2>2
<1>7. ASSUME NEW g \in Groups
      PROVE  GroupInv(g)'
  <2>1. CASE g = q.name
    BY <1>3, <1>4, <2>1, GroupInvInDoubt
  <2>2. CASE g # q.name
    <3>1. GroupInv(g)
      BY DEF NamesInv
    <3> QED BY <1>1, <1>3, <1>5, <2>2, <3>1, GroupInvStays
  <2> QED BY <2>1, <2>2
<1> QED BY <1>6, <1>7 DEF NamesInv

LEMMA AgentRestartNames ==
  ASSUME TypeInv, AloneInv, DoubtInv, NamesInv, AgentRestart
  PROVE  NamesInv'
<1> DEFINE cut == {s \in Slots : Works(s) /\ req[s].todo # <<>>}
           names == {req[s].name : s \in cut}
<1>1. /\ os' = os /\ users' = users /\ groups' = groups /\ stranded' = stranded
      /\ doubt' = doubt \cup (names \X Aspects)
  BY DEF AgentRestart
<1>2. \A s \in Slots : req'[s] = IF s \in cut THEN Idle ELSE req[s]
  BY AgentRestartTypes
<1>3. Idle.op = "idle"
  BY DEF Idle
<1>4. /\ \A m, a : <<m, a>> \in doubt => <<m, a>> \in doubt'
      /\ \A n \in names : \A a \in Aspects : <<n, a>> \in doubt'
  BY <1>1
<1>5. ASSUME NEW n \in names, NEW s \in Slots, req'[s].op # "idle", req'[s].name = n
      PROVE  ~req'[s].alone
  <2>1. PICK t \in cut : req[t].name = n
    OBVIOUS
  <2>2. s \notin cut /\ req'[s] = req[s] /\ Works(s)
    BY <1>2, <1>3, <1>5 DEF Works
  <2> QED BY <1>5, <2>1, <2>2 DEF AloneInv
<1>6. ASSUME NEW n, n \notin names
      PROVE  Undisturbed(n)
  <2>1. \A s \in cut : req[s].name # n
    BY <1>6
  <2> QED BY <1>2, <1>3, <2>1 DEF Undisturbed
<1> HIDE DEF names
<1>7. ASSUME NEW n \in Names
      PROVE  UserInv(n)'
  <2>1. CASE n \in names
    BY <1>4, <1>5, <2>1, UserInvInDoubt
  <2>2. CASE n \notin names
    <3>1. SameAccount(os, os', n) /\ SameEntry(os, os', n) /\ UserInv(n)
      BY <1>1 DEF SameAccount, SameEntry, NamesInv
    <3> QED BY <1>1, <1>4, <1>6, <2>2, <3>1, UserInvStays
  <2> QED BY <2>1, <2>2
<1>8. ASSUME NEW g \in Groups
      PROVE  GroupInv(g)'
  <2>1. CASE g \in names
    BY <1>4, <1>5, <2>1, GroupInvInDoubt
  <2>2. CASE g \notin names
    <3>1. GroupInv(g)
      BY DEF NamesInv
    <3> QED BY <1>1, <1>4, <1>6, <2>2, <3>1, GroupInvStays
  <2> QED BY <2>1, <2>2
<1> QED BY <1>7, <1>8 DEF NamesInv

\* A fresh request has changed nothing yet.
LEMMA FreshIsTrue ==
  ASSUME NEW q, Fresh(q), NEW p, p.op = q.op, p.todo = q.todo, p.code = q.code, p.id = q.id,
         p.row = q.row, NEW n, n = q.name
  PROVE  /\ Truth(n, os, users, doubt, stranded, Idle) =>
              /\ Truth(n, os, users, doubt, stranded, p)
              /\ Stage(n, os, users, doubt, stranded, p)
         /\ GroupTruth(n, os, groups, doubt, Idle) =>
              GroupTruth(n, os, groups, doubt, p) /\ GroupStage(n, os, groups, doubt, p)
<1>1. \A a : ~Alters(p, a) /\ ~Alters(Idle, a)
  BY DEF Alters, Fresh, Idle
<1>2. RowStage(n, users, p)
  BY DEF RowStage, Fresh
<1>3. Stage(n, os, users, doubt, stranded, p)
  BY <1>2 DEF Fresh, Stage, CreateStage, ImportStage, SmbStage, PasswordStage, DeleteStage
<1>4. GroupStage(n, os, groups, doubt, p)
  BY DEF Fresh, GroupStage
<1>5. Truth(n, os, users, doubt, stranded, Idle) => Truth(n, os, users, doubt, stranded, p)
  BY <1>1 DEF Truth
<1>6. GroupTruth(n, os, groups, doubt, Idle) => GroupTruth(n, os, groups, doubt, p)
  BY <1>1 DEF GroupTruth
<1> QED BY <1>3, <1>4, <1>5, <1>6

LEMMA BeginNames ==
  ASSUME TypeInv, AloneInv, DoubtInv, NamesInv, NEW r \in Slots, NEW q, Fresh(q), Begin(r, q)
  PROVE  NamesInv'
<1>1. /\ os' = os /\ users' = users /\ groups' = groups /\ stranded' = stranded /\ ~Works(r)
      /\ doubt' = IF Busy(q.name) = {} THEN doubt ELSE doubt \cup ({q.name} \X Aspects)
  BY DEF Begin
<1>2. Others(r, {q.name}) /\ req'[r] = [q EXCEPT !.alone = (Busy(q.name) = {})]
  BY BeginTypes
<1>3. (Busy(q.name) = {}) \in BOOLEAN /\ q \in Request
  BY DEF Fresh
<1>4. /\ req'[r].name = q.name /\ req'[r].op = q.op /\ req'[r].todo = q.todo
      /\ req'[r].code = q.code /\ req'[r].id = q.id /\ req'[r].row = q.row
      /\ req'[r].alone = (Busy(q.name) = {})
  BY <1>2, <1>3, Quieter
<1>5. /\ \A m, a : <<m, a>> \in doubt => <<m, a>> \in doubt'
      /\ Busy(q.name) # {} => \A a \in Aspects : <<q.name, a>> \in doubt'
  BY <1>1
<1>6. ASSUME NEW n, n # q.name
      PROVE  Undisturbed(n)
  <2>1. ASSUME NEW s \in Slots,
               (Works(s) /\ req[s].name = n) \/ (req'[s].op # "idle" /\ req'[s].name = n)
        PROVE  req'[s] = req[s]
    <3>1. s # r
      BY <1>1, <1>4, <1>6, <2>1
    <3>2. req'[s].name = req[s].name
      BY <1>2, <3>1, OthersAre
    <3>3. req[s].name # q.name
      BY <1>6, <2>1, <3>2
    <3> QED BY <1>2, <3>1, <3>3 DEF Others
  <2> QED BY <2>1 DEF Undisturbed
<1>7. ASSUME Busy(q.name) # {}, NEW s \in Slots, req'[s].op # "idle", req'[s].name = q.name
      PROVE  ~req'[s].alone
  <2>1. CASE s = r
    BY <1>4, <1>7, <2>1
  <2>2. CASE s # r
    <3>1. Works(s) /\ req[s].name = q.name
      BY <1>2, <1>7, <2>2, OthersAre DEF Works
    <3> QED BY <1>2, <2>2, <3>1, OthersAre
  <2> QED BY <2>1, <2>2
<1>8. ASSUME Busy(q.name) = {}
      PROVE  /\ doubt' = doubt
             /\ \A s \in Slots : Works(s) => req[s].name # q.name
             /\ \A s \in Slots : req'[s].op # "idle" /\ req'[s].name = q.name => s = r
  <2>1. \A s \in Slots : Works(s) => req[s].name # q.name
    BY <1>8 DEF Busy
  <2>2. ASSUME NEW s \in Slots, s # r, req'[s].op # "idle"
        PROVE  req'[s].name # q.name
    <3>1. req'[s].op = req[s].op /\ req'[s].name = req[s].name
      BY <1>2, <2>2, OthersAre
    <3> QED BY <2>1, <2>2, <3>1 DEF Works
  <2> QED BY <1>1, <1>8, <2>1, <2>2
<1>9. ASSUME NEW n \in Names
      PROVE  UserInv(n)'
  <2>1. CASE n # q.name
    <3>1. SameAccount(os, os', n) /\ SameEntry(os, os', n) /\ UserInv(n)
      BY <1>1 DEF SameAccount, SameEntry, NamesInv
    <3> QED BY <1>1, <1>5, <1>6, <2>1, <3>1, UserInvStays
  <2>2. CASE n = q.name /\ Busy(q.name) # {}
    BY <1>5, <1>7, <2>2, UserInvInDoubt
  <2>3. CASE n = q.name /\ Busy(q.name) = {}
    <3>1. Truth(n, os, users, doubt, stranded, Idle)
      BY <1>8, <2>3 DEF NamesInv, UserInv
    <3>2. /\ Truth(n, os, users, doubt, stranded, req'[r])
          /\ Stage(n, os, users, doubt, stranded, req'[r])
      BY <1>4, <2>3, <3>1, FreshIsTrue
    <3>3. req'[r].op # "idle"
      BY <1>4 DEF Fresh, UserOps, GroupOps
    <3> QED BY <1>1, <1>4, <1>8, <2>3, <3>2, <3>3 DEF UserInv, Works
  <2> QED BY <2>1, <2>2, <2>3
<1>10. ASSUME NEW g \in Groups
       PROVE  GroupInv(g)'
  <2>1. CASE g # q.name
    <3>1. GroupInv(g)
      BY DEF NamesInv
    <3> QED BY <1>1, <1>5, <1>6, <2>1, <3>1, GroupInvStays
  <2>2. CASE g = q.name /\ Busy(q.name) # {}
    BY <1>5, <1>7, <2>2, GroupInvInDoubt
  <2>3. CASE g = q.name /\ Busy(q.name) = {}
    <3>1. GroupTruth(g, os, groups, doubt, Idle)
      BY <1>8, <2>3 DEF NamesInv, GroupInv
    <3>2. /\ GroupTruth(g, os, groups, doubt, req'[r])
          /\ GroupStage(g, os, groups, doubt, req'[r])
      BY <1>4, <2>3, <3>1, FreshIsTrue
    <3>3. req'[r].op # "idle"
      BY <1>4 DEF Fresh, UserOps, GroupOps
    <3> QED BY <1>1, <1>4, <1>8, <2>3, <3>2, <3>3 DEF GroupInv, Works
  <2> QED BY <2>1, <2>2, <2>3
<1> QED BY <1>9, <1>10 DEF NamesInv

\* The answer of a request that is alone: what it writes is true.
LEMMA ServiceIsTrue ==
  ASSUME TypeInv, NamesInv, NEW r \in Slots, Service(r), req[r].alone,
         NEW n \in Names, n = req[r].name
  PROVE  Truth(n, os, users', doubt', stranded, Idle)
<1> DEFINE q == req[r]
<1> USE DEF UserOps, GroupOps
<1>0. \A a : ~Alters(Idle, a)
  BY DEF Alters, Idle
<1>1. Works(r) /\ q.todo = <<>> /\ ~q.lost /\ q \in Request /\ Well(q)
  <2>1. Works(r)
    BY ServiceIsConfined DEF Confined
  <2>2. q.todo = <<>>
    BY DEF Service, svc_create_user, svc_import_user, svc_set_smb_enabled, svc_set_password,
           svc_delete_user, svc_create_group, svc_delete_group, svc_member, ServiceError, Answered
  <2> QED BY <2>1, <2>2, AtWork DEF Well
<1>2. Truth(n, os, users, doubt, stranded, q) /\ Stage(n, os, users, doubt, stranded, q)
  BY <1>1 DEF NamesInv, UserInv
<1>3. n \notin Groups
  BY NamesAssumption
<1>4. \A u \in Numbers : users[u] = NoUser => users[u].name # n
  BY NamesAssumption DEF NoUser
<1>5. CASE svc_create_user(r)
  <2>1. Answered(r, "create", "ok", {}) /\ AddUser(q, TRUE)
    BY <1>5 DEF svc_create_user
  <2>2. q.id \in Numbers /\ q.op = "create" /\ q.code = "ok"
    BY <2>1, Answer
  <2>3. /\ Exists(os, n) /\ n \in os.members[NasosUsers] /\ q.id = os.acct[n].uid
        /\ os.acct[n].pw = q.pw /\ HasEntry(os, n) /\ os.entry[n].pw = q.pw
        /\ NoOldEntry(n, doubt, stranded) => os.entry[n].on
    BY <1>1, <1>2, <2>2, StagesNotDone DEF Stage, CreateStage
  <2>4. CASE UserClash(q)
    BY <1>0, <1>2, <2>1, <2>2, <2>4 DEF AddUser, Truth, Alters
  <2>5. CASE ~UserClash(q)
    <3>1. /\ users' = [users EXCEPT ![q.id] = [name |-> q.name, smb |-> TRUE, synced |-> TRUE]]
          /\ doubt' = (doubt \ ({q.name} \X Aspects)) \cup OldEntry(q)
          /\ \A u \in Numbers : users[u].name # n
      BY <2>1, <2>5 DEF AddUser, Vouched, UserClash, RowsOf
    <3>2. \A u \in Numbers : users'[u].name = n => u = os.acct[n].uid
      BY <2>3, <3>1 DEF TypeInv, TablesInv
    <3>3. <<n, "smb">> \notin doubt' => os.entry[n].on
      BY <2>3, <3>1 DEF OldEntry, NoOldEntry
    <3> QED BY <2>3, <3>2, <3>3 DEF Truth
  <2> QED BY <2>4, <2>5
<1>6. CASE svc_import_user(r)
  <2>1. Answered(r, "import", "ok", {}) /\ AddUser(q, FALSE)
    BY <1>6 DEF svc_import_user
  <2>2. q.id \in Numbers /\ q.op = "import" /\ q.code = "ok"
    BY <2>1, Answer
  <2>3. /\ Exists(os, n) /\ n \in os.members[NasosUsers] /\ q.id = os.acct[n].uid
    BY <1>1, <1>2, <2>2, StagesNotDone DEF Stage, ImportStage
  <2>4. CASE UserClash(q)
    BY <1>0, <1>2, <2>1, <2>2, <2>4 DEF AddUser, Truth, Alters
  <2>5. CASE ~UserClash(q)
    <3>1. /\ users' = [users EXCEPT ![q.id] = [name |-> q.name, smb |-> FALSE, synced |-> FALSE]]
          /\ \A u \in Numbers : users[u].name # n
      BY <2>1, <2>5 DEF AddUser, UserClash, RowsOf
    <3>2. \A u \in Numbers : users'[u].name = n =>
            u = os.acct[n].uid /\ ~users'[u].smb /\ ~users'[u].synced
      BY <2>3, <3>1 DEF TypeInv, TablesInv
    <3> QED BY <2>3, <3>2 DEF Truth
  <2> QED BY <2>4, <2>5
<1>7. CASE svc_set_smb_enabled(r)
  <2>1. /\ Answered(r, "set_smb", "ok", Struck(q, SmbRow(q))) /\ Update(q, SmbRow(q))
        /\ doubt' = (doubt \ ({q.name} \X {"smb"})) \cup (Struck(q, SmbRow(q)) \X Aspects)
        /\ groups' = groups
    BY <1>7 DEF svc_set_smb_enabled, SmbRow, Vouched
  <2>2. q.id \in Numbers /\ q.op = "set_smb" /\ q.code = "ok"
    BY <2>1, Answer
  <2>3. users[q.id] = q.row /\ q.row.name = n /\ os.entry[n].on = q.on
    BY <1>1, <1>2, <2>2 DEF Stage, RowStage, SmbStage
  <2>4. users[q.id] # NoUser
    BY <1>4, <2>2, <2>3
  <2>5. /\ SmbRow(q).name = n /\ SmbRow(q).smb = q.on /\ SmbRow(q).synced = users[q.id].synced
    BY <1>1, <2>2, <2>3, <2>4, WrittenRows
  <2>6. /\ \A u \in Numbers : users'[u].name = users[u].name
        /\ \A u \in Numbers \ {q.id} : users'[u] = users[u]
        /\ users'[q.id] = SmbRow(q)
    BY <1>1, <2>1, <2>2, <2>4, WrittenRows, UpdateTypes
  <2>7. \A u \in Numbers : users'[u].name = n => u = q.id
    BY <2>2, <2>3, <2>4, <2>6 DEF TypeInv, TablesInv
  <2>8. Struck(q, SmbRow(q)) = {}
    BY <2>3 DEF Struck
  <2>9. /\ <<n, "account">> \in doubt' <=> <<n, "account">> \in doubt
        /\ <<n, "password">> \in doubt' <=> <<n, "password">> \in doubt
    BY <2>1, <2>8
  <2>10. /\ ~Alters(q, "account") /\ ~Alters(q, "password")
    BY <2>2 DEF Alters
  <2>11. <<n, "account">> \notin doubt' =>
          /\ \A u \in Numbers : users'[u].name = n =>
               os.acct[n].uid = u /\ n \in os.members[NasosUsers]
          /\ Exists(os, n)
    <3>1. SUFFICES ASSUME <<n, "account">> \notin doubt'
                   PROVE  os.acct[n].uid = q.id /\ n \in os.members[NasosUsers] /\ Exists(os, n)
      BY <2>7
    <3>2. os.acct[n].uid = q.id /\ n \in os.members[NasosUsers]
      BY <1>2, <2>2, <2>3, <2>9, <2>10, <3>1 DEF Truth
    <3> QED BY <2>2, <3>2, NumbersFacts DEF Exists
  <2>12. \A u \in Numbers : users'[u].name = n /\ users'[u].smb => os.entry[n].on
    BY <2>3, <2>5, <2>6, <2>7
  <2>13. <<n, "password">> \notin doubt' =>
          \A u \in Numbers : users'[u].name = n /\ users'[u].synced =>
            Exists(os, n) /\ HasEntry(os, n) /\ os.entry[n].pw = os.acct[n].pw
    BY <1>2, <2>2, <2>3, <2>5, <2>6, <2>7, <2>9, <2>10 DEF Truth
  <2> QED BY <2>11, <2>12, <2>13 DEF Truth
<1>8. CASE svc_set_password(r)
  <2>1. /\ Answered(r, "set_password", q.code, Struck(q, SyncedRow(q))) /\ Update(q, SyncedRow(q))
        /\ doubt' = (doubt \ ({q.name} \X {"password"})) \cup (Struck(q, SyncedRow(q)) \X Aspects)
        /\ groups' = groups /\ q.code \in {"ok", "smb_password_sync_failed"}
    BY <1>8 DEF svc_set_password, SyncedRow, Vouched
  <2>2. q.id \in Numbers /\ q.op = "set_password"
    BY <2>1, Answer
  <2>3. /\ users[q.id] = q.row /\ q.row.name = n
        /\ q.code = "ok" => /\ Exists(os, n) /\ os.acct[n].pw = q.pw
                            /\ HasEntry(os, n) /\ os.entry[n].pw = q.pw
    BY <1>1, <1>2, <2>2, StagesNotDone DEF Stage, RowStage, PasswordStage
  <2>4. users[q.id] # NoUser
    BY <1>4, <2>2, <2>3
  <2>5. /\ SyncedRow(q).name = n /\ SyncedRow(q).smb = users[q.id].smb
        /\ SyncedRow(q).synced = (q.code = "ok")
    BY <1>1, <2>2, <2>3, <2>4, WrittenRows
  <2>6. /\ \A u \in Numbers : users'[u].name = users[u].name
        /\ \A u \in Numbers \ {q.id} : users'[u] = users[u]
        /\ users'[q.id] = SyncedRow(q)
    BY <1>1, <2>1, <2>2, <2>4, WrittenRows, UpdateTypes
  <2>7. \A u \in Numbers : users'[u].name = n => u = q.id
    BY <2>2, <2>3, <2>4, <2>6 DEF TypeInv, TablesInv
  <2>8. Struck(q, SyncedRow(q)) = {}
    BY <2>3 DEF Struck
  <2>9. /\ <<n, "account">> \in doubt' <=> <<n, "account">> \in doubt
        /\ <<n, "smb">> \in doubt' <=> <<n, "smb">> \in doubt
    BY <2>1, <2>8
  <2>10. /\ ~Alters(q, "account") /\ ~Alters(q, "smb")
    BY <2>2 DEF Alters
  <2>11. <<n, "account">> \notin doubt' =>
          /\ \A u \in Numbers : users'[u].name = n =>
               os.acct[n].uid = u /\ n \in os.members[NasosUsers]
          /\ HasEntry(os, n) /\ ~Exists(os, n) => n \in stranded /\ <<n, "smb">> \in doubt'
    BY <1>2, <2>6, <2>9, <2>10 DEF Truth
  <2>12. <<n, "smb">> \notin doubt' =>
          \A u \in Numbers : users'[u].name = n /\ users'[u].smb => os.entry[n].on
    BY <1>2, <2>2, <2>3, <2>5, <2>6, <2>7, <2>9, <2>10 DEF Truth
  <2>13. \A u \in Numbers : users'[u].name = n /\ users'[u].synced =>
            Exists(os, n) /\ HasEntry(os, n) /\ os.entry[n].pw = os.acct[n].pw
    BY <2>3, <2>5, <2>6, <2>7
  <2> QED BY <2>11, <2>12, <2>13 DEF Truth
<1>9. CASE svc_delete_user(r)
  <2>1. /\ Answered(r, "delete", "ok", Struck(q, NoUser))
        /\ users' = [users EXCEPT ![q.id] = NoUser]
        /\ doubt' = (doubt \ ({q.name} \X (Aspects \ {"smb"}))) \cup (Struck(q, NoUser) \X Aspects)
    BY <1>9 DEF svc_delete_user, Vouched
  <2>2. q.id \in Numbers /\ q.op = "delete" /\ q.code = "ok"
    BY <2>1, Answer
  <2>3. /\ users[q.id] = q.row /\ q.row.name = n
        /\ HasEntry(os, n) => n \in stranded /\ <<n, "smb">> \in doubt
    BY <1>1, <1>2, <2>2, StagesNotDone DEF Stage, RowStage, DeleteStage
  <2>4. users[q.id] # NoUser
    BY <1>4, <2>2, <2>3
  <2>5. \A u \in Numbers : users'[u].name # n
    <3>1. \A u \in Numbers : users[u].name = n => u = q.id
      BY <2>2, <2>3, <2>4 DEF TypeInv, TablesInv
    <3>2. \A u \in Numbers : users'[u] = IF u = q.id THEN NoUser ELSE users[u]
      BY <2>1 DEF TypeInv, TablesInv
    <3>3. NoUser.name # n
      BY NamesAssumption DEF NoUser
    <3> QED BY <3>1, <3>2, <3>3
  <2>6. <<n, "smb">> \in doubt => <<n, "smb">> \in doubt'
    BY <2>1
  <2> QED BY <2>3, <2>5, <2>6 DEF Truth
<1>10. CASE svc_create_group(r) \/ svc_delete_group(r) \/ svc_member(r)
  <2>1. q.op \in GroupOps
    BY <1>10 DEF svc_create_group, svc_delete_group, svc_member, Answered
  <2> QED BY <1>1, <1>3, <2>1 DEF Well
<1>11. CASE ServiceError(r)
  <2>1. /\ users' = users /\ q.code \in {"system_error", "not_found"}
        /\ doubt' = IF q.op = "delete" THEN doubt \cup ({n} \X {"smb", "password"}) ELSE doubt
    BY <1>11 DEF ServiceError
  <2>2. CASE q.op = "delete"
    <3>1. /\ <<n, "smb">> \in doubt' /\ <<n, "password">> \in doubt'
          /\ <<n, "account">> \in doubt' <=> <<n, "account">> \in doubt
      BY <2>1, <2>2
    <3>2. ~Alters(q, "account")
      BY <2>1, <2>2 DEF Alters
    <3> QED BY <1>2, <2>1, <3>1, <3>2 DEF Truth
  <2>3. CASE q.op # "delete"
    <3>1. ~Alters(q, "account") /\ ~Alters(q, "smb")
      BY <2>1, <2>3 DEF Alters
    <3>2. ~Alters(q, "password")
      BY <1>1, <2>1, <2>3, StagesNotDone DEF Alters, Well, Codes
    <3> QED BY <1>2, <2>1, <2>3, <3>1, <3>2 DEF Truth
  <2> QED BY <2>2, <2>3
<1> QED BY <1>5, <1>6, <1>7, <1>8, <1>9, <1>10, <1>11 DEF Service

\* The same for a request on a group.
LEMMA GroupServiceIsTrue ==
  ASSUME TypeInv, NamesInv, NEW r \in Slots, Service(r), req[r].alone,
         NEW g \in Groups, g = req[r].name
  PROVE  GroupTruth(g, os, groups', doubt', Idle)
<1> DEFINE q == req[r]
<1> USE DEF UserOps, GroupOps
<1>0. ~Alters(Idle, "account")
  BY DEF Alters, Idle
<1>1. Works(r) /\ q.todo = <<>> /\ ~q.lost /\ q \in Request /\ Well(q)
  <2>1. Works(r)
    BY ServiceIsConfined DEF Confined
  <2>2. q.todo = <<>>
    BY DEF Service, svc_create_user, svc_import_user, svc_set_smb_enabled, svc_set_password,
           svc_delete_user, svc_create_group, svc_delete_group, svc_member, ServiceError, Answered
  <2> QED BY <2>1, <2>2, AtWork DEF Well
<1>2. GroupTruth(g, os, groups, doubt, q) /\ GroupStage(g, os, groups, doubt, q)
  BY <1>1 DEF NamesInv, GroupInv
<1>3. q.op \in GroupOps
  BY <1>1, AtWork, NamesAssumption
<1>4. NoName # g
  BY NamesAssumption
<1>5. CASE svc_create_group(r)
  <2>1. Answered(r, "create_group", "ok", {})
    BY <1>5 DEF svc_create_group
  <2>2. q.id \in Numbers /\ q.op = "create_group" /\ q.code = "ok"
    BY <2>1, Answer
  <2>3. q.id = os.gid[g]
    BY <1>1, <1>2, <2>2, StagesNotDone DEF GroupStage
  <2>4. CASE GroupClash(q)
    <3>1. groups' = groups /\ doubt' = doubt
      BY <1>5, <2>4 DEF svc_create_group
    <3>2. ~Alters(q, "account")
      BY <2>2 DEF Alters
    <3> QED BY <1>2, <3>1, <3>2 DEF GroupTruth
  <2>5. CASE ~GroupClash(q)
    <3>1. groups' = [groups EXCEPT ![q.id] = q.name] /\ \A i \in Numbers : groups[i] # g
      BY <1>5, <2>5 DEF svc_create_group, GroupClash
    <3>2. \A i \in Numbers : groups'[i] = g => i = os.gid[g]
      BY <2>3, <3>1 DEF TypeInv, TablesInv
    <3> QED BY <3>2 DEF GroupTruth
  <2> QED BY <2>4, <2>5
<1>6. CASE svc_delete_group(r)
  <2> DEFINE struck == {groups[q.id]} \ {NoName, q.name}
  <2>1. Answered(r, "delete_group", "ok", struck) /\ groups' = [groups EXCEPT ![q.id] = NoName]
    BY <1>6 DEF svc_delete_group
  <2>2. q.id \in Numbers /\ q.op = "delete_group"
    BY <2>1, Answer
  <2>3. groups[q.id] = g
    BY <1>2, <2>2 DEF GroupStage
  <2>4. \A i \in Numbers : groups'[i] # g
    BY <1>4, <2>1, <2>2, <2>3 DEF TypeInv, TablesInv
  <2> QED BY <2>4 DEF GroupTruth
<1>7. CASE svc_member(r)
  <2>1. q.op = "member" /\ groups' = groups /\ doubt' = doubt
    BY <1>7 DEF svc_member, Answered
  <2>2. ~Alters(q, "account")
    BY <2>1 DEF Alters
  <2> QED BY <1>2, <2>1, <2>2 DEF GroupTruth
<1>8. CASE ServiceError(r)
  <2>1. groups' = groups /\ doubt' = doubt /\ q.code \in {"system_error", "not_found"}
    BY <1>3, <1>8 DEF ServiceError
  <2>2. ~Alters(q, "account")
    BY <2>1 DEF Alters
  <2> QED BY <1>2, <2>1, <2>2 DEF GroupTruth
<1>9. ~svc_create_user(r) /\ ~svc_import_user(r) /\ ~svc_set_smb_enabled(r)
      /\ ~svc_set_password(r) /\ ~svc_delete_user(r)
  BY <1>3 DEF svc_create_user, svc_import_user, svc_set_smb_enabled, svc_set_password,
              svc_delete_user, Answered
<1> QED BY <1>5, <1>6, <1>7, <1>8, <1>9 DEF Service

LEMMA ServiceNames ==
  ASSUME TypeInv, AloneInv, DoubtInv, NamesInv, NEW r \in Slots, Service(r)
  PROVE  NamesInv'
<1> DEFINE q == req[r]
<1>1. PICK struck : Confined(r, struck)
  BY ServiceIsConfined
<1>2. /\ Works(r) /\ req'[r] = Idle /\ Idle.op = "idle" /\ Others(r, struck) /\ os' = os
      /\ stranded' = stranded /\ q.name \notin struck
      /\ \A m \in struck, a \in Aspects : <<m, a>> \in doubt'
      /\ \A m, a : <<m, a>> \in doubt => <<m, a>> \in doubt' \/ (q.alone /\ m = q.name)
  BY <1>1 DEF Confined, Idle
<1>2a. ASSUME NEW s \in Slots, s # r
       PROVE  /\ req'[s].op = req[s].op /\ req'[s].name = req[s].name
              /\ Works(s) /\ req[s].name \in struck => req'[s].alone = FALSE
              /\ req[s].name \notin struck => req'[s] = req[s]
  <2>1. Others(r, struck)
    BY <1>2
  <2> QED BY <1>2a, <2>1, OthersAre
<1>3. ASSUME NEW n \in struck
      PROVE  \A s \in Slots : req'[s].op # "idle" /\ req'[s].name = n => ~req'[s].alone
  BY <1>2, <1>3, <1>2a DEF Works
<1>4. ASSUME NEW n, n \notin struck, n # q.name
      PROVE  Undisturbed(n)
  <2>1. ASSUME NEW s \in Slots, s # r, req[s].name = n \/ req'[s].name = n
        PROVE  req'[s] = req[s]
    BY <1>4, <1>2a, <2>1
  <2> QED BY <1>2, <1>4, <2>1 DEF Undisturbed
<1>5. ASSUME ~q.alone
      PROVE  /\ \A a \in Aspects : <<q.name, a>> \in doubt'
             /\ \A s \in Slots : req'[s].op # "idle" /\ req'[s].name = q.name =>
                  ~req'[s].alone \/ req'[s].lost
  BY <1>2, <1>5, NotAlone
<1>6. ASSUME q.alone
      PROVE  \A s \in Slots : req'[s].op # "idle" => req'[s].name # q.name
  BY <1>2, <1>6, OthersElsewhere
<1>7. ASSUME NEW n \in Names
      PROVE  UserInv(n)'
  <2>1. CASE n \in struck
    BY <1>2, <1>3, <2>1, UserInvInDoubt
  <2>2. CASE n \notin struck /\ n # q.name
    <3>1. SameAccount(os, os', n) /\ SameEntry(os, os', n) /\ UserInv(n)
      BY <1>2 DEF SameAccount, SameEntry, NamesInv
    <3>2. \A u \in Numbers : users[u].name = n \/ users'[u].name = n => users'[u] = users[u]
      BY <1>1, <2>2 DEF Confined
    <3>3. Undisturbed(n)
      BY <1>4, <2>2
    <3> QED BY <1>2, <2>2, <3>1, <3>2, <3>3, UserInvStays
  <2>3. CASE n = q.name /\ ~q.alone
    BY <1>5, <2>3, UserInvInDoubt
  <2>4. CASE n = q.name /\ q.alone
    <3>1. Truth(n, os', users', doubt', stranded', Idle)
      BY <1>2, <2>4, ServiceIsTrue
    <3> QED BY <1>6, <2>4, <3>1 DEF UserInv, Works
  <2> QED BY <2>1, <2>2, <2>3, <2>4
<1>8. ASSUME NEW g \in Groups
      PROVE  GroupInv(g)'
  <2>1. CASE g \in struck
    BY <1>2, <1>3, <2>1, GroupInvInDoubt
  <2>2. CASE g \notin struck /\ g # q.name
    <3>1. GroupInv(g) /\ os'.gid[g] = os.gid[g]
      BY <1>2 DEF NamesInv
    <3>2. \A i \in Numbers : groups[i] = g \/ groups'[i] = g => groups'[i] = groups[i]
      BY <1>1, <2>2 DEF Confined
    <3>3. Undisturbed(g)
      BY <1>4, <2>2
    <3> QED BY <1>2, <2>2, <3>1, <3>2, <3>3, GroupInvStays
  <2>3. CASE g = q.name /\ ~q.alone
    BY <1>5, <2>3, GroupInvInDoubt
  <2>4. CASE g = q.name /\ q.alone
    <3>1. GroupTruth(g, os', groups', doubt', Idle)
      BY <1>2, <2>4, GroupServiceIsTrue
    <3> QED BY <1>6, <2>4, <3>1 DEF GroupInv, Works
  <2> QED BY <2>1, <2>2, <2>3, <2>4
<1> QED BY <1>7, <1>8 DEF NamesInv

LEMMA TypesStep ==
  ASSUME TypeInv, AccountsNext
  PROVE  TypeInv'
<1>1. ASSUME NEW r \in Slots, Route(r)
      PROVE  TypeInv'
  BY <1>1, RouteBegins, BeginTypes
<1> QED BY <1>1, RunsTypes, FailsTypes, MisreportsTypes, LostTypes, ServiceTypes,
           AgentRestartTypes DEF AccountsNext

LEMMA NamesStep ==
  ASSUME TypeInv, AloneInv, DoubtInv, NamesInv, AccountsNext
  PROVE  NamesInv'
<1>1. ASSUME NEW r \in Slots, Route(r)
      PROVE  NamesInv'
  BY <1>1, RouteBegins, BeginNames
<1> QED BY <1>1, RunsNames, FailsNames, MisreportsNames, LostNames, ServiceNames,
           AgentRestartNames DEF AccountsNext

-----------------------------------------------------------------------------
(* Accounts without a row: each is of a create that has not been answered   *)
(* yet, or one a delete has removed is still to lose its row.               *)

\* Deletes on this name that are through, and creates that are at work and
\* whose row will be written.
Done(n) == {r \in Slots : /\ req[r].name = n /\ req[r].op = "delete"
                          /\ req[r].todo = <<>> /\ req[r].code = "ok"}
Makers(n) == {r \in Slots : /\ req[r].name = n /\ req[r].op = "create" /\ ~req[r].lost
                            /\ req[r].todo # users_create}

One(b) == IF b THEN 1 ELSE 0

Balanced(done, account, makers, row) ==
    Cardinality(done) + One(account) <= Cardinality(makers) + One(row)

NoneLost(n) == \A r \in Slots : req[r].name = n /\ req[r].op = "create" => ~req[r].lost

CountInv ==
    \A n \in Names \ orphans :
      Balanced(Done(n), Exists(os, n), Makers(n), RowsOf(n) # {}) /\ NoneLost(n)

LEMMA SlotsAreFinite ==
  \A S \in SUBSET Slots : IsFiniteSet(S) /\ Cardinality(S) \in Nat
BY FS_Subset, FS_CardinalityType, AccountBoundsAssumption

\* How the balance is kept.
LEMMA Balance ==
  ASSUME NEW D \in SUBSET Slots, NEW D2 \in SUBSET Slots, NEW M \in SUBSET Slots,
         NEW M2 \in SUBSET Slots, NEW a, NEW a2, NEW b, NEW b2, Balanced(D, a, M, b),
         \/ D2 \subseteq D /\ (a2 => a) /\ M \subseteq M2 /\ (b => b2)
         \/ D2 \subseteq D /\ M \subseteq M2 /\ (b => b2) /\ \E r : r \in M2 \ M
         \/ /\ a /\ ~a2 /\ M \subseteq M2 /\ (b => b2)
            /\ \E r : D2 \subseteq D \cup {r}
         \/ D2 \subseteq D /\ (a2 => a) /\ ~b /\ b2 /\ \E r : M \subseteq M2 \cup {r}
         \/ (a2 => a) /\ M \subseteq M2 /\ \E r \in D : D2 \subseteq D \ {r}
  PROVE  Balanced(D2, a2, M2, b2)
<1>1. \A S, T \in SUBSET Slots : S \subseteq T => Cardinality(S) <= Cardinality(T)
  BY SlotsAreFinite, FS_Subset
<1>2. \A S \in SUBSET Slots : \A r : r \notin S =>
        IsFiniteSet(S \cup {r}) /\ Cardinality(S \cup {r}) = Cardinality(S) + 1
  BY SlotsAreFinite, FS_AddElement
<1>3. \A S \in SUBSET Slots, r \in Slots :
        r \in S => S \ {r} \in SUBSET Slots /\ Cardinality(S \ {r}) = Cardinality(S) - 1
  BY SlotsAreFinite, FS_RemoveElement
<1>4. /\ Cardinality(D) \in Nat /\ Cardinality(D2) \in Nat /\ Cardinality(M) \in Nat
      /\ Cardinality(M2) \in Nat
  BY SlotsAreFinite
<1>5. One(a) \in {0, 1} /\ One(a2) \in {0, 1} /\ One(b) \in {0, 1} /\ One(b2) \in {0, 1}
      /\ (a => One(a) = 1) /\ (~a2 => One(a2) = 0) /\ (~b => One(b) = 0) /\ (b2 => One(b2) = 1)
  BY DEF One
<1>6. (a2 => a) => One(a2) <= One(a)
  BY DEF One
<1>7. (b => b2) => One(b) <= One(b2)
  BY DEF One
<1>8. Cardinality(D) + One(a) <= Cardinality(M) + One(b)
  BY DEF Balanced
<1>9. CASE D2 \subseteq D /\ (a2 => a) /\ M \subseteq M2 /\ (b => b2)
  <2>1. Cardinality(D2) <= Cardinality(D) /\ Cardinality(M) <= Cardinality(M2)
    BY <1>1, <1>9
  <2> QED BY <1>4, <1>5, <1>6, <1>7, <1>8, <1>9, <2>1 DEF Balanced
<1>10. CASE D2 \subseteq D /\ M \subseteq M2 /\ (b => b2) /\ \E r : r \in M2 \ M
  <2>1. PICK r : r \in M2 \ M
    BY <1>10
  <2>2. Cardinality(D2) <= Cardinality(D) /\ Cardinality(M) <= Cardinality(M2 \ {r})
    BY <1>1, <1>10, <2>1
  <2>3. Cardinality(M2 \ {r}) = Cardinality(M2) - 1
    BY <1>3, <2>1
  <2> QED BY <1>4, <1>5, <1>7, <1>8, <1>10, <2>2, <2>3 DEF Balanced
<1>11. CASE /\ a /\ ~a2 /\ M \subseteq M2 /\ (b => b2)
            /\ \E r : D2 \subseteq D \cup {r}
  <2>1. PICK r : D2 \subseteq D \cup {r}
    BY <1>11
  <2>2. Cardinality(D2) <= Cardinality(D) + 1
    <3>1. CASE r \in D2
      <4>1. Cardinality(D2 \ {r}) = Cardinality(D2) - 1
        BY <1>3, <3>1
      <4>2. Cardinality(D2 \ {r}) <= Cardinality(D)
        BY <1>1, <2>1
      <4> QED BY <1>4, <4>1, <4>2
    <3>2. CASE r \notin D2
      <4>1. Cardinality(D2) <= Cardinality(D)
        BY <1>1, <2>1, <3>2
      <4> QED BY <1>4, <4>1
    <3> QED BY <3>1, <3>2
  <2>3. Cardinality(M) <= Cardinality(M2)
    BY <1>1, <1>11
  <2>4. One(a) = 1 /\ One(a2) = 0 /\ One(b) <= One(b2)
    BY <1>5, <1>7, <1>11, Zenon
  <2> QED BY <1>4, <1>5, <1>8, <2>2, <2>3, <2>4 DEF Balanced
<1>12. CASE D2 \subseteq D /\ (a2 => a) /\ ~b /\ b2 /\ \E r : M \subseteq M2 \cup {r}
  <2>1. PICK r : M \subseteq M2 \cup {r}
    BY <1>12
  <2>2. Cardinality(M) <= Cardinality(M2) + 1
    <3>1. CASE r \in M
      <4>1. Cardinality(M \ {r}) = Cardinality(M) - 1
        BY <1>3, <3>1
      <4>2. Cardinality(M \ {r}) <= Cardinality(M2)
        BY <1>1, <2>1
      <4> QED BY <1>4, <4>1, <4>2
    <3>2. CASE r \notin M
      <4>1. Cardinality(M) <= Cardinality(M2)
        BY <1>1, <2>1, <3>2
      <4> QED BY <1>4, <4>1
    <3> QED BY <3>1, <3>2
  <2>3. Cardinality(D2) <= Cardinality(D)
    BY <1>1, <1>12
  <2>4. One(b) = 0 /\ One(b2) = 1 /\ One(a2) <= One(a)
    BY <1>5, <1>6, <1>12, Zenon
  <2> QED BY <1>4, <1>5, <1>8, <2>2, <2>3, <2>4 DEF Balanced
<1>13. CASE (a2 => a) /\ M \subseteq M2 /\ \E r \in D : D2 \subseteq D \ {r}
  <2>1. PICK r \in D : D2 \subseteq D \ {r}
    BY <1>13
  <2>2. Cardinality(D \ {r}) = Cardinality(D) - 1 /\ D \ {r} \in SUBSET Slots
    BY <1>3, <2>1
  <2>3. Cardinality(D2) <= Cardinality(D \ {r}) /\ Cardinality(M) <= Cardinality(M2)
    BY <1>1, <1>13, <2>1, <2>2
  <2> QED BY <1>4, <1>5, <1>6, <1>8, <1>13, <2>2, <2>3 DEF Balanced
<1> QED BY <1>9, <1>10, <1>11, <1>12, <1>13

\* Only useradd makes an account, and only userdel removes one.
LEMMA CommandExists ==
  ASSUME NEW v \in System, NEW q \in Request, Well(q), q.op \in UserOps \cup GroupOps,
         q.todo # <<>>, NEW w \in Results(Head(q.todo), v, q), q.name \in Names
  PROVE  \/ /\ q.op = "create" /\ q.todo = users_create /\ Tail(q.todo) = AfterUseradd
         \/ /\ q.op = "delete" /\ q.todo = AfterPdbedit /\ Tail(q.todo) = <<>>
            /\ Exists(v, q.name) /\ ~Exists(w, q.name)
         \/ /\ Exists(w, q.name) = Exists(v, q.name)
            /\ q.op = "create" => q.todo # users_create /\ Tail(q.todo) # users_create
            /\ q.op = "delete" => Tail(q.todo) # <<>>
<1> USE DEF UserOps, GroupOps
<1>1. q.op \in UserOps
  BY NamesAssumption DEF Well
<1>2. CASE At(q, "create", users_create, "useradd", AfterUseradd)
  BY <1>2 DEF At
<1>3. CASE At(q, "delete", AfterPdbedit, "userdel", <<>>)
  <2>1. w \in userdel(v, q)
    BY <1>3, ResultsAre DEF At
  <2> QED BY <1>3, <2>1, UserdelDoes DEF At
<1>4. CASE \/ At(q, "create", AfterUseradd, "id", AfterId)
           \/ At(q, "import", users_import_existing, "lookup", AfterLookup)
  <2>1. w \in lookup(v, q)
    BY <1>4, ResultsAre DEF At
  <2>2. w = v
    BY <2>1 DEF lookup, When
  <2> QED BY <1>4, <2>2, StagesDiffer DEF At
<1>5. CASE \/ At(q, "create", AfterId, "chpasswd", AfterChpasswd)
           \/ At(q, "set_password", users_set_password, "chpasswd", AfterPassword)
  <2>1. w \in chpasswd(v, q)
    BY <1>5, ResultsAre DEF At
  <2>2. w.acct[q.name].uid = v.acct[q.name].uid
    BY <2>1, ChpasswdDoes
  <2> QED BY <1>5, <2>2, StagesDiffer DEF At, Exists
<1>6. CASE At(q, "create", AfterChpasswd, "smbpasswd_add", <<>>)
  <2>1. w \in smbpasswd_add(v, q)
    BY <1>6, ResultsAre DEF At
  <2>2. SameAccount(v, w, q.name)
    BY <2>1, SmbpasswdAddDoes
  <2> QED BY <1>6, <2>2, StagesDiffer, StagesNotDone DEF At, Exists, SameAccount
<1>7. CASE At(q, "import", AfterLookup, "usermod", <<>>)
  <2>1. w \in usermod(v, q)
    BY <1>7, ResultsAre DEF At
  <2>2. w.acct = v.acct
    BY <1>7, <2>1, UsermodDoes DEF At, Well
  <2> QED BY <1>7, <2>2 DEF At, Exists
<1>8. CASE \/ At(q, "set_smb", users_set_smb_enabled, "smbpasswd_enable", <<>>)
           \/ At(q, "set_password", AfterPassword, "smbpasswd", <<>>)
           \/ At(q, "delete", users_delete, "pdbedit", AfterPdbedit)
  <2>1. w \in smbpasswd_enable(v, q) \/ w \in smbpasswd(v, q) \/ w \in pdbedit(v, q)
    BY <1>8, ResultsAre DEF At
  <2>2. SameAccount(v, w, q.name)
    BY <2>1, SmbpasswdEnableDoes, SmbpasswdDoes, PdbeditDoes
  <2> QED BY <1>8, <2>2, StagesNotDone DEF At, Exists, SameAccount
<1>9. q.op \notin GroupOps
  BY <1>1
<1> QED BY <1>2, <1>3, <1>4, <1>5, <1>6, <1>7, <1>8, <1>9, StageIs DEF At

\* A request that a step leaves alone counts as before.
LEMMA CountsElsewhere ==
  ASSUME TypeInv, NEW r \in Slots, NEW names, Others(r, names), NEW n
  PROVE  /\ Done(n)' \ {r} = Done(n) \ {r} /\ Makers(n)' \ {r} = Makers(n) \ {r}
         /\ Done(n) \subseteq Slots /\ Makers(n) \subseteq Slots
         /\ Done(n)' \subseteq Slots /\ Makers(n)' \subseteq Slots
         /\ NoneLost(n) => \A s \in Slots \ {r} :
              req'[s].name = n /\ req'[s].op = "create" => ~req'[s].lost
<1>1. ASSUME NEW s \in Slots, s # r
      PROVE  /\ req'[s].op = req[s].op /\ req'[s].name = req[s].name
             /\ req'[s].lost = req[s].lost /\ req'[s].todo = req[s].todo
             /\ req'[s].code = req[s].code
  BY <1>1, OthersAre
<1> QED BY <1>1 DEF Done, Makers, NoneLost

LEMMA CountOf ==
  ASSUME CountInv, NEW n \in Names, n \notin orphans
  PROVE  /\ Balanced(Done(n), Exists(os, n), Makers(n), RowsOf(n) # {}) /\ NoneLost(n)
BY DEF CountInv

LEMMA BeginCount ==
  ASSUME TypeInv, CountInv, NEW r \in Slots, NEW q, Fresh(q), Begin(r, q)
  PROVE  CountInv'
<1>1. Others(r, {q.name}) /\ req'[r] = [q EXCEPT !.alone = (Busy(q.name) = {})]
  BY BeginTypes
<1>2. (Busy(q.name) = {}) \in BOOLEAN /\ q \in Request
  BY DEF Fresh
<1>3. req'[r].op = q.op /\ req'[r].todo = q.todo /\ req'[r].lost = q.lost
  BY <1>1, <1>2, Quieter
<1>4. /\ req'[r].todo # <<>> /\ ~req'[r].lost
      /\ req'[r].op = "create" => req'[r].todo = users_create
      /\ req[r].op = "idle" /\ os' = os /\ users' = users /\ orphans' = orphans
  BY <1>3 DEF Fresh, Begin, Works
<1>5. ASSUME NEW n \in Names, n \notin orphans
      PROVE  Balanced(Done(n), Exists(os, n), Makers(n), RowsOf(n) # {})' /\ NoneLost(n)'
  <2>1. r \notin Done(n)' /\ r \notin Makers(n) /\ r \notin Makers(n)'
    BY <1>4 DEF Done, Makers
  <2>2. Done(n)' \subseteq Done(n) /\ Makers(n) \subseteq Makers(n)'
    BY <1>1, <2>1, CountsElsewhere
  <2>3. NoneLost(n)'
    BY <1>1, <1>4, <1>5, CountOf, CountsElsewhere DEF NoneLost
  <2>4. Exists(os', n) = Exists(os, n) /\ RowsOf(n)' = RowsOf(n)
    BY <1>4 DEF RowsOf
  <2>5. /\ Done(n) \subseteq Slots /\ Makers(n) \subseteq Slots
        /\ Done(n)' \subseteq Slots /\ Makers(n)' \subseteq Slots
    BY <1>1, CountsElsewhere
  <2>6. Balanced(Done(n), Exists(os, n), Makers(n), RowsOf(n) # {})
    BY <1>5, CountOf
  <2>7. Balanced(Done(n)', Exists(os', n), Makers(n)', RowsOf(n)' # {})
    BY <2>2, <2>4, <2>5, <2>6, Balance
  <2> QED BY <2>3, <2>7
<1> QED BY <1>4, <1>5 DEF CountInv

LEMMA RunsCount ==
  ASSUME TypeInv, CountInv, NEW r \in Slots, Runs(r)
  PROVE  CountInv'
<1> DEFINE q == req[r]
<1>1. PICK p : /\ Others(r, {}) /\ os' \in Results(Head(q.todo), os, q)
               /\ p \in Request /\ Follows(q, p) /\ p.todo = Tail(q.todo)
               /\ req'[r] = Left(p)
  BY RunsTypes
<1>2. /\ q \in Request /\ Well(q) /\ q.op \in UserOps \cup GroupOps /\ q.todo # <<>>
      /\ q.code = "ok"
  BY AtWork DEF Runs, Well
<1>3. users' = users /\ orphans' = orphans
  BY DEF Runs
<1>4. Elsewhere(os, os', q.name) /\ os \in System
  BY <1>1, <1>2, CommandTypes DEF TypeInv
<1>5. /\ Idle.op = "idle" /\ p.name = q.name /\ p.lost = q.lost /\ p.op = q.op /\ p.code = "ok"
      /\ req'[r] = p \/ (req'[r] = Idle /\ q.lost)
  BY <1>1, <1>2 DEF Idle, Follows, Left
<1>6. ASSUME NEW n \in Names, n \notin orphans
      PROVE  Balanced(Done(n), Exists(os, n), Makers(n), RowsOf(n) # {})' /\ NoneLost(n)'
  <2>1. Balanced(Done(n), Exists(os, n), Makers(n), RowsOf(n) # {}) /\ NoneLost(n)
    BY <1>6, CountOf
  <2>2. /\ Done(n)' \ {r} = Done(n) \ {r} /\ Makers(n)' \ {r} = Makers(n) \ {r}
        /\ Done(n) \subseteq Slots /\ Makers(n) \subseteq Slots
        /\ Done(n)' \subseteq Slots /\ Makers(n)' \subseteq Slots
    BY <1>1, CountsElsewhere
  <2>3. NoneLost(n)'
    BY <1>1, <1>5, <2>1, CountsElsewhere DEF NoneLost
  <2>4. RowsOf(n)' = RowsOf(n)
    BY <1>3 DEF RowsOf
  <2>5. r \notin Done(n)
    BY <1>2 DEF Done
  <2>6. CASE n # q.name
    <3>1. r \notin Makers(n) /\ r \notin Done(n)' /\ r \notin Makers(n)'
      BY <1>5, <2>6 DEF Done, Makers
    <3>2. Exists(os', n) = Exists(os, n)
      BY <1>4, <2>6 DEF Elsewhere, Exists
    <3>3. Done(n)' \subseteq Done(n) /\ Makers(n) \subseteq Makers(n)'
      BY <2>2, <3>1
    <3>4. Balanced(Done(n)', Exists(os', n), Makers(n)', RowsOf(n)' # {})
      BY <2>1, <2>2, <2>4, <3>2, <3>3, Balance
    <3> QED BY <2>3, <3>4
  <2>7. CASE n = q.name
    <3>1. q.op = "create" => ~q.lost /\ req'[r] = p
      BY <1>5, <2>1, <2>7 DEF NoneLost
    <3>2. CASE q.op = "create" /\ q.todo = users_create /\ Tail(q.todo) = AfterUseradd
      <4>1. r \in Makers(n)' \ Makers(n) /\ r \notin Done(n)'
        BY <1>1, <1>5, <2>7, <3>1, <3>2, StagesDiffer DEF Makers, Done
      <4>2. Done(n)' \subseteq Done(n) /\ Makers(n) \subseteq Makers(n)'
        BY <2>2, <4>1
      <4>3. Balanced(Done(n)', Exists(os', n), Makers(n)', RowsOf(n)' # {})
        BY <2>1, <2>2, <2>4, <4>1, <4>2, Balance
      <4> QED BY <2>3, <4>3
    <3>3. CASE /\ q.op = "delete" /\ q.todo = AfterPdbedit /\ Tail(q.todo) = <<>>
               /\ Exists(os, n) /\ ~Exists(os', n)
      <4>1. r \notin Makers(n) /\ r \notin Makers(n)'
        BY <1>5, <3>3 DEF Makers
      <4>2. Done(n)' \subseteq Done(n) \cup {r} /\ Makers(n) \subseteq Makers(n)'
        BY <2>2, <4>1
      <4>3. Balanced(Done(n)', Exists(os', n), Makers(n)', RowsOf(n)' # {})
        BY <2>1, <2>2, <2>4, <3>3, <4>2, Balance
      <4> QED BY <2>3, <4>3
    <3>4. CASE /\ Exists(os', n) = Exists(os, n)
               /\ q.op = "create" => q.todo # users_create /\ Tail(q.todo) # users_create
               /\ q.op = "delete" => Tail(q.todo) # <<>>
      <4>1. r \notin Done(n)' /\ (r \in Makers(n) => r \in Makers(n)')
        BY <1>1, <1>5, <2>7, <3>1, <3>4 DEF Makers, Done
      <4>2. Done(n)' \subseteq Done(n) /\ Makers(n) \subseteq Makers(n)'
        BY <2>2, <4>1
      <4>3. Balanced(Done(n)', Exists(os', n), Makers(n)', RowsOf(n)' # {})
        BY <2>1, <2>2, <2>4, <3>4, <4>2, Balance
      <4> QED BY <2>3, <4>3
    <3> QED BY <1>1, <1>2, <1>4, <2>7, <3>2, <3>3, <3>4, CommandExists
  <2> QED BY <2>6, <2>7
<1> QED BY <1>3, <1>6 DEF CountInv

LEMMA FailsCount ==
  ASSUME TypeInv, CountInv, NEW r \in Slots, Fails(r)
  PROVE  CountInv'
<1> DEFINE q == req[r]
           c == Head(q.todo)
<1>1. PICK p : /\ Others(r, {}) /\ p \in Request /\ req'[r] = Left(p)
               /\ p.op = q.op /\ p.name = q.name /\ p.lost = q.lost
               /\ IF Ignored(c) THEN p.todo = Tail(q.todo) ELSE p.code = ErrorCode(q.op, c)
               /\ ~Ignored(c) => p.todo = <<>>
  BY FailedRequest DEF Fails
<1>2. /\ q \in Request /\ Well(q) /\ q.op \in UserOps \cup GroupOps /\ q.todo # <<>>
  BY AtWork DEF Fails
<1>3. Ignored(c) => q.op = "delete" /\ Tail(q.todo) = AfterPdbedit
  BY <1>2, StageIs DEF Ignored, At
<1>4. os' = os /\ users' = users /\ orphans' = orphans
  BY DEF Fails
<1>5. /\ Idle.op = "idle" /\ (req'[r] = p \/ (req'[r] = Idle /\ q.lost))
      /\ p.todo # <<>> \/ p.code # "ok"
      /\ q.op = "create" => p.todo = <<>>
  BY <1>1, <1>3, StagesNotDone DEF Idle, Left, ErrorCode
<1>6. ASSUME NEW n \in Names, n \notin orphans
      PROVE  Balanced(Done(n), Exists(os, n), Makers(n), RowsOf(n) # {})' /\ NoneLost(n)'
  <2>1. Balanced(Done(n), Exists(os, n), Makers(n), RowsOf(n) # {}) /\ NoneLost(n)
    BY <1>6, CountOf
  <2>2. /\ Done(n)' \ {r} = Done(n) \ {r} /\ Makers(n)' \ {r} = Makers(n) \ {r}
        /\ Done(n) \subseteq Slots /\ Makers(n) \subseteq Slots
        /\ Done(n)' \subseteq Slots /\ Makers(n)' \subseteq Slots
    BY <1>1, CountsElsewhere
  <2>3. NoneLost(n)'
    BY <1>1, <1>5, <2>1, CountsElsewhere DEF NoneLost
  <2>4. RowsOf(n)' = RowsOf(n)
    BY <1>4 DEF RowsOf
  <2>5. r \notin Done(n)'
    BY <1>5 DEF Done
  <2>6. r \in Makers(n) => r \in Makers(n)'
    BY <1>1, <1>5, StagesNotDone DEF Makers
  <2>7. Done(n)' \subseteq Done(n) /\ Makers(n) \subseteq Makers(n)'
    BY <2>2, <2>5, <2>6
  <2>8. Balanced(Done(n)', Exists(os', n), Makers(n)', RowsOf(n)' # {})
    BY <1>4, <2>1, <2>2, <2>4, <2>7, Balance
  <2> QED BY <2>3, <2>8
<1> QED BY <1>4, <1>6 DEF CountInv

LEMMA MisreportsCount ==
  ASSUME TypeInv, CountInv, NEW r \in Slots, Misreports(r)
  PROVE  CountInv'
<1> DEFINE q == req[r]
           c == Head(q.todo)
<1>1. PICK p : /\ Others(r, {}) /\ p \in Request /\ req'[r] = Left(p)
               /\ p.op = q.op /\ p.name = q.name /\ p.lost = q.lost
               /\ IF Ignored(c) THEN p.todo = Tail(q.todo) ELSE p.code = ErrorCode(q.op, c)
               /\ ~Ignored(c) => p.todo = <<>>
  BY FailedRequest DEF Misreports
<1>2. /\ q \in Request /\ Well(q) /\ q.op \in UserOps \cup GroupOps /\ q.todo # <<>>
  BY AtWork DEF Misreports
<1>3. Ignored(c) => q.op = "delete" /\ Tail(q.todo) = AfterPdbedit
  BY <1>2, StageIs DEF Ignored, At
<1>4. /\ os' \in Results(c, os, q) /\ os \in System /\ Elsewhere(os, os', q.name)
      /\ users' = users /\ orphans' = orphans
  <2>1. os' \in Results(c, os, q) /\ users' = users /\ orphans' = orphans
    BY DEF Misreports
  <2> QED BY <1>2, <2>1, CommandTypes DEF TypeInv
<1>5. /\ Idle.op = "idle" /\ (req'[r] = p \/ (req'[r] = Idle /\ q.lost))
      /\ p.todo # <<>> \/ p.code # "ok"
      /\ q.op = "create" => p.todo = <<>>
  BY <1>1, <1>3, StagesNotDone DEF Idle, Left, ErrorCode
<1>6. ASSUME NEW n \in Names, n \notin orphans
      PROVE  Balanced(Done(n), Exists(os, n), Makers(n), RowsOf(n) # {})' /\ NoneLost(n)'
  <2>1. Balanced(Done(n), Exists(os, n), Makers(n), RowsOf(n) # {}) /\ NoneLost(n)
    BY <1>6, CountOf
  <2>2. /\ Done(n)' \ {r} = Done(n) \ {r} /\ Makers(n)' \ {r} = Makers(n) \ {r}
        /\ Done(n) \subseteq Slots /\ Makers(n) \subseteq Slots
        /\ Done(n)' \subseteq Slots /\ Makers(n)' \subseteq Slots
    BY <1>1, CountsElsewhere
  <2>3. NoneLost(n)'
    BY <1>1, <1>5, <2>1, CountsElsewhere DEF NoneLost
  <2>4. RowsOf(n)' = RowsOf(n)
    BY <1>4 DEF RowsOf
  <2>5. r \notin Done(n)'
    BY <1>5 DEF Done
  <2>6. r \in Makers(n) => r \in Makers(n)'
    BY <1>1, <1>5, StagesNotDone DEF Makers
  <2>7. Done(n)' \subseteq Done(n) /\ Makers(n) \subseteq Makers(n)'
    BY <2>2, <2>5, <2>6
  <2>8. \/ Exists(os', n) => Exists(os, n)
        \/ r \in Makers(n)' \ Makers(n)
    <3>1. CASE n # q.name
      BY <1>4, <3>1 DEF Elsewhere, Exists
    <3>2. CASE n = q.name /\ q.op = "create" /\ q.todo = users_create
      <4>1. ~q.lost /\ req'[r] = p
        BY <1>5, <2>1, <3>2 DEF NoneLost
      <4> QED BY <1>1, <1>5, <3>2, <4>1, StagesNotDone DEF Makers
    <3>3. CASE n = q.name /\ ~(q.op = "create" /\ q.todo = users_create)
      BY <1>2, <1>4, <3>3, CommandExists
    <3> QED BY <3>1, <3>2, <3>3
  <2>9. Balanced(Done(n)', Exists(os', n), Makers(n)', RowsOf(n)' # {})
    BY <2>1, <2>2, <2>4, <2>7, <2>8, Balance
  <2> QED BY <2>3, <2>9
<1> QED BY <1>4, <1>6 DEF CountInv

LEMMA LostCount ==
  ASSUME TypeInv, CountInv, NEW r \in Slots, Lost(r)
  PROVE  CountInv'
<1> DEFINE q == req[r]
<1>1. /\ Works(r) /\ os' = os /\ users' = users /\ orphans' = orphans \cup Created(q)
      /\ req' = [req EXCEPT ![r] = Left([q EXCEPT !.lost = TRUE])]
  BY DEF Lost
<1>2. Others(r, {}) /\ q \in Request
  BY <1>1, LostTypes, AtWork
<1>3. /\ req'[r] = Idle \/ (req'[r].todo # <<>> /\ req'[r].op = q.op /\ req'[r].name = q.name)
      /\ Idle.op = "idle"
  <2>1. req'[r] = Left([q EXCEPT !.lost = TRUE])
    BY <1>1 DEF TypeInv, RequestsInv
  <2> QED BY <1>2, <2>1 DEF Left, Request, Idle
<1>4. ASSUME NEW n \in Names, n \notin orphans'
      PROVE  Balanced(Done(n), Exists(os, n), Makers(n), RowsOf(n) # {})' /\ NoneLost(n)'
  <2>1. Balanced(Done(n), Exists(os, n), Makers(n), RowsOf(n) # {}) /\ NoneLost(n)
    BY <1>1, <1>4, CountOf
  <2>2. /\ Done(n)' \ {r} = Done(n) \ {r} /\ Makers(n)' \ {r} = Makers(n) \ {r}
        /\ Done(n) \subseteq Slots /\ Makers(n) \subseteq Slots
        /\ Done(n)' \subseteq Slots /\ Makers(n)' \subseteq Slots
    BY <1>2, CountsElsewhere
  <2>3. q.op = "create" => n # q.name
    BY <1>1, <1>4 DEF Created
  <2>4. NoneLost(n)'
    BY <1>2, <1>3, <2>1, <2>3, CountsElsewhere DEF NoneLost
  <2>5. RowsOf(n)' = RowsOf(n)
    BY <1>1 DEF RowsOf
  <2>6. r \notin Done(n)' /\ r \notin Makers(n)
    BY <1>3, <2>3 DEF Done, Makers
  <2>7. Done(n)' \subseteq Done(n) /\ Makers(n) \subseteq Makers(n)'
    BY <2>2, <2>6
  <2>8. Balanced(Done(n)', Exists(os', n), Makers(n)', RowsOf(n)' # {})
    BY <1>1, <2>1, <2>2, <2>5, <2>7, Balance
  <2> QED BY <2>4, <2>8
<1> QED BY <1>4 DEF CountInv

LEMMA AgentRestartCount ==
  ASSUME TypeInv, CountInv, AgentRestart
  PROVE  CountInv'
<1> DEFINE cut == {s \in Slots : Works(s) /\ req[s].todo # <<>>}
<1>1. /\ os' = os /\ users' = users
      /\ orphans' = orphans \cup UNION {Created(req[s]) : s \in cut}
  BY DEF AgentRestart
<1>2. \A s \in Slots : req'[s] = IF s \in cut THEN Idle ELSE req[s]
  BY AgentRestartTypes
<1>3. Idle.op = "idle"
  BY DEF Idle
<1>4. ASSUME NEW n \in Names, n \notin orphans'
      PROVE  Balanced(Done(n), Exists(os, n), Makers(n), RowsOf(n) # {})' /\ NoneLost(n)'
  <2>1. Balanced(Done(n), Exists(os, n), Makers(n), RowsOf(n) # {}) /\ NoneLost(n)
    BY <1>1, <1>4, CountOf
  <2>2. \A s \in cut : req[s].op = "create" => req[s].name # n
    BY <1>1, <1>4 DEF Created
  <2>3. NoneLost(n)'
    BY <1>2, <1>3, <2>1 DEF NoneLost
  <2>4. RowsOf(n)' = RowsOf(n)
    BY <1>1 DEF RowsOf
  <2>5. Done(n)' \subseteq Done(n) /\ Makers(n) \subseteq Makers(n)'
    BY <1>2, <1>3, <2>2 DEF Done, Makers
  <2>6. /\ Done(n) \subseteq Slots /\ Makers(n) \subseteq Slots
        /\ Done(n)' \subseteq Slots /\ Makers(n)' \subseteq Slots
    BY DEF Done, Makers
  <2>7. Balanced(Done(n)', Exists(os', n), Makers(n)', RowsOf(n)' # {})
    BY <1>1, <2>1, <2>4, <2>5, <2>6, Balance
  <2> QED BY <2>3, <2>7
<1> QED BY <1>4 DEF CountInv

\* The end of request r: the rest counts as before.
LEMMA AnsweredCounts ==
  ASSUME TypeInv, CountInv, NEW r \in Slots, NEW op, NEW code, NEW struck,
         Answered(r, op, code, struck), NEW n \in Names
  PROVE  /\ Done(n)' = Done(n) \ {r} /\ Makers(n)' = Makers(n) \ {r}
         /\ Done(n) \subseteq Slots /\ Makers(n) \subseteq Slots
         /\ n \notin orphans => NoneLost(n)'
<1>1. Others(r, struck) /\ req'[r] = Idle /\ Idle.op = "idle"
  BY AnsweredTypes DEF Idle
<1>2. r \notin Done(n)' /\ r \notin Makers(n)'
  BY <1>1 DEF Done, Makers
<1>3. n \notin orphans => NoneLost(n)'
  BY <1>1, CountOf, CountsElsewhere DEF NoneLost
<1> QED BY <1>1, <1>2, <1>3, CountsElsewhere

\* Nobody else is at work on a name after the one request that was alone.
LEMMA NobodyLeft ==
  ASSUME TypeInv, AloneInv, NEW r \in Slots, NEW op, op # "idle", NEW code, NEW struck,
         Answered(r, op, code, struck), req[r].alone, NEW n, n = req[r].name
  PROVE  /\ NoneLost(n)'
         /\ \A a, b : (a => b) => Balanced(Done(n)', a, Makers(n)', b)
<1>1. Others(r, struck) /\ req'[r] = Idle /\ Idle.op = "idle" /\ Works(r)
  BY AnsweredTypes, Answer DEF Idle
<1>2. \A s \in Slots : req'[s].op # "idle" => req'[s].name # n
  BY <1>1, OthersElsewhere
<1>3. Done(n)' = {} /\ Makers(n)' = {} /\ NoneLost(n)'
  BY <1>2 DEF Done, Makers, NoneLost
<1>4. ASSUME NEW a, NEW b, a => b
      PROVE  Cardinality({}) + One(a) <= Cardinality({}) + One(b)
  BY <1>4, FS_EmptySet DEF One
<1> QED BY <1>3, <1>4 DEF Balanced

\* Requests that only write rows, or nothing, keep the balance.
LEMMA NoRowGone ==
  ASSUME TypeInv, CountInv, NEW r \in Slots, NEW op, op # "create", NEW code, NEW struck,
         Answered(r, op, code, struck), NEW n \in Names, n \notin orphans,
         RowsOf(n) # {} => RowsOf(n)' # {}
  PROVE  Balanced(Done(n), Exists(os, n), Makers(n), RowsOf(n) # {})' /\ NoneLost(n)'
<1>1. /\ Done(n)' = Done(n) \ {r} /\ Makers(n)' = Makers(n) \ {r}
      /\ Done(n) \subseteq Slots /\ Makers(n) \subseteq Slots /\ NoneLost(n)'
  BY AnsweredCounts
<1>2. r \notin Makers(n) /\ os' = os
  BY DEF Makers, Answered
<1>3. Done(n)' \subseteq Done(n) /\ Makers(n) \subseteq Makers(n)'
  BY <1>1, <1>2
<1>4. Balanced(Done(n), Exists(os, n), Makers(n), RowsOf(n) # {})
  BY CountOf
<1>5. Makers(n)' \subseteq Slots /\ Done(n)' \subseteq Slots
  BY <1>1
<1>6. Balanced(Done(n)', Exists(os', n), Makers(n)', RowsOf(n)' # {})
  BY <1>1, <1>2, <1>3, <1>4, <1>5, Balance
<1> QED BY <1>1, <1>6

LEMMA AddUserCount ==
  ASSUME TypeInv, AloneInv, CountInv, NEW r \in Slots, NEW op \in {"create", "import"},
         Answered(r, op, "ok", {}), NEW flag, AddUser(req[r], flag)
  PROVE  CountInv'
<1> DEFINE q == req[r]
           row == [name |-> q.name, smb |-> flag, synced |-> flag]
<1>1. /\ q \in Request /\ q.name \in Names /\ q.id \in Numbers /\ Works(r) /\ q.op = op
      /\ q.todo = <<>> /\ ~q.lost /\ os' = os
  BY Answer, AnsweredTypes DEF UserOps
<1>2. ASSUME NEW n \in Names, n \notin orphans'
      PROVE  Balanced(Done(n), Exists(os, n), Makers(n), RowsOf(n) # {})' /\ NoneLost(n)'
  <2>1. CASE UserClash(q)
    <3>1. users' = users /\ n # q.name /\ n \notin orphans
      BY <1>2, <2>1 DEF AddUser
    <3>2. /\ Done(n)' = Done(n) \ {r} /\ Makers(n)' = Makers(n) \ {r}
          /\ Done(n) \subseteq Slots /\ Makers(n) \subseteq Slots /\ NoneLost(n)'
      BY <3>1, AnsweredCounts
    <3>3. r \notin Makers(n)
      BY <3>1 DEF Makers
    <3>4. Done(n)' \subseteq Done(n) /\ Makers(n) \subseteq Makers(n)'
      BY <3>2, <3>3
    <3>5. RowsOf(n)' = RowsOf(n)
      BY <3>1 DEF RowsOf
    <3>6. Balanced(Done(n), Exists(os, n), Makers(n), RowsOf(n) # {})
      BY <3>1, CountOf
    <3>7. Balanced(Done(n)', Exists(os', n), Makers(n)', RowsOf(n)' # {})
      BY <1>1, <3>2, <3>4, <3>5, <3>6, Balance
    <3> QED BY <3>2, <3>7
  <2>2. CASE ~UserClash(q) /\ n # q.name
    <3>1. users' = [users EXCEPT ![q.id] = row] /\ users[q.id] = NoUser /\ n \notin orphans
      BY <1>2, <2>2 DEF AddUser, UserClash
    <3>2. \A u \in Numbers : users[u].name = n => users'[u].name = n
      BY <1>1, <3>1, NamesAssumption DEF TypeInv, TablesInv, NoUser
    <3>3. RowsOf(n) # {} => RowsOf(n)' # {}
      BY <3>2 DEF RowsOf
    <3>4. /\ Done(n)' = Done(n) \ {r} /\ Makers(n)' = Makers(n) \ {r}
          /\ Done(n) \subseteq Slots /\ Makers(n) \subseteq Slots /\ NoneLost(n)'
      BY <3>1, AnsweredCounts
    <3>5. r \notin Makers(n)
      BY <2>2 DEF Makers
    <3>6. Done(n)' \subseteq Done(n) /\ Makers(n) \subseteq Makers(n)'
      BY <3>4, <3>5
    <3>7. Balanced(Done(n), Exists(os, n), Makers(n), RowsOf(n) # {})
      BY <3>1, CountOf
    <3>8. Balanced(Done(n)', Exists(os', n), Makers(n)', RowsOf(n)' # {})
      BY <1>1, <3>3, <3>4, <3>6, <3>7, Balance
    <3> QED BY <3>4, <3>8
  <2>3. CASE ~UserClash(q) /\ n = q.name
    <3>1. /\ users' = [users EXCEPT ![q.id] = row] /\ RowsOf(n) = {}
          /\ orphans' = IF q.alone THEN orphans \ {n} ELSE orphans
      BY <2>3 DEF AddUser, UserClash
    <3>2. users'[q.id].name = n
      BY <1>1, <2>3, <3>1 DEF TypeInv, TablesInv
    <3>3. RowsOf(n)' # {}
      BY <1>1, <3>2 DEF RowsOf
    <3>4. CASE n \in orphans
      <4>1. q.alone
        BY <1>2, <3>1, <3>4
      <4>2. NoneLost(n)' /\ Balanced(Done(n)', Exists(os', n), Makers(n)', RowsOf(n)' # {})
        BY <2>3, <3>3, <4>1, NobodyLeft
      <4> QED BY <4>2
    <3>5. CASE n \notin orphans
      <4>1. /\ Done(n)' = Done(n) \ {r} /\ Makers(n)' = Makers(n) \ {r}
            /\ Done(n) \subseteq Slots /\ Makers(n) \subseteq Slots /\ NoneLost(n)'
        BY <3>5, AnsweredCounts
      <4>2. Done(n)' \subseteq Done(n) /\ Makers(n) \subseteq Makers(n)' \cup {r}
        BY <4>1
      <4>3. Balanced(Done(n), Exists(os, n), Makers(n), RowsOf(n) # {})
        BY <3>5, CountOf
      <4>4. Balanced(Done(n)', Exists(os', n), Makers(n)', RowsOf(n)' # {})
        BY <1>1, <3>1, <3>3, <4>1, <4>2, <4>3, Balance
      <4> QED BY <4>1, <4>4
    <3> QED BY <3>4, <3>5
  <2> QED BY <2>1, <2>2, <2>3
<1> QED BY <1>2 DEF CountInv

LEMMA DeleteCount ==
  ASSUME TypeInv, AloneInv, NamesInv, CountInv, NEW r \in Slots, svc_delete_user(r)
  PROVE  CountInv'
<1> DEFINE q == req[r]
           struck == Struck(q, NoUser)
<1>1. /\ Answered(r, "delete", "ok", struck) /\ users' = [users EXCEPT ![q.id] = NoUser]
      /\ orphans' = (IF q.alone THEN orphans \ {q.name} ELSE orphans) \cup struck
  BY DEF svc_delete_user
<1>2. /\ q \in Request /\ q.name \in Names /\ q.id \in Numbers /\ Works(r) /\ q.op = "delete"
      /\ q.todo = <<>> /\ q.code = "ok" /\ ~q.lost /\ os' = os
  BY <1>1, Answer, AnsweredTypes DEF UserOps
<1>3. ASSUME NEW n \in Names, n \notin orphans'
      PROVE  Balanced(Done(n), Exists(os, n), Makers(n), RowsOf(n) # {})' /\ NoneLost(n)'
  <2>1. CASE n # q.name
    <3>1. n \notin orphans /\ n \notin struck
      BY <1>1, <1>3, <2>1
    <3>2. users[q.id].name = n => users[q.id] = NoUser
      BY <1>2, <2>1, <3>1, StruckIsName
    <3>3. \A u \in Numbers : users[u].name = n => users'[u].name = n
      BY <1>1, <3>2 DEF TypeInv, TablesInv
    <3>4. RowsOf(n) # {} => RowsOf(n)' # {}
      BY <3>3 DEF RowsOf
    <3> QED BY <1>1, <3>1, <3>4, NoRowGone
  <2>2. CASE n = q.name /\ n \notin orphans
    <3>1. /\ Done(n)' = Done(n) \ {r} /\ Makers(n)' = Makers(n) \ {r}
          /\ Done(n) \subseteq Slots /\ Makers(n) \subseteq Slots /\ NoneLost(n)'
      BY <1>1, <2>2, AnsweredCounts
    <3>2. r \in Done(n) /\ r \notin Makers(n)
      BY <1>2, <2>2 DEF Done, Makers
    <3>3. Done(n)' \subseteq Done(n) \ {r} /\ Makers(n) \subseteq Makers(n)'
      BY <3>1, <3>2
    <3>4. Balanced(Done(n), Exists(os, n), Makers(n), RowsOf(n) # {})
      BY <2>2, CountOf
    <3>5. Balanced(Done(n)', Exists(os', n), Makers(n)', RowsOf(n)' # {})
      BY <1>2, <3>1, <3>2, <3>3, <3>4, Balance
    <3> QED BY <3>1, <3>5
  <2>3. CASE n = q.name /\ n \in orphans
    <3>1. q.alone
      BY <1>1, <1>3, <2>3
    <3>2. Stage(n, os, users, doubt, stranded, q)
      BY <1>2, <2>3, <3>1 DEF NamesInv, UserInv
    <3>3. ~Exists(os', n)
      BY <1>2, <3>2, StagesNotDone DEF Stage, DeleteStage
    <3>4. NoneLost(n)' /\ Balanced(Done(n)', Exists(os', n), Makers(n)', RowsOf(n)' # {})
      BY <1>1, <2>3, <3>1, <3>3, NobodyLeft
    <3> QED BY <3>4
  <2> QED BY <2>1, <2>2, <2>3
<1> QED BY <1>3 DEF CountInv

LEMMA ServiceCount ==
  ASSUME TypeInv, AloneInv, NamesInv, CountInv, NEW r \in Slots, Service(r)
  PROVE  CountInv'
<1> DEFINE q == req[r]
<1>1. CASE svc_create_user(r)
  BY <1>1, AddUserCount DEF svc_create_user
<1>2. CASE svc_import_user(r)
  BY <1>2, AddUserCount DEF svc_import_user
<1>3. CASE svc_delete_user(r)
  BY <1>3, DeleteCount
<1>4. ASSUME NEW op, op # "create", NEW code, NEW struck, Answered(r, op, code, struck),
             orphans' = orphans, \A u \in Numbers : users'[u].name = users[u].name
      PROVE  CountInv'
  <2>1. ASSUME NEW n \in Names, n \notin orphans
        PROVE  Balanced(Done(n), Exists(os, n), Makers(n), RowsOf(n) # {})' /\ NoneLost(n)'
    <3>1. RowsOf(n) # {} => RowsOf(n)' # {}
      BY <1>4 DEF RowsOf
    <3> QED BY <1>4, <2>1, <3>1, NoRowGone
  <2> QED BY <1>4, <2>1 DEF CountInv
<1>5. CASE svc_set_smb_enabled(r)
  <2>1. /\ Answered(r, "set_smb", "ok", Struck(q, SmbRow(q))) /\ Update(q, SmbRow(q))
        /\ groups' = groups /\ orphans' = orphans
    BY <1>5 DEF svc_set_smb_enabled, SmbRow
  <2> DEFINE struck == Struck(q, SmbRow(q))
  <2>2. Answered(r, "set_smb", "ok", struck)
    BY <2>1
  <2> HIDE DEF struck
  <2>3. q \in Request /\ q.id \in Numbers
    BY <2>2, Answer
  <2>4. \A u \in Numbers : users'[u].name = users[u].name
    BY <2>1, <2>3, WrittenRows, UpdateTypes
  <2> QED BY <1>4, <2>1, <2>2, <2>4
<1>6. CASE svc_set_password(r)
  <2>1. /\ Answered(r, "set_password", q.code, Struck(q, SyncedRow(q)))
        /\ Update(q, SyncedRow(q)) /\ groups' = groups /\ orphans' = orphans
    BY <1>6 DEF svc_set_password, SyncedRow
  <2> DEFINE code == q.code
             struck == Struck(q, SyncedRow(q))
  <2>2. Answered(r, "set_password", code, struck)
    BY <2>1
  <2> HIDE DEF code, struck
  <2>3. q \in Request /\ q.id \in Numbers
    BY <2>2, Answer
  <2>4. \A u \in Numbers : users'[u].name = users[u].name
    BY <2>1, <2>3, WrittenRows, UpdateTypes
  <2> QED BY <1>4, <2>1, <2>2, <2>4
<1>7. CASE svc_create_group(r) \/ svc_delete_group(r) \/ svc_member(r)
  <2>1. PICK op \in GroupOps : \E struck : Answered(r, op, "ok", struck)
    BY <1>7 DEF svc_create_group, svc_delete_group, svc_member, GroupOps
  <2>2. users' = users /\ orphans' = orphans
    BY <1>7 DEF svc_create_group, svc_delete_group, svc_member
  <2>3. op # "create"
    BY DEF GroupOps
  <2> QED BY <1>4, <2>1, <2>2, <2>3
<1>8. CASE ServiceError(r)
  <2>1. /\ Answered(r, q.op, q.code, {}) /\ users' = users /\ orphans' = orphans \cup Created(q)
        /\ os' = os
    BY <1>8, AnsweredTypes DEF ServiceError
  <2>2. ASSUME NEW n \in Names, n \notin orphans'
        PROVE  Balanced(Done(n), Exists(os, n), Makers(n), RowsOf(n) # {})' /\ NoneLost(n)'
    <3>1. n \notin orphans /\ (q.op = "create" => n # q.name)
      BY <2>1, <2>2 DEF Created
    <3>2. /\ Done(n)' = Done(n) \ {r} /\ Makers(n)' = Makers(n) \ {r}
          /\ Done(n) \subseteq Slots /\ Makers(n) \subseteq Slots /\ NoneLost(n)'
      BY <2>1, <3>1, AnsweredCounts
    <3>3. r \notin Makers(n)
      BY <3>1 DEF Makers
    <3>4. Done(n)' \subseteq Done(n) /\ Makers(n) \subseteq Makers(n)'
      BY <3>2, <3>3
    <3>5. RowsOf(n)' = RowsOf(n)
      BY <2>1 DEF RowsOf
    <3>6. Balanced(Done(n), Exists(os, n), Makers(n), RowsOf(n) # {})
      BY <3>1, CountOf
    <3>7. Balanced(Done(n)', Exists(os', n), Makers(n)', RowsOf(n)' # {})
      BY <2>1, <3>2, <3>4, <3>5, <3>6, Balance
    <3> QED BY <3>2, <3>7
  <2> QED BY <2>2 DEF CountInv
<1> QED BY <1>1, <1>2, <1>3, <1>5, <1>6, <1>7, <1>8 DEF Service

LEMMA CountStep ==
  ASSUME TypeInv, AloneInv, NamesInv, CountInv, AccountsNext
  PROVE  CountInv'
<1>1. ASSUME NEW r \in Slots, Route(r)
      PROVE  CountInv'
  BY <1>1, RouteBegins, BeginCount
<1> QED BY <1>1, RunsCount, FailsCount, MisreportsCount, LostCount, ServiceCount,
           AgentRestartCount DEF AccountsNext

-----------------------------------------------------------------------------
(* The inductive invariant.                                                 *)

AccountsInv == TypeInv /\ AloneInv /\ DoubtInv /\ NamesInv /\ CountInv

LEMMA AccountsStart ==
  ASSUME AccountsInit
  PROVE  AccountsInv
<1>1. PICK old \in SUBSET Names, uid \in [Names -> Numbers] :
        /\ os = [acct    |-> [n \in Names |-> IF n \in old THEN [uid |-> uid[n], pw |-> "old"]
                                                           ELSE NoAccount],
                 entry   |-> [n \in Names |-> NoEntry],
                 gid     |-> [g \in Groups |-> 0],
                 members |-> [g \in Groups \cup {NasosUsers} |-> {}]]
        /\ orphans = old
        /\ users = [u \in Numbers |-> NoUser] /\ groups = [i \in Numbers |-> NoName]
        /\ req = [r \in Slots |-> Idle]
        /\ made = 0 /\ upsets = 0 /\ stranded = {} /\ doubt = {}
  BY DEF AccountsInit
<1>2. \A n \in Names :
        /\ os.acct[n] = IF n \in old THEN [uid |-> uid[n], pw |-> "old"] ELSE NoAccount
        /\ os.entry[n] = NoEntry
  BY <1>1
<1>3. \A r \in Slots : req[r] = Idle /\ ~Works(r)
  BY <1>1 DEF Works, Idle
<1>4. os \in System
  BY <1>1 DEF System, NoAccount, NoEntry, Words
<1>5. /\ \A u \in Numbers : users[u] = NoUser /\ users[u].name = NoName
      /\ \A i \in Numbers : groups[i] = NoName
  BY <1>1 DEF NoUser
<1>6. TablesInv /\ HistoryInv /\ RequestsInv
  BY <1>1, <1>3, <1>5, IdleType DEF TablesInv, HistoryInv, RequestsInv
<1>7. AloneInv /\ DoubtInv
  BY <1>3 DEF AloneInv, DoubtInv
<1>8. NamesInv
  <2>1. /\ \A n \in Names : ~HasEntry(os, n)
        /\ \A n \in Names, u \in Numbers : users[u].name # n
    <3>1. ~NoEntry.there
      BY DEF NoEntry
    <3>2. \A n \in Names : ~HasEntry(os, n)
      BY <1>2, <3>1 DEF HasEntry
    <3> QED BY <1>5, <3>2, NamesAssumption
  <2>2. \A n \in Names : Truth(n, os, users, doubt, stranded, Idle)
    BY <2>1 DEF Truth
  <2>3. \A g \in Groups : GroupTruth(g, os, groups, doubt, Idle)
    BY <1>5, NamesAssumption DEF GroupTruth
  <2> QED BY <1>3, <2>2, <2>3 DEF NamesInv, UserInv, GroupInv
<1>9. CountInv
  <2>1. ASSUME NEW n \in Names, n \notin orphans
        PROVE  Balanced(Done(n), Exists(os, n), Makers(n), RowsOf(n) # {}) /\ NoneLost(n)
    <3>1. Done(n) = {} /\ Makers(n) = {} /\ NoneLost(n)
      BY <1>3 DEF Done, Makers, NoneLost, Idle
    <3>2. ~Exists(os, n)
      BY <1>1, <1>2, <2>1 DEF Exists, NoAccount
    <3> QED BY <3>1, <3>2, FS_EmptySet DEF Balanced, One
  <2> QED BY <2>1 DEF CountInv
<1> QED BY <1>4, <1>6, <1>7, <1>8, <1>9 DEF AccountsInv, TypeInv

\* A step that changes nothing.
LEMMA AccountsStutter ==
  ASSUME AccountsInv, UNCHANGED accountsVars
  PROVE  AccountsInv'
<1>1. /\ os' = os /\ users' = users /\ groups' = groups /\ req' = req /\ orphans' = orphans
      /\ stranded' = stranded /\ doubt' = doubt
  BY DEF accountsVars
<1>2. TypeInv'
  BY <1>1 DEF AccountsInv, TypeInv, TablesInv, HistoryInv, RequestsInv, Works
<1>3. AloneInv' /\ DoubtInv'
  BY <1>1 DEF AccountsInv, AloneInv, DoubtInv, InDoubt, Works
<1>4. NamesInv'
  BY <1>1 DEF AccountsInv, NamesInv, UserInv, GroupInv, Works
<1>5. CountInv'
  <2>1. \A n \in Names : /\ Done(n)' = Done(n) /\ Makers(n)' = Makers(n)
                         /\ RowsOf(n)' = RowsOf(n) /\ NoneLost(n)' = NoneLost(n)
    BY <1>1 DEF Done, Makers, RowsOf, NoneLost
  <2> QED BY <1>1, <2>1 DEF AccountsInv, CountInv
<1> QED BY <1>2, <1>3, <1>4, <1>5 DEF AccountsInv

\* The inductive invariant: types, who is alone on a name, what is in doubt,
\* what is true of each name, and the count of creates and deletes.
THEOREM AccountsInvariance == AccountsSpec => []AccountsInv
<1>1. AccountsInit => AccountsInv
  BY AccountsStart
<1>2. AccountsInv /\ [AccountsNext]_accountsVars => AccountsInv'
  BY TypesStep, AloneStep, DoubtStep, NamesStep, CountStep, AccountsStutter DEF AccountsInv
<1> QED BY <1>1, <1>2, PTL DEF AccountsSpec

\* The tables, the system and the history keep their types, and no two rows of
\* table users have one name.
THEOREM AccountsTypeCorrect == AccountsSpec => []AccountsTypeOK
<1>1. AccountsInv => AccountsTypeOK
  <2>1. TypeInv => \A n \in Names : Exists(os, n) => os.acct[n].uid \in Numbers
    BY DEF TypeInv, System, Exists
  <2> QED BY <2>1 DEF AccountsInv, TypeInv, TablesInv, HistoryInv, UserRow, AccountsTypeOK
<1> QED BY <1>1, AccountsInvariance, PTL

\* With nobody at work on a name, what is sure of it is true.
LEMMA SureIsTrue ==
  ASSUME AccountsInv, NEW n, Busy(n) = {}
  PROVE  /\ n \in Names => Truth(n, os, users, doubt, stranded, Idle)
         /\ n \in Groups => GroupTruth(n, os, groups, doubt, Idle)
         /\ \A a : ~Alters(Idle, a)
<1>1. \A s \in Slots : Works(s) => req[s].name # n
  BY DEF Busy
<1>2. \A a : ~Alters(Idle, a)
  BY DEF Alters, Idle
<1> QED BY <1>1, <1>2 DEF AccountsInv, NamesInv, UserInv, GroupInv

\* A row that no request is at work on tells the truth about the account, the
\* passdb entry and the group, in every aspect that is not in doubt.
THEOREM RowsTellTheTruth == AccountsSpec => []RowIsTruthful
<1>1. ASSUME AccountsInv
      PROVE  RowIsTruthful
  <2>1. ASSUME NEW i \in Numbers, groups[i] # NoName, Sure(groups[i], "account")
        PROVE  os.gid[groups[i]] = i
    <3>1. groups[i] \in Groups
      BY <1>1, <2>1 DEF AccountsInv, TypeInv, TablesInv
    <3>2. /\ GroupTruth(groups[i], os, groups, doubt, Idle) /\ ~Alters(Idle, "account")
          /\ <<groups[i], "account">> \notin doubt
      BY <1>1, <2>1, <3>1, SureIsTrue DEF Sure
    <3> QED BY <3>2 DEF GroupTruth
  <2>2. ASSUME NEW u \in Numbers, users[u] # NoUser, NEW n, n = users[u].name
        PROVE  /\ Sure(n, "account") => os.acct[n].uid = u /\ n \in os.members[NasosUsers]
               /\ Sure(n, "smb") /\ users[u].smb => os.entry[n].on
               /\ Sure(n, "password") /\ users[u].synced =>
                    HasEntry(os, n) /\ os.entry[n].pw = os.acct[n].pw
    <3>1. n \in Names
      BY <1>1, <2>2 DEF AccountsInv, TypeInv, TablesInv, UserRow
    <3>2. CASE Busy(n) = {}
      <4>1. Truth(n, os, users, doubt, stranded, Idle) /\ \A a : ~Alters(Idle, a)
        BY <1>1, <3>1, <3>2, SureIsTrue
      <4> QED BY <2>2, <4>1 DEF Truth, Sure
    <3> QED BY <3>2 DEF Sure
  <2> QED BY <2>1, <2>2 DEF RowIsTruthful
<1> QED BY <1>1, AccountsInvariance, PTL

\* An account without a request has a row, or one of the named reasons has
\* taken it, and a passdb entry outlives its account only where pdbedit failed.
THEOREM NothingStaysUnaccounted == AccountsSpec => []NothingIsStray
<1>1. ASSUME AccountsInv, NEW n \in Names, Exists(os, n), Busy(n) = {}, n \notin orphans
      PROVE  RowsOf(n) # {}
  <2>1. \A s \in Slots : Works(s) => req[s].name # n
    BY <1>1 DEF Busy
  <2>2. Done(n) = {} /\ Makers(n) = {}
    BY <2>1 DEF Done, Makers, Works
  <2>3. Balanced({}, Exists(os, n), {}, RowsOf(n) # {})
    BY <1>1, <2>2, CountOf DEF AccountsInv
  <2> QED BY <1>1, <2>3, FS_EmptySet DEF Balanced, One
<1>2. ASSUME AccountsInv, NEW n \in Names, HasEntry(os, n), ~Exists(os, n), Sure(n, "account")
      PROVE  n \in stranded
  BY <1>2, SureIsTrue DEF Sure, Truth
<1>3. AccountsInv => NothingIsStray
  BY <1>1, <1>2 DEF NothingIsStray
<1> QED BY <1>3, AccountsInvariance, PTL
==============================================================================
