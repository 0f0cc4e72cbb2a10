----------------------------- MODULE SharesProofs ----------------------------
(***************************************************************************)
(* Proofs about shared folders, for any requests, names, volumes,          *)
(* principals, numbers and levels, with setfacl and Samba failing          *)
(* anywhere, calls and answers lost, commits failing and users deleted and *)
(* created again.                                                          *)
(*                                                                         *)
(* nasos.conf is right however requests overlap, because renderings are    *)
(* sent in the order of the commits and written in the order they were     *)
(* sent.  Directories need the same order, and that no third request is    *)
(* under way: then a directory that is gone belongs to a deletion whose    *)
(* commit comes before anything else can happen to its row, or that gave   *)
(* up.  The ACL needs that requests and jobs do not overlap at all.        *)
(*                                                                         *)
(* The second part is about write_and_apply, which writes nasos.conf, for  *)
(* any calls, contents and number of backups.  That there are never more   *)
(* than MAX_BACKUPS is proved however the calls overlap; that the file is  *)
(* settled between calls, and that what a call replaces is kept, is proved *)
(* for calls that do not overlap (MaxCalls = 1): managedfile.py takes no   *)
(* lock, and for calls that do the statements are wrong.                   *)
(***************************************************************************)
EXTENDS Shares, ManagedFile, FiniteSetTheorems, WellFoundedInduction, TLAPS

Sections == Paths \X PermLists

Types ==
    /\ rows \in [Ids -> Paths \cup {NoRow}]
    /\ table \in [Ids -> PermLists]
    /\ number \in Numberings /\ Distinct(number) /\ moves \in 0..MaxMoves
    /\ asOf \in [Paths -> Numberings]
    /\ acl \in [Paths -> EntryLists \cup {NoAcl}]
    /\ jobs \in [Paths -> Seq(EntryLists)]
    /\ jobAt \in [Paths -> {"reset", "modify"}]
    /\ req \in [Reqs -> Requests]
    /\ pc \in [Reqs -> {"idle", "sent", "reset", "modify", "answered", "refused",
                        "conf", "written", "ended", "done"}]
    /\ aclFailed \subseteq Paths /\ stripped \subseteq Paths /\ confFailed \in BOOLEAN
    /\ wire \in Seq(Reqs) /\ back \in Seq(Reqs)
    /\ rendering \in [Reqs -> SUBSET Sections]
    /\ prevConf \in [Reqs -> SUBSET Sections]
    /\ conf \in SUBSET Sections
    /\ peak \in 0..MaxParallel

\* No name has two rows, and a row that is not there has no permissions and no
\* directory to miss.
RowInv ==
    /\ \A i, j \in Live : rows[i][2] = rows[j][2] => i = j
    /\ \A i \in Ids : rows[i] = NoRow => table[i] = Nobody
    /\ stripped \subseteq Listed

\* The calls on their way are those of the requests that wait for them.
WireInv ==
    /\ \A j, k \in DOMAIN wire : wire[j] = wire[k] => j = k
    /\ \A k \in DOMAIN wire : pc[wire[k]] \in {"sent", "conf"}
    /\ \A r \in Reqs : pc[r] = "sent" => \E k \in DOMAIN wire : wire[k] = r

\* And so are the answers.
Replied == {"answered", "refused", "ended"}
BackInv ==
    /\ \A j, k \in DOMAIN back : back[j] = back[k] => j = k
    /\ \A k \in DOMAIN back : pc[back[k]] \in Replied
    /\ \A r \in Reqs : pc[r] = "answered" => \E k \in DOMAIN back : back[k] = r

\* What a request does with the ACL or a row, it was asked to do.
ReqInv ==
    \A r \in Busy :
      /\ req[r].op # "create" => req[r].id \in Ids
      /\ pc[r] \in {"reset", "modify"} => req[r].op = "set" /\ ~req[r].flag

\* The last rendering under way, or nasos.conf if there is none, is that of
\* the tables.
Waiting == {k \in DOMAIN wire : pc[wire[k]] = "conf"}
ConfInv ==
    ~confFailed =>
      /\ Waiting = {} => conf = Rendered(rows, table)
      /\ \A k \in Waiting : (\A j \in Waiting : j <= k) =>
           rendering[wire[k]] = Rendered(rows, table)

\* The most requests there have been bounds those there are.
PeakInv ==
    /\ IsFiniteSet(Jobbed)
    /\ peak <= 1 => \A a, b \in Busy : a = b
    /\ peak <= 2 => \A a, b, c \in Busy : a = b \/ b = c \/ a = c
-----------------------------------------------------------------------------
(* Directories, with two requests at a time.                                *)

Deletes(r) == req[r].op = "delete" /\ req[r].flag
Creates(r) == req[r].op = "create"

\* The share's directory is gone, and its row goes next.
Emptied(i) == \E r \in Reqs : /\ pc[r] = "answered" /\ Deletes(r)
                              /\ req[r].id = i /\ req[r].path = rows[i]

\* A share has its directory until its deletion has removed it.
Owned == \A i \in Live : acl[rows[i]] # NoAcl \/ Emptied(i) \/ rows[i] \in stripped

\* A deletion under way: no other share has its directory, nor will have it.
Removal ==
    \A r \in Reqs : pc[r] = "sent" /\ Deletes(r) =>
      /\ \A i \in Live : rows[i] = req[r].path => i = req[r].id
      /\ \A s \in Reqs : pc[s] = "answered" /\ Creates(s) =>
           req[s].path # req[r].path \/ req[s].path \in stripped

\* A deletion whose answer comes after the creation's has removed its directory.
Undone(s) ==
    \E j, k \in DOMAIN back :
      /\ j < k /\ back[j] = s
      /\ pc[back[k]] = "answered" /\ Deletes(back[k]) /\ req[back[k]].path = req[s].path

\* A creation whose row comes next: the directory is its own.  Where a deletion
\* had given up, the name is still taken and the creation will be refused.
Creation ==
    \A s \in Reqs : pc[s] = "answered" /\ Creates(s) =>
      /\ acl[req[s].path] # NoAcl \/ (req[s].path \in stripped /\ Undone(s))
      /\ \A i \in Live : rows[i] = req[s].path => Emptied(i) \/ rows[i] \in stripped
      /\ \A r \in Reqs : pc[r] = "answered" /\ Creates(r) /\ req[r].path = req[s].path
           => r = s

\* A creation ahead of a deletion finds the directory, or will be refused.
Ahead ==
    \A j, k \in DOMAIN wire :
      /\ j < k
      /\ pc[wire[j]] = "sent" /\ Creates(wire[j])
      /\ pc[wire[k]] = "sent" /\ Deletes(wire[k])
      /\ req[wire[j]].path = req[wire[k]].path
      => acl[req[wire[j]].path] # NoAcl \/ req[wire[j]].path \in stripped

DirInv == peak <= 2 => Owned /\ Removal /\ Creation /\ Ahead
-----------------------------------------------------------------------------
(* The ACL, with one request or job at a time.                              *)

\* What a request grants, and what a row does.
Asked(r) == Entries(req[r].perms, req[r].as)
Granted(i) == Entries(table[i], asOf[rows[i]])

\* The request under way and the row it is about, or a creation that will be
\* refused because of the row.
InTransit(i) ==
    \E r \in Reqs :
      \/ /\ req[r].op = "set" /\ req[r].id = i
         /\ pc[r] \in {"sent", "reset", "modify", "answered", "refused"}
      \/ /\ pc[r] = "answered"
         /\ \/ Deletes(r) /\ req[r].id = i
            \/ Creates(r) /\ req[r].path = rows[i]

\* The ACL of a share is its table's, or a request or job is on its way that
\* makes it so.
Agrees ==
    \A i \in Live : \/ rows[i] \in aclFailed
                    \/ acl[rows[i]] = Granted(i)
                    \/ jobs[rows[i]] # <<>>
                    \/ InTransit(i)

\* The request under way: how far the ACL of its directory has got.
InHand ==
    \A r \in Reqs :
      /\ /\ pc[r] \in {"sent", "reset", "modify", "answered", "refused"}
         /\ req[r].op # "create"
         => req[r].id \in Live /\ rows[req[r].id] = req[r].path
      /\ pc[r] = "modify" => acl[req[r].path] = NoEntries
      /\ pc[r] = "answered" /\ Creates(r) => acl[req[r].path] = NoEntries
      /\ pc[r] = "answered" /\ req[r].op = "set" =>
           \/ jobs[req[r].path] # <<>>
           \/ req[r].path \in aclFailed
           \/ acl[req[r].path] = Asked(r)

\* The job under way is the one the request under way has submitted, if there
\* is one; and it writes what the table has, or is about to have.
Queued ==
    \A p \in Jobbed :
      /\ Len(jobs[p]) = 1
      /\ jobAt[p] = "modify" => acl[p] = NoEntries
      /\ \A r \in Busy :
           /\ req[r].op = "set" /\ req[r].path = p
           /\ pc[r] \in {"answered", "conf", "written", "ended"}
           /\ pc[r] = "answered" => jobs[p][1] = Asked(r)
      /\ (\A r \in Reqs : pc[r] # "answered") =>
           \A i \in Live : rows[i] = p => p \in aclFailed \/ jobs[p][1] = Granted(i)

AtReset == \A p \in Paths : jobs[p] = <<>> => jobAt[p] = "reset"

AclInv == peak <= 1 => Agrees /\ InHand /\ Queued /\ AtReset

\* The inductive invariant.
IInv == /\ Types /\ RowInv /\ WireInv /\ BackInv /\ ReqInv
        /\ ConfInv /\ PeakInv /\ DirInv /\ AclInv
-----------------------------------------------------------------------------
(* Sequences and sets.                                                      *)

\* A set of numbers with a bound has a largest one.
LEMMA MaxFacts ==
    ASSUME NEW S \in SUBSET Nat, S # {}, NEW n \in Nat, \A s \in S : s <= n
    PROVE  Max(S) \in S /\ \A s \in S : s <= Max(S)
  <1> DEFINE Above == {m \in Nat : \A s \in S : s <= m}
  <1>1. n \in Above /\ Above \subseteq Nat
    OBVIOUS
  <1>2. PICK m \in Above : \A k \in Above : ~(<<k, m>> \in OpToRel(<, Nat))
    BY <1>1, WFMin, NatLessThanWellFounded
  <1>3. \A k \in Above : ~(k < m)
    BY <1>2 DEF OpToRel
  <1>4. m \in S
    <2>1. SUFFICES ASSUME m \notin S PROVE FALSE
      OBVIOUS
    <2>2. \A s \in S : s <= m /\ s # m /\ s \in Nat
      BY <2>1
    <2>3. m # 0
      <3>1. PICK s \in S : TRUE
        OBVIOUS
      <3>2. s <= m /\ s # m /\ s \in Nat
        BY <2>2
      <3>3. QED
        BY <3>2
    <2>4. m - 1 \in Above
      BY <2>2, <2>3
    <2>5. QED
      BY <1>3, <2>3, <2>4
  <1>5. \A x \in S : (\A y \in S : x >= y) => x = m
    BY <1>4
  <1>6. QED
    BY <1>4, <1>5 DEF Max

\* What Append and Tail do to the places in a queue.
LEMMA AppendFacts ==
    ASSUME NEW T, NEW s \in Seq(T), NEW x \in T
    PROVE  /\ Append(s, x) \in Seq(T)
           /\ DOMAIN Append(s, x) = DOMAIN s \cup {Len(s) + 1}
           /\ \A k \in DOMAIN s : Append(s, x)[k] = s[k] /\ k \in 1..Len(s)
           /\ Append(s, x)[Len(s) + 1] = x
           /\ Len(s) \in Nat /\ Len(s) + 1 \notin DOMAIN s
  OBVIOUS

LEMMA TailFacts ==
    ASSUME NEW T, NEW s \in Seq(T), s # <<>>
    PROVE  /\ Tail(s) \in Seq(T)
           /\ Len(s) \in Nat \ {0} /\ 1 \in DOMAIN s /\ Head(s) = s[1] /\ s[1] \in T
           /\ DOMAIN s = 1..Len(s)
           /\ DOMAIN Tail(s) = 1..(Len(s) - 1)
           /\ \A k \in DOMAIN Tail(s) : Tail(s)[k] = s[k + 1]
  OBVIOUS

LEMMA OneElement ==
    ASSUME NEW T, NEW s \in Seq(T), Len(s) = 1
    PROVE  Tail(s) = <<>> /\ Head(s) = s[1] /\ s[1] \in T /\ s # <<>>
  <1>1. s[1] \in T /\ s # <<>> /\ Head(s) = s[1]
    OBVIOUS
  <1>2. Tail(s) \in Seq(T) /\ Len(Tail(s)) = Len(s) - 1
    BY <1>1
  <1>3. \A t \in Seq(T) : Len(t) = 0 => t = <<>>
    OBVIOUS
  <1>4. Len(Tail(s)) = 0
    BY <1>2
  <1>5. Tail(s) = <<>>
    BY <1>2, <1>3, <1>4
  <1>6. QED
    BY <1>1, <1>5

LEMMA NobodyFacts == /\ Nobody \in PermLists
                     /\ NoEntries \in EntryLists /\ NoEntries # NoAcl
  BY NoneAssumption DEF Nobody, PermLists, NoEntries, EntryLists

\* What a permission list grants, and that nothing grants nothing.
LEMMA EntriesFacts ==
    ASSUME NEW perms \in PermLists, NEW as \in Numberings
    PROVE  Entries(perms, as) \in EntryLists /\ Entries(Nobody, as) = NoEntries
  <1>1. ASSUME NEW n \in Numbers, \E u \in Principals : as[u] = n
        PROVE  (CHOOSE u \in Principals : as[u] = n) \in Principals
    BY <1>1
  <1>2. \A u \in Principals : perms[u] \in Levels \cup {"none"} /\ Nobody[u] = "none"
    BY DEF PermLists, Nobody
  <1>3. Entries(perms, as) \in EntryLists
    BY <1>1, <1>2 DEF Entries, EntryLists
  <1>4. Entries(Nobody, as) = NoEntries
    BY <1>1, <1>2 DEF Entries, NoEntries
  <1>5. QED
    BY <1>3, <1>4

\* The id of a new row is nobody's.
LEMMA NextIdIsFree == NextId \notin Live
  <1> DEFINE n == Cardinality(Reqs) + 1
  <1>1. n \in Nat
    BY SetsAssumption, FS_CardinalityType
  <1>2. Live \cup {0} \in SUBSET Nat /\ \A i \in Live \cup {0} : i <= n
    BY <1>1 DEF Live, Ids
  <1> HIDE DEF n
  <1>3. Max(Live \cup {0}) \in Live \cup {0} /\ \A i \in Live \cup {0} : i <= Max(Live \cup {0})
    BY <1>1, <1>2, MaxFacts
  <1> DEFINE m == Max(Live \cup {0})
  <1>4. m \in Nat /\ \A i \in Live : i <= m /\ i \in Nat
    BY <1>2, <1>3
  <1> HIDE DEF m
  <1>5. \A i \in Live : i # m + 1
    BY <1>4
  <1>6. QED
    BY <1>5 DEF NextId, m
-----------------------------------------------------------------------------
(* The types.                                                               *)

LEMMA RequestsFacts ==
    /\ NoRequest \in Requests /\ NoRequest.op = "create"
    /\ \A q \in Requests : /\ q.path \in Paths /\ q.perms \in PermLists
                           /\ q.as \in Numberings
                           /\ q.flag \in BOOLEAN /\ q.id \in Ids \cup {0}
                           /\ q.op \in {"create", "delete", "set"}
  <1>1. (CHOOSE p \in Paths : TRUE) \in Paths
    <2>1. Paths # {}
      <3>1. PICK v \in Volumes, n \in Names : TRUE
        BY SetsAssumption
      <3>2. <<v, n>> \in Paths
        BY DEF Paths
      <3>3. QED
        BY <3>2
    <2>2. QED
      BY <2>1
  <1>2. NoRequest \in Requests
    BY <1>1, NobodyFacts DEF NoRequest, Requests, Numberings
  <1>3. QED
    BY <1>2 DEF NoRequest, Requests

LEMMA NewRequestFacts ==
    ASSUME NEW q \in Requests, NEW p \in Paths
    PROVE  /\ [q EXCEPT !.op = "create", !.path = p] \in Requests
           /\ \A i \in Ids, f \in BOOLEAN :
                [q EXCEPT !.op = "delete", !.id = i, !.path = p, !.flag = f] \in Requests
  BY DEF Requests

\* A request starts when there is room, and the peak remembers it.
LEMMA RoomFacts ==
    ASSUME Types, PeakInv, OneMore
    PROVE  /\ peak' \in 0..MaxParallel /\ peak <= peak'
           /\ peak' <= 1 => Busy = {} /\ Jobbed = {}
           /\ peak' <= 2 => \A a, b \in Busy : a = b
  <1> DEFINE n == Cardinality(Busy) m == Cardinality(Jobbed)
  <1>1. IsFiniteSet(Busy) /\ IsFiniteSet(Jobbed)
    BY SetsAssumption, FS_Subset DEF Busy, PeakInv
  <1>2. n \in Nat /\ m \in Nat
    BY <1>1, FS_CardinalityType
  <1>3. peak \in Nat /\ n + m + 1 \in Nat /\ peak + n + m + 1 \in Nat
    BY <1>2, MaxParallelAssumption DEF Types
  <1>4. /\ Max({peak, n + m + 1}) \in {peak, n + m + 1}
        /\ \A s \in {peak, n + m + 1} : s <= Max({peak, n + m + 1})
    <2> DEFINE S == {peak, n + m + 1}
               k == peak + n + m + 1
    <2>1. S \in SUBSET Nat /\ S # {} /\ k \in Nat /\ \A s \in S : s <= k
      BY <1>2, <1>3
    <2> HIDE DEF S, k
    <2>2. Max(S) \in S /\ \A s \in S : s <= Max(S)
      BY <2>1, MaxFacts
    <2>3. QED
      BY <2>2 DEF S
  <1>5. n + m + 1 <= MaxParallel /\ peak' = Max({peak, n + m + 1})
    BY DEF OneMore
  <1>6. m = 0 => Jobbed = {}
    BY <1>1, FS_EmptySet
  <1>7. n = 0 => Busy = {}
    BY <1>1, FS_EmptySet
  <1>8. n <= 1 => \A a, b \in Busy : a = b
    <2>1. SUFFICES ASSUME NEW a \in Busy, NEW b \in Busy, a # b PROVE ~(n <= 1)
      OBVIOUS
    <2>2. IsFiniteSet({a}) /\ Cardinality({a}) = 1
      BY FS_Singleton
    <2>3. IsFiniteSet({a} \cup {b}) /\ Cardinality({a} \cup {b}) = 2
      <3>1. b \notin {a}
        BY <2>1
      <3>2. Cardinality({a} \cup {b}) = Cardinality({a}) + 1 /\ IsFiniteSet({a} \cup {b})
        BY <2>2, <3>1, FS_AddElement
      <3>3. QED
        BY <2>2, <3>2
    <2>4. Cardinality({a} \cup {b}) <= n
      BY <1>1, <2>1, FS_Subset
    <2>5. QED
      BY <1>2, <2>3, <2>4
  <1> HIDE DEF n, m
  <1>9. peak' \in Nat /\ peak <= peak' /\ n + m + 1 <= peak' /\ peak' \in {peak, n + m + 1}
    BY <1>3, <1>4, <1>5
  <1>10. peak' \in 0..MaxParallel
    BY <1>5, <1>9, MaxParallelAssumption DEF Types
  <1>11. QED
    BY <1>2, <1>5, <1>6, <1>7, <1>8, <1>9, <1>10

LEMMA StartsFacts ==
    ASSUME Types, PeakInv, NEW r \in Reqs, Starts(r)
    PROVE  /\ peak' \in 0..MaxParallel /\ peak <= peak' /\ r \notin Busy
           /\ peak' <= 1 => Busy = {} /\ Jobbed = {}
           /\ peak' <= 2 => \A a, b \in Busy : a = b
  BY RoomFacts DEF Starts, Busy

\* Users come and go beside all that.
Renames == \E u \in Principals : delete_user(u) \/ create_user(u)

LEMMA RenamesFacts ==
    ASSUME Types, PeakInv, Renames
    PROVE  /\ UNCHANGED <<dbVars, aclVars, confVars, wire, back, req, pc>>
           /\ peak' \in 0..MaxParallel /\ peak <= peak'
           /\ number' \in Numberings /\ Distinct(number') /\ moves' \in 0..MaxMoves
  <1>1. PICK u \in Principals : delete_user(u) \/ create_user(u)
    BY DEF Renames
  <1>2. /\ OneMore /\ UNCHANGED <<dbVars, aclVars, confVars, wire, back, req, pc>>
        /\ moves \in Nat /\ moves <= MaxMoves /\ MaxMoves \in Nat
        /\ number \in Numberings /\ Distinct(number)
    BY <1>1, MaxParallelAssumption DEF delete_user, create_user, Types
  <1>3. peak' \in 0..MaxParallel /\ peak <= peak'
    BY <1>2, RoomFacts
  <1>4. CASE delete_user(u)
    <2>1. /\ \A w \in Principals : number'[w] = IF w = u THEN NoNumber ELSE number[w]
          /\ number' \in Numberings
      BY <1>2, <1>4 DEF delete_user, Numberings
    <2>2. Distinct(number')
      BY <1>2, <2>1 DEF Distinct
    <2>3. moves' \in 0..MaxMoves
      BY <1>2, <1>4 DEF delete_user
    <2>4. QED
      BY <1>2, <1>3, <2>1, <2>2, <2>3
  <1>5. CASE create_user(u)
    <2>1. PICK n \in Numbers : /\ \A w \in Principals : number[w] # n
                               /\ number' = [number EXCEPT ![u] = n]
      BY <1>5 DEF create_user
    <2>2. /\ \A w \in Principals : number'[w] = IF w = u THEN n ELSE number[w]
          /\ number' \in Numberings
      BY <1>2, <2>1 DEF Numberings
    <2>3. Distinct(number')
      BY <1>2, <2>1, <2>2 DEF Distinct
    <2>4. moves' \in 0..MaxMoves
      BY <1>2, <1>5 DEF create_user
    <2>5. QED
      BY <1>2, <1>3, <2>2, <2>3, <2>4
  <1>6. QED
    BY <1>1, <1>4, <1>5

LEMMA TypesStep ==
    ASSUME Types, PeakInv, ReqInv, [Next]_vars
    PROVE  Types'
  <1> USE RequestsFacts, NobodyFacts DEF Types, Goes
  <1>1. ASSUME NEW r \in Reqs, NEW p \in Paths, create_share(r, p)
        PROVE  Types'
    <2>1. Starts(r) /\ peak' \in 0..MaxParallel
      BY <1>1, StartsFacts DEF create_share
    <2>2. req' \in [Reqs -> Requests]
      <3>1. req' = [req EXCEPT ![r] = [req[r] EXCEPT !.op = "create", !.path = p]]
        BY <1>1 DEF create_share
      <3>2. [req[r] EXCEPT !.op = "create", !.path = p] \in Requests
        BY NewRequestFacts
      <3>3. QED
        BY <3>1, <3>2
    <2>3. wire' \in Seq(Reqs)
      BY <1>1, AppendFacts DEF create_share
    <2>4. QED
      BY <1>1, <2>1, <2>2, <2>3 DEF create_share, dbVars, nameVars, aclVars, confVars
  <1>2. ASSUME NEW r \in Reqs, NEW i \in Ids, NEW files \in BOOLEAN, delete_share(r, i, files)
        PROVE  Types'
    <2>1. Starts(r) /\ peak' \in 0..MaxParallel
      BY <1>2, StartsFacts DEF delete_share
    <2>2. rows[i] \in Paths
      BY <1>2 DEF delete_share, Live
    <2>3. req' \in [Reqs -> Requests]
      <3>1. [req[r] EXCEPT !.op = "delete", !.id = i, !.path = rows[i], !.flag = files]
              \in Requests
        BY <2>2, NewRequestFacts
      <3>2. QED
        BY <1>2, <3>1 DEF delete_share
    <2>4. wire' \in Seq(Reqs)
      BY <1>2, AppendFacts DEF delete_share
    <2>5. QED
      BY <1>2, <2>1, <2>3, <2>4 DEF delete_share, dbVars, nameVars, aclVars, confVars
  <1>3. ASSUME NEW r \in Reqs, NEW i \in Ids, NEW perms \in PermLists, NEW recursive \in BOOLEAN,
               set_share_permissions(r, i, perms, recursive)
        PROVE  Types'
    <2>1. Starts(r) /\ peak' \in 0..MaxParallel
      BY <1>3, StartsFacts DEF set_share_permissions
    <2>2. rows[i] \in Paths
      BY <1>3 DEF set_share_permissions, Live
    <2>3. req' \in [Reqs -> Requests]
      BY <1>3, <2>2 DEF set_share_permissions, Requests, Types
    <2>4. wire' \in Seq(Reqs)
      BY <1>3, AppendFacts DEF set_share_permissions
    <2>5. QED
      BY <1>3, <2>1, <2>3, <2>4 DEF set_share_permissions, dbVars, nameVars, confVars
  <1>4. ASSUME NEW r \in Reqs, Ends(r)
        PROVE  /\ pc' \in [Reqs -> {"idle", "sent", "reset", "modify", "answered", "refused",
                                    "conf", "written", "ended", "done"}]
               /\ req' \in [Reqs -> Requests]
               /\ rendering' \in [Reqs -> SUBSET Sections] /\ prevConf' \in [Reqs -> SUBSET Sections]
    BY <1>4 DEF Ends
  <1>5. ASSUME NEW r \in Reqs, NEW s, TakesAnswer(r, s)
        PROVE  back' \in Seq(Reqs)
    BY <1>5, TailFacts DEF TakesAnswer
  <1>6. ASSUME NEW r \in Reqs, Commit(r)
        PROVE  Types'
    <2>1. back' \in Seq(Reqs) /\ wire' \in Seq(Reqs)
      BY <1>5, <1>6, AppendFacts DEF Commit
    <2>2. req[r].path \in Paths /\ req[r].perms \in PermLists
      OBVIOUS
    <2>3. /\ rows' \in [Ids -> Paths \cup {NoRow}] /\ table' \in [Ids -> PermLists]
          /\ asOf' \in [Paths -> Numberings]
      <3>1. CASE req[r].op = "create"
        BY <1>6, <2>2, <3>1 DEF Commit, Commits
      <3>2. CASE req[r].op = "delete"
        BY <1>6, <3>2 DEF Commit, Commits, RowsLeft
      <3>3. CASE req[r].op = "set"
        <4>1. req[r].as \in Numberings
          OBVIOUS
        <4>2. rows' = rows /\ table' \in [Ids -> PermLists]
          BY <1>6, <2>2, <3>3 DEF Commit, Commits
        <4>3. asOf' \in [Paths -> Numberings]
          BY <1>6, <3>3, <4>1 DEF Commit, Commits
        <4>4. QED
          BY <4>2, <4>3
      <3>4. QED
        BY <1>6, <3>1, <3>2, <3>3 DEF Commit, Commits
    <2>4. RenderedAtCommit \in SUBSET Sections
      BY <2>3 DEF RenderedAtCommit, Rendered, Sections
    <2>5. QED
      BY <1>6, <2>1, <2>3, <2>4 DEF Commit, nameVars
  <1>7. ASSUME NEW r \in Reqs, GivesUp(r)
        PROVE  Types'
    <2>1. back' \in Seq(Reqs) /\ Ends(r)
      BY <1>5, <1>7 DEF GivesUp
    <2>2. QED
      BY <1>4, <1>7, <2>1 DEF GivesUp, dbVars, nameVars
  <1>8. ASSUME NEW r \in Reqs, Return(r)
        PROVE  Types'
    <2>1. back' \in Seq(Reqs) /\ Ends(r)
      BY <1>5, <1>8 DEF Return
    <2>2. QED
      BY <1>4, <1>8, <2>1 DEF Return, dbVars, nameVars, aclVars
  <1>9. ASSUME NEW r \in Reqs, NEW op, Takes(r, op)
        PROVE  wire' \in Seq(Reqs)
    BY <1>9, TailFacts DEF Takes
  <1>10. ASSUME NEW r \in Reqs, NEW s \in {"answered", "refused", "ended"}, Answers(r, s)
         PROVE  /\ back' \in Seq(Reqs)
                /\ pc' \in [Reqs -> {"idle", "sent", "reset", "modify", "answered", "refused",
                                     "conf", "written", "ended", "done"}]
    BY <1>10, AppendFacts DEF Answers
  <1>11. ASSUME NEW r \in Reqs, create(r)
         PROVE  Types'
    <2>1. wire' \in Seq(Reqs) /\ (Answers(r, "refused") \/ Answers(r, "answered"))
      BY <1>9, <1>11 DEF create
    <2>2. acl' \in [Paths -> EntryLists \cup {NoAcl}] /\ aclFailed' \subseteq Paths
      <3>1. req[r].path \in Paths
        OBVIOUS
      <3>2. CASE Refused(req[r].path)
        BY <1>11, <3>1, <3>2 DEF create
      <3>3. CASE ~Refused(req[r].path)
        <4>1. acl' = [acl EXCEPT ![req[r].path] = NoEntries]
          BY <1>11, <3>3 DEF create, Refused
        <4>2. QED
          BY <1>11, <3>1, <3>3, <4>1 DEF create
      <3>4. QED
        BY <3>2, <3>3
    <2>3. QED
      BY <1>10, <1>11, <2>1, <2>2 DEF create, dbVars, nameVars, confVars
  <1>12. ASSUME NEW r \in Reqs, delete(r)
         PROVE  Types'
    <2>1. wire' \in Seq(Reqs) /\ Answers(r, "answered")
      BY <1>9, <1>12 DEF delete
    <2>2. acl' \in [Paths -> EntryLists \cup {NoAcl}]
      BY <1>12 DEF delete
    <2>3. QED
      BY <1>10, <1>12, <2>1, <2>2 DEF delete, dbVars, nameVars, confVars
  <1>13. ASSUME NEW r \in Reqs, SubmitJob(r)
         PROVE  Types'
    <2>1. wire' \in Seq(Reqs) /\ Answers(r, "answered")
      BY <1>9, <1>13 DEF SubmitJob
    <2>2. jobs' \in [Paths -> Seq(EntryLists)]
      <3>1. Append(jobs[req[r].path], Entries(req[r].perms, req[r].as)) \in Seq(EntryLists)
        BY AppendFacts, EntriesFacts
      <3>2. QED
        BY <1>13, <3>1 DEF SubmitJob
    <2>3. QED
      BY <1>10, <1>13, <2>1, <2>2 DEF SubmitJob, dbVars, nameVars, confVars
  <1>14. ASSUME NEW r \in Reqs, SetNow(r)
         PROVE  Types'
    <2>1. wire' \in Seq(Reqs)
      BY <1>9, <1>14 DEF SetNow
    <2>2. QED
      BY <1>14, <2>1 DEF SetNow, dbVars, nameVars, aclVars, confVars
  <1>15. ASSUME NEW p \in Paths, Works(p)
         PROVE  /\ acl[p] \in EntryLists /\ AfterReset(p) \in EntryLists
                /\ \A entries \in EntryLists : Modified(p, entries) \in EntryLists
    <2>1. acl[p] \in EntryLists /\ AfterReset(p) \in EntryLists
      BY <1>15 DEF Works, AfterReset
    <2>2. ASSUME NEW entries \in EntryLists
          PROVE  Modified(p, entries) \in EntryLists
      BY <2>1 DEF Modified, EntryLists
    <2>3. QED
      BY <2>1, <2>2
  <1>16. ASSUME NEW r \in Reqs, AclReset(r)
         PROVE  Types'
    BY <1>15, <1>16 DEF AclReset, dbVars, nameVars, confVars
  <1>17. ASSUME NEW r \in Reqs, AclModify(r)
         PROVE  Types'
    BY <1>10, <1>15, <1>17, EntriesFacts DEF AclModify, dbVars, nameVars, confVars
  <1>18. ASSUME NEW r \in Reqs, AclFails(r)
         PROVE  Types'
    BY <1>10, <1>18 DEF AclFails, dbVars, nameVars, confVars
  <1>19. ASSUME NEW p \in Paths, p \in Jobbed, JobEnds(p)
         PROVE  /\ jobs' \in [Paths -> Seq(EntryLists)] /\ Head(jobs[p]) \in EntryLists
                /\ jobAt' \in [Paths -> {"reset", "modify"}]
    <2>1. Tail(jobs[p]) \in Seq(EntryLists) /\ Head(jobs[p]) \in EntryLists
      BY <1>19, TailFacts DEF Jobbed
    <2>2. QED
      BY <1>19, <2>1 DEF JobEnds
  <1>20. ASSUME NEW p \in Paths, Job(p)
         PROVE  Types'
    <2>1. CASE JobReset(p)
      BY <1>15, <2>1 DEF JobReset, dbVars, nameVars, confVars
    <2>2. CASE JobModify(p)
      BY <1>15, <1>19, <2>2 DEF JobModify, dbVars, nameVars, confVars
    <2>3. CASE JobFails(p)
      BY <1>19, <2>3 DEF JobFails, dbVars, nameVars, confVars
    <2>4. QED
      BY <1>20, <2>1, <2>2, <2>3 DEF Job
  <1>21. ASSUME NEW r \in Reqs, WriteConf(r) \/ ConfApplied(r) \/ ConfFails(r) \/ Unserved(r)
         PROVE  Types'
    <2>1. CASE WriteConf(r)
      <3>1. wire' \in Seq(Reqs)
        BY <2>1, TailFacts DEF WriteConf
      <3>2. QED
        BY <2>1, <3>1 DEF WriteConf, dbVars, nameVars, aclVars
    <2>2. CASE ConfApplied(r)
      BY <1>10, <2>2 DEF ConfApplied, dbVars, nameVars, aclVars, confVars
    <2>3. CASE ConfFails(r)
      BY <1>10, <2>3 DEF ConfFails, dbVars, nameVars, aclVars
    <2>4. CASE Unserved(r)
      <3>1. wire' \in Seq(Reqs) /\ confFailed' \in BOOLEAN
        BY <2>4, TailFacts DEF Unserved
      <3>2. Answers(r, "refused") \/ Answers(r, "ended")
        BY <2>4 DEF Unserved
      <3>3. QED
        BY <1>10, <2>4, <3>1, <3>2 DEF Unserved, dbVars, nameVars, aclVars
    <2>5. QED
      BY <1>21, <2>1, <2>2, <2>3, <2>4
  <1>22. CASE UNCHANGED vars
    BY <1>22 DEF vars, dbVars, nameVars, aclVars, confVars
  <1>23. ASSUME NEW r \in Reqs, Web(r)
         PROVE  Types'
    BY <1>1, <1>2, <1>3, <1>6, <1>7, <1>8, <1>23 DEF Web
  <1>24. ASSUME NEW r \in Reqs, Agent(r)
         PROVE  Types'
    BY <1>11, <1>12, <1>13, <1>14, <1>16, <1>17, <1>18, <1>21, <1>24 DEF Agent
  <1>25. CASE Renames
    BY <1>25, RenamesFacts DEF dbVars, aclVars, confVars
  <1>26. QED
    BY <1>20, <1>22, <1>23, <1>24, <1>25 DEF Next, Renames
-----------------------------------------------------------------------------
(* The wire.                                                                *)

Underway == {"sent", "conf"}

\* How a step moves a request on: its call stays where it is, is sent, or is
\* taken.
Stays(r) == /\ wire' = wire /\ pc[r] \notin Underway
            /\ \E s : s \notin Underway /\ pc' = [pc EXCEPT ![r] = s]
Sends(r) == /\ wire' = Append(wire, r) /\ pc[r] \notin Underway
            /\ \E s \in Underway : pc' = [pc EXCEPT ![r] = s]
IsTaken(r) == /\ wire # <<>> /\ r = Head(wire) /\ wire' = Tail(wire)
              /\ \E s : s \notin Underway /\ pc' = [pc EXCEPT ![r] = s]

LEMMA MovesFacts ==
    ASSUME Types, [Next]_vars
    PROVE  \/ UNCHANGED <<wire, pc>>
           \/ \E r \in Reqs : Stays(r) \/ Sends(r) \/ IsTaken(r)
  <1> USE DEF Goes, Underway
  <1>1. ASSUME NEW r \in Reqs, Web(r)
        PROVE  Stays(r) \/ Sends(r)
    <2>1. ASSUME NEW p \in Paths, create_share(r, p)
          PROVE  Sends(r)
      BY <2>1 DEF create_share, Starts, Sends
    <2>2. ASSUME NEW i \in Ids, NEW files \in BOOLEAN, delete_share(r, i, files)
          PROVE  Sends(r)
      BY <2>2 DEF delete_share, Starts, Sends
    <2>3. ASSUME NEW i \in Ids, NEW perms \in PermLists, NEW recursive \in BOOLEAN,
                 set_share_permissions(r, i, perms, recursive)
          PROVE  Sends(r)
      BY <2>3 DEF set_share_permissions, Starts, Sends
    <2>4. CASE Commit(r)
      BY <2>4 DEF Commit, TakesAnswer, Sends
    <2>5. CASE GivesUp(r)
      BY <2>5 DEF GivesUp, TakesAnswer, Ends, Stays
    <2>6. CASE Return(r)
      BY <2>6 DEF Return, TakesAnswer, Ends, Stays
    <2>7. QED
      BY <1>1, <2>1, <2>2, <2>3, <2>4, <2>5, <2>6 DEF Web
  <1>2. ASSUME NEW r \in Reqs, Agent(r)
        PROVE  Stays(r) \/ IsTaken(r)
    <2>1. CASE create(r)
      BY <2>1 DEF create, Takes, Answers, IsTaken
    <2>2. CASE delete(r)
      BY <2>2 DEF delete, Takes, Answers, IsTaken
    <2>3. CASE SubmitJob(r)
      BY <2>3 DEF SubmitJob, Takes, Answers, IsTaken
    <2>4. CASE SetNow(r)
      BY <2>4 DEF SetNow, Takes, IsTaken
    <2>5. CASE AclReset(r)
      BY <2>5 DEF AclReset, Stays
    <2>6. CASE AclModify(r)
      BY <2>6 DEF AclModify, Answers, Stays
    <2>7. CASE AclFails(r)
      BY <2>7 DEF AclFails, Answers, Stays
    <2>8. CASE WriteConf(r)
      BY <2>8 DEF WriteConf, IsTaken
    <2>9. CASE ConfApplied(r)
      BY <2>9 DEF ConfApplied, Answers, Stays
    <2>10. CASE ConfFails(r)
      BY <2>10 DEF ConfFails, Answers, Stays
    <2>11. CASE Unserved(r)
      BY <2>11 DEF Unserved, Answers, IsTaken
    <2>12. QED
      BY <1>2, <2>1, <2>2, <2>3, <2>4, <2>5, <2>6, <2>7, <2>8, <2>9, <2>10, <2>11 DEF Agent
  <1>3. ASSUME NEW p \in Paths, Job(p)
        PROVE  UNCHANGED <<wire, pc>>
    BY <1>3 DEF Job, JobReset, JobModify, JobFails
  <1>4. CASE Renames \/ UNCHANGED vars
    BY <1>4 DEF Renames, delete_user, create_user, vars
  <1>5. QED
    BY <1>1, <1>2, <1>3, <1>4 DEF Next, Renames

LEMMA WireStep ==
    ASSUME Types, WireInv, [Next]_vars
    PROVE  WireInv'
  <1>1. CASE UNCHANGED <<wire, pc>>
    BY <1>1 DEF WireInv
  <1>2. ASSUME NEW r \in Reqs, Stays(r)
        PROVE  WireInv'
    BY <1>2 DEF WireInv, Stays, Types, Underway
  <1>3. ASSUME NEW r \in Reqs, Sends(r)
        PROVE  WireInv'
    <2>1. /\ DOMAIN wire' = DOMAIN wire \cup {Len(wire) + 1}
          /\ \A k \in DOMAIN wire : wire'[k] = wire[k]
          /\ wire'[Len(wire) + 1] = r
          /\ Len(wire) + 1 \notin DOMAIN wire
      BY <1>3, AppendFacts DEF Sends, Types
    <2>2. \A k \in DOMAIN wire : wire[k] # r /\ wire[k] \in Reqs
      BY <1>3 DEF WireInv, Sends, Underway, Types
    <2>3. pc'[r] \in Underway /\ \A s \in Reqs : s # r => pc'[s] = pc[s]
      BY <1>3 DEF Sends, Types
    <2>4. QED
      BY <2>1, <2>2, <2>3 DEF WireInv, Underway
  <1>4. ASSUME NEW r \in Reqs, IsTaken(r)
        PROVE  WireInv'
    <2>1. /\ Len(wire) \in Nat \ {0} /\ r = wire[1]
          /\ DOMAIN wire = 1..Len(wire) /\ DOMAIN wire' = 1..(Len(wire) - 1)
          /\ \A k \in DOMAIN wire' : wire'[k] = wire[k + 1]
      BY <1>4, TailFacts DEF IsTaken, Types
    <2>2. ASSUME NEW k \in DOMAIN wire'
          PROVE  k + 1 \in DOMAIN wire /\ wire'[k] # r /\ wire'[k] \in Reqs
      <3>1. k + 1 \in DOMAIN wire /\ 1 \in DOMAIN wire /\ k + 1 # 1
        BY <2>1
      <3>2. wire[k + 1] # wire[1] /\ wire[k + 1] \in Reqs
        BY <3>1 DEF WireInv, Types
      <3>3. QED
        BY <2>1, <3>1, <3>2
    <2>3. pc'[r] \notin Underway /\ \A s \in Reqs : s # r => pc'[s] = pc[s]
      BY <1>4 DEF IsTaken, Types
    <2>4. \A j, k \in DOMAIN wire' : wire'[j] = wire'[k] => j = k
      BY <2>1, <2>2 DEF WireInv
    <2>5. \A k \in DOMAIN wire' : pc'[wire'[k]] \in {"sent", "conf"}
      BY <2>1, <2>2, <2>3 DEF WireInv
    <2>6. ASSUME NEW q \in Reqs, pc'[q] = "sent"
          PROVE  \E k \in DOMAIN wire' : wire'[k] = q
      <3>1. q # r /\ pc[q] = "sent"
        BY <2>3, <2>6 DEF Underway
      <3>2. PICK k \in DOMAIN wire : wire[k] = q
        BY <3>1 DEF WireInv
      <3>3. k - 1 \in DOMAIN wire' /\ k - 1 + 1 = k
        BY <2>1, <3>1, <3>2
      <3>4. QED
        BY <2>1, <3>2, <3>3
    <2>7. QED
      BY <2>4, <2>5, <2>6 DEF WireInv
  <1>5. QED
    BY <1>1, <1>2, <1>3, <1>4, MovesFacts
\* The same for the answers: a request neither has one nor gets one, is
\* answered, or is told.
Silent(r) == /\ back' = back /\ pc[r] \notin Replied
             /\ \E s : s \notin Replied /\ pc' = [pc EXCEPT ![r] = s]
Replies(r) == /\ back' = Append(back, r) /\ pc[r] \notin Replied
              /\ \E s \in Replied : pc' = [pc EXCEPT ![r] = s]
IsTold(r) == /\ back # <<>> /\ r = Head(back) /\ back' = Tail(back)
             /\ \E s : s \notin Replied /\ pc' = [pc EXCEPT ![r] = s]
Turns(r) == Silent(r) \/ Replies(r) \/ IsTold(r)

LEMMA TurnsFacts ==
    ASSUME NEW r \in Reqs, Web(r) \/ Agent(r)
    PROVE  Turns(r)
  <1> USE DEF Goes, Replied, Turns
  <1>1. ASSUME NEW p \in Paths, create_share(r, p)
        PROVE  Turns(r)
    BY <1>1 DEF create_share, Starts, Silent
  <1>2. ASSUME NEW i \in Ids, NEW files \in BOOLEAN, delete_share(r, i, files)
        PROVE  Turns(r)
    BY <1>2 DEF delete_share, Starts, Silent
  <1>3. ASSUME NEW i \in Ids, NEW perms \in PermLists, NEW recursive \in BOOLEAN,
               set_share_permissions(r, i, perms, recursive)
        PROVE  Turns(r)
    BY <1>3 DEF set_share_permissions, Starts, Silent
  <1>4. CASE Commit(r)
    BY <1>4 DEF Commit, TakesAnswer, IsTold
  <1>5. CASE GivesUp(r)
    BY <1>5 DEF GivesUp, TakesAnswer, Ends, IsTold
  <1>6. CASE Return(r)
    BY <1>6 DEF Return, TakesAnswer, Ends, IsTold
  <1>7. CASE create(r) \/ delete(r) \/ SubmitJob(r)
    BY <1>7 DEF create, delete, SubmitJob, Takes, Answers, Replies
  <1>8. CASE SetNow(r)
    BY <1>8 DEF SetNow, Takes, Silent
  <1>9. CASE AclReset(r)
    BY <1>9 DEF AclReset, Silent
  <1>10. CASE AclModify(r) \/ AclFails(r)
    BY <1>10 DEF AclModify, AclFails, Answers, Replies
  <1>11. CASE WriteConf(r)
    BY <1>11 DEF WriteConf, Silent
  <1>12. CASE ConfApplied(r) \/ ConfFails(r)
    BY <1>12 DEF ConfApplied, ConfFails, Answers, Replies
  <1>13. CASE Unserved(r)
    BY <1>13 DEF Unserved, Answers, Replies
  <1>14. QED
    BY <1>1, <1>2, <1>3, <1>4, <1>5, <1>6, <1>7, <1>8, <1>9, <1>10, <1>11, <1>12, <1>13
    DEF Web, Agent

\* Where the answers of the others are after a step, and in which order.
LEMMA BackFacts ==
    ASSUME Types, BackInv, NEW r \in Reqs, Turns(r)
    PROVE  /\ \A q \in Reqs : q # r => pc'[q] = pc[q]
           /\ \A k \in DOMAIN back : back[k] \in Reqs
           /\ \A j, k \in DOMAIN back : j < k /\ back[j] # r =>
                /\ back[k] # r
                /\ \E m, n \in DOMAIN back' : m < n /\ back'[m] = back[j] /\ back'[n] = back[k]
  <1>1. \A q \in Reqs : q # r => pc'[q] = pc[q]
    BY DEF Turns, Silent, Replies, IsTold, Types
  <1>2. \A k \in DOMAIN back : back[k] \in Reqs
    BY DEF Types
  <1>3. pc[r] \notin Replied => \A k \in DOMAIN back : back[k] # r
    BY DEF BackInv
  <1>4. CASE Silent(r)
    BY <1>1, <1>2, <1>3, <1>4 DEF Silent
  <1>5. CASE Replies(r)
    <2>1. /\ DOMAIN back \subseteq DOMAIN back'
          /\ \A k \in DOMAIN back : back'[k] = back[k]
      BY <1>5, AppendFacts DEF Replies, Types
    <2>2. pc[r] \notin Replied
      BY <1>5 DEF Replies
    <2>3. QED
      BY <1>1, <1>2, <1>3, <2>1, <2>2
  <1>6. CASE IsTold(r)
    <2>1. /\ Len(back) \in Nat \ {0} /\ r = back[1] /\ 1 \in DOMAIN back
          /\ DOMAIN back = 1..Len(back) /\ DOMAIN back' = 1..(Len(back) - 1)
          /\ \A k \in DOMAIN back' : back'[k] = back[k + 1]
      BY <1>6, TailFacts DEF IsTold, Types
    <2>2. ASSUME NEW j \in DOMAIN back, NEW k \in DOMAIN back, j < k, back[j] # r
          PROVE  /\ back[k] # r
                 /\ \E m, n \in DOMAIN back' : m < n /\ back'[m] = back[j] /\ back'[n] = back[k]
      <3>1. j # 1 /\ k # 1
        BY <2>1, <2>2
      <3>2. back[k] # r
        BY <2>1, <3>1 DEF BackInv
      <3>3. /\ j - 1 \in DOMAIN back' /\ k - 1 \in DOMAIN back' /\ j - 1 < k - 1
            /\ (j - 1) + 1 = j /\ (k - 1) + 1 = k
        BY <2>1, <2>2, <3>1
      <3>4. back'[j - 1] = back[j] /\ back'[k - 1] = back[k]
        BY <2>1, <3>3
      <3>5. QED
        BY <3>2, <3>3, <3>4
    <2>3. QED
      BY <1>1, <1>2, <2>2
  <1>7. QED
    BY <1>4, <1>5, <1>6 DEF Turns

LEMMA BackTurns ==
    ASSUME Types, BackInv, NEW r \in Reqs, Turns(r)
    PROVE  BackInv'
  <1>1. CASE Silent(r)
    BY <1>1 DEF BackInv, Silent, Types, Replied
  <1>2. CASE Replies(r)
    <2>1. /\ DOMAIN back' = DOMAIN back \cup {Len(back) + 1}
          /\ \A k \in DOMAIN back : back'[k] = back[k]
          /\ back'[Len(back) + 1] = r
          /\ Len(back) + 1 \notin DOMAIN back
      BY <1>2, AppendFacts DEF Replies, Types
    <2>2. \A k \in DOMAIN back : back[k] # r /\ back[k] \in Reqs
      BY <1>2 DEF BackInv, Replies, Types
    <2>3. pc'[r] \in Replied /\ \A s \in Reqs : s # r => pc'[s] = pc[s]
      BY <1>2 DEF Replies, Types
    <2>4. QED
      BY <2>1, <2>2, <2>3 DEF BackInv
  <1>3. CASE IsTold(r)
    <2>1. /\ Len(back) \in Nat \ {0} /\ r = back[1]
          /\ DOMAIN back = 1..Len(back) /\ DOMAIN back' = 1..(Len(back) - 1)
          /\ \A k \in DOMAIN back' : back'[k] = back[k + 1]
      BY <1>3, TailFacts DEF IsTold, Types
    <2>2. ASSUME NEW k \in DOMAIN back'
          PROVE  k + 1 \in DOMAIN back /\ back'[k] # r /\ back'[k] \in Reqs
      <3>1. k + 1 \in DOMAIN back /\ 1 \in DOMAIN back /\ k + 1 # 1
        BY <2>1
      <3>2. back[k + 1] # back[1] /\ back[k + 1] \in Reqs
        BY <3>1 DEF BackInv, Types
      <3>3. QED
        BY <2>1, <3>1, <3>2
    <2>3. pc'[r] \notin Replied /\ \A s \in Reqs : s # r => pc'[s] = pc[s]
      BY <1>3 DEF IsTold, Types
    <2>4. \A j, k \in DOMAIN back' : back'[j] = back'[k] => j = k
      BY <2>1, <2>2 DEF BackInv
    <2>5. \A k \in DOMAIN back' : pc'[back'[k]] \in Replied
      BY <2>1, <2>2, <2>3 DEF BackInv
    <2>6. ASSUME NEW q \in Reqs, pc'[q] = "answered"
          PROVE  \E k \in DOMAIN back' : back'[k] = q
      <3>1. q # r /\ pc[q] = "answered"
        BY <2>3, <2>6 DEF Replied
      <3>2. PICK k \in DOMAIN back : back[k] = q
        BY <3>1 DEF BackInv
      <3>3. k - 1 \in DOMAIN back' /\ k - 1 + 1 = k
        BY <2>1, <3>1, <3>2
      <3>4. QED
        BY <2>1, <3>2, <3>3
    <2>7. QED
      BY <2>4, <2>5, <2>6 DEF BackInv
  <1>4. QED
    BY <1>1, <1>2, <1>3 DEF Turns

LEMMA BackStep ==
    ASSUME Types, BackInv, [Next]_vars
    PROVE  BackInv'
  <1>1. CASE UNCHANGED <<back, pc>>
    BY <1>1 DEF BackInv
  <1>2. ASSUME NEW p \in Paths, Job(p)
        PROVE  UNCHANGED <<back, pc>>
    BY <1>2 DEF Job, JobReset, JobModify, JobFails
  <1>3. Renames \/ UNCHANGED vars => UNCHANGED <<back, pc>>
    BY DEF Renames, delete_user, create_user, vars
  <1>4. QED
    BY <1>1, <1>2, <1>3, TurnsFacts, BackTurns DEF Next, Renames
-----------------------------------------------------------------------------
(* The tables and nasos.conf.                                               *)

\* Only a commit changes the tables.
LEMMA TablesFacts ==
    ASSUME [Next]_vars
    PROVE  UNCHANGED <<rows, table, asOf>> \/ \E r \in Reqs : Commit(r)
  <1>1. ASSUME NEW r \in Reqs, Web(r)
        PROVE  UNCHANGED <<rows, table, asOf>> \/ Commit(r)
    BY <1>1 DEF Web, create_share, delete_share, set_share_permissions, GivesUp, Return, dbVars
  <1>2. ASSUME NEW r \in Reqs, Agent(r)
        PROVE  UNCHANGED <<rows, table, asOf>>
    BY <1>2 DEF Agent, Unserved, create, delete, SubmitJob, SetNow, AclReset, AclModify, AclFails,
       WriteConf, ConfApplied, ConfFails, dbVars
  <1>3. ASSUME NEW p \in Paths, Job(p)
        PROVE  UNCHANGED <<rows, table, asOf>>
    BY <1>3 DEF Job, JobReset, JobModify, JobFails, dbVars
  <1>4. Renames => UNCHANGED <<rows, table, asOf>>
    BY DEF Renames, delete_user, create_user, dbVars
  <1>5. QED
    BY <1>1, <1>2, <1>3, <1>4 DEF Next, Renames, vars, dbVars

\* Which directories are missed.
LEMMA StrippedFacts ==
    ASSUME Types, [Next]_vars
    PROVE  \/ stripped' = stripped
           \/ \E r \in Reqs : /\ Commit(r) \/ GivesUp(r)
                              /\ stripped' \subseteq Listed'
  <1>1. ASSUME NEW r \in Reqs, Web(r)
        PROVE  \/ stripped' = stripped
               \/ (Commit(r) \/ GivesUp(r)) /\ stripped' \subseteq Listed'
    <2>1. CASE GivesUp(r)
      <3>1. stripped' \subseteq Listed /\ rows' = rows
        BY <2>1 DEF GivesUp, dbVars
      <3>2. Listed' = Listed
        BY <3>1 DEF Listed, Live
      <3>3. QED
        BY <2>1, <3>1, <3>2
    <2>2. CASE Commit(r)
      BY <2>2 DEF Commit
    <2>3. CASE ~GivesUp(r) /\ ~Commit(r)
      BY <1>1, <2>3 DEF Web, create_share, delete_share, set_share_permissions, Return, aclVars
    <2>4. QED
      BY <2>1, <2>2, <2>3
  <1>2. ASSUME NEW r \in Reqs, Agent(r)
        PROVE  stripped' = stripped
    BY <1>2 DEF Agent, Unserved, create, delete, SubmitJob, SetNow, AclReset, AclModify,
       AclFails, WriteConf, ConfApplied, ConfFails, aclVars
  <1>3. ASSUME NEW p \in Paths, Job(p)
        PROVE  stripped' = stripped
    BY <1>3 DEF Job, JobReset, JobModify, JobFails
  <1>4. Renames \/ UNCHANGED vars => stripped' = stripped
    BY DEF Renames, delete_user, create_user, vars, aclVars
  <1>5. QED
    BY <1>1, <1>2, <1>3, <1>4 DEF Next, Renames

\* What a commit does to the tables, by the kind of the request.
LEMMA CommitFacts ==
    ASSUME Types, RowInv, ReqInv, NEW r \in Reqs, Commit(r)
    PROVE  /\ pc[r] = "answered" /\ r \in Busy
           /\ req[r].op = "create" =>
                /\ table' = table /\ asOf' = asOf /\ NextId \notin Live
                /\ \A i \in Ids : rows'[i] = IF i = NextId THEN req[r].path ELSE rows[i]
                /\ \A i \in Live : rows[i][2] # req[r].path[2]
           /\ req[r].op = "delete" =>
                /\ \A i \in Ids : rows'[i] = IF i = req[r].id THEN NoRow ELSE rows[i]
                /\ \A i \in Ids : table'[i] = IF i = req[r].id THEN Nobody ELSE table[i]
                /\ asOf' = asOf
           /\ req[r].op = "set" =>
                /\ rows' = rows
                /\ \A i \in Ids : table'[i] = IF i = req[r].id /\ i \in Live THEN req[r].perms
                                                                          ELSE table[i]
                /\ req[r].id \notin Live => req[r].perms = Nobody /\ asOf' = asOf
                /\ req[r].id \in Live =>
                     asOf' = [asOf EXCEPT ![rows[req[r].id]] = req[r].as]
  <1>1. pc[r] = "answered" /\ r \in Busy
    BY DEF Commit, TakesAnswer, Busy
  <1>2. Commits(r)
    BY DEF Commit
  <1>3. rows \in [Ids -> Paths \cup {NoRow}] /\ table \in [Ids -> PermLists]
    BY DEF Types
  <1>4. CASE req[r].op = "create"
    BY <1>1, <1>2, <1>3, <1>4, NextIdIsFree DEF Commits, NameTaken
  <1>5. CASE req[r].op = "delete"
    BY <1>1, <1>2, <1>3, <1>5 DEF Commits, RowsLeft
  <1>6. CASE req[r].op = "set"
    BY <1>1, <1>2, <1>3, <1>6 DEF Commits, Dangling
  <1>7. QED
    BY <1>1, <1>4, <1>5, <1>6

LEMMA RowStep ==
    ASSUME Types, RowInv, ReqInv, [Next]_vars
    PROVE  RowInv'
  <1> DEFINE TablesInv == /\ \A i, j \in Live : rows[i][2] = rows[j][2] => i = j
                          /\ \A i \in Ids : rows[i] = NoRow => table[i] = Nobody
  <1>1. ASSUME UNCHANGED <<rows, table>>
        PROVE  TablesInv'
    BY <1>1 DEF RowInv, Live
  <1>2. ASSUME NEW r \in Reqs, Commit(r)
        PROVE  TablesInv'
    <2>1. req[r].op \in {"create", "delete", "set"} /\ req[r].path \in Paths
      BY RequestsFacts DEF Types
    <2>2. CASE req[r].op = "create"
      <3>1. /\ table' = table /\ \A i \in Live : rows[i][2] # req[r].path[2]
            /\ \A i \in Ids : rows'[i] = IF i = NextId THEN req[r].path ELSE rows[i]
        BY <1>2, <2>2, CommitFacts
      <3>2. req[r].path # NoRow
        BY <2>1, NoneAssumption
      <3>3. QED
        BY <3>1, <3>2 DEF RowInv, Live
    <2>3. CASE req[r].op = "delete"
      BY <1>2, <2>3, CommitFacts DEF RowInv, Live
    <2>4. CASE req[r].op = "set"
      BY <1>2, <2>4, CommitFacts DEF RowInv, Live
    <2>5. QED
      BY <2>1, <2>2, <2>3, <2>4
  <1>3. TablesInv'
    BY <1>1, <1>2, TablesFacts DEF RowInv
  <1>4. stripped' \subseteq Listed'
    <2>1. CASE stripped' = stripped /\ rows' = rows
      BY <2>1 DEF RowInv, Listed, Live
    <2>2. ASSUME NEW r \in Reqs, Commit(r)
          PROVE  stripped' \subseteq Listed'
      BY <2>2 DEF Commit
    <2>3. QED
      BY <2>1, <2>2, TablesFacts, StrippedFacts
  <1>5. QED
    BY <1>3, <1>4 DEF RowInv

LEMMA ReqStep ==
    ASSUME Types, ReqInv, [Next]_vars
    PROVE  ReqInv'
  <1> USE DEF ReqInv, Types, Busy, Goes
  <1>1. ASSUME NEW r \in Reqs, Web(r)
        PROVE  ReqInv'
    <2>1. ASSUME NEW p \in Paths, create_share(r, p)
          PROVE  ReqInv'
      BY <2>1 DEF create_share, Requests
    <2>2. ASSUME NEW i \in Ids, NEW files \in BOOLEAN, delete_share(r, i, files)
          PROVE  ReqInv'
      BY <2>2 DEF delete_share, Requests
    <2>3. ASSUME NEW i \in Ids, NEW perms \in PermLists, NEW recursive \in BOOLEAN,
                 set_share_permissions(r, i, perms, recursive)
          PROVE  ReqInv'
      BY <2>3 DEF set_share_permissions
    <2>4. CASE Commit(r)
      BY <2>4 DEF Commit, TakesAnswer
    <2>5. CASE GivesUp(r) \/ Return(r)
      BY <2>5 DEF GivesUp, Return, Ends
    <2>6. QED
      BY <1>1, <2>1, <2>2, <2>3, <2>4, <2>5 DEF Web
  <1>2. ASSUME NEW r \in Reqs, Agent(r)
        PROVE  ReqInv'
    <2>10. CASE Unserved(r)
      <3>1. req' = req /\ (Goes(r, "refused") \/ Goes(r, "ended")) /\ r \in Busy
        BY <2>10 DEF Unserved, Answers
      <3>2. \A q \in Reqs : pc'[q] = pc[q] \/ (q \in Busy /\ pc'[q] \in {"refused", "ended"})
        BY <3>1
      <3>3. QED
        BY <3>1, <3>2
    <2>1. CASE create(r)
      <3>1. /\ pc[r] = "sent" /\ req' = req
            /\ Goes(r, "refused") \/ Goes(r, "answered")
        BY <2>1 DEF create, Takes, Answers
      <3>2. \A q \in Reqs : pc'[q] = pc[q] \/ (pc[q] = "sent" /\ pc'[q] \in {"refused", "answered"})
        BY <3>1
      <3>3. QED
        BY <3>1, <3>2
    <2>7. CASE delete(r)
      BY <2>7 DEF delete, Takes, Answers
    <2>8. CASE SubmitJob(r)
      BY <2>8 DEF SubmitJob, Takes, Answers
    <2>2. CASE SetNow(r)
      BY <2>2 DEF SetNow, Takes
    <2>3. CASE AclReset(r)
      BY <2>3 DEF AclReset
    <2>4. CASE AclModify(r) \/ AclFails(r)
      BY <2>4 DEF AclModify, AclFails, Answers
    <2>5. CASE WriteConf(r)
      BY <2>5 DEF WriteConf
    <2>9. CASE ConfApplied(r) \/ ConfFails(r)
      BY <2>9 DEF ConfApplied, ConfFails, Answers
    <2>6. QED
      BY <1>2, <2>1, <2>2, <2>3, <2>4, <2>5, <2>7, <2>8, <2>9, <2>10 DEF Agent
  <1>3. ASSUME NEW p \in Paths, Job(p)
        PROVE  ReqInv'
    BY <1>3 DEF Job, JobReset, JobModify, JobFails
  <1>4. CASE Renames \/ UNCHANGED vars
    BY <1>4 DEF Renames, delete_user, create_user, vars
  <1>5. QED
    BY <1>1, <1>2, <1>3, <1>4 DEF Next, Renames

\* A step of a request that neither sends nor writes a rendering, and does
\* not restore one.
Elsewhere(r) ==
    /\ UNCHANGED <<rows, table, conf, confFailed>>
    /\ \A s \in Reqs \ {r} : rendering'[s] = rendering[s]
    /\ pc[r] # "conf" /\ pc'[r] # "conf"

LEMMA ConfSteps ==
    ASSUME Types, [Next]_vars
    PROVE  \/ UNCHANGED <<rows, table, conf, confFailed, rendering, wire, pc>>
           \/ \E r \in Reqs : /\ Stays(r) \/ Sends(r) \/ IsTaken(r)
                              /\ \/ Commit(r) \/ WriteConf(r) \/ ConfFails(r)
                                 \/ Unserved(r) \/ Elsewhere(r)
  <1> USE DEF Goes, Underway, Types
  <1>1. ASSUME NEW r \in Reqs, Web(r)
        PROVE  (Stays(r) \/ Sends(r)) /\ (Commit(r) \/ Elsewhere(r))
    <2>1. ASSUME NEW p \in Paths, create_share(r, p)
          PROVE  Sends(r) /\ Elsewhere(r)
      BY <2>1 DEF create_share, Starts, Sends, Elsewhere, dbVars, confVars
    <2>2. ASSUME NEW i \in Ids, NEW files \in BOOLEAN, delete_share(r, i, files)
          PROVE  Sends(r) /\ Elsewhere(r)
      BY <2>2 DEF delete_share, Starts, Sends, Elsewhere, dbVars, confVars
    <2>3. ASSUME NEW i \in Ids, NEW perms \in PermLists, NEW recursive \in BOOLEAN,
                 set_share_permissions(r, i, perms, recursive)
          PROVE  Sends(r) /\ Elsewhere(r)
      BY <2>3 DEF set_share_permissions, Starts, Sends, Elsewhere, dbVars, confVars
    <2>4. CASE Commit(r)
      BY <2>4 DEF Commit, TakesAnswer, Sends
    <2>5. CASE GivesUp(r)
      BY <2>5 DEF GivesUp, TakesAnswer, Ends, Stays, Elsewhere, dbVars
    <2>6. CASE Return(r)
      BY <2>6 DEF Return, TakesAnswer, Ends, Stays, Elsewhere, dbVars
    <2>7. QED
      BY <1>1, <2>1, <2>2, <2>3, <2>4, <2>5, <2>6 DEF Web
  <1>2. ASSUME NEW r \in Reqs, Agent(r)
        PROVE  /\ Stays(r) \/ IsTaken(r)
               /\ WriteConf(r) \/ ConfFails(r) \/ Unserved(r) \/ Elsewhere(r)
    <2>1. CASE create(r)
      BY <2>1 DEF create, Takes, Answers, IsTaken, Elsewhere, dbVars, confVars
    <2>2. CASE delete(r)
      BY <2>2 DEF delete, Takes, Answers, IsTaken, Elsewhere, dbVars, confVars
    <2>3. CASE SubmitJob(r)
      BY <2>3 DEF SubmitJob, Takes, Answers, IsTaken, Elsewhere, dbVars, confVars
    <2>4. CASE SetNow(r)
      BY <2>4 DEF SetNow, Takes, IsTaken, Elsewhere, dbVars, confVars
    <2>5. CASE AclReset(r)
      BY <2>5 DEF AclReset, Stays, Elsewhere, dbVars, confVars
    <2>6. CASE AclModify(r)
      BY <2>6 DEF AclModify, Answers, Stays, Elsewhere, dbVars, confVars
    <2>7. CASE AclFails(r)
      BY <2>7 DEF AclFails, Answers, Stays, Elsewhere, dbVars, confVars
    <2>8. CASE WriteConf(r)
      BY <2>8 DEF WriteConf, IsTaken
    <2>9. CASE ConfApplied(r)
      BY <2>9 DEF ConfApplied, Answers, Stays, Elsewhere, dbVars, confVars
    <2>10. CASE ConfFails(r)
      BY <2>10 DEF ConfFails, Answers, Stays
    <2>11. CASE Unserved(r)
      BY <2>11 DEF Unserved, Answers, IsTaken
    <2>12. QED
      BY <1>2, <2>1, <2>2, <2>3, <2>4, <2>5, <2>6, <2>7, <2>8, <2>9, <2>10, <2>11 DEF Agent
  <1>3. ASSUME NEW p \in Paths, Job(p)
        PROVE  UNCHANGED <<rows, table, conf, confFailed, rendering, wire, pc>>
    BY <1>3 DEF Job, JobReset, JobModify, JobFails, dbVars, confVars
  <1>4. CASE Renames \/ UNCHANGED vars
    BY <1>4 DEF Renames, delete_user, create_user, vars, dbVars, confVars
  <1>5. QED
    BY <1>1, <1>2, <1>3, <1>4 DEF Next, Renames

\* nasos.conf is, or will be, what the tables render to.
LEMMA ConfStep ==
    ASSUME Types, WireInv, ConfInv, [Next]_vars
    PROVE  ConfInv'
  <1>1. CASE UNCHANGED <<rows, table, conf, confFailed, rendering, wire, pc>>
    BY <1>1 DEF ConfInv, Waiting, Rendered
  <1>2. ASSUME NEW r \in Reqs, Sends(r)
        PROVE  /\ \A k \in Waiting : k \in DOMAIN wire' /\ wire'[k] = wire[k] /\ wire[k] # r
                                     /\ wire[k] \in Reqs /\ k < Len(wire) + 1
               /\ Len(wire) + 1 \in DOMAIN wire' /\ wire'[Len(wire) + 1] = r
               /\ pc'[r] = "conf" => Waiting' = Waiting \cup {Len(wire) + 1}
               /\ pc'[r] # "conf" => Waiting' = Waiting
    <2>1. /\ DOMAIN wire' = DOMAIN wire \cup {Len(wire) + 1}
          /\ \A k \in DOMAIN wire : wire'[k] = wire[k] /\ k \in 1..Len(wire)
          /\ wire'[Len(wire) + 1] = r /\ Len(wire) \in Nat
          /\ Len(wire) + 1 \notin DOMAIN wire
      BY <1>2, AppendFacts DEF Sends, Types
    <2>2. /\ pc[r] # "conf" /\ \A s \in Reqs : s # r => pc'[s] = pc[s]
          /\ \A k \in DOMAIN wire : wire[k] \in Reqs
      BY <1>2 DEF Sends, Underway, Types
    <2>3. \A k \in DOMAIN wire : wire[k] # r
      BY <1>2 DEF WireInv, Sends, Underway
    <2>4. \A k \in DOMAIN wire : pc'[wire'[k]] = pc[wire[k]] /\ k < Len(wire) + 1
      BY <2>1, <2>2, <2>3
    <2>5. QED
      BY <2>1, <2>2, <2>3, <2>4 DEF Waiting
  <1>3. ASSUME NEW r \in Reqs, IsTaken(r)
        PROVE  /\ \A k \in Waiting' : k + 1 \in Waiting /\ wire'[k] = wire[k + 1]
                                      /\ wire[k + 1] # r /\ wire[k + 1] \in Reqs
               /\ \A k \in Waiting : k = 1 \/ k - 1 \in Waiting'
               /\ Waiting \subseteq Nat /\ Waiting' \subseteq Nat
               /\ wire[1] = r
               /\ \A k \in Waiting' : k >= 1
    <2>1. /\ Len(wire) \in Nat \ {0} /\ r = wire[1] /\ 1 \in DOMAIN wire
          /\ DOMAIN wire = 1..Len(wire) /\ DOMAIN wire' = 1..(Len(wire) - 1)
          /\ \A k \in DOMAIN wire' : wire'[k] = wire[k + 1]
          /\ \A k \in DOMAIN wire : wire[k] \in Reqs
      BY <1>3, TailFacts DEF IsTaken, Types
    <2>2. \A k \in DOMAIN wire : k # 1 => wire[k] # r
      BY <2>1 DEF WireInv
    <2>3. \A s \in Reqs : s # r => pc'[s] = pc[s]
      BY <1>3 DEF IsTaken, Types
    <2>4. \A k \in DOMAIN wire' : k + 1 \in DOMAIN wire /\ k + 1 # 1
      BY <2>1
    <2>5. \A k \in DOMAIN wire' : pc'[wire'[k]] = pc[wire[k + 1]] /\ wire[k + 1] # r
      BY <2>1, <2>2, <2>3, <2>4
    <2>6. ASSUME NEW k \in Waiting, k # 1
          PROVE  k - 1 \in Waiting'
      <3>1. k - 1 \in DOMAIN wire' /\ (k - 1) + 1 = k
        BY <2>1, <2>6 DEF Waiting
      <3>2. pc'[wire'[k - 1]] = pc[wire[k]]
        BY <2>5, <3>1
      <3>3. QED
        BY <2>6, <3>1, <3>2 DEF Waiting
    <2>7. QED
      BY <2>1, <2>4, <2>5, <2>6 DEF Waiting
  <1>4. ASSUME NEW r \in Reqs, Elsewhere(r), Stays(r)
        PROVE  ConfInv'
    <2>1. Waiting' = Waiting /\ wire' = wire /\ \A k \in Waiting : wire[k] # r /\ wire[k] \in Reqs
      BY <1>4 DEF Stays, Elsewhere, Waiting, Types, Underway
    <2>2. \A k \in Waiting : rendering'[wire[k]] = rendering[wire[k]]
      BY <1>4, <2>1 DEF Elsewhere
    <2>3. confFailed' = confFailed /\ conf' = conf /\ Rendered(rows, table)' = Rendered(rows, table)
      BY <1>4 DEF Elsewhere, Rendered
    <2>4. QED
      BY <2>1, <2>2, <2>3 DEF ConfInv
  <1>5. ASSUME NEW r \in Reqs, Elsewhere(r), Sends(r)
        PROVE  ConfInv'
    <2>1. Waiting' = Waiting /\ \A k \in Waiting : wire'[k] = wire[k] /\ wire[k] # r /\ wire[k] \in Reqs
      BY <1>2, <1>5 DEF Elsewhere
    <2>2. \A k \in Waiting : rendering'[wire'[k]] = rendering[wire[k]]
      BY <1>5, <2>1 DEF Elsewhere
    <2>3. confFailed' = confFailed /\ conf' = conf /\ Rendered(rows, table)' = Rendered(rows, table)
      BY <1>5 DEF Elsewhere, Rendered
    <2>4. QED
      BY <2>1, <2>2, <2>3 DEF ConfInv
  <1>6. ASSUME NEW r \in Reqs, IsTaken(r), confFailed' = confFailed,
               UNCHANGED <<rows, table>>,
               \A s \in Reqs \ {r} : rendering'[s] = rendering[s],
               \/ pc[r] # "conf" /\ conf' = conf
               \/ pc[r] = "conf" /\ conf' = rendering[r]
        PROVE  ConfInv'
    <2>1. Rendered(rows, table)' = Rendered(rows, table)
      BY <1>6 DEF Rendered
    <2>2. SUFFICES ASSUME ~confFailed
                   PROVE  /\ Waiting' = {} => conf' = Rendered(rows, table)
                          /\ \A k \in Waiting' : (\A j \in Waiting' : j <= k) =>
                               rendering'[wire'[k]] = Rendered(rows, table)
      BY <1>6, <2>1 DEF ConfInv
    <2>3. ASSUME NEW k \in Waiting', \A j \in Waiting' : j <= k
          PROVE  rendering'[wire'[k]] = Rendered(rows, table)
      <3>1. k + 1 \in Waiting /\ wire'[k] = wire[k + 1] /\ wire[k + 1] # r /\ wire[k + 1] \in Reqs
        BY <1>3, <1>6
      <3>2. ASSUME NEW j \in Waiting PROVE j <= k + 1
        <4>1. CASE j = 1
          BY <1>3, <1>6, <4>1
        <4>2. CASE j # 1
          <5>1. j - 1 \in Waiting'
            BY <1>3, <1>6, <4>2
          <5>2. j - 1 <= k /\ j \in Nat /\ k \in Nat
            BY <1>3, <1>6, <2>3, <5>1
          <5>3. QED
            BY <5>2
        <4>3. QED
          BY <4>1, <4>2
      <3>3. rendering[wire[k + 1]] = Rendered(rows, table)
        BY <2>2, <3>1, <3>2 DEF ConfInv
      <3>4. QED
        BY <1>6, <3>1, <3>3
    <2>4. ASSUME Waiting' = {}
          PROVE  conf' = Rendered(rows, table)
      <3>1. \A k \in Waiting : k = 1
        BY <1>3, <1>6, <2>4
      <3>2. wire # <<>> /\ 1 \in DOMAIN wire /\ wire[1] = r
        BY <1>6, TailFacts DEF IsTaken, Types
      <3>3. CASE pc[r] # "conf"
        <4>1. Waiting = {}
          BY <3>1, <3>2, <3>3 DEF Waiting
        <4>2. QED
          BY <1>6, <2>2, <3>3, <4>1 DEF ConfInv
      <3>4. CASE pc[r] = "conf"
        <4>1. 1 \in Waiting /\ \A j \in Waiting : j <= 1
          BY <3>1, <3>2, <3>4 DEF Waiting
        <4>2. rendering[wire[1]] = Rendered(rows, table)
          BY <2>2, <4>1 DEF ConfInv
        <4>3. QED
          BY <1>6, <3>2, <3>4, <4>2
      <3>5. QED
        BY <3>3, <3>4
    <2>5. QED
      BY <2>3, <2>4
  <1>7. ASSUME NEW r \in Reqs, Commit(r)
        PROVE  ConfInv'
    <2>1. Sends(r)
      BY <1>7 DEF Commit, Sends, Goes, TakesAnswer, Underway
    <2>2. pc'[r] = "conf" /\ rendering'[r] = Rendered(rows, table)'
      BY <1>7 DEF Commit, Goes, Types, RenderedAtCommit
    <2>3. Waiting' = Waiting \cup {Len(wire) + 1} /\ wire'[Len(wire) + 1] = r
          /\ \A k \in Waiting : k < Len(wire) + 1
      BY <1>2, <2>1, <2>2
    <2>4. \A k \in Waiting' : (\A j \in Waiting' : j <= k) => k = Len(wire) + 1
      <3>1. Len(wire) \in Nat /\ Waiting \subseteq Nat
        BY DEF Types, Waiting
      <3>2. QED
        BY <2>3, <3>1
    <2>5. QED
      BY <2>2, <2>3, <2>4 DEF ConfInv
  <1>8. ASSUME NEW r \in Reqs, WriteConf(r)
        PROVE  ConfInv'
    <2>1. IsTaken(r)
      BY <1>8 DEF WriteConf, IsTaken, Goes, Underway
    <2>2. QED
      BY <1>6, <1>8, <2>1 DEF WriteConf, dbVars
  <1>9. ASSUME NEW r \in Reqs, ConfFails(r)
        PROVE  ConfInv'
    BY <1>9 DEF ConfFails, ConfInv
  <1>10. ASSUME NEW r \in Reqs, Elsewhere(r), IsTaken(r)
         PROVE  ConfInv'
    BY <1>6, <1>10 DEF Elsewhere
  <1>11. ASSUME NEW r \in Reqs, Unserved(r)
         PROVE  ConfInv'
    <2>1. IsTaken(r)
      BY <1>11 DEF Unserved, Answers, Goes, IsTaken, Underway
    <2>2. CASE pc[r] = "conf"
      BY <1>11, <2>2 DEF Unserved, ConfInv
    <2>3. CASE pc[r] = "sent"
      BY <1>6, <1>11, <2>1, <2>3 DEF Unserved, dbVars
    <2>4. QED
      BY <1>11, <2>2, <2>3 DEF Unserved
  <1>12. QED
    BY <1>1, <1>4, <1>5, <1>7, <1>8, <1>9, <1>10, <1>11, ConfSteps

\* The peak bounds the requests under way.
LEMMA PeakStep ==
    ASSUME Types, PeakInv, [Next]_vars
    PROVE  PeakInv' /\ peak <= peak'
  <1>1. peak \in Nat
    BY MaxParallelAssumption DEF Types
  <1>2. ASSUME NEW r \in Reqs, Starts(r), pc' = [pc EXCEPT ![r] = "sent"], jobs' = jobs
        PROVE  PeakInv' /\ peak <= peak'
    <2>1. Busy' \subseteq Busy \cup {r} /\ Jobbed' = Jobbed
      BY <1>2 DEF Busy, Jobbed, Types
    <2>2. /\ peak' \in Nat /\ peak <= peak'
          /\ peak' <= 1 => Busy = {} /\ Jobbed = {}
          /\ peak' <= 2 => \A a, b \in Busy : a = b
      BY <1>2, StartsFacts, MaxParallelAssumption
    <2>3. QED
      BY <2>1, <2>2 DEF PeakInv
  <1>3. ASSUME NEW r \in Busy, NEW s, pc' = [pc EXCEPT ![r] = s], peak' = peak,
               IsFiniteSet(Jobbed')
        PROVE  PeakInv' /\ peak <= peak'
    <2>1. Busy' \subseteq Busy
      BY <1>3 DEF Busy, Types
    <2>2. QED
      BY <1>1, <1>3, <2>1 DEF PeakInv
  <1>4. jobs' = jobs => IsFiniteSet(Jobbed')
    BY DEF PeakInv, Jobbed
  <1>5. ASSUME NEW r \in Reqs, Web(r)
        PROVE  PeakInv' /\ peak <= peak'
    <2>1. ASSUME NEW p \in Paths, create_share(r, p)
          PROVE  PeakInv' /\ peak <= peak'
      BY <1>2, <2>1 DEF create_share, Goes, aclVars
    <2>2. ASSUME NEW i \in Ids, NEW files \in BOOLEAN, delete_share(r, i, files)
          PROVE  PeakInv' /\ peak <= peak'
      BY <1>2, <2>2 DEF delete_share, Goes, aclVars
    <2>3. ASSUME NEW i \in Ids, NEW perms \in PermLists, NEW recursive \in BOOLEAN,
                 set_share_permissions(r, i, perms, recursive)
          PROVE  PeakInv' /\ peak <= peak'
      BY <1>2, <2>3 DEF set_share_permissions, Goes
    <2>4. CASE Commit(r)
      BY <1>3, <1>4, <2>4 DEF Commit, TakesAnswer, Goes, Busy, aclVars
    <2>5. CASE GivesUp(r) \/ Return(r)
      BY <1>3, <1>4, <2>5 DEF GivesUp, Return, TakesAnswer, Ends, Goes, Busy, aclVars
    <2>6. QED
      BY <1>5, <2>1, <2>2, <2>3, <2>4, <2>5 DEF Web
  <1>6. ASSUME NEW r \in Reqs, Agent(r)
        PROVE  PeakInv' /\ peak <= peak'
    <2>1. CASE SubmitJob(r)
      <3>1. Jobbed' \subseteq Jobbed \cup {req[r].path}
        BY <2>1 DEF SubmitJob, Jobbed, Types
      <3>2. IsFiniteSet(Jobbed \cup {req[r].path})
        BY FS_AddElement DEF PeakInv
      <3>3. IsFiniteSet(Jobbed')
        BY <3>1, <3>2, FS_Subset
      <3>4. QED
        BY <1>3, <2>1, <3>3 DEF SubmitJob, Takes, Answers, Goes, Busy
    <2>2. CASE create(r) \/ delete(r) \/ Unserved(r)
      BY <1>3, <1>4, <2>2 DEF create, delete, Unserved, Takes, Answers, Goes, Busy, aclVars
    <2>3. CASE SetNow(r) \/ AclReset(r) \/ AclModify(r) \/ AclFails(r)
      BY <1>3, <1>4, <2>3
      DEF SetNow, AclReset, AclModify, AclFails, Takes, Answers, Goes, Busy, aclVars
    <2>4. CASE WriteConf(r) \/ ConfApplied(r) \/ ConfFails(r)
      BY <1>3, <1>4, <2>4 DEF WriteConf, ConfApplied, ConfFails, Answers, Goes, Busy, aclVars
    <2>5. QED
      BY <1>6, <2>1, <2>2, <2>3, <2>4 DEF Agent
  <1>7. ASSUME NEW p \in Paths, Job(p)
        PROVE  PeakInv' /\ peak <= peak'
    <2>1. Jobbed' \subseteq Jobbed
      <3>1. CASE JobReset(p)
        BY <3>1 DEF JobReset, Jobbed
      <3>2. CASE JobModify(p) \/ JobFails(p)
        BY <3>2 DEF JobModify, JobFails, JobEnds, Jobbed, Types
      <3>3. QED
        BY <1>7, <3>1, <3>2 DEF Job
    <2>2. IsFiniteSet(Jobbed')
      BY <2>1, FS_Subset DEF PeakInv
    <2>3. pc' = pc /\ peak' = peak
      BY <1>7 DEF Job, JobReset, JobModify, JobFails
    <2>4. QED
      BY <1>1, <2>2, <2>3 DEF PeakInv, Busy
  <1>8. CASE UNCHANGED vars
    BY <1>1, <1>4, <1>8 DEF vars, PeakInv, Busy, aclVars
  <1>9. CASE Renames
    <2>1. UNCHANGED <<pc, jobs>> /\ peak <= peak' /\ peak' \in Nat
      BY <1>9, RenamesFacts, MaxParallelAssumption DEF aclVars
    <2>2. QED
      BY <1>1, <2>1 DEF PeakInv, Busy, Jobbed
  <1>10. QED
    BY <1>5, <1>6, <1>7, <1>8, <1>9 DEF Next, Renames
-----------------------------------------------------------------------------
(* Directories.                                                             *)

Moves(r) == Stays(r) \/ Sends(r) \/ IsTaken(r)

\* A step of one request keeps the order of the calls of the others, and
\* appends its own.
LEMMA OrderFacts ==
    ASSUME Types, WireInv, NEW r \in Reqs, Moves(r)
    PROVE  /\ \A q \in Reqs : q # r => pc'[q] = pc[q]
           /\ \A k \in DOMAIN wire' : wire'[k] \in Reqs
           /\ \A j, k \in DOMAIN wire' : j < k /\ wire'[j] # r /\ wire'[k] # r =>
                \E m, n \in DOMAIN wire : m < n /\ wire[m] = wire'[j] /\ wire[n] = wire'[k]
           /\ \A j, k \in DOMAIN wire' : j < k => wire'[j] # r \/ ~Sends(r)
           /\ ~Sends(r) => pc'[r] \notin Underway
  <1>1. (\A q \in Reqs : q # r => pc'[q] = pc[q]) /\ (~Sends(r) => pc'[r] \notin Underway)
    BY DEF Moves, Stays, Sends, IsTaken, Types
  <1>2. CASE Stays(r)
    BY <1>1, <1>2 DEF Stays, Sends, Types
  <1>3. CASE Sends(r)
    <2>1. /\ DOMAIN wire' = DOMAIN wire \cup {Len(wire) + 1}
          /\ \A k \in DOMAIN wire : wire'[k] = wire[k] /\ k \in 1..Len(wire)
          /\ wire'[Len(wire) + 1] = r /\ Len(wire) \in Nat
      BY <1>3, AppendFacts DEF Sends, Types
    <2>2. \A k \in DOMAIN wire : wire[k] # r /\ wire[k] \in Reqs
      BY <1>3 DEF WireInv, Sends, Underway, Types
    <2>3. \A j, k \in DOMAIN wire' : j < k => j \in DOMAIN wire
      BY <2>1
    <2>4. \A j, k \in DOMAIN wire' : j < k => wire'[j] # r
      BY <2>1, <2>2, <2>3
    <2>5. \A k \in DOMAIN wire' : wire'[k] # r => k \in DOMAIN wire
      BY <2>1
    <2>6. QED
      BY <1>1, <1>3, <2>1, <2>2, <2>4, <2>5
  <1>4. CASE IsTaken(r)
    <2>1. /\ Len(wire) \in Nat \ {0}
          /\ DOMAIN wire = 1..Len(wire) /\ DOMAIN wire' = 1..(Len(wire) - 1)
          /\ \A k \in DOMAIN wire' : wire'[k] = wire[k + 1]
          /\ \A k \in DOMAIN wire : wire[k] \in Reqs
      BY <1>4, TailFacts DEF IsTaken, Types
    <2>2. \A k \in DOMAIN wire' : k + 1 \in DOMAIN wire /\ wire'[k] = wire[k + 1]
      BY <2>1
    <2>3. \A j, k \in DOMAIN wire' : j < k => j + 1 < k + 1
      BY <2>1
    <2>4. ~Sends(r)
      <3>1. SUFFICES ASSUME Sends(r) PROVE FALSE
        OBVIOUS
      <3>2. Len(wire) + 1 \in DOMAIN wire'
        BY <3>1, AppendFacts DEF Sends, Types
      <3>3. QED
        BY <2>1, <3>2
    <2>5. QED
      BY <1>1, <2>1, <2>2, <2>3, <2>4
  <1>5. QED
    BY <1>2, <1>3, <1>4 DEF Moves

\* A deletion that comes after a creation stays there until it is answered.
LEMMA UndoneFacts ==
    ASSUME Types, BackInv, NEW r \in Reqs, Turns(r),
           \A q \in Reqs : q # r => req'[q] = req[q],
           NEW s \in Reqs, s # r, Undone(s)
    PROVE  Undone(s)'
  <1>1. PICK j, k \in DOMAIN back :
          /\ j < k /\ back[j] = s
          /\ pc[back[k]] = "answered" /\ Deletes(back[k]) /\ req[back[k]].path = req[s].path
    BY DEF Undone
  <1>2. /\ back[k] # r /\ back[k] \in Reqs
        /\ \A q \in Reqs : q # r => pc'[q] = pc[q]
    BY <1>1, BackFacts
  <1>3. PICK m, n \in DOMAIN back' : m < n /\ back'[m] = back[j] /\ back'[n] = back[k]
    BY <1>1, BackFacts
  <1>4. /\ req'[back[k]] = req[back[k]] /\ req'[s] = req[s]
        /\ pc'[back[k]] = "answered"
    BY <1>1, <1>2
  <1>5. QED
    BY <1>1, <1>3, <1>4 DEF Undone, Deletes

\* A step that removes no directory, changes no row, and begins nothing that is
\* written down about a creation or a deletion; and does not end a deletion
\* that has removed a directory without saying so.
LEMMA DirFrame ==
    ASSUME Types, WireInv, BackInv, DirInv, peak <= peak', peak \in Nat, peak' \in Nat,
           NEW r \in Reqs, Moves(r), Turns(r),
           rows' = rows, stripped \subseteq stripped',
           \A p \in Paths : acl[p] # NoAcl => acl'[p] # NoAcl,
           \A q \in Reqs : q # r => req'[q] = req[q],
           pc'[r] \in {"sent", "answered"} => ~Creates(r)' /\ ~Deletes(r)',
           pc[r] = "answered" /\ Deletes(r) /\ req[r].path \in Listed =>
             req[r].path \in stripped'
    PROVE  DirInv'
  <1>1. SUFFICES ASSUME peak' <= 2 PROVE (Owned /\ Removal /\ Creation /\ Ahead)'
    BY DEF DirInv
  <1>2. Owned /\ Removal /\ Creation /\ Ahead
    BY <1>1 DEF DirInv
  <1>3. \A q \in Reqs : q # r => pc'[q] = pc[q] /\ req'[q] = req[q]
    BY OrderFacts
  <1>4. Live' = Live /\ \A i \in Live : rows[i] \in Paths
    BY DEF Live, Types
  <1>5. \A i \in Live : Emptied(i) => Emptied(i)' \/ rows[i] \in stripped'
    BY <1>3 DEF Emptied, Deletes, Listed
  <1>6. \A q \in Reqs : req[q].path \in Paths
    BY RequestsFacts DEF Types
  <1>7. Owned'
    BY <1>2, <1>4, <1>5 DEF Owned
  <1>8. Removal'
    BY <1>2, <1>3, <1>4 DEF Removal, Creates, Deletes
  <1>9. Creation'
    <2>1. ASSUME NEW q \in Reqs, (pc[q] = "answered" /\ Creates(q))'
          PROVE  q # r /\ pc[q] = "answered" /\ Creates(q) /\ req'[q] = req[q]
      BY <1>3, <2>1 DEF Creates
    <2>2. \A q \in Reqs : q # r /\ Undone(q) => Undone(q)'
      BY UndoneFacts
    <2>3. QED
      BY <1>2, <1>4, <1>5, <1>6, <2>1, <2>2 DEF Creation
  <1>10. Ahead'
    <2>1. SUFFICES ASSUME NEW j \in DOMAIN wire', NEW k \in DOMAIN wire', j < k,
                          (pc[wire[j]] = "sent" /\ Creates(wire[j]))',
                          (pc[wire[k]] = "sent" /\ Deletes(wire[k]))',
                          (req[wire[j]].path = req[wire[k]].path)'
                   PROVE  \/ acl'[req'[wire'[j]].path] # NoAcl
                          \/ req'[wire'[j]].path \in stripped'
      BY DEF Ahead
    <2>2. wire'[j] # r /\ wire'[k] # r
      BY <2>1
    <2>3. PICK m, n \in DOMAIN wire : m < n /\ wire[m] = wire'[j] /\ wire[n] = wire'[k]
      BY <2>1, <2>2, OrderFacts
    <2>4. wire[m] \in Reqs /\ wire[n] \in Reqs
      BY DEF Types
    <2>5. QED
      BY <1>2, <1>3, <1>6, <2>1, <2>2, <2>3, <2>4 DEF Ahead, Creates, Deletes
  <1>11. QED
    BY <1>7, <1>8, <1>9, <1>10

\* A share is asked for: it is behind whatever is on its way.
LEMMA DirStarts ==
    ASSUME Types, RowInv, WireInv, BackInv, PeakInv, DirInv,
           NEW r \in Reqs, Starts(r), Sends(r), Turns(r), pc'[r] = "sent",
           UNCHANGED <<rows, acl, stripped>>,
           \A q \in Reqs : q # r => req'[q] = req[q],
           Deletes(r)' => req'[r].id \in Live /\ req'[r].path = rows[req'[r].id]
    PROVE  DirInv'
  <1>1. SUFFICES ASSUME peak' <= 2 PROVE (Owned /\ Removal /\ Creation /\ Ahead)'
    BY DEF DirInv
  <1>2. r \notin Busy /\ (\A a, b \in Busy : a = b) /\ peak <= 2
    BY <1>1, StartsFacts, MaxParallelAssumption DEF Types
  <1>3. Owned /\ Removal /\ Creation /\ Ahead
    BY <1>2 DEF DirInv
  <1>4. Moves(r) /\ \A q \in Reqs : q # r => pc'[q] = pc[q] /\ req'[q] = req[q]
    BY OrderFacts DEF Moves
  <1>5. Live' = Live /\ \A i \in Live : rows[i] \in Paths
    BY DEF Live, Types
  <1>6. \A q \in Reqs : pc[q] \in {"sent", "answered"} => q \in Busy /\ q # r
    BY <1>2 DEF Busy
  <1>7. \A i : Emptied(i) => Emptied(i)'
    BY <1>4, <1>6 DEF Emptied, Deletes
  <1>8. Owned'
    BY <1>3, <1>5, <1>7 DEF Owned
  <1>9. Creation'
    <2>1. \A q \in Reqs : q # r /\ Undone(q) => Undone(q)'
      BY UndoneFacts
    <2>2. QED
      BY <1>3, <1>4, <1>5, <1>7, <2>1 DEF Creation, Creates
  <1>10. ASSUME NEW s \in Busy, Creates(s), Deletes(r)'
         PROVE  acl[rows[req'[r].id]] # NoAcl \/ rows[req'[r].id] \in stripped
    <2>1. ~Emptied(req'[r].id)
      BY <1>2, <1>6, <1>10 DEF Emptied, Creates, Deletes
    <2>2. QED
      BY <1>3, <1>10, <2>1 DEF Owned
  <1>11. Removal'
    <2>1. ASSUME Deletes(r)'
          PROVE  /\ \A i \in Live : rows[i] = req'[r].path => i = req'[r].id
                 /\ \A s \in Reqs : (pc[s] = "answered" /\ Creates(s))' =>
                      req'[s].path # req'[r].path \/ req'[s].path \in stripped
      <3>1. \A i \in Live : rows[i] = req'[r].path => i = req'[r].id
        BY <2>1 DEF RowInv
      <3>2. ASSUME NEW s \in Reqs, (pc[s] = "answered" /\ Creates(s))', req'[s].path = req'[r].path
            PROVE  req'[s].path \in stripped
        <4>1. s # r /\ pc[s] = "answered" /\ Creates(s) /\ req'[s] = req[s]
          BY <1>4, <3>2 DEF Creates
        <4>2. Emptied(req'[r].id) \/ req[s].path \in stripped
          BY <1>3, <2>1, <3>2, <4>1 DEF Creation
        <4>3. ~Emptied(req'[r].id)
          BY <1>2, <1>6, <4>1 DEF Emptied, Creates, Deletes
        <4>4. QED
          BY <4>1, <4>2, <4>3
      <3>3. QED
        BY <3>1, <3>2
    <2>2. QED
      BY <1>3, <1>4, <1>5, <2>1 DEF Removal, Creates, Deletes
  <1>12. Ahead'
    <2>1. SUFFICES ASSUME NEW j \in DOMAIN wire', NEW k \in DOMAIN wire', j < k,
                          (pc[wire[j]] = "sent" /\ Creates(wire[j]))',
                          (pc[wire[k]] = "sent" /\ Deletes(wire[k]))',
                          (req[wire[j]].path = req[wire[k]].path)'
                   PROVE  \/ acl[req'[wire'[j]].path] # NoAcl
                          \/ req'[wire'[j]].path \in stripped
      BY DEF Ahead
    <2>2. wire'[j] # r /\ wire'[j] \in Reqs /\ wire'[k] \in Reqs
      BY <1>4, <2>1, OrderFacts
    <2>3. wire'[j] \in Busy /\ Creates(wire'[j]) /\ req'[wire'[j]] = req[wire'[j]]
      BY <1>4, <1>6, <2>1, <2>2 DEF Creates
    <2>4. CASE wire'[k] = r
      BY <1>10, <2>1, <2>3, <2>4
    <2>5. CASE wire'[k] # r
      <3>1. PICK m, n \in DOMAIN wire : m < n /\ wire[m] = wire'[j] /\ wire[n] = wire'[k]
        BY <1>4, <2>1, <2>2, <2>5, OrderFacts
      <3>2. QED
        BY <1>3, <1>4, <2>1, <2>2, <2>5, <3>1 DEF Ahead, Creates, Deletes
    <2>6. QED
      BY <2>4, <2>5
  <1>13. QED
    BY <1>8, <1>9, <1>11, <1>12

\* The agent makes the directory of a share, there being none.
LEMMA DirCreated ==
    ASSUME Types, WireInv, BackInv, PeakInv, DirInv, NEW r \in Reqs, create(r), ~Refused(req[r].path)
    PROVE  DirInv'
  <1> DEFINE p == req[r].path
  <1>1. /\ IsTaken(r) /\ pc[r] = "sent" /\ pc'[r] = "answered" /\ Creates(r) /\ wire[1] = r
        /\ UNCHANGED <<rows, req, peak, stripped>>
    <2>1. wire # <<>> => Head(wire) = wire[1]
      BY TailFacts DEF Types
    <2>2. QED
      BY <2>1 DEF create, Takes, Answers, Goes, IsTaken, Creates, Underway, Types, dbVars
  <1>2. p \in Paths /\ acl[p] = NoAcl /\ acl'[p] # NoAcl /\ \A q \in Paths : q # p => acl'[q] = acl[q]
    <2>1. p \in Paths
      BY RequestsFacts DEF Types
    <2>2. QED
      BY <2>1, NobodyFacts DEF create, Refused, Types
  <1>3. SUFFICES ASSUME peak <= 2 PROVE (Owned /\ Removal /\ Creation /\ Ahead)'
    BY <1>1 DEF DirInv
  <1>4. Owned /\ Removal /\ Creation /\ Ahead /\ \A a, b, c \in Busy : a = b \/ b = c \/ a = c
    BY <1>3 DEF DirInv, PeakInv
  <1>5. Moves(r) /\ Turns(r) /\ \A q \in Reqs : q # r => pc'[q] = pc[q]
    BY <1>1, OrderFacts, TurnsFacts DEF Moves, Agent
  <1>6. Live' = Live /\ \A i \in Live : rows[i] \in Paths
    BY <1>1 DEF Live, Types
  <1>7. \A i : Emptied(i) => Emptied(i)'
    BY <1>1, <1>5 DEF Emptied, Deletes
  <1>8. \A q \in Paths : acl[q] # NoAcl => acl'[q] # NoAcl
    BY <1>2
  <1>9. \A q \in Reqs : req[q].path \in Paths
    BY RequestsFacts DEF Types
  <1>10. Owned'
    BY <1>1, <1>4, <1>6, <1>7, <1>8 DEF Owned
  <1>11. Removal'
    <2>1. ASSUME NEW q \in Reqs, pc'[q] = "sent", Deletes(q), req[q].path = p
          PROVE  p \in stripped
      <3>1. q # r /\ pc[q] = "sent"
        BY <1>1, <1>5, <2>1
      <3>2. PICK k \in DOMAIN wire : wire[k] = q
        BY <3>1 DEF WireInv
      <3>3. 1 \in DOMAIN wire /\ 1 < k
        BY <1>1, <3>1, <3>2 DEF IsTaken, Types
      <3>4. QED
        BY <1>1, <1>2, <1>4, <2>1, <3>1, <3>2, <3>3 DEF Ahead
    <2>2. QED
      BY <1>1, <1>4, <1>5, <1>6, <2>1 DEF Removal, Creates, Deletes
  <1>12. Creation'
    <2>1. \A i \in Live : rows[i] = p => Emptied(i)' \/ rows[i] \in stripped
      BY <1>2, <1>4, <1>7 DEF Owned
    <2>2. ASSUME NEW s \in Reqs, pc[s] = "answered", Creates(s), req[s].path = p
          PROVE  FALSE
      <3>1. Undone(s)
        BY <1>2, <1>4, <2>2 DEF Creation
      <3>2. PICK k \in DOMAIN back : pc[back[k]] = "answered" /\ Deletes(back[k])
        BY <3>1 DEF Undone
      <3>3. back[k] \in Busy /\ s \in Busy /\ r \in Busy
        BY <1>1, <2>2, <3>2 DEF Busy, Types
      <3>4. s # r /\ back[k] # r /\ back[k] # s
        BY <1>1, <2>2, <3>2 DEF Creates, Deletes
      <3>5. QED
        BY <1>4, <3>3, <3>4
    <2>3. \A q \in Reqs : q # r /\ Undone(q) => Undone(q)'
      BY <1>1, <1>5, UndoneFacts
    <2>4. QED
      BY <1>1, <1>2, <1>4, <1>5, <1>6, <1>7, <1>8, <1>9, <2>1, <2>2, <2>3
      DEF Creation, Creates
  <1>13. Ahead'
    <2>1. SUFFICES ASSUME NEW j \in DOMAIN wire', NEW k \in DOMAIN wire', j < k,
                          (pc[wire[j]] = "sent" /\ Creates(wire[j]))',
                          (pc[wire[k]] = "sent" /\ Deletes(wire[k]))',
                          (req[wire[j]].path = req[wire[k]].path)'
                   PROVE  \/ acl'[req'[wire'[j]].path] # NoAcl
                          \/ req'[wire'[j]].path \in stripped'
      BY DEF Ahead
    <2>2. wire'[j] # r /\ wire'[k] # r
      BY <1>1, <2>1
    <2>3. PICK m, n \in DOMAIN wire : m < n /\ wire[m] = wire'[j] /\ wire[n] = wire'[k]
      BY <1>5, <2>1, <2>2, OrderFacts
    <2>4. wire[m] \in Reqs /\ wire[n] \in Reqs
      BY DEF Types
    <2>5. QED
      BY <1>1, <1>4, <1>5, <1>8, <1>9, <2>1, <2>2, <2>3, <2>4 DEF Ahead, Creates, Deletes
  <1>14. QED
    BY <1>10, <1>11, <1>12, <1>13

\* The agent removes the directory of a share whose row goes next.
LEMMA DirDeleted ==
    ASSUME Types, WireInv, BackInv, PeakInv, DirInv, NEW r \in Reqs, delete(r), req[r].flag
    PROVE  DirInv'
  <1> DEFINE p == req[r].path
  <1>1. /\ IsTaken(r) /\ pc[r] = "sent" /\ pc'[r] = "answered" /\ Deletes(r)
        /\ UNCHANGED <<rows, req, peak, stripped>>
        /\ back' = Append(back, r) /\ acl' = [acl EXCEPT ![p] = NoAcl]
    BY DEF delete, Takes, Answers, Goes, IsTaken, Deletes, Underway, Types, dbVars
  <1>2. /\ \A q \in Reqs : req[q].path \in Paths
        /\ \A q \in Paths : q # p => acl'[q] = acl[q]
    BY <1>1, RequestsFacts DEF Types
  <1>3. SUFFICES ASSUME peak <= 2 PROVE (Owned /\ Removal /\ Creation /\ Ahead)'
    BY <1>1 DEF DirInv
  <1>4. Owned /\ Removal /\ Creation /\ Ahead /\ \A a, b, c \in Busy : a = b \/ b = c \/ a = c
    BY <1>3 DEF DirInv, PeakInv
  <1>5. Moves(r) /\ Turns(r) /\ (\A q \in Reqs : q # r => pc'[q] = pc[q]) /\ r \in Busy
    BY <1>1, OrderFacts, TurnsFacts DEF Moves, Busy, Agent
  <1>6. Live' = Live /\ \A i \in Live : rows[i] \in Paths
    BY <1>1 DEF Live, Types
  <1>7. \A i : Emptied(i) => Emptied(i)'
    BY <1>1, <1>5 DEF Emptied, Deletes
  <1>8. Owned'
    <2>1. rows[req[r].id] = p => Emptied(req[r].id)'
      BY <1>1 DEF Emptied, Deletes
    <2>2. \A i \in Live : rows[i] = p => i = req[r].id
      BY <1>1, <1>4 DEF Removal
    <2>3. QED
      BY <1>1, <1>2, <1>4, <1>6, <1>7, <2>1, <2>2 DEF Owned
  <1>9. Removal'
    BY <1>1, <1>4, <1>5, <1>6 DEF Removal, Creates, Deletes
  <1>10. Creation'
    <2>1. ASSUME NEW s \in Reqs, (pc[s] = "answered" /\ Creates(s))'
          PROVE  /\ s # r /\ pc[s] = "answered" /\ Creates(s)
                 /\ req[s].path # p \/ (p \in stripped /\ Undone(s)')
      <3>1. /\ s # r /\ pc[s] = "answered" /\ Creates(s)
            /\ req[s].path # p \/ p \in stripped
        BY <1>1, <1>4, <1>5, <2>1 DEF Removal, Creates, Deletes
      <3>2. PICK j \in DOMAIN back : back[j] = s
        BY <3>1 DEF BackInv
      <3>3. /\ j \in DOMAIN back' /\ Len(back) + 1 \in DOMAIN back' /\ j < Len(back) + 1
            /\ back'[j] = s /\ back'[Len(back) + 1] = r
        BY <1>1, <3>2, AppendFacts DEF Types
      <3>4. req[s].path = p => Undone(s)'
        BY <1>1, <3>3 DEF Undone, Deletes
      <3>5. QED
        BY <3>1, <3>4
    <2>2. \A q \in Reqs : q # r /\ Undone(q) => Undone(q)'
      BY <1>1, <1>5, UndoneFacts
    <2>3. QED
      BY <1>1, <1>2, <1>4, <1>6, <1>7, <2>1, <2>2 DEF Creation, Creates
  <1>11. Ahead'
    <2>1. SUFFICES ASSUME NEW j \in DOMAIN wire', NEW k \in DOMAIN wire', j < k,
                          (pc[wire[j]] = "sent" /\ Creates(wire[j]))',
                          (pc[wire[k]] = "sent" /\ Deletes(wire[k]))'
                   PROVE  FALSE
      BY DEF Ahead
    <2>2. wire'[j] # r /\ wire'[k] # r /\ wire'[j] \in Reqs /\ wire'[k] \in Reqs
      BY <1>1, <1>5, <2>1, OrderFacts
    <2>3. wire'[j] # wire'[k]
      BY <2>1 DEF Creates, Deletes
    <2>4. wire'[j] \in Busy /\ wire'[k] \in Busy
      BY <1>5, <2>1, <2>2 DEF Busy
    <2>5. QED
      BY <1>4, <1>5, <2>2, <2>3, <2>4
  <1>12. QED
    BY <1>8, <1>9, <1>10, <1>11

\* The row of a share is written, or goes.
LEMMA DirCommitted ==
    ASSUME Types, RowInv, ReqInv, WireInv, BackInv, PeakInv, DirInv, NEW r \in Reqs, Commit(r), req[r].op # "set"
    PROVE  DirInv'
  <1> DEFINE p == req[r].path
  <1>1. /\ Sends(r) /\ pc[r] = "answered" /\ pc'[r] = "conf"
        /\ UNCHANGED <<acl, req, peak>> /\ stripped' = stripped \cap Listed'
    BY DEF Commit, TakesAnswer, Goes, Sends, Underway, Types
  <1>2. /\ \A q \in Reqs : req[q].path \in Paths
        /\ req[r].op \in {"create", "delete"}
    BY RequestsFacts DEF Types
  <1>3. SUFFICES ASSUME peak <= 2 PROVE (Owned /\ Removal /\ Creation /\ Ahead)'
    BY <1>1 DEF DirInv
  <1>4. Owned /\ Removal /\ Creation /\ Ahead
    BY <1>3 DEF DirInv
  <1>5. /\ Moves(r) /\ Turns(r) /\ \A q \in Reqs : q # r => pc'[q] = pc[q]
        /\ \A q \in Reqs : q # r /\ Undone(q) => Undone(q)'
    BY <1>1, OrderFacts, TurnsFacts, UndoneFacts DEF Moves, Web
  <1>6. \A i \in Live : rows[i] \in Paths
    BY DEF Live, Types
  <1>7. \A q \in Reqs : pc'[q] \in {"sent", "answered"} => q # r /\ pc[q] = pc'[q]
    BY <1>1, <1>5
  <1>8. \A i \in Ids : Emptied(i) /\ rows'[i] = rows[i] =>
          Emptied(i)' \/ (Deletes(r) /\ req[r].id = i)
    BY <1>1, <1>5 DEF Emptied, Deletes
  <1>9. ASSUME NEW a \in Reqs, NEW c \in Reqs, a # c, a # r, c # r,
                pc[a] \in {"sent", "answered"}, pc[c] \in {"sent", "answered"}
         PROVE  FALSE
    <2>1. \A x, y, z \in Busy : x = y \/ y = z \/ x = z
      BY <1>3 DEF PeakInv
    <2>2. a \in Busy /\ c \in Busy /\ r \in Busy
      BY <1>1, <1>9 DEF Busy
    <2>3. QED
      BY <1>9, <2>1, <2>2
  <1>10. Ahead'
    <2>1. SUFFICES ASSUME NEW j \in DOMAIN wire', NEW k \in DOMAIN wire', j < k,
                          (pc[wire[j]] = "sent" /\ Creates(wire[j]))',
                          (pc[wire[k]] = "sent" /\ Deletes(wire[k]))'
                   PROVE  FALSE
      BY DEF Ahead
    <2>2. wire'[j] \in Reqs /\ wire'[k] \in Reqs /\ wire'[j] # wire'[k]
      BY <1>5, <2>1, OrderFacts DEF Creates, Deletes
    <2>3. QED
      BY <1>7, <1>9, <2>1, <2>2
  <1>11. CASE req[r].op = "create"
    <2>1. /\ NextId \notin Live
          /\ \A i \in Ids : rows'[i] = IF i = NextId THEN p ELSE rows[i]
          /\ \A i \in Live : rows[i] # p
      BY <1>11, CommitFacts
    <2>2. \A i \in Live' : (i \in Live /\ rows'[i] = rows[i]) \/ rows'[i] = p
      BY <2>1 DEF Live
    <2>3. Live \subseteq Ids /\ \A i \in Live : i \in Live' /\ rows'[i] = rows[i]
      BY <2>1 DEF Live
    <2>4. stripped' = stripped /\ p \notin stripped
      BY <1>1, <2>1, <2>3 DEF RowInv, Listed
    <2>5. \A i \in Live : Emptied(i) => Emptied(i)'
      BY <1>8, <1>11, <2>3 DEF Deletes
    <2>6. pc[r] = "answered" /\ Creates(r) /\ acl[p] # NoAcl
      BY <1>1, <1>4, <1>11, <2>4 DEF Creation, Creates
    <2>7. Owned'
      BY <1>1, <1>4, <2>2, <2>4, <2>5, <2>6 DEF Owned
    <2>8. Removal'
      BY <1>1, <1>4, <1>7, <2>2, <2>4, <2>6 DEF Removal, Creates, Deletes
    <2>9. Creation'
      <3>1. ASSUME NEW s \in Reqs, (pc[s] = "answered" /\ Creates(s))'
            PROVE  s # r /\ pc[s] = "answered" /\ Creates(s) /\ req[s].path # p
        BY <1>1, <1>4, <1>7, <2>6, <3>1 DEF Creation, Creates
      <3>2. QED
        BY <1>1, <1>4, <1>5, <2>2, <2>4, <2>5, <3>1 DEF Creation, Creates
    <2>10. QED
      BY <1>10, <2>7, <2>8, <2>9
  <1>12. CASE req[r].op = "delete"
    <2>1. \A i \in Ids : rows'[i] = IF i = req[r].id THEN NoRow ELSE rows[i]
      BY <1>12, CommitFacts
    <2>2. \A i \in Live' : i \in Live /\ i \in Ids /\ rows'[i] = rows[i] /\ i # req[r].id
      BY <2>1 DEF Live
    <2>3. \A i \in Live' : /\ rows[i] \in stripped => rows[i] \in stripped'
                           /\ Emptied(i) => Emptied(i)'
      BY <1>1, <1>8, <2>2 DEF Listed
    <2>4. Owned'
      BY <1>1, <1>4, <2>2, <2>3 DEF Owned
    <2>5. Removal'
      <3>1. ASSUME NEW q \in Reqs, (pc[q] = "sent" /\ Deletes(q))'
            PROVE  /\ q # r /\ pc[q] = "sent" /\ Deletes(q)
                   /\ \A a \in Reqs : ~(pc[a] = "answered" /\ Creates(a))'
        <4>1. q # r /\ pc[q] = "sent" /\ Deletes(q)
          BY <1>1, <1>7, <3>1 DEF Deletes
        <4>2. ASSUME NEW a \in Reqs, (pc[a] = "answered" /\ Creates(a))'
              PROVE  FALSE
          <5>1. a # r /\ pc[a] = "answered" /\ a # q
            BY <1>1, <1>7, <3>1, <4>2
          <5>2. QED
            BY <1>9, <4>1, <5>1
        <4>3. QED
          BY <4>1, <4>2
      <3>2. QED
        BY <1>1, <1>4, <2>2, <3>1 DEF Removal
    <2>6. Creation'
      <3>1. ASSUME NEW a \in Reqs, (pc[a] = "answered" /\ Creates(a))'
            PROVE  a # r /\ pc[a] = "answered" /\ Creates(a) /\ acl[req[a].path] # NoAcl
        <4>1. a # r /\ pc[a] = "answered" /\ Creates(a)
          BY <1>1, <1>7, <3>1 DEF Creates
        <4>2. ~Undone(a)
          <5>1. SUFFICES ASSUME Undone(a) PROVE FALSE
            OBVIOUS
          <5>2. PICK j, k \in DOMAIN back :
                  j < k /\ back[j] = a /\ pc[back[k]] = "answered" /\ Deletes(back[k])
            BY <5>1 DEF Undone
          <5>3. back[k] # r /\ back[k] \in Reqs
            BY <1>5, <4>1, <5>2, BackFacts
          <5>4. back[k] # a
            BY <4>1, <5>2 DEF Creates, Deletes
          <5>5. QED
            BY <1>9, <4>1, <5>2, <5>3, <5>4
        <4>3. QED
          BY <1>4, <4>1, <4>2 DEF Creation
      <3>2. QED
        BY <1>1, <1>4, <2>2, <2>3, <3>1 DEF Creation, Creates
    <2>7. QED
      BY <1>10, <2>4, <2>5, <2>6
  <1>13. QED
    BY <1>2, <1>11, <1>12

\* As long as no request starts with two others under way, a share has its
\* directory until its row is about to go.
LEMMA DirStep ==
    ASSUME Types, Types', RowInv, WireInv, BackInv, ReqInv, PeakInv, DirInv, [Next]_vars
    PROVE  DirInv'
  <1>1. peak \in Nat /\ peak' \in Nat /\ peak <= peak'
    BY PeakStep, MaxParallelAssumption DEF Types
  <1>2. ASSUME NEW p \in Paths, Works(p)
        PROVE  AfterReset(p) # NoAcl /\ \A entries \in EntryLists : Modified(p, entries) # NoAcl
    <2>1. acl[p] \in EntryLists
      BY <1>2 DEF Works, Types
    <2>2. ASSUME NEW entries \in EntryLists
          PROVE  Modified(p, entries) \in EntryLists
      BY <2>1 DEF Modified, EntryLists
    <2>3. QED
      BY <2>2, NobodyFacts, NoneAssumption DEF AfterReset
  <1>3. ASSUME NEW r \in Reqs, Web(r)
        PROVE  DirInv'
    <2>1. ASSUME NEW p \in Paths, create_share(r, p)
          PROVE  DirInv'
      <3>1. Starts(r) /\ Sends(r) /\ UNCHANGED <<rows, acl, stripped>> /\ pc'[r] = "sent"
        BY <2>1 DEF create_share, Starts, Sends, Goes, Underway, Types, dbVars, aclVars
      <3>2. (\A q \in Reqs : q # r => req'[q] = req[q]) /\ req'[r].op = "create"
        BY <2>1, RequestsFacts DEF create_share, Types, Requests
      <3>3. QED
        BY <1>3, <3>1, <3>2, DirStarts, TurnsFacts DEF Deletes
    <2>2. ASSUME NEW i \in Ids, NEW files \in BOOLEAN, delete_share(r, i, files)
          PROVE  DirInv'
      <3>1. Starts(r) /\ Sends(r) /\ UNCHANGED <<rows, acl, stripped>> /\ pc'[r] = "sent"
        BY <2>2 DEF delete_share, Starts, Sends, Goes, Underway, Types, dbVars, aclVars
      <3>2. /\ \A q \in Reqs : q # r => req'[q] = req[q]
            /\ req'[r].id = i /\ i \in Live /\ req'[r].path = rows[i]
        BY <2>2 DEF delete_share, Types, Requests
      <3>3. QED
        BY <1>3, <3>1, <3>2, DirStarts, TurnsFacts
    <2>3. ASSUME NEW i \in Ids, NEW perms \in PermLists, NEW recursive \in BOOLEAN,
                 set_share_permissions(r, i, perms, recursive)
          PROVE  DirInv'
      <3>1. Sends(r) /\ UNCHANGED <<rows, acl, stripped>> /\ pc[r] = "idle"
        BY <2>3 DEF set_share_permissions, Starts, Sends, Goes, Underway, dbVars
      <3>2. (\A q \in Reqs : q # r => req'[q] = req[q]) /\ req'[r].op = "set"
        BY <2>3 DEF set_share_permissions, Types
      <3>3. QED
        BY <1>1, <1>3, <3>1, <3>2, DirFrame, TurnsFacts DEF Moves, Creates, Deletes
    <2>4. CASE Commit(r)
      <3>1. CASE req[r].op = "set"
        <4>1. rows' = rows
          BY <2>4, <3>1, CommitFacts
        <4>2. Sends(r) /\ pc'[r] = "conf" /\ req' = req /\ acl' = acl
          BY <2>4 DEF Commit, TakesAnswer, Goes, Sends, Underway, Types
        <4>3. stripped' = stripped
          <5>1. Listed' = Listed
            BY <4>1 DEF Listed, Live
          <5>2. QED
            BY <2>4, <5>1 DEF Commit, RowInv
        <4>4. QED
          BY <1>1, <1>3, <3>1, <4>1, <4>2, <4>3, DirFrame, TurnsFacts DEF Moves, Deletes
      <3>2. QED
        BY <2>4, <3>1, DirCommitted
    <2>5. CASE GivesUp(r) \/ Return(r)
      <3>1. /\ Stays(r) /\ UNCHANGED <<rows, acl>> /\ pc'[r] = "done"
            /\ \A q \in Reqs : q # r => req'[q] = req[q]
        BY <2>5 DEF GivesUp, Return, TakesAnswer, Ends, Goes, Stays, Underway, Types, dbVars, aclVars
      <3>2. /\ stripped \subseteq stripped'
            /\ pc[r] = "answered" /\ Deletes(r) /\ req[r].path \in Listed =>
                 req[r].path \in stripped'
        <4>1. CASE GivesUp(r)
          BY <4>1 DEF GivesUp, Removed, Deletes, RowInv
        <4>2. CASE Return(r)
          BY <4>2 DEF Return, TakesAnswer, aclVars
        <4>3. QED
          BY <2>5, <4>1, <4>2
      <3>3. QED
        BY <1>1, <1>3, <3>1, <3>2, DirFrame, TurnsFacts DEF Moves
    <2>6. QED
      BY <1>3, <2>1, <2>2, <2>3, <2>4, <2>5 DEF Web
  <1>4. ASSUME NEW r \in Reqs, Agent(r)
        PROVE  DirInv'
    <2>1. CASE create(r)
      <3>1. CASE Refused(req[r].path)
        <4>1. IsTaken(r) /\ pc[r] = "sent" /\ pc'[r] = "refused" /\ UNCHANGED <<rows, acl, req, stripped>>
          BY <2>1, <3>1
          DEF create, Takes, Answers, Goes, IsTaken, Underway, Types, dbVars
        <4>2. QED
          BY <1>1, <1>4, <4>1, DirFrame, TurnsFacts DEF Moves
      <3>2. QED
        BY <2>1, <3>1, DirCreated
    <2>2. CASE delete(r)
      <3>1. CASE ~req[r].flag
        <4>1. /\ IsTaken(r) /\ pc[r] = "sent" /\ UNCHANGED <<rows, acl, req, stripped>>
              /\ req[r].op = "delete"
          BY <2>2, <3>1 DEF delete, Takes, Answers, Goes, IsTaken, Underway, Types, dbVars
        <4>2. QED
          BY <1>1, <1>4, <3>1, <4>1, DirFrame, TurnsFacts DEF Moves, Creates, Deletes
      <3>2. QED
        BY <2>2, <3>1, DirDeleted
    <2>3. CASE SubmitJob(r) \/ SetNow(r)
      <3>1. /\ IsTaken(r) /\ pc[r] = "sent" /\ UNCHANGED <<rows, acl, req, stripped>>
            /\ req[r].op = "set"
        BY <2>3 DEF SubmitJob, SetNow, Takes, Answers, Goes, IsTaken, Underway, Types, dbVars, aclVars
      <3>2. QED
        BY <1>1, <1>4, <3>1, DirFrame, TurnsFacts DEF Moves, Creates, Deletes
    <2>4. CASE AclReset(r) \/ AclModify(r) \/ AclFails(r)
      <3>1. /\ Stays(r) /\ pc[r] \in {"reset", "modify"} /\ UNCHANGED <<rows, req, stripped>>
        BY <2>4 DEF AclReset, AclModify, AclFails, Answers, Goes, Stays, Underway, dbVars
      <3>2. req[r].op = "set" /\ req[r].path \in Paths
            /\ Entries(req[r].perms, req[r].as) \in EntryLists
        BY <3>1, RequestsFacts, EntriesFacts DEF ReqInv, Busy, Types
      <3>3. \A p \in Paths : acl[p] # NoAcl => acl'[p] # NoAcl
        BY <1>2, <2>4, <3>2 DEF AclReset, AclModify, AclFails, Types
      <3>4. QED
        BY <1>1, <1>4, <3>1, <3>2, <3>3, DirFrame, TurnsFacts DEF Moves, Creates, Deletes
    <2>5. CASE WriteConf(r) \/ ConfApplied(r) \/ ConfFails(r)
      <3>1. /\ Stays(r) \/ IsTaken(r)
            /\ UNCHANGED <<rows, acl, req, stripped>>
            /\ pc[r] \in {"conf", "written"} /\ pc'[r] \in {"written", "ended"}
        BY <2>5 DEF WriteConf, ConfApplied, ConfFails, Answers, Goes, Stays, IsTaken, Underway,
           Types, dbVars, aclVars
      <3>2. QED
        BY <1>1, <1>4, <3>1, DirFrame, TurnsFacts DEF Moves
    <2>6. CASE Unserved(r)
      <3>1. /\ IsTaken(r) /\ UNCHANGED <<rows, acl, req, stripped>>
            /\ pc[r] \in {"sent", "conf"} /\ pc'[r] \in {"refused", "ended"}
        BY <2>6 DEF Unserved, Answers, Goes, IsTaken, Underway, Types, dbVars, aclVars
      <3>2. QED
        BY <1>1, <1>4, <3>1, DirFrame, TurnsFacts DEF Moves
    <2>7. QED
      BY <1>4, <2>1, <2>2, <2>3, <2>4, <2>5, <2>6 DEF Agent
  <1>5. ASSUME NEW p \in Paths, Job(p)
        PROVE  DirInv'
    <2>1. UNCHANGED <<rows, req, pc, wire, back, stripped, peak>>
      BY <1>5 DEF Job, JobReset, JobModify, JobFails, dbVars
    <2>2. \A q \in Paths : acl[q] # NoAcl => acl'[q] # NoAcl
      <3>1. CASE JobReset(p)
        BY <1>2, <3>1 DEF JobReset, Types
      <3>2. CASE JobModify(p)
        <4>1. Head(jobs[p]) \in EntryLists
          BY <3>2, TailFacts DEF JobModify, Jobbed, Types
        <4>2. QED
          BY <1>2, <3>2, <4>1 DEF JobModify, Types
      <3>3. CASE JobFails(p)
        BY <3>3 DEF JobFails
      <3>4. QED
        BY <1>5, <3>1, <3>2, <3>3 DEF Job
    <2>3. \A r \in Reqs : req[r].path \in Paths
      BY RequestsFacts DEF Types
    <2>4. \A i \in Live : rows[i] \in Paths
      BY DEF Live, Types
    <2>5. \A k \in DOMAIN wire : wire[k] \in Reqs
      BY DEF Types
    <2>6. (Owned => Owned') /\ (Removal => Removal') /\ (Creation => Creation') /\ (Ahead => Ahead')
      BY <2>1, <2>2, <2>3, <2>4, <2>5
      DEF Owned, Removal, Creation, Ahead, Emptied, Undone, Creates, Deletes, Live
    <2>7. QED
      BY <2>1, <2>6 DEF DirInv
  <1>6. CASE UNCHANGED vars
    BY <1>6 DEF vars, dbVars, aclVars, DirInv, Owned, Removal, Creation, Ahead, Emptied,
       Undone, Creates, Deletes, Live
  <1>7. CASE Renames
    <2>1. UNCHANGED <<rows, req, pc, wire, back, acl, stripped>>
      BY <1>7, RenamesFacts DEF dbVars, aclVars
    <2>2. (Owned => Owned') /\ (Removal => Removal') /\ (Creation => Creation') /\ (Ahead => Ahead')
      BY <2>1 DEF Owned, Removal, Creation, Ahead, Emptied, Undone, Creates, Deletes, Live
    <2>3. QED
      BY <1>1, <2>2 DEF DirInv
  <1>8. QED
    BY <1>3, <1>4, <1>5, <1>6, <1>7 DEF Next, Renames
-----------------------------------------------------------------------------
(* The ACL.                                                                 *)

Serially == Agrees /\ InHand /\ Queued /\ AtReset

\* With one request under way all others wait to start or are over, and no
\* job runs before the request has submitted it.
LEMMA OneAtATime ==
    ASSUME Types, PeakInv, AclInv, peak <= 1, NEW r \in Busy
    PROVE  /\ Serially
           /\ \A q \in Reqs : q # r => q \notin Busy /\ pc[q] \in {"idle", "done"}
           /\ pc[r] \notin {"answered", "conf", "written", "ended"} \/ req[r].op # "set" =>
                \A p \in Paths : jobs[p] = <<>> /\ jobAt[p] = "reset"
  <1>1. Serially
    BY DEF AclInv, Serially
  <1>2. \A q \in Reqs : q # r => q \notin Busy /\ pc[q] \in {"idle", "done"}
    BY DEF PeakInv, Busy
  <1>3. ASSUME pc[r] \notin {"answered", "conf", "written", "ended"} \/ req[r].op # "set",
               NEW p \in Paths
        PROVE  jobs[p] = <<>> /\ jobAt[p] = "reset"
    BY <1>1, <1>3 DEF Serially, Queued, Jobbed, AtReset
  <1>4. QED
    BY <1>1, <1>2, <1>3

\* A request starts with nothing under way.
LEMMA AclStarts ==
    ASSUME Types, RowInv, PeakInv, AclInv, NEW r \in Reqs, Starts(r), pc' = [pc EXCEPT ![r] = "sent"],
           UNCHANGED <<rows, table, asOf, acl, jobs, jobAt>>,
           \A q \in Reqs : q # r => req'[q] = req[q],
           req'[r].op # "create" => req'[r].id \in Live /\ req'[r].path = rows[req'[r].id],
           aclFailed' = aclFailed \/ (req'[r].op = "set" /\ aclFailed' = aclFailed \ {req'[r].path})
    PROVE  AclInv'
  <1>1. SUFFICES ASSUME peak' <= 1 PROVE Serially'
    BY DEF AclInv, Serially
  <1>2. Busy = {} /\ Jobbed = {} /\ peak <= 1
    BY <1>1, StartsFacts, MaxParallelAssumption DEF Types
  <1>3. Serially
    BY <1>2 DEF AclInv, Serially
  <1>4. /\ \A q \in Reqs : q # r => pc'[q] = pc[q] /\ pc'[q] \in {"idle", "done"}
        /\ pc'[r] = "sent" /\ Live' = Live /\ Jobbed' = {}
        /\ \A q \in Reqs : pc[q] \in {"idle", "done"}
    BY <1>2 DEF Busy, Live, Jobbed, Types
  <1>5. \A i \in Live : ~InTransit(i)
    BY <1>4 DEF InTransit, Deletes
  <1>6. Agrees'
    <2>1. \A i \in Live : rows[i] \in aclFailed \/ acl[rows[i]] = Granted(i)
      BY <1>2, <1>3, <1>5 DEF Serially, Agrees, Jobbed, Live, Types
    <2>2. ASSUME NEW i \in Live, rows[i] \in aclFailed, rows[i] \notin aclFailed'
          PROVE  InTransit(i)'
      <3>1. req'[r].op = "set" /\ rows[i] = req'[r].path
        BY <2>2
      <3>2. i = req'[r].id
        BY <3>1 DEF RowInv
      <3>3. QED
        BY <1>4, <3>1, <3>2 DEF InTransit
    <2>3. QED
      BY <1>4, <2>1, <2>2 DEF Agrees, Granted
  <1>7. InHand'
    BY <1>4 DEF InHand, Creates
  <1>8. Queued' /\ AtReset'
    BY <1>3, <1>4 DEF Queued, Serially, AtReset
  <1>9. QED
    BY <1>6, <1>7, <1>8 DEF Serially

\* The agent answers a request at once.
LEMMA AclTaken ==
    ASSUME Types, RowInv, PeakInv, AclInv, NEW r \in Reqs,
           create(r) \/ delete(r) \/ SubmitJob(r) \/ SetNow(r)
    PROVE  AclInv'
  <1> DEFINE p == req[r].path
  <1>1. /\ pc[r] = "sent" /\ r \in Busy /\ UNCHANGED <<rows, table, asOf, req, peak, jobAt>>
        /\ \A q \in Reqs : q # r => pc'[q] = pc[q]
        /\ p \in Paths /\ req[r].perms \in PermLists /\ req[r].as \in Numberings
    BY RequestsFacts
    DEF create, delete, SubmitJob, SetNow, Takes, Answers, Goes, Busy, Types, dbVars, aclVars
  <1>2. SUFFICES ASSUME peak <= 1 PROVE Serially'
    BY <1>1 DEF AclInv, Serially
  <1>3. /\ Serially /\ \A q \in Reqs : q # r => q \notin Busy /\ pc[q] \in {"idle", "done"}
        /\ \A q \in Paths : jobs[q] = <<>> /\ jobAt[q] = "reset"
    BY <1>1, <1>2, OneAtATime
  <1>4. /\ Live' = Live /\ \A i \in Live : rows[i] \in Paths
        /\ \A q \in Reqs : q # r => pc'[q] \in {"idle", "done"}
    BY <1>1, <1>3 DEF Live, Types
  <1>5. \A i \in Live : \/ rows[i] \in aclFailed \/ acl[rows[i]] = Granted(i)
                        \/ i = req[r].id /\ req[r].op = "set"
    BY <1>1, <1>3, <1>4 DEF Serially, Agrees, InTransit, Deletes
  <1>6. req[r].op # "create" =>
          /\ req[r].id \in Live /\ rows[req[r].id] = p
          /\ \A i \in Live : rows[i] = p => i = req[r].id
    BY <1>1, <1>3 DEF Serially, InHand, RowInv
  <1>7. CASE create(r)
    <2>1. req[r].op = "create" /\ jobs' = jobs /\ pc'[r] \in {"refused", "answered"}
      BY <1>1, <1>7 DEF create, Takes, Answers, Goes, Types
    <2>2. \/ UNCHANGED <<acl, aclFailed>> /\ pc'[r] = "refused"
          \/ /\ acl[p] = NoAcl /\ acl' = [acl EXCEPT ![p] = NoEntries]
             /\ aclFailed' = aclFailed \ {p} /\ pc'[r] = "answered"
      <3>1. CASE Refused(p)
        BY <1>7, <3>1 DEF create, Answers, Goes, Types
      <3>2. CASE ~Refused(p)
        BY <1>7, <3>2 DEF create, Answers, Goes, Refused, Types
      <3>3. QED
        BY <3>1, <3>2
    <2>3. pc'[r] = "answered" => \A i \in Live : rows[i] = p => InTransit(i)'
      BY <1>1, <2>1 DEF InTransit, Creates
    <2>4. Agrees'
      BY <1>1, <1>4, <1>5, <2>1, <2>2, <2>3 DEF Agrees, Granted, Types
    <2>5. InHand'
      <3>1. pc'[r] = "answered" => acl'[p] = NoEntries
        BY <1>1, <2>2 DEF Types
      <3>2. req'[r] = req[r] /\ pc'[r] \notin {"sent", "reset", "modify"}
        BY <1>1, <2>1
      <3>3. SUFFICES ASSUME NEW q \in Reqs, q = r
                     PROVE  /\ pc'[q] \in {"sent", "reset", "modify", "answered", "refused"} =>
                                 req'[q].op = "create"
                            /\ pc'[q] # "modify"
                            /\ pc'[q] = "answered" => acl'[req'[q].path] = NoEntries
        BY <1>4, <2>1, <3>2 DEF InHand, Creates, Asked
      <3>4. QED
        BY <2>1, <3>1, <3>2, <3>3
    <2>6. Queued' /\ AtReset'
      BY <1>1, <1>3, <2>1 DEF Queued, AtReset, Jobbed
    <2>7. QED
      BY <2>4, <2>5, <2>6 DEF Serially
  <1>8. CASE delete(r)
    <2>1. /\ req[r].op = "delete" /\ UNCHANGED <<jobs, aclFailed>> /\ pc'[r] = "answered"
          /\ acl' = IF req[r].flag THEN [acl EXCEPT ![p] = NoAcl] ELSE acl
      BY <1>8 DEF delete, Takes, Answers, Goes, Types
    <2>2. req[r].flag => InTransit(req[r].id)'
      BY <1>1, <2>1 DEF InTransit, Deletes
    <2>3. Agrees'
      BY <1>1, <1>4, <1>5, <1>6, <2>1, <2>2 DEF Agrees, Granted, Types
    <2>4. InHand'
      BY <1>1, <1>4, <1>6, <2>1 DEF InHand, Creates, Asked
    <2>5. Queued' /\ AtReset'
      BY <1>1, <1>3, <2>1 DEF Queued, AtReset, Jobbed
    <2>6. QED
      BY <2>3, <2>4, <2>5 DEF Serially
  <1>9. CASE SubmitJob(r)
    <2>1. /\ req[r].op = "set" /\ UNCHANGED <<acl, aclFailed>> /\ pc'[r] = "answered"
          /\ jobs' = [jobs EXCEPT ![p] = Append(@, Asked(r))]
      BY <1>9 DEF SubmitJob, Asked, Takes, Answers, Goes, Types
    <2>2. jobs[p] = <<>>
      BY <1>1, <1>3
    <2>3. /\ Append(jobs[p], Asked(r)) # <<>> /\ Len(Append(jobs[p], Asked(r))) = 1
          /\ Append(jobs[p], Asked(r))[1] = Asked(r)
      BY <2>2
    <2>4. /\ jobs'[p] # <<>> /\ Len(jobs'[p]) = 1 /\ jobs'[p][1] = Asked(r)
          /\ \A q \in Paths : q # p => jobs'[q] = <<>>
      BY <1>1, <1>3, <2>1, <2>3 DEF Types
    <2>5. InTransit(req[r].id)'
      BY <1>1, <2>1 DEF InTransit
    <2>6. Agrees'
      BY <1>1, <1>4, <1>5, <2>1, <2>5 DEF Agrees, Granted
    <2>7. InHand'
      BY <1>1, <1>4, <1>6, <2>1, <2>4 DEF InHand, Creates, Asked
    <2>8. Queued'
      BY <1>1, <1>3, <1>4, <2>1, <2>4 DEF Queued, Jobbed, Busy, Asked
    <2>9. AtReset'
      BY <1>1, <1>3 DEF AtReset
    <2>10. QED
      BY <2>6, <2>7, <2>8, <2>9 DEF Serially
  <1>10. CASE SetNow(r)
    <2>1. req[r].op = "set" /\ UNCHANGED <<acl, aclFailed, jobs>> /\ pc'[r] = "reset"
      BY <1>10 DEF SetNow, Takes, Goes, Types, aclVars
    <2>2. InTransit(req[r].id)'
      BY <1>1, <2>1 DEF InTransit
    <2>3. Agrees'
      BY <1>1, <1>4, <1>5, <2>1, <2>2 DEF Agrees, Granted
    <2>4. InHand'
      BY <1>1, <1>4, <1>6, <2>1 DEF InHand, Creates, Asked
    <2>5. Queued' /\ AtReset'
      BY <1>1, <1>3, <2>1 DEF Queued, AtReset, Jobbed
    <2>6. QED
      BY <2>3, <2>4, <2>5 DEF Serially
  <1>11. QED
    BY <1>7, <1>8, <1>9, <1>10

\* setfacl runs for the request under way.
LEMMA AclSet ==
    ASSUME Types, RowInv, ReqInv, PeakInv, AclInv, NEW r \in Reqs,
           AclReset(r) \/ AclModify(r) \/ AclFails(r)
    PROVE  AclInv'
  <1> DEFINE p == req[r].path
  <1>1. /\ pc[r] \in {"reset", "modify"} /\ r \in Busy
        /\ UNCHANGED <<rows, table, asOf, req, peak, jobs, jobAt>>
        /\ \A q \in Reqs : q # r => pc'[q] = pc[q]
        /\ p \in Paths /\ req[r].perms \in PermLists /\ req[r].as \in Numberings
    BY RequestsFacts
    DEF AclReset, AclModify, AclFails, Answers, Goes, Busy, Types, dbVars
  <1>2. req[r].op = "set"
    BY <1>1 DEF ReqInv
  <1>3. SUFFICES ASSUME peak <= 1 PROVE Serially'
    BY <1>1 DEF AclInv, Serially
  <1>4. /\ Serially /\ \A q \in Reqs : q # r => q \notin Busy /\ pc[q] \in {"idle", "done"}
        /\ \A q \in Paths : jobs[q] = <<>> /\ jobAt[q] = "reset"
    BY <1>1, <1>3, OneAtATime
  <1>5. /\ Live' = Live /\ \A i \in Live : rows[i] \in Paths
        /\ \A q \in Reqs : q # r => pc'[q] \in {"idle", "done"}
    BY <1>1, <1>4 DEF Live, Types
  <1>6. /\ req[r].id \in Live /\ rows[req[r].id] = p
        /\ \A i \in Live : rows[i] = p => i = req[r].id
    BY <1>1, <1>2, <1>4 DEF Serially, InHand, RowInv
  <1>7. \A i \in Live : i # req[r].id => rows[i] \in aclFailed \/ acl[rows[i]] = Granted(i)
    BY <1>1, <1>4, <1>5 DEF Serially, Agrees, InTransit, Deletes
  <1>8. Queued' /\ AtReset'
    BY <1>1, <1>4 DEF Queued, AtReset, Jobbed
  <1>9. CASE AclReset(r)
    <2>1. pc'[r] = "modify" /\ aclFailed' = aclFailed /\ acl' = [acl EXCEPT ![p] = NoEntries]
      BY <1>9 DEF AclReset, AfterReset, Goes, Types
    <2>2. InTransit(req[r].id)'
      BY <1>1, <1>2, <2>1 DEF InTransit
    <2>3. Agrees'
      BY <1>1, <1>5, <1>6, <1>7, <2>1, <2>2 DEF Agrees, Granted, Types
    <2>4. InHand'
      BY <1>1, <1>2, <1>5, <1>6, <2>1 DEF InHand, Creates, Asked, Types
    <2>5. QED
      BY <1>8, <2>3, <2>4 DEF Serially
  <1>10. CASE AclModify(r)
    <2>1. acl[p] = NoEntries
      BY <1>4, <1>10 DEF AclModify, Serially, InHand
    <2>2. Modified(p, Asked(r)) = Asked(r)
      BY <1>1, <2>1, EntriesFacts DEF Asked, Modified, NoEntries, EntryLists
    <2>3. pc'[r] = "answered" /\ aclFailed' = aclFailed /\ acl' = [acl EXCEPT ![p] = Asked(r)]
      BY <1>10, <2>2 DEF AclModify, Asked, Answers, Goes, Types
    <2>4. InTransit(req[r].id)'
      BY <1>1, <1>2, <2>3 DEF InTransit
    <2>5. Agrees'
      BY <1>1, <1>5, <1>6, <1>7, <2>3, <2>4 DEF Agrees, Granted, Types
    <2>6. acl'[p] = Asked(r) /\ \A q \in Reqs : Asked(q)' = Asked(q)
      BY <1>1, <2>3 DEF Asked, Types
    <2>7. InHand'
      BY <1>1, <1>2, <1>5, <1>6, <2>3, <2>6 DEF InHand, Creates
    <2>8. QED
      BY <1>8, <2>5, <2>7 DEF Serially
  <1>11. CASE AclFails(r)
    <2>1. pc'[r] = "refused" /\ aclFailed' = aclFailed \cup {p} /\ acl' = acl
      BY <1>11 DEF AclFails, Answers, Goes, Types
    <2>2. Agrees'
      BY <1>1, <1>5, <1>6, <1>7, <2>1 DEF Agrees, Granted
    <2>3. InHand'
      BY <1>1, <1>5, <1>6, <2>1 DEF InHand, Creates, Asked
    <2>4. QED
      BY <1>8, <2>2, <2>3 DEF Serially
  <1>12. QED
    BY <1>9, <1>10, <1>11

\* What the ACL was made to be becomes what the table says.
LEMMA AclCommitted ==
    ASSUME Types, RowInv, ReqInv, PeakInv, AclInv, NEW r \in Reqs, Commit(r)
    PROVE  AclInv'
  <1> DEFINE p == req[r].path
  <1>1. /\ pc[r] = "answered" /\ r \in Busy /\ pc'[r] = "conf"
        /\ UNCHANGED <<req, peak, acl, jobs, jobAt, aclFailed>>
        /\ \A q \in Reqs : q # r => pc'[q] = pc[q]
        /\ p \in Paths /\ req[r].perms \in PermLists /\ req[r].as \in Numberings
        /\ req[r].op \in {"create", "delete", "set"}
    BY RequestsFacts DEF Commit, TakesAnswer, Goes, Busy, Types
  <1>2. SUFFICES ASSUME peak <= 1 PROVE Serially'
    BY <1>1 DEF AclInv, Serially
  <1>3. /\ Serially /\ \A q \in Reqs : q # r => q \notin Busy /\ pc[q] \in {"idle", "done"}
        /\ req[r].op # "set" => \A q \in Paths : jobs[q] = <<>> /\ jobAt[q] = "reset"
    BY <1>1, <1>2, OneAtATime
  <1>4. /\ \A i \in Live : rows[i] \in Paths
        /\ \A q \in Reqs : pc'[q] \in {"idle", "done", "conf"}
        /\ \A q \in Reqs : q # r => q \notin Busy'
    <2>1. \A i \in Live : rows[i] \in Paths
      BY DEF Live, Types
    <2>2. \A q \in Reqs : pc'[q] \in {"idle", "done", "conf"}
      BY <1>1, <1>3
    <2>3. \A q \in Reqs : q # r => q \notin Busy'
      BY <1>1, <1>3 DEF Busy
    <2>4. QED
      BY <2>1, <2>2, <2>3
  <1>5. req[r].op # "create" =>
          /\ req[r].id \in Live /\ rows[req[r].id] = p
          /\ \A i \in Live : rows[i] = p => i = req[r].id
    BY <1>1, <1>3 DEF Serially, InHand, RowInv
  <1>6. \A i \in Live : \/ rows[i] \in aclFailed \/ acl[rows[i]] = Granted(i)
                        \/ jobs[rows[i]] # <<>> \/ (i = req[r].id /\ req[r].op # "create")
                        \/ (req[r].op = "create" /\ rows[i] = p)
    BY <1>1, <1>3, <1>4 DEF Serially, Agrees, InTransit, Creates, Deletes
  <1>7. InHand'
    BY <1>4 DEF InHand
  <1>8. AtReset'
    BY <1>1, <1>3 DEF Serially, AtReset
  <1>9. CASE req[r].op = "set"
    <2>1. /\ rows' = rows /\ Live' = Live
          /\ \A i \in Ids : table'[i] = IF i = req[r].id THEN req[r].perms ELSE table[i]
          /\ asOf' = [asOf EXCEPT ![p] = req[r].as]
      BY <1>5, <1>9, CommitFacts DEF Live
    <2>2. /\ Live \subseteq Ids
          /\ \A i \in Live : Granted(i)' = IF i = req[r].id THEN Asked(r) ELSE Granted(i)
      <3>1. Live \subseteq Ids /\ \A i \in Live : rows[i] \in Paths
        BY <1>4 DEF Live
      <3>2. \A q \in Paths : asOf'[q] = IF q = p THEN req[r].as ELSE asOf[q]
        BY <2>1 DEF Types
      <3>3. QED
        BY <1>5, <1>9, <2>1, <3>1, <3>2 DEF Granted, Asked
    <2>3. jobs[p] # <<>> \/ p \in aclFailed \/ acl[p] = Asked(r)
      BY <1>1, <1>3, <1>9 DEF Serially, InHand
    <2>4. Agrees'
      BY <1>1, <1>5, <1>6, <1>9, <2>1, <2>2, <2>3 DEF Agrees
    <2>5. Queued'
      <3>1. SUFFICES ASSUME NEW q \in Jobbed PROVE
              /\ Len(jobs[q]) = 1
              /\ jobAt[q] = "modify" => acl[q] = NoEntries
              /\ q = p /\ jobs[q][1] = Asked(r)
        <4>1. Jobbed' = Jobbed /\ pc'[r] # "answered"
          BY <1>1 DEF Jobbed
        <4>2. \A i \in Live' : rows'[i] = p => Granted(i)' = Asked(r)
          BY <1>5, <1>9, <2>1, <2>2
        <4>3. \A q \in Busy' : q = r
          BY <1>4 DEF Busy
        <4>4. QED
          BY <1>1, <1>9, <4>1, <4>2, <4>3 DEF Queued, Asked
      <3>2. QED
        BY <1>1, <1>3 DEF Serially, Queued
    <2>6. QED
      BY <1>7, <1>8, <2>4, <2>5 DEF Serially
  <1>10. CASE req[r].op # "set"
    <2>1. \A q \in Paths : jobs[q] = <<>>
      BY <1>3, <1>10
    <2>2. Queued'
      BY <1>1, <2>1 DEF Queued, Jobbed
    <2>3. Agrees'
      <3>1. CASE req[r].op = "create"
        <4>1. /\ table' = table /\ asOf' = asOf /\ NextId \notin Live
              /\ \A i \in Live : rows[i] # p
              /\ \A i \in Ids : rows'[i] = IF i = NextId THEN p ELSE rows[i]
          BY <3>1, CommitFacts
        <4>2. acl[p] = NoEntries
          BY <1>1, <1>3, <3>1 DEF Serially, InHand, Creates
        <4>3. ASSUME NEW i \in Live'
              PROVE  rows'[i] \in aclFailed \/ acl[rows'[i]] = Granted(i)'
          <5>1. CASE i \in Live
            BY <1>4, <1>6, <2>1, <3>1, <4>1, <5>1 DEF Live, Granted
          <5>2. CASE i \notin Live
            <6>1. i \in Ids /\ rows[i] = NoRow /\ rows'[i] = p
              BY <4>1, <4>3, <5>2 DEF Live
            <6>2. Granted(i)' = Entries(Nobody, asOf[p])
              BY <4>1, <6>1 DEF RowInv, Granted
            <6>3. QED
              BY <1>1, <4>2, <6>1, <6>2, EntriesFacts DEF Types
          <5>3. QED
            BY <5>1, <5>2
        <4>4. QED
          BY <1>1, <4>3 DEF Agrees
      <3>2. CASE req[r].op = "delete"
        <4>1. /\ \A i \in Ids : rows'[i] = IF i = req[r].id THEN NoRow ELSE rows[i]
              /\ \A i \in Ids : table'[i] = IF i = req[r].id THEN Nobody ELSE table[i]
              /\ asOf' = asOf
          BY <3>2, CommitFacts
        <4>2. \A i \in Live' : /\ i \in Live /\ i # req[r].id /\ rows'[i] = rows[i]
                               /\ Granted(i)' = Granted(i)
          BY <4>1 DEF Live, Granted
        <4>3. QED
          BY <1>1, <1>4, <1>6, <2>1, <3>2, <4>2 DEF Agrees
      <3>3. QED
        BY <1>1, <1>10, <3>1, <3>2
    <2>4. QED
      BY <1>7, <1>8, <2>2, <2>3 DEF Serially
  <1>11. QED
    BY <1>9, <1>10

\* What a request does after its commit is not about the ACL.
LEMMA AclAfter ==
    ASSUME Types, RowInv, ReqInv, PeakInv, AclInv, NEW r \in Reqs,
           pc[r] \in {"conf", "written", "ended"},
           Return(r) \/ WriteConf(r) \/ ConfApplied(r) \/ ConfFails(r) \/ Unserved(r)
    PROVE  AclInv'
  <1>1. /\ UNCHANGED <<rows, table, asOf, acl, jobs, jobAt, aclFailed, peak>>
        /\ r \in Busy
        /\ \A q \in Reqs : q # r => pc'[q] = pc[q] /\ req'[q] = req[q]
        /\ \/ pc'[r] = "done"
           \/ pc'[r] \in {"written", "ended"} /\ req'[r] = req[r]
    BY DEF Return, WriteConf, ConfApplied, ConfFails, Unserved, TakesAnswer, Answers, Ends, Goes,
           Busy, Types, dbVars, aclVars
  <1>2. SUFFICES ASSUME peak <= 1 PROVE Serially'
    BY <1>1 DEF AclInv, Serially
  <1>3. /\ Serially /\ \A q \in Reqs : q # r => q \notin Busy /\ pc[q] \in {"idle", "done"}
    BY <1>1, <1>2, OneAtATime
  <1>4. /\ Live' = Live /\ (\A q \in Reqs : pc'[q] \in {"idle", "done", "written", "ended"})
        /\ Busy' \subseteq Busy /\ (r \in Busy' => req'[r] = req[r] /\ pc'[r] \in {"written", "ended"})
        /\ (\A q \in Reqs : q # r => q \notin Busy') /\ Jobbed' = Jobbed
        /\ \A i \in Live : rows[i] \in Paths /\ Granted(i)' = Granted(i)
    BY <1>1, <1>3 DEF Live, Busy, Jobbed, Granted, Types
  <1>5. \A q \in Reqs : pc[q] \in {"idle", "done", "conf", "written", "ended"}
    BY <1>3
  <1>6. \A i \in Live : ~InTransit(i)
    BY <1>5 DEF InTransit
  <1>7. Agrees'
    BY <1>1, <1>3, <1>4, <1>6 DEF Serially, Agrees
  <1>8. InHand'
    BY <1>4 DEF InHand
  <1>9. Queued'
    <2>1. ASSUME NEW p \in Jobbed
          PROVE  /\ Len(jobs[p]) = 1
                 /\ jobAt[p] = "modify" => acl[p] = NoEntries
                 /\ r \in Busy' => req[r].op = "set" /\ req[r].path = p
                 /\ \A i \in Live : rows[i] = p => p \in aclFailed \/ jobs[p][1] = Granted(i)
      <3>1. \A q \in Reqs : pc[q] # "answered"
        BY <1>5
      <3>2. QED
        BY <1>1, <1>3, <3>1 DEF Serially, Queued
    <2>2. \A q \in Busy' : q = r /\ req'[r] = req[r] /\ pc'[r] \in {"written", "ended"}
      BY <1>4 DEF Busy
    <2>3. QED
      BY <1>1, <1>4, <2>1, <2>2 DEF Queued
  <1>10. AtReset'
    BY <1>1, <1>3 DEF Serially, AtReset
  <1>11. QED
    BY <1>7, <1>8, <1>9, <1>10 DEF Serially

\* A request whose call is not served has changed nothing.
LEMMA AclUnserved ==
    ASSUME Types, RowInv, PeakInv, AclInv, NEW r \in Reqs, Unserved(r), pc[r] = "sent"
    PROVE  AclInv'
  <1>1. /\ UNCHANGED <<rows, table, asOf, req, peak, acl, jobs, jobAt, aclFailed>>
        /\ r \in Busy /\ pc'[r] = "refused"
        /\ \A q \in Reqs : q # r => pc'[q] = pc[q]
    BY DEF Unserved, Answers, Goes, Busy, Types, dbVars, aclVars
  <1>2. SUFFICES ASSUME peak <= 1 PROVE Serially'
    BY <1>1 DEF AclInv, Serially
  <1>3. /\ Serially /\ \A q \in Reqs : q # r => q \notin Busy /\ pc[q] \in {"idle", "done"}
        /\ \A q \in Paths : jobs[q] = <<>> /\ jobAt[q] = "reset"
    BY <1>1, <1>2, OneAtATime
  <1>4. /\ Live' = Live /\ \A i \in Live : Granted(i)' = Granted(i)
        /\ \A q \in Reqs : q # r => pc'[q] \in {"idle", "done"}
    BY <1>1, <1>3 DEF Live, Granted
  <1>5. \A i \in Live : InTransit(i) => InTransit(i)'
    BY <1>1 DEF InTransit, Creates, Deletes
  <1>6. Agrees'
    BY <1>1, <1>3, <1>4, <1>5 DEF Serially, Agrees
  <1>7. InHand'
    BY <1>1, <1>3, <1>4 DEF Serially, InHand, Creates
  <1>8. Queued' /\ AtReset'
    BY <1>1, <1>3 DEF Queued, AtReset, Jobbed
  <1>9. QED
    BY <1>6, <1>7, <1>8 DEF Serially

\* A request that gives up says so of the path it was about.
LEMMA AclGivenUp ==
    ASSUME Types, RowInv, PeakInv, AclInv, NEW r \in Reqs, GivesUp(r)
    PROVE  AclInv'
  <1>1. /\ UNCHANGED <<rows, table, asOf, acl, jobs, jobAt, peak>>
        /\ pc[r] \in {"answered", "refused"} /\ r \in Busy /\ pc'[r] = "done"
        /\ \A q \in Reqs : q # r => pc'[q] = pc[q] /\ req'[q] = req[q]
        /\ aclFailed \subseteq aclFailed'
        /\ \/ req[r].op = "set"
           \/ pc[r] = "answered" /\ (Deletes(r) \/ Creates(r))
           => req[r].path \in aclFailed'
    BY DEF GivesUp, TakesAnswer, Ends, Goes, Busy, Types, dbVars, Removed, Made, Creates, Deletes
  <1>2. SUFFICES ASSUME peak <= 1 PROVE Serially'
    BY <1>1 DEF AclInv, Serially
  <1>3. /\ Serially /\ \A q \in Reqs : q # r => q \notin Busy /\ pc[q] \in {"idle", "done"}
    BY <1>1, <1>2, OneAtATime
  <1>4. /\ Live' = Live /\ (\A q \in Reqs : pc'[q] \in {"idle", "done"})
        /\ Busy' = {} /\ Jobbed' = Jobbed
        /\ \A i \in Live : Granted(i)' = Granted(i)
    BY <1>1, <1>3 DEF Live, Busy, Jobbed, Granted
  <1>5. \A i \in Live : InTransit(i) => rows[i] \in aclFailed'
    <2>1. ASSUME NEW i \in Live, InTransit(i)
          PROVE  rows[i] \in aclFailed'
      <3>1. \/ req[r].op = "set" /\ req[r].id = i
            \/ /\ pc[r] = "answered"
               /\ (Deletes(r) /\ req[r].id = i) \/ (Creates(r) /\ req[r].path = rows[i])
        BY <1>3, <2>1 DEF InTransit
      <3>2. req[r].op # "create" => rows[req[r].id] = req[r].path
        BY <1>1, <1>3 DEF Serially, InHand
      <3>3. QED
        BY <1>1, <3>1, <3>2 DEF Deletes
    <2>2. QED
      BY <2>1
  <1>6. Agrees'
    BY <1>1, <1>3, <1>4, <1>5 DEF Serially, Agrees
  <1>7. InHand'
    BY <1>4 DEF InHand
  <1>8. Queued'
    BY <1>1, <1>3, <1>4 DEF Serially, Queued
  <1>9. AtReset'
    BY <1>1, <1>3 DEF Serially, AtReset
  <1>10. QED
    BY <1>6, <1>7, <1>8, <1>9 DEF Serially

\* setfacl runs for a job.
LEMMA AclJobs ==
    ASSUME Types, RowInv, PeakInv, AclInv, NEW p \in Paths, Job(p)
    PROVE  AclInv'
  <1>1. /\ UNCHANGED <<rows, table, asOf, pc, req, peak>> /\ p \in Jobbed /\ jobs[p] # <<>>
    BY DEF Job, JobReset, JobModify, JobFails, Jobbed, dbVars
  <1>2. SUFFICES ASSUME peak <= 1 PROVE Serially'
    BY <1>1 DEF AclInv, Serially
  <1>3. Serially
    BY <1>2 DEF AclInv, Serially
  <1>4. /\ Live' = Live /\ Busy' = Busy /\ \A i \in Live : rows[i] \in Paths
        /\ \A i \in Live : (InTransit(i) => InTransit(i)') /\ Granted(i)' = Granted(i)
    BY <1>1 DEF Live, Busy, InTransit, Creates, Deletes, Granted, Types
  <1>5. /\ Len(jobs[p]) = 1 /\ jobs[p] \in Seq(EntryLists)
        /\ jobAt[p] = "modify" => acl[p] = NoEntries
        /\ \A r \in Busy :
             /\ req[r].op = "set" /\ req[r].path = p
             /\ pc[r] \in {"answered", "conf", "written", "ended"}
             /\ pc[r] = "answered" => jobs[p][1] = Asked(r)
        /\ (\A r \in Reqs : pc[r] # "answered") =>
             \A i \in Live : rows[i] = p => p \in aclFailed \/ jobs[p][1] = Granted(i)
    BY <1>1, <1>3 DEF Serially, Queued, Types
  <1>6. Tail(jobs[p]) = <<>> /\ Head(jobs[p]) = jobs[p][1] /\ jobs[p][1] \in EntryLists
    BY <1>5, OneElement
  <1>7. /\ \A r \in Reqs : pc[r] \in {"sent", "reset", "modify", "answered", "refused"} =>
             pc[r] = "answered" /\ req[r].op = "set" /\ req[r].path = p
        /\ \A r \in Reqs : req[r].path \in Paths
    BY <1>5, RequestsFacts DEF Busy, Types
  <1>8. ASSUME NEW i \in Live, rows[i] = p, NEW r \in Reqs, pc[r] = "answered"
        PROVE  InTransit(i)
    <2>1. req[r].op = "set" /\ req[r].path = p
      BY <1>7, <1>8
    <2>2. req[r].id \in Live /\ rows[req[r].id] = p
      BY <1>3, <1>8, <2>1 DEF Serially, InHand
    <2>3. req[r].id = i
      BY <1>8, <2>2 DEF RowInv
    <2>4. QED
      BY <1>8, <2>1, <2>3 DEF InTransit
  <1>9. CASE JobReset(p)
    <2>1. /\ acl' = [acl EXCEPT ![p] = NoEntries] /\ jobAt' = [jobAt EXCEPT ![p] = "modify"]
          /\ UNCHANGED <<jobs, aclFailed>>
      BY <1>9 DEF JobReset, AfterReset
    <2>2. Agrees'
      BY <1>1, <1>3, <1>4, <2>1 DEF Serially, Agrees, Types
    <2>3. InHand'
      BY <1>1, <1>3, <1>4, <1>7, <2>1 DEF Serially, InHand, Creates, Asked
    <2>4. Queued'
      <3>1. Jobbed' = Jobbed /\ \A q \in Paths : q # p => acl'[q] = acl[q] /\ jobAt'[q] = jobAt[q]
        BY <2>1 DEF Jobbed, Types
      <3>2. acl'[p] = NoEntries
        BY <2>1 DEF Types
      <3>3. Jobbed \subseteq Paths
        BY DEF Jobbed
      <3>4. QED
        BY <1>1, <1>3, <1>4, <2>1, <3>1, <3>2, <3>3 DEF Serially, Queued, Asked
    <2>5. AtReset'
      BY <1>1, <1>3, <2>1 DEF Serially, AtReset, Types
    <2>6. QED
      BY <2>2, <2>3, <2>4, <2>5 DEF Serially
  <1>10. CASE JobModify(p) \/ JobFails(p)
    <2>1. /\ jobs' = [jobs EXCEPT ![p] = <<>>] /\ jobAt' = [jobAt EXCEPT ![p] = "reset"]
      BY <1>6, <1>10 DEF JobModify, JobFails, JobEnds, Types
    <2>2. /\ jobs'[p] = <<>> /\ jobAt'[p] = "reset"
          /\ \A q \in Paths : q # p => jobs'[q] = jobs[q] /\ jobAt'[q] = jobAt[q]
      BY <2>1 DEF Types
    <2>3. \/ acl' = [acl EXCEPT ![p] = jobs[p][1]] /\ aclFailed' = aclFailed
          \/ acl' = acl /\ aclFailed' = aclFailed \cup {p}
      <3>1. CASE JobModify(p)
        <4>1. Modified(p, jobs[p][1]) = jobs[p][1]
          BY <1>5, <1>6, <3>1 DEF JobModify, Modified, NoEntries, EntryLists
        <4>2. QED
          BY <1>6, <3>1, <4>1 DEF JobModify
      <3>2. CASE JobFails(p)
        BY <3>2 DEF JobFails
      <3>3. QED
        BY <1>10, <3>1, <3>2
    <2>4. p \in aclFailed' \/ acl'[p] = jobs[p][1]
      BY <2>3 DEF Types
    <2>5. \A q \in Paths : q # p => acl'[q] = acl[q]
      BY <2>3 DEF Types
    <2>6. Agrees'
      <3>1. ASSUME NEW i \in Live, rows[i] = p
            PROVE  p \in aclFailed' \/ acl'[p] = Granted(i) \/ InTransit(i)'
        BY <1>4, <1>5, <1>8, <2>3, <2>4, <3>1
      <3>2. QED
        BY <1>1, <1>3, <1>4, <2>2, <2>3, <2>5, <3>1 DEF Serially, Agrees
    <2>7. InHand'
      <3>1. \A r \in Reqs : Asked(r)' = Asked(r)
        BY <1>1 DEF Asked
      <3>2. ASSUME NEW r \in Reqs, pc[r] = "answered"
            PROVE  req[r].path \in aclFailed' \/ acl'[req[r].path] = Asked(r)
        <4>1. req[r].path = p /\ jobs[p][1] = Asked(r)
          BY <1>5, <1>7, <3>2 DEF Busy
        <4>2. QED
          BY <2>4, <4>1
      <3>3. \A r \in Reqs : pc[r] # "modify" /\ ~(pc[r] = "answered" /\ Creates(r))
        BY <1>7 DEF Creates
      <3>4. QED
        BY <1>1, <1>3, <1>4, <3>1, <3>2, <3>3 DEF Serially, InHand, Creates
    <2>8. Queued'
      <3>1. Jobbed' = Jobbed \ {p} /\ aclFailed \subseteq aclFailed' /\ Jobbed \subseteq Paths
        BY <2>2, <2>3 DEF Jobbed
      <3>2. \A r \in Reqs : Asked(r)' = Asked(r)
        BY <1>1 DEF Asked
      <3>3. QED
        BY <1>1, <1>3, <1>4, <2>2, <2>5, <3>1, <3>2 DEF Serially, Queued
    <2>9. AtReset'
      BY <1>3, <2>2 DEF Serially, AtReset
    <2>10. QED
      BY <2>6, <2>7, <2>8, <2>9 DEF Serially
  <1>11. QED
    BY <1>9, <1>10 DEF Job

\* As long as no request starts with another request or a job under way, the
\* ACL follows the table.
LEMMA AclStep ==
    ASSUME Types, RowInv, ReqInv, PeakInv, AclInv, [Next]_vars
    PROVE  AclInv'
  <1>1. ASSUME NEW r \in Reqs, NEW p \in Paths, create_share(r, p)
        PROVE  AclInv'
    <2>1. /\ Starts(r) /\ pc' = [pc EXCEPT ![r] = "sent"]
          /\ UNCHANGED <<rows, table, asOf, acl, jobs, jobAt, aclFailed>>
      BY <1>1 DEF create_share, Goes, dbVars, aclVars
    <2>2. (\A q \in Reqs : q # r => req'[q] = req[q]) /\ req'[r].op = "create"
      BY <1>1, RequestsFacts DEF create_share, Types, Requests
    <2>3. QED
      BY <2>1, <2>2, AclStarts
  <1>2. ASSUME NEW r \in Reqs, NEW i \in Ids, NEW files \in BOOLEAN, delete_share(r, i, files)
        PROVE  AclInv'
    <2>1. /\ Starts(r) /\ pc' = [pc EXCEPT ![r] = "sent"]
          /\ UNCHANGED <<rows, table, asOf, acl, jobs, jobAt, aclFailed>>
      BY <1>2 DEF delete_share, Goes, dbVars, aclVars
    <2>2. /\ \A q \in Reqs : q # r => req'[q] = req[q]
          /\ req'[r].id = i /\ i \in Live /\ req'[r].path = rows[i]
      BY <1>2 DEF delete_share, Types, Requests
    <2>3. QED
      BY <2>1, <2>2, AclStarts
  <1>3. ASSUME NEW r \in Reqs, NEW i \in Ids, NEW perms \in PermLists, NEW recursive \in BOOLEAN,
               set_share_permissions(r, i, perms, recursive)
        PROVE  AclInv'
    <2>1. /\ Starts(r) /\ pc' = [pc EXCEPT ![r] = "sent"]
          /\ UNCHANGED <<rows, table, asOf, acl, jobs, jobAt>>
      BY <1>3 DEF set_share_permissions, Goes, dbVars
    <2>2. /\ \A q \in Reqs : q # r => req'[q] = req[q]
          /\ req'[r].op = "set" /\ req'[r].id = i /\ i \in Live /\ req'[r].path = rows[i]
          /\ aclFailed' = aclFailed \ {req'[r].path}
      BY <1>3 DEF set_share_permissions, Types
    <2>3. QED
      BY <2>1, <2>2, AclStarts
  <1>4. CASE Renames \/ UNCHANGED vars
    <2>1. UNCHANGED <<rows, table, asOf, acl, jobs, jobAt, aclFailed, req, pc>> /\ peak <= peak'
      BY <1>4, RenamesFacts, MaxParallelAssumption DEF vars, dbVars, aclVars, Types
    <2>2. /\ Agrees => Agrees'
          /\ InHand => InHand'
          /\ Queued => Queued'
          /\ AtReset => AtReset'
      BY <2>1 DEF Agrees, InHand, Queued, AtReset, InTransit, Granted, Asked, Creates, Deletes,
         Live, Busy, Jobbed
    <2>3. peak' <= 1 => peak <= 1
      BY <1>4, <2>1, RenamesFacts, MaxParallelAssumption DEF Types, vars
    <2>4. QED
      BY <2>2, <2>3 DEF AclInv
  <1>5. ASSUME NEW r \in Reqs, Unserved(r)
        PROVE  AclInv'
    BY <1>5, AclUnserved, AclAfter DEF Unserved
  <1>6. ASSUME NEW r \in Reqs, Return(r) \/ WriteConf(r) \/ ConfApplied(r) \/ ConfFails(r)
        PROVE  AclInv'
    BY <1>6, AclAfter DEF Return, TakesAnswer, WriteConf, ConfApplied, ConfFails
  <1>7. QED
    BY <1>1, <1>2, <1>3, <1>4, <1>5, <1>6, AclTaken, AclSet, AclCommitted, AclGivenUp, AclJobs
    DEF Next, Web, Agent, Renames
-----------------------------------------------------------------------------
(* The theorems.                                                            *)

LEMMA InitInv == Init => IInv
  <1> SUFFICES ASSUME Init PROVE IInv
    OBVIOUS
  <1>1. PICK P \in {{}} \cup {{p} : p \in Paths} :
          /\ rows = [i \in Ids |-> IF i = 1 /\ P # {} THEN CHOOSE p \in P : TRUE ELSE NoRow]
          /\ acl = [p \in Paths |-> IF p \in P THEN NoEntries ELSE NoAcl]
          /\ conf = {<<p, Nobody>> : p \in P}
    BY DEF Init
  <1>2. /\ table = [i \in Ids |-> Nobody]
        /\ jobs = [p \in Paths |-> <<>>] /\ jobAt = [p \in Paths |-> "reset"]
        /\ wire = <<>> /\ back = <<>>
        /\ req = [r \in Reqs |-> NoRequest] /\ pc = [r \in Reqs |-> "idle"]
        /\ rendering = [r \in Reqs |-> {}] /\ prevConf = [r \in Reqs |-> {}]
        /\ aclFailed = {} /\ stripped = {} /\ confFailed = FALSE /\ peak = 0 /\ moves = 0
        /\ number \in [Principals -> Numbers] /\ Distinct(number)
        /\ asOf = [p \in Paths |-> number]
    BY DEF Init
  <1>3. /\ P \subseteq Paths /\ 1 \in Ids
        /\ \A i \in Live : i = 1 /\ rows[1] \in P /\ P = {rows[1]}
        /\ P # {} => 1 \in Live
    <2>1. 1 \in Ids
      BY SetsAssumption, FS_CardinalityType DEF Ids
    <2>2. CASE P = {}
      BY <1>1, <2>1, <2>2 DEF Live
    <2>3. CASE P # {}
      <3>1. PICK p \in Paths : P = {p}
        BY <1>1, <2>3
      <3>2. (CHOOSE q \in P : TRUE) = p
        BY <3>1
      <3>3. \A i \in Ids : rows[i] = IF i = 1 THEN p ELSE NoRow
        BY <1>1, <2>3, <3>2
      <3>4. QED
        BY <2>1, <3>1, <3>3, NoneAssumption DEF Live
    <2>4. QED
      BY <2>2, <2>3
  <1>4. Busy = {} /\ Jobbed = {} /\ \A r \in Reqs : pc[r] = "idle"
    BY <1>2 DEF Busy, Jobbed
  <1>5. Types
    <2>1. rows \in [Ids -> Paths \cup {NoRow}]
      <3>1. P # {} => (CHOOSE p \in P : TRUE) \in Paths
        BY <1>3
      <3>2. QED
        BY <1>1, <3>1
    <2>2. /\ acl \in [Paths -> EntryLists \cup {NoAcl}] /\ table \in [Ids -> PermLists]
          /\ conf \in SUBSET Sections
      BY <1>1, <1>2, <1>3, NobodyFacts DEF Sections
    <2>3. jobs \in [Paths -> Seq(EntryLists)] /\ jobAt \in [Paths -> {"reset", "modify"}]
      BY <1>2
    <2>4. peak \in 0..MaxParallel /\ moves \in 0..MaxMoves
      BY <1>2, MaxParallelAssumption
    <2>5. number \in Numberings /\ Distinct(number) /\ asOf \in [Paths -> Numberings]
      <3>1. number \in Numberings
        BY <1>2 DEF Numberings
      <3>2. QED
        BY <1>2, <3>1
    <2>6. QED
      <3>1. /\ req \in [Reqs -> Requests] /\ wire \in Seq(Reqs) /\ back \in Seq(Reqs)
            /\ rendering \in [Reqs -> SUBSET Sections] /\ prevConf \in [Reqs -> SUBSET Sections]
        BY <1>2, RequestsFacts
      <3>2. pc \in [Reqs -> {"idle", "sent", "reset", "modify", "answered", "refused",
                             "conf", "written", "ended", "done"}]
            /\ aclFailed \subseteq Paths /\ stripped \subseteq Paths /\ confFailed \in BOOLEAN
        BY <1>2
      <3>3. QED
        BY <2>1, <2>2, <2>3, <2>4, <2>5, <3>1, <3>2 DEF Types
  <1>6. RowInv
    BY <1>2, <1>3 DEF RowInv
  <1>7. WireInv /\ BackInv /\ ReqInv
    BY <1>2, <1>4 DEF WireInv, BackInv, ReqInv
  <1>8. ConfInv
    <2>1. Waiting = {}
      BY <1>2 DEF Waiting
    <2>2. {j \in Ids : rows[j] # NoRow} = Live /\ \A i \in Live : i = 1 /\ table[1] = Nobody
      BY <1>2, <1>3 DEF Live
    <2>3. conf = Rendered(rows, table)
      <3>1. Rendered(rows, table) = {<<rows[i], table[i]>> : i \in Live}
        BY <2>2 DEF Rendered
      <3>2. CASE P = {}
        BY <1>1, <1>3, <3>1, <3>2
      <3>3. CASE P # {}
        <4>1. 1 \in Live /\ \A i \in Live : i = 1
          BY <1>3, <3>3
        <4>2. Live = {1} /\ P = {rows[1]} /\ table[1] = Nobody
          BY <1>3, <2>2, <4>1
        <4>3. QED
          BY <1>1, <3>1, <4>2
      <3>4. QED
        BY <3>2, <3>3
    <2>4. QED
      BY <2>1, <2>3 DEF ConfInv
  <1>9. PeakInv
    BY <1>4, FS_EmptySet DEF PeakInv
  <1>10. \A i \in Live : /\ acl[rows[i]] = NoEntries /\ rows[i] \in Paths
                        /\ Granted(i) = NoEntries
    <2>1. \A i \in Live : /\ acl[rows[i]] = NoEntries /\ rows[i] \in Paths
                         /\ table[i] = Nobody /\ asOf[rows[i]] \in Numberings
      BY <1>1, <1>2, <1>3, <1>5 DEF Live, Types
    <2>2. QED
      BY <2>1, EntriesFacts, NobodyFacts DEF Granted
  <1>11. DirInv
    BY <1>2, <1>4, <1>10, NobodyFacts DEF DirInv, Owned, Removal, Creation, Ahead
  <1>12. AclInv
    BY <1>2, <1>4, <1>10 DEF AclInv, Agrees, InHand, Queued, AtReset
  <1>13. QED
    BY <1>5, <1>6, <1>7, <1>8, <1>9, <1>11, <1>12 DEF IInv

\* Every step keeps the invariant.
LEMMA NextInv == IInv /\ [Next]_vars => IInv'
  BY TypesStep, RowStep, WireStep, BackStep, ReqStep, ConfStep, PeakStep, DirStep, AclStep
  DEF IInv

THEOREM Invariance == Spec => []IInv
  BY InitInv, NextInv, PTL DEF Spec

\* The variables have their types, and no name has two rows.
THEOREM TypeCorrect == Spec => []TypeOK
  <1>1. IInv => TypeOK
    BY DEF IInv, Types, RowInv, TypeOK
  <1>2. QED
    BY <1>1, Invariance, PTL

\* Nothing is under way: no call is on its way.
LEMMA QuietFacts ==
    ASSUME IInv, Quiet
    PROVE  \A r \in Reqs : pc[r] \in {"idle", "done"}
  BY DEF Quiet, Busy

\* Between requests nasos.conf is what the tables render to, unless an apply
\* failed since the last was sent: however requests overlapped, and however
\* many there were.
THEOREM ConfFollowsTables == Spec => []ConfIsCurrent
  <1>1. IInv => ConfIsCurrent
    <2>1. SUFFICES ASSUME IInv, Quiet, ~confFailed PROVE conf = Rendered(rows, table)
      BY DEF ConfIsCurrent
    <2>2. Waiting = {}
      <3>1. \A r \in Reqs : pc[r] # "conf"
        BY <2>1, QuietFacts
      <3>2. \A k \in DOMAIN wire : wire[k] \in Reqs
        BY <2>1 DEF IInv, Types
      <3>3. QED
        BY <3>1, <3>2 DEF Waiting
    <2>3. QED
      BY <2>1, <2>2 DEF IInv, ConfInv
  <1>2. QED
    BY <1>1, Invariance, PTL

\* Between requests every share has its directory, if no request ever started
\* with two others under way, unless a deletion of that very share removed it
\* and then did not come to the row.
THEOREM NoShareWithoutDirectory == Spec => []ShareHasDirectory
  <1>1. IInv => ShareHasDirectory
    BY QuietFacts DEF ShareHasDirectory, IInv, DirInv, Owned, Emptied
  <1>2. QED
    BY <1>1, Invariance, PTL

\* Between requests the ACL grants what the table grants to the numbers the
\* names had when the permissions were set, and nothing to any other, as long
\* as requests and their jobs come one after the other.
THEOREM AclFollowsTable == Spec => []AclIsTableSerially
  <1>1. IInv => AclIsTableSerially
    <2>1. SUFFICES ASSUME IInv, peak <= 1, Quiet, NEW i \in Live, rows[i] \notin aclFailed
                   PROVE  acl[rows[i]] = Granted(i)
      BY DEF AclIsTableSerially, Granted
    <2>2. \A r \in Reqs : pc[r] \in {"idle", "done"}
      BY <2>1, QuietFacts
    <2>3. rows[i] \in Paths /\ Jobbed = {}
      BY <2>1 DEF IInv, Types, Live, Quiet
    <2>4. QED
      BY <2>1, <2>2, <2>3 DEF IInv, AclInv, Agrees, InTransit, Deletes, Jobbed
  <1>2. QED
    BY <1>1, Invariance, PTL

\* A share starts with nobody on its ACL, as long as requests and their jobs
\* come one after the other.
THEOREM NewShareStartsClosed == Spec => NewShareIsClosed
  <1> DEFINE Closed == \A i \in Ids : rows[i] = NoRow /\ rows'[i] # NoRow /\ peak <= 1 =>
                         acl[rows'[i]] = NoEntries
  <1>1. IInv /\ [Next]_vars => [Closed]_vars
    <2>1. SUFFICES ASSUME IInv, [Next]_vars, NEW i \in Ids,
                          rows[i] = NoRow, rows'[i] # NoRow, peak <= 1
                   PROVE  acl[rows'[i]] = NoEntries
      OBVIOUS
    <2>2. PICK r \in Reqs : Commit(r)
      BY <2>1, TablesFacts
    <2>3. req[r].op \in {"create", "delete", "set"}
      BY <2>1, RequestsFacts DEF IInv, Types
    <2>4. req[r].op = "create" /\ rows'[i] = req[r].path /\ pc[r] = "answered"
      BY <2>1, <2>2, <2>3, CommitFacts DEF IInv
    <2>5. QED
      BY <2>1, <2>4 DEF IInv, AclInv, InHand, Creates
  <1>2. QED
    BY <1>1, Invariance, PTL DEF NewShareIsClosed, Spec
-----------------------------------------------------------------------------
(* write_and_apply: what it keeps.                                          *)

\* What a call keeps while it is under way.
ActiveInv ==
    /\ IsFiniteSet(Active)
    /\ \A k \in Active : previous[k] \in OnDisk /\ content[k] \in Contents

\* No backup is of the future, and the pruning has been done.
BackupInv ==
    /\ \A t \in Kept(backups) : t <= now
    /\ Cardinality(Kept(backups)) <= MaxBackups

\* Nothing went astray, and the service runs with this content or does not run.
InOrder(c) == astray \/ (Valid(c) /\ loaded \in {c, Down})

\* Where the file, the service and the call under way are.
SettledInv ==
    /\ Active = {} => file \in settled /\ InOrder(file)
    /\ \A k \in Active :
         /\ astray \/ Valid(previous[k])
         /\ at[k] \in {"written", "backedUp", "valid", "invalid"} =>
              file = content[k] /\ InOrder(previous[k])
         /\ at[k] = "valid" => Valid(file)
         /\ at[k] = "applied" => file = content[k] /\ Valid(file) /\ loaded = file
         /\ at[k] = "restored" => file = previous[k]

\* The backup of the call under way is there.
KeptInv ==
    \A k \in Active : at[k] # "written" /\ previous[k] # NoFile =>
      \E t \in Stamps : backups[t] = previous[k]

\* One call at a time.
OneCall == \A k, l \in Active : k = l

\* The inductive invariants, for any calls and for those that do not overlap.
FileInv == FileTypeOK /\ ActiveInv /\ BackupInv
SerialFileInv == FileInv /\ OneCall /\ SettledInv /\ KeptInv
-----------------------------------------------------------------------------
(* The pruning.                                                             *)

LEMMA NotContents == NoFile \notin Contents /\ NoContent \notin Contents /\ Down \notin Contents
  BY NoFileAssumption

\* A non-empty set of stamps has a first one.
LEMMA FirstFacts ==
    ASSUME NEW S \in SUBSET Nat, S # {}
    PROVE  \E m \in S : \A s \in S : m <= s
  <1>1. PICK m \in S : \A s \in S : ~(<<s, m>> \in OpToRel(<, Nat))
    BY WFMin, NatLessThanWellFounded
  <1>2. \A s \in S : ~(s < m)
    BY <1>1 DEF OpToRel
  <1>3. QED
    BY <1>2

LEMMA StampsFacts == Stamps \subseteq Nat /\ IsFiniteSet(Stamps)
  BY BoundsAssumption, FS_Interval DEF Stamps

\* The pruning removes backups only, and leaves at most MaxBackups.
LEMMA PrunedFacts ==
    ASSUME NEW b \in [Stamps -> Contents \cup {NoContent}]
    PROVE  /\ Pruned(b) \in [Stamps -> Contents \cup {NoContent}]
           /\ Kept(Pruned(b)) \subseteq Kept(b)
           /\ Cardinality(Kept(Pruned(b))) <= MaxBackups
           /\ \A t \in Kept(b) : (\A u \in Kept(b) : u <= t) => Pruned(b)[t] = b[t]
  <1> DEFINE Later(t) == {u \in Kept(b) : u > t}
             P == Kept(Pruned(b))
  <1>1. /\ Pruned(b) = [t \in Stamps |-> IF Cardinality(Later(t)) < MaxBackups
                                         THEN b[t] ELSE NoContent]
        /\ Pruned(b) \in [Stamps -> Contents \cup {NoContent}]
    BY DEF Pruned
  <1>2. Kept(b) \subseteq Stamps /\ IsFiniteSet(Kept(b))
    BY StampsFacts, FS_Subset DEF Kept
  <1>3. P \subseteq Kept(b) /\ \A t \in P : Cardinality(Later(t)) < MaxBackups
    BY <1>1 DEF Kept
  <1>4. \A t \in Stamps : IsFiniteSet(Later(t))
    BY <1>2, FS_Subset
  <1>5. Cardinality(P) <= MaxBackups
    <2>1. CASE P = {}
      BY <2>1, FS_EmptySet, BoundsAssumption
    <2>2. CASE P # {}
      <3>1. P \subseteq Nat
        BY <1>2, <1>3, StampsFacts
      <3>2. PICK m \in P : \A s \in P : m <= s
        BY <2>2, <3>1, FirstFacts
      <3>3. P \subseteq Later(m) \cup {m}
        BY <1>3, <3>1, <3>2
      <3>4. m \in Stamps /\ m \notin Later(m)
        BY <1>2, <1>3, <3>1
      <3>5. IsFiniteSet(Later(m)) /\ Cardinality(Later(m)) \in Nat
        BY <1>4, <3>4, FS_CardinalityType
      <3>6. IsFiniteSet(Later(m) \cup {m})
            /\ Cardinality(Later(m) \cup {m}) = Cardinality(Later(m)) + 1
        BY <3>4, <3>5, FS_AddElement
      <3>7. Cardinality(P) <= Cardinality(Later(m) \cup {m}) /\ IsFiniteSet(P)
        BY <3>3, <3>6, FS_Subset
      <3>8. Cardinality(P) \in Nat
        BY <3>7, FS_CardinalityType
      <3>9. Cardinality(Later(m)) < MaxBackups
        BY <1>3, <3>2
      <3> HIDE DEF P, Later
      <3>10. QED
        BY <3>5, <3>6, <3>7, <3>8, <3>9, BoundsAssumption
    <2>3. QED
      BY <2>1, <2>2
  <1>6. ASSUME NEW t \in Kept(b), \A u \in Kept(b) : u <= t
        PROVE  Pruned(b)[t] = b[t]
    <2>1. Later(t) = {}
      <3>1. \A u \in Kept(b) : u \in Nat /\ t \in Nat /\ u <= t
        BY <1>2, <1>6, StampsFacts
      <3>2. \A u \in Kept(b) : ~(u > t)
        BY <3>1
      <3>3. QED
        BY <3>2
    <2>2. Cardinality(Later(t)) = 0
      BY <2>1, FS_EmptySet
    <2>3. QED
      BY <1>1, <1>2, <2>2, BoundsAssumption
  <1>7. QED
    BY <1>1, <1>3, <1>5, <1>6

\* The backup of a call is made under the present second, and stays.
LEMMA BackedUpFacts ==
    ASSUME FileInv, NEW k \in Active
    PROVE  /\ BackedUp(k) \in [Stamps -> Contents \cup {NoContent}]
           /\ \A t \in Kept(BackedUp(k)) : t <= now
           /\ Cardinality(Kept(BackedUp(k))) <= MaxBackups
           /\ previous[k] # NoFile => BackedUp(k)[now] = previous[k]
  <1>1. /\ backups \in [Stamps -> Contents \cup {NoContent}] /\ now \in Stamps
        /\ previous[k] \in Contents \cup {NoFile} /\ now \in Nat
        /\ \A t \in Kept(backups) : t <= now
        /\ Cardinality(Kept(backups)) <= MaxBackups
    BY StampsFacts DEF FileInv, FileTypeOK, ActiveInv, BackupInv, OnDisk
  <1>2. CASE previous[k] = NoFile
    BY <1>1, <1>2 DEF BackedUp
  <1>3. CASE previous[k] # NoFile
    <2> DEFINE b == [backups EXCEPT ![now] = previous[k]]
    <2>1. b \in [Stamps -> Contents \cup {NoContent}] /\ b[now] = previous[k]
      BY <1>1, <1>3
    <2>2. previous[k] # NoContent
      BY <1>1, <1>3, NotContents
    <2>3. now \in Kept(b) /\ \A t \in Kept(b) : t <= now
      BY <1>1, <2>1, <2>2 DEF Kept
    <2>4. BackedUp(k) = Pruned(b)
      BY <1>3 DEF BackedUp
    <2> HIDE DEF b
    <2>5. QED
      BY <2>1, <2>3, <2>4, PrunedFacts
  <1>4. QED
    BY <1>2, <1>3-----------------------------------------------------------------------------
(* Any calls.                                                               *)

\* Which calls a step starts or ends.
LEMMA ActiveFacts ==
    ASSUME FileTypeOK, NEW k \in Calls, NEW s, MovesTo(k, s)
    PROVE  /\ \A l \in Calls : l # k => (l \in Active' <=> l \in Active)
           /\ k \in Active' <=> s \notin {"idle", "returned", "raised"}
           /\ \A l \in Calls : at'[l] = IF l = k THEN s ELSE at[l]
           /\ Active \subseteq Calls /\ Active' \subseteq Calls
  <1>1. \A l \in Calls : at'[l] = IF l = k THEN s ELSE at[l]
    BY DEF FileTypeOK, MovesTo
  <1>2. QED
    BY <1>1 DEF Active

LEMMA WriteStep ==
    ASSUME FileInv, NEW k \in Calls, NEW c \in Contents, Write(k, c)
    PROVE  FileInv'
  <1>1. FileTypeOK /\ ActiveInv /\ BackupInv /\ MovesTo(k, "written")
    BY DEF FileInv, Write
  <1>2. FileTypeOK'
    <2>1. previous' \in [Calls -> OnDisk \cup {NoContent}]
      BY <1>1 DEF Write, FileTypeOK, OnDisk
    <2>2. QED
      BY <1>1, <2>1 DEF Write, FileTypeOK, OnDisk, MovesTo
  <1>3. ActiveInv'
    <2>1. Active' \subseteq Active \cup {k}
      BY <1>1, ActiveFacts
    <2>2. IsFiniteSet(Active \cup {k})
      BY <1>1, FS_AddElement DEF ActiveInv
    <2>3. IsFiniteSet(Active')
      BY <2>1, <2>2, FS_Subset
    <2>4. \A l \in Active' : previous'[l] \in OnDisk /\ content'[l] \in Contents
      <3>1. \A l \in Calls : /\ previous'[l] = IF l = k THEN file ELSE previous[l]
                             /\ content'[l] = IF l = k THEN c ELSE content[l]
        BY <1>1 DEF Write, FileTypeOK
      <3>2. Active' \subseteq Calls
        BY <1>1, ActiveFacts
      <3>3. QED
        BY <1>1, <2>1, <3>1, <3>2 DEF ActiveInv, FileTypeOK
    <2>5. QED
      BY <2>3, <2>4 DEF ActiveInv
  <1>4. BackupInv'
    BY <1>1 DEF Write, BackupInv, Kept
  <1>5. QED
    BY <1>2, <1>3, <1>4 DEF FileInv

LEMMA StepStep ==
    ASSUME FileInv, NEW k \in Calls, Step(k)
    PROVE  FileInv'
  <1>1. FileTypeOK /\ ActiveInv /\ BackupInv /\ UNCHANGED <<now, content, previous>>
    BY DEF FileInv, Step, Backup, Validate, Reject, ApplyWorks, ApplyFails, ApplyAgain, Returns,
        Raises, RestoreRaises, EndsAstray
  <1>2. PICK s \in {"backedUp", "valid", "invalid", "raised", "applied", "restored",
                    "returned"} : MovesTo(k, s)
    BY DEF Step, Backup, Validate, Verdict, Reject, ApplyWorks, ApplyFails, ApplyAgain, Returns,
        Raises, RestoreRaises, EndsAstray
  <1>3. k \in Active
    BY DEF Active, Step, Backup, Validate, Reject, ApplyWorks, ApplyFails, ApplyAgain, Returns,
        Raises, RestoreRaises, EndsAstray
  <1>4. previous[k] \in OnDisk /\ content[k] \in Contents
    BY <1>1, <1>3 DEF ActiveInv
  <1>5. BackupInv' /\ backups' \in [Stamps -> Contents \cup {NoContent}]
    <2>1. CASE Backup(k)
      BY <1>1, <1>3, <2>1, BackedUpFacts DEF Backup, BackupInv
    <2>2. CASE ~Backup(k)
      <3>1. backups' = backups
        BY <2>2 DEF Step, Validate, Reject, ApplyWorks, ApplyFails, ApplyAgain, Returns,
        Raises, RestoreRaises, EndsAstray
      <3>2. QED
        BY <1>1, <3>1 DEF BackupInv, Kept, FileTypeOK
    <2>3. QED
      BY <2>1, <2>2
  <1>6. /\ file' \in OnDisk /\ loaded' \in OnDisk \cup {Down} /\ settled' \subseteq OnDisk
        /\ astray' \in BOOLEAN
    <2>1. file \in OnDisk /\ loaded \in OnDisk \cup {Down} /\ settled \subseteq OnDisk
          /\ astray \in BOOLEAN /\ content[k] \in OnDisk
      BY <1>1, <1>4 DEF FileTypeOK, OnDisk
    <2>2. /\ file' \in {file, previous[k]} /\ loaded' \in {loaded, file, Down}
          /\ settled' \in {settled, {previous[k]}, {content[k]}, {previous[k], content[k]}}
          /\ astray' \in {astray, TRUE, FALSE}
      BY DEF Step, Backup, Validate, Reject, ApplyWorks, ApplyFails, ApplyAgain, Returns,
        Raises, RestoreRaises, EndsAstray,
             Restored, Reloaded
    <2>3. QED
      BY <1>4, <2>1, <2>2
  <1>7. FileTypeOK'
    BY <1>1, <1>2, <1>5, <1>6 DEF FileTypeOK, MovesTo
  <1>8. ActiveInv'
    <2>1. Active' \subseteq Active
      BY <1>1, <1>2, <1>3, ActiveFacts
    <2>2. IsFiniteSet(Active')
      BY <1>1, <2>1, FS_Subset DEF ActiveInv
    <2>3. QED
      BY <1>1, <2>1, <2>2 DEF ActiveInv
  <1>9. QED
    BY <1>5, <1>7, <1>8 DEF FileInv

LEMMA TickStep ==
    ASSUME FileInv, Tick
    PROVE  FileInv'
  <1>1. now \in Nat /\ now' \in Stamps /\ now' = now + 1
    BY BoundsAssumption DEF FileInv, FileTypeOK, Tick, Stamps
  <1>2. FileTypeOK'
    BY <1>1 DEF FileInv, FileTypeOK, Tick, callVars
  <1>3. ActiveInv'
    BY DEF FileInv, ActiveInv, Active, Tick, callVars
  <1>4. BackupInv'
    <2>1. Kept(backups') = Kept(backups)
      BY DEF Tick
    <2>2. \A t \in Kept(backups) : t <= now /\ t \in Nat
      BY StampsFacts DEF FileInv, BackupInv, Kept
    <2>3. \A t \in Kept(backups) : t <= now'
      BY <1>1, <2>2
    <2>4. QED
      BY <2>1, <2>3 DEF FileInv, BackupInv
  <1>5. QED
    BY <1>2, <1>3, <1>4 DEF FileInv

LEMMA FileInductive == FileInv /\ [FileNext]_fileVars => FileInv'
  <1>1. ASSUME FileInv, UNCHANGED fileVars
        PROVE  FileInv'
    BY <1>1 DEF FileInv, FileTypeOK, ActiveInv, Active, BackupInv, Kept, fileVars
  <1>2. QED
    BY <1>1, WriteStep, StepStep, TickStep DEF FileNext

LEMMA FileInitInv == FileInit => FileInv /\ Active = {}
  <1> SUFFICES ASSUME FileInit
               PROVE  FileInv /\ Active = {}
    OBVIOUS
  <1>1. Active = {}
    BY DEF FileInit, Active
  <1>2. Kept(backups) = {}
    BY DEF FileInit, Kept
  <1>3. FileTypeOK
    <2>1. file \in OnDisk /\ settled \subseteq OnDisk /\ loaded \in OnDisk
      BY GoodAssumption DEF FileInit, OnDisk
    <2>2. now \in Stamps
      BY BoundsAssumption DEF FileInit, Stamps
    <2>3. QED
      BY <2>1, <2>2 DEF FileInit, FileTypeOK
  <1>4. ActiveInv /\ BackupInv
    BY <1>1, <1>2, FS_EmptySet, BoundsAssumption DEF ActiveInv, BackupInv
  <1>5. QED
    BY <1>1, <1>3, <1>4 DEF FileInv

\* The inductive invariant holds in every reachable state, however the calls
\* overlap.
THEOREM FileInvariance == FileSpec => []FileInv
  <1>1. FileInit => FileInv
    BY FileInitInv
  <1>2. QED
    BY <1>1, FileInductive, PTL DEF FileSpec

\* existing[:-MAX_BACKUPS] keeps its promise: there are never more backups of
\* a file than that, whatever calls overlap and whatever the clock says.
THEOREM BackupsAreBounded == FileSpec => [](Cardinality(Kept(backups)) <= MaxBackups)
  <1>1. FileInv => Cardinality(Kept(backups)) <= MaxBackups
    BY DEF FileInv, BackupInv
  <1>2. QED
    BY FileInvariance, <1>1, PTL
-----------------------------------------------------------------------------
(* Calls that do not overlap.                                               *)

LEMMA SerialWrite ==
    ASSUME MaxCalls = 1, SerialFileInv, NEW k \in Calls, NEW c \in Contents, Write(k, c)
    PROVE  OneCall' /\ SettledInv' /\ KeptInv'
  <1>1. FileTypeOK /\ ActiveInv /\ MovesTo(k, "written")
    BY DEF SerialFileInv, FileInv, Write
  <1>2. Active = {}
    <2>1. Cardinality(Active) < 1
      BY DEF Write
    <2>2. IsFiniteSet(Active) /\ Cardinality(Active) \in Nat
      BY <1>1, FS_CardinalityType DEF ActiveInv
    <2>3. Cardinality(Active) = 0
      BY <2>1, <2>2
    <2>4. QED
      BY <2>2, <2>3, FS_EmptySet
  <1>3. /\ \A l \in Active' : l = k
        /\ k \in Active' /\ at'[k] = "written"
    BY <1>1, <1>2, ActiveFacts
  <1>4. InOrder(file)
    BY <1>2 DEF SerialFileInv, SettledInv
  <1>5. /\ file' = c /\ content'[k] = c /\ previous'[k] = file
        /\ UNCHANGED <<loaded, astray>>
    BY <1>1, <1>4 DEF Write, FileTypeOK
  <1>6. SettledInv'
    BY <1>3, <1>4, <1>5 DEF SettledInv, InOrder, Valid
  <1>7. KeptInv'
    BY <1>3 DEF KeptInv
  <1>8. QED
    BY <1>3, <1>6, <1>7 DEF OneCall

LEMMA SerialStep ==
    ASSUME SerialFileInv, NEW k \in Calls, Step(k)
    PROVE  OneCall' /\ SettledInv' /\ KeptInv'
  <1>1. FileTypeOK /\ ActiveInv /\ FileInv /\ UNCHANGED <<content, previous>>
    BY DEF SerialFileInv, FileInv, Step, Backup, Validate, Reject, ApplyWorks, ApplyFails,
           ApplyAgain, Returns, Raises, RestoreRaises, EndsAstray
  <1>2. k \in Active /\ \A l \in Active : l = k
    <2>1. k \in Active
      BY DEF Active, Step, Backup, Validate, Reject, ApplyWorks, ApplyFails, ApplyAgain, Returns,
        Raises, RestoreRaises, EndsAstray
    <2>2. QED
      BY <2>1 DEF SerialFileInv, OneCall
  <1>3. ASSUME NEW s, MovesTo(k, s)
        PROVE  /\ at'[k] = s
               /\ \A l \in Active' : l = k /\ s \notin {"idle", "returned", "raised"}
               /\ s \notin {"idle", "returned", "raised"} => Active' # {}
               /\ OneCall'
    BY <1>1, <1>2, <1>3, ActiveFacts DEF OneCall
  <1>4. /\ astray \/ Valid(previous[k])
        /\ at[k] \in {"written", "backedUp", "valid", "invalid"} =>
             file = content[k] /\ InOrder(previous[k])
        /\ at[k] = "valid" => Valid(file)
        /\ at[k] = "applied" => file = content[k] /\ Valid(file) /\ loaded = file
        /\ at[k] = "restored" => file = previous[k]
    BY <1>2 DEF SerialFileInv, SettledInv
  <1>5. KeptInv'
    <2>1. CASE Backup(k)
      <3>1. backups' = BackedUp(k) /\ previous' = previous /\ MovesTo(k, "backedUp") /\ now \in Stamps
        BY <1>1, <2>1 DEF Backup, FileTypeOK
      <3>2. previous[k] # NoFile => backups'[now] = previous[k]
        BY <1>1, <1>2, <3>1, BackedUpFacts
      <3>3. QED
        BY <1>3, <3>1, <3>2 DEF KeptInv
    <2>2. CASE EndsAstray(k)
      BY <1>3, <2>2 DEF EndsAstray, KeptInv
    <2>3. CASE ~Backup(k) /\ ~EndsAstray(k)
      <3>1. UNCHANGED <<backups, previous>> /\ at[k] # "written"
        BY <1>1, <2>3 DEF Step, Validate, Reject, ApplyWorks, ApplyFails, ApplyAgain, Returns,
                          Raises, RestoreRaises
      <3>2. \E s : MovesTo(k, s)
        BY <2>3 DEF Step, Validate, Reject, ApplyWorks, ApplyFails, ApplyAgain, Returns,
                    Raises, RestoreRaises
      <3>3. \A l \in Active' : l = k
        BY <1>3, <3>2
      <3>4. previous[k] # NoFile => \E t \in Stamps : backups[t] = previous[k]
        BY <1>2, <3>1 DEF SerialFileInv, KeptInv
      <3>5. QED
        BY <3>1, <3>3, <3>4 DEF KeptInv
    <2>4. QED
      BY <2>1, <2>2, <2>3
  <1>6. OneCall' /\ SettledInv'
    <2>1. CASE Backup(k)
      BY <1>1, <1>3, <1>4, <2>1 DEF Backup, SettledInv, InOrder
    <2>2. CASE Validate(k)
      <3>1. Verdict \in {"valid", "invalid"} /\ (Verdict = "valid" => Valid(file))
        BY DEF Verdict
      <3>2. QED
        BY <1>1, <1>3, <1>4, <2>2, <3>1 DEF Validate, SettledInv, InOrder, Valid
    <2>3. CASE Reject(k)
      BY <1>1, <1>3, <1>4, <2>3 DEF Reject, Restored, SettledInv, InOrder, Valid
    <2>4. CASE ApplyWorks(k)
      BY <1>1, <1>3, <1>4, <2>4 DEF ApplyWorks, SettledInv, InOrder, Valid
    <2>5. CASE ApplyFails(k)
      BY <1>1, <1>3, <1>4, <2>5 DEF ApplyFails, Restored, SettledInv, InOrder, Valid
    <2>6. CASE ApplyAgain(k)
      BY <1>1, <1>3, <1>4, <2>6 DEF ApplyAgain, Reloaded, SettledInv, InOrder, Valid
    <2>7. CASE Returns(k)
      BY <1>1, <1>3, <1>4, <2>7 DEF Returns, SettledInv, InOrder, Valid
    <2>8. CASE Raises(k)
      <3>1. file \in {previous[k], content[k]}
        BY <1>1, <1>2, <1>4 DEF Active, FileTypeOK
      <3>2. QED
        BY <1>1, <1>3, <2>8, <3>1 DEF Raises, EndsAstray, SettledInv, InOrder
    <2>9. CASE RestoreRaises(k)
      BY <1>1, <1>3, <1>4, <2>9 DEF RestoreRaises, EndsAstray, Restored, SettledInv, InOrder
    <2>10. QED
      BY <2>1, <2>2, <2>3, <2>4, <2>5, <2>6, <2>7, <2>8, <2>9 DEF Step
  <1>7. QED
    BY <1>5, <1>6

LEMMA SerialInductive ==
    ASSUME MaxCalls = 1
    PROVE  SerialFileInv /\ [FileNext]_fileVars => SerialFileInv'
  <1>1. SUFFICES ASSUME SerialFileInv, [FileNext]_fileVars
                 PROVE  SerialFileInv'
    OBVIOUS
  <1>2. FileInv'
    BY <1>1, FileInductive DEF SerialFileInv
  <1>3. CASE Tick \/ UNCHANGED fileVars
    <2>1. UNCHANGED <<file, loaded, backups, at, content, previous, settled,
                    astray>>
      BY <1>3 DEF Tick, fileVars, callVars
    <2>2. QED
      BY <1>1, <1>2, <2>1 DEF SerialFileInv, OneCall, SettledInv, KeptInv, Active, InOrder,
                              Valid
  <1>4. CASE \E k \in Calls, c \in Contents : Write(k, c)
    BY <1>1, <1>2, <1>4, SerialWrite DEF SerialFileInv
  <1>5. CASE \E k \in Calls : Step(k)
    BY <1>1, <1>2, <1>5, SerialStep DEF SerialFileInv
  <1>6. QED
    BY <1>1, <1>3, <1>4, <1>5 DEF FileNext

\* Calls that do not overlap find the file settled and leave it settled or are
\* on their way to: what each step of write_and_apply may rely on.
THEOREM SerialInvariance ==
    ASSUME MaxCalls = 1
    PROVE  FileSpec => []SerialFileInv
  <1>1. FileInit => SerialFileInv
    <2>1. FileInit => Valid(file) /\ file \in settled /\ loaded = file
      BY DEF FileInit, Valid
    <2>2. QED
      BY <2>1, FileInitInv DEF SerialFileInv, OneCall, SettledInv, KeptInv, InOrder
  <1>2. SerialFileInv /\ [FileNext]_fileVars => SerialFileInv'
    BY SerialInductive
  <1>3. QED
    BY <1>1, <1>2, PTL DEF FileSpec

\* Between calls that do not overlap the file is the content of the last call
\* that returned, what the last one that was rejected or could not be applied
\* had found, or one of the two when the last call met an exception that
\* write_and_apply does not catch.  If no call met one since one returned,
\* testparm accepts the file and the service runs with it or is down.
THEOREM SettledBetweenCalls ==
    ASSUME MaxCalls = 1
    PROVE  FileSpec => []QuietIsSettled
  <1>1. SerialFileInv => QuietIsSettled
    BY DEF SerialFileInv, SettledInv, InOrder, QuietIsSettled
  <1>2. QED
    BY SerialInvariance, <1>1, PTL

\* What a call replaces is there as a backup until the call has ended, however
\* many backups there were: the pruning never takes the newest.
THEOREM ReplacedStays ==
    ASSUME MaxCalls = 1
    PROVE  FileSpec => []ReplacedIsKept
  <1>1. SerialFileInv => ReplacedIsKept
    BY DEF SerialFileInv, FileInv, BackupInv, KeptInv, ReplacedIsKept
  <1>2. QED
    BY SerialInvariance, <1>1, PTL
==============================================================================
