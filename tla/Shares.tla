------------------------------- MODULE Shares --------------------------------
(***************************************************************************)
(* Shared folders: services/shares.py in the web process, and the agent's  *)
(* shares.* and samba.apply_config handlers.  A share is a row with its    *)
(* permission rows, a directory, the directory's ACL and a section of      *)
(* nasos.conf; a request changes them one after the other, in two          *)
(* processes, and nothing undoes the first when a later one fails.         *)
(*                                                                         *)
(* Requests overlap at every await.  One connection carries their calls:   *)
(* the agent starts them in the order they were sent and the web sees the  *)
(* answers in the order they were given.  Handlers that do not wait        *)
(* (create, delete, a submitted job) therefore take effect in that order;  *)
(* those that wait for setfacl or for Samba overlap.                       *)
(*                                                                         *)
(* A connection that breaks, a restart of either process or a failed       *)
(* commit ends a request with its first half done: its call is not served, *)
(* or it gives up when the answer was to come.  What the agent still does  *)
(* for it counts as a request under way, and calls already in a broken     *)
(* connection are taken before those of the next, which has to be accepted *)
(* first.                                                                  *)
(*                                                                         *)
(* Tables and nasos.conf hold names; the ACL holds the uids and gids those *)
(* names had when a request came.  A user who is deleted and created again *)
(* has a new number, and neither rows nor ACLs follow.                     *)
(***************************************************************************)
EXTENDS Naturals, Sequences, FiniteSets, FiniteSetsExt

CONSTANTS
    Reqs,          \* requests
    Names,         \* share names
    Volumes,       \* volumes, each with a mountpoint
    Principals,    \* names of users and groups
    Numbers,       \* uids and gids
    NoNumber,      \* nobody has this name
    Levels,        \* the levels that are granted
    NoRow,         \* no share has this id
    NoAcl,         \* no directory, so no ACL
    Failing,       \* of {"setfacl", "samba", "call"}: what may fail, "call"
                   \* being what lies between the two processes' work
    MaxParallel,   \* bound: requests and jobs under way at once
    MaxMoves       \* bound: principals deleted

ASSUME FailingAssumption == Failing \subseteq {"setfacl", "samba", "call"}
ASSUME MaxParallelAssumption == MaxParallel \in Nat \ {0} /\ MaxMoves \in Nat
ASSUME SetsAssumption == IsFiniteSet(Reqs) /\ Names # {} /\ Volumes # {}
ASSUME NumbersAssumption == NoNumber \notin Numbers

VARIABLES
    rows,       \* rows[i]: the path of the share with id i, or NoRow
    table,      \* table[i]: its share_permissions, by name
    number,     \* number[u]: the uid or gid of a name, or NoNumber
    acl,        \* acl[p]: the entries on the directory, by number, or NoAcl
    jobs,       \* jobs[p]: the recursive jobs of the path, oldest first
    jobAt,      \* jobAt[p]: which setfacl of the oldest comes next
    conf,       \* nasos.conf, as a set of sections
    wire,       \* calls the agent has yet to take
    back,       \* answers the web has yet to take
    req,        \* req[r]: what the request asks for
    pc,         \* pc[r]: where it is
    rendering,  \* rendering[r]: what its apply_config writes
    prevConf,   \* prevConf[r]: what it found
    asOf,       \* history: asOf[p]: the numbers when the permissions of the
                \* share there were last set
    aclFailed,  \* the paths whose last change of ACL or directory failed
    stripped,   \* history: the paths of shares whose directory a deletion has
                \* removed without coming to the row
    confFailed, \* an apply_config failed, and none was sent since
    peak,       \* history: the most requests and jobs there have been when a
                \* request started, itself included
    moves

dbVars == <<rows, table, asOf>>
aclVars == <<acl, jobs, jobAt, aclFailed, stripped>>
confVars == <<conf, rendering, prevConf, confFailed>>
nameVars == <<number, moves>>
vars == <<dbVars, aclVars, confVars, nameVars, wire, back, req, pc, peak>>

Paths == Volumes \X Names
Ids == 1..Cardinality(Reqs) + 1
\* A permission list and the entries of an ACL, "none" standing for no row and
\* no entry.
PermLists == [Principals -> Levels \cup {"none"}]
Nobody == [u \in Principals |-> "none"]
EntryLists == [Numbers -> Levels \cup {"none"}]
NoEntries == [n \in Numbers |-> "none"]
Numberings == [Principals -> Numbers \cup {NoNumber}]
Live == {i \in Ids : rows[i] # NoRow}
Listed == {rows[i] : i \in Live}

ASSUME NoneAssumption == NoRow \notin Paths /\ NoAcl \notin EntryLists

Requests == [op : {"create", "delete", "set"}, path : Paths, id : Ids \cup {0},
             perms : PermLists, as : Numberings, flag : BOOLEAN]

NoRequest == [op |-> "create", path |-> CHOOSE p \in Paths : TRUE, id |-> 0,
              perms |-> Nobody, as |-> [u \in Principals |-> NoNumber],
              flag |-> FALSE]

\* Everybody has a number of his own.
Distinct(as) == \A u, w \in Principals : as[u] = as[w] /\ as[u] # NoNumber => u = w

\* What a permission list grants to whom, names having these numbers.
Entries(perms, as) ==
    [n \in Numbers |-> IF \E u \in Principals : as[u] = n
                       THEN perms[CHOOSE u \in Principals : as[u] = n] ELSE "none"]

\* Nothing at all, or one share nobody was granted anything on.
Init ==
    /\ number \in [Principals -> Numbers] /\ Distinct(number)
    /\ asOf = [p \in Paths |-> number]
    /\ \E P \in {{}} \cup {{p} : p \in Paths} :
         /\ rows = [i \in Ids |-> IF i = 1 /\ P # {} THEN CHOOSE p \in P : TRUE
                                                     ELSE NoRow]
         /\ acl = [p \in Paths |-> IF p \in P THEN NoEntries ELSE NoAcl]
         /\ conf = {<<p, Nobody>> : p \in P}
    /\ table = [i \in Ids |-> Nobody]
    /\ jobs = [p \in Paths |-> <<>>]
    /\ jobAt = [p \in Paths |-> "reset"]
    /\ wire = <<>> /\ back = <<>>
    /\ req = [r \in Reqs |-> NoRequest]
    /\ pc = [r \in Reqs |-> "idle"]
    /\ rendering = [r \in Reqs |-> {}] /\ prevConf = [r \in Reqs |-> {}]
    /\ aclFailed = {} /\ stripped = {} /\ confFailed = FALSE
    /\ peak = 0 /\ moves = 0

Busy == {r \in Reqs : pc[r] \notin {"idle", "done"}}
Jobbed == {p \in Paths : jobs[p] # <<>>}
OneMore ==
    LET underWay == Cardinality(Busy) + Cardinality(Jobbed) + 1 IN
      underWay <= MaxParallel /\ peak' = Max({peak, underWay})
Starts(r) == pc[r] = "idle" /\ OneMore

Goes(r, s) == pc' = [pc EXCEPT ![r] = s]

\* The request is over and what it held is gone.
Ends(r) == /\ Goes(r, "done")
           /\ req' = [req EXCEPT ![r] = NoRequest]
           /\ rendering' = [rendering EXCEPT ![r] = {}]
           /\ prevConf' = [prevConf EXCEPT ![r] = {}]

-----------------------------------------------------------------------------
(* Users and groups come and go by requests of their own, which leave the   *)
(* permission rows and the ACLs alone.                                      *)

delete_user(u) ==
    /\ moves < MaxMoves /\ moves' = moves + 1 /\ OneMore
    /\ number[u] # NoNumber
    /\ number' = [number EXCEPT ![u] = NoNumber]
    /\ UNCHANGED <<dbVars, aclVars, confVars, wire, back, req, pc>>

\* useradd takes a number nobody has, perhaps one somebody had.
create_user(u) ==
    /\ OneMore
    /\ number[u] = NoNumber
    /\ \E n \in Numbers : /\ \A w \in Principals : number[w] # n
                          /\ number' = [number EXCEPT ![u] = n]
    /\ UNCHANGED <<dbVars, aclVars, confVars, wire, back, req, pc, moves>>

-----------------------------------------------------------------------------
(* The web, up to the first call.                                           *)

create_share(r, p) ==
    /\ Starts(r)
    /\ req' = [req EXCEPT ![r].op = "create", ![r].path = p]
    /\ wire' = Append(wire, r)
    /\ Goes(r, "sent")
    /\ UNCHANGED <<dbVars, aclVars, confVars, nameVars, back>>

delete_share(r, i, files) ==
    /\ Starts(r)
    /\ i \in Live
    /\ req' = [req EXCEPT ![r] = [@ EXCEPT !.op = "delete", !.id = i,
                                           !.path = rows[i], !.flag = files]]
    /\ wire' = Append(wire, r)
    /\ Goes(r, "sent")
    /\ UNCHANGED <<dbVars, aclVars, confVars, nameVars, back>>

\* _resolve_numeric_id: every name must have a number, and the entries go out
\* with the numbers of now.
Resolve(perms) == \A u \in Principals : perms[u] # "none" => number[u] # NoNumber

set_share_permissions(r, i, perms, recursive) ==
    /\ Starts(r)
    /\ i \in Live /\ Resolve(perms)
    /\ req' = [req EXCEPT ![r] = [op |-> "set", id |-> i, path |-> rows[i],
                                  perms |-> perms, as |-> number,
                                  flag |-> recursive]]
    /\ aclFailed' = aclFailed \ {rows[i]}
    /\ wire' = Append(wire, r)
    /\ Goes(r, "sent")
    /\ UNCHANGED <<dbVars, acl, jobs, jobAt, stripped, confVars, nameVars, back>>

-----------------------------------------------------------------------------
(* The agent: shares.*                                                      *)

\* A handler that does not wait: it takes the call and answers it.
Takes(r, op) == /\ wire # <<>> /\ r = Head(wire)
                /\ pc[r] = "sent" /\ req[r].op = op
                /\ wire' = Tail(wire)
Answers(r, s) == back' = Append(back, r) /\ Goes(r, s)

\* The call is not served: it is lost with the connection or with the agent, or
\* its handler fails before it changes anything.
Unserved(r) ==
    /\ "call" \in Failing
    /\ wire # <<>> /\ r = Head(wire) /\ wire' = Tail(wire)
    /\ \/ pc[r] = "sent" /\ Answers(r, "refused") /\ UNCHANGED confFailed
       \/ pc[r] = "conf" /\ Answers(r, "ended") /\ confFailed' = TRUE
    /\ UNCHANGED <<dbVars, aclVars, conf, rendering, prevConf, nameVars, req, peak>>

\* Fault: a directory that is there is taken over (exist_ok).
Refused_never(p) == FALSE
Refused(p) == acl[p] # NoAcl

create(r) ==
    /\ Takes(r, "create")
    /\ LET p == req[r].path IN
       IF Refused(p)
       THEN Answers(r, "refused") /\ UNCHANGED <<acl, aclFailed>>
       ELSE /\ acl' = [acl EXCEPT ![p] = IF @ = NoAcl THEN NoEntries ELSE @]
            /\ aclFailed' = aclFailed \ {p}
            /\ Answers(r, "answered")
    /\ UNCHANGED <<dbVars, jobs, jobAt, stripped, confVars, nameVars, req, peak>>

delete(r) ==
    /\ Takes(r, "delete")
    /\ acl' = IF req[r].flag THEN [acl EXCEPT ![req[r].path] = NoAcl] ELSE acl
    /\ Answers(r, "answered")
    /\ UNCHANGED <<dbVars, jobs, jobAt, aclFailed, stripped, confVars, nameVars, req,
                   peak>>

\* A recursive request is a job with resource share:<path>.
SubmitJob(r) ==
    /\ Takes(r, "set") /\ req[r].flag
    /\ jobs' = [jobs EXCEPT ![req[r].path] =
                   Append(@, Entries(req[r].perms, req[r].as))]
    /\ Answers(r, "answered")
    /\ UNCHANGED <<dbVars, acl, jobAt, aclFailed, stripped, confVars, nameVars, req,
                   peak>>

SetNow(r) ==
    /\ Takes(r, "set") /\ ~req[r].flag
    /\ Goes(r, "reset")
    /\ UNCHANGED <<dbVars, aclVars, confVars, nameVars, back, req, peak>>

\* Fault: setfacl -m alone, without the -b before it.
AfterReset_noop(p) == acl[p]
\* setfacl -b
AfterReset(p) == NoEntries
\* setfacl -m: adds and updates entries, removes none.
Modified(p, entries) ==
    [n \in Numbers |-> IF entries[n] = "none" THEN acl[p][n] ELSE entries[n]]

Fails(p) == acl[p] = NoAcl \/ "setfacl" \in Failing
Works(p) == acl[p] # NoAcl

AclReset(r) ==
    /\ pc[r] = "reset" /\ Works(req[r].path)
    /\ acl' = [acl EXCEPT ![req[r].path] = AfterReset(req[r].path)]
    /\ Goes(r, "modify")
    /\ UNCHANGED <<dbVars, jobs, jobAt, aclFailed, stripped, confVars, nameVars, wire,
                   back, req, peak>>

AclModify(r) ==
    /\ pc[r] = "modify" /\ Works(req[r].path)
    /\ LET p == req[r].path IN
         acl' = [acl EXCEPT ![p] = Modified(p, Entries(req[r].perms, req[r].as))]
    /\ Answers(r, "answered")
    /\ UNCHANGED <<dbVars, jobs, jobAt, aclFailed, stripped, confVars, nameVars, wire,
                   req, peak>>

AclFails(r) ==
    /\ pc[r] \in {"reset", "modify"} /\ Fails(req[r].path)
    /\ aclFailed' = aclFailed \cup {req[r].path}
    /\ Answers(r, "refused")
    /\ UNCHANGED <<dbVars, acl, jobs, jobAt, stripped, confVars, nameVars, wire, req,
                   peak>>

JobReset(p) ==
    /\ p \in Jobbed /\ jobAt[p] = "reset" /\ Works(p)
    /\ acl' = [acl EXCEPT ![p] = AfterReset(p)]
    /\ jobAt' = [jobAt EXCEPT ![p] = "modify"]
    /\ UNCHANGED <<dbVars, jobs, aclFailed, stripped, confVars, nameVars, wire, back, req,
                   pc, peak>>

JobEnds(p) == /\ jobs' = [jobs EXCEPT ![p] = Tail(@)]
              /\ jobAt' = [jobAt EXCEPT ![p] = "reset"]

JobModify(p) ==
    /\ p \in Jobbed /\ jobAt[p] = "modify" /\ Works(p)
    /\ acl' = [acl EXCEPT ![p] = Modified(p, Head(jobs[p]))]
    /\ JobEnds(p)
    /\ UNCHANGED <<dbVars, aclFailed, stripped, confVars, nameVars, wire, back, req, pc,
                   peak>>

JobFails(p) ==
    /\ p \in Jobbed /\ Fails(p)
    /\ aclFailed' = aclFailed \cup {p}
    /\ JobEnds(p)
    /\ UNCHANGED <<dbVars, acl, stripped, confVars, nameVars, wire, back, req, pc, peak>>

-----------------------------------------------------------------------------
(* The web, after the first call: commit, render, send apply_config.        *)

\* SQLite gives the id above all in use: the last one, once deleted, is
\* used again.
NextId == Max(Live \cup {0}) + 1

\* The unique constraint on names (a path has one).
NameTaken(p) == \E i \in Live : rows[i][2] = p[2]

\* foreign_keys=ON: a permission row needs its share.
Dangling(r) == req[r].perms # Nobody /\ req[r].id \notin Live

\* Fault: the deletion is not committed.
RowsLeft_uncommitted(i) == rows
RowsLeft(i) == [rows EXCEPT ![i] = NoRow]

\* The commit; never when the database refuses it.
Commits(r) ==
    LET i == req[r].id IN
    \/ /\ req[r].op = "create" /\ ~NameTaken(req[r].path)
       /\ rows' = [rows EXCEPT ![NextId] = req[r].path]
       /\ UNCHANGED <<table, asOf>>
    \/ /\ req[r].op = "delete"
       /\ rows' = RowsLeft(i)
       /\ table' = [table EXCEPT ![i] = Nobody]
       /\ UNCHANGED asOf
    \/ /\ req[r].op = "set" /\ ~Dangling(r)
       /\ IF i \in Live
          THEN /\ table' = [table EXCEPT ![i] = req[r].perms]
               /\ asOf' = [asOf EXCEPT ![rows[i]] = req[r].as]
          ELSE UNCHANGED <<table, asOf>>
       /\ UNCHANGED rows

Refuses(r) == \/ req[r].op = "create" /\ NameTaken(req[r].path)
              \/ req[r].op = "set" /\ Dangling(r)

\* What the tables render to.
Rendered(rs, tb) == {<<rs[i], tb[i]>> : i \in {j \in Ids : rs[j] # NoRow}}

TakesAnswer(r, s) == /\ back # <<>> /\ r = Head(back) /\ pc[r] = s
                     /\ back' = Tail(back)

\* Fault: the configuration is rendered before the commit.
RenderedAtCommit_before == Rendered(rows, table)
RenderedAtCommit == Rendered(rows', table')

Commit(r) ==
    /\ TakesAnswer(r, "answered")
    /\ Commits(r)
    /\ rendering' = [rendering EXCEPT ![r] = RenderedAtCommit]
    /\ wire' = Append(wire, r)
    /\ confFailed' = FALSE
    /\ stripped' = stripped \cap Listed'
    /\ Goes(r, "conf")
    /\ UNCHANGED <<acl, jobs, jobAt, aclFailed, conf, prevConf, nameVars, req, peak>>

\* The agent has made or removed the directory of a request.
Removed(r) == pc[r] = "answered" /\ req[r].op = "delete" /\ req[r].flag
Made(r) == pc[r] = "answered" /\ req[r].op = "create"

\* RpcCallError, IntegrityError, a commit that fails, an answer that does not
\* come: the request ends here, whatever the agent has done for it.
GivesUp(r) ==
    /\ \/ TakesAnswer(r, "refused")
       \/ TakesAnswer(r, "answered") /\ (Refuses(r) \/ "call" \in Failing)
    /\ aclFailed' = IF req[r].op = "set" \/ Removed(r) \/ Made(r)
                    THEN aclFailed \cup {req[r].path} ELSE aclFailed
    /\ stripped' = Listed \cap IF Removed(r) THEN stripped \cup {req[r].path} ELSE stripped
    /\ Ends(r)
    /\ UNCHANGED <<dbVars, acl, jobs, jobAt, conf, confFailed, nameVars, wire, peak>>

-----------------------------------------------------------------------------
(* samba.apply_config: ManagedFile.write_and_apply, which module            *)
(* ManagedFile has in detail.                                               *)

WriteConf(r) ==
    /\ wire # <<>> /\ r = Head(wire) /\ pc[r] = "conf"
    /\ wire' = Tail(wire)
    /\ prevConf' = [prevConf EXCEPT ![r] = conf]
    /\ conf' = rendering[r]
    /\ Goes(r, "written")
    /\ UNCHANGED <<dbVars, aclVars, rendering, confFailed, nameVars, back, req, peak>>

ConfApplied(r) ==
    /\ pc[r] = "written"
    /\ Answers(r, "ended")
    /\ UNCHANGED <<dbVars, aclVars, confVars, nameVars, wire, req, peak>>

\* testparm or Samba fails: the previous content is restored, or, on an
\* exception nobody catches, the new one stays.
ConfFails(r) ==
    /\ pc[r] = "written" /\ "samba" \in Failing
    /\ conf' \in {prevConf[r], conf}
    /\ confFailed' = TRUE
    /\ Answers(r, "ended")
    /\ UNCHANGED <<dbVars, aclVars, rendering, prevConf, nameVars, wire, req, peak>>

\* The request is answered.  (A create then enables the service and the
\* firewall, which touches none of this.)
Return(r) ==
    /\ TakesAnswer(r, "ended")
    /\ Ends(r)
    /\ UNCHANGED <<dbVars, aclVars, conf, confFailed, nameVars, wire, peak>>

-----------------------------------------------------------------------------
Web(r) ==
    \/ \E p \in Paths : create_share(r, p)
    \/ \E i \in Ids, files \in BOOLEAN : delete_share(r, i, files)
    \/ \E i \in Ids, perms \in PermLists, recursive \in BOOLEAN :
         set_share_permissions(r, i, perms, recursive)
    \/ Commit(r) \/ GivesUp(r) \/ Return(r)

Agent(r) ==
    \/ Unserved(r)
    \/ create(r) \/ delete(r) \/ SubmitJob(r) \/ SetNow(r)
    \/ AclReset(r) \/ AclModify(r) \/ AclFails(r)
    \/ WriteConf(r) \/ ConfApplied(r) \/ ConfFails(r)

Job(p) == JobReset(p) \/ JobModify(p) \/ JobFails(p)

Next ==
    \/ \E r \in Reqs : Web(r) \/ Agent(r)
    \/ \E p \in Paths : Job(p)
    \/ \E u \in Principals : delete_user(u) \/ create_user(u)

Spec == Init /\ [][Next]_vars

-----------------------------------------------------------------------------
(* Properties.                                                              *)

Quiet == Busy = {} /\ Jobbed = {}

\* The variables have their types, and no name has two rows.
TypeOK ==
    /\ rows \in [Ids -> Paths \cup {NoRow}]
    /\ \A i, j \in Live : rows[i][2] = rows[j][2] => i = j
    /\ table \in [Ids -> PermLists]
    /\ number \in Numberings /\ Distinct(number)
    /\ asOf \in [Paths -> Numberings]
    /\ acl \in [Paths -> EntryLists \cup {NoAcl}]
    /\ jobs \in [Paths -> Seq(EntryLists)]
    /\ jobAt \in [Paths -> {"reset", "modify"}]
    /\ req \in [Reqs -> Requests]
    /\ pc \in [Reqs -> {"idle", "sent", "reset", "modify", "answered", "refused",
                        "conf", "written", "ended", "done"}]
    /\ aclFailed \subseteq Paths /\ stripped \subseteq Paths /\ confFailed \in BOOLEAN
    /\ wire \in Seq(Reqs) /\ back \in Seq(Reqs)
    /\ peak \in 0..MaxParallel /\ moves \in 0..MaxMoves

\* Between requests nasos.conf is what the tables render to, however the
\* requests before overlapped, unless an apply failed since the last one was
\* sent; so a failed apply is made good by the next request of any kind.
ConfIsCurrent == Quiet /\ ~confFailed => conf = Rendered(rows, table)

\* Between requests every share has its directory, if no request ever started
\* with two others under way: unless a deletion of that very share has removed
\* it, and its answer was then lost or its commit failed.  (With three, the
\* second of two deletes of one share can remove the directory of a share
\* created in between.)
ShareHasDirectory ==
    Quiet /\ peak <= 2 =>
      \A i \in Live : acl[rows[i]] # NoAcl \/ rows[i] \in stripped

\* "The service layer always holds the complete, current permission list for
\* a share": between requests the ACL grants what the table grants, unless
\* the last set_permissions failed.
AclIsTable ==
    Quiet => \A i \in Live : rows[i] \notin aclFailed =>
               acl[rows[i]] = Entries(table[i], number)

\* As long as requests and their jobs come one after the other, the ACL grants
\* what the table grants to the numbers the names had when the permissions
\* were set, and to no other number, unless the last change failed.  So for
\* everybody who was not deleted and created again since, and a number given
\* to somebody else keeps what it had.
AclIsTableSerially ==
    Quiet /\ peak <= 1 =>
      \A i \in Live : rows[i] \notin aclFailed =>
        acl[rows[i]] = Entries(table[i], asOf[rows[i]])

\* A share starts with nobody on its ACL: what the directory of a deleted
\* share granted does not come back with a new share of that name, as long as
\* requests and their jobs come one after the other.
NewShareIsClosed ==
    [][\A i \in Ids : rows[i] = NoRow /\ rows'[i] # NoRow /\ peak <= 1 =>
         acl[rows'[i]] = NoEntries]_vars
==============================================================================
