------------------------------ MODULE Accounts -------------------------------
(***************************************************************************)
(* Users and groups: rows of the web process's database kept in step with  *)
(* POSIX accounts, Samba's passdb and POSIX groups.                        *)
(*                                                                         *)
(*   routes    api/users.py, api/groups.py                                 *)
(*   services  services/users.py, services/groups.py                       *)
(*   agent     agent/handlers/users.py, agent/handlers/groups.py           *)
(*   commands  system/users.py: RealPosixUsers                             *)
(*                                                                         *)
(* A request reads its row, calls the agent, which runs one command after  *)
(* another, and writes the row when the answer comes.  Nothing locks a     *)
(* name in between, any command may fail, some after they took effect, and *)
(* the answer may be lost.                                                 *)
(* Roles are checked before and are in module Sessions.                    *)
(***************************************************************************)
EXTENDS Naturals, Sequences, FiniteSets

CONSTANTS
    Names,        \* user names
    Groups,       \* group names
    NoName,       \* the name of nobody
    Passwords,
    Slots,        \* slots for requests at one time
    MaxRequests,  \* bound: requests altogether
    MaxUpsets     \* bound: commands that fail by themselves or report a
                  \* failure they did not have, lost answers and agent
                  \* restarts altogether

NasosUsers == "nasos-users"

ASSUME AccountBoundsAssumption ==
    /\ MaxRequests \in Nat /\ MaxUpsets \in Nat
    /\ IsFiniteSet(Names) /\ IsFiniteSet(Slots)
ASSUME NamesAssumption ==
    /\ Names \cap Groups = {} /\ NoName \notin Names \cup Groups
    /\ NasosUsers \notin Groups

\* The numbers useradd and groupadd choose from.
Numbers == 1..Cardinality(Names)

VARIABLES
    os,        \* the system: accounts, passdb, groups
    users,     \* users[uid]: the row of table users, or NoUser
    groups,    \* groups[gid]: the name in table groups_meta, or NoName
    req,       \* req[r]: the request in slot r, or Idle
    made, upsets,
    orphans,   \* history: accounts that came without a row, or whose create
               \* answered with an error
    stranded,  \* history: names whose passdb entry pdbedit failed to remove
    doubt      \* history: what of a name's row nothing vouches for: pairs of
               \* a name and "account", "smb" or "password"

accountsVars == <<os, users, groups, req, made, upsets, orphans, stranded, doubt>>

NoUser == [name |-> NoName, smb |-> FALSE, synced |-> FALSE]
NoAccount == [uid |-> 0, pw |-> "none"]
NoEntry == [pw |-> "none", on |-> FALSE, there |-> FALSE]
Idle == [op |-> "idle", name |-> NoName, user |-> NoName, group |-> NoName, pw |-> "none",
         on |-> FALSE, id |-> 0, row |-> NoUser, todo |-> <<>>, code |-> "ok",
         lost |-> FALSE, alone |-> FALSE]
Aspects == {"account", "smb", "password"}

Exists(w, n) == w.acct[n].uid # 0
HasEntry(w, n) == w.entry[n].there
Works(r) == req[r].op # "idle"
Busy(n) == {r \in Slots : Works(r) /\ req[r].name = n}
RowsOf(n) == {u \in Numbers : users[u].name = n}

\* Accounts that were there before NAS-OS, if any, are not managed.
AccountsInit ==
    \E old \in SUBSET Names, uid \in [Names -> Numbers] :
      /\ \A n, o \in Names : uid[n] = uid[o] => n = o
      /\ os = [acct    |-> [n \in Names |-> IF n \in old THEN [uid |-> uid[n], pw |-> "old"]
                                                         ELSE NoAccount],
               entry   |-> [n \in Names |-> NoEntry],
               gid     |-> [g \in Groups |-> 0],
               members |-> [g \in Groups \cup {NasosUsers} |-> {}]]
      /\ orphans = old
      /\ users = [u \in Numbers |-> NoUser] /\ groups = [i \in Numbers |-> NoName]
      /\ req = [r \in Slots |-> Idle]
      /\ made = 0 /\ upsets = 0 /\ stranded = {} /\ doubt = {}

-----------------------------------------------------------------------------
(* Commands: the states that command may leave the system w in for request  *)
(* q; none when it exits with an error.                                     *)

When(condition, w) == IF condition THEN {w} ELSE {}

lookup(w, q) == When(Exists(w, q.name), w)
useradd(w, q) ==
    {[w EXCEPT !.acct[q.name] = [uid |-> u, pw |-> "locked"],
               !.members[NasosUsers] = @ \cup {q.name}] :
        u \in {u \in Numbers : ~Exists(w, q.name) /\ \A n \in Names : w.acct[n].uid # u}}
userdel(w, q) ==
    When(Exists(w, q.name),
         [w EXCEPT !.acct[q.name] = NoAccount,
                   !.members = [g \in DOMAIN @ |-> @[g] \ {q.name}]])
chpasswd(w, q) == When(Exists(w, q.name), [w EXCEPT !.acct[q.name].pw = q.pw])
usermod(w, q) ==
    When(Exists(w, q.user) /\ (q.group \in Groups => w.gid[q.group] # 0),
         [w EXCEPT !.members[q.group] = @ \cup {q.user}])
gpasswd(w, q) ==
    When(q.user \in w.members[q.group], [w EXCEPT !.members[q.group] = @ \ {q.user}])
\* -a: a new entry is enabled; one that is there and disabled may stay so.
smbpasswd_add(w, q) ==
    {[w EXCEPT !.entry[q.name] = [pw |-> q.pw, on |-> on, there |-> TRUE]] :
        on \in {on \in BOOLEAN : Exists(w, q.name) /\
                  (on \/ (HasEntry(w, q.name) /\ ~w.entry[q.name].on))}}
smbpasswd(w, q) ==
    When(HasEntry(w, q.name), [w EXCEPT !.entry[q.name].pw = q.pw])
pdbedit(w, q) == When(HasEntry(w, q.name), [w EXCEPT !.entry[q.name] = NoEntry])
smbpasswd_enable(w, q) ==
    When(HasEntry(w, q.name), [w EXCEPT !.entry[q.name].on = q.on])
groupadd(w, q) ==
    {[w EXCEPT !.gid[q.name] = i] :
        i \in {i \in Numbers : w.gid[q.name] = 0 /\ \A g \in Groups : w.gid[g] # i}}
groupdel(w, q) ==
    When(w.gid[q.name] # 0, [w EXCEPT !.gid[q.name] = 0, !.members[q.name] = {}])

Results(c, w, q) ==
    CASE c = "lookup"  -> lookup(w, q)   [] c = "useradd"  -> useradd(w, q)
      [] c = "id"      -> lookup(w, q)   [] c = "userdel"  -> userdel(w, q)
      [] c = "usermod" -> usermod(w, q)  [] c = "gpasswd"  -> gpasswd(w, q)
      [] c = "pdbedit" -> pdbedit(w, q)  [] c = "chpasswd" -> chpasswd(w, q)
      [] c = "smbpasswd_add" -> smbpasswd_add(w, q)
      [] c = "smbpasswd" -> smbpasswd(w, q)
      [] c = "smbpasswd_enable" -> smbpasswd_enable(w, q)
      [] c = "groupadd" -> groupadd(w, q)
      [] c = "getent" -> When(w.gid[q.name] # 0, w)
      [] c = "groupdel" -> groupdel(w, q)

-----------------------------------------------------------------------------
(* Handlers of the agent: the commands each runs until one fails.           *)

users_create == <<"useradd", "id", "chpasswd", "smbpasswd_add">>
users_set_smb_enabled == <<"smbpasswd_enable">>
\* Fault: the passdb entry is left to the account's deletion.
users_delete_accountOnly == <<"userdel">>
users_delete == <<"pdbedit", "userdel">>
users_set_password == <<"chpasswd", "smbpasswd">>
users_import_existing == <<"lookup", "usermod">>
groups_create == <<"groupadd", "getent">>
groups_delete == <<"groupdel">>
groups_add_member == <<"usermod">>
groups_remove_member == <<"gpasswd">>

\* A passdb entry that cannot be removed does not stop the deletion.
Ignored(c) == c = "pdbedit"

\* The code of the error answer.
ErrorCode(op, c) ==
    CASE op = "set_password" /\ c = "smbpasswd" -> "smb_password_sync_failed"
      [] c = "lookup" -> "not_found"
      [] OTHER -> "system_error"

-----------------------------------------------------------------------------
(* Routes: a request starts in a free slot.  One that finds another at work *)
(* on its name leaves nothing of the name's row vouched for.                *)

\* The requests on these names are no longer alone.
Disturbed(names) ==
    [s \in Slots |-> IF Works(s) /\ req[s].name \in names THEN [req[s] EXCEPT !.alone = FALSE]
                     ELSE req[s]]

Begin(r, q) ==
    /\ made < MaxRequests /\ ~Works(r)
    /\ made' = made + 1
    /\ req' = [Disturbed({q.name}) EXCEPT ![r] = [q EXCEPT !.alone = (Busy(q.name) = {})]]
    /\ doubt' = IF Busy(q.name) = {} THEN doubt ELSE doubt \cup ({q.name} \X Aspects)
    /\ UNCHANGED <<os, users, groups, upsets, orphans, stranded>>

create_user(r, n, p) ==
    Begin(r, [Idle EXCEPT !.op = "create", !.name = n, !.pw = p, !.todo = users_create])

import_user(r, n) ==
    Begin(r, [Idle EXCEPT !.op = "import", !.name = n, !.user = n, !.group = NasosUsers,
                          !.todo = users_import_existing])

\* _get_user_or_404: the row as it is now goes with the request.
OnUser(r, u, q) ==
    users[u] # NoUser /\ Begin(r, [q EXCEPT !.name = users[u].name, !.id = u, !.row = users[u]])

update_user(r, u, on) ==
    OnUser(r, u, [Idle EXCEPT !.op = "set_smb", !.on = on, !.todo = users_set_smb_enabled])
set_password(r, u, p) ==
    OnUser(r, u, [Idle EXCEPT !.op = "set_password", !.pw = p, !.todo = users_set_password])
delete_user(r, u) == OnUser(r, u, [Idle EXCEPT !.op = "delete", !.todo = users_delete])

create_group(r, g) ==
    Begin(r, [Idle EXCEPT !.op = "create_group", !.name = g, !.todo = groups_create])

OnGroup(r, i, q) ==
    groups[i] # NoName /\ Begin(r, [q EXCEPT !.name = groups[i], !.id = i, !.group = groups[i]])

delete_group(r, i) == OnGroup(r, i, [Idle EXCEPT !.op = "delete_group", !.todo = groups_delete])
add_member(r, i, n) ==
    OnGroup(r, i, [Idle EXCEPT !.op = "member", !.user = n, !.todo = groups_add_member])
remove_member(r, i, n) ==
    OnGroup(r, i, [Idle EXCEPT !.op = "member", !.user = n, !.todo = groups_remove_member])

Route(r) ==
    \/ \E n \in Names : import_user(r, n) \/ \E p \in Passwords : create_user(r, n, p)
    \/ \E u \in Numbers : delete_user(r, u) \/ \E on \in BOOLEAN : update_user(r, u, on)
    \/ \E u \in Numbers, p \in Passwords : set_password(r, u, p)
    \/ \E g \in Groups : create_group(r, g)
    \/ \E i \in Numbers : delete_group(r, i)
    \/ \E i \in Numbers, n \in Names : add_member(r, i, n) \/ remove_member(r, i, n)

-----------------------------------------------------------------------------
(* The agent at work.                                                       *)

\* A request whose answer nobody waits for ends with its last command.
Left(q) == IF q.lost /\ q.todo = <<>> THEN Idle ELSE q

\* The number the answer reports: id -u, getpwnam and getent look it up.
Found(c, w, q) ==
    CASE c \in {"id", "lookup"} -> w.acct[q.name].uid
      [] c = "getent" -> w.gid[q.name]
      [] OTHER -> q.id

\* The next command works.
Runs(r) ==
    /\ Works(r) /\ req[r].todo # <<>>
    /\ LET q == req[r]
           c == Head(q.todo)
       IN \E w \in Results(c, os, q) :
            /\ os' = w
            /\ req' = [req EXCEPT ![r] = Left([q EXCEPT !.todo = Tail(@),
                                                        !.id = Found(c, w, q)])]
    /\ UNCHANGED <<users, groups, made, upsets, orphans, stranded, doubt>>

\* The request after command c failed.
Failed(q, c) ==
    IF Ignored(c) THEN [q EXCEPT !.todo = Tail(@)]
    ELSE [q EXCEPT !.todo = <<>>, !.code = ErrorCode(q.op, c)]

\* It fails without effect, because the system is not as it needs it or for a
\* reason of its own.
Fails(r) ==
    /\ Works(r) /\ req[r].todo # <<>>
    /\ LET q == req[r]
           c == Head(q.todo)
       IN /\ IF Results(c, os, q) = {} THEN upsets' = upsets
             ELSE upsets < MaxUpsets /\ upsets' = upsets + 1
          /\ req' = [req EXCEPT ![r] = Left(Failed(q, c))]
          /\ IF c = "pdbedit" /\ HasEntry(os, q.name)
             THEN stranded' = stranded \cup {q.name} /\ doubt' = doubt \cup {<<q.name, "smb">>}
             ELSE UNCHANGED <<stranded, doubt>>
    /\ UNCHANGED <<os, users, groups, made, orphans>>

\* What of its row a command makes untrue when it takes effect and the row is
\* not written.
HiddenBy(c) ==
    CASE c \in {"userdel", "groupdel"} -> {"account"}
      [] c = "smbpasswd_enable" -> {"smb"}
      [] c = "chpasswd" -> {"password"}
      [] OTHER -> {}

\* It takes effect and reports a failure: userdel -r exits with 12 when the
\* account is gone and its home is not, and the exit status of any command is
\* lost when a fileworker is reaped at the wrong moment.
Misreports(r) ==
    /\ Works(r) /\ req[r].todo # <<>> /\ upsets < MaxUpsets
    /\ upsets' = upsets + 1
    /\ LET q == req[r]
           c == Head(q.todo)
       IN /\ \E w \in Results(c, os, q) : os' = w
          /\ req' = [req EXCEPT ![r] = Left(Failed(q, c))]
          /\ doubt' = doubt \cup ({q.name} \X HiddenBy(c))
    /\ UNCHANGED <<users, groups, made, orphans, stranded>>

Created(q) == IF q.op = "create" THEN {q.name} ELSE {}

\* The web process loses the connection or restarts: the row is not written,
\* the agent goes on.
Lost(r) ==
    /\ Works(r) /\ ~req[r].lost /\ upsets < MaxUpsets
    /\ upsets' = upsets + 1
    /\ req' = [req EXCEPT ![r] = Left([@ EXCEPT !.lost = TRUE])]
    /\ doubt' = doubt \cup ({req[r].name} \X Aspects)
    /\ orphans' = orphans \cup Created(req[r])
    /\ UNCHANGED <<os, users, groups, made, stranded>>

\* The agent restarts: what it was doing stays as far as it got.
AgentRestart ==
    /\ upsets < MaxUpsets /\ \E r \in Slots : Works(r) /\ req[r].todo # <<>>
    /\ upsets' = upsets + 1
    /\ LET cut == {r \in Slots : Works(r) /\ req[r].todo # <<>>} IN
         /\ req' = [r \in Slots |-> IF r \in cut THEN Idle ELSE req[r]]
         /\ doubt' = doubt \cup ({req[r].name : r \in cut} \X Aspects)
         /\ orphans' = orphans \cup UNION {Created(req[r]) : r \in cut}
    /\ UNCHANGED <<os, users, groups, made, stranded>>

-----------------------------------------------------------------------------
(* The services: the answer is there.                                       *)

\* Answered(r, op, code, struck): struck are the names whose row the request
\* writes though it is not its own.
Answered(r, op, code, struck) ==
    /\ req[r].op = op /\ req[r].todo = <<>> /\ req[r].code = code
    /\ req' = [Disturbed(struck) EXCEPT ![r] = Idle]
    /\ UNCHANGED <<os, made, upsets, stranded>>

\* A request that was alone and worked vouches for what it wrote.
Vouched(q, aspects) == IF q.alone THEN doubt \ ({q.name} \X aspects) ELSE doubt

\* Rows are written by the id that was read.  By now the row may belong to
\* another name that was given the number.
Struck(q, row) ==
    IF users[q.id] \in {NoUser, row} THEN {} ELSE {users[q.id].name} \ {q.name}

\* The constraints of the two tables.
UserClash(q) == users[q.id] # NoUser \/ RowsOf(q.name) # {}
GroupClash(q) == groups[q.id] # NoName \/ \E i \in Numbers : groups[i] = q.name

\* What is left in doubt when a row is new: whether a passdb entry that was
\* there before is enabled.
OldEntry(q) ==
    IF <<q.name, "account">> \in doubt \/ (q.name \in stranded /\ <<q.name, "smb">> \in doubt)
    THEN {<<q.name, "smb">>} ELSE {}

\* INSERT of a user; a clash is an error 500.
AddUser(q, flag) ==
    IF UserClash(q)
    THEN /\ orphans' = orphans \cup {q.name}
         /\ UNCHANGED <<users, groups, doubt>>
    ELSE /\ users' = [users EXCEPT ![q.id] = [name |-> q.name, smb |-> flag, synced |-> flag]]
         /\ orphans' = IF q.alone THEN orphans \ {q.name} ELSE orphans
         /\ doubt' = IF q.alone THEN Vouched(q, Aspects) \cup OldEntry(q) ELSE doubt
         /\ UNCHANGED groups

svc_create_user(r) == Answered(r, "create", "ok", {}) /\ AddUser(req[r], TRUE)
svc_import_user(r) == Answered(r, "import", "ok", {}) /\ AddUser(req[r], FALSE)

\* commit of an UPDATE fails when the row is gone.
Update(q, row) == users' = IF users[q.id] = NoUser THEN users ELSE [users EXCEPT ![q.id] = row]

\* A column is written only when it differs from what was read.
svc_set_smb_enabled(r) ==
    LET q == req[r]
        row == IF q.row.smb = q.on THEN users[q.id] ELSE [users[q.id] EXCEPT !.smb = q.on]
    IN /\ Answered(r, "set_smb", "ok", Struck(q, row))
       /\ Update(q, row)
       /\ doubt' = Vouched(q, {"smb"}) \cup (Struck(q, row) \X Aspects)
       /\ UNCHANGED <<groups, orphans>>

\* Fault: the sync error is taken for success.
SyncedNow_always(code) == TRUE
SyncedNow(code) == code = "ok"

svc_set_password(r) ==
    LET q == req[r]
        synced == SyncedNow(q.code)
        row == IF q.row.synced = synced THEN users[q.id]
               ELSE [users[q.id] EXCEPT !.synced = synced]
    IN /\ q.code \in {"ok", "smb_password_sync_failed"}
       /\ Answered(r, "set_password", q.code, Struck(q, row))
       /\ Update(q, row)
       /\ doubt' = Vouched(q, {"password"}) \cup (Struck(q, row) \X Aspects)
       /\ UNCHANGED <<groups, orphans>>

svc_delete_user(r) ==
    LET q == req[r]
        struck == Struck(q, NoUser)
    IN /\ Answered(r, "delete", "ok", struck)
       /\ users' = [users EXCEPT ![q.id] = NoUser]
       /\ doubt' = Vouched(q, Aspects \ {"smb"}) \cup (struck \X Aspects)
       /\ orphans' = (IF q.alone THEN orphans \ {q.name} ELSE orphans) \cup struck
       /\ UNCHANGED groups

svc_create_group(r) ==
    /\ Answered(r, "create_group", "ok", {})
    /\ IF GroupClash(req[r])
       THEN UNCHANGED <<groups, doubt>>
       ELSE /\ groups' = [groups EXCEPT ![req[r].id] = req[r].name]
            /\ doubt' = Vouched(req[r], Aspects)
    /\ UNCHANGED <<users, orphans>>

svc_delete_group(r) ==
    LET q == req[r]
        struck == {groups[q.id]} \ {NoName, q.name}
    IN /\ Answered(r, "delete_group", "ok", struck)
       /\ groups' = [groups EXCEPT ![q.id] = NoName]
       /\ doubt' = Vouched(q, Aspects) \cup (struck \X Aspects)
       /\ UNCHANGED <<users, orphans>>

svc_member(r) == Answered(r, "member", "ok", {}) /\ UNCHANGED <<users, groups, orphans, doubt>>

\* UserServiceError and GroupServiceError: the answer is 400.  What a deletion
\* had removed by then stays removed.
ServiceError(r) ==
    /\ req[r].code \in {"system_error", "not_found"}
    /\ Works(r) /\ Answered(r, req[r].op, req[r].code, {})
    /\ orphans' = orphans \cup Created(req[r])
    /\ doubt' = IF req[r].op = "delete" THEN doubt \cup ({req[r].name} \X {"smb", "password"})
                                        ELSE doubt
    /\ UNCHANGED <<users, groups>>

Service(r) ==
    \/ svc_create_user(r) \/ svc_import_user(r) \/ svc_set_smb_enabled(r)
    \/ svc_set_password(r) \/ svc_delete_user(r) \/ svc_create_group(r)
    \/ svc_delete_group(r) \/ svc_member(r) \/ ServiceError(r)

AccountsNext ==
    \/ \E r \in Slots :
         Route(r) \/ Runs(r) \/ Fails(r) \/ Misreports(r) \/ Lost(r) \/ Service(r)
    \/ AgentRestart

AccountsSpec == AccountsInit /\ [][AccountsNext]_accountsVars

-----------------------------------------------------------------------------
(* Properties.                                                              *)

\* The variables have their types, and no two rows have one name.
AccountsTypeOK ==
    /\ \A u, v \in Numbers : users[u] # NoUser /\ users[u].name = users[v].name => u = v
    /\ users \in [Numbers -> [name : Names, smb : BOOLEAN, synced : BOOLEAN] \cup {NoUser}]
    /\ groups \in [Numbers -> Groups \cup {NoName}]
    /\ \A n \in Names : Exists(os, n) => os.acct[n].uid \in Numbers
    /\ orphans \subseteq Names /\ stranded \subseteq Names
    /\ doubt \subseteq (Names \cup Groups) \X Aspects

Sure(n, aspect) == Busy(n) = {} /\ <<n, aspect>> \notin doubt

\* A row tells the truth: its account is there under its uid and in
\* nasos-users, a row that says SMB is enabled has an enabled entry, and one
\* that says the passwords are in sync has the same password in both places;
\* a group's row has its group, under its gid.
\* Only requests on one name that overlap, one that writes a row which has
\* changed hands, an answer that is lost, an agent that restarts, a deletion
\* that fails midway, a command that takes effect and reports a failure, and
\* an entry that was there before the account make it doubtful, and each
\* aspect is sure again after one request on its own that sets it.
RowIsTruthful ==
    /\ \A i \in Numbers : groups[i] # NoName =>
         (Sure(groups[i], "account") => os.gid[groups[i]] = i)
    /\ \A u \in Numbers : users[u] # NoUser =>
         LET n == users[u].name IN
         /\ Sure(n, "account") => os.acct[n].uid = u /\ n \in os.members[NasosUsers]
         /\ Sure(n, "smb") /\ users[u].smb => os.entry[n].on
         /\ Sure(n, "password") /\ users[u].synced =>
              HasEntry(os, n) /\ os.entry[n].pw = os.acct[n].pw

\* Every account and every passdb entry is accounted for: an account NAS-OS
\* made has a row, or its create answered with an error, or its row was
\* deleted by a request for an earlier user of the number; and a deleted user
\* leaves no entry behind for the next account of the name, unless pdbedit
\* failed to remove it or requests on the name overlapped or were cut off.
NothingIsStray ==
    \A n \in Names :
        /\ Exists(os, n) /\ Busy(n) = {} => RowsOf(n) # {} \/ n \in orphans
        /\ HasEntry(os, n) /\ ~Exists(os, n) /\ Sure(n, "account") => n \in stranded
==============================================================================
