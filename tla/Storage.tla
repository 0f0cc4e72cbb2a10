------------------------------- MODULE Storage -------------------------------
(***************************************************************************)
(* Storage Manager: from a plan the user is shown to a registered volume.  *)
(*                                                                         *)
(*   web    services/storage/plan.py: PlanStore, create_plan, execute_plan; *)
(*          services/storage/completion.py: VolumeAutoRegistrar            *)
(*   agent  agent/handlers/storage.py: the storage.execute_plan job;       *)
(*          system/storage_plan.py: the steps of a plan                    *)
(*   host   the disks, LVM, systemd units, and people using them           *)
(*                                                                         *)
(* The two processes meet over one socket: the web's request, the agent's  *)
(* response and the agent's job events.  A request is answered as soon as  *)
(* the job is submitted; the volume row is written when the event of the   *)
(* job's end arrives.  The jobs share the resource "storage", so they run  *)
(* one at a time in the order they were accepted (JobService, which   *)
(* JobRunner implements), which is `queue` here.                           *)
(*                                                                         *)
(* Disks are named by serial.  The device path of a disk is resolved by    *)
(* serial when the job starts, so only the serial matters to what follows. *)
(***************************************************************************)
EXTENDS Naturals, Sequences, FiniteSets, SequencesExt

CONSTANTS
    Disks,        \* serials
    Sizes,        \* sizes a disk can report; two are equal or not
    Unplugged,    \* the size of a disk that is not there
    Volumes,      \* volume names; the mountpoint, VG and LV are named after it
    Layouts,      \* bound: the [level, disks] choices users make
    Plans,        \* bound: plan ids, each used once
    Requests,     \* bound: execute requests; a request's job has its name
    NoRequest,    \* nobody
    MaxUpsets     \* bound: restarts of either process, connections that
                  \* break, INSERTs that fail, things other people do to disks
                  \* and volumes registered by hand

Levels == {"basic", "1", "5", "6", "10"}
ASSUME LayoutsAssumption == Layouts \subseteq [level : Levels, disks : Seq(Disks)]
ASSUME NoRequestAssumption == NoRequest \notin Requests
ASSUME BoundsAssumption == MaxUpsets \in Nat

VARIABLES
    \* the host
    use,        \* what is on a disk besides LVM: "blank", "foreign", "raid"
    size,       \* the size it reports, or Unplugged
    erasedBy,   \* the job that last erased it
    vgs,        \* vgs[v]: the disks of volume group nasos_<v>; {} if none
    lvs,        \* volumes whose logical volume exists
    mounted,    \* mounted[v]: the job that started the mount unit of v
    dropins,    \* the volumes in RequiresMountsFor= of smb, nfs and vsftpd
    \* the web process
    plans,      \* PlanStore._plans
    requests,   \* execute calls: the plan, managed_mountpoints, where they are
    db,         \* the volumes table: "none", "managed" or "plain"
    \* between them
    wire,       \* requests written to the socket and not yet read
    feed,       \* events of ended jobs on their way to the registrar
    connected,  \* the web's connection to the agent is up
    missed,     \* history: volumes whose job's event of success came when
                \* nobody was connected, was under way when the connection
                \* broke or the web restarted, or met an INSERT that failed
    \* the agent
    queue,      \* accepted jobs that have not ended, the running one first
    job,        \* job[r]: its status and the steps it has still to do
    upsets

hostVars == <<use, size, erasedBy, vgs, lvs, mounted, dropins>>
webVars == <<plans, requests, db>>
linkVars == <<wire, feed, connected, missed>>
agentVars == <<queue, job>>
vars == <<hostVars, webVars, linkVars, agentVars, upsets>>

NoPlan == [state |-> "none"]
NoCall == [state |-> "idle"]
NoSteps == [status |-> "none", todo |-> <<>>]

Init ==
    /\ use = [d \in Disks |-> "blank"]
    /\ size \in [Disks -> Sizes]
    /\ erasedBy = [d \in Disks |-> NoRequest]
    /\ vgs = [v \in Volumes |-> {}]
    /\ lvs = {}
    /\ mounted = [v \in Volumes |-> NoRequest]
    /\ dropins = {}
    /\ plans = [p \in Plans |-> NoPlan]
    /\ requests = [r \in Requests |-> NoCall]
    /\ db = [v \in Volumes |-> "none"]
    /\ wire = {} /\ feed = <<>> /\ connected = FALSE /\ missed = {}
    /\ queue = <<>>
    /\ job = [r \in Requests |-> NoSteps]
    /\ upsets = 0

Upset == upsets < MaxUpsets /\ upsets' = upsets + 1

-----------------------------------------------------------------------------
(* The guard: compute_protected on a fresh inventory (StorageGuard has the  *)
(* walk over the device tree).                                              *)

Present(d) == size[d] # Unplugged

Protected(d) == use[d] # "blank" \/ \E v \in lvs : d \in vgs[v]

-----------------------------------------------------------------------------
(* Plans, in the web process.                                               *)

\* _LEVEL_MIN_DISKS
MinDisks ==
    [l \in Levels |-> CASE l = "basic" -> 1 [] l = "1" -> 2 [] l = "5" -> 3 [] OTHER -> 4]

ValidLayout(l) ==
    /\ Len(l.disks) >= MinDisks[l.level]
    /\ l.level = "basic" => Len(l.disks) = 1
    /\ l.level = "10" => Len(l.disks) % 2 = 0

\* PlanStore: what put, get and pop do to the plan of an id.
Put(p, plan) == plans' = [plans EXCEPT ![p] = plan]
Get(p) == plans[p].state = "open"
Pop(p) == plans' = [plans EXCEPT ![p].state = "gone"]

\* create_plan: every disk is there and unprotected in the agent's inventory.
\* Nothing looks at the volume name.  The plan keeps the sizes it was made
\* for (expected_sizes).
create_plan(p, v, l) ==
    /\ plans[p].state = "none"
    /\ ValidLayout(l)
    /\ \A d \in Range(l.disks) : Present(d) /\ ~Protected(d)
    /\ Put(p, [state |-> "open", vol |-> v, level |-> l.level, disks |-> l.disks,
               shown |-> [d \in Range(l.disks) |-> size[d]]])
    /\ connected' = TRUE
    /\ UNCHANGED <<hostVars, requests, db, wire, feed, missed, agentVars, upsets>>

\* POST /plans: of any name and layout; a refusal is only written to the
\* audit log, which is not modelled.
post_plan(p) == \E v \in Volumes, l \in Layouts : create_plan(p, v, l)

\* _gc: PLAN_TTL_SECONDS have passed.
Expire(p) ==
    /\ Get(p) /\ Pop(p)
    /\ UNCHANGED <<hostVars, requests, db, linkVars, agentVars, upsets>>

Managed == {v \in Volumes : db[v] = "managed"}

\* execute_plan up to its await: the plan is looked up and stays in the
\* store, the managed mountpoints are read from the table, and both go out
\* with the request.
execute_plan(r, p) ==
    /\ requests[r].state = "idle"
    /\ Get(p)
    /\ requests' = [requests EXCEPT ![r] =
                      [state |-> "sent", id |-> p, plan |-> plans[p],
                       managed |-> Managed \cup {plans[p].vol}]]
    /\ wire' = wire \cup {r}
    /\ connected' = TRUE
    /\ UNCHANGED <<hostVars, plans, db, feed, missed, agentVars, upsets>>

\* POST /plans/{id}/execute: of any plan, by as many requests as come.
post_execute(r) == \E p \in Plans : execute_plan(r, p)

\* The response arrives and the plan is taken out of the store.
ExecuteReturns(r) ==
    /\ requests[r].state = "sent"
    /\ job[r].status # "none"
    /\ requests' = [requests EXCEPT ![r].state = "ended"]
    /\ Pop(requests[r].id)
    /\ UNCHANGED <<hostVars, db, linkVars, agentVars, upsets>>

\* Calls in flight when the connection goes: ConnectionError, the plan stays.
Dropped ==
    [r \in Requests |-> IF requests[r].state = "sent"
                        THEN [requests[r] EXCEPT !.state = "ended"]
                        ELSE requests[r]]

\* volumes.register: a filesystem that is already mounted gets a row.
register_volume(v) ==
    /\ Upset
    /\ db[v] = "none"
    /\ db' = [db EXCEPT ![v] = "plain"]
    /\ UNCHANGED <<hostVars, plans, requests, linkVars, agentVars>>

\* POST /volumes: an administrator takes any name.
post_volume == \E v \in Volumes : register_volume(v)

\* Fault: the insert is not committed.
Registered_uncommitted(v) == db
\* _register: the insert clashes when the name or the mountpoint is taken.
Registered(v) == IF db[v] = "none" THEN [db EXCEPT ![v] = "managed"] ELSE db

\* Fault: the registrar does not look at the status.
Wanted_any(event) == TRUE
\* Only the event of a job that ended well is registered.
Wanted(event) == event.status = "done"

\* The volumes of jobs that these events say ended well.
Successes(events) == {e.vol : e \in {e \in Range(events) : e.status = "done"}}

\* VolumeAutoRegistrar._run takes the next event off its queue.
Register ==
    /\ feed # <<>>
    /\ db' = IF Wanted(Head(feed)) THEN Registered(Head(feed).vol) ELSE db
    /\ feed' = Tail(feed)
    /\ UNCHANGED <<hostVars, plans, requests, wire, connected, missed, agentVars,
                   upsets>>

\* The INSERT or its commit fails for another reason (a locked database, a
\* full disk): that is logged, and the event is gone.
RegisterFails ==
    /\ Upset
    /\ feed # <<>> /\ Wanted(Head(feed))
    /\ feed' = Tail(feed)
    /\ missed' = missed \cup {Head(feed).vol}
    /\ UNCHANGED <<hostVars, webVars, wire, connected, agentVars>>

\* Any other call (the inventory page, the SMART poller) connects the web.
Connect ==
    /\ ~connected
    /\ connected' = TRUE
    /\ UNCHANGED <<hostVars, webVars, wire, feed, missed, agentVars, upsets>>

\* Of the events under way those before some point arrive.
Cut ==
    \E n \in 0..Len(feed) :
      /\ feed' = SubSeq(feed, 1, n)
      /\ missed' = missed \cup Successes(SubSeq(feed, n + 1, Len(feed)))

\* The read loop ends with both processes alive, on a line that is too long:
\* calls in flight fail, and what the agent sends until the next call connects
\* again is not received.  Requests already written may still reach the agent.
ConnectionBreaks ==
    /\ Upset
    /\ connected
    /\ connected' = FALSE
    /\ requests' = Dropped
    /\ wire' \in {wire, {}}
    /\ Cut
    /\ UNCHANGED <<hostVars, plans, db, agentVars>>

\* The web process restarts: plans, calls and undelivered events are gone; a
\* request already written may still reach the agent.
WebRestart ==
    /\ Upset
    /\ plans' = [p \in Plans |-> [plans[p] EXCEPT !.state =
                                    IF @ = "open" THEN "gone" ELSE @]]
    /\ requests' = Dropped
    /\ feed' = <<>>
    /\ missed' = missed \cup Successes(feed)
    /\ connected' = FALSE
    /\ wire' \in {wire, {}}
    /\ UNCHANGED <<hostVars, db, agentVars>>

-----------------------------------------------------------------------------
(* The job, in the agent.                                                   *)

\* What comes after the partitions; a basic volume has no mdadm.  WriteTarget
\* and DaemonReload do nothing that is seen here but may fail; Restorecon's
\* result is ignored, so it is left out.
VolumeSteps ==
    <<"mdadm", "pvcreate", "vgcreate", "lvcreate", "mkfs", "write_mount_unit",
      "write_target", "write_dropins", "daemon_reload", "enable_start_unit">>

\* build_steps: each disk is wiped and partitioned, then they become a volume.
build_steps(plan) ==
    LET partition == 2 * Len(plan.disks)
        skipped == IF plan.level = "basic" THEN 1 ELSE 0
    IN [i \in 1..(partition + Len(VolumeSteps) - skipped) |->
          IF i > partition THEN <<VolumeSteps[i - partition + skipped]>>
          ELSE <<IF i % 2 = 1 THEN "wipefs" ELSE "mkpart", plan.disks[(i + 1) \div 2]>>]

\* The handler submits the job and answers.
Accept(r) ==
    /\ r \in wire
    /\ wire' = wire \ {r}
    /\ queue' = Append(queue, r)
    /\ job' = [job EXCEPT ![r].status = "queued"]
    /\ UNCHANGED <<hostVars, webVars, feed, connected, missed, upsets>>

PlanOf(r) == requests[r].plan
DisksOf(r) == Range(PlanOf(r).disks)

\* The job at the head of the queue is the one that runs.
Runs(r, status) == queue # <<>> /\ r = Head(queue) /\ job[r].status = status

\* Fault: a disk that got protected since the plan was made is not noticed.
Resolves_unguarded(r) ==
    \A d \in DisksOf(r) : Present(d) /\ size[d] = PlanOf(r).shown[d]
\* Fault: the size tripwire is missing.
Resolves_anySize(r) == \A d \in DisksOf(r) : Present(d) /\ ~Protected(d)
\* _resolve_spec finds every disk, unprotected and of the size shown.
Resolves(r) ==
    \A d \in DisksOf(r) :
        Present(d) /\ ~Protected(d) /\ size[d] = PlanOf(r).shown[d]

\* The body starts: a fresh inventory, the guard, the paths by serial.
Check(r) ==
    /\ Runs(r, "queued")
    /\ Resolves(r)
    /\ job' = [job EXCEPT ![r] = [status |-> "running",
                                  todo |-> build_steps(PlanOf(r))]]
    /\ UNCHANGED <<hostVars, webVars, linkVars, queue, upsets>>

\* The end of JobRunner._run: the event goes to the connections there are.
Ended(r, status) ==
    /\ queue' = Tail(queue)
    /\ job' = [job EXCEPT ![r].status = status]
    /\ LET event == [vol |-> PlanOf(r).vol, status |-> status] IN
         IF connected THEN feed' = Append(feed, event) /\ missed' = missed
                      ELSE feed' = feed /\ missed' = missed \cup Successes(<<event>>)
    /\ UNCHANGED <<hostVars, webVars, wire, connected, upsets>>

\* The check refuses, or gathering the inventory fails.
CheckFails(r) == Runs(r, "queued") /\ Ended(r, "failed")

\* A step raises; what the earlier steps did stays.
StepFails(r) == Runs(r, "running") /\ Ended(r, "failed")

\* The next step of the job is `op`, and it succeeds.
StepIs(r, op) ==
    /\ Runs(r, "running") /\ job[r].todo # <<>> /\ Head(job[r].todo)[1] = op
    /\ job' = [job EXCEPT ![r].todo = Tail(@)]
    /\ UNCHANGED <<webVars, linkVars, queue, upsets>>

Wipefs(r) ==
    /\ StepIs(r, "wipefs")
    /\ LET d == Head(job[r].todo)[2] IN
         /\ erasedBy' = [erasedBy EXCEPT ![d] = r]
         /\ use' = [use EXCEPT ![d] = "blank"]
    /\ UNCHANGED <<size, vgs, lvs, mounted, dropins>>

Mdadm(r) ==
    /\ StepIs(r, "mdadm")
    /\ use' = [d \in Disks |-> IF d \in DisksOf(r) THEN "raid" ELSE use[d]]
    /\ UNCHANGED <<size, erasedBy, vgs, lvs, mounted, dropins>>

\* vgcreate fails when there is a volume group of that name.
Vgcreate(r) ==
    /\ StepIs(r, "vgcreate")
    /\ vgs[PlanOf(r).vol] = {}
    /\ vgs' = [vgs EXCEPT ![PlanOf(r).vol] = DisksOf(r)]
    /\ UNCHANGED <<use, size, erasedBy, lvs, mounted, dropins>>

Lvcreate(r) ==
    /\ StepIs(r, "lvcreate")
    /\ lvs' = lvs \cup {PlanOf(r).vol}
    /\ UNCHANGED <<use, size, erasedBy, vgs, mounted, dropins>>

\* Every drop-in is written with the list that came with the request.
WriteDropins(r) ==
    /\ StepIs(r, "write_dropins")
    /\ dropins' = requests[r].managed
    /\ UNCHANGED <<use, size, erasedBy, vgs, lvs, mounted>>

EnableStartUnit(r) ==
    /\ StepIs(r, "enable_start_unit")
    /\ mounted' = [mounted EXCEPT ![PlanOf(r).vol] = r]
    /\ UNCHANGED <<use, size, erasedBy, vgs, lvs, dropins>>

\* Steps that leave nothing another step looks at.
PlainStep(r) ==
    /\ \E op \in {"mkpart", "pvcreate", "mkfs", "write_mount_unit",
                  "write_target", "daemon_reload"} : StepIs(r, op)
    /\ UNCHANGED hostVars

\* The body returns.
Finish(r) ==
    /\ Runs(r, "running") /\ job[r].todo = <<>>
    /\ Ended(r, "done")

\* The agent restarts: its jobs are gone where they stood.
AgentRestart ==
    /\ Upset
    /\ queue' = <<>>
    /\ job' = [r \in Requests |-> IF r \in Range(queue)
                                  THEN [job[r] EXCEPT !.status = "lost"]
                                  ELSE job[r]]
    /\ wire' = {}
    /\ requests' = Dropped
    /\ connected' = FALSE
    /\ Cut
    /\ UNCHANGED <<hostVars, plans, db>>

-----------------------------------------------------------------------------
(* Other people's disks (external).                                         *)

\* Disks a running job is about to erase.  wipefs and parted open a disk
\* exclusively and fail on one that came into use since the check, so that
\* case is StepFails with the disk coming into use afterwards.
Claimed == UNION {DisksOf(r) : r \in {q \in Requests : job[q].status = "running"}}

VolumeDisks == UNION {vgs[v] : v \in lvs}

\* A disk with no volume on it is mounted, used as swap, or given up.
OutsideUse(d, u) ==
    /\ Upset
    /\ Present(d) /\ d \notin Claimed \cup VolumeDisks
    /\ use[d] # u /\ use[d] # "raid"
    /\ use' = [use EXCEPT ![d] = u]
    /\ UNCHANGED <<size, erasedBy, vgs, lvs, mounted, dropins, webVars, linkVars,
                   agentVars>>

\* A disk is unplugged, or comes back, perhaps as another disk.
Hotplug(d, s) ==
    /\ Upset
    /\ d \notin Claimed
    /\ size[d] # s
    /\ size' = [size EXCEPT ![d] = s]
    /\ UNCHANGED <<use, erasedBy, vgs, lvs, mounted, dropins, webVars, linkVars,
                   agentVars>>

JobStep(r) ==
    \/ Check(r) \/ CheckFails(r) \/ StepFails(r)
    \/ Wipefs(r) \/ Mdadm(r) \/ Vgcreate(r) \/ Lvcreate(r)
    \/ WriteDropins(r) \/ EnableStartUnit(r) \/ PlainStep(r) \/ Finish(r)

Next ==
    \/ \E p \in Plans : post_plan(p) \/ Expire(p)
    \/ \E r \in Requests : post_execute(r) \/ ExecuteReturns(r) \/ Accept(r) \/ JobStep(r)
    \/ post_volume
    \/ Register \/ RegisterFails \/ Connect \/ ConnectionBreaks
    \/ WebRestart \/ AgentRestart
    \/ \E d \in Disks, u \in {"blank", "foreign"} : OutsideUse(d, u)
    \/ \E d \in Disks, s \in Sizes \cup {Unplugged} : Hotplug(d, s)

Spec == Init /\ [][Next]_vars

-----------------------------------------------------------------------------
(* Properties.                                                              *)

\* A plan: the names the user chose and the sizes the user was shown.
PlanRecords ==
    [state : {"open", "gone"}, vol : Volumes, level : Levels, disks : Seq(Disks),
     shown : UNION {[S -> Sizes \cup {Unplugged}] : S \in SUBSET Disks}]

\* A call of execute_plan, with what it read before its await.
CallRecords ==
    [state : {"sent", "ended"}, id : Plans, plan : PlanRecords,
     managed : SUBSET Volumes]

Operations == {"wipefs", "mkpart"} \cup {VolumeSteps[i] : i \in 1..Len(VolumeSteps)}

\* The variables have their types.
TypeOK ==
    /\ use \in [Disks -> {"blank", "foreign", "raid"}]
    /\ size \in [Disks -> Sizes \cup {Unplugged}]
    /\ erasedBy \in [Disks -> Requests \cup {NoRequest}]
    /\ vgs \in [Volumes -> SUBSET Disks]
    /\ lvs \subseteq Volumes
    /\ mounted \in [Volumes -> Requests \cup {NoRequest}]
    /\ dropins \subseteq Volumes
    /\ plans \in [Plans -> {NoPlan} \cup PlanRecords]
    /\ requests \in [Requests -> {NoCall} \cup CallRecords]
    /\ db \in [Volumes -> {"none", "managed", "plain"}]
    /\ wire \subseteq Requests
    /\ feed \in Seq([vol : Volumes, status : {"done", "failed"}])
    /\ connected \in BOOLEAN /\ missed \subseteq Volumes
    /\ queue \in Seq(Requests)
    /\ job \in [Requests ->
                  [status : {"none", "queued", "running", "done", "failed", "lost"},
                   todo : Seq({<<o>> : o \in Operations} \cup (Operations \X Disks))]]
    /\ upsets \in 0..MaxUpsets

\* A disk is erased only by a job whose plan names it, and only when it is
\* there, is in no use the guard knows and has the size the user was shown:
\* whatever happened to the disk between the plan, the confirmation, the
\* job's place in the queue and its start.
ErasesOnlyWhatWasShown ==
    [][\A d \in Disks : erasedBy'[d] # erasedBy[d] =>
         LET plan == PlanOf(erasedBy'[d]) IN
           /\ d \in Range(plan.disks)
           /\ ~Protected(d)
           /\ Present(d) /\ size[d] = plan.shown[d]]_vars

\* Once a volume's mount unit is active, no later job touches its disks: a
\* plan executed twice, or two plans for one disk, cannot destroy a volume;
\* and no disk becomes part of two volumes.
VolumeIntact ==
    /\ \A v, w \in lvs : v # w => vgs[v] \cap vgs[w] = {}
    /\ \A v \in Volumes : mounted[v] # NoRequest =>
        \A d \in vgs[v] : erasedBy[d] = mounted[v]

\* A managed row stands for a volume some job finished.
RegisteredIsMounted ==
    \A v \in Volumes : db[v] = "managed" =>
        mounted[v] # NoRequest /\ job[mounted[v]].status = "done"

\* The volume of a finished job has its row, or the event of its end is
\* still on its way to the registrar, whatever restarts, breaks or is
\* registered by hand in between.  Only an event that a broken connection, a
\* restart or a failed INSERT met is forgotten, as nobody asks again.
DoneIsNotForgotten ==
    \A r \in Requests : job[r].status = "done" =>
        LET v == PlanOf(r).vol IN
        db[v] # "none" \/ v \in Successes(feed) \/ v \in missed
==============================================================================
