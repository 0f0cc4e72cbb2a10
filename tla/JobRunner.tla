----------------------------- MODULE JobRunner ------------------------------
(***************************************************************************)
(* agent/jobs.py: the bounded-concurrency runner that executes every long  *)
(* operation (storage plans, recursive ACLs, file copies) in the agent and *)
(* in each fileworker.                                                     *)
(*                                                                         *)
(* The runner lives on one asyncio event loop, so an action is the code    *)
(* between two awaits.  A task takes the semaphore first and the           *)
(* per-resource lock second; both are asyncio primitives that serve their  *)
(* waiters first come, first served, which is why they are sequences here. *)
(* A job body is a number of units of work with an await after each;       *)
(* cooperative bodies (files.delete/copy/move/zip) look at                 *)
(* cancel_requested before each unit, the others (storage.execute_plan,    *)
(* shares.apply_permissions, files.set_acl) never do.                      *)
(***************************************************************************)
EXTENDS Naturals, Sequences, FiniteSets

CONSTANTS
    Jobs,            \* job ids: uuid4, so one is never used twice
    Resources,       \* names of lockable resources
    NoResource,      \* resource=None
    NoJob,           \* an asyncio.Lock nobody holds
    MaxConcurrency,  \* MAX_CONCURRENCY
    Bodies,          \* bound: the kinds of body, [coop, work] records
    MaxRestarts,     \* bound: restarts of the process
    MaxUnlogged      \* bound: jobs at one time whose line could not be appended

ASSUME MaxConcurrencyAssumption == MaxConcurrency \in Nat \ {0}
ASSUME BodiesAssumption == Bodies \subseteq [coop : BOOLEAN, work : Nat]
ASSUME BoundsAssumption == MaxRestarts \in Nat /\ MaxUnlogged \in Nat
ASSUME NoResourceAssumption == NoResource \notin Resources
ASSUME NoJobAssumption == NoJob \notin Jobs

VARIABLES
    jobs,        \* self._jobs: the records, in insertion order
    status,      \* record.status; "new" before submit, "lost" after a restart
    res,         \* record.resource
    coop,        \* the body looks at handle.cancel_requested between units
    left,        \* units of work the body has still to do
    handles,     \* self._handles: the jobs that can be asked to stop
    cancel,      \* handle.cancel_requested; FALSE without a handle
    semQueue,    \* tasks that wait for self._semaphore, oldest first
    slots,       \* tasks that hold the semaphore
    lockHolder,  \* lockHolder[r]: the task that holds self._resource_locks[r]
    lockQueue,   \* lockQueue[r]: tasks that wait for it, oldest first
    event,       \* the status in the last job.progress event of each job
    log,         \* log[j]: the lines of jobs.jsonl about j; it survives restarts
    restarts     \* restarts so far (bounded)

taskVars == <<status, coop, left, handles, cancel, event, log>>
lockVars == <<lockHolder, lockQueue>>
vars == <<jobs, status, res, coop, left, handles, cancel, semQueue, slots,
          lockHolder, lockQueue, event, log, restarts>>

Terminal == {"done", "failed", "cancelled"}
Statuses == {"new", "queued", "running", "lost"} \cup Terminal

Init ==
    /\ jobs = <<>>
    /\ status = [j \in Jobs |-> "new"]
    /\ res = [j \in Jobs |-> NoResource]
    /\ coop = [j \in Jobs |-> FALSE]
    /\ left = [j \in Jobs |-> 0]
    /\ handles = {}
    /\ cancel = [j \in Jobs |-> FALSE]
    /\ semQueue = <<>>
    /\ slots = {}
    /\ lockHolder = [r \in Resources |-> NoJob]
    /\ lockQueue = [r \in Resources |-> <<>>]
    /\ event = [j \in Jobs |-> "new"]
    /\ log = [j \in Jobs |-> <<>>]
    /\ restarts = 0

-----------------------------------------------------------------------------
(* submit: record, handle and task are created in one step; the task        *)
(* starts later and queues for the semaphore in creation order.             *)

\* uuid4().hex: some id never used before; ids have no order, so which one
\* does not matter.
FreshId == CHOOSE j \in Jobs : status[j] = "new"

submit(j, r, b) ==
    /\ status[j] = "new" /\ j = FreshId
    /\ jobs' = Append(jobs, j)
    /\ status' = [status EXCEPT ![j] = "queued"]
    /\ res' = [res EXCEPT ![j] = r]
    /\ coop' = [coop EXCEPT ![j] = b.coop]
    /\ left' = [left EXCEPT ![j] = b.work]
    /\ handles' = handles \cup {j}
    /\ semQueue' = Append(semQueue, j)
    /\ UNCHANGED <<cancel, slots, lockVars, event, log, restarts>>

\* request_cancel: only a job that still has a handle can be asked to stop.
request_cancel(j) ==
    /\ j \in handles
    /\ cancel' = [cancel EXCEPT ![j] = TRUE]
    /\ UNCHANGED <<jobs, status, res, coop, left, handles, semQueue, slots, lockVars,
                   event, log, restarts>>

-----------------------------------------------------------------------------
(* _run, up to the body.                                                    *)

\* Fault: a semaphore with one permit too many.
SlotFree_extra == Cardinality(slots) <= MaxConcurrency
\* async with self._semaphore: a permit is left.
SlotFree == Cardinality(slots) < MaxConcurrency

\* Fault: no lock at all.
LockFree_noLock(r) == TRUE
\* Fault: a lock just released is taken past the tasks that wait for it.
LockFree_barging(r) == lockHolder[r] = NoJob
\* Lock.acquire returns at once only if nobody holds the lock or waits for it.
LockFree(r) == lockHolder[r] = NoJob /\ lockQueue[r] = <<>>

\* record.status = "running"; self._publish(record): the body starts.
Begin(j) ==
    /\ status' = [status EXCEPT ![j] = "running"]
    /\ event' = [event EXCEPT ![j] = "running"]

\* The oldest waiter gets the semaphore, then goes for its resource's lock.
AcquireSlot(j) ==
    /\ semQueue # <<>> /\ j = Head(semQueue)
    /\ SlotFree
    /\ semQueue' = Tail(semQueue)
    /\ slots' = slots \cup {j}
    /\ \/ /\ res[j] = NoResource
          /\ Begin(j)
          /\ UNCHANGED lockVars
       \/ /\ res[j] # NoResource /\ LockFree(res[j])
          /\ lockHolder' = [lockHolder EXCEPT ![res[j]] = j]
          /\ Begin(j)
          /\ UNCHANGED lockQueue
       \/ /\ res[j] # NoResource /\ ~LockFree(res[j])
          /\ lockQueue' = [lockQueue EXCEPT ![res[j]] = Append(@, j)]
          /\ UNCHANGED <<status, event, lockHolder>>
    /\ UNCHANGED <<jobs, res, coop, left, handles, cancel, log, restarts>>

\* Lock.release wakes the oldest waiter, which finds the lock unlocked.
AcquireLock(r) ==
    /\ lockHolder[r] = NoJob /\ lockQueue[r] # <<>>
    /\ LET j == Head(lockQueue[r]) IN
         /\ lockHolder' = [lockHolder EXCEPT ![r] = j]
         /\ lockQueue' = [lockQueue EXCEPT ![r] = Tail(@)]
         /\ Begin(j)
    /\ UNCHANGED <<jobs, res, coop, left, handles, cancel, semQueue, slots, log,
                   restarts>>

-----------------------------------------------------------------------------
(* The body and the end of _run.                                            *)

\* A cooperative body stops before its next unit when asked to.
Stops(j) == coop[j] /\ cancel[j]

\* Fault: a unit is started although none is left.
BodyStep_past(j) ==
    /\ status[j] = "running" /\ ~Stops(j)
    /\ left' = [left EXCEPT ![j] = @ - 1]
    /\ UNCHANGED <<jobs, status, res, coop, handles, cancel, semQueue, slots, lockVars,
                   event, log, restarts>>
\* One unit of work; handle.progress publishes it unless it comes within
\* PROGRESS_THROTTLE_SECONDS of the previous one (the status is "running"
\* in both, so nothing changes in the feed).
BodyStep(j) ==
    /\ status[j] = "running"
    /\ left[j] > 0 /\ ~Stops(j)
    /\ left' = [left EXCEPT ![j] = @ - 1]
    /\ UNCHANGED <<jobs, status, res, coop, handles, cancel, semQueue, slots, lockVars,
                   event, log, restarts>>

\* Fault: a cancelled job is reported like any other.
Outcome_ignoresCancel(j) == "done"
\* The status of a body that returned.
Outcome(j) == IF cancel[j] THEN "cancelled" ELSE "done"

\* Fault: the task ends without giving the lock back.
Released_kept(j) == lockHolder
\* lock.release()
Released(j) ==
    [r \in Resources |-> IF r = res[j] THEN NoJob ELSE lockHolder[r]]

\* Fault: a failed job is not appended to jobs.jsonl.
Logged_doneOnly(j, s) ==
    IF s = "failed" THEN log ELSE [log EXCEPT ![j] = Append(@, s)]
\* _append_result, when mkdir and open let it.
Logged(j, s) == [log EXCEPT ![j] = Append(@, s)]

\* Jobs whose _append_result raised.
Unlogged == {j \in handles : status[j] \in Terminal}

\* The finally block: release, publish, append, forget the handle; leaving
\* the async with gives the permit back.  No await anywhere in it.  When the
\* append raises (a full disk; in a fileworker always, as the user may not
\* enter state_dir) there is no line and the handle stays.
Finish(j, s) ==
    /\ status' = [status EXCEPT ![j] = s]
    /\ lockHolder' = Released(j)
    /\ event' = [event EXCEPT ![j] = s]
    /\ slots' = slots \ {j}
    /\ \/ /\ log' = Logged(j, s)
          /\ handles' = handles \ {j} /\ cancel' = [cancel EXCEPT ![j] = FALSE]
       \/ Cardinality(Unlogged) < MaxUnlogged /\ UNCHANGED <<log, handles, cancel>>
    /\ UNCHANGED <<jobs, res, coop, left, semQueue, lockQueue, restarts>>

BodyReturns(j) ==
    /\ status[j] = "running"
    /\ left[j] = 0 \/ Stops(j)
    /\ Finish(j, Outcome(j))

BodyRaises(j) ==
    /\ status[j] = "running"
    /\ Finish(j, "failed")

\* The process goes away (a crash, a restart, the fileworker's idle exit):
\* asyncio.run cancels what is left, and a cancelled task is neither done,
\* failed nor cancelled to _append_result, so nothing is logged for it.
Restart ==
    /\ restarts < MaxRestarts
    /\ restarts' = restarts + 1
    /\ jobs' = <<>>
    /\ status' = [j \in Jobs |-> IF status[j] = "new" THEN "new" ELSE "lost"]
    /\ handles' = {} /\ cancel' = [j \in Jobs |-> FALSE]
    /\ semQueue' = <<>>
    /\ slots' = {}
    /\ lockHolder' = [r \in Resources |-> NoJob]
    /\ lockQueue' = [r \in Resources |-> <<>>]
    /\ UNCHANGED <<res, coop, left, event, log>>

TaskStep(j) == AcquireSlot(j) \/ BodyStep(j) \/ BodyReturns(j) \/ BodyRaises(j)

Next ==
    \/ \E j \in Jobs, r \in Resources \cup {NoResource}, b \in Bodies :
          submit(j, r, b)
    \/ \E j \in Jobs : request_cancel(j)
    \/ \E j \in Jobs : TaskStep(j)
    \/ \E r \in Resources : AcquireLock(r)
    \/ Restart

Spec == Init /\ [][Next]_vars

\* The event loop keeps running ready tasks, and the commands and threads a
\* body waits for come to an end.
Fairness ==
    /\ \A j \in Jobs : WF_vars(TaskStep(j))
    /\ \A r \in Resources : WF_vars(AcquireLock(r))

FairSpec == Spec /\ Fairness

-----------------------------------------------------------------------------
(* Properties.                                                              *)

\* The variables have their types.
TypeOK ==
    /\ jobs \in Seq(Jobs)
    /\ status \in [Jobs -> Statuses]
    /\ res \in [Jobs -> Resources \cup {NoResource}]
    /\ coop \in [Jobs -> BOOLEAN]
    /\ left \in [Jobs -> Nat]
    /\ handles \in SUBSET Jobs
    /\ cancel \in [Jobs -> BOOLEAN]
    /\ semQueue \in Seq(Jobs)
    /\ slots \in SUBSET Jobs
    /\ lockHolder \in [Resources -> Jobs \cup {NoJob}]
    /\ lockQueue \in [Resources -> Seq(Jobs)]
    /\ event \in [Jobs -> Statuses]
    /\ log \in [Jobs -> Seq(Terminal)]
    /\ restarts \in Nat

Running == {j \in Jobs : status[j] = "running"}

\* Two bodies never run on one resource at the same time (jobs.py: "two
\* operations on the same resource never race").
ResourceExclusive ==
    \A i, j \in Running :
        res[i] = res[j] /\ res[i] # NoResource => i = j

\* At most MAX_CONCURRENCY bodies run at once.
ConcurrencyBounded == Cardinality(Running) <= MaxConcurrency

\* A job is reported "done" only if its body did all its work, and a body
\* that does not look at cancel_requested is never stopped part-way ("never
\* mid-mkfs"), whatever it is reported as.
NeverStoppedMidway ==
    \A j \in Jobs :
        /\ status[j] = "done" => left[j] = 0
        /\ status[j] = "cancelled" /\ ~coop[j] => left[j] = 0

\* The record, the last event of the feed and jobs.jsonl never tell different
\* outcomes of a job, across restarts too; one that has not ended has no line,
\* none has two, and one that has ended is without a line exactly when it can
\* still be asked to stop, because appending the line raised.
OutcomeReported ==
    \A j \in Jobs :
        /\ status[j] \in Terminal =>
             /\ event[j] = status[j]
             /\ log[j] = IF j \in handles THEN <<>> ELSE <<status[j]>>
        /\ status[j] \in {"new", "queued", "running"} => log[j] = <<>>
        /\ log[j] # <<>> => log[j] = <<event[j]>>

\* Every submitted job ends, or the process does.
EveryJobEnds ==
    \A j \in Jobs : status[j] = "queued" ~> status[j] \in Terminal \cup {"lost"}

-----------------------------------------------------------------------------
(* The runner implements JobService.                                        *)

\* The phase of a job, read off its status.
phaseOf == [j \in Jobs |->
              CASE status[j] = "new" -> "new"
                [] status[j] = "queued" -> "waiting"
                [] status[j] = "running" -> "active"
                [] status[j] = "lost" -> "lost"
                [] OTHER -> "ended"]

Service == INSTANCE JobService WITH jobs <- jobs, phase <- phaseOf, res <- res

\* Every behaviour of the runner is one of the job service: jobs on one
\* resource run one at a time in the order they were submitted (the ACLs of a
\* share are left as the last request wanted them only because of this), and
\* each ends once.
ImplementsService == Service!Spec
=============================================================================
