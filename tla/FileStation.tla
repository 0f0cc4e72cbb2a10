----------------------------- MODULE FileStation -----------------------------
(***************************************************************************)
(* File Station of one user: the routes of api/files.py ask the user's     *)
(* worker (module FileWorker) for operations on files (module Files).  The *)
(* worker's jobs go on while no request is open, which its idle timer does *)
(* not notice, and end with it.                                            *)
(***************************************************************************)
EXTENDS FileWorker, Files

vars == <<workerVars, filesVars>>

Init == WorkerInit /\ FilesInit

-----------------------------------------------------------------------------
(* A line of a request is read: what the route asks for.                    *)

Asks(c, operation) == ReadLine(c, FALSE) /\ operation

api_delete(c, j) == Asks(c, delete(j, call[c].pid))
api_copy(c, j) == Asks(c, copy(j, call[c].pid))
api_move(c, j) == Asks(c, move(j, call[c].pid))
api_zip(c, j) == Asks(c, zip_paths(j, call[c].pid))
api_rename(c) == Asks(c, \E p \in Paths, n \in Names : rename(p, n))

\* list, search, properties, get_acl and jobs.list change nothing.
api_look(c) == Asks(c, UNCHANGED filesVars)
\* content: a download, on a connection of its own.
api_content(c) == ReadLine(c, TRUE) /\ UNCHANGED filesVars

Request(c) ==
    \/ api_rename(c) \/ api_look(c) \/ api_content(c)
    \/ \E j \in Jobs : api_delete(c, j) \/ api_copy(c, j) \/ api_move(c, j) \/ api_zip(c, j)

-----------------------------------------------------------------------------
(* Jobs go on while their process does what they need.                      *)

LoopStep(j) ==
    /\ job[j].status = "running" /\ proc[job[j].by] \in Looping
    /\ OnLoop(j)
    /\ UNCHANGED workerVars

ThreadStep(j) ==
    /\ job[j].status = "running" /\ proc[job[j].by] \in Running
    /\ InThread(j)
    /\ UNCHANGED workerVars

\* Fault: the process does not wait for its threads.
ThreadsEnded_always(p) == TRUE
\* asyncio.run and the interpreter wait for the threads of the executor.
ThreadsEnded(p) ==
    \A j \in Jobs : job[j].status = "running" /\ job[j].by = p => job[j].at = "loop"

WorkerExits(p) == ThreadsEnded(p) /\ Exit(p) /\ Interrupted(p)
WorkerKilled(p) == Kill(p) /\ Interrupted(p)
Restart == AgentRestart /\ Interrupted(worker)

WorkerOnly ==
    /\ \/ \E c \in Calls : fileworker_ensure(c) \/ Connect(c) \/ Close(c) \/ LastFrame(c)
       \/ \E p \in Pids : watch(p) \/ LeaveLoop(p)
       \/ reap \/ Command \/ Tick
    /\ UNCHANGED filesVars

Next ==
    \/ WorkerOnly
    \/ \E c \in Calls : Request(c)
    \/ \E j \in Jobs : LoopStep(j) \/ ThreadStep(j)
    \/ \E p \in Pids : WorkerExits(p) \/ WorkerKilled(p)
    \/ Restart

Spec == Init /\ [][Next]_vars

-----------------------------------------------------------------------------
(* Properties.                                                              *)

\* The variables have their types, and no inode has two paths.
TypeOK ==
    /\ worker \in {0} \cup Pids /\ path \in {0} \cup Pids
    /\ proc \in [Pids -> {"none", "serving", "closing", "draining", "zombie", "gone"}]
    /\ idle \in 0..IdleLimit
    /\ \A c \in Calls : call[c].st \in {"idle", "ensured", "connected", "working", "answered"}
    /\ tree \in [Paths -> {0} \cup Inodes]
    /\ \A p, q \in Paths : tree[p] # 0 /\ tree[p] = tree[q] => p = q
    /\ data \in [Inodes -> [id : 0..2, whole : BOOLEAN]]

\* A user has one worker at a time: two would run jobs over one journal, and
\* each would know only some of the user's uploads.
OneWorker == Cardinality({p \in Pids : proc[p] \in Running}) <= 1

\* A request whose line the worker has read is answered, whatever the idle
\* timer does, unless the worker is killed or the agent stops.
ReadIsAnswered ==
    [][\A c \in Calls : call[c].st = "working" =>
         call'[c].st \in {"working", "answered"} \/ kills' > kills]_vars

\* A socket nobody listens on is not handed out for ever: a worker that is
\* gone has no entry, and one that has exited has its signal on the way, though
\* the signals of several children are one.
DeadIsNoticed ==
    worker # 0 => proc[worker] \in Running \/ (proc[worker] = "zombie" /\ sigchld)

Present == {data[tree[p]].id : p \in {p \in Paths : tree[p] # 0 /\ data[tree[p]].whole}}

\* No content is lost that no delete job removed: not by moves that fail or
\* are cut off at any point, by workers that exit or are killed.  Except that
\* an operation aims at a path another is working on, or a file is copied while
\* it is being written.
NothingIsLost == ~contested /\ ~torn => Originals \subseteq Present \cup asked

\* What a job that is done has written is all there.  A file is incomplete
\* only while it is written, or where a full disk or a kill left it: a worker
\* that exits by itself leaves none.
WrittenIsWhole ==
    ~contested /\ ~torn =>
        /\ \A j \in Jobs : job[j].status = "done" => \A i \in job[j].made : data[i].whole
        /\ kills = 0 /\ full = 0 =>
             \A p \in Paths : tree[p] # 0 /\ ~data[tree[p]].whole =>
                 \E j \in Jobs : /\ job[j].status = "running" /\ job[j].at = "copying"
                                 /\ job[j].into = tree[p]
==============================================================================
