----------------------------- MODULE FileWorker ------------------------------
(***************************************************************************)
(* The file worker of one user: how the agent starts it, how the web       *)
(* process finds it, how it stops, and how the agent learns that it did.   *)
(*                                                                         *)
(*   agent   agent/fileworker_supervisor.py: FileWorkerSupervisor          *)
(*   worker  agent/fileworker.py: run, _handle_connection, _IdleTracker    *)
(*   web     web/main.py: get_prod_client; web/deps.py;                    *)
(*           rpc/client.py: FileWorkerClient                               *)
(*                                                                         *)
(* A worker that has been idle for long stops listening, waits for the     *)
(* connections it has, lets the threads of its jobs end and exits.  It is  *)
(* a zombie until the agent's SIGCHLD handler collects it, together with   *)
(* every other child of the agent: signals are not counted.                *)
(***************************************************************************)
EXTENDS Naturals

CONSTANTS
    Calls,       \* requests of the user at one time
    MaxCalls,    \* bound: requests altogether
    MaxWorkers,  \* bound: workers started
    IdleLimit,   \* IDLE_TIMEOUT_SECONDS, in ticks
    MaxKills     \* bound: workers killed and agent restarts

ASSUME WorkerAssumption ==
    /\ MaxCalls \in Nat /\ MaxWorkers \in Nat \ {0} /\ IdleLimit \in Nat \ {0}
    /\ MaxKills \in Nat

VARIABLES
    worker,    \* _workers[uid].pid; 0 when there is no entry
    proc,      \* proc[p]: the state of process p
    path,      \* the process whose socket has the worker's path; 0 for none
    idle,      \* ticks since the worker read a line
    call,      \* call[c]: where request c is
    sigchld,   \* SIGCHLD is pending
    other,     \* a command the agent runs beside: asyncio waits for it
    made, kills

workerVars == <<worker, proc, path, idle, call, sigchld, other, made, kills>>

Pids == 1..MaxWorkers
Nowhere == [st |-> "idle", pid |-> 0]

\* What a process does: it accepts connections; has closed its server and
\* serves the connections it has; has left its event loop and waits for
\* threads; has exited; has been collected.
Running == {"serving", "closing", "draining"}
Looping == {"serving", "closing"}

WorkerInit ==
    /\ worker = 0 /\ path = 0 /\ idle = 0 /\ sigchld = FALSE /\ other = "running"
    /\ proc = [p \in Pids |-> "none"]
    /\ call = [c \in Calls |-> Nowhere]
    /\ made = 0 /\ kills = 0

-----------------------------------------------------------------------------
(* FileWorkerSupervisor.                                                    *)

\* Fault: a worker is alive while it accepts connections.
Alive_accepting(p) == proc[p] = "serving"
\* _process_alive: kill(pid, 0) finds a zombie too.
Alive(p) == proc[p] \in Running \cup {"zombie"}

\* run: the worker serves the socket it was started with, its idle timer
\* starts, it has no jobs and no uploads.
Serve(p) == proc' = [proc EXCEPT ![p] = "serving"] /\ idle' = 0

\* _bind_worker_socket and _spawn_worker: the socket listens before the
\* process starts.
Spawn ==
    \E p \in Pids :
      /\ proc[p] = "none" /\ \A q \in Pids : q < p => proc[q] # "none"
      /\ Serve(p)
      /\ path' = p /\ worker' = p

\* FileWorkerSupervisor.ensure
ensure ==
    \/ worker # 0 /\ Alive(worker) /\ UNCHANGED <<worker, proc, path, idle>>
    \/ ~(worker # 0 /\ Alive(worker)) /\ Spawn

\* agent.fileworker.ensure, which every request begins with: get_prod_client.
fileworker_ensure(c) ==
    /\ call[c] = Nowhere /\ made < MaxCalls
    /\ made' = made + 1
    /\ call' = [call EXCEPT ![c].st = "ensured"]
    /\ ensure
    /\ UNCHANGED <<sigchld, other, kills>>

\* Fault: one child per signal.
Collected_one(zombies) == {CHOOSE p \in zombies : \A q \in zombies : p <= q}
\* waitpid(-1) until there is none.
Collected(zombies) == zombies

\* reap: 0 stands for the command beside, whose exit status is lost here.
reap ==
    /\ sigchld
    /\ sigchld' = FALSE
    /\ LET zombies == {p \in Pids : proc[p] = "zombie"}
                      \cup (IF other = "zombie" THEN {0} ELSE {})
           gone == IF zombies = {} THEN {} ELSE Collected(zombies)
       IN /\ proc' = [p \in Pids |-> IF p \in gone THEN "gone" ELSE proc[p]]
          /\ worker' = IF worker \in gone THEN 0 ELSE worker
          /\ other' = IF 0 \in gone THEN "ended" ELSE other
    /\ UNCHANGED <<path, idle, call, made, kills>>

\* A command of the agent exits; asyncio's watcher collects it, unless reap
\* was first.
CommandExits == other = "running" /\ other' = "zombie" /\ sigchld' = TRUE
CommandWaited == other = "zombie" /\ other' = "ended" /\ UNCHANGED sigchld
Command ==
    /\ CommandExits \/ CommandWaited
    /\ UNCHANGED <<worker, proc, path, idle, call, made, kills>>

-----------------------------------------------------------------------------
(* The web process's side of a request.                                     *)

\* connect: refused when nobody listens at the path; the request ends with
\* an error.
Connect(c) ==
    /\ call[c].st = "ensured"
    /\ call' = [call EXCEPT ![c] = IF path # 0 /\ proc[path] = "serving"
                                   THEN [st |-> "connected", pid |-> path] ELSE Nowhere]
    /\ UNCHANGED <<worker, proc, path, idle, sigchld, other, made, kills>>

\* The answer is read and the client closed.
Close(c) ==
    /\ call[c].st = "answered"
    /\ call' = [call EXCEPT ![c] = Nowhere]
    /\ UNCHANGED <<worker, proc, path, idle, sigchld, other, made, kills>>

-----------------------------------------------------------------------------
(* The worker.                                                              *)

\* _handle_connection reads a line; a long answer (download_range) leaves the
\* request working, another is answered at once.
ReadLine(c, long) ==
    /\ call[c].st = "connected" /\ proc[call[c].pid] \in Looping
    /\ idle' = 0
    /\ call' = [call EXCEPT ![c].st = IF long THEN "working" ELSE "answered"]
    /\ UNCHANGED <<worker, proc, path, sigchld, other, made, kills>>

\* The last frame of a download.
LastFrame(c) ==
    /\ call[c].st = "working" /\ proc[call[c].pid] \in Looping
    /\ call' = [call EXCEPT ![c].st = "answered"]
    /\ UNCHANGED <<worker, proc, path, idle, sigchld, other, made, kills>>

Tick ==
    /\ worker # 0 /\ proc[worker] = "serving" /\ idle < IdleLimit
    /\ idle' = idle + 1
    /\ UNCHANGED <<worker, proc, path, call, sigchld, other, made, kills>>

\* _IdleTracker.watch: the server is closed.  A connection that waited to be
\* accepted is reset.
watch(p) ==
    /\ proc[p] = "serving" /\ p = worker /\ idle >= IdleLimit
    /\ proc' = [proc EXCEPT ![p] = "closing"]
    /\ \E reset \in SUBSET {c \in Calls : call[c] = [st |-> "connected", pid |-> p]} :
         call' = [c \in Calls |-> IF c \in reset THEN Nowhere ELSE call[c]]
    /\ idle' = 0
    /\ UNCHANGED <<worker, path, sigchld, other, made, kills>>

\* Fault: the worker does not wait for its connections.
Unattended_always(p) == TRUE
\* wait_closed
Unattended(p) == \A c \in Calls : call[c].pid # p

\* run returns from the server: the loop is left, its tasks are cancelled.
LeaveLoop(p) ==
    /\ proc[p] = "closing" /\ Unattended(p)
    /\ proc' = [proc EXCEPT ![p] = "draining"]
    /\ UNCHANGED <<worker, path, idle, call, sigchld, other, made, kills>>

\* The requests of a process that is gone fail.
Dropped(ps) == [c \in Calls |-> IF call[c].pid \in ps THEN Nowhere ELSE call[c]]

Exit(p) ==
    /\ proc[p] = "draining"
    /\ proc' = [proc EXCEPT ![p] = "zombie"] /\ sigchld' = TRUE
    /\ call' = Dropped({p})
    /\ UNCHANGED <<worker, path, idle, other, made, kills>>

Kill(p) ==
    /\ proc[p] \in Running /\ kills < MaxKills
    /\ kills' = kills + 1
    /\ proc' = [proc EXCEPT ![p] = "zombie"] /\ sigchld' = TRUE
    /\ call' = Dropped({p})
    /\ UNCHANGED <<worker, path, idle, other, made>>

\* The agent stops and starts: systemd kills its children with it.
AgentRestart ==
    /\ kills < MaxKills
    /\ kills' = kills + 1
    /\ proc' = [p \in Pids |-> IF proc[p] = "none" THEN "none" ELSE "gone"]
    /\ worker' = 0 /\ sigchld' = FALSE
    /\ other' = "ended"
    /\ call' = Dropped(Pids)
    /\ UNCHANGED <<path, idle, made>>
==============================================================================
