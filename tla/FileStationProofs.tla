-------------------------- MODULE FileStationProofs --------------------------
(***************************************************************************)
(* Proofs about the file worker of a user and its supervisor, in the whole *)
(* File Station: for any requests, workers, jobs and files, and any number *)
(* of kills and restarts of the agent.                                     *)
(*                                                                         *)
(* Everything rests on one fact: a process that is not the supervisor's    *)
(* entry has been collected or was never started.  So ensure starts a      *)
(* worker only when there is none, and a worker is running while a request *)
(* is open on it.                                                          *)
(***************************************************************************)
EXTENDS FileStation, FiniteSetTheorems, TLAPS

WorkerTypes ==
    /\ worker \in {0} \cup Pids /\ path \in {0} \cup Pids
    /\ proc \in [Pids -> {"none", "serving", "closing", "draining", "zombie", "gone"}]
    /\ call \in [Calls -> [st : {"idle", "ensured", "connected", "working", "answered"},
                           pid : {0} \cup Pids]]
    /\ kills \in Nat

\* The supervisor's entry is its worker, until the worker is collected.
EntryInv ==
    /\ \A p \in Pids : p # worker => proc[p] \in {"none", "gone"}
    /\ worker # 0 => proc[worker] \in Running \cup {"zombie"}
    /\ worker # 0 /\ proc[worker] = "zombie" => sigchld

\* An open connection has a process whose loop serves it.
CallInv ==
    \A c \in Calls :
      /\ call[c].pid # 0 => proc[call[c].pid] \in Looping
      /\ call[c].st \in {"connected", "working", "answered"} => call[c].pid # 0

\* The inductive invariant.
IInv == WorkerTypes /\ EntryInv /\ CallInv
-----------------------------------------------------------------------------
(* The worker's part of a step.                                             *)

\* What any step is to the worker: a step of module FileWorker or nothing.
WorkerStep ==
    \/ \E c \in Calls : fileworker_ensure(c) \/ Connect(c) \/ Close(c) \/ LastFrame(c)
                        \/ ReadLine(c, TRUE) \/ ReadLine(c, FALSE)
    \/ \E p \in Pids : watch(p) \/ LeaveLoop(p) \/ Exit(p) \/ Kill(p)
    \/ reap \/ Command \/ Tick \/ AgentRestart
    \/ UNCHANGED workerVars

LEMMA WorkerEffect == [Next]_vars => WorkerStep
  <1>1. ASSUME NEW c \in Calls, Request(c)
        PROVE  ReadLine(c, TRUE) \/ ReadLine(c, FALSE)
    BY <1>1 DEF Request, Asks, api_rename, api_look, api_content, api_delete, api_copy,
                api_move, api_zip
  <1>2. CASE WorkerOnly
    BY <1>2 DEF WorkerOnly, WorkerStep
  <1>3. CASE \E j \in Jobs : LoopStep(j) \/ ThreadStep(j)
    BY <1>3 DEF LoopStep, ThreadStep, WorkerStep
  <1>4. CASE Restart \/ \E p \in Pids : WorkerExits(p) \/ WorkerKilled(p)
    BY <1>4 DEF Restart, WorkerExits, WorkerKilled, WorkerStep
  <1>5. CASE UNCHANGED vars
    BY <1>5 DEF vars, WorkerStep
  <1>6. QED
    BY <1>1, <1>2, <1>3, <1>4, <1>5 DEF Next, WorkerStep

LEMMA PidFacts == 0 \notin Pids /\ Pids \subseteq Nat
  BY WorkerAssumption DEF Pids

\* ensure starts a process only when none is left.
LEMMA EnsureStep ==
    ASSUME IInv, ensure
    PROVE  \/ UNCHANGED <<worker, proc, path, idle>>
           \/ /\ worker = 0 /\ \A p \in Pids : proc[p] \in {"none", "gone"}
              /\ \E p \in Pids : /\ proc' = [proc EXCEPT ![p] = "serving"]
                                 /\ proc[p] = "none" /\ path' = p /\ worker' = p
  <1>1. WorkerTypes /\ EntryInv /\ 0 \notin Pids
    BY PidFacts DEF IInv
  <1>2. CASE UNCHANGED <<worker, proc, path, idle>>
    BY <1>2
  <1>3. CASE ~(worker # 0 /\ Alive(worker)) /\ Spawn
    <2>1. worker = 0
      BY <1>1, <1>3 DEF EntryInv, Alive
    <2>2. \A p \in Pids : proc[p] \in {"none", "gone"}
      BY <1>1, <2>1 DEF EntryInv
    <2>3. \E p \in Pids : /\ proc' = [proc EXCEPT ![p] = "serving"]
                          /\ proc[p] = "none" /\ path' = p /\ worker' = p
      BY <1>3 DEF Spawn, Serve
    <2>4. QED
      BY <2>1, <2>2, <2>3
  <1>4. QED
    BY <1>2, <1>3 DEF ensure

\* Calls whose process stays where it is, or that end.
LEMMA CallsKept ==
    ASSUME IInv, \A c \in Calls : call'[c] = call[c] \/ call'[c] = Nowhere,
           \A c \in Calls : call'[c].pid # 0 => proc'[call'[c].pid] \in Looping
    PROVE  CallInv'
  BY DEF IInv, CallInv, Nowhere

LEMMA Inductive == IInv /\ [Next]_vars => IInv'
  <1> SUFFICES ASSUME IInv, WorkerStep
               PROVE  IInv'
    BY WorkerEffect
  <1>0. WorkerTypes /\ EntryInv /\ CallInv /\ 0 \notin Pids
    BY PidFacts DEF IInv
  <1>1. ASSUME NEW c \in Calls, fileworker_ensure(c)
        PROVE  IInv'
    <2>1. /\ call' = [call EXCEPT ![c].st = "ensured"] /\ call[c] = Nowhere
          /\ UNCHANGED <<sigchld, kills>> /\ ensure
      BY <1>1 DEF fileworker_ensure
    <2>2. \A d \in Calls : /\ call'[d].pid = call[d].pid
                           /\ d # c => call'[d] = call[d]
                           /\ d = c => call'[d].st = "ensured"
      BY <1>0, <2>1 DEF WorkerTypes
    <2>3. call' \in [Calls -> [st : {"idle", "ensured", "connected", "working", "answered"},
                               pid : {0} \cup Pids]]
      BY <1>0, <2>1 DEF WorkerTypes
    <2>4. CASE UNCHANGED <<worker, proc, path, idle>>
      BY <1>0, <2>1, <2>2, <2>3, <2>4 DEF IInv, WorkerTypes, EntryInv, CallInv
    <2>5. ASSUME worker = 0, \A p \in Pids : proc[p] \in {"none", "gone"},
                 NEW p \in Pids, proc' = [proc EXCEPT ![p] = "serving"], path' = p, worker' = p
          PROVE  IInv'
      <3>1. WorkerTypes'
        BY <1>0, <2>1, <2>3, <2>5 DEF WorkerTypes
      <3>2. EntryInv'
        BY <1>0, <2>1, <2>5 DEF EntryInv, WorkerTypes, Running
      <3>3. \A d \in Calls : call[d].pid = 0
        BY <1>0, <2>5 DEF CallInv, Looping, WorkerTypes
      <3>4. CallInv'
        BY <1>0, <2>2, <3>3 DEF CallInv
      <3>5. QED
        BY <3>1, <3>2, <3>4 DEF IInv
    <2>6. QED
      BY <2>1, <2>4, <2>5, EnsureStep
  <1>2. ASSUME NEW c \in Calls, Connect(c)
        PROVE  IInv'
    <2>1. UNCHANGED <<worker, proc, path, sigchld, kills>>
          /\ call' = [call EXCEPT ![c] = IF path # 0 /\ proc[path] = "serving"
                                         THEN [st |-> "connected", pid |-> path] ELSE Nowhere]
      BY <1>2 DEF Connect
    <2>2. WorkerTypes' /\ EntryInv'
      BY <1>0, <2>1 DEF WorkerTypes, EntryInv, Nowhere
    <2>3. CallInv'
      BY <1>0, <2>1 DEF CallInv, WorkerTypes, Nowhere, Looping
    <2>4. QED
      BY <2>2, <2>3 DEF IInv
  <1>3. ASSUME NEW c \in Calls, Close(c)
        PROVE  IInv'
    <2>1. UNCHANGED <<worker, proc, path, sigchld, kills>>
          /\ call' = [call EXCEPT ![c] = Nowhere]
      BY <1>3 DEF Close
    <2>2. WorkerTypes' /\ EntryInv'
      BY <1>0, <2>1 DEF WorkerTypes, EntryInv, Nowhere
    <2>3. CallInv'
      BY <1>0, <2>1 DEF CallInv, WorkerTypes, Nowhere
    <2>4. QED
      BY <2>2, <2>3 DEF IInv
  <1>4. ASSUME NEW c \in Calls,
               LastFrame(c) \/ ReadLine(c, TRUE) \/ ReadLine(c, FALSE)
        PROVE  IInv'
    <2>1. PICK s \in {"working", "answered"} : call' = [call EXCEPT ![c].st = s]
      BY <1>4 DEF LastFrame, ReadLine
    <2>2. /\ UNCHANGED <<worker, proc, path, sigchld, kills>>
          /\ call[c].st \in {"connected", "working"}
      BY <1>4 DEF LastFrame, ReadLine
    <2>3. WorkerTypes' /\ EntryInv'
      BY <1>0, <2>1, <2>2 DEF WorkerTypes, EntryInv
    <2>4. CallInv'
      BY <1>0, <2>1, <2>2 DEF CallInv, WorkerTypes
    <2>5. QED
      BY <2>3, <2>4 DEF IInv
  <1>5. ASSUME NEW p \in Pids, watch(p)
        PROVE  IInv'
    <2>1. /\ p = worker /\ proc' = [proc EXCEPT ![p] = "closing"]
          /\ UNCHANGED <<worker, path, sigchld, kills>>
          /\ \A c \in Calls : call'[c] = call[c] \/ call'[c] = Nowhere
          /\ call' = [c \in Calls |-> call'[c]]
      BY <1>5 DEF watch
    <2>2. WorkerTypes' /\ EntryInv'
      BY <1>0, <2>1 DEF WorkerTypes, EntryInv, Nowhere, Running
    <2>3. CallInv'
      BY <1>0, <2>1, CallsKept DEF CallInv, WorkerTypes, Nowhere, Looping
    <2>4. QED
      BY <2>2, <2>3 DEF IInv
  <1>6. ASSUME NEW p \in Pids, LeaveLoop(p)
        PROVE  IInv'
    <2>1. /\ proc[p] = "closing" /\ proc' = [proc EXCEPT ![p] = "draining"]
          /\ \A c \in Calls : call[c].pid # p
          /\ UNCHANGED <<worker, path, sigchld, kills, call>>
      BY <1>6 DEF LeaveLoop, Unattended
    <2>2. WorkerTypes' /\ EntryInv'
      BY <1>0, <2>1 DEF WorkerTypes, EntryInv, Running
    <2>3. CallInv'
      BY <1>0, <2>1 DEF CallInv, WorkerTypes
    <2>4. QED
      BY <2>2, <2>3 DEF IInv
  <1>7. ASSUME NEW p \in Pids, Exit(p) \/ Kill(p)
        PROVE  IInv'
    <2>1. /\ proc[p] \in Running /\ proc' = [proc EXCEPT ![p] = "zombie"] /\ sigchld'
          /\ call' = Dropped({p}) /\ kills' \in {kills, kills + 1}
          /\ UNCHANGED <<worker, path>>
      BY <1>7 DEF Exit, Kill, Running
    <2>2. \A c \in Calls : call'[c] = IF call[c].pid = p THEN Nowhere ELSE call[c]
      BY <2>1 DEF Dropped
    <2>3. call' = [c \in Calls |-> call'[c]]
      BY <2>1 DEF Dropped
    <2>4. p = worker
      BY <1>0, <2>1 DEF EntryInv, Running
    <2>5. WorkerTypes'
      <3>1. kills' \in Nat
        BY <1>0, <2>1 DEF WorkerTypes
      <3>2. proc' \in [Pids -> {"none", "serving", "closing", "draining", "zombie", "gone"}]
        BY <1>0, <2>1 DEF WorkerTypes
      <3>3. call' \in [Calls -> [st : {"idle", "ensured", "connected", "working", "answered"},
                                 pid : {0} \cup Pids]]
        BY <1>0, <2>2, <2>3 DEF WorkerTypes, Nowhere
      <3>4. QED
        BY <1>0, <2>1, <3>1, <3>2, <3>3 DEF WorkerTypes
    <2>6. EntryInv'
      BY <1>0, <2>1, <2>4 DEF WorkerTypes, EntryInv
    <2>7. CallInv'
      <3>1. ASSUME NEW c \in Calls, call'[c].pid # 0
            PROVE  proc'[call'[c].pid] \in Looping
        <4>1. call'[c] = call[c] /\ call[c].pid # p
          BY <2>2, <3>1 DEF Nowhere
        <4>2. proc'[call[c].pid] = proc[call[c].pid]
          BY <1>0, <2>1, <3>1, <4>1 DEF WorkerTypes
        <4>3. QED
          BY <1>0, <3>1, <4>1, <4>2 DEF CallInv
      <3>2. QED
        BY <2>2, <3>1, CallsKept
    <2>8. QED
      BY <2>5, <2>6, <2>7 DEF IInv
  <1>8. CASE reap
    <2>1. PICK gone \in SUBSET (Pids \cup {0}) :
            /\ gone \cap Pids = {p \in Pids : proc[p] = "zombie"}
            /\ proc' = [p \in Pids |-> IF p \in gone THEN "gone" ELSE proc[p]]
            /\ worker' = IF worker \in gone THEN 0 ELSE worker
      <3> DEFINE zombies == {p \in Pids : proc[p] = "zombie"}
                            \cup (IF other = "zombie" THEN {0} ELSE {})
                 gone == IF zombies = {} THEN {} ELSE Collected(zombies)
      <3>1. gone = zombies
        BY DEF Collected
      <3>2. /\ proc' = [p \in Pids |-> IF p \in gone THEN "gone" ELSE proc[p]]
            /\ worker' = IF worker \in gone THEN 0 ELSE worker
        BY <1>8 DEF reap
      <3>3. zombies \in SUBSET (Pids \cup {0})
            /\ zombies \cap Pids = {p \in Pids : proc[p] = "zombie"}
        BY <1>0
      <3> HIDE DEF zombies, gone
      <3>4. QED
        BY <3>1, <3>2, <3>3
    <2>2. UNCHANGED <<path, call, kills>>
      BY <1>8 DEF reap
    <2>3. WorkerTypes'
      BY <1>0, <2>1, <2>2 DEF WorkerTypes
    <2>4. EntryInv'
      <3>1. CASE worker = 0
        BY <1>0, <2>1, <3>1 DEF EntryInv
      <3>2. CASE worker # 0 /\ proc[worker] = "zombie"
        BY <1>0, <2>1, <3>2 DEF EntryInv, WorkerTypes
      <3>3. CASE worker # 0 /\ proc[worker] # "zombie"
        <4>1. worker \in Pids /\ worker \notin gone /\ proc[worker] \in Running
          BY <1>0, <2>1, <3>3 DEF EntryInv, WorkerTypes
        <4>2. QED
          BY <1>0, <2>1, <4>1 DEF EntryInv, Running
      <3>4. QED
        BY <3>1, <3>2, <3>3
    <2>5. CallInv'
      BY <1>0, <2>1, <2>2 DEF CallInv, WorkerTypes, Looping
    <2>6. QED
      BY <2>3, <2>4, <2>5 DEF IInv
  <1>9. CASE Command
    <2>1. UNCHANGED <<worker, proc, path, call, kills>> /\ (sigchld => sigchld')
      BY <1>9 DEF Command, CommandExits, CommandWaited
    <2>2. QED
      BY <1>0, <2>1 DEF IInv, WorkerTypes, EntryInv, CallInv
  <1>10. CASE Tick \/ UNCHANGED workerVars
    BY <1>0, <1>10 DEF Tick, workerVars, IInv, WorkerTypes, EntryInv, CallInv
  <1>11. CASE AgentRestart
    <2>1. /\ proc' = [p \in Pids |-> IF proc[p] = "none" THEN "none" ELSE "gone"]
          /\ worker' = 0 /\ path' = path /\ kills' = kills + 1
          /\ call' = [c \in Calls |-> IF call[c].pid \in Pids THEN Nowhere ELSE call[c]]
      BY <1>11 DEF AgentRestart, Dropped
    <2>2. WorkerTypes' /\ EntryInv'
      BY <1>0, <2>1 DEF WorkerTypes, EntryInv, Nowhere
    <2>3. \A c \in Calls : call'[c].pid = 0 /\ (call'[c] = call[c] \/ call'[c] = Nowhere)
      BY <1>0, <2>1 DEF WorkerTypes, Nowhere
    <2>4. CallInv'
      BY <2>3, CallsKept
    <2>5. QED
      BY <2>2, <2>4 DEF IInv
  <1>12. QED
    BY <1>1, <1>2, <1>3, <1>4, <1>5, <1>6, <1>7, <1>8, <1>9, <1>10, <1>11 DEF WorkerStep

\* The inductive invariant holds in every reachable state.
THEOREM Invariance == Spec => []IInv
  <1>1. Init => IInv
    BY PidFacts DEF Init, WorkerInit, IInv, WorkerTypes, EntryInv, CallInv, Nowhere
  <1>2. QED
    BY <1>1, Inductive, PTL DEF Spec

\* ensure never starts a second worker of a user beside one that runs: the
\* entry goes only when the process has been collected.
THEOREM OneAtATime == Spec => []OneWorker
  <1>1. IInv => OneWorker
    <2>1. SUFFICES ASSUME IInv
                   PROVE  Cardinality({p \in Pids : proc[p] \in Running}) <= 1
      BY DEF OneWorker
    <2> DEFINE S == {p \in Pids : proc[p] \in Running}
    <2>2. S \subseteq {worker}
      BY <2>1 DEF IInv, EntryInv, Running
    <2>3. IsFiniteSet({worker}) /\ Cardinality({worker}) = 1
      BY FS_Singleton
    <2>4. IsFiniteSet(S) /\ Cardinality(S) <= Cardinality({worker})
      BY <2>2, <2>3, FS_Subset
    <2>5. QED
      BY <2>3, <2>4
  <1>2. QED
    BY Invariance, <1>1, PTL

\* A worker that has exited keeps its entry only while its SIGCHLD is still to
\* be handled: reap collects every child there is, so one signal for several
\* of them is enough.
THEOREM DeadAreNoticed == Spec => []DeadIsNoticed
  <1>1. IInv => DeadIsNoticed
    BY DEF IInv, EntryInv, DeadIsNoticed
  <1>2. QED
    BY Invariance, <1>1, PTL

\* The idle timer never cuts off a request that the worker has read: it stops
\* listening, and waits for the connections it has.
THEOREM ReadMeansAnswered == Spec => ReadIsAnswered
  <1> DEFINE Answers(c) == call[c].st = "working" =>
                             call'[c].st \in {"working", "answered"} \/ kills' > kills
  <1>1. ASSUME IInv, [Next]_vars, NEW c \in Calls
        PROVE  Answers(c)
    <2>0. WorkerTypes /\ CallInv /\ WorkerStep /\ 0 \notin Pids
      BY <1>1, WorkerEffect, PidFacts DEF IInv
    <2>1. SUFFICES ASSUME call[c].st = "working"
                   PROVE  call'[c].st \in {"working", "answered"} \/ kills' > kills
      OBVIOUS
    <2>2. call[c] # Nowhere /\ proc[call[c].pid] \in Looping
      BY <2>0, <2>1 DEF CallInv, Nowhere
    <2>3. ASSUME NEW d \in Calls, fileworker_ensure(d)
          PROVE  call'[c].st = "working"
      BY <2>0, <2>1, <2>2, <2>3 DEF fileworker_ensure, WorkerTypes
    <2>4. ASSUME NEW d \in Calls, Connect(d) \/ Close(d)
          PROVE  call'[c].st = "working"
      BY <2>0, <2>1, <2>4 DEF Connect, Close, WorkerTypes
    <2>5. ASSUME NEW d \in Calls, LastFrame(d) \/ ReadLine(d, TRUE) \/ ReadLine(d, FALSE)
          PROVE  call'[c].st \in {"working", "answered"}
      BY <2>0, <2>1, <2>5 DEF LastFrame, ReadLine, WorkerTypes
    <2>6. ASSUME NEW p \in Pids, watch(p)
          PROVE  call'[c].st = "working"
      BY <2>1, <2>6 DEF watch
    <2>7. ASSUME NEW p \in Pids, Exit(p)
          PROVE  call'[c].st = "working"
      <3>1. call[c].pid # p
        BY <2>2, <2>7 DEF Exit, Looping
      <3>2. QED
        BY <2>1, <2>7, <3>1 DEF Exit, Dropped
    <2>8. CASE AgentRestart \/ \E p \in Pids : Kill(p)
      <3>1. kills' = kills + 1 /\ kills \in Nat
        BY <2>0, <2>8 DEF AgentRestart, Kill, WorkerTypes
      <3>2. QED
        BY <3>1
    <2>9. CASE reap \/ Command \/ Tick \/ UNCHANGED workerVars \/ \E p \in Pids : LeaveLoop(p)
      BY <2>1, <2>9 DEF reap, Command, Tick, workerVars, LeaveLoop
    <2>10. QED
      BY <2>0, <2>3, <2>4, <2>5, <2>6, <2>7, <2>8, <2>9 DEF WorkerStep
  <1>2. IInv /\ [Next]_vars => [\A c \in Calls : Answers(c)]_vars
    BY <1>1
  <1>3. QED
    BY Invariance, <1>2, PTL DEF Spec, ReadIsAnswered
-----------------------------------------------------------------------------
(* The files.                                                               *)

\* As the properties have it: no operation aimed at a path that another was
\* working on, and no file was copied while it was being written.
Apart == ~contested /\ ~torn

\* The jobs whose thread is at work.
Active(j) == job[j].status = "running" /\ job[j].at # "loop"
\* A copy has both its files open, or is a move that has yet to remove its source.
Opened(j) == Active(j) /\ job[j].at \in {"copying", "unlink"}
Moves(j) == Opened(j) /\ job[j].op = "move"

RunningJob ==
    [status : {"running"}, op : {"delete", "copy", "move", "zip"}, todo : Seq(Paths),
     dir : Dirs \cup {"none"}, at : {"loop", "thread", "copying", "unlink"},
     dst : Paths \cup {<<>>}, from : {0} \cup Inodes, into : {0} \cup Inodes,
     made : SUBSET Inodes, by : {0} \cup Pids]

JobStates ==
    RunningJob \cup {NoJob}
    \cup [status : {"done", "failed", "interrupted"}, made : SUBSET Inodes]

\* How far a running job is, and what it has by then.
JobOK(r) ==
    r.status = "running" =>
      /\ r.op \in {"copy", "move"} => r.dir \in Dirs
      /\ r.at # "loop" => r.todo # <<>> /\ (r.op \in {"copy", "move"} <=> r.dst # <<>>)
      /\ r.at \in {"copying", "unlink"} =>
           /\ r.op \in {"copy", "move"}
           /\ r.from # 0 /\ r.into # 0 /\ r.from # r.into
      /\ r.at = "unlink" => r.op = "move"

JobInv == job \in [Jobs -> JobStates] /\ \A j \in Jobs : JobOK(job[j])

FileTypes ==
    /\ tree \in [Paths -> {0} \cup Inodes]
    /\ \A p, q \in Paths : tree[p] # 0 /\ tree[p] = tree[q] => p = q
    /\ data \in [Inodes -> [id : 0..2, whole : BOOLEAN]]
    /\ \A p \in Paths : tree[p] # 0 => data[tree[p]].id # 0
    /\ ops \in Nat /\ full \in Nat
    /\ contested \in BOOLEAN /\ torn \in BOOLEAN

\* Nobody else works on what a job works on.
ApartInv ==
    /\ \A j \in Jobs : Active(j) /\ job[j].at = "thread" /\ job[j].dst # <<>> =>
         tree[job[j].dst] = 0
    /\ \A j, k \in Jobs : Active(j) /\ Active(k) /\ j # k /\ job[j].dst # <<>> =>
         job[j].dst # job[k].dst
    /\ \A j, k \in Jobs : Moves(j) /\ Active(k) /\ job[k].at = "thread" =>
         Source(j) # job[k].dst

\* A copy that is open has the content of its source, as long as somebody wants
\* it, in a file of its own.
CopyInv ==
    /\ \A j \in Jobs : Opened(j) =>
         /\ data[job[j].into].id = data[job[j].from].id /\ data[job[j].from].id # 0
         /\ job[j].at = "unlink" => data[job[j].from].whole
         /\ job[j].at = "copying" =>
              /\ ~data[job[j].into].whole
              /\ data[job[j].into].id \in asked \/ \E p \in Paths : tree[p] = job[j].into
         /\ job[j].op = "move" => tree[Source(j)] \in {0, job[j].from}
    /\ \A j, k \in Jobs : Opened(j) /\ Opened(k) /\ j # k => job[j].into # job[k].into

\* A content that nobody deleted is whole at a path that no move is about to remove.
KeptInv ==
    \A o \in Originals : o \in asked \/
      \E p \in Paths : /\ tree[p] # 0 /\ data[tree[p]] = [id |-> o, whole |-> TRUE]
                       /\ \A j \in Jobs : Active(j) /\ job[j].at = "unlink" => Source(j) # p

\* What is made is whole, and what is not whole is being written or cut off.
WholeInv ==
    /\ \A j \in Jobs : job[j] # NoJob => \A i \in job[j].made : data[i].whole
    /\ kills = 0 /\ full = 0 =>
         \A p \in Paths : tree[p] # 0 /\ ~data[tree[p]].whole =>
           \E j \in Jobs : Active(j) /\ job[j].at = "copying" /\ job[j].into = tree[p]

SafeInv == ApartInv /\ CopyInv /\ KeptInv /\ WholeInv

\* The inductive invariant of the files.
FilesInv == JobInv /\ FileTypes /\ (Apart => SafeInv)
-----------------------------------------------------------------------------
(* What the operators of module Files return.                               *)

LEMMA PathFacts ==
    /\ \A p \in Paths : p # <<>> /\ p[1] \in Dirs /\ p[2] \in Names
    /\ \A d \in Dirs, n \in Names : <<d, n>> \in Paths
  BY DEF Paths

LEMMA InodeFacts == 0 \notin Inodes /\ Originals \subseteq Inodes
  <1>1. MaxItems * MaxOps \in Nat
    BY FilesAssumption
  <1>2. QED
    BY <1>1 DEF Inodes, Originals

LEMMA ItemFacts == \A s \in Items : s \in Seq(Paths) /\ s # <<>>
  <1>1. ASSUME NEW n \in 1..MaxItems, NEW s \in [1..n -> Paths]
        PROVE  s \in Seq(Paths) /\ Len(s) = n /\ s # <<>>
    <2>1. n \in Nat /\ n > 0
      BY FilesAssumption
    <2>2. QED
      BY <2>1
  <1>2. QED
    BY <1>1 DEF Items, Injection

\* A running job is a record of a running job, and has an item.
LEMMA RunningFacts ==
    ASSUME JobInv, NEW j \in Jobs, job[j].status = "running"
    PROVE  /\ job[j] \in RunningJob /\ job[j] # NoJob
           /\ job[j].todo # <<>> => Source(j) \in Paths /\ Tail(job[j].todo) \in Seq(Paths)
  <1>1. job[j] \in RunningJob /\ job[j] # NoJob
    BY DEF JobInv, JobStates, NoJob
  <1>2. job[j].todo \in Seq(Paths)
    BY <1>1 DEF RunningJob
  <1>3. QED
    BY <1>1, <1>2 DEF Source

LEMMA WithFacts ==
    ASSUME JobInv, NEW j \in Jobs, NEW r, With(j, r)
    PROVE  /\ job'[j] = r
           /\ \A k \in Jobs : k # j => job'[k] = job[k]
           /\ r \in JobStates /\ JobOK(r) => JobInv'
  BY DEF With, JobInv

\* Of a job that has ended nothing is left but what it made.
LEMMA EndedFacts ==
    ASSUME JobInv, NEW j \in Jobs, job[j].status = "running",
           NEW s \in {"done", "failed", "interrupted"}
    PROVE  /\ Ended(j, s) \in JobStates /\ JobOK(Ended(j, s))
           /\ Ended(j, s).status = s /\ Ended(j, s).made = job[j].made
  <1>1. job[j].made \in SUBSET Inodes
    BY RunningFacts DEF RunningJob
  <1>2. QED
    BY <1>1 DEF Ended, JobStates, JobOK

\* Between two items a job is on the event loop.
LEMMA ItemDoneFacts ==
    ASSUME JobInv, NEW j \in Jobs, job[j].status = "running", job[j].todo # <<>>
    PROVE  /\ ItemDone(j) \in RunningJob /\ JobOK(ItemDone(j))
           /\ ItemDone(j).status = "running" /\ ItemDone(j).at = "loop"
           /\ ItemDone(j).made = job[j].made
  <1>1. job[j] \in RunningJob /\ Tail(job[j].todo) \in Seq(Paths)
    BY RunningFacts
  <1>2. /\ ItemDone(j) \in RunningJob
        /\ ItemDone(j).status = "running" /\ ItemDone(j).at = "loop"
        /\ ItemDone(j).made = job[j].made
        /\ ItemDone(j).op = job[j].op /\ ItemDone(j).dir = job[j].dir
    BY <1>1 DEF ItemDone, RunningJob
  <1>3. job[j].op \in {"copy", "move"} => job[j].dir \in Dirs
    BY DEF JobInv, JobOK
  <1>4. QED
    BY <1>2, <1>3 DEF JobOK
-----------------------------------------------------------------------------
(* The files' part of a step.                                               *)

Submits(j, p) == delete(j, p) \/ copy(j, p) \/ move(j, p) \/ zip_paths(j, p)

\* A process goes: by itself when its threads have ended, or killed.
Stops(p) == Interrupted(p) /\ (kills' > kills \/ ThreadsEnded(p))

\* What any step is to the files.
FileStep ==
    /\ kills \in Nat /\ kills' \in Nat /\ kills' >= kills
    /\ \/ \E j \in Jobs : OnLoop(j) \/ InThread(j)
       \/ \E j \in Jobs, p \in {0} \cup Pids : Submits(j, p)
       \/ \E p \in Paths, n \in Names : rename(p, n)
       \/ \E p \in {0} \cup Pids : Stops(p)
       \/ UNCHANGED filesVars

LEMMA FilesEffect == IInv /\ [Next]_vars => FileStep
  <1> SUFFICES ASSUME IInv, [Next]_vars
               PROVE  FileStep
    OBVIOUS
  <1>0. kills \in Nat /\ worker \in {0} \cup Pids /\ \A c \in Calls : call[c].pid \in {0} \cup Pids
    BY DEF IInv, WorkerTypes
  <1>1. ASSUME NEW c \in Calls, Request(c)
        PROVE  FileStep
    <2>1. kills' = kills
      BY <1>1 DEF Request, Asks, api_rename, api_look, api_content, api_delete, api_copy,
                  api_move, api_zip, ReadLine
    <2>2. \/ UNCHANGED filesVars
          \/ \E p \in Paths, n \in Names : rename(p, n)
          \/ \E j \in Jobs : Submits(j, call[c].pid)
      BY <1>1 DEF Request, Asks, api_rename, api_look, api_content, api_delete, api_copy,
                  api_move, api_zip, Submits
    <2>3. kills' \in Nat /\ kills' >= kills /\ call[c].pid \in {0} \cup Pids
      BY <1>0, <2>1
    <2>4. QED
      BY <1>0, <2>2, <2>3 DEF FileStep
  <1>2. CASE WorkerOnly
    <2>1. kills' = kills
      BY <1>2 DEF WorkerOnly, fileworker_ensure, Connect, Close, LastFrame, watch, LeaveLoop,
                  reap, Command, Tick
    <2>2. QED
      BY <1>0, <1>2, <2>1 DEF WorkerOnly, FileStep
  <1>3. CASE \E j \in Jobs : LoopStep(j) \/ ThreadStep(j)
    BY <1>0, <1>3 DEF LoopStep, ThreadStep, workerVars, FileStep
  <1>4. ASSUME NEW p \in Pids, WorkerExits(p) \/ WorkerKilled(p)
        PROVE  FileStep
    <2>1. ASSUME WorkerExits(p)
          PROVE  kills' = kills /\ Stops(p)
      BY <2>1 DEF WorkerExits, Exit, Stops
    <2>2. ASSUME WorkerKilled(p)
          PROVE  kills' = kills + 1 /\ Stops(p)
      BY <1>0, <2>2 DEF WorkerKilled, Kill, Stops
    <2>3. kills' \in Nat /\ kills' >= kills /\ Stops(p)
      BY <1>0, <1>4, <2>1, <2>2
    <2>4. QED
      BY <1>0, <2>3 DEF FileStep
  <1>5. CASE Restart
    BY <1>0, <1>5 DEF Restart, AgentRestart, FileStep, Stops
  <1>6. CASE UNCHANGED vars
    BY <1>0, <1>6 DEF vars, workerVars, FileStep
  <1>7. QED
    BY <1>1, <1>2, <1>3, <1>4, <1>5, <1>6 DEF Next

\* A job is submitted: it is on the event loop.
LEMMA SubmitFacts ==
    ASSUME JobInv, NEW j \in Jobs, NEW p \in {0} \cup Pids, Submits(j, p)
    PROVE  /\ job[j] = NoJob /\ ops' = ops + 1
           /\ UNCHANGED <<tree, data, full, asked, contested, torn>>
           /\ job'[j].status = "running" /\ job'[j].at = "loop" /\ job'[j].made = {}
           /\ \A k \in Jobs : k # j => job'[k] = job[k]
           /\ JobInv'
  <1>1. PICK kind \in {"delete", "copy", "move", "zip"}, items \in Items,
             dir \in Dirs \cup {"none"} :
             Submit(j, kind, items, dir, p) /\ (kind \in {"copy", "move"} => dir \in Dirs)
    BY DEF Submits, delete, copy, move, zip_paths
  <1> DEFINE r == [status |-> "running", op |-> kind, todo |-> items, dir |-> dir,
                   at |-> "loop", dst |-> <<>>, from |-> 0, into |-> 0, made |-> {}, by |-> p]
  <1>2. With(j, r)
    BY <1>1 DEF Submit, With
  <1>3. r \in RunningJob /\ JobOK(r)
    BY <1>1, ItemFacts DEF RunningJob, JobOK
  <1>4. /\ job[j] = NoJob /\ ops' = ops + 1
        /\ UNCHANGED <<tree, data, full, asked, contested, torn>>
    BY <1>1 DEF Submit
  <1>5. r.status = "running" /\ r.at = "loop" /\ r.made = {}
    OBVIOUS
  <1> HIDE DEF r
  <1>6. QED
    BY <1>2, <1>3, <1>4, <1>5, WithFacts DEF JobStates

\* The destination of the next item.
NextDest(j) ==
    IF job[j].op \in {"copy", "move"} THEN <<job[j].dir, Source(j)[2]>> ELSE <<>>

\* An item begins: if it has a destination, that was free.
LEMMA BeginFacts ==
    ASSUME JobInv, FileTypes, NEW j \in Jobs, job[j].status = "running",
           job[j].at = "loop", Begin(j)
    PROVE  /\ UNCHANGED <<tree, data, ops, full, asked, torn>>
           /\ \A k \in Jobs : k # j => job'[k] = job[k]
           /\ JobInv' /\ job'[j].made = job[j].made
           /\ \/ job'[j].status = "failed" /\ contested' = contested
              \/ /\ job'[j].at = "thread" /\ job'[j].op = job[j].op /\ Source(j)' = Source(j)
                 /\ job'[j].status = "running"
                 /\ job'[j].dst = NextDest(j) /\ job'[j].dst \in Paths \cup {<<>>}
                 /\ job'[j].dst # <<>> =>
                      /\ tree[job'[j].dst] = 0
                      /\ contested' = (contested \/ Working(job'[j].dst) # {})
                 /\ job'[j].dst = <<>> => contested' = contested
  <1> DEFINE dest == NextDest(j)
             r == [job[j] EXCEPT !.at = "thread", !.dst = dest]
  <1>1. job[j] \in RunningJob /\ Source(j) \in Paths /\ job[j].todo # <<>>
    BY RunningFacts DEF Begin
  <1>2. job[j].op \in {"copy", "move"} => job[j].dir \in Dirs
    BY DEF JobInv, JobOK
  <1>3. dest \in Paths \cup {<<>>} /\ (dest # <<>> <=> job[j].op \in {"copy", "move"})
    BY <1>1, <1>2, PathFacts DEF NextDest
  <1>4. /\ UNCHANGED <<tree, data, ops, full, asked, torn>>
        /\ \/ With(j, Ended(j, "failed")) /\ contested' = contested
           \/ /\ With(j, r) /\ (dest # <<>> => tree[dest] = 0)
              /\ contested' = (contested \/ (dest # <<>> /\ Working(dest) # {}))
    BY DEF Begin, NextDest, DestFree
  <1>5. CASE With(j, Ended(j, "failed")) /\ contested' = contested
    BY <1>4, <1>5, EndedFacts, WithFacts
  <1>6. CASE /\ With(j, r) /\ (dest # <<>> => tree[dest] = 0)
             /\ contested' = (contested \/ (dest # <<>> /\ Working(dest) # {}))
    <2>1. /\ r \in RunningJob /\ r.at = "thread" /\ r.op = job[j].op /\ r.dst = dest
          /\ r.status = "running" /\ r.made = job[j].made /\ r.todo = job[j].todo
          /\ r.dir = job[j].dir
      BY <1>1, <1>3 DEF RunningJob
    <2>2. JobOK(r)
      BY <1>1, <1>2, <1>3, <2>1 DEF JobOK
    <2>3. job'[j] = r /\ JobInv' /\ \A k \in Jobs : k # j => job'[k] = job[k]
      BY <1>6, <2>1, <2>2, WithFacts DEF JobStates
    <2>4. Source(j)' = Source(j)
      BY <2>1, <2>3 DEF Source
    <2> HIDE DEF r, dest
    <2>5. contested' = (contested \/ Working(dest) # {}) \/ dest = <<>>
      BY <1>6
    <2>6. dest = <<>> => contested' = contested
      BY <1>6 DEF FileTypes
    <2>7. QED
      BY <1>3, <1>4, <1>6, <2>1, <2>3, <2>4, <2>5, <2>6 DEF dest
  <1>7. QED
    BY <1>4, <1>5, <1>6

\* A job leaves its thread, with what it has made.
LEMMA LeaveFacts ==
    ASSUME JobInv, NEW j \in Jobs, Active(j),
           With(j, ItemDone(j)) \/ \E s \in {"done", "failed"} : With(j, Ended(j, s))
    PROVE  /\ JobInv' /\ ~Active(j)' /\ job'[j] # NoJob /\ job'[j].made = job[j].made
           /\ \A k \in Jobs : k # j => job'[k] = job[k]
  <1>1. job[j].status = "running" /\ job[j].todo # <<>>
    BY DEF Active, JobInv, JobOK
  <1>2. CASE With(j, ItemDone(j))
    <2>1. job'[j] = ItemDone(j) /\ JobInv' /\ \A k \in Jobs : k # j => job'[k] = job[k]
      BY <1>1, <1>2, WithFacts, ItemDoneFacts DEF JobStates
    <2>2. QED
      BY <1>1, <2>1, ItemDoneFacts DEF Active, NoJob
  <1>3. ASSUME NEW s \in {"done", "failed"}, With(j, Ended(j, s))
        PROVE  /\ JobInv' /\ ~Active(j)' /\ job'[j] # NoJob /\ job'[j].made = job[j].made
               /\ \A k \in Jobs : k # j => job'[k] = job[k]
    <2>1. job'[j] = Ended(j, s) /\ JobInv' /\ \A k \in Jobs : k # j => job'[k] = job[k]
      BY <1>1, <1>3, WithFacts, EndedFacts
    <2>2. QED
      BY <1>1, <2>1, EndedFacts DEF Active, NoJob
  <1>4. QED
    BY <1>2, <1>3

\* Both files are open: the destination's inode is a new one, unless there was
\* a file.
LEMMA OpenFacts ==
    ASSUME JobInv, FileTypes, NEW j \in Jobs, job[j].status = "running", OpenBoth(j)
    PROVE  /\ Source(j) \in Paths /\ job[j].dst \in Paths /\ tree[Source(j)] \in Inodes
           /\ UNCHANGED <<ops, full, asked, contested, torn>>
           /\ \E i \in Inodes :
                /\ IF tree[job[j].dst] # 0 THEN i = tree[job[j].dst] ELSE data[i] = Empty
                /\ i # tree[Source(j)]
                /\ tree' = [tree EXCEPT ![job[j].dst] = i]
                /\ data' = [data EXCEPT ![i] = [id |-> data[tree[Source(j)]].id, whole |-> FALSE]]
                /\ job'[j].at = "copying" /\ job'[j].from = tree[Source(j)]
                /\ job'[j].into = i
           /\ Active(j)' /\ Source(j)' = Source(j) /\ job'[j].dst = job[j].dst
           /\ job'[j].op = job[j].op /\ job'[j].made = job[j].made
           /\ \A k \in Jobs : k # j => job'[k] = job[k]
           /\ JobInv'
  <1>1. /\ job[j].at = "thread" /\ job[j].op \in {"copy", "move"} /\ tree[Source(j)] # 0
        /\ job[j].todo # <<>> /\ job[j].dst # <<>> /\ job[j].dir \in Dirs
    BY DEF OpenBoth, JobInv, JobOK
  <1>2. /\ job[j] \in RunningJob /\ Source(j) \in Paths /\ job[j].dst \in Paths
        /\ tree[Source(j)] \in Inodes
    BY <1>1, RunningFacts DEF RunningJob, FileTypes
  <1>3. PICK i \in Inodes :
          /\ IF tree[job[j].dst] # 0 THEN i = tree[job[j].dst] ELSE data[i] = Empty
          /\ i # tree[Source(j)]
          /\ tree' = [tree EXCEPT ![job[j].dst] = i]
          /\ data' = [data EXCEPT ![i] = [id |-> data[tree[Source(j)]].id, whole |-> FALSE]]
          /\ With(j, [job[j] EXCEPT !.at = "copying", !.from = tree[Source(j)], !.into = i])
    BY DEF OpenBoth, IsNew
  <1> DEFINE r == [job[j] EXCEPT !.at = "copying", !.from = tree[Source(j)], !.into = i]
  <1>4. /\ r \in RunningJob /\ r.status = "running" /\ r.at = "copying"
        /\ r.from = tree[Source(j)] /\ r.into = i /\ r.dst = job[j].dst
        /\ r.todo = job[j].todo /\ r.op = job[j].op /\ r.made = job[j].made
        /\ r.dir = job[j].dir
    BY <1>2 DEF RunningJob
  <1>5. JobOK(r)
    BY <1>1, <1>2, <1>3, <1>4, InodeFacts DEF JobOK
  <1>6. job'[j] = r /\ JobInv' /\ \A k \in Jobs : k # j => job'[k] = job[k]
    BY <1>3, <1>4, <1>5, WithFacts DEF JobStates
  <1>7. Source(j)' = Source(j) /\ Active(j)'
    BY <1>4, <1>6 DEF Source, Active
  <1> HIDE DEF r
  <1>8. UNCHANGED <<ops, full, asked, contested, torn>>
    BY DEF OpenBoth
  <1>9. QED
    BY <1>2, <1>3, <1>4, <1>6, <1>7, <1>8

\* The content is written: it is what the source had, if that was whole.
LEMMA WrittenFacts ==
    ASSUME JobInv, FileTypes, NEW j \in Jobs, job[j].status = "running", Written(j)
    PROVE  /\ Active(j) /\ job[j].at = "copying"
           /\ job[j].from \in Inodes /\ job[j].into \in Inodes
           /\ UNCHANGED <<tree, ops, full, asked, contested>>
           /\ data' = [data EXCEPT ![job[j].into].whole =
                         data[job[j].from].whole /\ data[job[j].into].id = data[job[j].from].id]
           /\ torn' = (torn \/ ~data[job[j].from].whole)
           /\ job'[j].made = job[j].made \cup {job[j].into} /\ job'[j] # NoJob
           /\ \/ ~Active(j)'
              \/ /\ Active(j)' /\ job'[j].at = "unlink" /\ job'[j].op = "move"
                 /\ job[j].op = "move"
                 /\ Source(j)' = Source(j) /\ job'[j].dst = job[j].dst
                 /\ job'[j].from = job[j].from /\ job'[j].into = job[j].into
           /\ \A k \in Jobs : k # j => job'[k] = job[k]
           /\ JobInv'
  <1>1. job[j].at = "copying" /\ JobOK(job[j])
    BY DEF Written, JobInv
  <1>2. /\ job[j] \in RunningJob /\ job[j].from \in Inodes /\ job[j].into \in Inodes
        /\ job[j].todo # <<>> /\ job[j].op \in {"copy", "move"} /\ Active(j)
    BY <1>1, RunningFacts DEF RunningJob, JobOK, Active
  <1> DEFINE q == IF job[j].op = "copy" THEN ItemDone(j) ELSE [job[j] EXCEPT !.at = "unlink"]
             r == [q EXCEPT !.made = @ \cup {job[j].into}]
  <1>3. q \in RunningJob /\ q.made = job[j].made /\ JobOK(q) /\ q.status = "running"
    <2>1. CASE job[j].op = "copy"
      BY <1>2, <2>1, ItemDoneFacts
    <2>2. CASE job[j].op = "move"
      BY <1>1, <1>2, <2>2 DEF RunningJob, JobOK
    <2>3. QED
      BY <1>2, <2>1, <2>2
  <1>4. \/ job[j].op = "copy" /\ q.at = "loop"
        \/ /\ job[j].op = "move" /\ q.at = "unlink" /\ q.op = "move" /\ q.todo = job[j].todo
           /\ q.dst = job[j].dst /\ q.from = job[j].from /\ q.into = job[j].into
    BY <1>2, ItemDoneFacts DEF RunningJob
  <1>5. With(j, r)
    BY DEF Written
  <1> HIDE DEF q
  <1>6. /\ r \in RunningJob /\ r.status = "running" /\ r.made = q.made \cup {job[j].into}
        /\ r.at = q.at /\ r.op = q.op /\ r.todo = q.todo /\ r.dst = q.dst /\ r.dir = q.dir
        /\ r.from = q.from /\ r.into = q.into
    BY <1>2, <1>3 DEF RunningJob
  <1>7. JobOK(r)
    BY <1>3, <1>6 DEF JobOK
  <1> HIDE DEF r
  <1>8. job'[j] = r /\ JobInv' /\ \A k \in Jobs : k # j => job'[k] = job[k]
    BY <1>5, <1>6, <1>7, WithFacts DEF JobStates
  <1>9. \/ ~Active(j)'
        \/ /\ Active(j)' /\ job'[j].at = "unlink" /\ job'[j].op = "move" /\ job[j].op = "move"
           /\ Source(j)' = Source(j) /\ job'[j].dst = job[j].dst
           /\ job'[j].from = job[j].from /\ job'[j].into = job[j].into
    BY <1>4, <1>6, <1>8 DEF Active, Source
  <1>10. /\ UNCHANGED <<tree, ops, full, asked, contested>>
         /\ data' = [data EXCEPT ![job[j].into].whole =
                       data[job[j].from].whole /\ data[job[j].into].id = data[job[j].from].id]
         /\ torn' = (torn \/ ~data[job[j].from].whole)
    BY DEF Written
  <1>11. job'[j] # NoJob /\ job'[j].made = job[j].made \cup {job[j].into}
    BY <1>3, <1>6, <1>8 DEF NoJob
  <1>12. QED
    BY <1>1, <1>2, <1>8, <1>9, <1>10, <1>11
-----------------------------------------------------------------------------
(* What each kind of step keeps.                                            *)

\* What every job that is at work knows of itself.
LEMMA ActiveFacts ==
    ASSUME JobInv, NEW j \in Jobs, Active(j)
    PROVE  /\ job[j].status = "running" /\ Source(j) \in Paths /\ job[j] # NoJob
           /\ job[j].dst \in Paths \cup {<<>>}
           /\ job[j].at \in {"thread", "copying", "unlink"}
           /\ Opened(j) => /\ job[j].from \in Inodes /\ job[j].into \in Inodes
                           /\ job[j].from # job[j].into
           /\ job[j].at = "unlink" => Moves(j)
           /\ Moves(j) => Opened(j) /\ job[j].op = "move"
  <1>1. job[j].status = "running" /\ job[j].at # "loop" /\ JobOK(job[j])
    BY DEF Active, JobInv
  <1>2. job[j] \in RunningJob /\ Source(j) \in Paths /\ job[j] # NoJob
    BY <1>1, RunningFacts DEF JobOK
  <1>3. QED
    BY <1>1, <1>2 DEF RunningJob, JobOK, Opened, Moves

\* Files are removed that a delete job or the end of a move removes, and jobs
\* leave their threads.
LEMMA GoneStep ==
    ASSUME JobInv, FileTypes, SafeInv, JobInv', FileTypes',
           data' = data, asked \subseteq asked',
           \A p \in Paths :
             \/ tree'[p] = tree[p]
             \/ /\ tree'[p] = 0
                /\ \/ tree[p] # 0 /\ data[tree[p]].id \in asked'
                   \/ \E j \in Jobs : Active(j) /\ job[j].at = "unlink" /\ Source(j) = p,
           \A k \in Jobs : Active(k)' => job'[k] = job[k],
           \A k \in Jobs : job'[k] # NoJob =>
             job'[k].made = {} \/ (job[k] # NoJob /\ job'[k].made = job[k].made),
           kills' = 0 /\ full' = 0 =>
             /\ kills = 0 /\ full = 0
             /\ \A k \in Jobs : Active(k) /\ job[k].at = "copying" => job'[k] = job[k]
    PROVE  SafeInv'
  <1>1. \A k \in Jobs : /\ Active(k)' => Active(k) /\ job'[k] = job[k] /\ Source(k)' = Source(k)
                        /\ Moves(k)' => Active(k)' /\ Moves(k)
                        /\ Opened(k)' => Active(k)' /\ Opened(k)
    BY DEF Active, Opened, Moves, Source
  <1>2. ApartInv'
    <2>1. \A k \in Jobs : Active(k)' /\ job'[k].at = "thread" /\ job'[k].dst # <<>> =>
            tree'[job'[k].dst] = 0
      BY <1>1, ActiveFacts DEF SafeInv, ApartInv
    <2>2. QED
      BY <1>1, <2>1 DEF SafeInv, ApartInv
  <1>3. CopyInv'
    <2>1. ASSUME NEW k \in Jobs, Opened(k)', job'[k].at = "copying", NEW p \in Paths,
                 tree[p] = job[k].into
          PROVE  tree'[p] = tree[p] \/ data[job[k].into].id \in asked'
      <3>1. /\ Active(k) /\ Opened(k) /\ job[k].at = "copying"
            /\ ~data[job[k].into].whole /\ job[k].into # 0
        BY <1>1, <2>1, ActiveFacts, InodeFacts DEF SafeInv, CopyInv
      <3>2. ASSUME NEW j \in Jobs, Active(j), job[j].at = "unlink", Source(j) = p
            PROVE  FALSE
        <4>1. Moves(j) /\ Opened(j) /\ job[j].op = "move"
          BY <3>2, ActiveFacts
        <4>2. tree[p] \in {0, job[j].from} /\ data[job[j].from].whole
          BY <3>2, <4>1 DEF SafeInv, CopyInv
        <4>3. QED
          BY <2>1, <3>1, <4>2
      <3>3. QED
        BY <2>1, <3>2
    <2>2. \A k \in Jobs : Opened(k)' /\ job'[k].op = "move" => tree'[Source(k)'] \in {0, job'[k].from}
      BY <1>1, ActiveFacts DEF SafeInv, CopyInv
    <2>3. ASSUME NEW k \in Jobs, Opened(k)'
          PROVE  /\ data'[job'[k].into].id = data'[job'[k].from].id
                 /\ data'[job'[k].from].id # 0
                 /\ job'[k].at = "unlink" => data'[job'[k].from].whole
                 /\ job'[k].at = "copying" =>
                      /\ ~data'[job'[k].into].whole
                      /\ data'[job'[k].into].id \in asked' \/ \E p \in Paths : tree'[p] = job'[k].into
      BY <1>1, <2>1, <2>3 DEF SafeInv, CopyInv
    <2>4. \A j, k \in Jobs : Opened(j)' /\ Opened(k)' /\ j # k => job'[j].into # job'[k].into
      BY <1>1 DEF SafeInv, CopyInv
    <2>5. QED
      BY <2>2, <2>3, <2>4 DEF CopyInv
  <1>4. KeptInv'
    <2>1. ASSUME NEW o \in Originals, o \notin asked'
          PROVE  \E p \in Paths : /\ tree'[p] # 0 /\ data'[tree'[p]] = [id |-> o, whole |-> TRUE]
                                  /\ \A j \in Jobs : Active(j)' /\ job'[j].at = "unlink" => Source(j)' # p
      <3>1. PICK p \in Paths : /\ tree[p] # 0 /\ data[tree[p]] = [id |-> o, whole |-> TRUE]
                               /\ \A j \in Jobs : Active(j) /\ job[j].at = "unlink" => Source(j) # p
        BY <2>1 DEF SafeInv, KeptInv
      <3>2. tree'[p] = tree[p]
        BY <2>1, <3>1
      <3>3. QED
        BY <1>1, <3>1, <3>2
    <2>2. QED
      BY <2>1 DEF KeptInv
  <1>5. WholeInv'
    <2>1. \A j \in Jobs : job'[j] # NoJob => \A i \in job'[j].made : data'[i].whole
      BY DEF SafeInv, WholeInv
    <2>2. ASSUME kills' = 0, full' = 0, NEW p \in Paths, tree'[p] # 0, ~data'[tree'[p]].whole
          PROVE  \E j \in Jobs : Active(j)' /\ job'[j].at = "copying" /\ job'[j].into = tree'[p]
      <3>1. tree'[p] = tree[p]
        BY <2>2
      <3>2. PICK j \in Jobs : Active(j) /\ job[j].at = "copying" /\ job[j].into = tree[p]
        BY <2>2, <3>1 DEF SafeInv, WholeInv
      <3>3. job'[j] = job[j]
        BY <2>2, <3>2
      <3>4. QED
        BY <3>1, <3>2, <3>3 DEF Active
    <2>3. QED
      BY <2>1, <2>2 DEF WholeInv
  <1>6. QED
    BY <1>2, <1>3, <1>4, <1>5 DEF SafeInv

\* A file moves to a free path that nobody else works on.
LEMMA MoveStep ==
    ASSUME JobInv, FileTypes, SafeInv, JobInv', FileTypes',
           NEW src \in Paths, NEW dst \in Paths, tree[src] # 0, tree[dst] = 0,
           tree' = [tree EXCEPT ![dst] = tree[src], ![src] = 0],
           data' = data, asked' = asked,
           \A k \in Jobs : Active(k)' => job'[k] = job[k],
           \A k \in Jobs : Active(k)' => job[k].dst # dst,
           \A k \in Jobs : Moves(k)' => Source(k) # dst,
           \A k \in Jobs : job'[k] # NoJob => job[k] # NoJob /\ job'[k].made = job[k].made,
           kills' = 0 /\ full' = 0 =>
             /\ kills = 0 /\ full = 0
             /\ \A k \in Jobs : Active(k) /\ job[k].at = "copying" => job'[k] = job[k]
    PROVE  SafeInv'
  <1>0. /\ src # dst /\ tree'[dst] = tree[src] /\ tree'[src] = 0
        /\ \A p \in Paths : p # src /\ p # dst => tree'[p] = tree[p]
    BY DEF FileTypes
  <1>1. \A k \in Jobs : /\ Active(k)' => Active(k) /\ job'[k] = job[k] /\ Source(k)' = Source(k)
                        /\ Moves(k)' => Active(k)' /\ Moves(k) /\ Source(k) # dst
                        /\ Opened(k)' => Active(k)' /\ Opened(k)
    BY DEF Active, Opened, Moves, Source
  <1>2. \A p \in Paths : tree[p] # 0 =>
          \E q \in Paths : tree'[q] = tree[p] /\ (q = p \/ q = dst)
    BY <1>0
  <1>3. ApartInv'
    <2>1. ASSUME NEW k \in Jobs, Active(k)', job'[k].at = "thread", job'[k].dst # <<>>
          PROVE  tree'[job'[k].dst] = 0
      <3>1. Active(k) /\ job'[k] = job[k] /\ job[k].dst # dst
        BY <1>1, <2>1
      <3>2. job[k].dst \in Paths /\ tree[job[k].dst] = 0
        BY <2>1, <3>1, ActiveFacts DEF SafeInv, ApartInv
      <3>3. QED
        BY <1>0, <3>1, <3>2, ZenonT(30)
    <2>2. \A k, l \in Jobs : Active(k)' /\ Active(l)' /\ k # l /\ job'[k].dst # <<>> =>
            job'[k].dst # job'[l].dst
      BY <1>1 DEF SafeInv, ApartInv
    <2>3. \A k, l \in Jobs : Moves(k)' /\ Active(l)' /\ job'[l].at = "thread" =>
            Source(k)' # job'[l].dst
      BY <1>1 DEF SafeInv, ApartInv
    <2>4. QED
      BY <2>1, <2>2, <2>3 DEF ApartInv
  <1>4. CopyInv'
    <2>1. \A k \in Jobs : Opened(k)' /\ job'[k].op = "move" => tree'[Source(k)'] \in {0, job'[k].from}
      <3>1. ASSUME NEW k \in Jobs, Opened(k)', job'[k].op = "move"
            PROVE  tree'[Source(k)'] \in {0, job'[k].from}
        <4>1. /\ Moves(k)' /\ Opened(k) /\ job[k].op = "move" /\ job'[k] = job[k]
              /\ Active(k) /\ Source(k)' = Source(k)
          BY <1>1, <3>1 DEF Moves
        <4>2. Source(k) \in Paths /\ Source(k) # dst /\ tree[Source(k)] \in {0, job[k].from}
          BY <1>1, <4>1, ActiveFacts DEF SafeInv, CopyInv
        <4>3. QED
          BY <1>0, <4>1, <4>2
      <3>2. QED
        BY <3>1
    <2>2. ASSUME NEW k \in Jobs, Opened(k)'
          PROVE  /\ data'[job'[k].into].id = data'[job'[k].from].id
                 /\ data'[job'[k].from].id # 0
                 /\ job'[k].at = "unlink" => data'[job'[k].from].whole
                 /\ job'[k].at = "copying" =>
                      /\ ~data'[job'[k].into].whole
                      /\ data'[job'[k].into].id \in asked' \/ \E p \in Paths : tree'[p] = job'[k].into
      <3>1. Opened(k) /\ job'[k] = job[k] /\ job[k].into # 0
        BY <1>1, <2>2, ActiveFacts, InodeFacts
      <3>2. /\ data[job[k].into].id = data[job[k].from].id /\ data[job[k].from].id # 0
            /\ job[k].at = "unlink" => data[job[k].from].whole
            /\ job[k].at = "copying" =>
                 /\ ~data[job[k].into].whole
                 /\ data[job[k].into].id \in asked \/ \E p \in Paths : tree[p] = job[k].into
        BY <3>1 DEF SafeInv, CopyInv
      <3>3. ASSUME NEW p \in Paths, tree[p] = job[k].into
            PROVE  \E q \in Paths : tree'[q] = job[k].into
        <4>1. tree[p] # 0
          BY <3>1, <3>3
        <4>2. QED
          BY <1>2, <3>3, <4>1
      <3>4. QED
        BY <3>1, <3>2, <3>3, ZenonT(30)
    <2>3. \A j, k \in Jobs : Opened(j)' /\ Opened(k)' /\ j # k => job'[j].into # job'[k].into
      BY <1>1 DEF SafeInv, CopyInv
    <2>4. QED
      BY <2>1, <2>2, <2>3 DEF CopyInv
  <1>5. KeptInv'
    <2>1. ASSUME NEW o \in Originals, o \notin asked'
          PROVE  \E p \in Paths : /\ tree'[p] # 0 /\ data'[tree'[p]] = [id |-> o, whole |-> TRUE]
                                  /\ \A j \in Jobs : Active(j)' /\ job'[j].at = "unlink" => Source(j)' # p
      <3>1. PICK p \in Paths : /\ tree[p] # 0 /\ data[tree[p]] = [id |-> o, whole |-> TRUE]
                               /\ \A j \in Jobs : Active(j) /\ job[j].at = "unlink" => Source(j) # p
        BY <2>1 DEF SafeInv, KeptInv
      <3>2. PICK q \in Paths : tree'[q] = tree[p] /\ (q = p \/ q = dst)
        BY <1>2, <3>1
      <3>3. ASSUME NEW j \in Jobs, Active(j)', job'[j].at = "unlink"
            PROVE  Source(j)' # q
        <4>1. Active(j) /\ job'[j] = job[j] /\ Source(j)' = Source(j) /\ job[j].at = "unlink"
          BY <1>1, <3>3
        <4>2. Moves(j)'
          BY <3>3, <4>1, ActiveFacts DEF Moves, Opened
        <4>3. QED
          BY <1>1, <3>1, <3>2, <4>1, <4>2
      <3>4. QED
        BY <3>1, <3>2, <3>3
    <2>2. QED
      BY <2>1 DEF KeptInv
  <1>6. WholeInv'
    <2>1. \A j \in Jobs : job'[j] # NoJob => \A i \in job'[j].made : data'[i].whole
      BY DEF SafeInv, WholeInv
    <2>2. ASSUME kills' = 0, full' = 0, NEW p \in Paths, tree'[p] # 0, ~data'[tree'[p]].whole
          PROVE  \E j \in Jobs : Active(j)' /\ job'[j].at = "copying" /\ job'[j].into = tree'[p]
      <3>1. PICK q \in Paths : tree[q] = tree'[p]
        BY <1>0
      <3>2. PICK j \in Jobs : Active(j) /\ job[j].at = "copying" /\ job[j].into = tree[q]
        BY <2>2, <3>1 DEF SafeInv, WholeInv
      <3>3. job'[j] = job[j]
        BY <2>2, <3>2
      <3>4. QED
        BY <3>1, <3>2, <3>3 DEF Active
    <2>3. QED
      BY <2>1, <2>2 DEF WholeInv
  <1>7. QED
    BY <1>3, <1>4, <1>5, <1>6 DEF SafeInv

\* Nobody else works on the path where a file is put.
LEMMA WorkingFacts ==
    ASSUME JobInv, NEW p \in Paths, Working(p) = {}
    PROVE  \A k \in Jobs : /\ Active(k) => job[k].dst # p
                           /\ Moves(k) => Source(k) # p
  BY DEF Working, Active, Moves, Opened

\* An item begins.
LEMMA BeginStep ==
    ASSUME JobInv, FileTypes, SafeInv, JobInv', FileTypes',
           NEW j \in Jobs, job[j].status = "running", job[j].at = "loop",
           UNCHANGED <<tree, data, full, asked>>, kills' = 0 => kills = 0,
           \A k \in Jobs : k # j => job'[k] = job[k],
           job'[j].status = "running", job'[j].at = "thread", job'[j].made = job[j].made,
           job'[j].dst \in Paths \cup {<<>>},
           job'[j].dst # <<>> => tree[job'[j].dst] = 0 /\ Working(job'[j].dst) = {}
    PROVE  SafeInv'
  <1>1. ~Active(j) /\ ~Opened(j)' /\ ~Moves(j)' /\ job[j] # NoJob
    BY DEF Active, Opened, Moves, NoJob
  <1>2. \A k \in Jobs : k # j => /\ Active(k)' = Active(k) /\ Source(k)' = Source(k)
                                 /\ Opened(k)' = Opened(k) /\ Moves(k)' = Moves(k)
    BY DEF Active, Opened, Moves, Source
  <1>3. job'[j].dst # <<>> => \A k \in Jobs : /\ Active(k) => job[k].dst # job'[j].dst
                                              /\ Moves(k) => Source(k) # job'[j].dst
    BY WorkingFacts
  <1>4. ApartInv'
    <2>1. \A k \in Jobs : Active(k)' /\ job'[k].at = "thread" /\ job'[k].dst # <<>> =>
            tree'[job'[k].dst] = 0
      BY <1>2 DEF SafeInv, ApartInv
    <2>2. \A k, l \in Jobs : Active(k)' /\ Active(l)' /\ k # l /\ job'[k].dst # <<>> =>
            job'[k].dst # job'[l].dst
      BY <1>2, <1>3 DEF SafeInv, ApartInv
    <2>3. ASSUME NEW k \in Jobs, NEW l \in Jobs, Moves(k)', Active(l)', job'[l].at = "thread"
          PROVE  Source(k)' # job'[l].dst
      <3>1. k # j /\ Moves(k) /\ Source(k)' = Source(k) /\ Source(k) # <<>>
        BY <1>1, <1>2, <2>3, ActiveFacts, PathFacts DEF Moves, Opened
      <3>2. QED
        BY <1>2, <1>3, <2>3, <3>1 DEF SafeInv, ApartInv
    <2>4. QED
      BY <2>1, <2>2, <2>3 DEF ApartInv
  <1>5. CopyInv'
    BY <1>1, <1>2 DEF SafeInv, CopyInv
  <1>6. KeptInv'
    BY <1>1, <1>2 DEF SafeInv, KeptInv
  <1>7. WholeInv'
    <2>1. \A k \in Jobs : job'[k] # NoJob => \A i \in job'[k].made : data'[i].whole
      BY <1>1 DEF SafeInv, WholeInv
    <2>2. ASSUME kills' = 0, full' = 0, NEW p \in Paths, tree'[p] # 0, ~data'[tree'[p]].whole
          PROVE  \E k \in Jobs : Active(k)' /\ job'[k].at = "copying" /\ job'[k].into = tree'[p]
      <3>1. PICK k \in Jobs : Active(k) /\ job[k].at = "copying" /\ job[k].into = tree[p]
        BY <2>2 DEF SafeInv, WholeInv
      <3>2. k # j
        BY <1>1, <3>1
      <3>3. QED
        BY <1>2, <3>1, <3>2
    <2>3. QED
      BY <2>1, <2>2 DEF WholeInv
  <1>8. QED
    BY <1>4, <1>5, <1>6, <1>7 DEF SafeInv

\* Both files are opened: the destination is new.
LEMMA OpenStep ==
    ASSUME JobInv, FileTypes, SafeInv, JobInv', FileTypes',
           NEW j \in Jobs, job[j].status = "running", job[j].at = "thread", OpenBoth(j),
           kills' = 0 => kills = 0
    PROVE  SafeInv'
  <1> DEFINE src == Source(j)
             dst == job[j].dst
             s == tree[src]
  <1>1. /\ src \in Paths /\ dst \in Paths /\ s \in Inodes
        /\ UNCHANGED <<full, asked>>
        /\ Active(j)' /\ Source(j)' = src /\ job'[j].dst = dst
        /\ job'[j].op = job[j].op /\ job'[j].made = job[j].made
        /\ \A k \in Jobs : k # j => job'[k] = job[k]
    BY OpenFacts
  <1>2. Active(j) /\ dst # <<>> /\ tree[dst] = 0
    BY <1>1, PathFacts DEF Active, SafeInv, ApartInv
  <1>3. PICK i \in Inodes :
          /\ data[i] = Empty /\ i # s
          /\ tree' = [tree EXCEPT ![dst] = i]
          /\ data' = [data EXCEPT ![i] = [id |-> data[s].id, whole |-> FALSE]]
          /\ job'[j].at = "copying" /\ job'[j].from = s /\ job'[j].into = i
    BY <1>2, OpenFacts
  <1>4. /\ s # 0 /\ i # 0 /\ src # dst /\ data[s].id # 0 /\ data[i].id = 0 /\ ~data[i].whole
        /\ tree'[dst] = i /\ \A p \in Paths : p # dst => tree'[p] = tree[p]
        /\ data'[i] = [id |-> data[s].id, whole |-> FALSE]
        /\ \A k \in Inodes : k # i => data'[k] = data[k]
    BY <1>1, <1>2, <1>3, InodeFacts DEF FileTypes, Empty
  <1> HIDE DEF src, dst, s
  <1>5. /\ \A k \in Jobs : k # j => /\ Active(k)' = Active(k) /\ Source(k)' = Source(k)
                                    /\ Opened(k)' = Opened(k) /\ Moves(k)' = Moves(k)
        /\ ~Opened(j) /\ ~Moves(j)
    BY <1>1 DEF Active, Opened, Moves, Source
  <1>6. \A k \in Jobs : k # j /\ Opened(k) =>
          /\ Active(k) /\ job[k].from \in Inodes /\ job[k].into \in Inodes
          /\ job[k].from # i /\ job[k].into # i
    BY <1>4, ActiveFacts DEF SafeInv, CopyInv, Opened
  <1>7. \A k \in Jobs : k # j /\ Active(k) => job[k].dst # dst
    BY <1>2 DEF SafeInv, ApartInv, dst
  <1>8. \A k \in Jobs : Moves(k) => Source(k) # dst
    BY <1>2 DEF SafeInv, ApartInv, dst
  <1>9. ApartInv'
    <2>1. ASSUME NEW k \in Jobs, Active(k)', job'[k].at = "thread", job'[k].dst # <<>>
          PROVE  tree'[job'[k].dst] = 0
      <3>1. k # j /\ Active(k) /\ job'[k] = job[k] /\ job[k].dst \in Paths
        BY <1>1, <1>3, <1>5, <2>1, ActiveFacts
      <3>2. tree[job[k].dst] = 0 /\ job[k].dst # dst
        BY <1>7, <2>1, <3>1 DEF SafeInv, ApartInv
      <3>3. QED
        BY <1>4, <3>1, <3>2
    <2>2. \A k, l \in Jobs : Active(k)' /\ Active(l)' /\ k # l /\ job'[k].dst # <<>> =>
            job'[k].dst # job'[l].dst
      BY <1>1, <1>2, <1>5 DEF SafeInv, ApartInv, dst
    <2>3. ASSUME NEW k \in Jobs, NEW l \in Jobs, Moves(k)', Active(l)', job'[l].at = "thread"
          PROVE  Source(k)' # job'[l].dst
      <3>1. l # j /\ Active(l) /\ job'[l] = job[l]
        BY <1>1, <1>3, <1>5, <2>3
      <3>2. CASE k = j
        <4>1. job[l].dst \in Paths => tree[job[l].dst] = 0
          BY <2>3, <3>1, PathFacts DEF SafeInv, ApartInv
        <4>2. src # job[l].dst
          BY <1>1, <1>4, <4>1 DEF s
        <4>3. QED
          BY <1>1, <3>1, <3>2, <4>2
      <3>3. CASE k # j
        BY <1>5, <2>3, <3>1, <3>3 DEF SafeInv, ApartInv
      <3>4. QED
        BY <3>2, <3>3
    <2>4. QED
      BY <2>1, <2>2, <2>3 DEF ApartInv
  <1>10. CopyInv'
    <2>1. /\ data'[job'[j].into].id = data'[job'[j].from].id /\ data'[job'[j].from].id # 0
          /\ job'[j].at # "unlink" /\ ~data'[job'[j].into].whole
          /\ \E p \in Paths : tree'[p] = job'[j].into
          /\ tree'[Source(j)'] = job'[j].from
      <3>1. data'[s] = data[s]
        BY <1>1, <1>3, <1>4
      <3>2. tree'[src] = s
        BY <1>1, <1>4 DEF s
      <3>3. QED
        BY <1>1, <1>3, <1>4, <3>1, <3>2
    <2>2. ASSUME NEW k \in Jobs, Opened(k)', k # j
          PROVE  /\ data'[job'[k].into].id = data'[job'[k].from].id
                 /\ data'[job'[k].from].id # 0
                 /\ job'[k].at = "unlink" => data'[job'[k].from].whole
                 /\ job'[k].at = "copying" =>
                      /\ ~data'[job'[k].into].whole
                      /\ data'[job'[k].into].id \in asked' \/ \E p \in Paths : tree'[p] = job'[k].into
                 /\ job'[k].op = "move" => tree'[Source(k)'] \in {0, job'[k].from}
      <3>1. Opened(k) /\ Active(k) /\ job'[k] = job[k] /\ Source(k)' = Source(k)
            /\ data'[job[k].into] = data[job[k].into] /\ data'[job[k].from] = data[job[k].from]
            /\ job[k].into # 0
        BY <1>1, <1>4, <1>5, <1>6, <2>2, InodeFacts
      <3>2. \A p \in Paths : tree[p] = job[k].into => tree'[p] = job[k].into
        BY <1>2, <1>4, <3>1
      <3>3. job[k].op = "move" => tree'[Source(k)] = tree[Source(k)]
        BY <1>4, <1>8, <3>1, ActiveFacts DEF Moves
      <3>4. QED
        BY <1>1, <3>1, <3>2, <3>3 DEF SafeInv, CopyInv
    <2>3. \A k, l \in Jobs : Opened(k)' /\ Opened(l)' /\ k # l => job'[k].into # job'[l].into
      BY <1>1, <1>3, <1>5, <1>6 DEF SafeInv, CopyInv
    <2>4. QED
      BY <2>1, <2>2, <2>3 DEF CopyInv
  <1>11. \A p \in Paths : tree[p] # 0 =>
           tree'[p] = tree[p] /\ data'[tree'[p]] = data[tree[p]]
    BY <1>2, <1>4 DEF FileTypes
  <1>12. KeptInv'
    <2>1. ASSUME NEW o \in Originals, o \notin asked'
          PROVE  \E p \in Paths : /\ tree'[p] # 0 /\ data'[tree'[p]] = [id |-> o, whole |-> TRUE]
                                  /\ \A k \in Jobs : Active(k)' /\ job'[k].at = "unlink" => Source(k)' # p
      <3>1. PICK p \in Paths : /\ tree[p] # 0 /\ data[tree[p]] = [id |-> o, whole |-> TRUE]
                               /\ \A k \in Jobs : Active(k) /\ job[k].at = "unlink" => Source(k) # p
        BY <1>1, <2>1 DEF SafeInv, KeptInv
      <3>2. \A k \in Jobs : Active(k)' /\ job'[k].at = "unlink" => Source(k)' # p
        BY <1>1, <1>3, <1>5, <3>1
      <3>3. QED
        BY <1>11, <3>1, <3>2
    <2>2. QED
      BY <2>1 DEF KeptInv
  <1>13. WholeInv'
    <2>1. ASSUME NEW k \in Jobs, job'[k] # NoJob, NEW m \in job'[k].made
          PROVE  data'[m].whole
      <3>1. job[k] # NoJob /\ m \in job[k].made
        BY <1>1, <1>2, <2>1, ActiveFacts
      <3>2. data[m].whole /\ m \in Inodes
        <4>1. job[k].made \in SUBSET Inodes
          BY <3>1 DEF JobInv, JobStates, RunningJob
        <4>2. QED
          BY <3>1, <4>1 DEF SafeInv, WholeInv
      <3>3. QED
        BY <1>4, <3>2
    <2>2. ASSUME kills' = 0, full' = 0, NEW p \in Paths, tree'[p] # 0, ~data'[tree'[p]].whole
          PROVE  \E k \in Jobs : Active(k)' /\ job'[k].at = "copying" /\ job'[k].into = tree'[p]
      <3>1. CASE p = dst
        BY <1>1, <1>3, <1>4, <3>1
      <3>2. CASE p # dst
        <4>1. tree'[p] = tree[p] /\ data'[tree'[p]] = data[tree[p]]
          BY <1>4, <1>11, <2>2, <3>2
        <4>2. PICK k \in Jobs : Active(k) /\ job[k].at = "copying" /\ job[k].into = tree[p]
          BY <1>1, <2>2, <4>1 DEF SafeInv, WholeInv
        <4>3. QED
          BY <1>1, <1>5, <4>1, <4>2
      <3>3. QED
        BY <3>1, <3>2
    <2>3. QED
      BY <2>1, <2>2 DEF WholeInv
  <1>14. QED
    BY <1>9, <1>10, <1>12, <1>13 DEF SafeInv

\* The content is written.
LEMMA WrittenStep ==
    ASSUME JobInv, FileTypes, SafeInv, JobInv', FileTypes',
           NEW j \in Jobs, job[j].status = "running", Written(j),
           ~torn', kills' = 0 => kills = 0
    PROVE  SafeInv'
  <1> DEFINE i == job[j].into
             s == job[j].from
  <1>1. /\ Active(j) /\ job[j].at = "copying" /\ Opened(j) /\ i \in Inodes /\ s \in Inodes
        /\ i # s /\ i # 0 /\ s # 0 /\ Source(j) \in Paths /\ job[j] # NoJob
        /\ UNCHANGED <<tree, full, asked>>
        /\ job'[j].made = job[j].made \cup {i}
        /\ \A k \in Jobs : k # j => job'[k] = job[k]
    BY WrittenFacts, ActiveFacts, InodeFacts DEF Opened
  <1>2. data[s].whole /\ data[i].id = data[s].id /\ data[s].id # 0 /\ ~data[i].whole
    BY <1>1, WrittenFacts DEF SafeInv, CopyInv
  <1>3. /\ data'[i] = [id |-> data[s].id, whole |-> TRUE]
        /\ \A k \in Inodes : k # i => data'[k] = data[k]
        /\ \A k \in Inodes : data'[k].id = data[k].id /\ (data[k].whole => data'[k].whole)
    <2>1. data' = [data EXCEPT ![i].whole = data[s].whole /\ data[i].id = data[s].id]
      BY WrittenFacts
    <2> HIDE DEF i, s
    <2>2. data[i] \in [id : 0..2, whole : BOOLEAN] /\ data[s].whole = TRUE
      BY <1>1, <1>2 DEF FileTypes
    <2>3. /\ data'[i] = [data[i] EXCEPT !.whole = data[s].whole /\ data[i].id = data[s].id]
          /\ \A k \in Inodes : k # i => data'[k] = data[k]
      BY <1>1, <2>1 DEF FileTypes
    <2>4. data'[i] = [id |-> data[s].id, whole |-> TRUE]
      BY <1>2, <2>2, <2>3
    <2>5. QED
      BY <1>2, <2>3, <2>4
  <1>4. \/ ~Active(j)'
        \/ /\ Active(j)' /\ job'[j].at = "unlink" /\ job[j].op = "move" /\ job'[j].op = "move"
           /\ Source(j)' = Source(j) /\ job'[j].dst = job[j].dst
           /\ job'[j].from = s /\ job'[j].into = i
    BY WrittenFacts
  <1>5. /\ \A k \in Jobs : k # j => /\ Active(k)' = Active(k) /\ Source(k)' = Source(k)
                                    /\ Opened(k)' = Opened(k) /\ Moves(k)' = Moves(k)
        /\ Moves(j)' => Moves(j) /\ Active(j)'
        /\ Opened(j)' => Active(j)'
    BY <1>1, <1>4 DEF Active, Opened, Moves, Source
  <1> HIDE DEF i, s
  <1>6. \A k \in Jobs : k # j /\ Opened(k) =>
          /\ job[k].into \in Inodes /\ job[k].from \in Inodes /\ job[k].into # i
    BY <1>1, ActiveFacts DEF SafeInv, CopyInv, Opened, i
  <1>7. ApartInv'
    <2>1. \A k \in Jobs : Active(k)' /\ job'[k].at = "thread" /\ job'[k].dst # <<>> =>
            tree'[job'[k].dst] = 0
      BY <1>1, <1>4, <1>5 DEF SafeInv, ApartInv
    <2>2. \A k, l \in Jobs : Active(k)' /\ Active(l)' /\ k # l /\ job'[k].dst # <<>> =>
            job'[k].dst # job'[l].dst
      BY <1>1, <1>4, <1>5 DEF SafeInv, ApartInv
    <2>3. \A k, l \in Jobs : Moves(k)' /\ Active(l)' /\ job'[l].at = "thread" =>
            Source(k)' # job'[l].dst
      BY <1>1, <1>4, <1>5 DEF SafeInv, ApartInv
    <2>4. QED
      BY <2>1, <2>2, <2>3 DEF ApartInv
  <1>8. CopyInv'
    <2>1. ASSUME Opened(j)'
          PROVE  /\ data'[job'[j].into].id = data'[job'[j].from].id /\ data'[job'[j].from].id # 0
                 /\ job'[j].at = "unlink" /\ data'[job'[j].from].whole
                 /\ tree'[Source(j)'] \in {0, job'[j].from}
      <3>1. tree[Source(j)] \in {0, s} \/ job[j].op # "move"
        BY <1>1 DEF SafeInv, CopyInv, s
      <3>2. QED
        BY <1>1, <1>2, <1>3, <1>4, <1>5, <2>1, <3>1
    <2>2. ASSUME NEW k \in Jobs, Opened(k)', k # j
          PROVE  /\ data'[job'[k].into].id = data'[job'[k].from].id
                 /\ data'[job'[k].from].id # 0
                 /\ job'[k].at = "unlink" => data'[job'[k].from].whole
                 /\ job'[k].at = "copying" =>
                      /\ ~data'[job'[k].into].whole
                      /\ data'[job'[k].into].id \in asked' \/ \E p \in Paths : tree'[p] = job'[k].into
                 /\ job'[k].op = "move" => tree'[Source(k)'] \in {0, job'[k].from}
      <3>1. /\ Opened(k) /\ job'[k] = job[k] /\ Source(k)' = Source(k)
            /\ data'[job[k].into] = data[job[k].into] /\ data'[job[k].from].id = data[job[k].from].id
            /\ data[job[k].from].whole => data'[job[k].from].whole
        BY <1>1, <1>3, <1>5, <1>6, <2>2
      <3>2. QED
        BY <1>1, <3>1 DEF SafeInv, CopyInv
    <2>3. \A k, l \in Jobs : Opened(k)' /\ Opened(l)' /\ k # l => job'[k].into # job'[l].into
      BY <1>1, <1>4, <1>5, <1>6
         DEF SafeInv, CopyInv, i
    <2>4. QED
      BY <2>1, <2>2, <2>3 DEF CopyInv
  <1>9. KeptInv'
    <2>1. ASSUME NEW o \in Originals, o \notin asked'
          PROVE  \E p \in Paths : /\ tree'[p] # 0 /\ data'[tree'[p]] = [id |-> o, whole |-> TRUE]
                                  /\ \A k \in Jobs : Active(k)' /\ job'[k].at = "unlink" => Source(k)' # p
      <3>1. PICK p \in Paths : /\ tree[p] # 0 /\ data[tree[p]] = [id |-> o, whole |-> TRUE]
                               /\ \A k \in Jobs : Active(k) /\ job[k].at = "unlink" => Source(k) # p
        BY <1>1, <2>1 DEF SafeInv, KeptInv
      <3>2. CASE p # Source(j) \/ ~Active(j)'
        <4>1. data'[tree'[p]] = [id |-> o, whole |-> TRUE]
          BY <1>1, <1>2, <1>3, <3>1 DEF FileTypes
        <4>2. \A k \in Jobs : Active(k)' /\ job'[k].at = "unlink" => Source(k)' # p
          BY <1>1, <1>4, <1>5, <3>1, <3>2
        <4>3. QED
          BY <1>1, <3>1, <4>1, <4>2
      \* The source will be removed: its copy is there, and no move removes that,
      \* for one that did would have read it before it was written.
      <3>3. CASE p = Source(j) /\ Active(j)'
        <4>1. tree[p] = s /\ data[i].id = o
          BY <1>1, <1>2, <1>4, <3>1, <3>3 DEF SafeInv, CopyInv, s
        <4>2. PICK q \in Paths : tree[q] = i
          BY <1>1, <2>1, <4>1 DEF SafeInv, CopyInv, i
        <4>3. ASSUME NEW k \in Jobs, k # j, Active(k), job[k].at = "unlink", Source(k) = q
              PROVE  FALSE
          <5>1. Moves(k) /\ Opened(k) /\ job[k].op = "move"
            BY <4>3, ActiveFacts
          <5>2. tree[q] \in {0, job[k].from} /\ data[job[k].from].whole
            BY <4>3, <5>1 DEF SafeInv, CopyInv
          <5>3. QED
            BY <1>1, <1>2, <4>2, <5>2
        <4>4. \A k \in Jobs : Active(k)' /\ job'[k].at = "unlink" => Source(k)' # q
          BY <1>1, <1>4, <1>5, <3>3, <4>1, <4>2, <4>3
        <4>5. data'[tree'[q]] = [id |-> o, whole |-> TRUE] /\ tree'[q] # 0
          BY <1>1, <1>2, <1>3, <4>1, <4>2
        <4>6. QED
          BY <4>4, <4>5
      <3>4. QED
        BY <3>2, <3>3
    <2>2. QED
      BY <2>1 DEF KeptInv
  <1>10. WholeInv'
    <2>1. ASSUME NEW k \in Jobs, job'[k] # NoJob, NEW m \in job'[k].made
          PROVE  data'[m].whole
      <3>1. CASE m = i
        BY <1>3, <3>1
      <3>2. CASE m # i
        <4>1. job[k] # NoJob /\ m \in job[k].made
          BY <1>1, <2>1, <3>2
        <4>2. job[k].made \in SUBSET Inodes
          BY <4>1 DEF JobInv, JobStates, RunningJob
        <4>3. data[m].whole /\ m \in Inodes
          BY <4>1, <4>2 DEF SafeInv, WholeInv
        <4>4. QED
          BY <1>3, <4>3
      <3>3. QED
        BY <3>1, <3>2
    <2>2. ASSUME kills' = 0, full' = 0, NEW p \in Paths, tree'[p] # 0, ~data'[tree'[p]].whole
          PROVE  \E k \in Jobs : Active(k)' /\ job'[k].at = "copying" /\ job'[k].into = tree'[p]
      <3>1. tree[p] \in Inodes /\ tree[p] # i /\ ~data[tree[p]].whole /\ tree'[p] = tree[p]
        BY <1>1, <1>3, <2>2 DEF FileTypes
      <3>2. PICK k \in Jobs : Active(k) /\ job[k].at = "copying" /\ job[k].into = tree[p]
        BY <1>1, <2>2, <3>1 DEF SafeInv, WholeInv
      <3>3. k # j
        BY <3>1, <3>2 DEF i
      <3>4. QED
        BY <1>1, <1>5, <3>1, <3>2, <3>3
    <2>3. QED
      BY <2>1, <2>2 DEF WholeInv
  <1>11. QED
    BY <1>7, <1>8, <1>9, <1>10 DEF SafeInv
-----------------------------------------------------------------------------
(* Every step keeps the invariant of the files.                             *)

\* What a thread removes, moves and ends.
LEMMA ThreadFacts ==
    ASSUME JobInv, FileTypes, NEW j \in Jobs, InThread(j), ~OpenBoth(j), ~Written(j)
    PROVE  /\ Active(j) /\ Source(j) \in Paths
           /\ With(j, ItemDone(j)) \/ \E s \in {"done", "failed"} : With(j, Ended(j, s))
           /\ UNCHANGED <<data, ops, contested, torn>>
           /\ \/ /\ job[j].at = "copying" /\ full' = full + 1 /\ UNCHANGED <<tree, asked>>
              \/ /\ job[j].at # "copying" /\ full' = full
                 /\ \/ UNCHANGED <<tree, asked>>
                    \/ /\ tree[Source(j)] # 0 /\ tree' = [tree EXCEPT ![Source(j)] = 0]
                       /\ asked' = asked \cup {data[tree[Source(j)]].id}
                    \/ /\ job[j].at = "unlink" /\ tree' = [tree EXCEPT ![Source(j)] = 0]
                       /\ asked' = asked
                    \/ /\ job[j].at = "thread" /\ job[j].dst \in Paths /\ job[j].dst # <<>>
                       /\ tree[Source(j)] # 0 /\ asked' = asked
                       /\ tree' = [p \in Paths |-> CASE p = job[j].dst -> tree[Source(j)]
                                                     [] p = Source(j) -> 0 [] OTHER -> tree[p]]
  <1>1. job[j].status = "running" /\ JobOK(job[j])
    BY DEF InThread, JobInv
  <1>2. job[j].at \in {"thread", "copying", "unlink"}
    BY DEF InThread, Missing, Remove_item, Archive, RenameOver, OpenBoth, Written, DiskFull, Unlink
  <1>3. Active(j) /\ Source(j) \in Paths /\ job[j].dst \in Paths \cup {<<>>}
    BY <1>1, <1>2, ActiveFacts DEF Active
  <1>4. CASE Missing(j)
    BY <1>3, <1>4 DEF Missing
  <1>5. CASE Remove_item(j)
    BY <1>3, <1>5 DEF Remove_item
  <1>6. CASE Archive(j)
    BY <1>3, <1>6 DEF Archive
  <1>7. CASE RenameOver(j)
    <2>1. job[j].dst \in Paths /\ job[j].dst # <<>>
      BY <1>1, <1>3, <1>7 DEF RenameOver, JobOK
    <2>2. QED
      BY <1>3, <1>7, <2>1 DEF RenameOver
  <1>8. CASE DiskFull(j)
    BY <1>3, <1>8 DEF DiskFull
  <1>9. CASE Unlink(j)
    BY <1>3, <1>9 DEF Unlink
  <1>10. QED
    BY <1>4, <1>5, <1>6, <1>7, <1>8, <1>9 DEF InThread

\* A name is given: to a file that is there, when the name is free.
LEMMA RenameFacts ==
    ASSUME FileTypes, NEW p \in Paths, NEW n \in Names, rename(p, n)
    PROVE  /\ UNCHANGED <<data, job, full, asked, torn>>
           /\ \/ UNCHANGED <<tree, contested, ops>>
              \/ \E dest \in Paths :
                   /\ tree[dest] = 0 /\ tree[p] # 0 /\ ops' = ops + 1
                   /\ tree' = [tree EXCEPT ![dest] = tree[p], ![p] = 0]
                   /\ contested' = (contested \/ Working(dest) # {})
  <1> DEFINE dest == <<p[1], n>>
  <1>1. dest \in Paths
    BY PathFacts
  <1>2. \/ UNCHANGED <<tree, contested, ops>>
        \/ /\ tree[dest] = 0 /\ tree[p] # 0 /\ ops' = ops + 1
           /\ tree' = [tree EXCEPT ![dest] = tree[p], ![p] = 0]
           /\ contested' = (contested \/ Working(dest) # {})
    BY DEF rename
  <1>3. UNCHANGED <<data, job, full, asked, torn>>
    BY DEF rename
  <1> HIDE DEF dest
  <1>4. QED
    BY <1>1, <1>2, <1>3

\* A process is gone: its jobs are interrupted.
LEMMA StopFacts ==
    ASSUME JobInv, NEW p \in {0} \cup Pids, Stops(p)
    PROVE  /\ UNCHANGED <<tree, data, ops, full, asked, contested, torn>>
           /\ \A k \in Jobs :
                \/ job'[k] = job[k] /\ (job[k].status = "running" => job[k].by # p)
                \/ /\ job[k].status = "running" /\ job[k].by = p
                   /\ job'[k] = Ended(k, "interrupted")
           /\ JobInv'
  <1>1. job' = [j \in Jobs |-> IF job[j].status = "running" /\ job[j].by = p
                               THEN Ended(j, "interrupted") ELSE job[j]]
        /\ UNCHANGED <<tree, data, ops, full, asked, contested, torn>>
    BY DEF Stops, Interrupted
  <1>2. \A k \in Jobs : job'[k] \in JobStates /\ JobOK(job'[k])
    BY <1>1, EndedFacts DEF JobInv
  <1>3. JobInv'
    BY <1>1, <1>2 DEF JobInv, JobOK
  <1>4. QED
    BY <1>1, <1>3

\* Types, and that no inode has two paths.
LEMMA TypesStep ==
    ASSUME JobInv, FileTypes, FileStep
    PROVE  JobInv' /\ FileTypes'
  <1>1. ASSUME NEW j \in Jobs, OnLoop(j)
        PROVE  JobInv' /\ FileTypes'
    <2>1. job[j].status = "running" /\ job[j].at = "loop"
      BY <1>1 DEF OnLoop
    <2>2. CASE Finish(j)
      <3>1. JobInv'
        BY <2>1, <2>2, EndedFacts, WithFacts DEF Finish
      <3>2. QED
        BY <2>2, <3>1 DEF Finish, FileTypes
    <2>3. CASE Begin(j)
      <3>1. JobInv' /\ UNCHANGED <<tree, data, ops, full, asked, torn>>
        BY <2>1, <2>3, BeginFacts
      <3>2. contested' \in BOOLEAN
        BY <2>3 DEF Begin, FileTypes
      <3>3. QED
        BY <3>1, <3>2 DEF FileTypes
    <2>4. QED
      BY <1>1, <2>2, <2>3 DEF OnLoop
  <1>2. ASSUME NEW j \in Jobs, OpenBoth(j), job[j].status = "running"
        PROVE  JobInv' /\ FileTypes'
    <2>1. /\ Source(j) \in Paths /\ job[j].dst \in Paths /\ tree[Source(j)] \in Inodes
          /\ JobInv' /\ UNCHANGED <<ops, full, asked, contested, torn>>
      BY <1>2, OpenFacts
    <2>2. PICK i \in Inodes :
            /\ IF tree[job[j].dst] # 0 THEN i = tree[job[j].dst] ELSE data[i] = Empty
            /\ tree' = [tree EXCEPT ![job[j].dst] = i]
            /\ data' = [data EXCEPT ![i] = [id |-> data[tree[Source(j)]].id, whole |-> FALSE]]
      BY <1>2, OpenFacts
    <2>3. data[tree[Source(j)]].id \in 1..2
      BY <2>1, InodeFacts DEF FileTypes
    <2>4. \A p \in Paths : p # job[j].dst => tree[p] # i
      <3>1. i # 0
        BY InodeFacts
      <3>2. CASE tree[job[j].dst] # 0
        BY <2>1, <2>2, <3>2 DEF FileTypes
      <3>3. CASE tree[job[j].dst] = 0
        BY <2>2, <3>1, <3>3 DEF FileTypes, Empty
      <3>4. QED
        BY <3>2, <3>3
    <2>5. /\ tree'[job[j].dst] = i /\ \A p \in Paths : p # job[j].dst => tree'[p] = tree[p]
          /\ tree' \in [Paths -> {0} \cup Inodes]
      BY <2>1, <2>2 DEF FileTypes
    <2>6. \A p, q \in Paths : tree'[p] # 0 /\ tree'[p] = tree'[q] => p = q
      BY <2>4, <2>5 DEF FileTypes
    <2>7. /\ data' \in [Inodes -> [id : 0..2, whole : BOOLEAN]]
          /\ data'[i].id # 0 /\ \A k \in Inodes : k # i => data'[k] = data[k]
      BY <2>2, <2>3 DEF FileTypes
    <2>8. \A p \in Paths : tree'[p] # 0 => data'[tree'[p]].id # 0
      BY <2>4, <2>5, <2>7 DEF FileTypes
    <2>9. QED
      BY <2>1, <2>5, <2>6, <2>7, <2>8 DEF FileTypes
  <1>3. ASSUME NEW j \in Jobs, Written(j), job[j].status = "running"
        PROVE  JobInv' /\ FileTypes'
    <2>1. JobInv' /\ UNCHANGED <<tree, ops, full, asked, contested>> /\ torn' \in BOOLEAN
      BY <1>3, WrittenFacts DEF FileTypes
    <2>2. /\ data' = [data EXCEPT ![job[j].into].whole = data[job[j].from].whole
                                    /\ data[job[j].into].id = data[job[j].from].id]
          /\ job[j].into \in Inodes /\ job[j].from \in Inodes
      BY <1>3, WrittenFacts
    <2>3. /\ data' \in [Inodes -> [id : 0..2, whole : BOOLEAN]]
          /\ \A k \in Inodes : data'[k].id = data[k].id
      BY <2>2 DEF FileTypes
    <2>4. QED
      BY <2>1, <2>3 DEF FileTypes
  <1>4. ASSUME NEW j \in Jobs, InThread(j), ~OpenBoth(j), ~Written(j)
        PROVE  JobInv' /\ FileTypes'
    <2>1. JobInv'
      BY <1>4, ThreadFacts, LeaveFacts
    <2>2. /\ UNCHANGED <<data, ops, contested, torn>> /\ full' \in Nat /\ Source(j) \in Paths
          /\ \/ tree' = tree
             \/ tree' = [tree EXCEPT ![Source(j)] = 0]
             \/ /\ tree[Source(j)] # 0 /\ job[j].dst \in Paths
                /\ tree' = [p \in Paths |-> CASE p = job[j].dst -> tree[Source(j)]
                                              [] p = Source(j) -> 0 [] OTHER -> tree[p]]
      BY <1>4, ThreadFacts DEF FileTypes
    <2>3. CASE tree' = tree \/ tree' = [tree EXCEPT ![Source(j)] = 0]
      BY <2>1, <2>2, <2>3 DEF FileTypes
    <2>4. CASE /\ tree[Source(j)] # 0 /\ job[j].dst \in Paths
               /\ tree' = [p \in Paths |-> CASE p = job[j].dst -> tree[Source(j)]
                                             [] p = Source(j) -> 0 [] OTHER -> tree[p]]
      <3>1. /\ tree' \in [Paths -> {0} \cup Inodes]
            /\ \A p, q \in Paths : tree'[p] # 0 /\ tree'[p] = tree'[q] => p = q
            /\ \A p \in Paths : tree'[p] # 0 => data[tree'[p]].id # 0
        BY <2>2, <2>4 DEF FileTypes
      <3>2. QED
        BY <2>1, <2>2, <3>1 DEF FileTypes
    <2>5. QED
      BY <2>2, <2>3, <2>4
  <1>5. ASSUME NEW j \in Jobs, NEW p \in {0} \cup Pids, Submits(j, p)
        PROVE  JobInv' /\ FileTypes'
    BY <1>5, SubmitFacts DEF FileTypes
  <1>6. ASSUME NEW p \in Paths, NEW n \in Names, rename(p, n)
        PROVE  JobInv' /\ FileTypes'
    <2>1. UNCHANGED <<data, job, full, asked, torn>>
      BY <1>6, RenameFacts
    <2>2. JobInv'
      BY <2>1 DEF JobInv, JobOK
    <2>3. CASE UNCHANGED <<tree, contested, ops>>
      BY <2>1, <2>2, <2>3 DEF FileTypes
    <2>4. ASSUME NEW dest \in Paths, tree[dest] = 0, tree[p] # 0, ops' = ops + 1,
                 tree' = [tree EXCEPT ![dest] = tree[p], ![p] = 0],
                 contested' = (contested \/ Working(dest) # {})
          PROVE  FileTypes'
      <3>1. /\ tree' \in [Paths -> {0} \cup Inodes] /\ ops' \in Nat /\ contested' \in BOOLEAN
            /\ \A r, q \in Paths : tree'[r] # 0 /\ tree'[r] = tree'[q] => r = q
            /\ \A r \in Paths : tree'[r] # 0 => data[tree'[r]].id # 0
        BY <2>4 DEF FileTypes
      <3>2. QED
        BY <2>1, <3>1 DEF FileTypes
    <2>5. QED
      BY <1>6, <2>2, <2>3, <2>4, RenameFacts
  <1>7. ASSUME NEW p \in {0} \cup Pids, Stops(p)
        PROVE  JobInv' /\ FileTypes'
    BY <1>7, StopFacts DEF FileTypes
  <1>8. CASE UNCHANGED filesVars
    BY <1>8 DEF filesVars, FileTypes, JobInv, JobOK
  <1>9. QED
    <2>1. \A j \in Jobs : InThread(j) => job[j].status = "running"
      BY DEF InThread
    <2>2. QED
      BY <1>1, <1>2, <1>3, <1>4, <1>5, <1>6, <1>7, <1>8, <2>1 DEF FileStep

LEMMA FilesInductive == FilesInv /\ FileStep => FilesInv'
  <1> SUFFICES ASSUME JobInv, FileTypes, Apart => SafeInv, FileStep, Apart'
               PROVE  SafeInv'
    BY TypesStep DEF FilesInv
  <1>0. JobInv' /\ FileTypes' /\ (kills' = 0 => kills = 0) /\ full \in Nat
    BY TypesStep DEF FileStep, FileTypes
  <1>1. ASSUME NEW j \in Jobs, OnLoop(j)
        PROVE  SafeInv'
    <2>1. job[j].status = "running" /\ job[j].at = "loop" /\ ~Active(j) /\ job[j] # NoJob
      BY <1>1 DEF OnLoop, Active, NoJob
    <2>2. CASE Finish(j)
      <3>1. /\ With(j, Ended(j, "done"))
            /\ UNCHANGED <<tree, data, ops, full, asked, contested, torn>>
        BY <2>2 DEF Finish
      <3>2. /\ job'[j].made = job[j].made /\ ~Active(j)'
            /\ \A k \in Jobs : k # j => job'[k] = job[k]
        BY <2>1, <3>1, EndedFacts, WithFacts DEF Active
      <3>3. SafeInv
        BY <3>1 DEF Apart
      <3>4. QED
        BY <1>0, <2>1, <3>1, <3>2, <3>3, GoneStep
    <2>3. CASE Begin(j)
      <3>1. /\ UNCHANGED <<tree, data, ops, full, asked, torn>>
            /\ \A k \in Jobs : k # j => job'[k] = job[k]
            /\ job'[j].made = job[j].made
        BY <2>1, <2>3, BeginFacts
      <3>2. CASE job'[j].status = "failed" /\ contested' = contested
        <4>1. SafeInv /\ ~Active(j)'
          BY <3>1, <3>2 DEF Apart, Active
        <4>2. QED
          BY <1>0, <2>1, <3>1, <4>1, GoneStep
      <3>3. CASE /\ job'[j].at = "thread" /\ job'[j].status = "running"
                 /\ job'[j].dst \in Paths \cup {<<>>}
                 /\ job'[j].dst # <<>> =>
                      /\ tree[job'[j].dst] = 0
                      /\ contested' = (contested \/ Working(job'[j].dst) # {})
                 /\ job'[j].dst = <<>> => contested' = contested
        <4>1. SafeInv /\ (job'[j].dst # <<>> => Working(job'[j].dst) = {})
          <5>1. CASE job'[j].dst = <<>>
            BY <3>1, <3>3, <5>1 DEF Apart
          <5>2. CASE job'[j].dst # <<>>
            BY <3>1, <3>3, <5>2 DEF Apart
          <5>3. QED
            BY <5>1, <5>2
        <4>2. QED
          BY <1>0, <2>1, <3>1, <3>3, <4>1, BeginStep
      <3>4. QED
        BY <2>1, <2>3, <3>2, <3>3, BeginFacts
    <2>4. QED
      BY <1>1, <2>2, <2>3 DEF OnLoop
  <1>2. ASSUME NEW j \in Jobs, OpenBoth(j), job[j].status = "running"
        PROVE  SafeInv'
    <2>1. SafeInv /\ job[j].at = "thread"
      BY <1>2 DEF OpenBoth, Apart
    <2>2. QED
      BY <1>0, <1>2, <2>1, OpenStep
  <1>3. ASSUME NEW j \in Jobs, Written(j), job[j].status = "running"
        PROVE  SafeInv'
    <2>1. SafeInv /\ ~torn'
      BY <1>3 DEF Written, Apart
    <2>2. QED
      BY <1>0, <1>3, <2>1, WrittenStep
  <1>4. ASSUME NEW j \in Jobs, InThread(j), ~OpenBoth(j), ~Written(j)
        PROVE  SafeInv'
    <2>1. /\ Active(j) /\ Source(j) \in Paths /\ UNCHANGED <<data, contested, torn>>
          /\ SafeInv /\ job[j] # NoJob
      BY <1>4, ThreadFacts, ActiveFacts DEF Apart
    <2>2. /\ ~Active(j)' /\ job'[j] # NoJob /\ job'[j].made = job[j].made
          /\ \A k \in Jobs : k # j => job'[k] = job[k]
      BY <1>4, ThreadFacts, LeaveFacts
    <2>3. /\ \A k \in Jobs : Active(k)' => k # j /\ job'[k] = job[k] /\ Active(k)
          /\ \A k \in Jobs : Moves(k)' => k # j /\ Moves(k)
          /\ \A k \in Jobs : job'[k] # NoJob => job[k] # NoJob /\ job'[k].made = job[k].made
      BY <2>1, <2>2 DEF Active, Moves, Opened
    <2>4. kills' = 0 /\ full' = 0 =>
            /\ kills = 0 /\ full = 0
            /\ \A k \in Jobs : Active(k) /\ job[k].at = "copying" => job'[k] = job[k]
      <3>1. full' = full + 1 \/ (full' = full /\ job[j].at # "copying")
        BY <1>4, ThreadFacts
      <3>2. QED
        BY <1>0, <2>2, <3>1
    <2>5. CASE \/ UNCHANGED <<tree, asked>>
               \/ /\ tree[Source(j)] # 0 /\ tree' = [tree EXCEPT ![Source(j)] = 0]
                  /\ asked' = asked \cup {data[tree[Source(j)]].id}
               \/ /\ job[j].at = "unlink" /\ tree' = [tree EXCEPT ![Source(j)] = 0]
                  /\ asked' = asked
      <3>1. \A p \in Paths : \/ tree'[p] = tree[p]
                             \/ /\ tree'[p] = 0
                                /\ \/ tree[p] # 0 /\ data[tree[p]].id \in asked'
                                   \/ \E k \in Jobs : Active(k) /\ job[k].at = "unlink" /\ Source(k) = p
        BY <2>1, <2>5 DEF FileTypes
      <3>2. asked \subseteq asked'
        BY <2>5
      <3>3. QED
        BY <1>0, <2>1, <2>3, <2>4, <3>1, <3>2, GoneStep
    <2>6. CASE /\ job[j].at = "thread" /\ job[j].dst \in Paths /\ job[j].dst # <<>>
               /\ tree[Source(j)] # 0 /\ asked' = asked
               /\ tree' = [p \in Paths |-> CASE p = job[j].dst -> tree[Source(j)]
                                             [] p = Source(j) -> 0 [] OTHER -> tree[p]]
      <3>1. tree[job[j].dst] = 0
        BY <2>1, <2>6 DEF SafeInv, ApartInv
      <3>2. tree' = [tree EXCEPT ![job[j].dst] = tree[Source(j)], ![Source(j)] = 0]
        BY <2>1, <2>6, <3>1 DEF FileTypes
      <3>3. \A k \in Jobs : /\ Active(k)' => job[k].dst # job[j].dst
                            /\ Moves(k)' => Source(k) # job[j].dst
        BY <2>1, <2>3, <2>6 DEF SafeInv, ApartInv
      <3>4. QED
        BY <1>0, <2>1, <2>3, <2>4, <2>6, <3>1, <3>2, <3>3, MoveStep
    <2>7. QED
      BY <1>4, <2>5, <2>6, ThreadFacts
  <1>5. ASSUME NEW j \in Jobs, NEW p \in {0} \cup Pids, Submits(j, p)
        PROVE  SafeInv'
    <2>1. /\ job[j] = NoJob /\ UNCHANGED <<tree, data, full, asked, contested, torn>>
          /\ job'[j].at = "loop" /\ job'[j].made = {}
          /\ \A k \in Jobs : k # j => job'[k] = job[k]
      BY <1>5, SubmitFacts
    <2>2. SafeInv /\ ~Active(j) /\ ~Active(j)'
      BY <2>1 DEF Apart, Active, NoJob
    <2>3. QED
      BY <1>0, <2>1, <2>2, GoneStep
  <1>6. ASSUME NEW p \in Paths, NEW n \in Names, rename(p, n)
        PROVE  SafeInv'
    <2>1. UNCHANGED <<data, job, full, asked, torn>>
      BY <1>6, RenameFacts
    <2>2. \A k \in Jobs : /\ job'[k] = job[k] /\ Active(k)' = Active(k) /\ Moves(k)' = Moves(k)
      BY <2>1 DEF Active, Moves, Opened
    <2>3. CASE UNCHANGED <<tree, contested, ops>>
      <3>1. SafeInv
        BY <2>1, <2>3 DEF Apart
      <3>2. QED
        BY <1>0, <2>1, <2>2, <2>3, <3>1, GoneStep
    <2>4. ASSUME NEW dest \in Paths, tree[dest] = 0, tree[p] # 0, ops' = ops + 1,
                 tree' = [tree EXCEPT ![dest] = tree[p], ![p] = 0],
                 contested' = (contested \/ Working(dest) # {})
          PROVE  SafeInv'
      <3>1. SafeInv /\ Working(dest) = {}
        BY <2>1, <2>4 DEF Apart
      <3>2. \A k \in Jobs : /\ Active(k)' => job[k].dst # dest
                            /\ Moves(k)' => Source(k) # dest
        BY <2>2, <3>1, WorkingFacts
      <3>3. QED
        BY <1>0, <2>1, <2>2, <2>4, <3>1, <3>2, MoveStep
    <2>5. QED
      BY <1>6, <2>3, <2>4, RenameFacts
  <1>7. ASSUME NEW p \in {0} \cup Pids, Stops(p)
        PROVE  SafeInv'
    <2>1. /\ UNCHANGED <<tree, data, ops, full, asked, contested, torn>> /\ SafeInv
          /\ \A k \in Jobs :
               \/ job'[k] = job[k] /\ (job[k].status = "running" => job[k].by # p)
               \/ /\ job[k].status = "running" /\ job[k].by = p
                  /\ job'[k] = Ended(k, "interrupted")
      BY <1>7, StopFacts DEF Apart
    <2>2. \A k \in Jobs : /\ Active(k)' => job'[k] = job[k]
                          /\ job'[k] # NoJob => job[k] # NoJob /\ job'[k].made = job[k].made
      <3>1. \A k \in Jobs : job[k].status = "running" =>
              /\ Ended(k, "interrupted").status = "interrupted" /\ job[k] # NoJob
              /\ Ended(k, "interrupted").made = job[k].made
        BY EndedFacts, RunningFacts
      <3>2. QED
        BY <2>1, <3>1 DEF Active
    <2>3. kills' = 0 /\ full' = 0 =>
            /\ kills = 0 /\ full = 0
            /\ \A k \in Jobs : Active(k) /\ job[k].at = "copying" => job'[k] = job[k]
      <3>1. kills' > kills => kills' # 0
        BY DEF FileStep
      <3>2. ThreadsEnded(p) =>
              \A k \in Jobs : job[k].status = "running" /\ job[k].by = p => job[k].at = "loop"
        BY DEF ThreadsEnded
      <3>3. QED
        BY <1>0, <1>7, <2>1, <3>1, <3>2 DEF Stops, Active
    <2>4. QED
      BY <1>0, <2>1, <2>2, <2>3, GoneStep
  <1>8. CASE UNCHANGED filesVars
    <2>1. UNCHANGED <<tree, data, job, full, asked, contested, torn>>
      BY <1>8 DEF filesVars
    <2>2. SafeInv
      BY <2>1 DEF Apart
    <2>3. \A k \in Jobs : job'[k] = job[k]
      BY <2>1
    <2>4. QED
      BY <1>0, <2>1, <2>2, <2>3, GoneStep
  <1>9. QED
    <2>1. \A j \in Jobs : InThread(j) => job[j].status = "running"
      BY DEF InThread
    <2>2. QED
      BY <1>1, <1>2, <1>3, <1>4, <1>5, <1>6, <1>7, <1>8, <2>1 DEF FileStep

\* The inductive invariant of the files holds in every reachable state.
THEOREM FilesInvariance == Spec => []FilesInv
  <1>1. Init => FilesInv
    <2> SUFFICES ASSUME WorkerInit, FilesInit
                 PROVE  FilesInv
      BY DEF Init
    <2>1. PICK one \in Paths, two \in Paths :
            /\ one # two
            /\ tree = [p \in Paths |-> CASE p = one -> 1 [] p = two -> 2 [] OTHER -> 0]
      BY DEF FilesInit
    <2>2. /\ data = [i \in Inodes |-> IF i \in Originals THEN [id |-> i, whole |-> TRUE] ELSE Empty]
          /\ job = [j \in Jobs |-> NoJob] /\ ops = 0 /\ full = 0 /\ asked = {}
          /\ contested = FALSE /\ torn = FALSE
      BY DEF FilesInit
    <2>3. Originals \subseteq Inodes /\ Originals = {1, 2}
      BY InodeFacts DEF Originals
    <2>4. JobInv /\ \A j \in Jobs : ~Active(j) /\ ~Opened(j) /\ ~Moves(j)
      BY <2>2 DEF JobInv, JobStates, JobOK, NoJob, Active, Opened, Moves
    <2>5. /\ tree[one] = 1 /\ tree[two] = 2 /\ \A p \in Paths : p # one /\ p # two => tree[p] = 0
          /\ tree \in [Paths -> {0} \cup Inodes]
      BY <2>1, <2>3
    <2>6. /\ data[1] = [id |-> 1, whole |-> TRUE] /\ data[2] = [id |-> 2, whole |-> TRUE]
          /\ data \in [Inodes -> [id : 0..2, whole : BOOLEAN]]
      BY <2>2, <2>3 DEF Empty
    <2>7. FileTypes
      <3>1. \A p, q \in Paths : tree[p] # 0 /\ tree[p] = tree[q] => p = q
        BY <2>1, <2>5
      <3>2. \A p \in Paths : tree[p] # 0 => data[tree[p]].id # 0
        BY <2>5, <2>6
      <3>3. QED
        BY <2>2, <2>5, <2>6, <3>1, <3>2 DEF FileTypes
    <2>8. ApartInv /\ CopyInv
      BY <2>4 DEF ApartInv, CopyInv
    <2>9. KeptInv
      <3>1. ASSUME NEW o \in Originals
            PROVE  \E p \in Paths : tree[p] # 0 /\ data[tree[p]] = [id |-> o, whole |-> TRUE]
        <4>1. CASE o = 1
          BY <2>5, <2>6, <4>1
        <4>2. CASE o = 2
          BY <2>5, <2>6, <4>2
        <4>3. QED
          BY <2>3, <4>1, <4>2
      <3>2. QED
        BY <2>4, <3>1 DEF KeptInv
    <2>10. WholeInv
      BY <2>2, <2>5, <2>6 DEF WholeInv
    <2>11. QED
      BY <2>4, <2>7, <2>8, <2>9, <2>10 DEF FilesInv, SafeInv
  <1>2. IInv /\ FilesInv /\ [Next]_vars => FilesInv'
    BY FilesEffect, FilesInductive
  <1>3. QED
    BY <1>1, <1>2, Invariance, PTL DEF Spec

\* No content is lost that nobody deleted: before a move removes its source, the
\* copy is whole, at a path that no other move is about to remove.
THEOREM NothingGetsLost == Spec => []NothingIsLost
  <1>1. FilesInv => NothingIsLost
    <2> SUFFICES ASSUME FileTypes, KeptInv, NEW o \in Originals, o \notin asked
                 PROVE  o \in Present
      BY DEF FilesInv, SafeInv, Apart, NothingIsLost
    <2>1. PICK p \in Paths : tree[p] # 0 /\ data[tree[p]] = [id |-> o, whole |-> TRUE]
      BY DEF KeptInv
    <2>2. QED
      BY <2>1 DEF Present
  <1>2. QED
    BY FilesInvariance, <1>1, PTL

\* What a job says it has done is all there, and a worker that exits by itself
\* leaves nothing half written: it waits for its threads.
THEOREM WhatIsWrittenIsWhole == Spec => []WrittenIsWhole
  <1>1. FilesInv => WrittenIsWhole
    <2> SUFFICES ASSUME JobInv, WholeInv
                 PROVE  WrittenIsWhole
      BY DEF FilesInv, SafeInv, Apart, WrittenIsWhole
    <2>1. \A j \in Jobs : job[j].status = "done" => \A i \in job[j].made : data[i].whole
      BY DEF WholeInv, NoJob
    <2>2. kills = 0 /\ full = 0 =>
            \A p \in Paths : tree[p] # 0 /\ ~data[tree[p]].whole =>
              \E j \in Jobs : /\ job[j].status = "running" /\ job[j].at = "copying"
                              /\ job[j].into = tree[p]
      BY DEF WholeInv, Active
    <2>3. QED
      BY <2>1, <2>2 DEF WrittenIsWhole
  <1>2. QED
    BY FilesInvariance, <1>1, PTL

\* The variables have their types, and no inode has two paths.
THEOREM TypeCorrect == Spec => []TypeOK
  <1> DEFINE IdleOK == idle \in 0..IdleLimit
  <1>1. Init => IdleOK
    BY WorkerAssumption DEF Init, WorkerInit
  <1>2. IdleOK /\ [Next]_vars => IdleOK'
    <2> SUFFICES ASSUME IdleOK, [Next]_vars
                 PROVE  IdleOK'
      OBVIOUS
    <2>1. idle' \in {0, idle} \/ (idle' = idle + 1 /\ idle < IdleLimit)
      BY WorkerEffect DEF WorkerStep, fileworker_ensure, ensure, Spawn, Serve, Connect, Close,
         LastFrame, ReadLine, watch, LeaveLoop, Exit, Kill, reap, Command, Tick, AgentRestart,
         workerVars
    <2>2. QED
      BY <2>1, WorkerAssumption
  <1>3. IInv /\ FilesInv /\ IdleOK => TypeOK
    BY DEF IInv, WorkerTypes, FilesInv, FileTypes, TypeOK
  <1>4. Spec => []IdleOK
    BY <1>1, <1>2, PTL DEF Spec
  <1>5. QED
    BY <1>3, <1>4, Invariance, FilesInvariance, PTL
==============================================================================
