-------------------------- MODULE JobRunnerProofs ---------------------------
(***************************************************************************)
(* Proofs about agent/jobs.py for any number of jobs and resources, any    *)
(* MAX_CONCURRENCY and any mixture of bodies.                              *)
(*                                                                         *)
(* Exclusion on a resource rests on where a task can be: in the            *)
(* semaphore's queue, in the queue of the lock of its own resource, or in  *)
(* its body holding that lock, and never in two of these at once.          *)
(***************************************************************************)
EXTENDS JobRunner, FiniteSetTheorems, TLAPS

\* The tasks in the semaphore's queue are queued, are there once, and hold
\* no permit.
SemQueueInv ==
    /\ \A n \in 1..Len(semQueue) :
         status[semQueue[n]] = "queued" /\ semQueue[n] \notin slots
    /\ \A m, n \in 1..Len(semQueue) : semQueue[m] = semQueue[n] => m = n

\* The tasks in the queue of a lock are queued, are there once, hold a
\* permit, and wait for the lock of their own resource.
LockQueueInv ==
    /\ \A r \in Resources : \A n \in 1..Len(lockQueue[r]) :
         /\ status[lockQueue[r][n]] = "queued"
         /\ lockQueue[r][n] \in slots
         /\ res[lockQueue[r][n]] = r
    /\ \A r \in Resources : \A m, n \in 1..Len(lockQueue[r]) :
         lockQueue[r][m] = lockQueue[r][n] => m = n

\* A body runs with a permit and with the lock of its resource; only tasks
\* that wait for a lock or run have a permit.
RunningInv ==
    /\ \A j \in slots : status[j] \in {"queued", "running"}
    /\ \A j \in Jobs : status[j] = "running" =>
         /\ j \in slots
         /\ res[j] # NoResource => lockHolder[res[j]] = j

\* No more permits are out than self._semaphore had.
PermitInv == IsFiniteSet(slots) /\ Cardinality(slots) <= MaxConcurrency

\* The inductive invariant.
IInv == TypeOK /\ SemQueueInv /\ LockQueueInv /\ RunningInv

-----------------------------------------------------------------------------
\* What a queue is after its head leaves it.
LEMMA TailFacts ==
    ASSUME NEW S, NEW q \in Seq(S), q # <<>>
    PROVE  /\ Head(q) \in S /\ Head(q) = q[1] /\ 1 \in 1..Len(q)
           /\ Tail(q) \in Seq(S)
           /\ Len(Tail(q)) = Len(q) - 1
           /\ \A n \in 1..Len(Tail(q)) : Tail(q)[n] = q[n+1] /\ n+1 \in 1..Len(q)
  OBVIOUS

\* What a queue is after a task joins it.
LEMMA AppendFacts ==
    ASSUME NEW S, NEW q \in Seq(S), NEW x \in S
    PROVE  /\ Append(q, x) \in Seq(S)
           /\ Len(Append(q, x)) = Len(q) + 1
           /\ \A n \in 1..Len(q) : Append(q, x)[n] = q[n]
           /\ Append(q, x)[Len(q) + 1] = x
  OBVIOUS

\* Every step keeps the types (submit queues, _run's queues and its end).
LEMMA TypeStep ==
    ASSUME TypeOK, [Next]_vars
    PROVE  TypeOK'
  <1> USE DEF TypeOK, Statuses, Terminal, lockVars, Begin, Finish
  <1>1. ASSUME NEW j \in Jobs, NEW r \in Resources \cup {NoResource},
               NEW b \in Bodies, submit(j, r, b)
        PROVE  TypeOK'
    <2>1. b.coop \in BOOLEAN /\ b.work \in Nat
      BY BodiesAssumption
    <2>2. QED
      BY <1>1, <2>1 DEF submit
  <1>2. ASSUME NEW j \in Jobs, request_cancel(j)
        PROVE  TypeOK'
    BY <1>2 DEF request_cancel
  <1>3. ASSUME NEW j \in Jobs, AcquireSlot(j)
        PROVE  TypeOK'
    <2>1. Tail(semQueue) \in Seq(Jobs)
      BY <1>3, TailFacts DEF AcquireSlot
    <2>2. CASE res[j] = NoResource /\ Begin(j) /\ UNCHANGED lockVars
      BY <1>3, <2>1, <2>2 DEF AcquireSlot
    <2>3. CASE /\ res[j] # NoResource
               /\ lockHolder' = [lockHolder EXCEPT ![res[j]] = j]
               /\ Begin(j) /\ UNCHANGED lockQueue
      BY <1>3, <2>1, <2>3 DEF AcquireSlot
    <2>4. CASE /\ res[j] # NoResource
               /\ lockQueue' = [lockQueue EXCEPT ![res[j]] = Append(@, j)]
               /\ UNCHANGED <<status, event, lockHolder>>
      BY <1>3, <2>1, <2>4, SMTT(30) DEF AcquireSlot
    <2>5. QED
      BY <1>3, <2>2, <2>3, <2>4 DEF AcquireSlot
  <1>4. ASSUME NEW j \in Jobs, BodyStep(j)
        PROVE  TypeOK'
    BY <1>4 DEF BodyStep
  <1>5. ASSUME NEW j \in Jobs, NEW s \in Terminal, Finish(j, s)
        PROVE  TypeOK'
    <2>1. /\ status' \in [Jobs -> Statuses] /\ event' \in [Jobs -> Statuses]
          /\ slots' \in SUBSET Jobs
      BY <1>5
    <2>2. lockHolder' \in [Resources -> Jobs \cup {NoJob}]
      BY <1>5, NoJobAssumption DEF Released
    <2>3. /\ log' \in [Jobs -> Seq(Terminal)] /\ handles' \in SUBSET Jobs
          /\ cancel' \in [Jobs -> BOOLEAN]
      <3>1. CASE /\ log' = Logged(j, s) /\ handles' = handles \ {j}
                 /\ cancel' = [cancel EXCEPT ![j] = FALSE]
        <4>1. Append(log[j], s) \in Seq(Terminal)
          BY AppendFacts
        <4>2. QED
          BY <3>1, <4>1 DEF Logged
      <3>2. CASE UNCHANGED <<log, handles, cancel>>
        BY <3>2
      <3>3. QED
        BY <1>5, <3>1, <3>2
    <2>4. QED
      BY <1>5, <2>1, <2>2, <2>3
  <1>6. ASSUME NEW j \in Jobs, BodyReturns(j) \/ BodyRaises(j)
        PROVE  TypeOK'
    BY <1>5, <1>6 DEF BodyReturns, BodyRaises, Outcome
  <1>7. ASSUME NEW r \in Resources, AcquireLock(r)
        PROVE  TypeOK'
    BY <1>7, TailFacts DEF AcquireLock
  <1>8. ASSUME Restart
        PROVE  TypeOK'
    BY <1>8 DEF Restart
  <1>9. CASE UNCHANGED vars
    BY <1>9 DEF vars
  <1>10. QED
    BY <1>1, <1>2, <1>3, <1>4, <1>6, <1>7, <1>8, <1>9 DEF Next, TaskStep

-----------------------------------------------------------------------------
\* Every step keeps a task in at most one place.
LEMMA PlacesStep ==
    ASSUME IInv, TypeOK', [Next]_vars
    PROVE  SemQueueInv' /\ LockQueueInv' /\ RunningInv'
  <1> USE DEF IInv, SemQueueInv, LockQueueInv, RunningInv
  <1>0. /\ \A n \in 1..Len(semQueue) : semQueue[n] \in Jobs
        /\ \A r \in Resources : \A n \in 1..Len(lockQueue[r]) :
             lockQueue[r][n] \in Jobs
        /\ status \in [Jobs -> Statuses]
        /\ res \in [Jobs -> Resources \cup {NoResource}]
        /\ slots \subseteq Jobs
        /\ lockHolder \in [Resources -> Jobs \cup {NoJob}]
    BY DEF TypeOK
  <1>1. ASSUME NEW j \in Jobs, NEW r \in Resources \cup {NoResource},
               NEW b \in Bodies, submit(j, r, b)
        PROVE  SemQueueInv' /\ LockQueueInv' /\ RunningInv'
    <2>1. /\ status[j] = "new"
          /\ status' = [status EXCEPT ![j] = "queued"]
          /\ res' = [res EXCEPT ![j] = r]
          /\ semQueue' = Append(semQueue, j)
          /\ UNCHANGED <<slots, lockHolder, lockQueue>>
      BY <1>1 DEF submit, lockVars
    <2>2. /\ \A n \in 1..Len(semQueue) : semQueue[n] # j
          /\ \A q \in Resources : \A n \in 1..Len(lockQueue[q]) : lockQueue[q][n] # j
          /\ j \notin slots
      BY <1>0, <2>1
    <2>3. /\ Len(semQueue) \in Nat
          /\ Len(semQueue') = Len(semQueue) + 1
          /\ \A n \in 1..Len(semQueue) : semQueue'[n] = semQueue[n]
          /\ semQueue'[Len(semQueue) + 1] = j
      BY <2>1, AppendFacts DEF TypeOK
    <2>4. SemQueueInv'
      BY <1>0, <2>1, <2>2, <2>3
    <2>5. LockQueueInv'
      BY <1>0, <2>1, <2>2
    <2>6. RunningInv'
      BY <1>0, <2>1, <2>2
    <2>7. QED
      BY <2>4, <2>5, <2>6
  <1>2. ASSUME NEW j \in Jobs, request_cancel(j) \/ BodyStep(j)
        PROVE  SemQueueInv' /\ LockQueueInv' /\ RunningInv'
    BY <1>2 DEF request_cancel, BodyStep, lockVars
  <1>3. ASSUME NEW j \in Jobs, AcquireSlot(j)
        PROVE  SemQueueInv' /\ LockQueueInv' /\ RunningInv'
    <2>1. /\ j = semQueue[1] /\ status[j] = "queued" /\ j \notin slots
          /\ semQueue' = Tail(semQueue) /\ slots' = slots \cup {j}
          /\ UNCHANGED res
      BY <1>3, TailFacts DEF AcquireSlot, TypeOK
    <2>2. \A n \in 1..Len(semQueue') :
            /\ semQueue'[n] = semQueue[n+1] /\ n+1 \in 1..Len(semQueue)
            /\ semQueue'[n] # j
      BY <1>3, <2>1, TailFacts DEF AcquireSlot, TypeOK
    <2>3. \A k \in Jobs : k # j => status'[k] = status[k]
      BY <1>0, <1>3 DEF AcquireSlot, Begin
    <2>4. SemQueueInv'
      BY <1>0, <2>1, <2>2, <2>3
    <2>5. \A r \in Resources : \A n \in 1..Len(lockQueue[r]) : lockQueue[r][n] # j
      BY <2>1
    <2>6. CASE res[j] = NoResource /\ Begin(j) /\ UNCHANGED lockVars
      BY <1>0, <2>1, <2>3, <2>4, <2>5, <2>6 DEF lockVars, Begin
    <2>7. CASE /\ res[j] # NoResource /\ LockFree(res[j])
               /\ lockHolder' = [lockHolder EXCEPT ![res[j]] = j]
               /\ Begin(j) /\ UNCHANGED lockQueue
      <3>1. LockQueueInv'
        BY <1>0, <2>1, <2>3, <2>5, <2>7
      <3>2. \A k \in Jobs : k # j /\ status[k] = "running" => res[k] # res[j]
        BY <2>7, NoJobAssumption DEF LockFree, TypeOK
      <3>3. RunningInv'
        BY <1>0, <2>1, <2>3, <2>7, <3>2 DEF Begin
      <3>4. QED
        BY <2>4, <3>1, <3>3
    <2>8. CASE /\ res[j] # NoResource
               /\ lockQueue' = [lockQueue EXCEPT ![res[j]] = Append(@, j)]
               /\ UNCHANGED <<status, event, lockHolder>>
      <3>1. RunningInv'
        BY <2>1, <2>8 DEF TypeOK
      <3>2. \A r \in Resources : r # res[j] => lockQueue'[r] = lockQueue[r]
        BY <2>8 DEF TypeOK
      <3>3. /\ Len(lockQueue'[res[j]]) = Len(lockQueue[res[j]]) + 1
            /\ \A n \in 1..Len(lockQueue[res[j]]) :
                 lockQueue'[res[j]][n] = lockQueue[res[j]][n]
            /\ lockQueue'[res[j]][Len(lockQueue[res[j]]) + 1] = j
        BY <2>8, AppendFacts DEF TypeOK
      <3>4. LockQueueInv'
        <4> SUFFICES ASSUME NEW r \in Resources
                     PROVE  /\ \A n \in 1..Len(lockQueue'[r]) :
                                 /\ status'[lockQueue'[r][n]] = "queued"
                                 /\ lockQueue'[r][n] \in slots'
                                 /\ res'[lockQueue'[r][n]] = r
                            /\ \A m, n \in 1..Len(lockQueue'[r]) :
                                 lockQueue'[r][m] = lockQueue'[r][n] => m = n
          OBVIOUS
        <4>1. CASE r # res[j]
          BY <2>1, <2>8, <3>2, <4>1
        <4>2. CASE r = res[j]
          <5>1. Len(lockQueue[r]) \in Nat
            BY DEF TypeOK
          <5>2. \A n \in 1..Len(lockQueue'[r]) :
                  \/ n = Len(lockQueue[r]) + 1 /\ lockQueue'[r][n] = j
                  \/ /\ n \in 1..Len(lockQueue[r])
                     /\ lockQueue'[r][n] = lockQueue[r][n] /\ lockQueue[r][n] # j
            BY <2>5, <3>3, <4>2, <5>1
          <5>3. /\ status' = status /\ res' = res /\ slots' = slots \cup {j}
                /\ status[j] = "queued" /\ res[j] = r
            BY <2>1, <2>8, <4>2
          <5>4. \A n \in 1..Len(lockQueue'[r]) :
                  /\ status'[lockQueue'[r][n]] = "queued"
                  /\ lockQueue'[r][n] \in slots'
                  /\ res'[lockQueue'[r][n]] = r
            BY <5>2, <5>3
          <5>5. \A m, n \in 1..Len(lockQueue'[r]) :
                  lockQueue'[r][m] = lockQueue'[r][n] => m = n
            BY <5>2
          <5>6. QED
            BY <5>4, <5>5
        <4>3. QED
          BY <4>1, <4>2
      <3>5. QED
        BY <2>4, <3>1, <3>4
    <2>9. QED
      BY <1>3, <2>6, <2>7, <2>8 DEF AcquireSlot
  <1>4. ASSUME NEW j \in Jobs, BodyReturns(j) \/ BodyRaises(j)
        PROVE  SemQueueInv' /\ LockQueueInv' /\ RunningInv'
    <2>1. /\ status[j] = "running" /\ slots' = slots \ {j}
          /\ lockHolder' = Released(j)
          /\ UNCHANGED <<semQueue, lockQueue, res>>
      BY <1>4 DEF BodyReturns, BodyRaises, Finish
    <2>2. status'[j] # "queued" /\ status'[j] # "running"
      BY <1>4 DEF BodyReturns, BodyRaises, Finish, Outcome, TypeOK
    <2>3. \A k \in Jobs : k # j => status'[k] = status[k]
      BY <1>4 DEF BodyReturns, BodyRaises, Finish, TypeOK
    <2>4. SemQueueInv'
      BY <1>0, <2>1, <2>3
    <2>5. LockQueueInv'
      BY <1>0, <2>1, <2>3
    <2>6. ASSUME NEW k \in Jobs, status'[k] = "running"
          PROVE  k \in slots' /\ (res'[k] # NoResource => lockHolder'[res'[k]] = k)
      <3>1. k # j /\ status[k] = "running"
        BY <2>2, <2>3, <2>6
      <3>2. res[k] # NoResource => res[k] # res[j]
        BY <2>1, <3>1
      <3>3. QED
        BY <2>1, <3>1, <3>2 DEF Released, TypeOK
    <2>7. RunningInv'
      BY <2>1, <2>3, <2>6 DEF TypeOK
    <2>8. QED
      BY <2>4, <2>5, <2>7
  <1>5. ASSUME NEW r \in Resources, AcquireLock(r)
        PROVE  SemQueueInv' /\ LockQueueInv' /\ RunningInv'
    <2> DEFINE j == Head(lockQueue[r])
    <2>1. /\ j \in Jobs /\ j = lockQueue[r][1] /\ 1 \in 1..Len(lockQueue[r])
          /\ lockHolder[r] = NoJob
      BY <1>5, TailFacts DEF AcquireLock, TypeOK
    <2>2. status[j] = "queued" /\ j \in slots /\ res[j] = r
      BY <2>1
    <2>3. /\ UNCHANGED <<semQueue, slots, res>>
          /\ lockHolder' = [lockHolder EXCEPT ![r] = j]
          /\ status' = [status EXCEPT ![j] = "running"]
          /\ lockQueue' = [lockQueue EXCEPT ![r] = Tail(@)]
      BY <1>5 DEF AcquireLock, Begin
    <2> HIDE DEF j
    <2>4. SemQueueInv'
      BY <1>0, <2>2, <2>3
    <2>5. \A n \in 1..Len(lockQueue'[r]) :
            /\ lockQueue'[r][n] = lockQueue[r][n+1] /\ n+1 \in 1..Len(lockQueue[r])
            /\ lockQueue'[r][n] # j
      <3>1. lockQueue[r] \in Seq(Jobs) /\ lockQueue[r] # <<>>
        BY <1>5 DEF AcquireLock, TypeOK
      <3>2. lockQueue'[r] = Tail(lockQueue[r])
        BY <2>3 DEF TypeOK
      <3>3. /\ Len(lockQueue'[r]) = Len(lockQueue[r]) - 1
            /\ \A n \in 1..Len(lockQueue'[r]) :
                 lockQueue'[r][n] = lockQueue[r][n+1] /\ n+1 \in 1..Len(lockQueue[r])
        BY <3>1, <3>2, TailFacts
      <3>4. \A m, n \in 1..Len(lockQueue[r]) : lockQueue[r][m] = lockQueue[r][n] => m = n
        OBVIOUS
      <3>5. ASSUME NEW n \in 1..Len(lockQueue'[r])
            PROVE  lockQueue'[r][n] # j
        <4>1. n + 1 # 1 /\ n + 1 \in 1..Len(lockQueue[r]) /\ lockQueue'[r][n] = lockQueue[r][n+1]
          BY <3>3
        <4> QED BY <2>1, <3>4, <4>1
      <3> QED BY <3>3, <3>5
    <2>6. \A q \in Resources : q # r => lockQueue'[q] = lockQueue[q]
      BY <2>3 DEF TypeOK
    <2>7. \A k \in Jobs : k # j => status'[k] = status[k]
      BY <2>3 DEF TypeOK
    <2>8. LockQueueInv'
      <3> SUFFICES ASSUME NEW q \in Resources
                   PROVE  /\ \A n \in 1..Len(lockQueue'[q]) :
                               /\ status'[lockQueue'[q][n]] = "queued"
                               /\ lockQueue'[q][n] \in slots'
                               /\ res'[lockQueue'[q][n]] = q
                          /\ \A m, n \in 1..Len(lockQueue'[q]) :
                               lockQueue'[q][m] = lockQueue'[q][n] => m = n
        OBVIOUS
      <3>1. CASE q # r
        BY <1>0, <2>2, <2>3, <2>6, <2>7, <3>1, SMTT(30)
      <3>2. CASE q = r
        <4>1. ASSUME NEW n \in 1..Len(lockQueue'[r])
              PROVE  /\ status'[lockQueue'[r][n]] = "queued"
                     /\ lockQueue'[r][n] \in slots'
                     /\ res'[lockQueue'[r][n]] = r
          <5>1. /\ lockQueue'[r][n] = lockQueue[r][n+1] /\ lockQueue'[r][n] # j
                /\ n+1 \in 1..Len(lockQueue[r])
            BY <2>5
          <5>2. /\ status[lockQueue[r][n+1]] = "queued"
                /\ lockQueue[r][n+1] \in slots /\ lockQueue[r][n+1] \in Jobs
                /\ res[lockQueue[r][n+1]] = r
            BY <1>0, <5>1
          <5>3. QED
            BY <2>3, <2>7, <5>1, <5>2
        <4>2. ASSUME NEW m \in 1..Len(lockQueue'[r]), NEW n \in 1..Len(lockQueue'[r]),
                     lockQueue'[r][m] = lockQueue'[r][n]
              PROVE  m = n
          <5>1. /\ lockQueue[r][m+1] = lockQueue[r][n+1]
                /\ m+1 \in 1..Len(lockQueue[r]) /\ n+1 \in 1..Len(lockQueue[r])
            BY <2>5, <4>2
          <5>2. m+1 = n+1
            BY <5>1
          <5>3. QED
            BY <5>2
        <4>3. QED
          BY <3>2, <4>1, <4>2
      <3>3. QED
        BY <3>1, <3>2
    <2>9. \A k \in Jobs : status[k] = "running" => res[k] # r
      BY <1>0, <2>1, NoJobAssumption, NoResourceAssumption
    <2>10. RunningInv'
      BY <1>0, <2>1, <2>2, <2>3, <2>7, <2>9
    <2>11. QED
      BY <2>4, <2>8, <2>10
  <1>6. ASSUME Restart
        PROVE  SemQueueInv' /\ LockQueueInv' /\ RunningInv'
    BY <1>6 DEF Restart, TypeOK
  <1>7. CASE UNCHANGED vars
    BY <1>7 DEF vars
  <1>8. QED
    BY <1>1, <1>2, <1>3, <1>4, <1>5, <1>6, <1>7 DEF Next, TaskStep

-----------------------------------------------------------------------------
\* The places a task can be in (jobs.py _run), in every reachable state.
THEOREM PlacesInvariant == Spec => []IInv
  <1>1. Init => IInv
    BY DEF Init, IInv, TypeOK, Statuses, SemQueueInv, LockQueueInv, RunningInv
  <1>2. IInv /\ [Next]_vars => IInv'
    BY TypeStep, PlacesStep DEF IInv
  <1>3. QED
    BY <1>1, <1>2, PTL DEF Spec

\* The variables of the runner keep their types.
THEOREM TypeCorrect == Spec => []TypeOK
  <1>1. IInv => TypeOK
    BY DEF IInv
  <1>2. QED
    BY <1>1, PlacesInvariant, PTL

\* jobs.py: "two operations on the same resource never race": no two bodies
\* run on one resource at once, however many jobs are submitted.
THEOREM Exclusion == Spec => []ResourceExclusive
  <1>1. IInv => ResourceExclusive
    BY DEF IInv, RunningInv, ResourceExclusive, Running
  <1>2. QED
    BY <1>1, PlacesInvariant, PTL

\* A step gives out a permit only when one is left, and takes back only what
\* it gave out.
LEMMA PermitStep ==
    ASSUME PermitInv, [Next]_vars
    PROVE  PermitInv'
  <1> USE DEF PermitInv
  <1>1. ASSUME NEW j \in Jobs, AcquireSlot(j)
        PROVE  PermitInv'
    <2>1. slots' = slots \cup {j} /\ Cardinality(slots) < MaxConcurrency
      BY <1>1 DEF AcquireSlot, SlotFree
    <2>2. /\ IsFiniteSet(slots \cup {j})
          /\ Cardinality(slots \cup {j}) <= Cardinality(slots) + 1
      BY FS_AddElement, FS_CardinalityType
    <2>3. Cardinality(slots) \in Nat /\ Cardinality(slots \cup {j}) \in Nat
      BY <2>2, FS_CardinalityType
    <2>4. QED
      BY <2>1, <2>2, <2>3, MaxConcurrencyAssumption
  <1>2. ASSUME NEW j \in Jobs, BodyReturns(j) \/ BodyRaises(j)
        PROVE  PermitInv'
    <2>1. slots' = slots \ {j}
      BY <1>2 DEF BodyReturns, BodyRaises, Finish
    <2>2. /\ IsFiniteSet(slots \ {j})
          /\ Cardinality(slots \ {j}) <= Cardinality(slots)
          /\ Cardinality(slots \ {j}) \in Nat /\ Cardinality(slots) \in Nat
      BY FS_Subset, FS_CardinalityType
    <2>3. QED
      BY <2>1, <2>2, MaxConcurrencyAssumption
  <1>3. ASSUME Restart
        PROVE  PermitInv'
    <2>1. slots' = {}
      BY <1>3 DEF Restart
    <2>2. QED
      BY <2>1, FS_EmptySet, MaxConcurrencyAssumption
  <1>4. CASE UNCHANGED slots
    BY <1>4
  <1>5. ASSUME NEW j \in Jobs, request_cancel(j) \/ BodyStep(j)
        PROVE  UNCHANGED slots
    BY <1>5 DEF request_cancel, BodyStep
  <1>6. ASSUME NEW j \in Jobs, NEW r \in Resources \cup {NoResource},
               NEW b \in Bodies, submit(j, r, b)
        PROVE  UNCHANGED slots
    BY <1>6 DEF submit
  <1>7. ASSUME NEW r \in Resources, AcquireLock(r)
        PROVE  UNCHANGED slots
    BY <1>7 DEF AcquireLock
  <1>8. QED
    BY <1>1, <1>2, <1>3, <1>4, <1>5, <1>6, <1>7 DEF Next, TaskStep, vars

\* At most MAX_CONCURRENCY bodies run at once: every one holds a permit.
THEOREM Bounded == Spec => []ConcurrencyBounded
  <1>1. Init => PermitInv
    BY FS_EmptySet, MaxConcurrencyAssumption DEF Init, PermitInv
  <1>2. PermitInv /\ [Next]_vars => PermitInv'
    BY PermitStep
  <1>3. IInv /\ PermitInv => ConcurrencyBounded
    <2> SUFFICES ASSUME IInv, PermitInv
                 PROVE  ConcurrencyBounded
      OBVIOUS
    <2>1. Running \subseteq slots
      BY DEF IInv, RunningInv, Running
    <2>2. /\ Cardinality(Running) <= Cardinality(slots)
          /\ IsFiniteSet(Running)
      BY <2>1, FS_Subset DEF PermitInv
    <2>3. Cardinality(Running) \in Nat /\ Cardinality(slots) \in Nat
      BY <2>2, FS_CardinalityType DEF PermitInv
    <2>4. QED
      BY <2>2, <2>3, MaxConcurrencyAssumption DEF PermitInv, ConcurrencyBounded
  <1>4. QED
    BY <1>1, <1>2, <1>3, PlacesInvariant, PTL DEF Spec
-----------------------------------------------------------------------------
(* What a job did and what is reported of it.                              *)

\* Every step keeps NeverStoppedMidway: a body ends by itself with its last
\* unit, or earlier when it looks at cancel_requested and is asked to stop.
LEMMA MidwayStep ==
    ASSUME IInv, NeverStoppedMidway, [Next]_vars
    PROVE  NeverStoppedMidway'
  <1> USE DEF IInv, TypeOK, NeverStoppedMidway
  <1>1. ASSUME NEW j \in Jobs, NEW r \in Resources \cup {NoResource},
               NEW b \in Bodies, submit(j, r, b)
        PROVE  NeverStoppedMidway'
    BY <1>1 DEF submit
  <1>2. ASSUME NEW j \in Jobs, request_cancel(j) \/ BodyStep(j)
        PROVE  NeverStoppedMidway'
    BY <1>2 DEF request_cancel, BodyStep
  <1>3. ASSUME NEW j \in Jobs, AcquireSlot(j)
        PROVE  NeverStoppedMidway'
    BY <1>3 DEF AcquireSlot, Begin
  <1>4. ASSUME NEW j \in Jobs, BodyReturns(j)
        PROVE  NeverStoppedMidway'
    BY <1>4 DEF BodyReturns, Finish, Outcome, Stops
  <1>5. ASSUME NEW j \in Jobs, BodyRaises(j)
        PROVE  NeverStoppedMidway'
    BY <1>5 DEF BodyRaises, Finish
  <1>6. ASSUME NEW r \in Resources, AcquireLock(r)
        PROVE  NeverStoppedMidway'
    BY <1>6, TailFacts DEF AcquireLock, Begin
  <1>7. ASSUME Restart
        PROVE  NeverStoppedMidway'
    BY <1>7 DEF Restart
  <1>8. CASE UNCHANGED vars
    BY <1>8 DEF vars
  <1>9. QED
    BY <1>1, <1>2, <1>3, <1>4, <1>5, <1>6, <1>7, <1>8 DEF Next, TaskStep

\* "never mid-mkfs": a job reported as done, and any body that does not look
\* at cancel_requested, did all its work.
THEOREM WorkIsDone == Spec => []NeverStoppedMidway
  <1>1. Init => NeverStoppedMidway
    BY DEF Init, NeverStoppedMidway
  <1>2. IInv /\ NeverStoppedMidway /\ [Next]_vars => NeverStoppedMidway'
    BY MidwayStep
  <1>3. QED
    BY <1>1, <1>2, PlacesInvariant, PTL DEF Spec

\* A job that has not ended has its handle.
HandleInv == \A j \in Jobs : status[j] \in {"queued", "running"} => j \in handles

LEMMA HandleStep ==
    ASSUME IInv, HandleInv, [Next]_vars
    PROVE  HandleInv'
  <1> USE DEF HandleInv
  <1>0. status \in [Jobs -> Statuses] /\ handles \in SUBSET Jobs
    BY DEF IInv, TypeOK
  <1>1. ASSUME NEW j \in Jobs, NEW r \in Resources \cup {NoResource},
               NEW b \in Bodies, submit(j, r, b)
        PROVE  HandleInv'
    BY <1>0, <1>1 DEF submit
  <1>2. ASSUME NEW j \in Jobs, request_cancel(j) \/ BodyStep(j)
        PROVE  HandleInv'
    BY <1>2 DEF request_cancel, BodyStep
  <1>3. ASSUME NEW j \in Jobs, status[j] = "queued", Begin(j), UNCHANGED handles
        PROVE  HandleInv'
    BY <1>0, <1>3 DEF Begin
  <1>4. ASSUME NEW j \in Jobs, AcquireSlot(j)
        PROVE  HandleInv'
    <2>1. status[j] = "queued" /\ UNCHANGED handles
      BY <1>4, TailFacts DEF AcquireSlot, IInv, TypeOK, SemQueueInv
    <2>2. CASE UNCHANGED <<status, event>>
      BY <2>1, <2>2
    <2>3. CASE Begin(j)
      BY <1>3, <2>1, <2>3
    <2>4. QED
      BY <1>4, <2>2, <2>3 DEF AcquireSlot
  <1>5. ASSUME NEW j \in Jobs, BodyReturns(j) \/ BodyRaises(j)
        PROVE  HandleInv'
    <2>1. PICK s \in Terminal : Finish(j, s)
      BY <1>5 DEF BodyReturns, BodyRaises, Outcome, Terminal
    <2>2. status' = [status EXCEPT ![j] = s] /\ handles \ {j} \subseteq handles'
      BY <2>1 DEF Finish
    <2>3. QED
      BY <1>0, <2>2 DEF Terminal
  <1>7. ASSUME NEW r \in Resources, AcquireLock(r)
        PROVE  HandleInv'
    <2>1. Head(lockQueue[r]) \in Jobs /\ status[Head(lockQueue[r])] = "queued"
      BY <1>7, TailFacts DEF AcquireLock, IInv, TypeOK, LockQueueInv
    <2>2. QED
      BY <1>3, <1>7, <2>1 DEF AcquireLock
  <1>8. ASSUME Restart
        PROVE  HandleInv'
    BY <1>8 DEF Restart
  <1>9. CASE UNCHANGED vars
    BY <1>9 DEF vars
  <1>10. QED
    BY <1>1, <1>2, <1>4, <1>5, <1>7, <1>8, <1>9 DEF Next, TaskStep

\* Every step keeps OutcomeReported: a task logs and publishes its outcome in
\* one step, and only tasks that never did so run.
LEMMA ReportStep ==
    ASSUME IInv, HandleInv, OutcomeReported, [Next]_vars
    PROVE  OutcomeReported'
  <1> USE DEF OutcomeReported, Terminal
  <1>0. /\ status \in [Jobs -> Statuses] /\ event \in [Jobs -> Statuses]
        /\ log \in [Jobs -> Seq(Terminal)] /\ handles \in SUBSET Jobs
    BY DEF IInv, TypeOK
  <1>1. ASSUME NEW j \in Jobs, NEW r \in Resources \cup {NoResource},
               NEW b \in Bodies, submit(j, r, b)
        PROVE  OutcomeReported'
    BY <1>0, <1>1 DEF submit
  <1>2. ASSUME NEW j \in Jobs, request_cancel(j) \/ BodyStep(j)
        PROVE  OutcomeReported'
    BY <1>2 DEF request_cancel, BodyStep
  <1>3. ASSUME NEW j \in Jobs, status[j] = "queued", Begin(j), UNCHANGED <<log, handles>>
        PROVE  OutcomeReported'
    BY <1>0, <1>3 DEF Begin
  <1>4. ASSUME NEW j \in Jobs, AcquireSlot(j)
        PROVE  OutcomeReported'
    <2>1. status[j] = "queued" /\ UNCHANGED <<log, handles>>
      BY <1>4, TailFacts DEF AcquireSlot, IInv, TypeOK, SemQueueInv
    <2>2. CASE UNCHANGED <<status, event>>
      BY <2>1, <2>2
    <2>3. CASE Begin(j)
      BY <1>3, <2>1, <2>3
    <2>4. QED
      BY <1>4, <2>2, <2>3 DEF AcquireSlot
  <1>5. ASSUME NEW j \in Jobs, NEW s \in Terminal, status[j] = "running", Finish(j, s)
        PROVE  OutcomeReported'
    <2>1. log[j] = <<>>
      BY <1>0, <1>5
    <2>2. /\ log'[j] = IF j \in handles' THEN <<>> ELSE <<s>>
          /\ status'[j] = s /\ event'[j] = s
      BY <1>0, <1>5, <2>1 DEF Finish, Logged, HandleInv
    <2>3. \A k \in Jobs : k # j => /\ log'[k] = log[k] /\ status'[k] = status[k]
                                   /\ event'[k] = event[k]
                                   /\ k \in handles' <=> k \in handles
      BY <1>0, <1>5 DEF Finish, Logged
    <2>4. QED
      BY <1>0, <2>2, <2>3
  <1>6. ASSUME NEW j \in Jobs, BodyReturns(j) \/ BodyRaises(j)
        PROVE  OutcomeReported'
    BY <1>5, <1>6 DEF BodyReturns, BodyRaises, Outcome
  <1>7. ASSUME NEW r \in Resources, AcquireLock(r)
        PROVE  OutcomeReported'
    <2>1. Head(lockQueue[r]) \in Jobs /\ status[Head(lockQueue[r])] = "queued"
      BY <1>7, TailFacts DEF AcquireLock, IInv, TypeOK, LockQueueInv
    <2>2. QED
      BY <1>3, <1>7, <2>1 DEF AcquireLock
  <1>8. ASSUME Restart
        PROVE  OutcomeReported'
    BY <1>0, <1>8 DEF Restart
  <1>9. CASE UNCHANGED vars
    BY <1>9 DEF vars
  <1>10. QED
    BY <1>1, <1>2, <1>4, <1>6, <1>7, <1>8, <1>9 DEF Next, TaskStep

\* jobs.jsonl, the record and the event feed never tell different outcomes,
\* and a job without a line is one whose _append_result raised, for any number
\* of restarts and of appends that raise.
THEOREM ReportedOnce == Spec => []OutcomeReported
  <1>1. Init => HandleInv /\ OutcomeReported
    BY DEF Init, HandleInv, OutcomeReported, Terminal
  <1>2. IInv /\ HandleInv /\ OutcomeReported /\ [Next]_vars => HandleInv' /\ OutcomeReported'
    BY HandleStep, ReportStep
  <1>3. QED
    BY <1>1, <1>2, PlacesInvariant, PTL DEF Spec
-----------------------------------------------------------------------------
(* The runner implements JobService: why jobs on one resource start in the  *)
(* order they were submitted.                                               *)

\* In the records js, job i was submitted before job j.
Before(js, i, j) ==
    \E m, n \in 1..Len(js) : m < n /\ js[m] = i /\ js[n] = j

\* self._jobs has every job that waits or runs, and each job once.
RecordInv ==
    /\ \A n \in 1..Len(jobs) : status[jobs[n]] \notin {"new", "lost"}
    /\ \A m, n \in 1..Len(jobs) : jobs[m] = jobs[n] => m = n
    /\ \A j \in Jobs : status[j] \in {"queued", "running"} =>
         \E n \in 1..Len(jobs) : jobs[n] = j

\* A job that waits is in the semaphore's queue or in that of a lock.
WaitingInv ==
    \A j \in Jobs : status[j] = "queued" =>
        \/ \E n \in 1..Len(semQueue) : semQueue[n] = j
        \/ \E r \in Resources : \E n \in 1..Len(lockQueue[r]) : lockQueue[r][n] = j

\* Both kinds of queue are in the order of submission, and a task that has a
\* permit was submitted before every task that waits for one.
OrderInv ==
    /\ \A m, n \in 1..Len(semQueue) : m < n => Before(jobs, semQueue[m], semQueue[n])
    /\ \A r \in Resources : \A m, n \in 1..Len(lockQueue[r]) :
         m < n => Before(jobs, lockQueue[r][m], lockQueue[r][n])
    /\ \A j \in slots : \A n \in 1..Len(semQueue) : Before(jobs, j, semQueue[n])

\* The inductive invariant of the refinement.
FifoInv == RecordInv /\ WaitingInv /\ OrderInv
\* The order of two jobs stays while no restart comes.
LEMMA BeforeKept ==
    ASSUME NEW js \in Seq(Jobs), NEW i, NEW j, NEW k \in Jobs, Before(js, i, j)
    PROVE  Before(Append(js, k), i, j)
  <1>1. PICK m \in 1..Len(js), n \in 1..Len(js) : m < n /\ js[m] = i /\ js[n] = j
    BY DEF Before
  <1>2. /\ m \in 1..Len(Append(js, k)) /\ n \in 1..Len(Append(js, k))
        /\ Append(js, k)[m] = i /\ Append(js, k)[n] = j
    BY <1>1, AppendFacts
  <1>3. QED
    BY <1>1, <1>2 DEF Before

\* submit puts the new job behind all others, in the records and in the
\* semaphore's queue.
LEMMA SubmitFifo ==
    ASSUME IInv, FifoInv, NEW j \in Jobs, NEW r \in Resources \cup {NoResource},
           NEW b \in Bodies, submit(j, r, b)
    PROVE  FifoInv'
  <1>1. /\ status[j] = "new"
        /\ status' = [status EXCEPT ![j] = "queued"]
        /\ jobs' = Append(jobs, j)
        /\ semQueue' = Append(semQueue, j)
        /\ UNCHANGED <<slots, lockQueue>>
    BY DEF submit, lockVars
  <1>2. /\ status \in [Jobs -> Statuses] /\ slots \subseteq Jobs
        /\ \A n \in 1..Len(jobs) : jobs[n] \in Jobs
        /\ \A n \in 1..Len(semQueue) : semQueue[n] \in Jobs
        /\ Len(jobs) \in Nat /\ Len(semQueue) \in Nat
    BY DEF IInv, TypeOK
  <1>3. /\ Len(jobs') = Len(jobs) + 1 /\ jobs'[Len(jobs) + 1] = j
        /\ \A n \in 1..Len(jobs) : jobs'[n] = jobs[n]
    BY <1>1, AppendFacts DEF IInv, TypeOK
  <1>4. /\ Len(semQueue') = Len(semQueue) + 1 /\ semQueue'[Len(semQueue) + 1] = j
        /\ \A n \in 1..Len(semQueue) : semQueue'[n] = semQueue[n]
    BY <1>1, AppendFacts DEF IInv, TypeOK
  <1>5. \A n \in 1..Len(jobs) : jobs[n] # j
    BY <1>1 DEF FifoInv, RecordInv
  <1>6. RecordInv'
    <2>1. \A n \in 1..Len(jobs') : status'[jobs'[n]] \notin {"new", "lost"}
      BY <1>1, <1>2, <1>3, <1>5 DEF FifoInv, RecordInv
    <2>2. \A m, n \in 1..Len(jobs') : jobs'[m] = jobs'[n] => m = n
      BY <1>2, <1>3, <1>5 DEF FifoInv, RecordInv
    <2>3. \A k \in Jobs : status'[k] \in {"queued", "running"} =>
            \E n \in 1..Len(jobs') : jobs'[n] = k
      <3> SUFFICES ASSUME NEW k \in Jobs, status'[k] \in {"queued", "running"}
                   PROVE  \E n \in 1..Len(jobs') : jobs'[n] = k
        OBVIOUS
      <3>1. CASE k = j
        BY <1>2, <1>3, <3>1
      <3>2. CASE k # j
        <4>1. PICK n \in 1..Len(jobs) : jobs[n] = k
          BY <1>1, <1>2, <3>2 DEF FifoInv, RecordInv
        <4>2. n \in 1..Len(jobs') /\ jobs'[n] = k
          BY <1>2, <1>3, <4>1
        <4>3. QED
          BY <4>2
      <3>3. QED
        BY <3>1, <3>2
    <2>4. QED
      BY <2>1, <2>2, <2>3 DEF RecordInv
  <1>7. WaitingInv'
    <2> SUFFICES ASSUME NEW k \in Jobs, status'[k] = "queued",
                        ~ \E q \in Resources : \E n \in 1..Len(lockQueue'[q]) :
                            lockQueue'[q][n] = k
                 PROVE  \E n \in 1..Len(semQueue') : semQueue'[n] = k
      BY DEF WaitingInv
    <2>1. CASE k = j
      BY <1>2, <1>4, <2>1
    <2>2. CASE k # j
      <3>1. PICK n \in 1..Len(semQueue) : semQueue[n] = k
        BY <1>1, <1>2, <2>2 DEF FifoInv, WaitingInv
      <3>2. n \in 1..Len(semQueue') /\ semQueue'[n] = k
        BY <1>2, <1>4, <3>1
      <3>3. QED
        BY <3>2
    <2>3. QED
      BY <2>1, <2>2
  <1>8. ASSUME NEW k \in Jobs, status[k] \in {"queued", "running"}
        PROVE  Before(jobs', k, j)
    <2>1. PICK n \in 1..Len(jobs) : jobs[n] = k
      BY <1>8 DEF FifoInv, RecordInv
    <2>2. /\ n \in 1..Len(jobs') /\ jobs'[n] = k /\ n < Len(jobs) + 1
          /\ Len(jobs) + 1 \in 1..Len(jobs')
      BY <1>2, <1>3, <2>1
    <2>3. QED
      BY <1>3, <2>2 DEF Before
  <1>9. \A k, l : Before(jobs, k, l) => Before(jobs', k, l)
    BY <1>1, BeforeKept DEF IInv, TypeOK
  <1>10. OrderInv'
    <2>1. \A m, n \in 1..Len(semQueue') :
            m < n => Before(jobs', semQueue'[m], semQueue'[n])
      <3> SUFFICES ASSUME NEW m \in 1..Len(semQueue'), NEW n \in 1..Len(semQueue'), m < n
                   PROVE  Before(jobs', semQueue'[m], semQueue'[n])
        OBVIOUS
      <3>1. m \in 1..Len(semQueue) /\ semQueue'[m] = semQueue[m]
        BY <1>2, <1>4
      <3>2. CASE n \in 1..Len(semQueue)
        BY <1>4, <1>9, <3>1, <3>2 DEF FifoInv, OrderInv
      <3>3. CASE n = Len(semQueue) + 1
        <4>1. semQueue[m] \in Jobs /\ status[semQueue[m]] = "queued"
          BY <1>2, <3>1 DEF IInv, SemQueueInv
        <4>2. QED
          BY <1>4, <1>8, <3>1, <3>3, <4>1
      <3>4. QED
        BY <1>2, <1>4, <3>2, <3>3
    <2>2. \A q \in Resources : \A m, n \in 1..Len(lockQueue'[q]) :
            m < n => Before(jobs', lockQueue'[q][m], lockQueue'[q][n])
      BY <1>1, <1>9 DEF FifoInv, OrderInv
    <2>3. \A k \in slots' : \A n \in 1..Len(semQueue') : Before(jobs', k, semQueue'[n])
      <3> SUFFICES ASSUME NEW k \in slots, NEW n \in 1..Len(semQueue')
                   PROVE  Before(jobs', k, semQueue'[n])
        BY <1>1
      <3>1. CASE n \in 1..Len(semQueue)
        BY <1>4, <1>9, <3>1 DEF FifoInv, OrderInv
      <3>2. CASE n = Len(semQueue) + 1
        BY <1>2, <1>4, <1>8, <3>2 DEF IInv, RunningInv
      <3>3. QED
        BY <1>2, <1>4, <3>1, <3>2
    <2>4. QED
      BY <2>1, <2>2, <2>3 DEF OrderInv
  <1>11. QED
    BY <1>6, <1>7, <1>10 DEF FifoInv
\* A task that gets a permit was first in the semaphore's queue, so it comes
\* behind all others that have one, and last in the queue of its lock.
LEMMA SlotFifo ==
    ASSUME IInv, FifoInv, NEW j \in Jobs, AcquireSlot(j)
    PROVE  FifoInv'
  <1>1. /\ j = semQueue[1] /\ 1 \in 1..Len(semQueue) /\ status[j] = "queued"
        /\ j \notin slots
        /\ slots' = slots \cup {j} /\ UNCHANGED <<jobs, res>>
    BY TailFacts DEF AcquireSlot, IInv, TypeOK, SemQueueInv
  <1>2. /\ status \in [Jobs -> Statuses]
        /\ lockQueue \in [Resources -> Seq(Jobs)]
        /\ Len(semQueue) \in Nat
        /\ \A n \in 1..Len(jobs) : jobs[n] \in Jobs
        /\ res \in [Jobs -> Resources \cup {NoResource}]
    BY DEF IInv, TypeOK
  <1>3. /\ Len(semQueue') = Len(semQueue) - 1
        /\ \A n \in 1..Len(semQueue') :
             semQueue'[n] = semQueue[n+1] /\ n+1 \in 1..Len(semQueue)
    BY TailFacts DEF AcquireSlot, IInv, TypeOK
  <1>4. /\ \A k \in Jobs : k # j => status'[k] = status[k]
        /\ status'[j] \in {"queued", "running"}
    BY <1>1, <1>2 DEF AcquireSlot, Begin
  <1>5. RecordInv'
    BY <1>1, <1>2, <1>4 DEF FifoInv, RecordInv
  <1>6. \/ UNCHANGED lockQueue /\ status'[j] = "running"
        \/ /\ res[j] \in Resources
           /\ lockQueue' = [lockQueue EXCEPT ![res[j]] = Append(@, j)]
    BY <1>1, <1>2 DEF AcquireSlot, lockVars, Begin
  <1>7. ASSUME res[j] \in Resources,
               lockQueue' = [lockQueue EXCEPT ![res[j]] = Append(@, j)]
        PROVE  /\ \A q \in Resources : q # res[j] => lockQueue'[q] = lockQueue[q]
               /\ Len(lockQueue[res[j]]) \in Nat
               /\ Len(lockQueue'[res[j]]) = Len(lockQueue[res[j]]) + 1
               /\ lockQueue'[res[j]][Len(lockQueue[res[j]]) + 1] = j
               /\ \A n \in 1..Len(lockQueue[res[j]]) :
                    lockQueue'[res[j]][n] = lockQueue[res[j]][n]
    BY <1>2, <1>7, AppendFacts
  <1>8. ASSUME NEW q \in Resources, NEW n \in 1..Len(lockQueue[q])
        PROVE  n \in 1..Len(lockQueue'[q]) /\ lockQueue'[q][n] = lockQueue[q][n]
    BY <1>6, <1>7
  <1>9. WaitingInv'
    <2> SUFFICES ASSUME NEW k \in Jobs, status'[k] = "queued"
                 PROVE  \/ \E n \in 1..Len(semQueue') : semQueue'[n] = k
                        \/ \E q \in Resources : \E n \in 1..Len(lockQueue'[q]) :
                             lockQueue'[q][n] = k
      BY DEF WaitingInv
    <2>1. CASE k = j
      <3>1. /\ res[j] \in Resources
            /\ lockQueue' = [lockQueue EXCEPT ![res[j]] = Append(@, j)]
        BY <1>6, <2>1
      <3>2. Len(lockQueue[res[j]]) + 1 \in 1..Len(lockQueue'[res[j]])
        BY <1>7, <3>1
      <3>3. QED
        BY <1>7, <2>1, <3>1, <3>2
    <2>2. CASE k # j
      <3>1. status[k] = "queued"
        BY <1>4, <2>2
      <3>2. CASE \E n \in 1..Len(semQueue) : semQueue[n] = k
        <4>1. PICK n \in 1..Len(semQueue) : semQueue[n] = k
          BY <3>2
        <4>2. n - 1 \in 1..Len(semQueue')
          BY <1>1, <1>2, <1>3, <2>2, <4>1
        <4>3. semQueue'[n-1] = k
          BY <1>3, <4>1, <4>2
        <4>4. QED
          BY <4>2, <4>3
      <3>3. CASE \E q \in Resources : \E n \in 1..Len(lockQueue[q]) : lockQueue[q][n] = k
        BY <1>8, <3>3
      <3>4. QED
        BY <3>1, <3>2, <3>3 DEF FifoInv, WaitingInv
    <2>3. QED
      BY <2>1, <2>2
  <1>10. OrderInv'
    <2>1. \A m, n \in 1..Len(semQueue') :
            m < n => Before(jobs', semQueue'[m], semQueue'[n])
      BY <1>1, <1>2, <1>3 DEF FifoInv, OrderInv
    <2>2. \A k \in slots' : \A n \in 1..Len(semQueue') : Before(jobs', k, semQueue'[n])
      <3> SUFFICES ASSUME NEW k \in slots', NEW n \in 1..Len(semQueue')
                   PROVE  Before(jobs, k, semQueue[n+1])
        BY <1>1, <1>3
      <3>1. n+1 \in 1..Len(semQueue) /\ 1 < n+1
        BY <1>3
      <3>2. QED
        BY <1>1, <3>1 DEF FifoInv, OrderInv
    <2>3. ASSUME NEW q \in Resources, NEW m \in 1..Len(lockQueue'[q]),
                 NEW n \in 1..Len(lockQueue'[q]), m < n
          PROVE  Before(jobs, lockQueue'[q][m], lockQueue'[q][n])
      <3>1. CASE lockQueue'[q] = lockQueue[q]
        BY <2>3, <3>1 DEF FifoInv, OrderInv
      <3>2. CASE lockQueue'[q] # lockQueue[q]
        <4>1. /\ q = res[j] /\ Len(lockQueue[q]) \in Nat
              /\ Len(lockQueue'[q]) = Len(lockQueue[q]) + 1
              /\ lockQueue'[q][Len(lockQueue[q]) + 1] = j
              /\ \A l \in 1..Len(lockQueue[q]) : lockQueue'[q][l] = lockQueue[q][l]
          BY <1>6, <1>7, <3>2
        <4>2. m \in 1..Len(lockQueue[q])
          BY <2>3, <4>1
        <4>3. CASE n \in 1..Len(lockQueue[q])
          BY <2>3, <4>1, <4>2, <4>3 DEF FifoInv, OrderInv
        <4>4. CASE n = Len(lockQueue[q]) + 1
          <5>1. lockQueue[q][m] \in slots
            BY <4>2 DEF IInv, LockQueueInv
          <5>2. Before(jobs, lockQueue[q][m], j)
            BY <1>1, <5>1 DEF FifoInv, OrderInv
          <5>3. QED
            BY <4>1, <4>2, <4>4, <5>2
        <4>5. QED
          BY <4>1, <4>3, <4>4
      <3>3. QED
        BY <3>1, <3>2
    <2>4. QED
      BY <1>1, <2>1, <2>2, <2>3 DEF OrderInv
  <1>11. QED
    BY <1>5, <1>9, <1>10 DEF FifoInv

\* A task that gets the lock leaves the front of the lock's queue.
LEMMA LockFifo ==
    ASSUME IInv, FifoInv, NEW r \in Resources, AcquireLock(r)
    PROVE  FifoInv'
  <1> DEFINE j == Head(lockQueue[r])
  <1>1. /\ lockQueue \in [Resources -> Seq(Jobs)] /\ status \in [Jobs -> Statuses]
        /\ Len(lockQueue[r]) \in Nat
        /\ \A n \in 1..Len(jobs) : jobs[n] \in Jobs
    BY DEF IInv, TypeOK
  <1>2. /\ j \in Jobs /\ j = lockQueue[r][1] /\ 1 \in 1..Len(lockQueue[r])
        /\ Len(Tail(lockQueue[r])) = Len(lockQueue[r]) - 1
        /\ \A n \in 1..Len(Tail(lockQueue[r])) :
             Tail(lockQueue[r])[n] = lockQueue[r][n+1] /\ n+1 \in 1..Len(lockQueue[r])
    BY <1>1, TailFacts DEF AcquireLock
  <1>3. /\ UNCHANGED <<jobs, semQueue, slots>>
        /\ status' = [status EXCEPT ![j] = "running"]
        /\ lockQueue'[r] = Tail(lockQueue[r])
        /\ \A q \in Resources : q # r => lockQueue'[q] = lockQueue[q]
    BY <1>1 DEF AcquireLock, Begin
  <1> HIDE DEF j
  <1>4. status[j] = "queued"
    BY <1>2 DEF IInv, LockQueueInv
  <1>5. RecordInv'
    BY <1>1, <1>2, <1>3, <1>4 DEF FifoInv, RecordInv
  <1>6. WaitingInv'
    <2> SUFFICES ASSUME NEW k \in Jobs, status'[k] = "queued",
                        ~ \E n \in 1..Len(semQueue') : semQueue'[n] = k
                 PROVE  \E q \in Resources : \E n \in 1..Len(lockQueue'[q]) :
                          lockQueue'[q][n] = k
      BY DEF WaitingInv
    <2>1. k # j /\ status[k] = "queued"
      BY <1>1, <1>2, <1>3
    <2>2. PICK q \in Resources : \E n \in 1..Len(lockQueue[q]) : lockQueue[q][n] = k
      BY <1>3, <2>1 DEF FifoInv, WaitingInv
    <2>3. PICK n \in 1..Len(lockQueue[q]) : lockQueue[q][n] = k
      BY <2>2
    <2>4. CASE q # r
      BY <1>3, <2>3, <2>4
    <2>5. CASE q = r
      <3>1. n - 1 \in 1..Len(lockQueue'[r])
        BY <1>1, <1>2, <1>3, <2>3, <2>1, <2>5
      <3>2. lockQueue'[r][n-1] = k
        BY <1>2, <1>3, <2>3, <2>5, <3>1
      <3>3. QED
        BY <3>1, <3>2
    <2>6. QED
      BY <2>4, <2>5
  <1>7. OrderInv'
    <2>1. ASSUME NEW q \in Resources, NEW m \in 1..Len(lockQueue'[q]),
                 NEW n \in 1..Len(lockQueue'[q]), m < n
          PROVE  Before(jobs, lockQueue'[q][m], lockQueue'[q][n])
      <3> USE DEF FifoInv, OrderInv
      <3>1. CASE q # r
        BY <1>3, <2>1, <3>1
      <3>2. CASE q = r
        <4>1. m \in 1..Len(Tail(lockQueue[r])) /\ n \in 1..Len(Tail(lockQueue[r]))
          BY <1>3, <3>2
        <4>2. /\ lockQueue'[r][m] = lockQueue[r][m+1] /\ m+1 \in 1..Len(lockQueue[r])
              /\ lockQueue'[r][n] = lockQueue[r][n+1] /\ n+1 \in 1..Len(lockQueue[r])
          BY <1>2, <1>3, <4>1
        <4>3. m+1 < n+1
          BY <2>1, <4>1
        <4>4. QED
          BY <3>2, <4>2, <4>3
      <3>3. QED
        BY <3>1, <3>2
    <2>2. QED
      BY <1>3, <2>1 DEF FifoInv, OrderInv
  <1>8. QED
    BY <1>5, <1>6, <1>7 DEF FifoInv

\* Every step keeps the order of submission.
LEMMA FifoStep ==
    ASSUME IInv, FifoInv, [Next]_vars
    PROVE  FifoInv'
  <1>1. ASSUME NEW j \in Jobs, request_cancel(j) \/ BodyStep(j)
        PROVE  FifoInv'
    <2>1. UNCHANGED <<jobs, status, semQueue, slots, lockQueue>>
      BY <1>1 DEF request_cancel, BodyStep, lockVars
    <2>2. QED
      BY <2>1 DEF FifoInv, RecordInv, WaitingInv, OrderInv
  <1>2. ASSUME NEW j \in Jobs, BodyReturns(j) \/ BodyRaises(j)
        PROVE  FifoInv'
    <2>1. /\ status[j] = "running" /\ slots' = slots \ {j}
          /\ UNCHANGED <<jobs, semQueue, lockQueue>>
      BY <1>2 DEF BodyReturns, BodyRaises, Finish
    <2>2. /\ \A k \in Jobs : k # j => status'[k] = status[k]
          /\ status'[j] \in Terminal
      BY <1>2 DEF BodyReturns, BodyRaises, Finish, Outcome, Terminal, IInv, TypeOK
    <2>3. \A n \in 1..Len(jobs) : jobs[n] \in Jobs
      BY DEF IInv, TypeOK
    <2>4. RecordInv'
      BY <2>1, <2>2, <2>3 DEF FifoInv, RecordInv, Terminal
    <2>5. WaitingInv'
      BY <2>1, <2>2 DEF FifoInv, WaitingInv, Terminal
    <2>6. OrderInv'
      BY <2>1 DEF FifoInv, OrderInv
    <2>7. QED
      BY <2>4, <2>5, <2>6 DEF FifoInv
  <1>3. ASSUME Restart
        PROVE  FifoInv'
    <2>1. /\ jobs' = <<>> /\ semQueue' = <<>> /\ slots' = {}
          /\ \A r \in Resources : lockQueue'[r] = <<>>
          /\ \A j \in Jobs : status'[j] \in {"new", "lost"}
      BY <1>3 DEF Restart
    <2>2. QED
      BY <2>1 DEF FifoInv, RecordInv, WaitingInv, OrderInv
  <1>4. CASE UNCHANGED vars
    BY <1>4 DEF vars, FifoInv, RecordInv, WaitingInv, OrderInv
  <1>5. QED
    BY <1>1, <1>2, <1>3, <1>4, SubmitFifo, SlotFifo, LockFifo DEF Next, TaskStep
\* The phase that a status stands for.
LEMMA PhaseOf ==
    ASSUME TypeOK
    PROVE  /\ phaseOf = [j \in Jobs |-> phaseOf[j]]
           /\ \A j \in Jobs :
                /\ status[j] = "new" <=> phaseOf[j] = "new"
                /\ status[j] = "queued" <=> phaseOf[j] = "waiting"
                /\ status[j] = "running" <=> phaseOf[j] = "active"
                /\ status[j] = "lost" <=> phaseOf[j] = "lost"
                /\ status[j] \in Terminal <=> phaseOf[j] = "ended"
  BY DEF TypeOK, Statuses, Terminal, phaseOf

\* A step that changes the status of one job changes the phase of that job.
LEMMA OnePhase ==
    ASSUME TypeOK, TypeOK', NEW j \in Jobs,
           \A k \in Jobs : k # j => status'[k] = status[k]
    PROVE  phaseOf' = [phaseOf EXCEPT ![j] = phaseOf'[j]]
  <1>1. \A k \in Jobs : k # j => phaseOf'[k] = phaseOf[k]
    BY DEF phaseOf
  <1>2. QED
    BY <1>1, ZenonT(30) DEF phaseOf

\* A job that takes the lock, or needs none, is the oldest of its resource
\* that has not ended.
LEMMA StartIsNext ==
    ASSUME IInv, FifoInv, TypeOK', NEW j \in Jobs, status[j] = "queued",
           status' = [status EXCEPT ![j] = "running"], UNCHANGED <<jobs, res>>,
           res[j] # NoResource =>
             /\ lockHolder[res[j]] = NoJob
             /\ \A i \in Jobs : status[i] = "queued" /\ res[i] = res[j] /\ i # j =>
                  Before(jobs, j, i)
    PROVE  Service!Next
  <1>1. PICK n \in 1..Len(jobs) : jobs[n] = j
    BY DEF FifoInv, RecordInv
  <1>2. /\ status \in [Jobs -> Statuses]
        /\ \A m \in 1..Len(jobs) : jobs[m] \in Jobs
        /\ Len(jobs) \in Nat
    BY DEF IInv, TypeOK
  <1>3. ASSUME NEW m \in 1..(n-1), res[j] # NoResource, res[jobs[m]] = res[j]
        PROVE  phaseOf[jobs[m]] = "ended"
    <2> DEFINE i == jobs[m]
    <2>1. m \in 1..Len(jobs) /\ m < n /\ i \in Jobs
      BY <1>2
    <2>2. i # j
      BY <1>1, <2>1 DEF FifoInv, RecordInv
    <2>3. status[i] # "running"
      BY <1>3, <2>1, NoJobAssumption DEF IInv, RunningInv
    <2>4. status[i] # "queued"
      <3> SUFFICES ASSUME status[i] = "queued"
                   PROVE  FALSE
        OBVIOUS
      <3>1. PICK a \in 1..Len(jobs), b \in 1..Len(jobs) :
              a < b /\ jobs[a] = j /\ jobs[b] = i
        BY <1>3, <2>1, <2>2 DEF Before
      <3>2. a = n /\ b = m
        BY <1>1, <2>1, <3>1 DEF FifoInv, RecordInv
      <3>3. QED
        BY <2>1, <3>1, <3>2
    <2>5. status[i] \notin {"new", "lost"}
      BY <2>1 DEF FifoInv, RecordInv
    <2>6. status[i] \in Terminal
      BY <1>2, <2>1, <2>3, <2>4, <2>5 DEF Statuses, Terminal
    <2>7. QED
      BY <2>1, <2>6, PhaseOf DEF IInv
  <1>4. phaseOf[j] = "waiting" /\ phaseOf' = [phaseOf EXCEPT ![j] = "active"]
    <2>1. status'[j] = "running" /\ \A k \in Jobs : k # j => status'[k] = status[k]
      BY <1>2
    <2>2. phaseOf'[j] = "active"
      BY <2>1 DEF phaseOf
    <2>3. QED
      BY <2>1, <2>2, PhaseOf, OnePhase DEF IInv
  <1>5. Service!Start(n)
    BY <1>1, <1>3, <1>4 DEF Service!Start, Service!MayStart
  <1>6. QED
    BY <1>5 DEF Service!Next

\* Every step of the runner is a step of the service or none.
LEMMA ServiceStep ==
    ASSUME IInv, FifoInv, TypeOK', [Next]_vars
    PROVE  [Service!Next]_(Service!vars)
  <1> USE DEF IInv
  <1>0. /\ status \in [Jobs -> Statuses] /\ res \in [Jobs -> Resources \cup {NoResource}]
        /\ semQueue \in Seq(Jobs) /\ lockQueue \in [Resources -> Seq(Jobs)]
        /\ slots \subseteq Jobs
    BY DEF TypeOK
  <1>1. ASSUME UNCHANGED <<jobs, status, res>>
        PROVE  UNCHANGED Service!vars
    BY <1>1 DEF Service!vars, phaseOf
  <1>2. ASSUME NEW j \in Jobs, NEW r \in Resources \cup {NoResource},
               NEW b \in Bodies, submit(j, r, b)
        PROVE  Service!Next
    <2>1. /\ status[j] = "new" /\ status'[j] = "queued"
          /\ \A k \in Jobs : k # j => status'[k] = status[k]
          /\ jobs' = Append(jobs, j) /\ res' = [res EXCEPT ![j] = r]
      BY <1>0, <1>2 DEF submit
    <2>2. phaseOf[j] = "new" /\ phaseOf'[j] = "waiting"
      BY <2>1 DEF phaseOf
    <2>3. phaseOf' = [phaseOf EXCEPT ![j] = "waiting"]
      BY <2>1, <2>2, OnePhase
    <2>4. Service!Accept(j, r)
      BY <2>1, <2>2, <2>3 DEF Service!Accept
    <2>5. QED
      BY <2>4 DEF Service!Next
  <1>3. ASSUME NEW j \in Jobs, request_cancel(j) \/ BodyStep(j)
        PROVE  UNCHANGED <<jobs, status, res>>
    BY <1>3 DEF request_cancel, BodyStep
  <1>4. ASSUME NEW j \in Jobs, AcquireSlot(j)
        PROVE  Service!Next \/ UNCHANGED <<jobs, status, res>>
    <2>1. /\ j = semQueue[1] /\ 1 \in 1..Len(semQueue) /\ status[j] = "queued"
          /\ UNCHANGED <<jobs, res>>
      BY <1>0, <1>4, TailFacts DEF AcquireSlot, SemQueueInv
    <2>2. CASE UNCHANGED status
      BY <2>1, <2>2
    <2>3. CASE Begin(j) /\ (res[j] # NoResource => LockFree(res[j]))
      <3>1. ASSUME NEW i \in Jobs, res[j] # NoResource, status[i] = "queued",
                   res[i] = res[j], i # j
            PROVE  Before(jobs, j, i)
        <4>1. \A r \in Resources : \A n \in 1..Len(lockQueue[r]) : lockQueue[r][n] # i
          BY <1>0, <2>3, <3>1 DEF LockQueueInv, LockFree
        <4>2. PICK n \in 1..Len(semQueue) : semQueue[n] = i
          BY <3>1, <4>1 DEF FifoInv, WaitingInv
        <4>3. 1 < n
          BY <2>1, <3>1, <4>2
        <4>4. QED
          BY <2>1, <4>2, <4>3 DEF FifoInv, OrderInv
      <3>2. status' = [status EXCEPT ![j] = "running"]
        BY <2>3 DEF Begin
      <3>3. QED
        BY <2>1, <2>3, <3>1, <3>2, StartIsNext DEF LockFree
    <2>4. QED
      BY <1>4, <2>2, <2>3 DEF AcquireSlot
  <1>5. ASSUME NEW r \in Resources, AcquireLock(r)
        PROVE  Service!Next
    <2> DEFINE j == Head(lockQueue[r])
    <2>1. /\ j \in Jobs /\ j = lockQueue[r][1] /\ 1 \in 1..Len(lockQueue[r])
          /\ lockHolder[r] = NoJob /\ UNCHANGED <<jobs, res>>
          /\ status' = [status EXCEPT ![j] = "running"]
      BY <1>0, <1>5, TailFacts DEF AcquireLock, Begin
    <2>2. status[j] = "queued" /\ j \in slots /\ res[j] = r
      BY <2>1 DEF LockQueueInv
    <2>3. ASSUME NEW i \in Jobs, status[i] = "queued", res[i] = r, i # j
          PROVE  Before(jobs, j, i)
      <3>1. CASE \E n \in 1..Len(semQueue) : semQueue[n] = i
        BY <2>2, <3>1 DEF FifoInv, OrderInv
      <3>2. CASE \E q \in Resources : \E n \in 1..Len(lockQueue[q]) : lockQueue[q][n] = i
        <4>1. PICK n \in 1..Len(lockQueue[r]) : lockQueue[r][n] = i
          BY <2>3, <3>2 DEF LockQueueInv
        <4>2. 1 < n
          BY <2>1, <2>3, <4>1
        <4>3. QED
          BY <2>1, <4>1, <4>2 DEF FifoInv, OrderInv
      <3>3. QED
        BY <2>3, <3>1, <3>2 DEF FifoInv, WaitingInv
    <2>4. QED
      BY <2>1, <2>2, <2>3, StartIsNext
  <1>6. ASSUME NEW j \in Jobs, BodyReturns(j) \/ BodyRaises(j)
        PROVE  Service!Next
    <2>1. /\ status[j] = "running" /\ status'[j] \in Terminal
          /\ \A k \in Jobs : k # j => status'[k] = status[k]
          /\ UNCHANGED <<jobs, res>>
      BY <1>0, <1>6 DEF BodyReturns, BodyRaises, Finish, Outcome, Terminal
    <2>2. phaseOf[j] = "active" /\ phaseOf'[j] = "ended"
      BY <2>1 DEF phaseOf, Terminal
    <2>3. phaseOf' = [phaseOf EXCEPT ![j] = "ended"]
      BY <2>1, <2>2, OnePhase
    <2>4. Service!End(j)
      BY <2>1, <2>2, <2>3 DEF Service!End
    <2>5. QED
      BY <2>4 DEF Service!Next
  <1>7. ASSUME Restart
        PROVE  Service!Next
    <2>1. /\ jobs' = <<>> /\ UNCHANGED res
          /\ \A j \in Jobs : status'[j] = IF status[j] = "new" THEN "new" ELSE "lost"
      BY <1>7 DEF Restart
    <2>2. \A j \in Jobs : phaseOf'[j] = IF phaseOf[j] = "new" THEN "new" ELSE "lost"
      BY <2>1, PhaseOf DEF phaseOf
    <2>3. phaseOf' = [j \in Jobs |-> IF phaseOf[j] = "new" THEN "new" ELSE "lost"]
      BY <2>2 DEF phaseOf
    <2>4. Service!Forget
      BY <2>1, <2>3 DEF Service!Forget
    <2>5. QED
      BY <2>4 DEF Service!Next
  <1>8. CASE UNCHANGED vars
    BY <1>1, <1>8 DEF vars
  <1>9. QED
    BY <1>1, <1>2, <1>3, <1>4, <1>5, <1>6, <1>7, <1>8 DEF Next, TaskStep

\* jobs.py runs the jobs of one resource one at a time and in the order they
\* were submitted, and ends each once, whatever the semaphore, the locks,
\* cancellations and restarts do: the runner implements JobService.
THEOREM Refinement == Spec => ImplementsService
  <1>1. Init => FifoInv
    BY DEF Init, FifoInv, RecordInv, WaitingInv, OrderInv
  <1>2. IInv /\ FifoInv /\ [Next]_vars => FifoInv'
    BY FifoStep
  <1>3. Init => Service!Init
    BY DEF Init, Service!Init, phaseOf
  <1>4. IInv /\ IInv' /\ FifoInv /\ [Next]_vars => [Service!Next]_(Service!vars)
    BY ServiceStep DEF IInv
  <1>5. QED
    BY <1>1, <1>2, <1>3, <1>4, PlacesInvariant, PTL
       DEF Spec, ImplementsService, Service!Spec
=============================================================================
