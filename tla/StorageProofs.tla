---------------------------- MODULE StorageProofs ----------------------------
(***************************************************************************)
(* Proofs about the storage manager for any disks, layouts, volumes, plans *)
(* and requests, and any number of restarts and other upsets: no job       *)
(* touches the disks of a volume that is in use, a disk is erased only as  *)
(* it was shown, and what is registered is mounted.                        *)
(*                                                                         *)
(* The jobs run one at a time.  What the running one may rely on depends   *)
(* only on how many of its steps are left: the guard has held since its    *)
(* check, nobody else makes volumes meanwhile, and the last steps find     *)
(* what the earlier ones of the same job have made.                        *)
(*                                                                         *)
(* The second part is about the guard, for trees of any size: what the     *)
(* recursive walk marks.  A recursive function over the tree is shown to   *)
(* exist, and a property of it to hold of every node, by looking at the    *)
(* first or last node for which it would not.                              *)
(***************************************************************************)
EXTENDS Storage, StorageGuard, WellFoundedInduction, TLAPS

\* A call keeps a plan that was made; a request on the wire is a call that
\* no job has been made for; jobs are of calls.
CallInv ==
    /\ \A r \in Requests : requests[r].state # "idle" =>
         requests[r] \in CallRecords /\ plans[requests[r].id] \in PlanRecords
    /\ \A p \in Plans : plans[p] \in PlanRecords => plans[p].disks # <<>>
    /\ \A r \in Requests : requests[r].state # "idle" => PlanOf(r).disks # <<>>
    /\ \A r \in wire : requests[r].state # "idle" /\ job[r].status = "none"
    /\ \A r \in Requests : job[r].status # "none" => requests[r].state # "idle"

\* The queue holds the jobs that have not ended, each once, and only the
\* first of them runs.
QueueInv ==
    /\ \A i \in 1..Len(queue) : job[queue[i]].status \in {"queued", "running"}
    /\ \A i, j \in 1..Len(queue) : queue[i] = queue[j] => i = j
    /\ \A r \in Requests : job[r].status = "running" => queue # <<>> /\ r = Head(queue)

\* Steps of job r that are left, and that are done.
Left(r) == Len(job[r].todo)
Done(r) == Len(build_steps(PlanOf(r))) - Left(r)

\* What is to be done is the rest of what build_steps gave.
TodoInv ==
    \A r \in Requests : job[r].status = "running" =>
        /\ Left(r) <= Len(build_steps(PlanOf(r)))
        /\ \A i \in 1..Left(r) : job[r].todo[i] = build_steps(PlanOf(r))[Done(r) + i]

\* The disks of a running job: they are the ones that were shown, those
\* whose turn has come are erased by it, and they are in nobody's use until
\* the job puts them to use.
DiskInv ==
    \A r \in Requests : job[r].status = "running" =>
        /\ \A d \in DisksOf(r) : Present(d) /\ size[d] = PlanOf(r).shown[d]
        /\ \A i \in 1..Len(PlanOf(r).disks) :
             2 * i - 1 <= Done(r) => erasedBy[PlanOf(r).disks[i]] = r
        /\ Left(r) >= 10 => \A d \in DisksOf(r) : use[d] = "blank"
        /\ Left(r) >= 7 => \A d \in DisksOf(r), v \in lvs : d \notin vgs[v]

\* The volume of a running job: it is the job's own from vgcreate on, exists
\* from lvcreate on and is mounted by its last step.
MakingInv ==
    \A r \in Requests : job[r].status = "running" =>
        /\ Left(r) <= 7 => vgs[PlanOf(r).vol] = DisksOf(r)
        /\ Left(r) <= 6 => PlanOf(r).vol \in lvs
        /\ Left(r) \in 1..7 => mounted[PlanOf(r).vol] = NoRequest
        /\ Left(r) = 0 => mounted[PlanOf(r).vol] = r

\* A volume has disks, and only a volume is mounted.
VolumeInv ==
    /\ \A v \in lvs : vgs[v] # {}
    /\ \A v \in Volumes : mounted[v] # NoRequest => v \in lvs

\* An event of success is about a volume that the job mounted.
EventInv ==
    \A i \in 1..Len(feed) : feed[i].status = "done" =>
        /\ mounted[feed[i].vol] # NoRequest
        /\ job[mounted[feed[i].vol]].status = "done"

\* The inductive invariant.
IInv ==
    /\ TypeOK /\ CallInv /\ QueueInv /\ TodoInv /\ DiskInv /\ MakingInv /\ VolumeInv
    /\ VolumeIntact
-----------------------------------------------------------------------------
(* The steps of a plan.                                                     *)

\* What the elements of todo are.
Steps == {<<o>> : o \in Operations} \cup (Operations \X Disks)

\* The place of each operation after the partitions.
LEMMA VolumeStepsFacts ==
    /\ Len(VolumeSteps) = 10
    /\ \A i \in 1..10 :
         /\ VolumeSteps[i] \in Operations
         /\ VolumeSteps[i] \notin {"wipefs", "mkpart"}
         /\ VolumeSteps[i] = "mdadm" => i = 1
         /\ VolumeSteps[i] = "vgcreate" => i = 3
         /\ VolumeSteps[i] = "lvcreate" => i = 4
         /\ VolumeSteps[i] = "enable_start_unit" => i = 10
         /\ VolumeSteps[i] \notin {"vgcreate", "lvcreate", "enable_start_unit"} =>
              i \notin {3, 4, 10}
         /\ VolumeSteps[i] # "mdadm" => i # 1
  <1>1. Len(VolumeSteps) = 10
    BY DEF VolumeSteps
  <1>2. \A i \in 1..10 : VolumeSteps[i] \in Operations
    BY <1>1 DEF Operations
  <1>3. /\ VolumeSteps[1] = "mdadm" /\ VolumeSteps[2] = "pvcreate"
        /\ VolumeSteps[3] = "vgcreate" /\ VolumeSteps[4] = "lvcreate"
        /\ VolumeSteps[5] = "mkfs" /\ VolumeSteps[6] = "write_mount_unit"
        /\ VolumeSteps[7] = "write_target" /\ VolumeSteps[8] = "write_dropins"
        /\ VolumeSteps[9] = "daemon_reload" /\ VolumeSteps[10] = "enable_start_unit"
    BY DEF VolumeSteps
  <1>4. \A i \in 1..10 : i \in {1, 2, 3, 4, 5, 6, 7, 8, 9, 10}
    OBVIOUS
  <1>5. QED
    BY <1>1, <1>2, <1>3, <1>4

\* How many steps are about one disk, and which of VolumeSteps comes first.
Partition(plan) == 2 * Len(plan.disks)
Skipped(plan) == IF plan.level = "basic" THEN 1 ELSE 0

\* What is in a sequence over a set is in the set.
LEMMA ElementFacts ==
    ASSUME NEW S, NEW q \in Seq(S)
    PROVE  \A n \in 1..Len(q) : q[n] \in S
  OBVIOUS

LEMMA EmptyFacts == \A S : <<>> \in Seq(S)
  OBVIOUS

\* What is at the two ends of a sequence that is not empty.
LEMMA EndsFacts ==
    ASSUME NEW S, NEW q \in Seq(S), q # <<>>
    PROVE  /\ Head(q) \in S /\ Head(q) = q[1] /\ Len(q) \in Nat /\ Len(q) >= 1
           /\ Tail(q) \in Seq(S) /\ Len(Tail(q)) = Len(q) - 1
           /\ \A n \in 1..Len(Tail(q)) : Tail(q)[n] = q[n + 1]
  OBVIOUS

\* What build_steps gives: two steps per disk, then those of the volume.
LEMMA BuildFacts ==
    ASSUME NEW plan \in PlanRecords
    PROVE  /\ build_steps(plan) \in Seq(Steps)
           /\ Partition(plan) \in Nat /\ Skipped(plan) \in {0, 1}
           /\ Len(build_steps(plan)) = Partition(plan) + 10 - Skipped(plan)
           /\ \A i \in 1..Len(build_steps(plan)) :
                /\ i > Partition(plan) =>
                     /\ i - Partition(plan) + Skipped(plan) \in 1..10
                     /\ build_steps(plan)[i] =
                          <<VolumeSteps[i - Partition(plan) + Skipped(plan)]>>
                /\ i <= Partition(plan) =>
                     /\ (i + 1) \div 2 \in 1..Len(plan.disks)
                     /\ build_steps(plan)[i][1] = (IF i % 2 = 1 THEN "wipefs" ELSE "mkpart")
                     /\ build_steps(plan)[i][2] = plan.disks[(i + 1) \div 2]
  <1> DEFINE s == build_steps(plan)
             p == Partition(plan)
             m == Skipped(plan)
  <1>1. Len(plan.disks) \in Nat /\ p \in Nat /\ m \in {0, 1} /\ plan.disks \in Seq(Disks)
    BY DEF PlanRecords, Partition, Skipped
  <1>2. s = [i \in 1..(p + 10 - m) |->
               IF i > p THEN <<VolumeSteps[i - p + m]>>
               ELSE <<IF i % 2 = 1 THEN "wipefs" ELSE "mkpart", plan.disks[(i + 1) \div 2]>>]
    BY VolumeStepsFacts DEF build_steps, Partition, Skipped
  <1> HIDE DEF s, p, m
  <1>3. ASSUME NEW i \in 1..(p + 10 - m), i > p
        PROVE  s[i] = <<VolumeSteps[i - p + m]>> /\ i - p + m \in 1..10
    <2>1. s[i] = <<VolumeSteps[i - p + m]>>
      BY <1>2, <1>3
    <2>2. i - p + m \in 1..10
      BY <1>1, <1>3
    <2>3. QED
      BY <2>1, <2>2
  <1>4. ASSUME NEW i \in 1..(p + 10 - m), i <= p
        PROVE  /\ s[i] = <<IF i % 2 = 1 THEN "wipefs" ELSE "mkpart", plan.disks[(i + 1) \div 2]>>
               /\ (i + 1) \div 2 \in 1..Len(plan.disks)
    <2>1. s[i] = <<IF i % 2 = 1 THEN "wipefs" ELSE "mkpart", plan.disks[(i + 1) \div 2]>>
      BY <1>1, <1>2, <1>4
    <2>2. (i + 1) \div 2 \in 1..Len(plan.disks)
      BY <1>1, <1>4 DEF p, Partition
    <2>3. QED
      BY <2>1, <2>2
  <1>5. \A i \in 1..(p + 10 - m) : s[i] \in Steps
    <2>1. SUFFICES ASSUME NEW i \in 1..(p + 10 - m)
                   PROVE  s[i] \in Steps
      OBVIOUS
    <2>2. CASE i > p
      BY <1>3, <2>2, VolumeStepsFacts DEF Steps
    <2>3. CASE i <= p
      <3>1. plan.disks[(i + 1) \div 2] \in Disks
        BY <1>1, <1>4, <2>3, ElementFacts
      <3>2. {"wipefs", "mkpart"} \subseteq Operations
        BY DEF Operations
      <3>3. PICK o \in Operations, d \in Disks : s[i] = <<o, d>>
        BY <1>4, <2>3, <3>1, <3>2
      <3>4. QED
        BY <3>3 DEF Steps
    <2>4. QED
      BY <1>1, <2>2, <2>3
  <1>6. s \in Seq(Steps) /\ Len(s) = p + 10 - m
    <2>1. p + 10 - m \in Nat
      BY <1>1
    <2>2. s \in [1..(p + 10 - m) -> Steps]
      BY <1>2, <1>5
    <2>3. QED
      BY <2>1, <2>2
  <1>7. ASSUME NEW i \in 1..(p + 10 - m), i <= p
        PROVE  /\ s[i][1] = (IF i % 2 = 1 THEN "wipefs" ELSE "mkpart")
               /\ s[i][2] = plan.disks[(i + 1) \div 2]
    BY <1>4, <1>7
  <1>8. QED
    BY <1>1, <1>3, <1>4, <1>6, <1>7 DEF s, p, m
\* A layout that passes the check names at least one disk.
LEMMA LayoutFacts ==
    ASSUME NEW l \in Layouts, ValidLayout(l)
    PROVE  /\ l.level \in Levels /\ l.disks \in Seq(Disks)
           /\ l.disks # <<>>
           /\ Range(l.disks) \subseteq Disks
  <1>1. l.level \in Levels /\ l.disks \in Seq(Disks)
    BY LayoutsAssumption
  <1>2. MinDisks[l.level] \in {1, 2, 3, 4}
    BY <1>1 DEF MinDisks
  <1>3. Len(l.disks) >= 1
    BY <1>1, <1>2 DEF ValidLayout
  <1>4. Range(l.disks) \subseteq Disks
    BY <1>1, ElementFacts DEF Range
  <1>5. QED
    BY <1>1, <1>3, <1>4

\* What the disks of a plan are.
LEMMA DisksFacts ==
    ASSUME NEW plan \in PlanRecords
    PROVE  /\ plan.vol \in Volumes /\ plan.disks \in Seq(Disks)
           /\ Range(plan.disks) \subseteq Disks
           /\ \A i \in 1..Len(plan.disks) : plan.disks[i] \in Range(plan.disks)
           /\ \A d \in Range(plan.disks) : \E i \in 1..Len(plan.disks) : d = plan.disks[i]
           /\ plan.disks # <<>> => Range(plan.disks) # {}
  <1>1. plan.vol \in Volumes /\ plan.disks \in Seq(Disks)
    BY DEF PlanRecords
  <1>2. Range(plan.disks) \subseteq Disks
    BY <1>1, ElementFacts DEF Range
  <1>3. \A i \in 1..Len(plan.disks) : plan.disks[i] \in Range(plan.disks)
    BY <1>1 DEF Range
  <1>4. \A d \in Range(plan.disks) : \E i \in 1..Len(plan.disks) : d = plan.disks[i]
    BY <1>1 DEF Range
  <1>5. plan.disks # <<>> => 1 \in 1..Len(plan.disks)
    BY <1>1
  <1>6. QED
    BY <1>1, <1>2, <1>3, <1>4, <1>5

\* The next step of the running job, by how many are left.
LEMMA StepFacts ==
    ASSUME TypeOK, CallInv, TodoInv, NEW r \in Requests,
           job[r].status = "running", job[r].todo # <<>>
    PROVE  /\ PlanOf(r) \in PlanRecords
           /\ Left(r) \in Nat /\ Done(r) \in Nat /\ Left(r) >= 1
           /\ Head(job[r].todo)[1] = "wipefs" =>
                /\ Left(r) >= 11
                /\ \E i \in 1..Len(PlanOf(r).disks) :
                     Head(job[r].todo)[2] = PlanOf(r).disks[i] /\ 2 * i - 1 = Done(r) + 1
           /\ Head(job[r].todo)[1] # "wipefs" =>
                \A i \in 1..Len(PlanOf(r).disks) : 2 * i - 1 # Done(r) + 1
           /\ Head(job[r].todo)[1] = "mdadm" <=> (Left(r) = 10 /\ PlanOf(r).level # "basic")
           /\ Head(job[r].todo)[1] = "vgcreate" <=> Left(r) = 8
           /\ Head(job[r].todo)[1] = "lvcreate" <=> Left(r) = 7
           /\ Head(job[r].todo)[1] = "enable_start_unit" <=> Left(r) = 1
           /\ Left(r) <= 9 => \A i \in 1..Len(PlanOf(r).disks) : 2 * i - 1 <= Done(r)
  <1> DEFINE plan == PlanOf(r)
             p == Partition(plan)
             m == Skipped(plan)
             h == Head(job[r].todo)
             i == Done(r) + 1
             l == Left(r)
             s == build_steps(plan)
  <1>1. plan \in PlanRecords /\ plan.disks \in Seq(Disks)
    BY DEF CallInv, CallRecords, PlanRecords, PlanOf
  <1>2. job[r].todo \in Seq(Steps)
    BY DEF TypeOK, Steps
  <1>3. l \in Nat /\ l >= 1 /\ h = job[r].todo[1]
    BY <1>2 DEF Left
  <1>4. /\ s \in Seq(Steps) /\ p \in Nat /\ m \in {0, 1} /\ Len(s) = p + 10 - m
        /\ l <= Len(s) /\ i = p + 11 - m - l /\ i \in 1..Len(s)
    BY <1>1, <1>3, BuildFacts DEF TodoInv, Done
  <1>5. h = s[i]
    BY <1>3, <1>4 DEF TodoInv, Done
  <1>6. /\ i > p => i - p + m \in 1..10 /\ s[i] = <<VolumeSteps[i - p + m]>>
        /\ i <= p => /\ (i + 1) \div 2 \in 1..Len(plan.disks)
                     /\ s[i][1] = (IF i % 2 = 1 THEN "wipefs" ELSE "mkpart")
                     /\ s[i][2] = plan.disks[(i + 1) \div 2]
    BY <1>1, <1>4, BuildFacts
  <1>7. p = 2 * Len(plan.disks) /\ Len(plan.disks) \in Nat
    BY <1>1 DEF Partition
  <1>8. m = (IF plan.level = "basic" THEN 1 ELSE 0)
    BY DEF Skipped
  <1>9. i \in Nat /\ i >= 1 /\ Done(r) = i - 1 /\ Done(r) \in Nat
    BY <1>4, SMTT(30) DEF Done, Left
  <1> DEFINE Goal ==
               /\ h[1] = "wipefs" =>
                    /\ l >= 11
                    /\ \E k \in 1..Len(plan.disks) : h[2] = plan.disks[k] /\ 2 * k - 1 = i
               /\ h[1] # "wipefs" => \A k \in 1..Len(plan.disks) : 2 * k - 1 # i
               /\ h[1] = "mdadm" <=> (l = 10 /\ plan.level # "basic")
               /\ h[1] = "vgcreate" <=> l = 8
               /\ h[1] = "lvcreate" <=> l = 7
               /\ h[1] = "enable_start_unit" <=> l = 1
               /\ l <= 9 => \A k \in 1..Len(plan.disks) : 2 * k - 1 <= i - 1
  <1>0. SUFFICES Goal
    BY <1>1, <1>3, <1>9
  <1> HIDE DEF plan, p, m, h, i, l, s
  <1>10. CASE i > p
    <2>1. h[1] = VolumeSteps[i - p + m] /\ i - p + m \in 1..10 /\ i - p + m = 11 - l
      BY <1>4, <1>3, <1>5, <1>6, <1>10
    <2>2. \A k \in 1..Len(plan.disks) : 2 * k - 1 < i
      BY <1>4, <1>7, <1>10
    <2>3. /\ h[1] \notin {"wipefs", "mkpart"}
          /\ h[1] = "mdadm" <=> 11 - l = 1
          /\ h[1] = "vgcreate" <=> 11 - l = 3
          /\ h[1] = "lvcreate" <=> 11 - l = 4
          /\ h[1] = "enable_start_unit" <=> 11 - l = 10
      BY <2>1, VolumeStepsFacts
    <2>4. l = 10 => m = 0
      BY <1>3, <1>4, <1>10
    <2>5. QED
      BY <1>1, <1>3, <1>4, <1>8, <1>9, <2>2, <2>3, <2>4
  <1>11. CASE i <= p
    <2>1. l >= 11 - m /\ l >= 10
      BY <1>3, <1>4, <1>11
    <2>2. h[1] \in {"wipefs", "mkpart"}
      BY <1>5, <1>6, <1>11
    <2>3. l = 10 => m = 1
      BY <1>3, <1>4, <1>11
    <2>4. CASE i % 2 = 1
      <3>1. h[1] = "wipefs" /\ h[2] = plan.disks[(i + 1) \div 2] /\ (i + 1) \div 2 \in 1..Len(plan.disks)
        BY <1>5, <1>6, <1>11, <2>4
      <3>2. 2 * ((i + 1) \div 2) - 1 = i
        BY <1>9, <2>4
      <3>3. i < p
        BY <1>4, <1>7, <1>11, <2>4
      <3>4. l >= 11
        BY <1>3, <1>4, <3>3
      <3>5. \E k \in 1..Len(plan.disks) : h[2] = plan.disks[k] /\ 2 * k - 1 = i
        BY <3>1, <3>2
      <3>6. h[1] = "wipefs" /\ l \in Nat
        BY <1>3, <3>1
      <3>7. QED
        BY <3>4, <3>5, <3>6
    <2>5. CASE i % 2 # 1
      <3>1. h[1] = "mkpart"
        BY <1>5, <1>6, <1>11, <2>5
      <3>2. \A k \in 1..Len(plan.disks) : 2 * k - 1 # i
        BY <1>4, <1>7, <2>5
      <3>3. QED
        BY <1>1, <1>3, <1>4, <1>8, <1>9, <2>1, <2>3, <3>1, <3>2
    <2>6. QED
      BY <2>4, <2>5
  <1>12. QED
    BY <1>4, <1>7, <1>10, <1>11-----------------------------------------------------------------------------
(* Types, plans and calls.                                                  *)

\* What a job is.
JobRecords ==
    [status : {"none", "queued", "running", "done", "failed", "lost"}, todo : Seq(Steps)]

\* Records keep their type when their state changes.
LEMMA RecordFacts ==
    /\ \A plan \in PlanRecords : /\ [plan EXCEPT !.state = "gone"] \in PlanRecords
                                 /\ [plan EXCEPT !.state = "gone"].disks = plan.disks
    /\ \A c \in CallRecords : /\ [c EXCEPT !.state = "ended"] \in CallRecords
                              /\ [c EXCEPT !.state = "ended"].state = "ended"
                              /\ [c EXCEPT !.state = "ended"].plan = c.plan
                              /\ [c EXCEPT !.state = "ended"].id = c.id
    /\ \A c \in CallRecords : c.state # "idle" /\ c.id \in Plans /\ c.plan \in PlanRecords
    /\ \A j \in JobRecords, t \in {"queued", "failed", "done", "lost"} :
         [j EXCEPT !.status = t] \in JobRecords
    /\ \A j \in JobRecords : j.todo # <<>> => [j EXCEPT !.todo = Tail(@)] \in JobRecords
    /\ NoPlan \notin PlanRecords /\ NoCall.state = "idle" /\ NoPlan.state = "none"
  <1>1. \A plan \in PlanRecords : /\ [plan EXCEPT !.state = "gone"] \in PlanRecords
                                  /\ [plan EXCEPT !.state = "gone"].disks = plan.disks
    BY DEF PlanRecords
  <1>2. \A c \in CallRecords : /\ [c EXCEPT !.state = "ended"] \in CallRecords
                               /\ [c EXCEPT !.state = "ended"].state = "ended"
                               /\ [c EXCEPT !.state = "ended"].plan = c.plan
                               /\ [c EXCEPT !.state = "ended"].id = c.id
    BY DEF CallRecords
  <1>3. \A c \in CallRecords : c.state # "idle" /\ c.id \in Plans /\ c.plan \in PlanRecords
    BY DEF CallRecords
  <1>4. \A j \in JobRecords, t \in {"queued", "failed", "done", "lost"} :
          [j EXCEPT !.status = t] \in JobRecords
    BY DEF JobRecords
  <1>5. \A j \in JobRecords : j.todo # <<>> => [j EXCEPT !.todo = Tail(@)] \in JobRecords
    BY DEF JobRecords
  <1>6. NoPlan \notin PlanRecords /\ NoCall.state = "idle" /\ NoPlan.state = "none"
    BY DEF NoPlan, NoCall, PlanRecords
  <1>7. QED
    BY <1>1, <1>2, <1>3, <1>4, <1>5, <1>6

\* The host's part of TypeOK, the web's, and the rest.
HostTypes ==
    /\ use \in [Disks -> {"blank", "foreign", "raid"}]
    /\ size \in [Disks -> Sizes \cup {Unplugged}]
    /\ erasedBy \in [Disks -> Requests \cup {NoRequest}]
    /\ vgs \in [Volumes -> SUBSET Disks]
    /\ lvs \subseteq Volumes
    /\ mounted \in [Volumes -> Requests \cup {NoRequest}]
    /\ dropins \subseteq Volumes
WebTypes ==
    /\ plans \in [Plans -> {NoPlan} \cup PlanRecords]
    /\ requests \in [Requests -> {NoCall} \cup CallRecords]
    /\ db \in [Volumes -> {"none", "managed", "plain"}]
LinkTypes ==
    /\ wire \subseteq Requests
    /\ feed \in Seq([vol : Volumes, status : {"done", "failed"}])
    /\ connected \in BOOLEAN /\ missed \subseteq Volumes
AgentTypes ==
    /\ queue \in Seq(Requests)
    /\ job \in [Requests -> JobRecords]
    /\ upsets \in 0..MaxUpsets

LEMMA TypeParts == TypeOK <=> (HostTypes /\ WebTypes /\ LinkTypes /\ AgentTypes)
  <1>1. JobRecords = [status : {"none", "queued", "running", "done", "failed", "lost"},
                      todo : Seq({<<o>> : o \in Operations} \cup (Operations \X Disks))]
    BY DEF JobRecords, Steps
  <1>2. QED
    BY <1>1 DEF TypeOK, HostTypes, WebTypes, LinkTypes, AgentTypes

\* Calls and plans, once made, keep what they say.
LEMMA PlansKept ==
    ASSUME TypeOK, CallInv, [Next]_vars
    PROVE  /\ WebTypes'
           /\ \A p \in Plans : plans[p] \in PlanRecords =>
                plans'[p] \in PlanRecords /\ plans'[p].disks = plans[p].disks
           /\ \A r \in Requests : requests[r].state # "idle" =>
                /\ requests'[r].state # "idle"
                /\ requests'[r].plan = requests[r].plan
                /\ requests'[r].id = requests[r].id
  <1> DEFINE Kept ==
        /\ WebTypes'
        /\ \A p \in Plans : plans[p] \in PlanRecords =>
             plans'[p] \in PlanRecords /\ plans'[p].disks = plans[p].disks
        /\ \A r \in Requests : requests[r].state # "idle" =>
             /\ requests'[r].state # "idle"
             /\ requests'[r].plan = requests[r].plan
             /\ requests'[r].id = requests[r].id
  <1> SUFFICES Kept
    OBVIOUS
  <1> USE RecordFacts
  <1>0. WebTypes /\ HostTypes /\ feed \in Seq([vol : Volumes, status : {"done", "failed"}])
    BY TypeParts DEF LinkTypes
  <1>1. CASE UNCHANGED webVars
    BY <1>0, <1>1 DEF WebTypes, webVars
  <1>2. ASSUME NEW p \in Plans, plans[p] \in PlanRecords, Pop(p), UNCHANGED <<requests, db>>
        PROVE  Kept
    <2>1. plans' = [plans EXCEPT ![p] = [plans[p] EXCEPT !.state = "gone"]]
      BY <1>0, <1>2 DEF Pop, WebTypes
    <2>2. QED
      BY <1>0, <1>2, <2>1 DEF WebTypes
  <1>3. ASSUME NEW p \in Plans, post_plan(p)
        PROVE  Kept
    <2>1. PICK v \in Volumes, l \in Layouts : create_plan(p, v, l)
      BY <1>3 DEF post_plan
    <2> DEFINE new == [state |-> "open", vol |-> v, level |-> l.level, disks |-> l.disks,
                       shown |-> [d \in Range(l.disks) |-> size[d]]]
    <2>2. new \in PlanRecords
      <3>1. l.level \in Levels /\ l.disks \in Seq(Disks) /\ Range(l.disks) \subseteq Disks
        BY <2>1, LayoutFacts DEF create_plan
      <3>2. [d \in Range(l.disks) |-> size[d]] \in [Range(l.disks) -> Sizes \cup {Unplugged}]
        BY <1>0, <3>1 DEF HostTypes
      <3>3. [d \in Range(l.disks) |-> size[d]] \in
              UNION {[S -> Sizes \cup {Unplugged}] : S \in SUBSET Disks}
        BY <3>1, <3>2
      <3>4. QED
        BY <3>1, <3>3 DEF PlanRecords
    <2>3. plans' = [plans EXCEPT ![p] = new] /\ UNCHANGED <<requests, db>> /\ plans[p].state = "none"
      BY <2>1 DEF create_plan, Put
    <2>4. plans[p] \notin PlanRecords
      BY <2>3 DEF PlanRecords
    <2> HIDE DEF new
    <2>5. QED
      BY <1>0, <2>2, <2>3, <2>4 DEF WebTypes
  <1>4. ASSUME NEW p \in Plans, Expire(p)
        PROVE  Kept
    <2>1. plans[p] \in PlanRecords
      BY <1>0, <1>4 DEF Expire, Get, WebTypes
    <2>2. QED
      BY <1>2, <1>4, <2>1 DEF Expire
  <1>5. ASSUME NEW r \in Requests, post_execute(r)
        PROVE  Kept
    <2>1. PICK p \in Plans : execute_plan(r, p)
      BY <1>5 DEF post_execute
    <2> DEFINE new == [state |-> "sent", id |-> p, plan |-> plans[p],
                       managed |-> Managed \cup {plans[p].vol}]
    <2>2. plans[p] \in PlanRecords
      BY <1>0, <2>1 DEF execute_plan, Get, WebTypes
    <2>3. new \in CallRecords
      BY <2>2, DisksFacts DEF CallRecords, Managed
    <2>4. requests' = [requests EXCEPT ![r] = new] /\ UNCHANGED <<plans, db>>
          /\ requests[r].state = "idle"
      BY <2>1 DEF execute_plan
    <2> HIDE DEF new
    <2>5. QED
      BY <1>0, <2>3, <2>4 DEF WebTypes
  <1>6. ASSUME NEW r \in Requests, ExecuteReturns(r)
        PROVE  Kept
    <2>1. requests[r] \in CallRecords /\ plans[requests[r].id] \in PlanRecords
      BY <1>6 DEF ExecuteReturns, CallInv
    <2>2. /\ requests' = [requests EXCEPT ![r] = [requests[r] EXCEPT !.state = "ended"]]
          /\ plans' = [plans EXCEPT ![requests[r].id] =
                         [plans[requests[r].id] EXCEPT !.state = "gone"]]
          /\ db' = db
      BY <1>0, <1>6, <2>1 DEF ExecuteReturns, Pop, WebTypes
    <2>3. QED
      BY <1>0, <2>1, <2>2 DEF WebTypes
  <1>7. ASSUME NEW v \in Volumes, plans' = plans, requests' = requests,
               db' \in {db, [db EXCEPT ![v] = "managed"], [db EXCEPT ![v] = "plain"]}
        PROVE  Kept
    BY <1>0, <1>7 DEF WebTypes
  <1>8. ASSUME requests' = Dropped
        PROVE  /\ requests' \in [Requests -> {NoCall} \cup CallRecords]
               /\ \A r \in Requests : requests[r].state # "idle" =>
                    /\ requests'[r].state # "idle"
                    /\ requests'[r].plan = requests[r].plan
                    /\ requests'[r].id = requests[r].id
    <2>1. \A r \in Requests : requests'[r] = IF requests[r].state = "sent"
                                             THEN [requests[r] EXCEPT !.state = "ended"]
                                             ELSE requests[r]
      BY <1>8 DEF Dropped
    <2>2. \A r \in Requests : requests[r] \in {NoCall} \cup CallRecords
      BY <1>0 DEF WebTypes
    <2>3. \A r \in Requests : requests[r].state = "sent" => requests[r] \in CallRecords
      BY <2>2
    <2>4. \A r \in Requests : requests'[r] \in {NoCall} \cup CallRecords
      BY <2>1, <2>2, <2>3
    <2>5. DOMAIN requests' = Requests /\ requests' = [r \in Requests |-> requests'[r]]
      BY <1>8 DEF Dropped
    <2>6. QED
      BY <2>1, <2>3, <2>4, <2>5, ZenonT(30)
  <1>9. CASE WebRestart
    <2>1. \A p \in Plans : plans'[p] = [plans[p] EXCEPT !.state = IF @ = "open" THEN "gone" ELSE @]
      BY <1>9 DEF WebRestart
    <2>2. \A p \in Plans : /\ plans[p].state = "open" => plans[p] \in PlanRecords
                           /\ plans[p] \in {NoPlan} \cup PlanRecords
      BY <1>0 DEF WebTypes
    <2>3. NoPlan = [NoPlan EXCEPT !.state = IF @ = "open" THEN "gone" ELSE @]
      BY DEF NoPlan
    <2>4. \A plan \in PlanRecords :
            /\ [plan EXCEPT !.state = IF @ = "open" THEN "gone" ELSE @] \in PlanRecords
            /\ [plan EXCEPT !.state = IF @ = "open" THEN "gone" ELSE @].disks = plan.disks
      BY DEF PlanRecords
    <2>5. ASSUME NEW p \in Plans
          PROVE  plans'[p] \in {NoPlan} \cup PlanRecords
      <3>1. CASE plans[p] = NoPlan
        BY <2>1, <2>3, <3>1
      <3>2. CASE plans[p] \in PlanRecords
        BY <2>1, <2>4, <3>2
      <3>3. QED
        BY <2>2, <3>1, <3>2
    <2>6. plans' = [p \in Plans |-> plans'[p]]
      BY <1>9 DEF WebRestart
    <2>7. requests' = Dropped /\ db' = db
      BY <1>9 DEF WebRestart
    <2>8. plans' \in [Plans -> {NoPlan} \cup PlanRecords]
      BY <2>5, <2>6
    <2>9. WebTypes'
      BY <1>0, <1>8, <2>7, <2>8 DEF WebTypes
    <2>10. QED
      BY <1>8, <2>1, <2>4, <2>7, <2>9
  <1>10. CASE AgentRestart \/ ConnectionBreaks
    <2>1. requests' = Dropped /\ UNCHANGED <<plans, db>>
      BY <1>10 DEF AgentRestart, ConnectionBreaks
    <2>2. QED
      BY <1>0, <1>8, <2>1 DEF WebTypes
  <1>11. CASE post_volume
    BY <1>7, <1>11 DEF post_volume, register_volume
  <1>12. CASE Register
    <2>1. Head(feed) \in [vol : Volumes, status : {"done", "failed"}]
      <3>1. feed # <<>>
        BY <1>12 DEF Register
      <3>2. QED
        BY <1>0, <3>1, EndsFacts
    <2>2. db' \in {db, [db EXCEPT ![Head(feed).vol] = "managed"]}
      BY <1>12 DEF Register, Registered
    <2>3. QED
      BY <1>7, <1>12, <2>1, <2>2 DEF Register
  <1>13. CASE Connect \/ RegisterFails \/ (\E d \in Disks, u \in {"blank", "foreign"} : OutsideUse(d, u))
              \/ (\E d \in Disks, s \in Sizes \cup {Unplugged} : Hotplug(d, s))
    BY <1>1, <1>13 DEF Connect, RegisterFails, OutsideUse, Hotplug, webVars
  <1>14. ASSUME NEW r \in Requests, Accept(r) \/ JobStep(r)
         PROVE  Kept
    BY <1>1, <1>14 DEF Accept, JobStep, Check, CheckFails, StepFails, Wipefs, Mdadm, Vgcreate,
         Lvcreate, WriteDropins, EnableStartUnit, PlainStep, Finish, StepIs, Ended
  <1>15. CASE UNCHANGED vars
    BY <1>1, <1>15 DEF vars
  <1>16. QED
    BY <1>3, <1>4, <1>5, <1>6, <1>9, <1>10, <1>11, <1>12, <1>13, <1>14, <1>15 DEF Next
\* A job that is there is of a call that names a plan.
LEMMA JobFacts ==
    ASSUME TypeOK, CallInv, NEW r \in Requests, job[r].status # "none"
    PROVE  /\ requests[r].state # "idle" /\ requests[r] \in CallRecords
           /\ PlanOf(r) \in PlanRecords /\ PlanOf(r).disks # <<>>
           /\ PlanOf(r).vol \in Volumes /\ requests[r].managed \subseteq Volumes
           /\ DisksOf(r) \subseteq Disks
           /\ job[r] \in JobRecords
  <1>1. requests[r].state # "idle" /\ requests[r] \in CallRecords /\ PlanOf(r).disks # <<>>
    BY DEF CallInv
  <1>2. PlanOf(r) \in PlanRecords /\ requests[r].managed \subseteq Volumes
    BY <1>1 DEF CallRecords, PlanOf
  <1>3. job[r] \in JobRecords
    BY TypeParts DEF AgentTypes
  <1>4. QED
    BY <1>1, <1>2, <1>3, DisksFacts DEF DisksOf

\* What these events say ended well is a volume each; and of two parts of the
\* feed each success is in one.
LEMMA SuccessFacts ==
    ASSUME NEW fd \in Seq([vol : Volumes, status : {"done", "failed"}])
    PROVE  /\ Successes(fd) \subseteq Volumes
           /\ \A v : v \in Successes(fd) <=>
                \E i \in 1..Len(fd) : fd[i].status = "done" /\ fd[i].vol = v
  <1> DEFINE E == [vol : Volumes, status : {"done", "failed"}]
  <1>1. Range(fd) = {fd[i] : i \in 1..Len(fd)}
    BY DEF Range
  <1>2. \A i \in 1..Len(fd) : fd[i] \in E
    BY ElementFacts
  <1>3. \A v : v \in Successes(fd) <=>
          \E i \in 1..Len(fd) : fd[i].status = "done" /\ fd[i].vol = v
    BY <1>1 DEF Successes
  <1>4. QED
    BY <1>2, <1>3

LEMMA SuccessAt ==
    ASSUME NEW fd \in Seq([vol : Volumes, status : {"done", "failed"}]),
           NEW i \in 1..Len(fd), fd[i].status = "done"
    PROVE  fd[i].vol \in Successes(fd)
  BY SuccessFacts

\* A cut feed is a prefix, and what was cut off is remembered.
LEMMA CutFacts ==
    ASSUME LinkTypes, Cut
    PROVE  /\ feed' \in Seq([vol : Volumes, status : {"done", "failed"}])
           /\ Len(feed') \in Nat /\ Len(feed') <= Len(feed)
           /\ \A i \in 1..Len(feed') : feed'[i] = feed[i]
           /\ missed' \subseteq Volumes
           /\ missed \cup Successes(feed) \subseteq missed' \cup Successes(feed')
  <1> DEFINE E == [vol : Volumes, status : {"done", "failed"}]
  <1>1. feed \in Seq(E) /\ Len(feed) \in Nat /\ missed \subseteq Volumes
    BY DEF LinkTypes
  <1>2. PICK n \in 0..Len(feed) :
          /\ feed' = SubSeq(feed, 1, n)
          /\ missed' = missed \cup Successes(SubSeq(feed, n + 1, Len(feed)))
    BY DEF Cut
  <1> DEFINE rest == SubSeq(feed, n + 1, Len(feed))
  <1> HIDE DEF E
  <1>3. /\ feed' \in Seq(E) /\ Len(feed') = n
        /\ \A i \in 1..n : feed'[i] = feed[i]
    BY <1>1, <1>2
  <1>4. /\ rest \in Seq(E) /\ Len(rest) = Len(feed) - n
        /\ \A i \in 1..(Len(feed) - n) : rest[i] = feed[n + i]
    BY <1>1, <1>2
  <1> HIDE DEF rest
  <1>5. Successes(rest) \subseteq Volumes
    BY <1>4, SuccessFacts DEF E
  <1>6. ASSUME NEW v \in Successes(feed)
        PROVE  v \in Successes(feed') \cup Successes(rest)
    <2>1. PICK i \in 1..Len(feed) : feed[i].status = "done" /\ feed[i].vol = v
      BY <1>1, SuccessFacts DEF E
    <2>2. CASE i <= n
      <3>1. i \in 1..Len(feed') /\ feed'[i] = feed[i]
        BY <1>3, <2>2
      <3>2. feed'[i].vol \in Successes(feed')
        BY <1>3, <2>1, <3>1, SuccessAt DEF E
      <3>3. QED
        BY <2>1, <3>1, <3>2
    <2>3. CASE i > n
      <3>1. i - n \in 1..Len(rest) /\ rest[i - n] = feed[n + (i - n)] /\ n + (i - n) = i
        BY <1>1, <1>2, <1>4, <2>3
      <3>2. rest[i - n] = feed[i]
        BY <3>1
      <3>3. rest[i - n].vol \in Successes(rest)
        BY <1>4, <2>1, <3>1, <3>2, SuccessAt DEF E
      <3>4. QED
        BY <2>1, <3>2, <3>3
    <2>4. QED
      BY <1>1, <2>2, <2>3
  <1>7. missed' = missed \cup Successes(rest)
    BY <1>2 DEF rest
  <1>8. QED
    BY <1>1, <1>2, <1>3, <1>5, <1>6, <1>7 DEF E

LEMMA TypeStep ==
    ASSUME TypeOK, CallInv, [Next]_vars
    PROVE  TypeOK'
  <1>0. HostTypes /\ WebTypes /\ LinkTypes /\ AgentTypes
    BY TypeParts
  <1>1. WebTypes'
    BY PlansKept
  <1> SUFFICES HostTypes' /\ LinkTypes' /\ AgentTypes'
    <2>1. JobRecords = [status : {"none", "queued", "running", "done", "failed", "lost"},
                        todo : Seq({<<o>> : o \in Operations} \cup (Operations \X Disks))]
      BY DEF JobRecords, Steps
    <2>2. QED
      BY <1>1, <2>1 DEF TypeOK, HostTypes, WebTypes, LinkTypes, AgentTypes
  <1>2. ASSUME UNCHANGED hostVars
        PROVE  HostTypes'
    BY <1>0, <1>2 DEF HostTypes, hostVars
  <1>3. ASSUME NEW r \in Requests, NEW t \in {"done", "failed"},
               job[r].status # "none", queue # <<>>, Ended(r, t)
        PROVE  HostTypes' /\ LinkTypes' /\ AgentTypes'
    <2>1. PlanOf(r).vol \in Volumes /\ job[r] \in JobRecords
      BY <1>3, JobFacts
    <2>2. [vol |-> PlanOf(r).vol, status |-> t] \in [vol : Volumes, status : {"done", "failed"}]
      BY <2>1
    <2>3. LinkTypes'
      <3>1. feed' \in Seq([vol : Volumes, status : {"done", "failed"}])
        <4> DEFINE E == [vol : Volumes, status : {"done", "failed"}]
                   e == [vol |-> PlanOf(r).vol, status |-> t]
        <4>1. feed \in Seq(E) /\ e \in E /\ feed' \in {feed, Append(feed, e)}
          BY <1>0, <1>3, <2>2 DEF Ended, LinkTypes
        <4> HIDE DEF E, e
        <4>2. feed' \in Seq(E)
          BY <4>1
        <4>3. QED
          BY <4>2 DEF E
      <3>2. missed' \subseteq Volumes
        <4> DEFINE e == [vol |-> PlanOf(r).vol, status |-> t]
        <4>1. <<e>> \in Seq([vol : Volumes, status : {"done", "failed"}])
          BY <2>2
        <4>2. Successes(<<e>>) \subseteq Volumes
          BY <4>1, SuccessFacts
        <4>3. missed' \in {missed, missed \cup Successes(<<e>>)}
          BY <1>3 DEF Ended
        <4>4. QED
          BY <1>0, <4>2, <4>3 DEF LinkTypes
      <3>3. QED
        BY <1>0, <1>3, <3>1, <3>2 DEF Ended, LinkTypes
    <2>4. [job[r] EXCEPT !.status = t] \in JobRecords
      BY <2>1, RecordFacts
    <2>5. queue' \in Seq(Requests)
      BY <1>0, <1>3, EndsFacts DEF Ended, AgentTypes
    <2>6. AgentTypes'
      BY <1>0, <1>3, <2>4, <2>5 DEF Ended, AgentTypes
    <2>7. QED
      BY <1>2, <1>3, <2>3, <2>6 DEF Ended
  <1>4. ASSUME NEW r \in Requests, NEW op, StepIs(r, op)
        PROVE  /\ LinkTypes' /\ AgentTypes'
               /\ PlanOf(r).vol \in Volumes /\ requests[r].managed \subseteq Volumes
               /\ DisksOf(r) \subseteq Disks
    <2>1. /\ PlanOf(r).vol \in Volumes /\ requests[r].managed \subseteq Volumes
          /\ DisksOf(r) \subseteq Disks /\ job[r] \in JobRecords
      BY <1>4, JobFacts DEF StepIs, Runs
    <2>2. [job[r] EXCEPT !.todo = Tail(@)] \in JobRecords
      BY <1>4, <2>1, RecordFacts DEF StepIs
    <2>3. job' = [job EXCEPT ![r] = [job[r] EXCEPT !.todo = Tail(@)]]
      BY <1>0, <1>4 DEF StepIs, AgentTypes
    <2>4. AgentTypes'
      BY <1>0, <1>4, <2>2, <2>3 DEF StepIs, AgentTypes
    <2>5. LinkTypes'
      BY <1>0, <1>4 DEF StepIs, LinkTypes, linkVars
    <2>6. QED
      BY <2>1, <2>4, <2>5
  <1>5. ASSUME NEW r \in Requests, JobStep(r)
        PROVE  HostTypes' /\ LinkTypes' /\ AgentTypes'
    <2>1. CASE Check(r)
      <3>1. PlanOf(r) \in PlanRecords
        BY <2>1, JobFacts DEF Check, Runs
      <3>2. [status |-> "running", todo |-> build_steps(PlanOf(r))] \in JobRecords
        BY <3>1, BuildFacts DEF JobRecords
      <3>3. AgentTypes'
        BY <1>0, <2>1, <3>2 DEF Check, AgentTypes
      <3>4. LinkTypes'
        BY <1>0, <2>1 DEF Check, LinkTypes, linkVars
      <3>5. QED
        BY <1>2, <2>1, <3>3, <3>4 DEF Check
    <2>2. CASE CheckFails(r) \/ StepFails(r) \/ Finish(r)
      BY <1>3, <2>2 DEF CheckFails, StepFails, Finish, Runs
    <2>3. CASE Wipefs(r)
      <3>1. HostTypes'
        BY <1>0, <2>3 DEF Wipefs, HostTypes
      <3>2. QED
        BY <1>4, <2>3, <3>1 DEF Wipefs
    <2>4. CASE Mdadm(r)
      <3>1. HostTypes'
        BY <1>0, <2>4 DEF Mdadm, HostTypes
      <3>2. QED
        BY <1>4, <2>4, <3>1 DEF Mdadm
    <2>5. CASE Vgcreate(r)
      <3>1. LinkTypes' /\ AgentTypes' /\ DisksOf(r) \subseteq Disks
        BY <1>4, <2>5 DEF Vgcreate
      <3>2. HostTypes'
        BY <1>0, <2>5, <3>1 DEF Vgcreate, HostTypes
      <3>3. QED
        BY <3>1, <3>2
    <2>6. CASE Lvcreate(r)
      <3>1. LinkTypes' /\ AgentTypes' /\ PlanOf(r).vol \in Volumes
        BY <1>4, <2>6 DEF Lvcreate
      <3>2. HostTypes'
        BY <1>0, <2>6, <3>1 DEF Lvcreate, HostTypes
      <3>3. QED
        BY <3>1, <3>2
    <2>7. CASE WriteDropins(r)
      <3>1. LinkTypes' /\ AgentTypes' /\ requests[r].managed \subseteq Volumes
        BY <1>4, <2>7 DEF WriteDropins
      <3>2. HostTypes'
        BY <1>0, <2>7, <3>1 DEF WriteDropins, HostTypes
      <3>3. QED
        BY <3>1, <3>2
    <2>8. CASE EnableStartUnit(r)
      <3>1. LinkTypes' /\ AgentTypes' /\ PlanOf(r).vol \in Volumes
        BY <1>4, <2>8 DEF EnableStartUnit
      <3>2. HostTypes'
        BY <1>0, <2>8, <3>1 DEF EnableStartUnit, HostTypes
      <3>3. QED
        BY <3>1, <3>2
    <2>9. CASE PlainStep(r)
      <3>1. PICK op : StepIs(r, op)
        BY <2>9 DEF PlainStep
      <3>2. QED
        BY <1>2, <1>4, <2>9, <3>1 DEF PlainStep
    <2>10. QED
      BY <1>5, <2>1, <2>2, <2>3, <2>4, <2>5, <2>6, <2>7, <2>8, <2>9 DEF JobStep
  <1>6. ASSUME NEW r \in Requests, Accept(r)
        PROVE  HostTypes' /\ LinkTypes' /\ AgentTypes'
    <2>1. [job[r] EXCEPT !.status = "queued"] \in JobRecords
      BY <1>0, RecordFacts DEF AgentTypes
    <2>2. AgentTypes'
      BY <1>0, <1>6, <2>1 DEF Accept, AgentTypes
    <2>3. LinkTypes'
      BY <1>0, <1>6 DEF Accept, LinkTypes
    <2>4. QED
      BY <1>2, <1>6, <2>2, <2>3 DEF Accept
  <1>7. CASE AgentRestart
    <2>1. \A r \in Requests : [job[r] EXCEPT !.status = "lost"] \in JobRecords
      BY <1>0, RecordFacts DEF AgentTypes
    <2>2. job' \in [Requests -> JobRecords] /\ queue' = <<>> /\ upsets' \in 0..MaxUpsets
      BY <1>0, <1>7, <2>1, BoundsAssumption DEF AgentRestart, AgentTypes, Upset
    <2>3. AgentTypes'
      BY <2>2 DEF AgentTypes
    <2>4. LinkTypes'
      <3>1. Cut /\ wire' = {} /\ connected' = FALSE
        BY <1>7 DEF AgentRestart
      <3>2. QED
        BY <1>0, <3>1, CutFacts DEF LinkTypes
    <2>5. QED
      BY <1>2, <1>7, <2>3, <2>4 DEF AgentRestart
  <1>8. ASSUME Upset, UNCHANGED agentVars
        PROVE  AgentTypes'
    BY <1>0, <1>8, BoundsAssumption DEF Upset, AgentTypes, agentVars
  <1>9. ASSUME UNCHANGED <<agentVars, upsets>>
        PROVE  AgentTypes'
    BY <1>0, <1>9 DEF AgentTypes, agentVars
  <1>10. CASE WebRestart
    <2>1. /\ feed' = <<>> /\ connected' = FALSE /\ wire' \subseteq Requests
          /\ missed' \subseteq Volumes
      BY <1>0, <1>10, SuccessFacts DEF WebRestart, LinkTypes
    <2>2. LinkTypes'
      BY <2>1, EmptyFacts, Zenon DEF LinkTypes
    <2>3. QED
      BY <1>2, <1>8, <1>10, <2>2 DEF WebRestart
  <1>11. CASE Register
    <2>1. feed' \in Seq([vol : Volumes, status : {"done", "failed"}])
      BY <1>0, <1>11, EndsFacts DEF Register, LinkTypes
    <2>2. LinkTypes'
      BY <1>0, <1>11, <2>1 DEF Register, LinkTypes
    <2>3. QED
      BY <1>2, <1>9, <1>11, <2>2 DEF Register
  <1>12. CASE Connect
    BY <1>0, <1>2, <1>9, <1>12 DEF Connect, LinkTypes
  <1>20. CASE RegisterFails
    <2>1. /\ feed' \in Seq([vol : Volumes, status : {"done", "failed"}])
          /\ Head(feed) \in [vol : Volumes, status : {"done", "failed"}]
      BY <1>0, <1>20, EndsFacts DEF RegisterFails, LinkTypes
    <2>2. LinkTypes'
      BY <1>0, <1>20, <2>1 DEF RegisterFails, LinkTypes
    <2>3. QED
      BY <1>2, <1>8, <1>20, <2>2 DEF RegisterFails
  <1>21. CASE ConnectionBreaks
    <2>1. Cut /\ wire' \subseteq Requests /\ connected' = FALSE
      BY <1>0, <1>21 DEF ConnectionBreaks, LinkTypes
    <2>2. LinkTypes'
      BY <1>0, <2>1, CutFacts DEF LinkTypes
    <2>3. QED
      BY <1>2, <1>8, <1>21, <2>2 DEF ConnectionBreaks
  <1>13. CASE post_volume
    BY <1>0, <1>2, <1>8, <1>13 DEF post_volume, register_volume, LinkTypes, linkVars
  <1>14. ASSUME NEW p \in Plans, post_plan(p) \/ Expire(p)
         PROVE  HostTypes' /\ LinkTypes' /\ AgentTypes'
    BY <1>0, <1>2, <1>9, <1>14 DEF post_plan, create_plan, Expire, LinkTypes, linkVars
  <1>15. ASSUME NEW r \in Requests, post_execute(r) \/ ExecuteReturns(r)
         PROVE  HostTypes' /\ LinkTypes' /\ AgentTypes'
    BY <1>0, <1>2, <1>9, <1>15
       DEF post_execute, execute_plan, ExecuteReturns, LinkTypes, linkVars
  <1>16. ASSUME NEW d \in Disks, NEW u \in {"blank", "foreign"}, OutsideUse(d, u)
         PROVE  HostTypes' /\ LinkTypes' /\ AgentTypes'
    <2>1. HostTypes'
      BY <1>0, <1>16 DEF OutsideUse, HostTypes
    <2>2. QED
      BY <1>0, <1>8, <1>16, <2>1 DEF OutsideUse, LinkTypes, linkVars
  <1>17. ASSUME NEW d \in Disks, NEW s \in Sizes \cup {Unplugged}, Hotplug(d, s)
         PROVE  HostTypes' /\ LinkTypes' /\ AgentTypes'
    <2>1. HostTypes'
      BY <1>0, <1>17 DEF Hotplug, HostTypes
    <2>2. QED
      BY <1>0, <1>8, <1>17, <2>1 DEF Hotplug, LinkTypes, linkVars
  <1>18. CASE UNCHANGED vars
    BY <1>0, <1>2, <1>9, <1>18 DEF vars, LinkTypes, linkVars
  <1>19. QED
    BY <1>5, <1>6, <1>7, <1>10, <1>11, <1>12, <1>13, <1>14, <1>15, <1>16, <1>17, <1>18,
       <1>20, <1>21 DEF Next
\* Which steps change the agent's jobs.
LEMMA AgentEffect ==
    ASSUME [Next]_vars
    PROVE  \/ UNCHANGED <<queue, job>> /\ wire' \subseteq wire
           \/ \E r \in Requests, p \in Plans : execute_plan(r, p)
           \/ \E r \in Requests : Accept(r)
           \/ \E r \in Requests : JobStep(r)
           \/ AgentRestart
  <1>1. CASE \E r \in Requests : post_execute(r)
    BY <1>1 DEF post_execute
  <1>2. CASE \E r \in Requests : ExecuteReturns(r) \/ Accept(r) \/ JobStep(r)
    BY <1>2 DEF ExecuteReturns, agentVars, linkVars
  <1>3. CASE \E p \in Plans : post_plan(p) \/ Expire(p)
    BY <1>3 DEF post_plan, create_plan, Expire, agentVars, linkVars
  <1>4. CASE post_volume \/ Register \/ RegisterFails \/ Connect \/ ConnectionBreaks
             \/ WebRestart \/ AgentRestart
    BY <1>4 DEF post_volume, register_volume, Register, RegisterFails, Connect,
                ConnectionBreaks, WebRestart, agentVars, linkVars
  <1>5. CASE \/ \E d \in Disks, u \in {"blank", "foreign"} : OutsideUse(d, u)
             \/ \E d \in Disks, s \in Sizes \cup {Unplugged} : Hotplug(d, s)
    BY <1>5 DEF OutsideUse, Hotplug, agentVars, linkVars
  <1>6. CASE UNCHANGED vars
    BY <1>6 DEF vars, agentVars, linkVars
  <1>7. QED
    BY <1>1, <1>2, <1>3, <1>4, <1>5, <1>6 DEF Next

\* What a step of a job does to the jobs.
LEMMA JobEffect ==
    ASSUME TypeOK, NEW r \in Requests, JobStep(r)
    PROVE  /\ queue # <<>> /\ r = Head(queue) /\ job[r].status \in {"queued", "running"}
           /\ wire' = wire /\ plans' = plans /\ requests' = requests
           /\ \A q \in Requests : q # r => job'[q] = job[q]
           /\ \/ queue' = queue /\ job'[r].status = "running"
              \/ queue' = Tail(queue) /\ job'[r].status \in {"failed", "done"}
  <1>1. CASE Check(r)
    BY <1>1 DEF TypeOK, Check, Runs, webVars, linkVars
  <1>2. CASE CheckFails(r) \/ StepFails(r) \/ Finish(r)
    BY <1>2, ZenonT(30) DEF TypeOK, CheckFails, StepFails, Finish, Runs, Ended, webVars
  <1>3. ASSUME NEW op, StepIs(r, op)
        PROVE  /\ queue # <<>> /\ r = Head(queue) /\ job[r].status = "running"
               /\ wire' = wire /\ plans' = plans /\ requests' = requests
               /\ \A q \in Requests : q # r => job'[q] = job[q]
               /\ queue' = queue /\ job'[r].status = "running"
    BY <1>3 DEF TypeOK, StepIs, Runs, webVars, linkVars
  <1>4. CASE Wipefs(r) \/ Mdadm(r) \/ Vgcreate(r) \/ Lvcreate(r) \/ WriteDropins(r)
             \/ EnableStartUnit(r) \/ PlainStep(r)
    BY <1>3, <1>4 DEF Wipefs, Mdadm, Vgcreate, Lvcreate, WriteDropins, EnableStartUnit,
                      PlainStep
  <1>5. QED
    BY <1>1, <1>2, <1>4 DEF JobStep

LEMMA CallStep ==
    ASSUME TypeOK, CallInv, QueueInv, [Next]_vars
    PROVE  CallInv'
  <1>0. WebTypes /\ WebTypes' /\ TypeOK'
    BY TypeParts, PlansKept, TypeStep
  <1>1. \A r \in Requests : requests'[r].state # "idle" => requests'[r] \in CallRecords
    BY <1>0 DEF WebTypes, NoCall
  <1>2. /\ \A p \in Plans : plans[p] \in PlanRecords =>
             plans'[p] \in PlanRecords /\ plans'[p].disks = plans[p].disks
        /\ \A r \in Requests : requests[r].state # "idle" =>
             /\ requests'[r].state # "idle"
             /\ requests'[r].plan = requests[r].plan
             /\ requests'[r].id = requests[r].id
    BY PlansKept
  <1>3. \A r \in Requests : requests[r].state # "idle" =>
          /\ plans'[requests'[r].id] \in PlanRecords
          /\ requests'[r].plan.disks # <<>>
    <2>1. SUFFICES ASSUME NEW r \in Requests, requests[r].state # "idle"
                   PROVE  /\ plans'[requests'[r].id] \in PlanRecords
                          /\ requests'[r].plan.disks # <<>>
      OBVIOUS
    <2>2. /\ requests[r] \in CallRecords /\ plans[requests[r].id] \in PlanRecords
          /\ requests[r].plan.disks # <<>>
      BY <2>1 DEF CallInv, PlanOf
    <2>3. requests[r].id \in Plans
      BY <2>2, RecordFacts
    <2>4. QED
      BY <1>2, <2>1, <2>2, <2>3
  <1>4. ASSUME NEW r \in Requests, requests[r].state = "idle", requests'[r].state # "idle"
        PROVE  \E p \in Plans : execute_plan(r, p)
    <2>1. ASSUME requests' = Dropped
          PROVE  FALSE
      BY <1>4, <2>1 DEF Dropped
    <2>2. ASSUME NEW q \in Requests, ExecuteReturns(q)
          PROVE  FALSE
      BY <1>0, <1>4, <2>2 DEF ExecuteReturns, WebTypes
    <2>3. ASSUME NEW q \in Requests, post_execute(q)
          PROVE  \E p \in Plans : execute_plan(r, p)
      <3>1. PICK p \in Plans : execute_plan(q, p)
        BY <2>3 DEF post_execute
      <3>2. q = r
        BY <1>0, <1>4, <3>1 DEF execute_plan, WebTypes
      <3>3. QED
        BY <3>1, <3>2
    <2>4. requests' # requests
      BY <1>4
    <2>5. ASSUME NEW q \in Requests, Accept(q) \/ JobStep(q)
          PROVE  FALSE
      BY <2>4, <2>5, JobEffect DEF Accept, webVars
    <2>6. CASE \E p \in Plans : post_plan(p) \/ Expire(p)
      BY <2>4, <2>6 DEF post_plan, create_plan, Expire
    <2>7. CASE post_volume \/ Register \/ RegisterFails \/ Connect
      BY <2>4, <2>7 DEF post_volume, register_volume, Register, RegisterFails, Connect, webVars
    <2>8. CASE WebRestart \/ AgentRestart \/ ConnectionBreaks
      BY <2>1, <2>8 DEF WebRestart, AgentRestart, ConnectionBreaks
    <2>9. CASE \/ \E d \in Disks, u \in {"blank", "foreign"} : OutsideUse(d, u)
               \/ \E d \in Disks, s \in Sizes \cup {Unplugged} : Hotplug(d, s)
      BY <2>4, <2>9 DEF OutsideUse, Hotplug, webVars
    <2>10. CASE UNCHANGED vars
      BY <2>4, <2>10 DEF vars, webVars
    <2>11. QED
      BY <2>2, <2>3, <2>5, <2>6, <2>7, <2>8, <2>9, <2>10 DEF Next
  <1>5. ASSUME NEW r \in Requests, NEW p \in Plans, execute_plan(r, p)
        PROVE  /\ plans'[requests'[r].id] \in PlanRecords
               /\ requests'[r].plan.disks # <<>>
               /\ requests'[r].state # "idle"
               /\ UNCHANGED job /\ wire' = wire \cup {r} /\ job[r].status = "none"
    <2>1. plans[p] \in PlanRecords
      BY <1>0, <1>5 DEF execute_plan, Get, WebTypes, NoPlan
    <2>2. requests'[r].id = p /\ requests'[r].plan = plans[p] /\ requests'[r].state = "sent"
      BY <1>0, <1>5 DEF execute_plan, WebTypes
    <2>3. plans[p].disks # <<>>
      BY <2>1 DEF CallInv
    <2>4. job[r].status = "none"
      BY <1>5 DEF execute_plan, CallInv
    <2>5. QED
      BY <1>2, <1>5, <2>1, <2>2, <2>3, <2>4 DEF execute_plan, agentVars
  <1>6. ASSUME NEW p \in Plans, plans'[p] \in PlanRecords
        PROVE  plans'[p].disks # <<>>
    <2>1. CASE plans[p] \in PlanRecords
      BY <1>2, <2>1 DEF CallInv
    <2>2. CASE plans[p] = NoPlan
      <3>0. plans'[p] # plans[p]
        BY <1>6, <2>2, RecordFacts
      <3>1. ASSUME NEW q \in Plans, post_plan(q)
            PROVE  plans'[p].disks # <<>>
        <4>1. PICK v \in Volumes, l \in Layouts : create_plan(q, v, l)
          BY <3>1 DEF post_plan
        <4>2. q = p /\ plans'[p].disks = l.disks
          BY <1>0, <3>0, <4>1 DEF create_plan, Put, WebTypes
        <4>3. QED
          BY <4>1, <4>2, LayoutFacts DEF create_plan
      <3>2. ASSUME NEW q \in Plans, Pop(q), plans[q] \in PlanRecords
            PROVE  FALSE
        BY <1>0, <2>2, <3>0, <3>2, RecordFacts DEF Pop, WebTypes
      <3>3. ASSUME NEW q \in Plans, Expire(q)
            PROVE  FALSE
        <4>1. plans[q] \in PlanRecords
          BY <1>0, <3>3 DEF Expire, Get, WebTypes, NoPlan
        <4>2. QED
          BY <3>2, <3>3, <4>1 DEF Expire
      <3>4. ASSUME NEW q \in Requests, ExecuteReturns(q)
            PROVE  FALSE
        <4>1. requests[q] \in CallRecords /\ plans[requests[q].id] \in PlanRecords
          BY <3>4 DEF ExecuteReturns, CallInv
        <4>2. requests[q].id \in Plans
          BY <4>1, RecordFacts
        <4>3. QED
          BY <3>2, <3>4, <4>1, <4>2 DEF ExecuteReturns
      <3>5. ASSUME WebRestart
            PROVE  FALSE
        <4>1. plans'[p] = [NoPlan EXCEPT !.state = IF @ = "open" THEN "gone" ELSE @]
          BY <2>2, <3>5 DEF WebRestart
        <4>2. QED
          BY <2>2, <3>0, <4>1 DEF NoPlan
      <3>6. ASSUME NEW q \in Requests, post_execute(q) \/ Accept(q) \/ JobStep(q)
            PROVE  FALSE
        BY <3>0, <3>6, JobEffect DEF post_execute, execute_plan, Accept, webVars
      <3>7. CASE post_volume \/ Register \/ RegisterFails \/ Connect \/ ConnectionBreaks
                 \/ AgentRestart
        BY <3>0, <3>7 DEF post_volume, register_volume, Register, RegisterFails, Connect,
                          ConnectionBreaks, AgentRestart, webVars
      <3>8. CASE \/ \E d \in Disks, u \in {"blank", "foreign"} : OutsideUse(d, u)
                 \/ \E d \in Disks, s \in Sizes \cup {Unplugged} : Hotplug(d, s)
        BY <3>0, <3>8 DEF OutsideUse, Hotplug, webVars
      <3>9. CASE UNCHANGED vars
        BY <3>0, <3>9 DEF vars, webVars
      <3>10. QED
        BY <3>1, <3>3, <3>4, <3>5, <3>6, <3>7, <3>8, <3>9 DEF Next
    <2>3. QED
      BY <1>0, <2>1, <2>2 DEF WebTypes
  <1>7. /\ \A r \in wire' : requests'[r].state # "idle" /\ job'[r].status = "none"
        /\ \A r \in Requests : job'[r].status # "none" => requests'[r].state # "idle"
    <2>1. wire \subseteq Requests
      BY DEF TypeOK
    <2>2. /\ \A r \in wire : requests[r].state # "idle" /\ job[r].status = "none"
          /\ \A r \in Requests : job[r].status # "none" => requests[r].state # "idle"
      BY DEF CallInv
    <2>3. CASE UNCHANGED <<queue, job>> /\ wire' \subseteq wire
      BY <1>2, <2>1, <2>2, <2>3
    <2>4. ASSUME NEW r \in Requests, NEW p \in Plans, execute_plan(r, p)
          PROVE  /\ \A q \in wire' : requests'[q].state # "idle" /\ job'[q].status = "none"
                 /\ \A q \in Requests : job'[q].status # "none" => requests'[q].state # "idle"
      BY <1>2, <1>5, <2>1, <2>2, <2>4
    <2>5. ASSUME NEW r \in Requests, Accept(r)
          PROVE  /\ \A q \in wire' : requests'[q].state # "idle" /\ job'[q].status = "none"
                 /\ \A q \in Requests : job'[q].status # "none" => requests'[q].state # "idle"
      <3>1. \A q \in Requests : q # r => job'[q] = job[q]
        BY <2>5 DEF Accept, TypeOK
      <3>2. r \in wire /\ wire' = wire \ {r} /\ requests' = requests
        BY <2>5 DEF Accept, webVars
      <3>3. QED
        BY <2>1, <2>2, <3>1, <3>2
    <2>6. ASSUME NEW r \in Requests, JobStep(r)
          PROVE  /\ \A q \in wire' : requests'[q].state # "idle" /\ job'[q].status = "none"
                 /\ \A q \in Requests : job'[q].status # "none" => requests'[q].state # "idle"
      <3>1. /\ job[r].status # "none" /\ wire' = wire /\ requests' = requests
            /\ \A q \in Requests : q # r => job'[q] = job[q]
        BY <2>6, JobEffect
      <3>2. QED
        BY <2>1, <2>2, <3>1
    <2>7. CASE AgentRestart
      <3>1. \A r \in Range(queue) : job[r].status # "none"
        BY DEF QueueInv, TypeOK, Range
      <3>2. /\ wire' = {}
            /\ \A r \in Requests : job'[r] = IF r \in Range(queue)
                                             THEN [job[r] EXCEPT !.status = "lost"]
                                             ELSE job[r]
        BY <2>7 DEF AgentRestart
      <3>3. QED
        BY <1>2, <2>2, <3>1, <3>2
    <2>8. QED
      BY <2>3, <2>4, <2>5, <2>6, <2>7, AgentEffect
  <1>8. QED
    BY <1>1, <1>3, <1>4, <1>5, <1>6, <1>7 DEF CallInv, PlanOf
LEMMA QueueStep ==
    ASSUME TypeOK, CallInv, QueueInv, [Next]_vars
    PROVE  QueueInv'
  <1>0. queue \in Seq(Requests) /\ Len(queue) \in Nat
    BY DEF TypeOK
  <1>1. /\ \A i \in 1..Len(queue) : queue[i] \in Requests /\ job[queue[i]].status \in {"queued", "running"}
        /\ \A i, j \in 1..Len(queue) : queue[i] = queue[j] => i = j
        /\ \A r \in Requests : job[r].status = "running" => queue # <<>> /\ r = Head(queue)
    BY <1>0, ElementFacts DEF QueueInv
  <1>2. CASE UNCHANGED <<queue, job>>
    BY <1>2 DEF QueueInv
  <1>3. ASSUME NEW r \in Requests, Accept(r)
        PROVE  QueueInv'
    <2>1. job[r].status = "none" /\ queue' = Append(queue, r)
      BY <1>3 DEF Accept, CallInv
    <2>2. (\A q \in Requests : q # r => job'[q] = job[q]) /\ job'[r].status = "queued"
      BY <1>3 DEF Accept, TypeOK
    <2>3. /\ Len(queue') = Len(queue) + 1 /\ queue'[Len(queue) + 1] = r
          /\ \A i \in 1..Len(queue) : queue'[i] = queue[i]
          /\ queue' # <<>>
      BY <1>0, <2>1
    <2>4. \A i \in 1..Len(queue) : queue[i] # r
      BY <1>1, <2>1
    <2>5. \A i \in 1..Len(queue') : i \in 1..Len(queue) \/ i = Len(queue) + 1
      BY <1>0, <2>3
    <2>6. \A i \in 1..Len(queue') : job'[queue'[i]].status \in {"queued", "running"}
      BY <1>1, <2>2, <2>3, <2>4, <2>5
    <2>7. \A i, j \in 1..Len(queue') : queue'[i] = queue'[j] => i = j
      BY <1>1, <2>3, <2>4, <2>5
    <2>8. queue # <<>> => Head(queue') = Head(queue)
      BY <1>0, <2>1
    <2>9. QED
      BY <1>1, <2>2, <2>3, <2>6, <2>7, <2>8 DEF QueueInv
  <1>4. ASSUME NEW r \in Requests, JobStep(r)
        PROVE  QueueInv'
    <2>1. /\ queue # <<>> /\ r = Head(queue)
          /\ \A q \in Requests : q # r => job'[q] = job[q]
          /\ \/ queue' = queue /\ job'[r].status = "running"
             \/ queue' = Tail(queue) /\ job'[r].status \in {"failed", "done"}
      BY <1>4, JobEffect
    <2>2. queue[1] = r /\ 1 \in 1..Len(queue)
      BY <1>0, <2>1
    <2>3. CASE queue' = queue /\ job'[r].status = "running"
      <3>1. \A i \in 1..Len(queue) : job'[queue[i]].status \in {"queued", "running"}
        BY <1>1, <2>1, <2>3
      <3>2. QED
        BY <1>1, <2>1, <2>3, <3>1 DEF QueueInv
    <2>4. CASE queue' = Tail(queue) /\ job'[r].status \in {"failed", "done"}
      <3>1. /\ Len(queue') = Len(queue) - 1
            /\ \A i \in 1..Len(queue') : i + 1 \in 1..Len(queue) /\ queue'[i] = queue[i + 1]
        BY <1>0, <2>1, <2>4, EndsFacts
      <3>2. \A i \in 1..Len(queue') : queue'[i] # r
        BY <1>1, <2>2, <3>1
      <3>3. \A i \in 1..Len(queue') : job'[queue'[i]].status \in {"queued", "running"}
        BY <1>1, <2>1, <3>1, <3>2
      <3>4. \A i, j \in 1..Len(queue') : queue'[i] = queue'[j] => i = j
        BY <1>1, <3>1
      <3>5. \A q \in Requests : job'[q].status # "running"
        BY <1>1, <2>1, <2>4
      <3>6. QED
        BY <3>3, <3>4, <3>5 DEF QueueInv
    <2>5. QED
      BY <2>1, <2>3, <2>4
  <1>5. CASE AgentRestart
    <2>1. queue' = <<>>
          /\ \A r \in Requests : job'[r] = IF r \in Range(queue)
                                           THEN [job[r] EXCEPT !.status = "lost"]
                                           ELSE job[r]
      BY <1>5 DEF AgentRestart
    <2>2. \A r \in Requests : job[r].status = "running" => r \in Range(queue)
      <3>1. queue # <<>> => Head(queue) \in Range(queue)
        BY <1>0 DEF Range
      <3>2. QED
        BY <1>1, <3>1
    <2>3. \A r \in Requests : job'[r].status # "running"
      <3>1. \A r \in Requests : job[r] \in JobRecords
        BY TypeParts DEF AgentTypes
      <3>2. QED
        BY <2>1, <2>2, <3>1 DEF JobRecords
    <2>4. QED
      BY <2>1, <2>3 DEF QueueInv
  <1>6. ASSUME NEW r \in Requests, NEW p \in Plans, execute_plan(r, p)
        PROVE  QueueInv'
    BY <1>2, <1>6 DEF execute_plan, agentVars
  <1>7. QED
    BY <1>2, <1>3, <1>4, <1>5, <1>6, AgentEffect-----------------------------------------------------------------------------
(* The host and the running job.                                            *)

HostInv == TodoInv /\ DiskInv /\ MakingInv /\ VolumeInv /\ VolumeIntact

\* Nothing is lost while the host stays as it is and no job takes a step.
LEMMA SameHost ==
    ASSUME TypeOK, CallInv, [Next]_vars, HostInv, UNCHANGED hostVars,
           \A r \in Requests : job'[r].status = "running" =>
             job[r].status = "running" /\ job'[r].todo = job[r].todo
    PROVE  HostInv'
  <1>1. ASSUME NEW r \in Requests, job'[r].status = "running"
        PROVE  /\ job[r].status = "running" /\ PlanOf(r)' = PlanOf(r)
               /\ Left(r)' = Left(r) /\ Done(r)' = Done(r) /\ job'[r].todo = job[r].todo
               /\ DisksOf(r)' = DisksOf(r)
    <2>1. job[r].status = "running" /\ job'[r].todo = job[r].todo
      BY <1>1
    <2>2. PlanOf(r)' = PlanOf(r)
      BY <2>1, PlansKept DEF CallInv, PlanOf
    <2>3. QED
      BY <2>1, <2>2 DEF Left, Done, DisksOf
  <1>2. TodoInv'
    BY <1>1 DEF HostInv, TodoInv
  <1>3. DiskInv'
    BY <1>1 DEF HostInv, DiskInv, hostVars, Present
  <1>4. MakingInv'
    BY <1>1 DEF HostInv, MakingInv, hostVars
  <1>5. VolumeInv' /\ VolumeIntact'
    BY DEF HostInv, VolumeInv, VolumeIntact, hostVars
  <1>6. QED
    BY <1>2, <1>3, <1>4, <1>5 DEF HostInv

\* The job's body starts.
LEMMA CheckHost ==
    ASSUME TypeOK, CallInv, QueueInv, HostInv, NEW r \in Requests, Check(r)
    PROVE  HostInv'
  <1>1. /\ PlanOf(r) \in PlanRecords /\ Runs(r, "queued")
        /\ PlanOf(r)' = PlanOf(r) /\ DisksOf(r)' = DisksOf(r)
    BY JobFacts DEF Check, Runs, webVars, PlanOf, DisksOf
  <1>2. job'[r] = [status |-> "running", todo |-> build_steps(PlanOf(r))]
        /\ \A q \in Requests : q # r => job'[q] = job[q]
    BY DEF Check, TypeOK
  <1>3. \A q \in Requests : job'[q].status = "running" => q = r
    BY <1>1, <1>2 DEF Runs, QueueInv
  <1>4. /\ Left(r)' = Len(build_steps(PlanOf(r))) /\ Done(r)' = 0
        /\ job'[r].todo = build_steps(PlanOf(r)) /\ Left(r)' >= 11 /\ Left(r)' \in Nat
    <2>1. /\ Len(build_steps(PlanOf(r))) = Partition(PlanOf(r)) + 10 - Skipped(PlanOf(r))
          /\ Partition(PlanOf(r)) \in Nat /\ Skipped(PlanOf(r)) \in {0, 1}
      BY <1>1, BuildFacts
    <2>2. Partition(PlanOf(r)) >= 2
      <3>1. PlanOf(r).disks # <<>> /\ PlanOf(r).disks \in Seq(Disks)
        BY <1>1, DisksFacts, JobFacts DEF Runs
      <3>2. QED
        BY <3>1 DEF Partition
    <2>3. QED
      BY <1>1, <1>2, <2>1, <2>2 DEF Left, Done
  <1>5. UNCHANGED hostVars /\ Resolves(r)
    BY DEF Check
  <1>6. TodoInv'
    <2>1. SUFFICES ASSUME NEW q \in Requests, job'[q].status = "running"
                   PROVE  /\ Left(q)' <= Len(build_steps(PlanOf(q)))'
                          /\ \A i \in 1..Left(q)' :
                               job'[q].todo[i] = build_steps(PlanOf(q)')[Done(q)' + i]
      BY DEF TodoInv
    <2>2. q = r
      BY <1>3, <2>1
    <2>3. \A i \in 1..Left(r)' : Done(r)' + i = i
      BY <1>4
    <2>4. QED
      BY <1>1, <1>4, <2>2, <2>3
  <1>7. DiskInv'
    <2>1. ASSUME NEW d \in DisksOf(r)
          PROVE  /\ Present(d)' /\ size'[d] = PlanOf(r).shown[d] /\ use'[d] = "blank"
                 /\ \A v \in lvs' : d \notin vgs'[v]
      BY <1>5, <2>1 DEF Resolves, Present, Protected, hostVars
    <2>2. \A i \in 1..Len(PlanOf(r).disks) : ~(2 * i - 1 <= 0)
      OBVIOUS
    <2>3. QED
      BY <1>1, <1>3, <1>4, <2>1, <2>2 DEF DiskInv
  <1>8. MakingInv'
    BY <1>3, <1>4 DEF MakingInv
  <1>9. VolumeInv' /\ VolumeIntact'
    BY <1>5 DEF HostInv, VolumeInv, VolumeIntact, hostVars
  <1>10. QED
    BY <1>6, <1>7, <1>8, <1>9 DEF HostInv

\* A step of the running job moves on by one.
LEMMA StepEffect ==
    ASSUME TypeOK, CallInv, QueueInv, TodoInv, NEW r \in Requests, NEW op, StepIs(r, op)
    PROVE  /\ job[r].status = "running" /\ job[r].todo # <<>>
           /\ Head(job[r].todo)[1] = op
           /\ PlanOf(r)' = PlanOf(r) /\ DisksOf(r)' = DisksOf(r)
           /\ Left(r) \in Nat /\ Left(r)' = Left(r) - 1
           /\ Done(r) \in Nat /\ Done(r)' = Done(r) + 1
           /\ \A q \in Requests : job'[q].status = "running" => q = r
           /\ TodoInv'
  <1>1. /\ job[r].status = "running" /\ job[r].todo # <<>> /\ Head(job[r].todo)[1] = op
        /\ PlanOf(r)' = PlanOf(r) /\ DisksOf(r)' = DisksOf(r)
    BY DEF StepIs, Runs, webVars, PlanOf, DisksOf
  <1>2. /\ job'[r].todo = Tail(job[r].todo)
        /\ \A q \in Requests : q # r => job'[q] = job[q]
    BY DEF StepIs, TypeOK
  <1>3. \A q \in Requests : job'[q].status = "running" => q = r
    BY <1>2 DEF StepIs, Runs, QueueInv
  <1>4. job[r].todo \in Seq(Steps)
    BY TypeParts DEF AgentTypes, JobRecords
  <1>5. /\ Left(r) \in Nat /\ Left(r) >= 1 /\ Left(r)' = Left(r) - 1
        /\ \A i \in 1..Left(r)' : i + 1 \in 1..Left(r) /\ job'[r].todo[i] = job[r].todo[i + 1]
    BY <1>1, <1>2, <1>4, EndsFacts DEF Left
  <1>6. Done(r) \in Nat
    BY <1>1, StepFacts
  <1>7. Len(build_steps(PlanOf(r))) \in Nat
    <2>1. PlanOf(r) \in PlanRecords
      BY <1>1, StepFacts
    <2>2. QED
      BY <2>1, BuildFacts
  <1>8. Done(r)' = Done(r) + 1
    BY <1>1, <1>5, <1>7 DEF Done
  <1>9. TodoInv'
    <2>1. SUFFICES ASSUME NEW q \in Requests, job'[q].status = "running"
                   PROVE  /\ Left(q)' <= Len(build_steps(PlanOf(q)))'
                          /\ \A i \in 1..Left(q)' :
                               job'[q].todo[i] = build_steps(PlanOf(q)')[Done(q)' + i]
      BY DEF TodoInv
    <2>2. q = r
      BY <1>3, <2>1
    <2>3. /\ Left(r) <= Len(build_steps(PlanOf(r)))
          /\ \A i \in 1..Left(r) : job[r].todo[i] = build_steps(PlanOf(r))[Done(r) + i]
      BY <1>1 DEF TodoInv
    <2>4. \A i \in 1..Left(r)' : Done(r)' + i = Done(r) + (i + 1)
      BY <1>5, <1>6, <1>8
    <2>5. Left(r)' <= Len(build_steps(PlanOf(r)))
      BY <1>5, <1>7, <2>3
    <2>6. \A i \in 1..Left(r)' :
            job'[r].todo[i] = build_steps(PlanOf(r))[Done(r)' + i]
      <3>1. TAKE i \in 1..Left(r)'
      <3>2. job'[r].todo[i] = build_steps(PlanOf(r))[Done(r) + (i + 1)]
        BY <1>5, <2>3, <3>1
      <3>3. QED
        BY <2>4, <3>1, <3>2
    <2>7. QED
      BY <1>1, <2>2, <2>5, <2>6
  <1>10. QED
    BY <1>1, <1>3, <1>5, <1>6, <1>8, <1>9
\* What the invariants say of the running job before one of its steps, and
\* how its place decides what they ask for after it.
LEMMA StepNeeds ==
    ASSUME TypeOK, CallInv, QueueInv, HostInv, NEW r \in Requests, NEW op, StepIs(r, op)
    PROVE  /\ PlanOf(r) \in PlanRecords /\ PlanOf(r).vol \in Volumes
           /\ DisksOf(r) \subseteq Disks /\ DisksOf(r) # {}
           /\ Left(r) >= 1
           /\ op = "wipefs" => /\ Left(r) >= 11
                               /\ Head(job[r].todo)[2] \in DisksOf(r)
           /\ op = "mdadm" => Left(r) = 10
           /\ op = "vgcreate" <=> Left(r) = 8
           /\ op = "lvcreate" <=> Left(r) = 7
           /\ op = "enable_start_unit" <=> Left(r) = 1
           /\ Left(r) <= 9 => \A d \in DisksOf(r) : erasedBy[d] = r
           /\ \A i \in 1..Len(PlanOf(r).disks) :
                2 * i - 1 <= Done(r)' =>
                  \/ erasedBy[PlanOf(r).disks[i]] = r
                  \/ op = "wipefs" /\ Head(job[r].todo)[2] = PlanOf(r).disks[i]
  <1> DEFINE plan == PlanOf(r)
             h == Head(job[r].todo)
  <1>1. /\ job[r].status = "running" /\ job[r].todo # <<>> /\ h[1] = op
        /\ Left(r) \in Nat /\ Done(r) \in Nat /\ Done(r)' = Done(r) + 1
    BY StepEffect DEF HostInv
  <1>2. /\ PlanOf(r) \in PlanRecords /\ PlanOf(r).vol \in Volumes
        /\ DisksOf(r) \subseteq Disks /\ DisksOf(r) # {} /\ plan.disks \in Seq(Disks)
        /\ \A i \in 1..Len(plan.disks) : plan.disks[i] \in DisksOf(r)
        /\ \A d \in DisksOf(r) : \E i \in 1..Len(plan.disks) : d = plan.disks[i]
    BY <1>1, JobFacts, DisksFacts DEF DisksOf
  <1>3. /\ Left(r) >= 1
        /\ h[1] = "wipefs" =>
             /\ Left(r) >= 11
             /\ \E i \in 1..Len(plan.disks) : h[2] = plan.disks[i] /\ 2 * i - 1 = Done(r) + 1
        /\ h[1] # "wipefs" => \A i \in 1..Len(plan.disks) : 2 * i - 1 # Done(r) + 1
        /\ h[1] = "mdadm" => Left(r) = 10
        /\ h[1] = "vgcreate" <=> Left(r) = 8
        /\ h[1] = "lvcreate" <=> Left(r) = 7
        /\ h[1] = "enable_start_unit" <=> Left(r) = 1
        /\ Left(r) <= 9 => \A i \in 1..Len(plan.disks) : 2 * i - 1 <= Done(r)
    BY <1>1, StepFacts DEF HostInv
  <1>4. \A i \in 1..Len(plan.disks) : 2 * i - 1 <= Done(r) => erasedBy[plan.disks[i]] = r
    BY <1>1 DEF HostInv, DiskInv
  <1>5. Left(r) <= 9 => \A d \in DisksOf(r) : erasedBy[d] = r
    BY <1>2, <1>3, <1>4
  <1>6. Len(plan.disks) \in Nat
    BY <1>2
  <1> HIDE DEF plan, h
  <1>7. \A i \in 1..Len(plan.disks) : 2 * i - 1 <= Done(r)' =>
          \/ erasedBy[plan.disks[i]] = r
          \/ op = "wipefs" /\ h[2] = plan.disks[i]
    <2>1. SUFFICES ASSUME NEW i \in 1..Len(plan.disks), 2 * i - 1 <= Done(r)'
                   PROVE  \/ erasedBy[plan.disks[i]] = r
                          \/ op = "wipefs" /\ h[2] = plan.disks[i]
      OBVIOUS
    <2>2. CASE 2 * i - 1 <= Done(r)
      BY <1>4, <2>2
    <2>3. CASE ~(2 * i - 1 <= Done(r))
      <3>1. 2 * i - 1 = Done(r) + 1
        BY <1>1, <1>6, <2>1, <2>3
      <3>2. op = "wipefs"
        BY <1>1, <1>3, <3>1
      <3>3. PICK k \in 1..Len(plan.disks) : h[2] = plan.disks[k] /\ 2 * k - 1 = Done(r) + 1
        BY <1>1, <1>3, <3>2
      <3>4. k = i
        BY <1>6, <3>1, <3>3
      <3>5. QED
        BY <3>2, <3>3, <3>4
    <2>4. QED
      BY <2>2, <2>3
  <1>8. op = "wipefs" => h[2] \in DisksOf(r)
    BY <1>1, <1>2, <1>3
  <1>9. QED
    BY <1>1, <1>2, <1>3, <1>5, <1>7, <1>8 DEF plan, h

\* A step that leaves the host as it is, or makes an array of the disks.
LEMMA QuietStep ==
    ASSUME TypeOK, CallInv, QueueInv, HostInv, NEW r \in Requests, NEW op, StepIs(r, op),
           op \notin {"wipefs", "vgcreate", "lvcreate", "enable_start_unit"},
           op = "mdadm" \/ use' = use,
           UNCHANGED <<size, erasedBy, vgs, lvs, mounted>>
    PROVE  HostInv'
  <1>1. /\ job[r].status = "running"
        /\ PlanOf(r)' = PlanOf(r) /\ DisksOf(r)' = DisksOf(r)
        /\ Left(r) \in Nat /\ Left(r)' = Left(r) - 1
        /\ \A q \in Requests : job'[q].status = "running" => q = r
        /\ TodoInv'
    BY StepEffect DEF HostInv
  <1>2. /\ Left(r) >= 1 /\ Left(r) \notin {8, 7, 1}
        /\ \A i \in 1..Len(PlanOf(r).disks) :
             2 * i - 1 <= Done(r)' => erasedBy[PlanOf(r).disks[i]] = r
    BY StepNeeds
  <1>3. DiskInv'
    <2>1. /\ \A d \in DisksOf(r) : Present(d) /\ size[d] = PlanOf(r).shown[d]
          /\ Left(r) >= 10 => \A d \in DisksOf(r) : use[d] = "blank"
          /\ Left(r) >= 7 => \A d \in DisksOf(r), v \in lvs : d \notin vgs[v]
      BY <1>1 DEF HostInv, DiskInv
    <2>2. /\ Left(r)' >= 10 => Left(r) >= 10 /\ use' = use
          /\ Left(r)' >= 7 => Left(r) >= 7
      BY <1>1, StepNeeds
    <2>3. QED
      BY <1>1, <1>2, <2>1, <2>2 DEF DiskInv, Present
  <1>4. MakingInv'
    <2>1. /\ Left(r) <= 7 => vgs[PlanOf(r).vol] = DisksOf(r)
          /\ Left(r) <= 6 => PlanOf(r).vol \in lvs
          /\ Left(r) \in 1..7 => mounted[PlanOf(r).vol] = NoRequest
      BY <1>1 DEF HostInv, MakingInv
    <2>2. /\ Left(r)' <= 7 => Left(r) <= 7
          /\ Left(r)' <= 6 => Left(r) <= 6
          /\ Left(r)' \in 1..7 => Left(r) \in 1..7
          /\ Left(r)' # 0
      BY <1>1, <1>2
    <2>3. QED
      BY <1>1, <2>1, <2>2 DEF MakingInv
  <1>5. VolumeInv' /\ VolumeIntact'
    BY DEF HostInv, VolumeInv, VolumeIntact
  <1>6. QED
    BY <1>1, <1>3, <1>4, <1>5 DEF HostInv

LEMMA WipefsHost ==
    ASSUME TypeOK, CallInv, QueueInv, HostInv, NEW r \in Requests, Wipefs(r)
    PROVE  HostInv'
  <1> DEFINE d == Head(job[r].todo)[2]
  <1>0. StepIs(r, "wipefs")
    BY DEF Wipefs
  <1>1. /\ job[r].status = "running"
        /\ PlanOf(r)' = PlanOf(r) /\ DisksOf(r)' = DisksOf(r)
        /\ Left(r) \in Nat /\ Left(r)' = Left(r) - 1
        /\ \A q \in Requests : job'[q].status = "running" => q = r
        /\ TodoInv'
    BY <1>0, StepEffect DEF HostInv
  <1>2. /\ Left(r) >= 11 /\ d \in DisksOf(r) /\ DisksOf(r) \subseteq Disks
        /\ PlanOf(r).disks \in Seq(Disks)
        /\ \A i \in 1..Len(PlanOf(r).disks) :
             2 * i - 1 <= Done(r)' => \/ erasedBy[PlanOf(r).disks[i]] = r
                                      \/ d = PlanOf(r).disks[i]
    <2>1. PlanOf(r) \in PlanRecords
      BY <1>0, StepNeeds
    <2>2. QED
      BY <1>0, <2>1, StepNeeds, DisksFacts
  <1>3. /\ erasedBy \in [Disks -> Requests \cup {NoRequest}]
        /\ use \in [Disks -> {"blank", "foreign", "raid"}]
        /\ erasedBy' = [erasedBy EXCEPT ![d] = r]
        /\ use' = [use EXCEPT ![d] = "blank"]
        /\ UNCHANGED <<size, vgs, lvs, mounted>>
    BY DEF Wipefs, TypeOK
  <1>4. /\ \A e \in DisksOf(r) : Present(e) /\ size[e] = PlanOf(r).shown[e] /\ use[e] = "blank"
        /\ \A e \in DisksOf(r), v \in lvs : e \notin vgs[v]
    BY <1>1, <1>2 DEF HostInv, DiskInv
  <1> HIDE DEF d
  <1>5. \A e \in DisksOf(r) : use'[e] = "blank"
    BY <1>2, <1>3, <1>4
  <1>6. \A i \in 1..Len(PlanOf(r).disks) :
          2 * i - 1 <= Done(r)' => erasedBy'[PlanOf(r).disks[i]] = r
    <2>1. \A i \in 1..Len(PlanOf(r).disks) : PlanOf(r).disks[i] \in Disks
      BY <1>2, ElementFacts
    <2>2. QED
      BY <1>2, <1>3, <2>1
  <1>7. DiskInv'
    BY <1>1, <1>3, <1>4, <1>5, <1>6 DEF DiskInv, Present
  <1>8. MakingInv'
    BY <1>1, <1>2 DEF MakingInv
  <1>9. VolumeInv'
    BY <1>3 DEF HostInv, VolumeInv
  <1>10. VolumeIntact'
    <2>1. \A v, w \in lvs : v # w => vgs[v] \cap vgs[w] = {}
      BY DEF HostInv, VolumeIntact
    <2>2. ASSUME NEW v \in Volumes, mounted[v] # NoRequest, NEW e \in vgs[v]
          PROVE  erasedBy'[e] = mounted[v]
      <3>1. v \in lvs /\ erasedBy[e] = mounted[v]
        BY <2>2 DEF HostInv, VolumeInv, VolumeIntact
      <3>2. e # d /\ e \in Disks
        BY <1>2, <1>4, <2>2, <3>1 DEF TypeOK
      <3>3. QED
        BY <1>3, <3>1, <3>2
    <2>3. QED
      BY <1>3, <2>1, <2>2 DEF VolumeIntact
  <1>11. QED
    BY <1>1, <1>7, <1>8, <1>9, <1>10 DEF HostInv
LEMMA VgcreateHost ==
    ASSUME TypeOK, CallInv, QueueInv, HostInv, NEW r \in Requests, Vgcreate(r)
    PROVE  HostInv'
  <1> DEFINE vol == PlanOf(r).vol
  <1>0. StepIs(r, "vgcreate")
    BY DEF Vgcreate
  <1>1. /\ job[r].status = "running"
        /\ PlanOf(r)' = PlanOf(r) /\ DisksOf(r)' = DisksOf(r)
        /\ Left(r) \in Nat /\ Left(r)' = Left(r) - 1
        /\ \A q \in Requests : job'[q].status = "running" => q = r
        /\ TodoInv'
    BY <1>0, StepEffect DEF HostInv
  <1>2. /\ Left(r) = 8 /\ vol \in Volumes
        /\ \A i \in 1..Len(PlanOf(r).disks) :
             2 * i - 1 <= Done(r)' => erasedBy[PlanOf(r).disks[i]] = r
    BY <1>0, StepNeeds
  <1>3. /\ vgs \in [Volumes -> SUBSET Disks] /\ vgs[vol] = {}
        /\ vgs' = [vgs EXCEPT ![vol] = DisksOf(r)]
        /\ UNCHANGED <<use, size, erasedBy, lvs, mounted>>
    BY DEF Vgcreate, TypeOK
  <1>4. vol \notin lvs /\ mounted[vol] = NoRequest
    BY <1>2, <1>3 DEF HostInv, VolumeInv
  <1>5. \A v \in Volumes : v # vol => vgs'[v] = vgs[v]
    BY <1>3
  <1>6. lvs \subseteq Volumes
    BY DEF TypeOK
  <1>7. DiskInv'
    <2>1. /\ \A d \in DisksOf(r) : Present(d) /\ size[d] = PlanOf(r).shown[d]
          /\ \A d \in DisksOf(r), v \in lvs : d \notin vgs[v]
      BY <1>1, <1>2 DEF HostInv, DiskInv
    <2>2. \A d \in DisksOf(r), v \in lvs' : d \notin vgs'[v]
      BY <1>3, <1>4, <1>5, <1>6, <2>1
    <2>3. QED
      BY <1>1, <1>2, <1>3, <2>1, <2>2 DEF DiskInv, Present
  <1>8. MakingInv'
    <2>1. vgs'[vol] = DisksOf(r) /\ mounted'[vol] = NoRequest
      BY <1>2, <1>3, <1>4
    <2>2. QED
      BY <1>1, <1>2, <2>1 DEF MakingInv
  <1>9. VolumeInv'
    BY <1>3, <1>4, <1>5, <1>6 DEF HostInv, VolumeInv
  <1>10. VolumeIntact'
    BY <1>3, <1>4, <1>5, <1>6 DEF HostInv, VolumeIntact
  <1>11. QED
    BY <1>1, <1>7, <1>8, <1>9, <1>10 DEF HostInv

LEMMA LvcreateHost ==
    ASSUME TypeOK, CallInv, QueueInv, HostInv, NEW r \in Requests, Lvcreate(r)
    PROVE  HostInv'
  <1> DEFINE vol == PlanOf(r).vol
  <1>0. StepIs(r, "lvcreate")
    BY DEF Lvcreate
  <1>1. /\ job[r].status = "running"
        /\ PlanOf(r)' = PlanOf(r) /\ DisksOf(r)' = DisksOf(r)
        /\ Left(r) \in Nat /\ Left(r)' = Left(r) - 1
        /\ \A q \in Requests : job'[q].status = "running" => q = r
        /\ TodoInv'
    BY <1>0, StepEffect DEF HostInv
  <1>2. /\ Left(r) = 7 /\ vol \in Volumes /\ DisksOf(r) # {}
        /\ \A i \in 1..Len(PlanOf(r).disks) :
             2 * i - 1 <= Done(r)' => erasedBy[PlanOf(r).disks[i]] = r
    BY <1>0, StepNeeds
  <1>3. lvs' = lvs \cup {vol} /\ UNCHANGED <<use, size, erasedBy, vgs, mounted>>
    BY DEF Lvcreate
  <1>4. /\ \A d \in DisksOf(r) : Present(d) /\ size[d] = PlanOf(r).shown[d]
        /\ \A d \in DisksOf(r), v \in lvs : d \notin vgs[v]
    BY <1>1, <1>2 DEF HostInv, DiskInv
  <1>5. vgs[vol] = DisksOf(r) /\ mounted[vol] = NoRequest
    BY <1>1, <1>2 DEF HostInv, MakingInv
  <1>6. DiskInv'
    BY <1>1, <1>2, <1>3, <1>4 DEF DiskInv, Present
  <1>7. MakingInv'
    BY <1>1, <1>2, <1>3, <1>5 DEF MakingInv
  <1>8. VolumeInv'
    BY <1>2, <1>3, <1>5 DEF HostInv, VolumeInv
  <1>9. VolumeIntact'
    BY <1>3, <1>4, <1>5 DEF HostInv, VolumeIntact
  <1>10. QED
    BY <1>1, <1>6, <1>7, <1>8, <1>9 DEF HostInv

LEMMA EnableHost ==
    ASSUME TypeOK, CallInv, QueueInv, HostInv, NEW r \in Requests, EnableStartUnit(r)
    PROVE  HostInv'
  <1> DEFINE vol == PlanOf(r).vol
  <1>0. StepIs(r, "enable_start_unit")
    BY DEF EnableStartUnit
  <1>1. /\ job[r].status = "running"
        /\ PlanOf(r)' = PlanOf(r) /\ DisksOf(r)' = DisksOf(r)
        /\ Left(r) \in Nat /\ Left(r)' = Left(r) - 1
        /\ \A q \in Requests : job'[q].status = "running" => q = r
        /\ TodoInv'
    BY <1>0, StepEffect DEF HostInv
  <1>2. /\ Left(r) = 1 /\ vol \in Volumes
        /\ \A d \in DisksOf(r) : erasedBy[d] = r
        /\ \A i \in 1..Len(PlanOf(r).disks) :
             2 * i - 1 <= Done(r)' => erasedBy[PlanOf(r).disks[i]] = r
    BY <1>0, StepNeeds
  <1>3. /\ mounted \in [Volumes -> Requests \cup {NoRequest}]
        /\ mounted' = [mounted EXCEPT ![vol] = r]
        /\ UNCHANGED <<use, size, erasedBy, vgs, lvs>>
    BY DEF EnableStartUnit, TypeOK
  <1>4. vgs[vol] = DisksOf(r) /\ vol \in lvs
    BY <1>1, <1>2 DEF HostInv, MakingInv
  <1>5. mounted'[vol] = r /\ \A v \in Volumes : v # vol => mounted'[v] = mounted[v]
    BY <1>2, <1>3
  <1>6. \A d \in DisksOf(r) : Present(d) /\ size[d] = PlanOf(r).shown[d]
    BY <1>1 DEF HostInv, DiskInv
  <1>7. DiskInv'
    BY <1>1, <1>2, <1>3, <1>6 DEF DiskInv, Present
  <1>8. MakingInv'
    BY <1>1, <1>2, <1>3, <1>4, <1>5 DEF MakingInv
  <1>9. VolumeInv'
    BY <1>3, <1>4, <1>5 DEF HostInv, VolumeInv
  <1>10. VolumeIntact'
    BY <1>2, <1>3, <1>4, <1>5 DEF HostInv, VolumeIntact
  <1>11. QED
    BY <1>1, <1>7, <1>8, <1>9, <1>10 DEF HostInv

\* What other people do to disks leaves the running job's alone.
LEMMA OutsideHost ==
    ASSUME TypeOK, CallInv, HostInv, NEW d \in Disks, d \notin Claimed,
           UNCHANGED <<erasedBy, vgs, lvs, mounted, job, requests>>,
           \A e \in Disks : e # d => use'[e] = use[e] /\ size'[e] = size[e]
    PROVE  HostInv'
  <1>1. \A r \in Requests : /\ PlanOf(r)' = PlanOf(r) /\ DisksOf(r)' = DisksOf(r)
                            /\ Left(r)' = Left(r) /\ Done(r)' = Done(r)
    BY DEF PlanOf, DisksOf, Left, Done
  <1>2. TodoInv' /\ MakingInv' /\ VolumeInv' /\ VolumeIntact'
    BY <1>1 DEF HostInv, TodoInv, MakingInv, VolumeInv, VolumeIntact
  <1>3. ASSUME NEW r \in Requests, job[r].status = "running", NEW e \in DisksOf(r)
        PROVE  e # d /\ e \in Disks /\ use'[e] = use[e] /\ size'[e] = size[e]
    BY <1>3, JobFacts DEF Claimed
  <1>4. DiskInv'
    <2>1. SUFFICES ASSUME NEW r \in Requests, job[r].status = "running"
                   PROVE  /\ \A e \in DisksOf(r) : Present(e)' /\ size'[e] = PlanOf(r).shown[e]
                          /\ \A i \in 1..Len(PlanOf(r).disks) :
                               2 * i - 1 <= Done(r) => erasedBy[PlanOf(r).disks[i]] = r
                          /\ Left(r) >= 10 => \A e \in DisksOf(r) : use'[e] = "blank"
                          /\ Left(r) >= 7 => \A e \in DisksOf(r), v \in lvs : e \notin vgs[v]
      BY <1>1 DEF DiskInv
    <2>2. QED
      BY <1>3, <2>1 DEF HostInv, DiskInv, Present
  <1>5. QED
    BY <1>2, <1>4 DEF HostInv

LEMMA HostStep ==
    ASSUME TypeOK, CallInv, QueueInv, HostInv, [Next]_vars
    PROVE  HostInv'
  <1>1. ASSUME UNCHANGED <<hostVars, job>>
        PROVE  HostInv'
    BY <1>1, SameHost
  <1>2. ASSUME NEW r \in Requests, JobStep(r)
        PROVE  HostInv'
    <2>1. CASE Check(r)
      BY <2>1, CheckHost
    <2>2. CASE CheckFails(r) \/ StepFails(r) \/ Finish(r)
      <3>1. UNCHANGED hostVars
        BY <2>2 DEF CheckFails, StepFails, Finish, Ended
      <3>2. \A q \in Requests : q # r => job'[q] = job[q]
        BY <1>2, JobEffect
      <3>3. job'[r].status # "running"
        BY <2>2 DEF CheckFails, StepFails, Finish, Ended, TypeOK
      <3>4. QED
        BY <3>1, <3>2, <3>3, SameHost
    <2>3. CASE Wipefs(r)
      BY <2>3, WipefsHost
    <2>4. CASE Vgcreate(r)
      BY <2>4, VgcreateHost
    <2>5. CASE Lvcreate(r)
      BY <2>5, LvcreateHost
    <2>6. CASE EnableStartUnit(r)
      BY <2>6, EnableHost
    <2>7. CASE Mdadm(r)
      BY <2>7, QuietStep DEF Mdadm
    <2>8. CASE WriteDropins(r)
      BY <2>8, QuietStep DEF WriteDropins
    <2>9. CASE PlainStep(r)
      <3>1. PICK op \in {"mkpart", "pvcreate", "mkfs", "write_mount_unit",
                         "write_target", "daemon_reload"} : StepIs(r, op)
        BY <2>9 DEF PlainStep
      <3>2. op \notin {"wipefs", "vgcreate", "lvcreate", "enable_start_unit"}
        BY <3>1
      <3>3. UNCHANGED <<use, size, erasedBy, vgs, lvs, mounted>>
        BY <2>9 DEF PlainStep, hostVars
      <3>4. QED
        BY <3>1, <3>2, <3>3, QuietStep
    <2>10. QED
      BY <1>2, <2>1, <2>2, <2>3, <2>4, <2>5, <2>6, <2>7, <2>8, <2>9 DEF JobStep
  <1>3. ASSUME NEW r \in Requests, Accept(r)
        PROVE  HostInv'
    <2>1. UNCHANGED hostVars /\ job'[r].status # "running"
          /\ \A q \in Requests : q # r => job'[q] = job[q]
      BY <1>3 DEF Accept, TypeOK
    <2>2. QED
      BY <2>1, SameHost
  <1>4. CASE AgentRestart
    <2>1. /\ UNCHANGED hostVars
          /\ \A r \in Requests : job'[r] = IF r \in Range(queue)
                                           THEN [job[r] EXCEPT !.status = "lost"]
                                           ELSE job[r]
      BY <1>4 DEF AgentRestart
    <2>2. \A r \in Requests : job[r] \in JobRecords
      BY TypeParts DEF AgentTypes
    <2>3. \A r \in Requests : job'[r].status = "running" => job'[r] = job[r]
      BY <2>1, <2>2 DEF JobRecords
    <2>4. QED
      BY <2>1, <2>3, SameHost
  <1>5. ASSUME NEW p \in Plans, post_plan(p) \/ Expire(p)
        PROVE  HostInv'
    BY <1>1, <1>5 DEF post_plan, create_plan, Expire, agentVars
  <1>6. ASSUME NEW r \in Requests, post_execute(r) \/ ExecuteReturns(r)
        PROVE  HostInv'
    BY <1>1, <1>6 DEF post_execute, execute_plan, ExecuteReturns, agentVars
  <1>7. CASE post_volume \/ Register \/ RegisterFails \/ Connect \/ ConnectionBreaks
             \/ WebRestart \/ UNCHANGED vars
    BY <1>1, <1>7 DEF post_volume, register_volume, Register, RegisterFails, Connect,
                      ConnectionBreaks, WebRestart, agentVars, vars
  <1>8. ASSUME NEW d \in Disks, NEW u \in {"blank", "foreign"}, OutsideUse(d, u)
        PROVE  HostInv'
    <2>1. d \notin Claimed
      BY <1>8 DEF OutsideUse
    <2>2. \A e \in Disks : e # d => use'[e] = use[e] /\ size'[e] = size[e]
      BY <1>8 DEF OutsideUse, TypeOK
    <2>3. UNCHANGED <<erasedBy, vgs, lvs, mounted, job, requests>>
      BY <1>8 DEF OutsideUse, webVars, agentVars
    <2>4. QED
      BY <2>1, <2>2, <2>3, OutsideHost
  <1>9. ASSUME NEW d \in Disks, NEW s \in Sizes \cup {Unplugged}, Hotplug(d, s)
        PROVE  HostInv'
    <2>1. d \notin Claimed
      BY <1>9 DEF Hotplug
    <2>2. \A e \in Disks : e # d => use'[e] = use[e] /\ size'[e] = size[e]
      BY <1>9 DEF Hotplug, TypeOK
    <2>3. UNCHANGED <<erasedBy, vgs, lvs, mounted, job, requests>>
      BY <1>9 DEF Hotplug, webVars, agentVars
    <2>4. QED
      BY <2>1, <2>2, <2>3, OutsideHost
  <1>10. QED
    BY <1>2, <1>3, <1>4, <1>5, <1>6, <1>7, <1>8, <1>9 DEF Next
LEMMA Inductive == IInv /\ [Next]_vars => IInv'
  <1>1. SUFFICES ASSUME IInv, [Next]_vars
                 PROVE  IInv'
    OBVIOUS
  <1>2. TypeOK /\ CallInv /\ QueueInv /\ HostInv
    BY <1>1 DEF IInv, HostInv
  <1>3. TypeOK' /\ CallInv' /\ QueueInv' /\ HostInv'
    BY <1>1, <1>2, TypeStep, CallStep, QueueStep, HostStep
  <1>4. QED
    BY <1>3 DEF IInv, HostInv

LEMMA InitInv == Init => IInv
  <1> SUFFICES ASSUME Init
               PROVE  IInv
    OBVIOUS
  <1>1. /\ \A p \in Plans : plans[p] = NoPlan
        /\ \A r \in Requests : requests[r] = NoCall /\ job[r] = NoSteps
        /\ queue = <<>> /\ wire = {} /\ lvs = {} /\ feed = <<>>
        /\ \A v \in Volumes : vgs[v] = {} /\ mounted[v] = NoRequest
    BY DEF Init
  <1>2. NoSteps \in JobRecords /\ NoSteps.status = "none"
    BY DEF NoSteps, JobRecords
  <1>3. HostTypes /\ WebTypes
    BY DEF Init, HostTypes, WebTypes
  <1>4. AgentTypes
    BY <1>2, BoundsAssumption DEF Init, AgentTypes
  <1>5. LinkTypes
    BY <1>1, EmptyFacts, Zenon DEF Init, LinkTypes
  <1>6. TypeOK
    BY <1>3, <1>4, <1>5, TypeParts
  <1>7. CallInv
    BY <1>1, <1>2, RecordFacts DEF CallInv
  <1>8. QueueInv
    BY <1>1, <1>2 DEF QueueInv
  <1>9. TodoInv /\ DiskInv /\ MakingInv
    BY <1>1, <1>2 DEF TodoInv, DiskInv, MakingInv
  <1>10. VolumeInv /\ VolumeIntact
    BY <1>1 DEF VolumeInv, VolumeIntact
  <1>11. QED
    BY <1>6, <1>7, <1>8, <1>9, <1>10 DEF IInv

\* The inductive invariant holds in every reachable state.
THEOREM Invariance == Spec => []IInv
  <1>1. QED
    BY InitInv, Inductive, PTL DEF Spec

\* The variables have their types.
THEOREM TypeCorrect == Spec => []TypeOK
  <1>1. IInv => TypeOK
    BY DEF IInv
  <1>2. QED
    BY Invariance, <1>1, PTL

\* Once the mount unit of a volume is active, no later job erases its disks
\* (storage_plan.py runs its steps only after the guard has looked), and two
\* volumes share none: whatever plans are made, executed twice or raced.
THEOREM VolumesStayIntact == Spec => []VolumeIntact
  <1>1. IInv => VolumeIntact
    BY DEF IInv
  <1>2. QED
    BY Invariance, <1>1, PTL

\* wipefs runs only on disks of the job's own plan that are there, are in no
\* use that compute_protected knows, and have the size the user was shown.
THEOREM ErasedAsShown == Spec => ErasesOnlyWhatWasShown
  <1> DEFINE Shown(d) == erasedBy'[d] # erasedBy[d] =>
                           LET plan == PlanOf(erasedBy'[d]) IN
                             /\ d \in Range(plan.disks)
                             /\ ~Protected(d)
                             /\ Present(d) /\ size[d] = plan.shown[d]
  <1>1. ASSUME IInv, [Next]_vars, NEW d \in Disks
        PROVE  Shown(d)
    <2>1. TypeOK /\ CallInv /\ QueueInv /\ HostInv
      BY <1>1 DEF IInv, HostInv
    <2>2. ASSUME NEW r \in Requests, Wipefs(r), erasedBy'[d] # erasedBy[d]
          PROVE  Shown(d)
      <3>1. StepIs(r, "wipefs") /\ job[r].status = "running"
        BY <2>2 DEF Wipefs, StepIs, Runs
      <3>2. d = Head(job[r].todo)[2] /\ erasedBy'[d] = r
        BY <2>1, <2>2 DEF Wipefs, TypeOK
      <3>3. d \in DisksOf(r) /\ Left(r) >= 11
        BY <2>1, <3>1, <3>2, StepNeeds
      <3>4. Left(r) \in Nat
        BY <2>1, <3>1, StepEffect DEF HostInv
      <3>5. /\ Present(d) /\ size[d] = PlanOf(r).shown[d] /\ use[d] = "blank"
            /\ \A v \in lvs : d \notin vgs[v]
        BY <2>1, <3>1, <3>3, <3>4 DEF HostInv, DiskInv
      <3>6. QED
        BY <3>2, <3>3, <3>5 DEF Protected, DisksOf
    <2>3. ASSUME erasedBy' = erasedBy
          PROVE  Shown(d)
      BY <2>3
    <2>4. ASSUME NEW r \in Requests, JobStep(r)
          PROVE  Shown(d)
      <3>1. CASE Wipefs(r)
        BY <2>2, <3>1
      <3>2. CASE ~Wipefs(r)
        BY <2>3, <2>4, <3>2
           DEF JobStep, Check, CheckFails, StepFails, Finish, Ended, Mdadm, Vgcreate, Lvcreate,
               WriteDropins, EnableStartUnit, PlainStep, hostVars
      <3>3. QED
        BY <3>1, <3>2
    <2>5. ASSUME NEW p \in Plans, post_plan(p) \/ Expire(p)
          PROVE  Shown(d)
      BY <2>3, <2>5 DEF post_plan, create_plan, Expire, hostVars
    <2>6. ASSUME NEW r \in Requests, post_execute(r) \/ ExecuteReturns(r) \/ Accept(r)
          PROVE  Shown(d)
      BY <2>3, <2>6 DEF post_execute, execute_plan, ExecuteReturns, Accept, hostVars
    <2>7. CASE post_volume \/ Register \/ RegisterFails \/ Connect \/ ConnectionBreaks
               \/ WebRestart \/ AgentRestart \/ UNCHANGED vars
      BY <2>3, <2>7
         DEF post_volume, register_volume, Register, RegisterFails, Connect, ConnectionBreaks,
             WebRestart, AgentRestart, vars, hostVars
    <2>8. CASE \/ \E e \in Disks, u \in {"blank", "foreign"} : OutsideUse(e, u)
               \/ \E e \in Disks, s \in Sizes \cup {Unplugged} : Hotplug(e, s)
      BY <2>3, <2>8 DEF OutsideUse, Hotplug
    <2>9. QED
      BY <1>1, <2>4, <2>5, <2>6, <2>7, <2>8 DEF Next
  <1>2. IInv /\ [Next]_vars => [\A d \in Disks : Shown(d)]_vars
    BY <1>1
  <1>3. QED
    BY Invariance, <1>2, PTL DEF Spec, ErasesOnlyWhatWasShown
-----------------------------------------------------------------------------
(* What is registered.                                                      *)

\* What is finished, mounted or registered stays so.
LEMMA Stays ==
    ASSUME IInv, [Next]_vars
    PROVE  /\ \A r \in Requests : job[r].status = "done" =>
                job'[r].status = "done" /\ PlanOf(r)' = PlanOf(r)
           /\ \A v \in Volumes : mounted[v] # NoRequest => mounted'[v] = mounted[v]
  <1>0. TypeOK /\ CallInv /\ QueueInv /\ HostInv
    BY DEF IInv, HostInv
  <1>1. ASSUME NEW r \in Requests, job[r].status = "done"
        PROVE  job'[r].status = "done"
    <2>1. ASSUME NEW q \in Requests, Accept(q)
          PROVE  job'[r].status = "done"
      <3>1. q # r
        BY <1>0, <1>1, <2>1 DEF Accept, CallInv
      <3>2. QED
        BY <1>0, <1>1, <2>1, <3>1 DEF Accept, TypeOK
    <2>2. ASSUME NEW q \in Requests, JobStep(q)
          PROVE  job'[r].status = "done"
      BY <1>0, <1>1, <2>2, JobEffect
    <2>3. CASE AgentRestart
      <3>1. r \notin Range(queue)
        <4>1. queue \in Seq(Requests)
          BY <1>0 DEF TypeOK
        <4>2. \A q \in Range(queue) : job[q].status \in {"queued", "running"}
          BY <1>0, <4>1 DEF QueueInv, Range
        <4>3. QED
          BY <1>1, <4>2
      <3>2. QED
        BY <1>1, <2>3, <3>1 DEF AgentRestart
    <2>4. CASE \E q \in Requests, p \in Plans : execute_plan(q, p)
      BY <1>1, <2>4 DEF execute_plan, agentVars
    <2>5. QED
      BY <1>1, <2>1, <2>2, <2>3, <2>4, AgentEffect
  <1>2. ASSUME NEW r \in Requests, job[r].status = "done"
        PROVE  PlanOf(r)' = PlanOf(r)
    BY <1>0, <1>2, PlansKept DEF CallInv, PlanOf
  <1>3. ASSUME NEW v \in Volumes, mounted[v] # NoRequest
        PROVE  mounted'[v] = mounted[v]
    <2>1. ASSUME NEW r \in Requests, JobStep(r)
          PROVE  mounted'[v] = mounted[v]
      <3>1. CASE EnableStartUnit(r)
        <4>1. StepIs(r, "enable_start_unit") /\ job[r].status = "running"
          BY <3>1 DEF EnableStartUnit, StepIs, Runs
        <4>2. Left(r) = 1
          BY <1>0, <4>1, StepNeeds
        <4>3. mounted[PlanOf(r).vol] = NoRequest
          BY <1>0, <4>1, <4>2 DEF HostInv, MakingInv
        <4>4. QED
          BY <1>0, <1>3, <3>1, <4>3 DEF EnableStartUnit, TypeOK
      <3>2. CASE ~EnableStartUnit(r)
        BY <2>1, <3>2
           DEF JobStep, Check, CheckFails, StepFails, Finish, Ended, Wipefs, Mdadm, Vgcreate,
               Lvcreate, WriteDropins, PlainStep, hostVars
      <3>3. QED
        BY <3>1, <3>2
    <2>2. ASSUME NEW p \in Plans, post_plan(p) \/ Expire(p)
          PROVE  mounted'[v] = mounted[v]
      BY <2>2 DEF post_plan, create_plan, Expire, hostVars
    <2>3. ASSUME NEW r \in Requests, post_execute(r) \/ ExecuteReturns(r) \/ Accept(r)
          PROVE  mounted'[v] = mounted[v]
      BY <2>3 DEF post_execute, execute_plan, ExecuteReturns, Accept, hostVars
    <2>4. CASE post_volume \/ Register \/ RegisterFails \/ Connect \/ ConnectionBreaks
               \/ WebRestart \/ AgentRestart \/ UNCHANGED vars
      BY <2>4
         DEF post_volume, register_volume, Register, RegisterFails, Connect, ConnectionBreaks,
             WebRestart, AgentRestart, vars, hostVars
    <2>5. CASE \/ \E e \in Disks, u \in {"blank", "foreign"} : OutsideUse(e, u)
               \/ \E e \in Disks, s \in Sizes \cup {Unplugged} : Hotplug(e, s)
      BY <2>5 DEF OutsideUse, Hotplug
    <2>6. QED
      BY <2>1, <2>2, <2>3, <2>4, <2>5 DEF Next
  <1>4. QED
    BY <1>1, <1>2, <1>3
\* The last step of a job mounts the volume before the job can finish.
LEMMA FinishFacts ==
    ASSUME IInv, NEW r \in Requests, Finish(r)
    PROVE  /\ PlanOf(r).vol \in Volumes /\ mounted[PlanOf(r).vol] = r
           /\ job'[r].status = "done"
           /\ requests[r].state # "idle"
  <1>1. TypeOK /\ CallInv /\ QueueInv /\ HostInv
    BY DEF IInv, HostInv
  <1>2. job[r].status = "running" /\ job[r].todo = <<>> /\ job'[r].status = "done"
    BY <1>1 DEF Finish, Runs, Ended, TypeOK
  <1>3. Left(r) = 0
    BY <1>2 DEF Left
  <1>4. QED
    BY <1>1, <1>2, <1>3, JobFacts DEF HostInv, MakingInv

\* How the events in the feed come and go.
LEMMA FeedEffect ==
    ASSUME [Next]_vars
    PROVE  \/ feed' = feed /\ missed \subseteq missed'
           \/ \E r \in Requests, t \in {"done", "failed"} :
                /\ t = "done" => Finish(r)
                /\ feed' = Append(feed, [vol |-> PlanOf(r).vol, status |-> t])
                /\ missed' = missed
           \/ Register \/ RegisterFails \/ Cut
           \/ feed' = <<>> /\ missed' = missed \cup Successes(feed)
  <1>1. ASSUME NEW r \in Requests, JobStep(r)
        PROVE  \/ feed' = feed /\ missed \subseteq missed'
               \/ \E t \in {"done", "failed"} :
                    /\ t = "done" => Finish(r)
                    /\ feed' = Append(feed, [vol |-> PlanOf(r).vol, status |-> t])
                    /\ missed' = missed
    <2>1. CASE Check(r) \/ Wipefs(r) \/ Mdadm(r) \/ Vgcreate(r) \/ Lvcreate(r)
               \/ WriteDropins(r) \/ EnableStartUnit(r) \/ PlainStep(r)
      BY <2>1 DEF Check, Wipefs, Mdadm, Vgcreate, Lvcreate, WriteDropins, EnableStartUnit,
                  PlainStep, StepIs, linkVars
    <2>2. CASE CheckFails(r) \/ StepFails(r)
      BY <2>2 DEF CheckFails, StepFails, Ended
    <2>3. CASE Finish(r)
      <3>1. \/ feed' = feed /\ missed \subseteq missed'
            \/ /\ feed' = Append(feed, [vol |-> PlanOf(r).vol, status |-> "done"])
               /\ missed' = missed
        BY <2>3 DEF Finish, Ended
      <3>2. QED
        BY <2>3, <3>1
    <2>4. QED
      BY <1>1, <2>1, <2>2, <2>3 DEF JobStep
  <1>2. CASE \E p \in Plans : post_plan(p) \/ Expire(p)
    BY <1>2 DEF post_plan, create_plan, Expire, linkVars
  <1>3. CASE \E r \in Requests : post_execute(r) \/ ExecuteReturns(r) \/ Accept(r)
    BY <1>3 DEF post_execute, execute_plan, ExecuteReturns, Accept, linkVars
  <1>4. CASE post_volume \/ Register \/ RegisterFails \/ Connect \/ ConnectionBreaks
             \/ WebRestart \/ AgentRestart \/ UNCHANGED vars
    BY <1>4
       DEF post_volume, register_volume, Connect, ConnectionBreaks, WebRestart, AgentRestart,
           vars, linkVars
  <1>5. CASE \/ \E e \in Disks, u \in {"blank", "foreign"} : OutsideUse(e, u)
             \/ \E e \in Disks, s \in Sizes \cup {Unplugged} : Hotplug(e, s)
    BY <1>5 DEF OutsideUse, Hotplug, linkVars
  <1>6. QED
    BY <1>1, <1>2, <1>3, <1>4, <1>5 DEF Next

\* What is true of an event stays true of it: it keeps its place behind the
\* ones that came before it.
LEMMA EventStep ==
    ASSUME IInv, EventInv, [Next]_vars
    PROVE  EventInv'
  <1>0. TypeOK /\ CallInv /\ feed \in Seq([vol : Volumes, status : {"done", "failed"}])
        /\ mounted \in [Volumes -> Requests \cup {NoRequest}]
    BY DEF IInv, TypeOK
  <1> DEFINE E == [vol : Volumes, status : {"done", "failed"}]
             Good(e) == e.status = "done" => /\ mounted[e.vol] # NoRequest
                                             /\ job[mounted[e.vol]].status = "done"
             After(e) == e.status = "done" => /\ mounted'[e.vol] # NoRequest
                                              /\ job'[mounted'[e.vol]].status = "done"
  <1>1. ASSUME NEW e \in E, Good(e)
        PROVE  After(e)
    <2>1. e.vol \in Volumes
      OBVIOUS
    <2>2. CASE e.status = "done"
      <3>1. mounted'[e.vol] = mounted[e.vol] /\ mounted[e.vol] # NoRequest
        BY <1>1, <2>1, <2>2, Stays
      <3>2. mounted[e.vol] \in Requests
        BY <1>0, <2>1, <3>1
      <3>3. job'[mounted[e.vol]].status = "done"
        BY <1>1, <2>2, <3>2, Stays
      <3>4. QED
        BY <3>1, <3>3
    <2>3. QED
      BY <2>2
  <1>2. \A i \in 1..Len(feed) : After(feed[i])
    <2>1. SUFFICES ASSUME NEW i \in 1..Len(feed)
                   PROVE  After(feed[i])
      OBVIOUS
    <2>2. feed[i] \in E
      BY <1>0, ElementFacts
    <2>3. Good(feed[i])
      BY DEF EventInv
    <2> HIDE DEF Good, After, E
    <2>4. QED
      BY <1>1, <2>2, <2>3
  <1>3. feed \in Seq(E)
    BY <1>0
  <1>4. \A i \in 1..Len(feed') : After(feed'[i])
    <2>1. CASE feed' = feed
      BY <1>2, <2>1
    <2>2. ASSUME NEW r \in Requests, NEW t \in {"done", "failed"}, t = "done" => Finish(r),
                 feed' = Append(feed, [vol |-> PlanOf(r).vol, status |-> t])
          PROVE  \A i \in 1..Len(feed') : After(feed'[i])
      <3> DEFINE e == [vol |-> PlanOf(r).vol, status |-> t]
      <3>1. After(e)
        <4>1. CASE t = "done"
          <5>1. /\ PlanOf(r).vol \in Volumes /\ mounted[PlanOf(r).vol] = r
                /\ job'[r].status = "done"
            BY <2>2, <4>1, FinishFacts
          <5>2. mounted'[PlanOf(r).vol] = r /\ r # NoRequest
            BY <5>1, Stays, NoRequestAssumption
          <5>3. QED
            BY <5>1, <5>2
        <4>2. QED
          BY <4>1
      <3>2. feed' = Append(feed, e)
        BY <2>2
      <3> HIDE DEF e, After, E
      <3>3. /\ Len(feed') = Len(feed) + 1 /\ feed'[Len(feed) + 1] = e /\ Len(feed) \in Nat
            /\ \A i \in 1..Len(feed) : feed'[i] = feed[i]
        BY <1>3, <3>2
      <3>4. \A i \in 1..Len(feed') : i \in 1..Len(feed) \/ i = Len(feed) + 1
        BY <3>3
      <3>5. QED
        BY <1>2, <3>1, <3>3, <3>4
    <2>3. CASE Register \/ RegisterFails
      <3>1. feed # <<>> /\ feed' = Tail(feed)
        BY <2>3 DEF Register, RegisterFails
      <3> HIDE DEF After, E
      <3>2. /\ Len(feed') = Len(feed) - 1 /\ Len(feed) \in Nat
            /\ \A i \in 1..Len(feed') : feed'[i] = feed[i + 1]
        BY <1>3, <3>1, EndsFacts
      <3>3. \A i \in 1..Len(feed') : i + 1 \in 1..Len(feed)
        BY <3>2
      <3>4. QED
        BY <1>2, <3>2, <3>3
    <2>4. CASE feed' = <<>>
      BY <2>4
    <2>5. CASE Cut
      <3>1. Len(feed') <= Len(feed) /\ \A i \in 1..Len(feed') : feed'[i] = feed[i]
        BY <1>0, <2>5, TypeParts, CutFacts
      <3>2. Len(feed) \in Nat /\ Len(feed') \in Nat
        BY <1>0, <2>5, TypeParts, CutFacts
      <3> HIDE DEF After, E
      <3>3. \A i \in 1..Len(feed') : i \in 1..Len(feed)
        BY <3>1, <3>2
      <3>4. QED
        BY <1>2, <3>1, <3>3
    <2>6. QED
      BY <2>1, <2>2, <2>3, <2>4, <2>5, FeedEffect
  <1>5. QED
    BY <1>4 DEF EventInv
\* What is at the end of the feed, and what the registrar does with it.
LEMMA RegisterFacts ==
    ASSUME IInv, EventInv, Register
    PROVE  /\ feed # <<>> /\ Head(feed) = feed[1] /\ Head(feed).vol \in Volumes
           /\ Len(feed) \in Nat /\ Len(feed') = Len(feed) - 1
           /\ \A i \in 1..Len(feed') : feed'[i] = feed[i + 1]
           /\ \A v \in Volumes : db'[v] # db[v] =>
                db[v] = "none" /\ db'[v] = "managed" /\ mounted[v] # NoRequest
                /\ job[mounted[v]].status = "done"
           /\ Head(feed).status = "done" => db'[Head(feed).vol] # "none"
  <1>1. feed # <<>> /\ feed' = Tail(feed)
        /\ db' = IF Head(feed).status = "done" THEN Registered(Head(feed).vol) ELSE db
    BY DEF Register, Wanted
  <1> DEFINE E == [vol : Volumes, status : {"done", "failed"}]
  <1>2. feed \in Seq(E) /\ db \in [Volumes -> {"none", "managed", "plain"}]
    BY DEF IInv, TypeOK
  <1> HIDE DEF E
  <1>3. /\ Head(feed) \in E /\ Head(feed) = feed[1] /\ Len(feed) \in Nat /\ Len(feed) >= 1
        /\ Len(feed') = Len(feed) - 1
        /\ \A i \in 1..Len(feed') : feed'[i] = feed[i + 1]
    BY <1>1, <1>2, EndsFacts
  <1>4. Head(feed).vol \in Volumes
    BY <1>3 DEF E
  <1>5. Head(feed).status = "done" => /\ mounted[Head(feed).vol] # NoRequest
                                      /\ job[mounted[Head(feed).vol]].status = "done"
    BY <1>3 DEF EventInv
  <1>6. ASSUME NEW v \in Volumes, db'[v] # db[v]
        PROVE  Head(feed).status = "done" /\ v = Head(feed).vol /\ db[v] = "none"
               /\ db'[v] = "managed"
    BY <1>1, <1>2, <1>6 DEF Registered
  <1>7. Head(feed).status = "done" => db'[Head(feed).vol] # "none"
    BY <1>1, <1>2, <1>4 DEF Registered
  <1>8. QED
    BY <1>1, <1>3, <1>4, <1>5, <1>6, <1>7

\* A row appears by hand or by the registrar, and never goes.
LEMMA RowsEffect ==
    ASSUME IInv, [Next]_vars
    PROVE  db' = db \/ Register
           \/ (Upset /\ \E v \in Volumes : db[v] = "none" /\ db' = [db EXCEPT ![v] = "plain"])
  <1>1. ASSUME NEW r \in Requests, JobStep(r)
        PROVE  db' = db
    BY <1>1
       DEF JobStep, Check, CheckFails, StepFails, Finish, Ended, Wipefs, Mdadm, Vgcreate,
           Lvcreate, WriteDropins, EnableStartUnit, PlainStep, StepIs, webVars
  <1>2. CASE \E p \in Plans : post_plan(p) \/ Expire(p)
    BY <1>2 DEF post_plan, create_plan, Expire
  <1>3. CASE \E r \in Requests : post_execute(r) \/ ExecuteReturns(r) \/ Accept(r)
    BY <1>3 DEF post_execute, execute_plan, ExecuteReturns, Accept, webVars
  <1>4. CASE RegisterFails \/ Connect \/ ConnectionBreaks \/ WebRestart \/ AgentRestart
             \/ UNCHANGED vars
    BY <1>4 DEF RegisterFails, Connect, ConnectionBreaks, WebRestart, AgentRestart, vars, webVars
  <1>5. CASE post_volume
    BY <1>5 DEF post_volume, register_volume
  <1>6. CASE \/ \E e \in Disks, u \in {"blank", "foreign"} : OutsideUse(e, u)
             \/ \E e \in Disks, s \in Sizes \cup {Unplugged} : Hotplug(e, s)
    BY <1>6 DEF OutsideUse, Hotplug, webVars
  <1>7. QED
    BY <1>1, <1>2, <1>3, <1>4, <1>5, <1>6 DEF Next

LEMMA RegisteredStep ==
    ASSUME IInv, EventInv, RegisteredIsMounted, [Next]_vars
    PROVE  RegisteredIsMounted'
  <1>1. SUFFICES ASSUME NEW v \in Volumes, db'[v] = "managed"
                 PROVE  mounted'[v] # NoRequest /\ job'[mounted'[v]].status = "done"
    BY DEF RegisteredIsMounted
  <1>2. db \in [Volumes -> {"none", "managed", "plain"}]
        /\ mounted \in [Volumes -> Requests \cup {NoRequest}]
    BY DEF IInv, TypeOK
  <1>3. mounted[v] # NoRequest /\ job[mounted[v]].status = "done"
    <2>1. CASE db[v] = "managed"
      BY <2>1 DEF RegisteredIsMounted
    <2>2. CASE db[v] # "managed" /\ Register
      BY <1>1, <2>2, RegisterFacts
    <2>3. CASE db[v] # "managed" /\ ~Register
      BY <1>1, <1>2, <2>3, RowsEffect
    <2>4. QED
      BY <2>1, <2>2, <2>3
  <1>4. mounted[v] \in Requests
    BY <1>2, <1>3
  <1>5. QED
    BY <1>3, <1>4, Stays

\* A finished volume has its row, an event on the way to it, or its event was
\* one that got lost.
LEMMA NotForgottenStep ==
    ASSUME IInv, EventInv, DoneIsNotForgotten, [Next]_vars
    PROVE  DoneIsNotForgotten'
  <1> DEFINE E == [vol : Volumes, status : {"done", "failed"}]
  <1>1. /\ TypeOK /\ CallInv /\ QueueInv /\ TypeOK'
        /\ feed \in Seq(E) /\ feed' \in Seq(E)
        /\ db \in [Volumes -> {"none", "managed", "plain"}]
    <2>1. TypeOK /\ CallInv /\ QueueInv /\ TypeOK'
      BY TypeStep DEF IInv
    <2>2. QED
      BY <2>1 DEF TypeOK
  <1>2. SUFFICES ASSUME NEW r \in Requests, job'[r].status = "done"
                 PROVE  \/ db'[PlanOf(r)'.vol] # "none"
                        \/ PlanOf(r)'.vol \in Successes(feed') \cup missed'
    BY DEF DoneIsNotForgotten
  <1>3. missed \subseteq missed'
    <2>1. CASE Cut
      BY <2>1 DEF Cut
    <2>2. CASE Register \/ RegisterFails
      BY <2>2 DEF Register, RegisterFails
    <2>3. QED
      BY <2>1, <2>2, FeedEffect
  <1>4. CASE job[r].status = "done"
    <2> DEFINE v == PlanOf(r).vol
    <2>1. PlanOf(r)' = PlanOf(r) /\ v \in Volumes
      BY <1>1, <1>4, Stays, JobFacts
    <2>2. db[v] # "none" \/ v \in Successes(feed) \/ v \in missed
      BY <1>4 DEF DoneIsNotForgotten
    <2> HIDE DEF v
    <2>3. db[v] # "none" => db'[v] # "none"
      <3>1. CASE Register
        BY <2>1, <3>1, RegisterFacts
      <3>2. CASE db' = db
        BY <3>2
      <3>3. ASSUME NEW w \in Volumes, db[w] = "none", db' = [db EXCEPT ![w] = "plain"]
            PROVE  db[v] # "none" => db'[v] # "none"
        BY <1>1, <2>1, <3>3
      <3>4. QED
        BY <3>1, <3>2, <3>3, RowsEffect
    <2>4. ASSUME v \in Successes(feed)
          PROVE  db'[v] # "none" \/ v \in Successes(feed') \/ v \in missed'
      <3>1. PICK i \in 1..Len(feed) : feed[i].status = "done" /\ feed[i].vol = v
        BY <1>1, <2>4, SuccessFacts
      <3>2. Len(feed) \in Nat
        BY <1>1
      <3>3. CASE feed' = feed
        BY <2>4, <3>3
      <3>4. ASSUME NEW x, feed' = Append(feed, x)
            PROVE  v \in Successes(feed')
        <4> HIDE DEF E
        <4>1. Len(feed') = Len(feed) + 1 /\ feed'[i] = feed[i]
          BY <1>1, <3>4
        <4>2. i \in 1..Len(feed')
          BY <3>2, <4>1
        <4>3. QED
          BY <1>1, <3>1, <4>1, <4>2, SuccessFacts DEF E
      <3>5. CASE Register \/ RegisterFails
        <4>1. /\ Head(feed) = feed[1] /\ Len(feed') = Len(feed) - 1
              /\ \A k \in 1..Len(feed') : feed'[k] = feed[k + 1]
          <5>1. feed # <<>> /\ feed' = Tail(feed)
            BY <3>5 DEF Register, RegisterFails
          <5> HIDE DEF E
          <5>2. QED
            BY <1>1, <5>1, EndsFacts
        <4>2. CASE i = 1 /\ Register
          BY <3>1, <4>1, <4>2, RegisterFacts
        <4>3. CASE i = 1 /\ RegisterFails
          BY <3>1, <4>1, <4>3 DEF RegisterFails
        <4>4. CASE i # 1
          <5>1. i - 1 \in 1..Len(feed') /\ (i - 1) + 1 = i
            BY <3>2, <4>1, <4>4
          <5>2. feed'[i - 1] = feed[i]
            BY <4>1, <5>1
          <5>3. feed'[i - 1].vol \in Successes(feed')
            BY <1>1, <3>1, <5>1, <5>2, SuccessAt
          <5>4. QED
            BY <3>1, <5>2, <5>3
        <4>5. QED
          BY <3>5, <4>2, <4>3, <4>4
      <3>6. CASE Cut
        BY <1>1, <2>4, <3>6, TypeParts, CutFacts
      <3>7. QED
        BY <2>4, <3>3, <3>4, <3>5, <3>6, FeedEffect
    <2>5. QED
      BY <1>3, <2>1, <2>2, <2>3, <2>4 DEF v
  <1>5. CASE job[r].status # "done"
    <2>1. Finish(r)
      <3>1. ASSUME NEW q \in Requests, Accept(q)
            PROVE  FALSE
        <4>1. job'[r].status = job[r].status \/ job'[r].status = "queued"
          BY <1>1, <3>1 DEF Accept, TypeOK
        <4>2. QED
          BY <1>2, <1>5, <4>1
      <3>2. ASSUME NEW q \in Requests, JobStep(q)
            PROVE  Finish(r)
        <4>1. q = r
          BY <1>1, <1>2, <1>5, <3>2, JobEffect
        <4>2. CASE Check(r)
          BY <1>1, <1>2, <4>2 DEF Check, TypeOK
        <4>3. CASE CheckFails(r) \/ StepFails(r)
          <5>1. job' = [job EXCEPT ![r].status = "failed"]
            BY <4>3 DEF CheckFails, StepFails, Ended
          <5>2. DOMAIN job = Requests /\ DOMAIN job[r] = {"status", "todo"}
            BY <1>1 DEF TypeOK
          <5>3. job'[r].status = "failed"
            BY <5>1, <5>2
          <5>4. QED
            BY <1>2, <5>3
        <4>4. ASSUME NEW op, StepIs(r, op)
              PROVE  FALSE
          BY <1>1, <1>2, <4>4 DEF StepIs, Runs, TypeOK
        <4>5. CASE Wipefs(r) \/ Mdadm(r) \/ Vgcreate(r) \/ Lvcreate(r) \/ WriteDropins(r)
                   \/ EnableStartUnit(r) \/ PlainStep(r)
          BY <4>4, <4>5 DEF Wipefs, Mdadm, Vgcreate, Lvcreate, WriteDropins, EnableStartUnit,
                            PlainStep
        <4>6. QED
          BY <3>2, <4>1, <4>2, <4>3, <4>5 DEF JobStep
      <3>3. CASE AgentRestart
        <4>1. job'[r].status \in {job[r].status, "lost"}
          BY <1>1, <3>3 DEF AgentRestart, TypeOK
        <4>2. QED
          BY <1>2, <1>5, <4>1
      <3>4. CASE \E q \in Requests, p \in Plans : execute_plan(q, p)
        BY <1>2, <1>5, <3>4 DEF execute_plan, agentVars
      <3>5. QED
        BY <1>2, <1>5, <3>1, <3>2, <3>3, <3>4, AgentEffect
    <2> DEFINE e == [vol |-> PlanOf(r).vol, status |-> "done"]
    <2>2. Ended(r, "done") /\ PlanOf(r)' = PlanOf(r) /\ e \in E
      BY <2>1, FinishFacts DEF Finish, Ended, webVars, PlanOf
    <2>3. CASE connected
      <3>1. feed' = Append(feed, e)
        BY <2>2, <2>3 DEF Ended
      <3>2. e.status = "done" /\ e.vol = PlanOf(r).vol
        OBVIOUS
      <3> HIDE DEF E, e
      <3>3. Len(feed) \in Nat /\ Len(feed') = Len(feed) + 1 /\ feed'[Len(feed) + 1] = e
        BY <1>1, <3>1
      <3>4. Len(feed) + 1 \in 1..Len(feed')
        BY <3>3
      <3>5. QED
        BY <1>1, <2>2, <3>2, <3>3, <3>4, SuccessFacts DEF E
    <2>4. CASE ~connected
      <3>1. missed' = missed \cup Successes(<<e>>)
        BY <2>2, <2>4 DEF Ended
      <3>2. <<e>> \in Seq(E) /\ Len(<<e>>) = 1 /\ <<e>>[1] = e
        BY <2>2
      <3>3. <<e>>[1].vol \in Successes(<<e>>)
        <4>1. 1 \in 1..Len(<<e>>) /\ <<e>>[1].status = "done"
          BY <3>2
        <4> HIDE DEF e
        <4>2. QED
          BY <3>2, <4>1, SuccessAt
      <3>4. <<e>>[1].vol = PlanOf(r).vol
        BY <3>2
      <3>5. QED
        BY <2>2, <3>1, <3>3, <3>4
    <2>5. QED
      BY <2>3, <2>4
  <1>6. QED
    BY <1>4, <1>5

\* A managed row in the volumes table (completion.py writes it when the event
\* of success arrives) stands for a volume that a finished job has mounted.
THEOREM RowsAreOfMountedVolumes == Spec => []RegisteredIsMounted
  <1>1. Init => EventInv /\ RegisteredIsMounted
    BY DEF Init, NoCall, EventInv, RegisteredIsMounted
  <1>2. IInv /\ EventInv /\ RegisteredIsMounted /\ [Next]_vars
          => EventInv' /\ RegisteredIsMounted'
    BY EventStep, RegisteredStep
  <1>3. QED
    BY Invariance, <1>1, <1>2, PTL DEF Spec

\* Through restarts, connections that break, INSERTs that fail and volumes
\* registered by hand, the volume of a finished job has its row, or its event
\* waits for the registrar, or the event was one that a broken connection, a
\* restart or a failed INSERT met: no step of the code loses one otherwise.
THEOREM FinishedIsRegistered == Spec => []DoneIsNotForgotten
  <1>1. Init => EventInv /\ DoneIsNotForgotten
    BY DEF Init, NoCall, NoSteps, EventInv, DoneIsNotForgotten
  <1>2. IInv /\ EventInv /\ DoneIsNotForgotten /\ [Next]_vars
          => EventInv' /\ DoneIsNotForgotten'
    BY EventStep, NotForgottenStep
  <1>3. QED
    BY Invariance, <1>1, <1>2, PTL DEF Spec
-----------------------------------------------------------------------------
(* The guard: which devices compute_protected marks, and with what.         *)

\* A lsblk tree.
TreeInv ==
    /\ parent \in Forests
    /\ kind \in [Nodes -> Kinds]
    /\ serial \in [Nodes -> Serials \cup {NoSerial}]
    /\ \A n \in Nodes : parent[n] # 0 => serial[n] = NoSerial

\* What _walk gives to a node, given what it gave to the node's children.
Marked(walk, n) == IF OwnReason(n) # "" THEN OwnReason(n) ELSE FirstReason(walk, n)

Walked(walk) == walk = [n \in Nodes |-> Marked(walk, n)]

\* What _resolve_spec makes of the serials.
Resolution ==
    [s \in Serials |-> IF BySerial(s) = 0 \/ Refused(s) THEN 0 ELSE BySerial(s)]

\* The walk is done, and what was resolved was resolved after it.
WalkInv ==
    /\ reason # <<>> => Walked(reason)
    /\ resolved # <<>> => reason # <<>> /\ resolved = Resolution

GuardInv == TreeInv /\ WalkInv

\* A non-empty set of numbers has a first one.
LEMMA FirstFacts ==
    ASSUME NEW S \in SUBSET Nat, S # {}
    PROVE  \E m \in S : \A s \in S : m <= s
  <1>1. PICK m \in S : \A s \in S : ~(<<s, m>> \in OpToRel(<, Nat))
    BY WFMin, NatLessThanWellFounded
  <1>2. \A s \in S : ~(s < m)
    BY <1>1 DEF OpToRel
  <1>3. QED
    BY <1>2

LEMMA NodesFacts == \A m, n \in Nodes : m <= n /\ m # n => m < n
  BY NumNodesAssumption DEF Nodes

\* And one that is bounded has a last one.
LEMMA LastFacts ==
    ASSUME NEW S \in SUBSET Nodes, S # {}
    PROVE  \E m \in S : \A s \in S : s <= m
  <1> DEFINE T == {NumNodes - s : s \in S}
  <1>0. \A s \in Nodes : s \in Nat /\ NumNodes - s \in Nat
    BY NumNodesAssumption DEF Nodes
  <1>1. T \in SUBSET Nat /\ T # {}
    BY <1>0
  <1>2. PICK t \in T : \A u \in T : t <= u
    BY <1>1, FirstFacts
  <1>3. PICK m \in S : t = NumNodes - m
    BY <1>2
  <1>4. \A s \in S : NumNodes - m <= NumNodes - s
    BY <1>2, <1>3
  <1>5. QED
    BY <1>4, NumNodesAssumption DEF Nodes

LEMMA MinFacts ==
    ASSUME NEW S \in SUBSET Nodes, S # {}
    PROVE  Min(S) \in S /\ \A s \in S : Min(S) <= s
  <1>1. \E m \in S : \A s \in S : m <= s
    BY FirstFacts DEF Nodes
  <1>2. QED
    BY <1>1 DEF Min

LEMMA MaxFacts ==
    ASSUME NEW S \in SUBSET Nodes, S # {}
    PROVE  Max(S) \in S
  <1>1. \E m \in S : \A s \in S : m >= s
    BY LastFacts, NumNodesAssumption DEF Nodes
  <1>2. QED
    BY <1>1 DEF Max

Reasons == {"", "mounted", "active swap", "physical volume", "RAID member"}

LEMMA OwnReasonFacts ==
    ASSUME TreeInv, NEW n \in Nodes
    PROVE  /\ OwnReason(n) \in Reasons
           /\ OwnReason(n) # "" <=> InUse(n)
  <1>1. kind[n] \in {"plain", "mounted", "swap", "raid"}
    BY KindsAssumption DEF TreeInv
  <1>2. QED
    BY <1>1 DEF OwnReason, InUse, Reasons

\* The children come after their parent, and only what the walk gave to them
\* matters.
LEMMA FirstReasonFacts ==
    ASSUME TreeInv, NEW n \in Nodes, NEW walk \in [Nodes -> Reasons]
    PROVE  /\ FirstReason(walk, n) \in Reasons
           /\ \A c \in Children(n) : n < c
           /\ \A other : (\A c \in Children(n) : other[c] = walk[c]) =>
                FirstReason(other, n) = FirstReason(walk, n)
  <1>1. \A c \in Children(n) : n < c
    BY NumNodesAssumption DEF TreeInv, Forests, Children, Nodes
  <1> DEFINE found(w) == {c \in Children(n) : w[c] # ""}
  <1>2. found(walk) \in SUBSET Nodes
    BY DEF Children
  <1>3. FirstReason(walk, n) \in Reasons
    <2>1. CASE found(walk) = {}
      BY <2>1 DEF FirstReason, Reasons
    <2>2. CASE found(walk) # {}
      <3>1. Min(found(walk)) \in Nodes
        BY <1>2, <2>2, MinFacts
      <3>2. QED
        BY <2>2, <3>1 DEF FirstReason
    <2>3. QED
      BY <2>1, <2>2
  <1>4. ASSUME NEW other, \A c \in Children(n) : other[c] = walk[c]
        PROVE  FirstReason(other, n) = FirstReason(walk, n)
    <2>1. found(other) = found(walk)
      BY <1>4
    <2>2. CASE found(walk) = {}
      BY <2>1, <2>2 DEF FirstReason
    <2>3. CASE found(walk) # {}
      <3>1. Min(found(other)) = Min(found(walk)) /\ Min(found(walk)) \in Children(n)
        BY <1>2, <2>1, <2>3, MinFacts
      <3>2. QED
        BY <1>4, <2>1, <2>3, <3>1 DEF FirstReason
    <2>4. QED
      BY <2>2, <2>3
  <1>5. QED
    BY <1>1, <1>3, <1>4

LEMMA WalkFacts ==
    ASSUME TreeInv
    PROVE  Walk = [n \in Nodes |-> Marked(Walk, n)]
  <1> DEFINE Upto(k) == \E w \in [Nodes -> Reasons] :
                          \A n \in Nodes : n > NumNodes - k => w[n] = Marked(w, n)
             Bad == {k \in 0..NumNodes : ~Upto(k)}
  <1>1. SUFFICES \E w : w = [n \in Nodes |-> Marked(w, n)]
    BY DEF Walk, Marked
  <1>2. Bad = {}
    <2>1. SUFFICES ASSUME Bad # {} PROVE FALSE
      OBVIOUS
    <2>2. PICK k \in Bad : \A l \in Bad : k <= l
      <3>1. Bad \in SUBSET Nat
        BY NumNodesAssumption
      <3>2. QED
        BY <2>1, <3>1, FirstFacts
    <2>3. Upto(0)
      <3>1. [n \in Nodes |-> ""] \in [Nodes -> Reasons]
        BY DEF Reasons
      <3>2. \A n \in Nodes : ~(n > NumNodes - 0)
        BY NumNodesAssumption DEF Nodes
      <3>3. QED
        BY <3>1, <3>2
    <2>4. k \in 1..NumNodes /\ Upto(k - 1)
      BY <2>2, <2>3, NumNodesAssumption
    <2>5. PICK w \in [Nodes -> Reasons] :
            \A n \in Nodes : n > NumNodes - (k - 1) => w[n] = Marked(w, n)
      BY <2>4
    <2> DEFINE at == NumNodes - k + 1
               more == [w EXCEPT ![at] = Marked(w, at)]
    <2>6. at \in Nodes
      BY <2>4, NumNodesAssumption DEF Nodes
    <2>7. Marked(w, at) \in Reasons
      BY <2>6, OwnReasonFacts, FirstReasonFacts DEF Marked
    <2>8. more \in [Nodes -> Reasons]
      BY <2>7
    <2>9. ASSUME NEW n \in Nodes, n > NumNodes - k
          PROVE  more[n] = Marked(more, n)
      <3>1. \A c \in Children(n) : more[c] = w[c]
        <4>1. \A c \in Children(n) : n < c /\ c \in Nodes
          BY FirstReasonFacts DEF Children
        <4>2. QED
          BY <2>4, <2>6, <2>9, <4>1, NumNodesAssumption DEF Nodes
      <3>2. Marked(more, n) = Marked(w, n)
        <4>1. FirstReason(more, n) = FirstReason(w, n)
          BY <3>1, FirstReasonFacts
        <4>2. QED
          BY <4>1 DEF Marked
      <3>3. CASE n = at
        BY <2>6, <3>2, <3>3
      <3>4. CASE n # at
        <4>1. n > NumNodes - (k - 1)
          BY <2>4, <2>9, <3>4, NumNodesAssumption DEF Nodes
        <4>2. QED
          BY <2>5, <2>6, <3>2, <3>4, <4>1
      <3>5. QED
        BY <3>3, <3>4
    <2>10. Upto(k)
      BY <2>8, <2>9
    <2>11. QED
      BY <2>2, <2>10
  <1>3. PICK w \in [Nodes -> Reasons] :
          \A n \in Nodes : n > NumNodes - NumNodes => w[n] = Marked(w, n)
    BY <1>2, NumNodesAssumption
  <1>4. \A n \in Nodes : w[n] = Marked(w, n)
    BY <1>3, NumNodesAssumption DEF Nodes
  <1>5. QED
    BY <1>4

LEMMA AboveFacts ==
    ASSUME TreeInv
    PROVE  Above = [m \in Nodes |-> {m} \cup (IF IsDisk(m) THEN {} ELSE Above[parent[m]])]
  <1> DEFINE Up(a, m) == {m} \cup (IF IsDisk(m) THEN {} ELSE a[parent[m]])
             Upto(k) == \E a : a = [m \in Nodes |-> IF m <= k THEN Up(a, m) ELSE {}]
             Bad == {k \in 0..NumNodes : ~Upto(k)}
  <1>0. \A m \in Nodes : m \in Nat /\ (~IsDisk(m) => parent[m] \in Nodes /\ parent[m] < m)
    BY NumNodesAssumption DEF TreeInv, Forests, IsDisk, Nodes
  <1>1. SUFFICES \E a : a = [m \in Nodes |-> Up(a, m)]
    BY DEF Above
  <1>2. Bad = {}
    <2>1. SUFFICES ASSUME Bad # {} PROVE FALSE
      OBVIOUS
    <2>2. PICK k \in Bad : \A l \in Bad : k <= l
      <3>1. Bad \in SUBSET Nat
        BY NumNodesAssumption
      <3>2. QED
        BY <2>1, <3>1, FirstFacts
    <2>3. Upto(0)
      <3>1. \A m \in Nodes : ~(m <= 0)
        BY NumNodesAssumption DEF Nodes
      <3> DEFINE none == [m \in Nodes |-> {}]
      <3>2. none = [m \in Nodes |-> IF m <= 0 THEN Up(none, m) ELSE {}]
        BY <3>1
      <3>3. QED
        BY <3>2
    <2>4. k \in 1..NumNodes /\ Upto(k - 1)
      BY <2>2, <2>3, NumNodesAssumption
    <2>5. PICK a : a = [m \in Nodes |-> IF m <= k - 1 THEN Up(a, m) ELSE {}]
      BY <2>4
    <2> DEFINE more == [m \in Nodes |-> IF m <= k THEN Up(a, m) ELSE {}]
    <2>6. k \in Nodes /\ k \in Nat
      BY <2>4, NumNodesAssumption DEF Nodes
    <2>7. ASSUME NEW m \in Nodes, m <= k - 1
          PROVE  more[m] = a[m]
      <3>1. m <= k
        BY <1>0, <2>6, <2>7
      <3> HIDE DEF Up
      <3>2. a[m] = Up(a, m)
        BY <2>5, <2>7
      <3>3. QED
        BY <3>1, <3>2
    <2>8. ASSUME NEW m \in Nodes, m <= k
          PROVE  Up(more, m) = Up(a, m)
      <3>1. CASE IsDisk(m)
        BY <3>1
      <3>2. CASE ~IsDisk(m)
        <4>1. parent[m] \in Nodes /\ parent[m] <= k - 1
          <5>1. m \in Nat /\ parent[m] \in Nodes /\ parent[m] < m /\ parent[m] \in Nat
            BY <1>0, <3>2
          <5> HIDE DEF more
          <5>2. QED
            BY <2>6, <2>8, <5>1
        <4>2. more[parent[m]] = a[parent[m]]
          BY <2>7, <4>1
        <4>3. QED
          BY <4>2
      <3>3. QED
        BY <3>1, <3>2
    <2>9. more = [m \in Nodes |-> IF m <= k THEN Up(more, m) ELSE {}]
      BY <2>8
    <2>10. QED
      BY <2>2, <2>9
  <1>9. Upto(NumNodes)
    <2>1. NumNodes \in 0..NumNodes
      BY NumNodesAssumption
    <2> HIDE DEF Upto
    <2>2. QED
      BY <1>2, <2>1
  <1>3. PICK a : a = [m \in Nodes |-> IF m <= NumNodes THEN Up(a, m) ELSE {}]
    BY <1>9
  <1>4. a = [m \in Nodes |-> Up(a, m)]
    <2>1. \A m \in Nodes : m <= NumNodes
      BY NumNodesAssumption DEF Nodes
    <2> HIDE DEF Up
    <2>2. QED
      BY <1>3, <2>1
  <1>5. QED
    BY <1>4

\* A node is below itself and below what its parent is below.
LEMMA BelowParent ==
    ASSUME TreeInv, NEW n \in Nodes, NEW m \in Nodes
    PROVE  m \in Below(n) <=> m = n \/ (~IsDisk(m) /\ parent[m] \in Below(n))
  <1>1. Above[m] = {m} \cup (IF IsDisk(m) THEN {} ELSE Above[parent[m]])
    BY AboveFacts
  <1>2. ~IsDisk(m) => parent[m] \in Nodes
    BY DEF TreeInv, Forests, IsDisk
  <1>3. QED
    BY <1>1, <1>2 DEF Below

\* What is below a node is the node, and what is below one of its children.
LEMMA BelowChildren ==
    ASSUME TreeInv, NEW n \in Nodes, NEW m \in Nodes
    PROVE  m \in Below(n) <=> m = n \/ \E c \in Children(n) : m \in Below(c)
  <1> DEFINE Holds(k) == k \in Below(n) <=> k = n \/ \E c \in Children(n) : k \in Below(c)
             Bad == {k \in Nodes : ~Holds(k)}
  <1>1. SUFFICES ASSUME Bad # {} PROVE FALSE
    BY DEF Bad
  <1>2. Bad \in SUBSET Nat
    BY DEF Nodes
  <1>3. PICK k \in Bad : \A l \in Bad : k <= l
    BY <1>1, <1>2, FirstFacts
  <1>4. \A c \in Children(n) : c \in Nodes /\ ~IsDisk(c) /\ parent[c] = n
    BY DEF Children, IsDisk, Nodes
  <1>5. CASE k = n \/ IsDisk(k)
    <2>1. k = n => k \in Below(n)
      BY BelowParent
    <2>2. IsDisk(k) => (k \in Below(n) <=> k = n)
      BY BelowParent
    <2>3. IsDisk(k) /\ k # n => \A c \in Children(n) : k \notin Below(c)
      BY <1>4, BelowParent
    <2>4. QED
      BY <1>3, <1>5, <2>1, <2>2, <2>3
  <1>6. CASE k # n /\ ~IsDisk(k)
    <2>1. parent[k] \in Nodes /\ parent[k] < k
      BY <1>6, NumNodesAssumption DEF TreeInv, Forests, IsDisk, Nodes
    <2>2. Holds(parent[k])
      BY <1>2, <1>3, <2>1 DEF Nodes
    <2>3. k \in Below(n) <=> parent[k] \in Below(n)
      BY <1>6, BelowParent
    <2>4. \A c \in Children(n) : k \in Below(c) <=> k = c \/ parent[k] \in Below(c)
      BY <1>4, <1>6, BelowParent
    <2>5. k \in Children(n) <=> parent[k] = n
      BY DEF Children
    <2>6. QED
      BY <1>3, <1>6, <2>2, <2>3, <2>4, <2>5
  <1>7. QED
    BY <1>5, <1>6

\* What the walk gives to a node is the reason of the first device below it
\* that is in use, in lsblk's order; nothing if there is none.
Shows(walk, n) ==
    /\ walk[n] # "" <=> Users(n) # {}
    /\ Users(n) # {} => \E m \in Users(n) : /\ walk[n] = OwnReason(m)
                                            /\ \A u \in Users(n) : Before(m, u)

LEMMA ShowsFirst ==
    ASSUME TreeInv, NEW walk, walk = [n \in Nodes |-> Marked(walk, n)], NEW n \in Nodes,
           \A c \in Children(n) : Shows(walk, c)
    PROVE  Shows(walk, n)
  <1> DEFINE found == {c \in Children(n) : walk[c] # ""}
  <1>1. walk[n] = IF InUse(n) THEN OwnReason(n) ELSE FirstReason(walk, n)
    BY OwnReasonFacts DEF Marked
  <1>2. Children(n) \subseteq Nodes /\ found \in SUBSET Nodes
    BY DEF Children
  <1>3. \A m \in Nodes : m \in Users(n) <=>
          (m = n /\ InUse(n)) \/ \E c \in Children(n) : m \in Users(c)
    BY BelowChildren DEF Users
  <1>4. \A c \in Children(n) : c \in found <=> Users(c) # {}
    BY DEF Shows
  <1>5. CASE InUse(n)
    <2>1. n \in Users(n) /\ walk[n] = OwnReason(n) /\ walk[n] # ""
      BY <1>1, <1>3, <1>5, OwnReasonFacts
    <2>2. \A u \in Users(n) : Before(n, u)
      BY DEF Users, Before
    <2>3. QED
      BY <2>1, <2>2 DEF Shows
  <1>6. CASE ~InUse(n) /\ found = {}
    <2>1. walk[n] = ""
      BY <1>1, <1>6 DEF FirstReason
    <2>2. Users(n) = {}
      BY <1>3, <1>4, <1>6 DEF Users
    <2>3. QED
      BY <2>1, <2>2 DEF Shows
  <1>7. CASE ~InUse(n) /\ found # {}
    <2>1. PICK a \in found : a = Min(found) /\ \A c \in found : a <= c
      BY <1>2, <1>7, MinFacts
    <2>2. walk[n] = walk[a] /\ walk[a] # ""
      BY <1>1, <1>7, <2>1 DEF FirstReason
    <2>3. PICK m \in Users(a) : /\ walk[a] = OwnReason(m)
                               /\ \A u \in Users(a) : Before(m, u)
      BY <1>4, <2>1 DEF Shows
    <2>4. m \in Users(n)
      BY <1>3, <2>1, <2>3 DEF Users
    <2>5. ASSUME NEW u \in Users(n)
          PROVE  Before(m, u)
      <3>1. PICK c \in Children(n) : u \in Users(c)
        BY <1>3, <1>7, <2>5 DEF Users
      <3>2. CASE c = a
        BY <2>3, <3>1, <3>2
      <3>3. CASE c # a
        <4>1. c \in found /\ a < c
          <5>1. c \in found
            BY <1>4, <3>1
          <5>2. a <= c
            BY <2>1, <5>1
          <5>3. a \in Nodes /\ c \in Nodes
            BY <1>2, <2>1
          <5>4. a < c
            BY <3>3, <5>2, <5>3, NodesFacts
          <5>5. QED
            BY <5>1, <5>4
        <4>2. parent[a] = parent[c] /\ a \in Above[m] /\ c \in Above[u]
          BY <2>1, <2>3, <3>1 DEF Users, Below, Children
        <4>3. QED
          BY <4>1, <4>2 DEF Before
      <3>4. QED
        BY <3>2, <3>3
    <2>6. QED
      BY <2>2, <2>3, <2>4, <2>5 DEF Shows
  <1>8. QED
    BY <1>5, <1>6, <1>7

LEMMA ShowsAll ==
    ASSUME TreeInv, NEW walk, walk = [n \in Nodes |-> Marked(walk, n)]
    PROVE  \A n \in Nodes : Shows(walk, n)
  <1> DEFINE Bad == {n \in Nodes : ~Shows(walk, n)}
  <1>1. SUFFICES ASSUME Bad # {} PROVE FALSE
    BY DEF Bad
  <1>2. PICK n \in Bad : \A k \in Bad : k <= n
    BY <1>1, LastFacts
  <1>3. \A c \in Children(n) : c \in Nodes /\ n < c
    BY NumNodesAssumption DEF TreeInv, Forests, Children, Nodes
  <1>4. \A c \in Children(n) : Shows(walk, c)
    BY <1>2, <1>3 DEF Nodes
  <1>5. QED
    BY <1>2, <1>4, ShowsFirst

LEMMA GuardInitInv == GuardInit => GuardInv
  BY DEF GuardInit, GuardInv, TreeInv, WalkInv

LEMMA GuardInductive ==
    GuardInv /\ [GuardNext]_guardVars => GuardInv'
  <1> SUFFICES ASSUME GuardInv, [GuardNext]_guardVars
               PROVE  GuardInv'
    OBVIOUS
  <1>1. UNCHANGED inventory
    BY DEF GuardNext, compute_protected, resolve_spec, guardVars, inventory
  <1>2. TreeInv'
    BY <1>1 DEF GuardInv, TreeInv, inventory
  <1>3. Walked(reason') <=> Walked(reason)'
    BY <1>1 DEF inventory, Walked, Marked, OwnReason, FirstReason, ProtectedPvs, Children
  <1>4. CASE compute_protected
    <2>1. Walked(reason')
      BY <1>4, WalkFacts DEF compute_protected, GuardInv, Walked
    <2>2. resolved' = <<>>
      BY <1>4 DEF compute_protected, GuardInv, WalkInv
    <2>3. QED
      BY <1>2, <1>3, <2>1, <2>2 DEF GuardInv, WalkInv
  <1>5. CASE resolve_spec
    <2>1. reason' = reason /\ reason # <<>> /\ resolved' = Resolution
      BY <1>5 DEF resolve_spec, Resolution
    <2>2. Resolution' = Resolution
      BY <1>1, <2>1 DEF inventory, Resolution, BySerial, Refused, ProtectedSerials, IsDisk
    <2>3. QED
      BY <1>2, <1>3, <2>1, <2>2 DEF GuardInv, WalkInv
  <1>6. CASE UNCHANGED guardVars
    <2>1. UNCHANGED <<reason, resolved>>
      BY <1>6 DEF guardVars
    <2>2. Resolution' = Resolution
      BY <1>1, <2>1 DEF inventory, Resolution, BySerial, Refused, ProtectedSerials, IsDisk
    <2>3. QED
      BY <1>2, <1>3, <2>1, <2>2 DEF GuardInv, WalkInv
  <1>7. QED
    BY <1>4, <1>5, <1>6 DEF GuardNext

THEOREM GuardInvariance == GuardSpec => []GuardInv
  BY GuardInitInv, GuardInductive, PTL DEF GuardSpec

\* The guard protects exactly the devices that host something in use, at any
\* depth, and shows the reason of the first: what the recursion over the tree
\* computes.
THEOREM GuardIsExact == GuardSpec => []ProtectedIffHostsUse
  <1>1. GuardInv => ProtectedIffHostsUse
    BY ShowsAll DEF GuardInv, WalkInv, Walked, ProtectedIffHostsUse, Shows
  <1>2. QED
    BY GuardInvariance, <1>1, PTL

\* A serial that resolves is that of no disk that hosts something in use, also
\* when several disks report it.
THEOREM ResolvedIsFree == GuardSpec => []ResolvedIsUnused
  <1>1. ASSUME GuardInv, resolved # <<>>, NEW s \in Serials, resolved[s] # 0,
               NEW n \in Nodes, serial[n] = s
        PROVE  Users(n) = {}
    <2>1. ~Refused(s)
      BY <1>1 DEF GuardInv, WalkInv, Resolution
    <2>2. s # NoSerial /\ IsDisk(n)
      BY <1>1, NoSerialAssumption DEF GuardInv, TreeInv, IsDisk
    <2>3. reason[n] = ""
      BY <1>1, <2>1, <2>2 DEF Refused, ProtectedSerials
    <2>4. Shows(reason, n)
      BY <1>1, ShowsAll DEF GuardInv, WalkInv, Walked
    <2>5. QED
      BY <2>3, <2>4 DEF Shows
  <1>2. GuardInv => ResolvedIsUnused
    BY <1>1 DEF ResolvedIsUnused
  <1>3. QED
    BY GuardInvariance, <1>2, PTL
==============================================================================
