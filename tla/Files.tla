-------------------------------- MODULE Files --------------------------------
(***************************************************************************)
(* What the jobs of a file worker do to a file tree:                       *)
(* agent/handlers/files.py.                                                *)
(*                                                                         *)
(* A job takes its items one after another: on the event loop it looks     *)
(* whether the destination is free, then a thread does the work.  Several  *)
(* jobs, and renames on the event loop, go on at one time, with no lock on *)
(* a path.  A path leads to an inode; a copy writes into the inode it      *)
(* opened, wherever its path goes meanwhile.  Directories are fixed here,  *)
(* items are files: copytree refuses a destination that appeared, so files *)
(* are the case where something can be lost.                               *)
(***************************************************************************)
EXTENDS Naturals, Sequences, FiniteSets, Functions

CONSTANTS
    Dirs, Names,  \* a path is a directory and a name in it
    Jobs,         \* slots for jobs
    MaxItems,     \* bound: items of one job
    MaxOps,       \* bound: operations altogether
    MaxFull       \* bound: copies that fail midway, as on a full disk

ASSUME FilesAssumption == MaxItems \in Nat /\ MaxOps \in Nat /\ MaxFull \in Nat

Paths == Dirs \X Names

VARIABLES
    tree,       \* tree[p]: the inode at path p; 0 if there is none
    data,       \* data[i]: whose content inode i has, and whether all of it
    job,        \* job[j]: the job in slot j, or NoJob
    ops, full,
    asked,      \* history: contents a delete job removed
    contested,  \* history: an operation aimed at a path another was working on
    torn        \* history: a copy read a file that was still being written

filesVars == <<tree, data, job, ops, full, asked, contested, torn>>

NoJob == [status |-> "none"]
Originals == 1..2
Inodes == 1..(2 + MaxItems * MaxOps)
Empty == [id |-> 0, whole |-> FALSE]
IsNew(i) == data[i] = Empty /\ \A k \in Inodes : data[k] = Empty => i <= k

\* Two files, anywhere.
FilesInit ==
    /\ \E one, two \in Paths :
         /\ one # two
         /\ tree = [p \in Paths |-> CASE p = one -> 1 [] p = two -> 2 [] OTHER -> 0]
    /\ data = [i \in Inodes |-> IF i \in Originals THEN [id |-> i, whole |-> TRUE] ELSE Empty]
    /\ job = [j \in Jobs |-> NoJob]
    /\ ops = 0 /\ full = 0 /\ asked = {} /\ contested = FALSE /\ torn = FALSE

-----------------------------------------------------------------------------
(* Operations a worker is asked for.                                        *)

\* list_dir, of every directory: what a user may pick.
Listed == {p \in Paths : tree[p] # 0}

\* submit for files.delete, copy, move and zip, by process p: the user picks
\* from a listing, where each item still is when the job is submitted.
Submit(j, kind, items, dir, p) ==
    /\ job[j] = NoJob /\ ops < MaxOps
    /\ \A i \in DOMAIN items : items[i] \in Listed
    /\ ops' = ops + 1
    /\ job' = [job EXCEPT ![j] = [status |-> "running", op |-> kind, todo |-> items,
                                  dir |-> dir, at |-> "loop", dst |-> <<>>, from |-> 0,
                                  into |-> 0, made |-> {}, by |-> p]]
    /\ UNCHANGED <<tree, data, full, asked, contested, torn>>

Items == UNION {Injection(1..n, Paths) : n \in 1..MaxItems}

delete(j, p) == \E s \in Items : Submit(j, "delete", s, "none", p)
copy(j, p) == \E s \in Items, d \in Dirs : Submit(j, "copy", s, d, p)
move(j, p) == \E s \in Items, d \in Dirs : Submit(j, "move", s, d, p)
zip_paths(j, p) == \E s \in Items : Submit(j, "zip", s, "none", p)

Source(j) == Head(job[j].todo)

\* The jobs whose thread works on path p: towards it, or to remove it when it
\* has been moved to another file system.
Working(p) ==
    {j \in Jobs : /\ job[j].status = "running" /\ job[j].at # "loop"
                  /\ \/ job[j].dst = p
                     \/ job[j].op = "move" /\ job[j].at # "thread" /\ Source(j) = p}

\* rename: on the event loop; refused when the new name is taken.
rename(p, n) ==
    /\ ops < MaxOps
    /\ LET dest == <<p[1], n>> IN
         IF tree[dest] # 0 \/ tree[p] = 0 THEN UNCHANGED <<tree, contested, ops>>
         ELSE /\ tree' = [tree EXCEPT ![dest] = tree[p], ![p] = 0]
              /\ contested' = (contested \/ Working(dest) # {})
              /\ ops' = ops + 1
    /\ UNCHANGED <<data, job, full, asked, torn>>

-----------------------------------------------------------------------------
(* A job on the event loop.                                                 *)

With(j, r) == job' = [job EXCEPT ![j] = r]
Ended(j, status) == [status |-> status, made |-> job[j].made]

\* Fault: a destination that exists is taken.
DestFree_any(dest) == TRUE
\* _dest_for
DestFree(dest) == tree[dest] = 0

Finish(j) ==
    /\ job[j].todo = <<>>
    /\ With(j, Ended(j, "done"))
    /\ UNCHANGED <<tree, data, ops, full, asked, contested, torn>>

\* The next item: a copy or a move looks at its destination.
Begin(j) ==
    /\ job[j].todo # <<>>
    /\ LET dest == IF job[j].op \in {"copy", "move"} THEN <<job[j].dir, Source(j)[2]>> ELSE <<>>
       IN IF dest # <<>> /\ ~DestFree(dest)
          THEN With(j, Ended(j, "failed")) /\ UNCHANGED contested
          ELSE /\ With(j, [job[j] EXCEPT !.at = "thread", !.dst = dest])
               /\ contested' = (contested \/ (dest # <<>> /\ Working(dest) # {}))
    /\ UNCHANGED <<tree, data, ops, full, asked, torn>>

OnLoop(j) ==
    /\ job[j].status = "running" /\ job[j].at = "loop"
    /\ Finish(j) \/ Begin(j)

-----------------------------------------------------------------------------
(* The thread of an item.                                                   *)

ItemDone(j) == [job[j] EXCEPT !.todo = Tail(@), !.at = "loop", !.dst = <<>>, !.from = 0, !.into = 0]

\* The source is not there, or source and destination have become one file.
Missing(j) ==
    /\ job[j].at = "thread"
    /\ tree[Source(j)] = 0 \/ (job[j].op = "copy" /\ tree[job[j].dst] = tree[Source(j)])
    /\ With(j, Ended(j, "failed"))
    /\ UNCHANGED <<tree, data, ops, full, asked, contested, torn>>

Remove_item(j) ==
    /\ job[j].at = "thread" /\ job[j].op = "delete" /\ tree[Source(j)] # 0
    /\ tree' = [tree EXCEPT ![Source(j)] = 0]
    /\ asked' = asked \cup {data[tree[Source(j)]].id}
    /\ With(j, ItemDone(j))
    /\ UNCHANGED <<data, ops, full, contested, torn>>

Archive(j) ==
    /\ job[j].at = "thread" /\ job[j].op = "zip" /\ tree[Source(j)] # 0
    /\ With(j, ItemDone(j))
    /\ UNCHANGED <<tree, data, ops, full, asked, contested, torn>>

\* shutil.move within a file system: os.rename, which replaces what is there.
RenameOver(j) ==
    /\ job[j].at = "thread" /\ job[j].op = "move" /\ tree[Source(j)] # 0
    /\ tree' = [p \in Paths |-> CASE p = job[j].dst -> tree[Source(j)]
                                  [] p = Source(j) -> 0 [] OTHER -> tree[p]]
    /\ With(j, ItemDone(j))
    /\ UNCHANGED <<data, ops, full, asked, contested, torn>>

\* copy2, and shutil.move between file systems: both files are opened, the
\* destination is cut to nothing if it is there, ...
OpenBoth(j) ==
    /\ job[j].at = "thread" /\ job[j].op \in {"copy", "move"} /\ tree[Source(j)] # 0
    /\ \E i \in Inodes : LET s == tree[Source(j)] IN
          /\ IF tree[job[j].dst] # 0 THEN i = tree[job[j].dst] ELSE IsNew(i)
          /\ i # s
          /\ tree' = [tree EXCEPT ![job[j].dst] = i]
          /\ data' = [data EXCEPT ![i] = [id |-> data[s].id, whole |-> FALSE]]
          /\ With(j, [job[j] EXCEPT !.at = "copying", !.from = s, !.into = i])
    /\ UNCHANGED <<ops, full, asked, contested, torn>>

\* ... the content is written, ...
Written(j) ==
    /\ job[j].at = "copying"
    /\ LET s == data[job[j].from]
           i == job[j].into
       IN /\ data' = [data EXCEPT ![i].whole = s.whole /\ data[i].id = s.id]
          /\ torn' = (torn \/ ~s.whole)
          /\ With(j, [(IF job[j].op = "copy" THEN ItemDone(j) ELSE [job[j] EXCEPT !.at = "unlink"])
                      EXCEPT !.made = @ \cup {i}])
    /\ UNCHANGED <<tree, ops, full, asked, contested>>

\* ... or the disk is full and what is written stays.
DiskFull(j) ==
    /\ job[j].at = "copying" /\ full < MaxFull
    /\ full' = full + 1
    /\ With(j, Ended(j, "failed"))
    /\ UNCHANGED <<tree, data, ops, asked, contested, torn>>

\* The move between file systems ends with the source.
Unlink(j) ==
    /\ job[j].at = "unlink"
    /\ tree' = [tree EXCEPT ![Source(j)] = 0]
    /\ With(j, IF tree[Source(j)] = 0 THEN Ended(j, "failed") ELSE ItemDone(j))
    /\ UNCHANGED <<data, ops, full, asked, contested, torn>>

InThread(j) ==
    /\ job[j].status = "running"
    /\ Missing(j) \/ Remove_item(j) \/ Archive(j) \/ RenameOver(j) \/ OpenBoth(j)
       \/ Written(j) \/ DiskFull(j) \/ Unlink(j)

\* The process p is gone, and its jobs with it.
Interrupted(p) ==
    /\ job' = [j \in Jobs |-> IF job[j].status = "running" /\ job[j].by = p
                              THEN Ended(j, "interrupted") ELSE job[j]]
    /\ UNCHANGED <<tree, data, ops, full, asked, contested, torn>>
==============================================================================
