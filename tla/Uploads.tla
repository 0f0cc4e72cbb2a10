------------------------------- MODULE Uploads -------------------------------
(***************************************************************************)
(* tus uploads: api/uploads.py and services/uploads.py in the web process, *)
(* files.upload_* and upload_chunk in the user's file worker.              *)
(*                                                                         *)
(* An upload is a row in the database, a handle in the worker's memory and *)
(* a .part file.  A PATCH asks the worker for the offset, writes its body  *)
(* a chunk at a time and completes the upload when the declared size is    *)
(* reached; nothing keeps two PATCHes of one upload, or two uploads to one *)
(* path, apart.  A chunk is written by a thread of the worker, which finds *)
(* the .part file by its name and then writes to what it opened.           *)
(*                                                                         *)
(* POST, DELETE and the end of a PATCH change the worker first and the     *)
(* database when its answer comes.  An answer that is lost, a commit that  *)
(* fails and a web process that restarts leave them half done, as does a   *)
(* removal that fails after the handle was dropped.                        *)
(*                                                                         *)
(* Data is counted in blocks of PATCH_BUFFER_SIZE.  A client sends slices  *)
(* of its own file, so a block is either written or not.                   *)
(***************************************************************************)
EXTENDS Naturals, FiniteSets, FiniteSetsExt

CONSTANTS
    Uploads,     \* upload ids
    Dests,       \* destination paths
    Patches,     \* PATCH requests
    Sizes,       \* declared sizes
    Free,        \* no file at this path
    NoUpload,    \* a PATCH that has not come
    MaxExits,    \* bound: how often the worker exits
    MaxFaults    \* bound: clients that disconnect; writes, renames, removals,
                 \* answers and commits that fail

ASSUME SizesAssumption == Sizes \subseteq Nat /\ IsFiniteSet(Sizes)
ASSUME NobodyAssumption == Free \notin Uploads /\ NoUpload \notin Uploads
ASSUME BoundsAssumption == MaxExits \in Nat /\ MaxFaults \in Nat

VARIABLES
    stage,    \* stage[u]: of its creation and of its termination
    row,      \* row[u]: the database has it
    handle,   \* handle[u]: state.uploads has it
    place,    \* place[u]: where the file is, under which kind of name
    data,     \* data[u]: the blocks written to it
    size,     \* size[u]: Upload-Length
    dest,     \* dest[u]: dest_path
    at,       \* at[d]: whose file is at the path
    pc,       \* pc[q]: where a PATCH is
    of,       \* of[q]: its upload
    offset,   \* offset[q]: its offset, as the code updates it
    left,     \* left[q]: blocks of its body still to come
    torn,     \* history: torn[u]: which of its requests was left half done
    exits, faults

uploadVars == <<stage, size, dest>>
fileVars == <<place, data, at>>
patchVars == <<pc, of, offset, left>>
vars == <<uploadVars, row, handle, fileVars, patchVars, torn, exits, faults>>

Blocks == 1..Max(Sizes \cup {0})
Offsets == {0} \cup Blocks

Init ==
    /\ stage = [u \in Uploads |-> "new"]
    /\ row = [u \in Uploads |-> FALSE] /\ handle = [u \in Uploads |-> FALSE]
    /\ place = [u \in Uploads |-> "none"] /\ data = [u \in Uploads |-> {}]
    /\ size = [u \in Uploads |-> 0]
    /\ dest = [u \in Uploads |-> CHOOSE d \in Dests : TRUE]
    /\ at = [d \in Dests |-> Free]
    /\ pc = [q \in Patches |-> "idle"]
    /\ of = [q \in Patches |-> NoUpload]
    /\ offset = [q \in Patches |-> 0] /\ left = [q \in Patches |-> 0]
    /\ torn = [u \in Uploads |-> "no"]
    /\ exits = 0 /\ faults = 0

FileSize(u) == Max(data[u] \cup {0})
Goes(q, s) == pc' = [pc EXCEPT ![q] = s]
Faulty == faults < MaxFaults /\ faults' = faults + 1

-----------------------------------------------------------------------------
(* POST and DELETE.                                                         *)

\* files.upload_begin, unless something is at the destination.
upload_begin(u, d, n) ==
    /\ stage[u] = "new" /\ at[d] = Free
    /\ stage' = [stage EXCEPT ![u] = "begun"]
    /\ size' = [size EXCEPT ![u] = n]
    /\ dest' = [dest EXCEPT ![u] = d]
    /\ place' = [place EXCEPT ![u] = "part"]
    /\ handle' = [handle EXCEPT ![u] = TRUE]
    /\ UNCHANGED <<row, data, at, patchVars, torn, exits, faults>>

\* POST: a request with a length and a destination; others are turned away.
create_upload(u) == \E d \in Dests, n \in Sizes : upload_begin(u, d, n)

\* The client learns the id when the row is there.
begin_upload(u) ==
    /\ stage[u] = "begun"
    /\ row' = [row EXCEPT ![u] = TRUE]
    /\ stage' = [stage EXCEPT ![u] = "open"]
    /\ UNCHANGED <<size, dest, handle, fileVars, patchVars, torn, exits, faults>>

\* Fault: the handle is dropped and the file forgotten.
AbortedPlace_kept(u) == place
AbortedPlace(u) ==
    IF handle[u] /\ place[u] = "part" THEN [place EXCEPT ![u] = "gone"] ELSE place

\* files.upload_abort: without a handle there is nothing to remove.
upload_abort(u) ==
    /\ stage[u] = "open"
    /\ place' = AbortedPlace(u)
    /\ handle' = [handle EXCEPT ![u] = FALSE]
    /\ stage' = [stage EXCEPT ![u] = "aborting"]
    /\ UNCHANGED <<size, dest, row, data, at, patchVars, torn, exits, faults>>

Forgotten(u) == [handle EXCEPT ![u] = FALSE]

\* os.remove fails, and the call with it, after the handle was dropped: the
\* next DELETE finds nothing to remove.
RemoveFails(u) ==
    /\ stage[u] = "open" /\ handle[u] /\ place[u] = "part" /\ Faulty
    /\ handle' = Forgotten(u)
    /\ torn' = [torn EXCEPT ![u] = "remove"]
    /\ UNCHANGED <<uploadVars, row, fileVars, patchVars, exits>>

\* DELETE: of an upload whose row is there.
delete_upload(u) == row[u] /\ (upload_abort(u) \/ RemoveFails(u))

abort_upload(u) ==
    /\ stage[u] = "aborting"
    /\ row' = [row EXCEPT ![u] = FALSE]
    /\ stage' = [stage EXCEPT ![u] = "aborted"]
    /\ UNCHANGED <<size, dest, handle, fileVars, patchVars, torn, exits, faults>>

\* The answer is lost or the commit fails: of a POST, what the worker has made
\* stays; of a DELETE, the row.
BreaksOff(u) ==
    /\ Faulty
    /\ \/ /\ stage[u] = "begun"
          /\ stage' = [stage EXCEPT ![u] = "lost"]
          /\ torn' = [torn EXCEPT ![u] = "begin"]
       \/ /\ stage[u] = "aborting"
          /\ stage' = [stage EXCEPT ![u] = "open"]
          /\ torn' = IF place[u] = "part" THEN torn ELSE [torn EXCEPT ![u] = "end"]
    /\ UNCHANGED <<size, dest, row, handle, fileVars, patchVars, exits>>

-----------------------------------------------------------------------------
(* PATCH                                                                    *)

\* What the worker is asked before every PATCH, and for HEAD.
current_offset(u) == FileSize(u)

\* Fault: the client's offset is taken as it is.
Accepted_unchecked(u, o) == TRUE
\* 409 unless the client is where the worker is.
Accepted(u, o) == o = current_offset(u)

\* The row is read and the worker asked for the size of the .part file.  (A
\* request that is turned away changes nothing.)
patch_upload(q, u, o, k) ==
    /\ pc[q] = "idle" /\ row[u]
    /\ handle[u] /\ place[u] = "part" /\ Accepted(u, o)
    /\ of' = [of EXCEPT ![q] = u]
    /\ offset' = [offset EXCEPT ![q] = o]
    /\ left' = [left EXCEPT ![q] = k]
    /\ Goes(q, "reading")
    /\ UNCHANGED <<uploadVars, row, handle, fileVars, torn, exits, faults>>

\* _op_upload_chunk: the handle gives the name of the file.
op_upload_chunk(q) == Goes(q, IF handle[of[q]] THEN "found" ELSE "failed")

\* write_chunk of SocketFileDataClient sends a block, over a connection of
\* its own; a worker that is gone refuses it, and has no handle.
write_chunk(q) ==
    /\ pc[q] = "reading" /\ left[q] > 0
    /\ op_upload_chunk(q)
    /\ UNCHANGED <<uploadVars, row, handle, fileVars, of, offset, left, torn, exits, faults>>

\* open(part_path, "r+b"), in a thread.
Open(q) ==
    /\ pc[q] = "found"
    /\ Goes(q, IF place[of[q]] = "part" THEN "opened" ELSE "failed")
    /\ UNCHANGED <<uploadVars, row, handle, fileVars, of, offset, left, torn, exits, faults>>

\* seek(offset), write
BlockAt(q) == offset[q] + 1

Write(q) ==
    /\ pc[q] = "opened"
    /\ data' = [data EXCEPT ![of[q]] = @ \cup {BlockAt(q)}]
    /\ Goes(q, "wrote")
    /\ UNCHANGED <<uploadVars, row, handle, place, at, of, offset, left, torn, exits, faults>>

WriteFails(q) ==
    /\ pc[q] = "opened" /\ Faulty
    /\ Goes(q, "failed")
    /\ UNCHANGED <<uploadVars, row, handle, fileVars, of, offset, left, torn, exits>>

\* The new offset is tell(), where this write ended; committing it to a row
\* that is gone raises StaleDataError.
ChunkReturns(q) ==
    /\ pc[q] = "wrote"
    /\ offset' = [offset EXCEPT ![q] = @ + 1]
    /\ left' = [left EXCEPT ![q] = @ - 1]
    /\ Goes(q, IF row[of[q]] THEN "reading" ELSE "failed")
    /\ UNCHANGED <<uploadVars, row, handle, fileVars, of, torn, exits, faults>>

\* ClientDisconnect while the body is read, or the answer is lost or the commit
\* fails after a write.
Disconnect(q) ==
    /\ pc[q] \in {"reading", "wrote"} /\ Faulty
    /\ Goes(q, "failed")
    /\ UNCHANGED <<uploadVars, row, handle, fileVars, of, offset, left, torn, exits>>

\* Fault: one block early.
Reached_early(q) == offset[q] + 1 >= size[of[q]]
Reached(q) == offset[q] >= size[of[q]]

\* The body has ended before the declared size.
PatchEnds(q) ==
    /\ pc[q] = "reading" /\ left[q] = 0 /\ ~Reached(q)
    /\ Goes(q, "done")
    /\ UNCHANGED <<uploadVars, row, handle, fileVars, of, offset, left, torn, exits, faults>>

\* files.upload_complete: rename() replaces what is at the destination.
upload_complete(q) ==
    LET u == of[q]  d == dest[u] IN
    /\ pc[q] = "reading" /\ left[q] = 0 /\ Reached(q)
    /\ handle[u] /\ place[u] = "part"
    /\ place' = [v \in Uploads |-> IF v = u THEN "dest"
                                   ELSE IF at[d] = v THEN "gone" ELSE place[v]]
    /\ at' = [at EXCEPT ![d] = u]
    /\ handle' = Forgotten(u)
    /\ Goes(q, "renamed")
    /\ UNCHANGED <<uploadVars, row, data, of, offset, left, torn, exits, faults>>

\* No handle (another request completed or aborted it), or rename fails.
CompleteFails(q) ==
    LET u == of[q] IN
    /\ pc[q] = "reading" /\ left[q] = 0 /\ Reached(q)
    /\ IF handle[u] /\ place[u] = "part" THEN Faulty ELSE UNCHANGED faults
    /\ Goes(q, "failed")
    /\ UNCHANGED <<uploadVars, row, handle, fileVars, of, offset, left, torn, exits>>

complete_upload(q) ==
    /\ pc[q] = "renamed"
    /\ row' = [row EXCEPT ![of[q]] = FALSE]
    /\ Goes(q, "done")
    /\ UNCHANGED <<uploadVars, handle, fileVars, of, offset, left, torn, exits, faults>>

\* The answer is lost or the commit fails: the file has its name and the row
\* stays.
CompleteBreaksOff(q) ==
    /\ pc[q] = "renamed" /\ Faulty
    /\ torn' = [torn EXCEPT ![of[q]] = "end"]
    /\ Goes(q, "failed")
    /\ UNCHANGED <<uploadVars, row, handle, fileVars, of, offset, left, exits>>

\* The worker exits: 15 minutes without a call, or the user's last process
\* is killed.  What its threads were doing ends there.
WorkerExits ==
    /\ exits < MaxExits
    /\ exits' = exits + 1
    /\ handle' = [u \in Uploads |-> FALSE]
    /\ pc' = [q \in Patches |-> IF pc[q] \in {"found", "opened", "wrote"}
                                THEN "failed" ELSE pc[q]]
    /\ UNCHANGED <<uploadVars, row, fileVars, of, offset, left, torn, faults>>

Patch(q) ==
    \/ \E u \in Uploads : \E o \in 0..size[u] : \E k \in 0..(size[u] - o) :
         patch_upload(q, u, o, k)
    \/ write_chunk(q) \/ Open(q) \/ Write(q) \/ WriteFails(q) \/ ChunkReturns(q)
    \/ Disconnect(q) \/ PatchEnds(q)
    \/ upload_complete(q) \/ CompleteFails(q) \/ complete_upload(q) \/ CompleteBreaksOff(q)

Next ==
    \/ \E u \in Uploads :
         \/ create_upload(u) \/ begin_upload(u) \/ delete_upload(u) \/ abort_upload(u)
         \/ BreaksOff(u)
    \/ \E q \in Patches : Patch(q)
    \/ WorkerExits

Spec == Init /\ [][Next]_vars

-----------------------------------------------------------------------------
(* Properties.                                                              *)

Quiet == /\ \A q \in Patches : pc[q] \in {"idle", "done", "failed"}
         /\ \A u \in Uploads : stage[u] \notin {"begun", "aborting"}

\* The variables have their types.
TypeOK ==
    /\ stage \in [Uploads -> {"new", "begun", "lost", "open", "aborting", "aborted"}]
    /\ row \in [Uploads -> BOOLEAN] /\ handle \in [Uploads -> BOOLEAN]
    /\ place \in [Uploads -> {"none", "part", "dest", "gone"}]
    /\ data \in [Uploads -> SUBSET Blocks]
    /\ size \in [Uploads -> Sizes \cup {0}] /\ dest \in [Uploads -> Dests]
    /\ at \in [Dests -> Uploads \cup {Free}]
    /\ pc \in [Patches -> {"idle", "reading", "found", "opened", "wrote",
                           "renamed", "done", "failed"}]
    /\ of \in [Patches -> Uploads \cup {NoUpload}]
    /\ offset \in [Patches -> Offsets] /\ left \in [Patches -> Offsets]
    /\ torn \in [Uploads -> {"no", "begin", "remove", "end"}]
    /\ exits \in 0..MaxExits /\ faults \in 0..MaxFaults

\* A file is "never briefly visible under its final name half-written": what
\* is at a destination is all of it, whichever PATCHes of the upload overlap.
DestIsWhole == \A d \in Dests : at[d] # Free => data[at[d]] = 1..size[at[d]]

\* The offset a client is told to resume from has every block before it: no
\* sequence of interrupted and overlapping PATCHes leaves a hole.
OffsetIsExact == \A u \in Uploads : data[u] = 1..FileSize(u)

\* Between requests a row, a handle and a .part file stand for one another, as
\* long as the worker lives, but where a request was left half done; and then
\* nothing else is wrong: a POST leaves a .part file nobody has a row for, a
\* DELETE or a complete a row without a file, and a removal that failed a .part
\* file without a handle, which has lost its row after one more DELETE.  A
\* handle always has its .part file.
RowHandlePart ==
    Quiet /\ exits = 0 => \A u \in Uploads :
      /\ handle[u] => place[u] = "part"
      /\ place[u] = "part" /\ ~handle[u] => torn[u] = "remove"
      /\ place[u] = "part" /\ ~row[u] => torn[u] \in {"begin", "remove"}
      /\ row[u] /\ place[u] # "part" => torn[u] = "end"
==============================================================================
