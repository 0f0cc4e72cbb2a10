---------------------------- MODULE UploadsProofs ----------------------------
(***************************************************************************)
(* Proofs about uploads for any number of uploads, destinations and        *)
(* PATCHes and any sizes: no hole is ever written, and what is under a     *)
(* final name is whole.                                                    *)
(*                                                                         *)
(* A PATCH starts at the size of the .part file and moves on by what it    *)
(* wrote, so it is never ahead of the file, however many others write too; *)
(* and it never goes past Upload-Length.  A file that reaches its length   *)
(* under these conditions has all its blocks.                              *)
(***************************************************************************)
EXTENDS Uploads, TLAPS

\* As much of TypeOK as the argument needs.
Types ==
    /\ stage \in [Uploads -> {"new", "begun", "lost", "open", "aborting", "aborted"}]
    /\ row \in [Uploads -> BOOLEAN]
    /\ data \in [Uploads -> SUBSET Nat]
    /\ size \in [Uploads -> Nat]
    /\ at \in [Dests -> Uploads \cup {Free}]
    /\ pc \in [Patches -> {"idle", "reading", "found", "opened", "wrote",
                           "renamed", "done", "failed"}]
    /\ of \in [Patches -> Uploads \cup {NoUpload}]
    /\ offset \in [Patches -> Nat] /\ left \in [Patches -> Nat]

\* A file is its first n blocks, and no longer than was declared.
NoHole == \A u \in Uploads : \E n \in 0..size[u] : data[u] = 1..n

\* Before its POST an upload has no row, no blocks and no place under a final
\* name, so its length is declared before anything depends on it.
NewInv ==
    /\ \A u \in Uploads : stage[u] = "new" => ~row[u] /\ data[u] = {}
    /\ \A d \in Dests : at[d] # Free => stage[at[d]] # "new"

Writing == {q \in Patches : pc[q] \in {"reading", "found", "opened", "wrote"}}

\* A PATCH has every block before its offset on disk, and its body fits.
PatchInv ==
    \A q \in Writing :
      /\ of[q] \in Uploads /\ stage[of[q]] # "new"
      /\ 1..offset[q] \subseteq data[of[q]]
      /\ offset[q] + left[q] <= size[of[q]]
      /\ pc[q] # "reading" => left[q] > 0
      /\ pc[q] = "wrote" => offset[q] + 1 \in data[of[q]]

\* The inductive invariant.
IInv == Types /\ NoHole /\ NewInv /\ PatchInv /\ DestIsWhole

-----------------------------------------------------------------------------
\* The size of a file without a hole is the number of its blocks.
LEMMA FileSizeOf ==
    ASSUME NEW u \in Uploads, NEW n \in Nat, data[u] = 1..n
    PROVE  FileSize(u) = n
<1> DEFINE S == data[u] \cup {0}
<1>1. S = 0..n
  OBVIOUS
<1>2. n \in S /\ \A y \in S : n >= y
  BY <1>1
<1>3. \A x \in S : (\A y \in S : x >= y) => x = n
  BY <1>1
<1> QED
  BY <1>2, <1>3 DEF FileSize, Max

\* One more block at the end of an interval, or inside it.
LEMMA OneMore ==
    ASSUME NEW n \in Nat, NEW b \in Nat, 1 <= b
    PROVE  /\ b <= n => (1..n) \cup {b} = 1..n
           /\ b = n + 1 => (1..n) \cup {b} = 1..b
  OBVIOUS

\* Before the first POST there is nothing to be wrong.
LEMMA InitIInv == Init => IInv
  BY NobodyAssumption DEF Init, IInv, Types, NoHole, NewInv, PatchInv, Writing,
     DestIsWhole

\* Steps that leave files, rows and lengths alone, and let a PATCH at most
\* stop or go on to a place with the same duties.
LEMMA Frame ==
    ASSUME IInv, Types', NewInv', PatchInv', data' = data, size' = size, at' = at
    PROVE  IInv'
  BY DEF IInv, NoHole, DestIsWhole

\* files.upload_begin gives a new upload its length while it has no block.
LEMMA Begins ==
    ASSUME IInv, NEW u \in Uploads, NEW d \in Dests, NEW n \in Sizes,
           upload_begin(u, d, n)
    PROVE  IInv'
<1> USE DEF IInv, upload_begin, patchVars
<1>1. n \in Nat
  BY SizesAssumption
<1>2. Types'
  BY <1>1 DEF Types
<1>3. \A v \in Uploads : v # u => size'[v] = size[v] /\ stage'[v] = stage[v]
  BY DEF Types
<1>4. stage'[u] = "begun" /\ size'[u] = n
  BY DEF Types
<1>5. NoHole'
  <2> SUFFICES ASSUME NEW v \in Uploads PROVE \E m \in 0..size'[v] : data'[v] = 1..m
    BY DEF NoHole
  <2>1. CASE v = u
    <3>1. data'[u] = {} /\ 0 \in 0..n /\ 1..0 = {}
      BY <1>1 DEF NewInv
    <3> QED
      BY <3>1, <2>1, <1>4
  <2>2. CASE v # u
    BY <2>2, <1>3 DEF NoHole
  <2> QED
    BY <2>1, <2>2
<1>6. NewInv'
  BY <1>3, <1>4 DEF NewInv, Types
<1>7. PatchInv'
  BY <1>3, <1>4 DEF PatchInv, Writing, NewInv, Types
<1>8. DestIsWhole'
  BY <1>3 DEF DestIsWhole, NewInv, Types
<1> QED
  BY <1>2, <1>5, <1>6, <1>7, <1>8

\* The row's insert and DELETE touch no block of the file, nor does it when
\* they break off.
LEMMA RowSteps ==
    ASSUME IInv, NEW u \in Uploads,
           begin_upload(u) \/ delete_upload(u) \/ abort_upload(u) \/ BreaksOff(u)
    PROVE  IInv'
<1> USE DEF IInv, begin_upload, delete_upload, upload_abort, RemoveFails, abort_upload,
            BreaksOff, uploadVars, patchVars, fileVars
<1>1. Types'
  BY DEF Types
<1>2. NewInv'
  BY DEF Types, NewInv
<1>3. PatchInv'
  BY DEF Types, PatchInv, Writing
<1> QED
  BY <1>1, <1>2, <1>3, Frame

\* PATCH: an accepted offset is the size of the file, so every block before
\* it is there.
LEMMA PatchStarts ==
    ASSUME IInv, NEW q \in Patches, NEW u \in Uploads, NEW o \in 0..size[u],
           NEW k \in 0..(size[u] - o), patch_upload(q, u, o, k)
    PROVE  IInv'
<1> USE DEF IInv, patch_upload, Goes, uploadVars, fileVars
<1>0. size[u] \in Nat /\ o \in Nat /\ k \in Nat /\ o + k <= size[u]
  BY DEF Types
<1>1. Types'
  BY <1>0 DEF Types
<1>2. NewInv'
  BY DEF NewInv
<1>3. PICK n \in 0..size[u] : data[u] = 1..n
  BY DEF NoHole
<1>4. o = n
  BY <1>0, <1>3, FileSizeOf DEF Accepted, current_offset
<1>5. stage[u] # "new"
  BY DEF NewInv
<1>6. PatchInv'
  <2> SUFFICES ASSUME NEW p \in Writing'
               PROVE  /\ of'[p] \in Uploads /\ stage'[of'[p]] # "new"
                      /\ 1..offset'[p] \subseteq data'[of'[p]]
                      /\ offset'[p] + left'[p] <= size'[of'[p]]
                      /\ pc'[p] # "reading" => left'[p] > 0
                      /\ pc'[p] = "wrote" => offset'[p] + 1 \in data'[of'[p]]
    BY DEF PatchInv
  <2>1. CASE p = q
    BY <2>1, <1>0, <1>3, <1>4, <1>5 DEF Types
  <2>2. CASE p # q
    BY <2>2 DEF PatchInv, Writing, Types
  <2> QED
    BY <2>1, <2>2
<1> QED
  BY <1>1, <1>2, <1>6, Frame

\* Steps of a PATCH that write nothing and do not end in a rename.
LEMMA PatchMoves ==
    ASSUME IInv, NEW q \in Patches,
           \/ write_chunk(q) \/ Open(q) \/ WriteFails(q) \/ Disconnect(q)
           \/ PatchEnds(q) \/ CompleteFails(q)
    PROVE  IInv'
<1> USE DEF IInv, write_chunk, op_upload_chunk, Open, WriteFails, Disconnect, PatchEnds, CompleteFails,
            Goes, uploadVars, fileVars
<1>1. Types'
  BY DEF Types
<1>2. NewInv'
  BY DEF NewInv
<1>3. PatchInv'
  BY DEF PatchInv, Writing, Types
<1> QED
  BY <1>1, <1>2, <1>3, Frame

\* The answer to a chunk moves the offset over the block just written.
LEMMA Returns ==
    ASSUME IInv, NEW q \in Patches, ChunkReturns(q)
    PROVE  IInv'
<1> USE DEF IInv, ChunkReturns, Goes, uploadVars, fileVars
<1>0. q \in Writing /\ left[q] > 0 /\ offset[q] \in Nat /\ left[q] \in Nat
  BY DEF PatchInv, Writing, Types
<1>1. Types'
  BY <1>0 DEF Types
<1>2. NewInv'
  BY DEF NewInv
<1>3. PatchInv'
  <2> SUFFICES ASSUME NEW p \in Writing'
               PROVE  /\ of'[p] \in Uploads /\ stage'[of'[p]] # "new"
                      /\ 1..offset'[p] \subseteq data'[of'[p]]
                      /\ offset'[p] + left'[p] <= size'[of'[p]]
                      /\ pc'[p] # "reading" => left'[p] > 0
                      /\ pc'[p] = "wrote" => offset'[p] + 1 \in data'[of'[p]]
    BY DEF PatchInv
  <2>1. CASE p = q
    <3>1. offset'[q] = offset[q] + 1 /\ left'[q] = left[q] - 1 /\ of'[q] = of[q]
      BY DEF Types
    <3>2. 1..offset[q] \subseteq data[of[q]] /\ offset[q] + 1 \in data[of[q]]
      BY <1>0 DEF PatchInv
    <3>3. 1..(offset[q] + 1) \subseteq data[of[q]]
      BY <3>2, <1>0
    <3>4. pc'[q] = "reading"
      BY <2>1 DEF Types, Writing
    <3>5. size[of[q]] \in Nat /\ offset[q] + left[q] <= size[of[q]]
      BY <1>0 DEF PatchInv, Types
    <3> QED
      BY <2>1, <1>0, <3>1, <3>3, <3>4, <3>5 DEF PatchInv
  <2>2. CASE p # q
    BY <2>2 DEF PatchInv, Writing, Types
  <2> QED
    BY <2>1, <2>2
<1> QED
  BY <1>1, <1>2, <1>3, Frame

\* The write: the block goes to the end of the file or where one is already.
LEMMA Writes ==
    ASSUME IInv, NEW q \in Patches, Write(q)
    PROVE  IInv'
<1> USE DEF IInv, Write, Goes, uploadVars
<1> DEFINE u == of[q]  b == offset[q] + 1
<1>0. /\ q \in Writing /\ u \in Uploads /\ offset[q] \in Nat /\ b \in Nat
      /\ size[u] \in Nat /\ b <= size[u] /\ 1..offset[q] \subseteq data[u]
      /\ stage[u] # "new"
  BY DEF PatchInv, Writing, Types
<1>1. data' = [data EXCEPT ![u] = @ \cup {b}]
  BY DEF BlockAt
<1>2. Types'
  BY <1>0, <1>1 DEF Types
<1>3. PICK n \in 0..size[u] : data[u] = 1..n
  BY <1>0 DEF NoHole
<1>4. offset[q] <= n
  <2>1. CASE offset[q] = 0
    BY <2>1, <1>0, <1>3
  <2>2. CASE offset[q] # 0
    BY <2>2, <1>0, <1>3
  <2> QED
    BY <2>1, <2>2
<1>5. data'[u] = data[u] \cup {b} /\ \A v \in Uploads : v # u => data'[v] = data[v]
  BY <1>0, <1>1 DEF Types
<1>6. \E m \in 0..size[u] : data'[u] = 1..m
  <2>0. n \in Nat /\ 1 <= b /\ (b <= n \/ b = n + 1)
    BY <1>0, <1>4
  <2>1. CASE b <= n
    <3>1. data'[u] = 1..n
      BY <2>0, <2>1, <1>0, <1>3, <1>5, OneMore
    <3> QED
      BY <3>1
  <2>2. CASE b = n + 1
    <3>1. data'[u] = 1..b
      BY <2>0, <2>2, <1>0, <1>3, <1>5, OneMore
    <3>2. b \in 0..size[u]
      BY <1>0
    <3> QED
      BY <3>1, <3>2
  <2> HIDE DEF b
  <2> QED
    BY <2>0, <2>1, <2>2
<1>7. NoHole'
  BY <1>5, <1>6 DEF NoHole
<1>8. NewInv'
  BY <1>0, <1>5 DEF NewInv
<1>9. \A v \in Uploads : data[v] \subseteq data'[v]
  BY <1>5
<1>10. PatchInv'
  <2> SUFFICES ASSUME NEW p \in Writing'
               PROVE  /\ of'[p] \in Uploads /\ stage'[of'[p]] # "new"
                      /\ 1..offset'[p] \subseteq data'[of'[p]]
                      /\ offset'[p] + left'[p] <= size'[of'[p]]
                      /\ pc'[p] # "reading" => left'[p] > 0
                      /\ pc'[p] = "wrote" => offset'[p] + 1 \in data'[of'[p]]
    BY DEF PatchInv
  <2>1. p \in Writing /\ (p # q => pc'[p] = pc[p])
    BY <1>0 DEF Writing, Types
  <2>2. pc'[p] = "wrote" => offset[p] + 1 \in data'[of[p]]
    BY <2>1, <1>0, <1>5, <1>9 DEF PatchInv
  <2> QED
    BY <2>1, <2>2, <1>0, <1>9 DEF PatchInv, Types
<1>11. DestIsWhole'
  <2> SUFFICES ASSUME NEW d \in Dests, at[d] = u PROVE data'[u] = 1..size[u]
    BY <1>5, NobodyAssumption DEF DestIsWhole, Types
  <2>1. data[u] = 1..size[u]
    BY <1>0, NobodyAssumption DEF DestIsWhole
  <2>2. (1..size[u]) \cup {b} = 1..size[u]
    BY <1>0, OneMore
  <2> QED
    BY <2>1, <2>2, <1>5
<1> QED
  BY <1>2, <1>7, <1>8, <1>10, <1>11

\* The rename: the PATCH has reached the declared length.
LEMMA Completes ==
    ASSUME IInv, NEW q \in Patches, upload_complete(q)
    PROVE  IInv'
<1> USE DEF IInv, upload_complete, Goes, uploadVars
<1> DEFINE u == of[q]
<1>0. /\ q \in Writing /\ u \in Uploads /\ offset[q] \in Nat /\ size[u] \in Nat
      /\ offset[q] = size[u] /\ 1..offset[q] \subseteq data[u]
      /\ stage[u] # "new"
  BY DEF PatchInv, Writing, Types, Reached
<1>1. Types'
  BY <1>0 DEF Types
<1>2. NoHole'
  BY DEF NoHole
<1>3. \A d \in Dests : at'[d] = at[d] \/ at'[d] = u
  BY DEF Types
<1>4. NewInv'
  BY <1>0, <1>3 DEF NewInv
<1>5. PatchInv'
  BY DEF PatchInv, Writing, Types
<1>6. PICK n \in 0..size[u] : data[u] = 1..n
  BY <1>0 DEF NoHole
<1>7. data[u] = 1..size[u]
  BY <1>0, <1>6
<1>8. DestIsWhole'
  BY <1>3, <1>7 DEF DestIsWhole
<1> QED
  BY <1>1, <1>2, <1>4, <1>5, <1>8

\* The row's deletion and the worker's exit leave the files as they are.
LEMMA Others ==
    ASSUME IInv,
           \/ \E q \in Patches : complete_upload(q) \/ CompleteBreaksOff(q)
           \/ WorkerExits \/ UNCHANGED vars
    PROVE  IInv'
<1> USE DEF IInv
<1>1. CASE \E q \in Patches : complete_upload(q) \/ CompleteBreaksOff(q)
  <2> PICK q \in Patches : complete_upload(q) \/ CompleteBreaksOff(q)
    BY <1>1
  <2> USE DEF complete_upload, CompleteBreaksOff, Goes, uploadVars, fileVars
  <2>1. Types'
    BY DEF Types
  <2>2. NewInv'
    BY DEF NewInv, Types
  <2>3. PatchInv'
    BY DEF PatchInv, Writing, Types
  <2> QED
    BY <2>1, <2>2, <2>3, Frame
<1>2. CASE WorkerExits
  <2> USE <1>2 DEF WorkerExits, uploadVars, fileVars
  <2>1. Types'
    BY DEF Types
  <2>2. NewInv'
    BY DEF NewInv
  <2>3. PatchInv'
    BY DEF PatchInv, Writing, Types
  <2> QED
    BY <2>1, <2>2, <2>3, Frame
<1>3. CASE UNCHANGED vars
  BY <1>3 DEF vars, uploadVars, fileVars, patchVars, Types, NoHole, NewInv, PatchInv,
     Writing, DestIsWhole
<1> QED
  BY <1>1, <1>2, <1>3

\* Every step of POST, PATCH, DELETE and of the worker keeps IInv.
LEMMA NextIInv == IInv /\ [Next]_vars => IInv'
<1> SUFFICES ASSUME IInv, [Next]_vars PROVE IInv'
  OBVIOUS
<1>1. ASSUME NEW q \in Patches, Patch(q) PROVE IInv'
  BY <1>1, PatchStarts, PatchMoves, Returns, Writes, Completes, Others DEF Patch
<1>2. ASSUME NEW u \in Uploads, create_upload(u) PROVE IInv'
  BY <1>2, Begins DEF create_upload
<1>3. ASSUME NEW u \in Uploads,
             begin_upload(u) \/ delete_upload(u) \/ abort_upload(u) \/ BreaksOff(u)
      PROVE IInv'
  BY <1>3, RowSteps
<1> QED
  BY <1>1, <1>2, <1>3, Others DEF Next

\* IInv is an invariant of uploads.
THEOREM Invariance == Spec => []IInv
<1>1. Init => IInv
  BY InitIInv
<1>2. IInv /\ [Next]_vars => IInv'
  BY NextIInv
<1> QED
  BY <1>1, <1>2, PTL DEF Spec

\* What is at a destination is all of the upload, for any number of uploads
\* and of overlapping, interrupted and repeated PATCHes.
THEOREM FinalNamesAreWhole == Spec => []DestIsWhole
  BY Invariance, PTL DEF IInv

\* The offset a client is told to resume from has every block before it.
THEOREM ResumeIsExact == Spec => []OffsetIsExact
<1>1. IInv => OffsetIsExact
  BY FileSizeOf DEF IInv, NoHole, OffsetIsExact, Types
<1> QED
  BY <1>1, Invariance, PTL
-----------------------------------------------------------------------------
(* Between requests, a row, a handle and a .part file go together.          *)

\* As much more of TypeOK as this argument needs.
PlaceTypes ==
    /\ handle \in [Uploads -> BOOLEAN]
    /\ place \in [Uploads -> {"none", "part", "dest", "gone"}]
    /\ torn \in [Uploads -> {"no", "begin", "remove", "end"}]
    /\ DOMAIN dest = Uploads /\ exits \in Nat

\* An upload has a destination from its POST on, and what is at a path was
\* declared for it and has its final name.
AtInv ==
    /\ \A u \in Uploads : stage[u] # "new" => dest[u] \in Dests
    /\ \A d \in Dests : at[d] # Free => dest[at[d]] = d /\ place[at[d]] = "dest"

\* The row is the last thing POST makes.  Only an upload whose row was there
\* has PATCHes, and one whose rename a PATCH has done is no .part file any more.
Rowless == {"new", "begun", "lost"}
OfInv ==
    /\ \A u \in Uploads : row[u] => stage[u] \notin Rowless
    /\ \A q \in Patches : pc[q] # "idle" =>
         /\ of[q] \in Uploads /\ stage[of[q]] \notin Rowless
         /\ pc[q] = "renamed" => place[of[q]] \in {"dest", "gone"}

\* Where an upload is, by the stage of its POST and DELETE, as long as the
\* worker lives.  A row without a file is one that is about to be deleted, or
\* was; a .part file without a handle one whose removal failed.
StageInv ==
    exits = 0 => \A u \in Uploads :
        /\ handle[u] => place[u] = "part"
        /\ place[u] = "part" /\ ~handle[u] => torn[u] = "remove"
        /\ stage[u] = "new" => place[u] = "none"
        /\ stage[u] = "begun" => handle[u]
        /\ stage[u] = "lost" => handle[u] /\ torn[u] = "begin"
        /\ stage[u] \in {"aborting", "aborted"} => place[u] # "part" \/ torn[u] = "remove"
        /\ stage[u] = "aborted" => ~row[u]
        /\ stage[u] \in {"open", "aborting"} /\ place[u] = "part" => row[u]
        /\ stage[u] = "open" /\ row[u] /\ place[u] # "part" =>
             torn[u] = "end" \/ \E q \in Patches : pc[q] = "renamed" /\ of[q] = u

\* The inductive invariant behind RowHandlePart.
PlaceInv == PlaceTypes /\ AtInv /\ OfInv /\ StageInv

\* POST: a new upload gets its path, its .part file and its handle.
LEMMA BeginPlaces ==
    ASSUME IInv, PlaceInv, NEW u \in Uploads, NEW d \in Dests, NEW n \in Sizes,
           upload_begin(u, d, n)
    PROVE  PlaceInv'
<1> USE DEF upload_begin, patchVars, PlaceInv
<1>0. /\ stage[u] = "new" /\ UNCHANGED <<row, at, pc, of, torn, exits>>
      /\ stage'[u] = "begun" /\ place'[u] = "part" /\ handle'[u] = TRUE
      /\ dest'[u] = d
      /\ \A v \in Uploads : v # u =>
           /\ stage'[v] = stage[v] /\ place'[v] = place[v]
           /\ handle'[v] = handle[v] /\ dest'[v] = dest[v]
  BY DEF IInv, Types, PlaceTypes
<1>1. PlaceTypes'
  BY DEF PlaceTypes
<1>2. AtInv'
  BY <1>0 DEF AtInv, IInv, Types, NewInv
<1>3. OfInv'
  BY <1>0 DEF OfInv, Rowless
<1>4. StageInv'
  BY <1>0 DEF StageInv
<1> QED
  BY <1>1, <1>2, <1>3, <1>4

\* The row's insert and the two halves of DELETE, and where they break off.
LEMMA RowPlaces ==
    ASSUME IInv, PlaceInv, NEW u \in Uploads,
           begin_upload(u) \/ delete_upload(u) \/ abort_upload(u) \/ BreaksOff(u)
    PROVE  PlaceInv'
<1> USE DEF patchVars, fileVars, PlaceInv
<1>0. /\ stage \in [Uploads -> {"new", "begun", "lost", "open", "aborting", "aborted"}]
      /\ row \in [Uploads -> BOOLEAN]
      /\ handle \in [Uploads -> BOOLEAN]
      /\ place \in [Uploads -> {"none", "part", "dest", "gone"}]
      /\ torn \in [Uploads -> {"no", "begin", "remove", "end"}]
  BY DEF IInv, Types, PlaceTypes
<1>1. CASE begin_upload(u)
  <2>0. /\ stage[u] = "begun" /\ UNCHANGED <<handle, place, at, dest, pc, of, torn, exits>>
        /\ stage'[u] = "open" /\ row'[u] = TRUE
        /\ \A v \in Uploads : v # u => stage'[v] = stage[v] /\ row'[v] = row[v]
    BY <1>0, <1>1 DEF begin_upload
  <2>1. PlaceTypes' /\ AtInv'
    BY <1>0, <2>0 DEF PlaceTypes, AtInv
  <2>2. OfInv'
    BY <2>0 DEF OfInv, Rowless
  <2>3. StageInv'
    BY <2>0 DEF StageInv
  <2> QED
    BY <2>1, <2>2, <2>3
<1>2. CASE row[u] /\ upload_abort(u)
  <2>0. /\ stage[u] = "open" /\ UNCHANGED <<row, at, dest, pc, of, torn, exits>>
        /\ stage'[u] = "aborting" /\ handle'[u] = FALSE
        /\ place'[u] = IF handle[u] /\ place[u] = "part" THEN "gone" ELSE place[u]
        /\ \A v \in Uploads : v # u =>
             stage'[v] = stage[v] /\ handle'[v] = handle[v] /\ place'[v] = place[v]
    BY <1>0, <1>2 DEF upload_abort, AbortedPlace
  <2>1. PlaceTypes'
    BY <1>0, <1>2 DEF PlaceTypes, upload_abort, AbortedPlace
  <2>2. AtInv'
    BY <2>0 DEF AtInv, IInv, Types
  <2>3. OfInv'
    BY <2>0 DEF OfInv, Rowless
  <2>4. StageInv'
    BY <2>0 DEF StageInv
  <2> QED
    BY <2>1, <2>2, <2>3, <2>4
<1>3. CASE row[u] /\ RemoveFails(u)
  <2>0. /\ place[u] = "part" /\ stage[u] = "open" /\ row[u]
        /\ UNCHANGED <<stage, row, place, at, dest, pc, of, exits>>
        /\ handle'[u] = FALSE /\ torn'[u] = "remove"
        /\ \A v \in Uploads : v # u => handle'[v] = handle[v] /\ torn'[v] = torn[v]
    BY <1>0, <1>3 DEF RemoveFails, uploadVars, Forgotten
  <2>1. PlaceTypes'
    BY <1>0, <1>3 DEF PlaceTypes, RemoveFails, uploadVars, Forgotten
  <2>2. AtInv' /\ OfInv'
    BY <2>0 DEF AtInv, OfInv
  <2>3. StageInv'
    BY <2>0 DEF StageInv
  <2> QED
    BY <2>1, <2>2, <2>3
<1>4. CASE abort_upload(u)
  <2>0. /\ stage[u] = "aborting" /\ UNCHANGED <<handle, place, at, dest, pc, of, torn, exits>>
        /\ stage'[u] = "aborted" /\ row'[u] = FALSE
        /\ \A v \in Uploads : v # u => stage'[v] = stage[v] /\ row'[v] = row[v]
    BY <1>0, <1>4 DEF abort_upload
  <2>1. PlaceTypes' /\ AtInv'
    BY <1>0, <2>0 DEF PlaceTypes, AtInv
  <2>2. OfInv'
    BY <2>0 DEF OfInv, Rowless
  <2>3. StageInv'
    BY <2>0 DEF StageInv
  <2> QED
    BY <2>1, <2>2, <2>3
<1>5. CASE BreaksOff(u)
  <2>0. /\ UNCHANGED <<row, handle, place, at, dest, pc, of, exits>>
        /\ \/ stage[u] = "begun" /\ stage'[u] = "lost" /\ torn'[u] = "begin"
           \/ /\ stage[u] = "aborting" /\ stage'[u] = "open"
              /\ torn'[u] = IF place[u] = "part" THEN torn[u] ELSE "end"
        /\ \A v \in Uploads : v # u => stage'[v] = stage[v] /\ torn'[v] = torn[v]
    BY <1>0, <1>5 DEF BreaksOff
  <2>1. PlaceTypes'
    BY <1>0, <1>5 DEF PlaceTypes, BreaksOff
  <2>2. AtInv'
    BY <2>0 DEF AtInv
  <2>3. OfInv'
    BY <2>0 DEF OfInv, Rowless
  <2>4. StageInv'
    BY <2>0 DEF StageInv
  <2> QED
    BY <2>1, <2>2, <2>3, <2>4
<1> QED
  BY <1>1, <1>2, <1>3, <1>4, <1>5 DEF delete_upload

\* The steps of a PATCH up to its last: none of them renames or forgets.
LEMMA PatchPlaces ==
    ASSUME IInv, PlaceInv, NEW q \in Patches,
           UNCHANGED <<stage, row, handle, place, dest, at, torn, exits>>,
           pc[q] # "renamed", pc'[q] # "renamed", pc'[q] # "idle",
           \A p \in Patches : p # q => pc'[p] = pc[p] /\ of'[p] = of[p],
           of'[q] \in Uploads, stage[of'[q]] \notin Rowless
    PROVE  PlaceInv'
<1> USE DEF PlaceInv
<1>1. PlaceTypes' /\ AtInv'
  BY DEF PlaceTypes, AtInv
<1>2. OfInv'
  BY DEF OfInv
<1>3. StageInv'
  BY DEF StageInv
<1> QED
  BY <1>1, <1>2, <1>3

\* The rename gives the file its final name and takes the handle; what was
\* there before is gone, and had no handle.
LEMMA CompletePlaces ==
    ASSUME IInv, PlaceInv, NEW q \in Patches, upload_complete(q)
    PROVE  PlaceInv'
<1> USE DEF PlaceInv
<1> DEFINE u == of[q]  d == dest[u]
<1>0. /\ u \in Uploads /\ stage[u] \notin Rowless /\ pc[q] = "reading"
  BY DEF OfInv, upload_complete
<1>1. /\ place[u] = "part" /\ handle[u]
      /\ UNCHANGED <<stage, row, dest, of, torn, exits>>
      /\ place' = [v \in Uploads |-> IF v = u THEN "dest"
                                     ELSE IF at[d] = v THEN "gone" ELSE place[v]]
      /\ at' = [at EXCEPT ![d] = u] /\ handle' = [handle EXCEPT ![u] = FALSE]
      /\ pc' = [pc EXCEPT ![q] = "renamed"]
  BY DEF upload_complete, uploadVars, Goes, Forgotten
<1> HIDE DEF u, d
<1>2. /\ at \in [Dests -> Uploads \cup {Free}]
      /\ handle \in [Uploads -> BOOLEAN]
      /\ place \in [Uploads -> {"none", "part", "dest", "gone"}]
      /\ pc'[q] = "renamed" /\ \A p \in Patches : p # q => pc'[p] = pc[p]
  BY <1>1 DEF IInv, Types, PlaceTypes
<1>3. PlaceTypes'
  BY <1>1, <1>2 DEF PlaceTypes
<1>4. d \in Dests /\ \A v \in Uploads : v # u /\ at[d] = v => place[v] = "dest"
  BY <1>0, NobodyAssumption DEF AtInv, Rowless, d
<1>5. AtInv'
  <2> SUFFICES ASSUME NEW e \in Dests, at'[e] # Free
               PROVE  dest[at'[e]] = e /\ place'[at'[e]] = "dest"
    BY <1>0, <1>1 DEF AtInv
  <2>1. CASE e = d
    <3>1. at'[e] = u
      BY <1>1, <1>2, <2>1
    <3> QED
      BY <1>0, <1>1, <2>1, <3>1 DEF d
  <2>2. CASE e # d
    <3>1. at'[e] = at[e] /\ at[e] \in Uploads
      BY <1>1, <1>2, <2>2
    <3>2. dest[at[e]] = e /\ place[at[e]] = "dest" /\ at[e] # u
      BY <1>1, <3>1 DEF AtInv
    <3>3. at[d] # at[e]
      BY <1>4, <2>2, <3>1, <3>2, NobodyAssumption DEF AtInv
    <3> QED
      BY <1>1, <3>1, <3>2, <3>3
  <2> QED
    BY <2>1, <2>2
<1>6. OfInv'
  BY <1>0, <1>1, <1>2 DEF OfInv, u
<1>7. StageInv'
  <2>1. \A v \in Uploads : v # u =>
          /\ handle'[v] = handle[v]
          /\ \/ place'[v] = place[v]
             \/ place[v] = "dest" /\ place'[v] = "gone"
    BY <1>1, <1>2, <1>4
  <2>2. place'[u] = "dest" /\ handle'[u] = FALSE
    BY <1>0, <1>1, <1>2
  <2>3. ASSUME NEW v \in Uploads, \E p \in Patches : pc[p] = "renamed" /\ of[p] = v
        PROVE  \E p \in Patches : pc'[p] = "renamed" /\ of'[p] = v
    BY <1>0, <1>1, <1>2, <2>3
  <2>4. \E p \in Patches : pc'[p] = "renamed" /\ of'[p] = u
    BY <1>1, <1>2 DEF u
  <2> QED
    BY <1>0, <1>1, <2>1, <2>2, <2>3, <2>4 DEF StageInv, Rowless
<1> QED
  BY <1>3, <1>5, <1>6, <1>7
\* The deletion of a completed upload's row, or none, and the worker's exit.
LEMMA LastPlaces ==
    ASSUME IInv, PlaceInv,
           \/ \E q \in Patches : complete_upload(q) \/ CompleteBreaksOff(q)
           \/ WorkerExits \/ UNCHANGED vars
    PROVE  PlaceInv'
<1> USE DEF PlaceInv
<1>1. ASSUME NEW q \in Patches, complete_upload(q) \/ CompleteBreaksOff(q) PROVE PlaceInv'
  <2> DEFINE u == of[q]
  <2>1. /\ u \in Uploads /\ stage[u] \notin Rowless /\ place[u] \in {"dest", "gone"}
        /\ pc[q] = "renamed"
    BY <1>1 DEF OfInv, complete_upload, CompleteBreaksOff
  <2>2. /\ UNCHANGED <<stage, handle, place, dest, at, of, exits>>
        /\ \/ row'[u] = FALSE /\ torn' = torn
           \/ row' = row /\ torn' = [torn EXCEPT ![u] = "end"]
        /\ pc'[q] \in {"done", "failed"}
        /\ \A v \in Uploads : v # u => row'[v] = row[v]
        /\ \A p \in Patches : p # q => pc'[p] = pc[p]
    BY <1>1, <2>1
    DEF complete_upload, CompleteBreaksOff, uploadVars, fileVars, Goes, IInv, Types
  <2>3. PlaceTypes' /\ AtInv'
    BY <2>2 DEF PlaceTypes, AtInv
  <2>4. OfInv'
    BY <2>1, <2>2 DEF OfInv
  <2>5. StageInv'
    <3>1. \A v \in Uploads : v # u /\ (\E p \in Patches : pc[p] = "renamed" /\ of[p] = v) =>
            \E p \in Patches : pc'[p] = "renamed" /\ of'[p] = v
      BY <2>2
    <3>2. /\ \A v \in Uploads : v # u => torn'[v] = torn[v]
          /\ row'[u] => torn'[u] = "end"
      BY <2>1, <2>2 DEF PlaceTypes
    <3> HIDE DEF u
    <3> QED
      BY <2>1, <2>2, <3>1, <3>2 DEF StageInv
  <2> QED
    BY <2>3, <2>4, <2>5
<1>2. CASE WorkerExits
  <2>1. /\ UNCHANGED <<stage, row, place, dest, at, of, torn>> /\ exits' = exits + 1
        /\ handle' = [u \in Uploads |-> FALSE]
        /\ \A q \in Patches : pc'[q] = pc[q] \/ (pc[q] # "idle" /\ pc'[q] = "failed")
    BY <1>2 DEF WorkerExits, uploadVars, fileVars
  <2>2. PlaceTypes' /\ AtInv'
    BY <2>1 DEF PlaceTypes, AtInv
  <2>3. OfInv'
    BY <2>1 DEF OfInv
  <2>4. StageInv'
    BY <2>1 DEF StageInv, PlaceTypes
  <2> QED
    BY <2>2, <2>3, <2>4
<1>3. CASE UNCHANGED vars
  BY <1>3 DEF vars, uploadVars, fileVars, patchVars, PlaceTypes, AtInv, OfInv, StageInv
<1> QED
  BY <1>1, <1>2, <1>3

\* Every step keeps PlaceInv.
LEMMA NextPlaces == IInv /\ PlaceInv /\ [Next]_vars => PlaceInv'
<1> SUFFICES ASSUME IInv, PlaceInv, [Next]_vars PROVE PlaceInv'
  OBVIOUS
<1>1. ASSUME NEW q \in Patches, Patch(q) PROVE PlaceInv'
  <2>1. CASE upload_complete(q)
    BY <2>1, CompletePlaces
  <2>2. CASE complete_upload(q) \/ CompleteBreaksOff(q)
    BY <2>2, LastPlaces
  <2>3. ASSUME NEW u \in Uploads, NEW o \in 0..size[u], NEW k \in 0..(size[u] - o),
               patch_upload(q, u, o, k)
        PROVE  PlaceInv'
    <3>1. /\ UNCHANGED <<stage, row, handle, place, dest, at, torn, exits>>
          /\ pc[q] = "idle" /\ pc'[q] = "reading" /\ of'[q] = u /\ row[u]
          /\ \A p \in Patches : p # q => pc'[p] = pc[p] /\ of'[p] = of[p]
      BY <2>3 DEF patch_upload, Goes, uploadVars, fileVars, IInv, Types
    <3>2. stage[u] \notin Rowless
      BY <3>1 DEF PlaceInv, OfInv
    <3> QED
      BY <3>1, <3>2, PatchPlaces
  <2>4. CASE \/ write_chunk(q) \/ Open(q) \/ Write(q) \/ WriteFails(q) \/ ChunkReturns(q)
             \/ Disconnect(q) \/ PatchEnds(q) \/ CompleteFails(q)
    <3>1. /\ UNCHANGED <<stage, row, handle, place, dest, at, torn, exits, of>>
          /\ pc[q] \in {"reading", "found", "opened", "wrote"}
          /\ \E s \in {"reading", "found", "opened", "wrote", "done", "failed"} :
               pc' = [pc EXCEPT ![q] = s]
      BY <2>4 DEF write_chunk, op_upload_chunk, Open, Write, WriteFails, ChunkReturns,
                  Disconnect, PatchEnds, CompleteFails, Goes, uploadVars, fileVars
    <3>2. of[q] \in Uploads /\ stage[of[q]] \notin Rowless
      BY <3>1 DEF PlaceInv, OfInv
    <3>3. /\ pc'[q] \in {"reading", "found", "opened", "wrote", "done", "failed"}
          /\ \A p \in Patches : p # q => pc'[p] = pc[p]
      BY <3>1 DEF IInv, Types
    <3> QED
      BY <3>1, <3>2, <3>3, PatchPlaces
  <2> QED
    BY <1>1, <2>1, <2>2, <2>3, <2>4 DEF Patch
<1>2. ASSUME NEW u \in Uploads, create_upload(u) PROVE PlaceInv'
  BY <1>2, BeginPlaces DEF create_upload
<1>3. ASSUME NEW u \in Uploads,
             begin_upload(u) \/ delete_upload(u) \/ abort_upload(u) \/ BreaksOff(u)
      PROVE PlaceInv'
  BY <1>3, RowPlaces
<1> QED
  BY <1>1, <1>2, <1>3, LastPlaces DEF Next

\* As long as the worker lives, a row, a handle and a .part file come and go
\* together, whatever POSTs, PATCHes and DELETEs overlap in between, but where
\* one was left half done; and each way of doing so leaves its own trace.
THEOREM RowsHandlesAndFilesAgree == Spec => []RowHandlePart
<1>1. Init => PlaceInv
  BY NobodyAssumption
     DEF Init, PlaceInv, PlaceTypes, AtInv, OfInv, StageInv, Rowless
<1>2. IInv /\ PlaceInv /\ [Next]_vars => PlaceInv'
  BY NextPlaces
<1>3. IInv /\ PlaceInv => RowHandlePart
  <2> SUFFICES ASSUME IInv, PlaceInv, Quiet, exits = 0, NEW u \in Uploads
               PROVE  /\ handle[u] => place[u] = "part"
                      /\ place[u] = "part" /\ ~handle[u] => torn[u] = "remove"
                      /\ place[u] = "part" /\ ~row[u] => torn[u] \in {"begin", "remove"}
                      /\ row[u] /\ place[u] # "part" => torn[u] = "end"
    BY DEF RowHandlePart
  <2>1. stage[u] \in {"new", "lost", "open", "aborted"} /\ row[u] \in BOOLEAN
    BY DEF Quiet, IInv, Types
  <2>2. ~\E q \in Patches : pc[q] = "renamed" /\ of[q] = u
    BY DEF Quiet
  <2> QED
    BY <2>1, <2>2 DEF PlaceInv, StageInv, OfInv, Rowless
<1> QED
  BY <1>1, <1>2, <1>3, Invariance, PTL DEF Spec
==============================================================================
