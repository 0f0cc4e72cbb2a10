------------------------------ MODULE MCStorage ------------------------------
(* Instances of Storage for TLC.                                            *)
EXTENDS Storage

CONSTANTS d1, d2

\* A single disk, or both as a mirror.
SingleOrMirror == {[level |-> "basic", disks |-> <<d1>>],
                   [level |-> "1", disks |-> <<d1, d2>>]}

Symmetry == Permutations(Plans) \cup Permutations(Requests)
              \cup Permutations(Sizes) \cup Permutations(Volumes)
==============================================================================
