---------------------------- MODULE MCFileStation ----------------------------
EXTENDS FileStation, TLC

\* Directories, names and jobs are interchangeable.
Symmetry ==
    Permutations(Dirs) \cup Permutations(Names) \cup Permutations(Jobs)
==============================================================================
