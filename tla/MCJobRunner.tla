---------------------------- MODULE MCJobRunner -----------------------------
(* An instance of JobRunner for TLC.                                        *)
EXTENDS JobRunner

\* One body that looks at cancel_requested and one that never does.
OneUnitBodies == [coop : BOOLEAN, work : {1}]
=============================================================================
