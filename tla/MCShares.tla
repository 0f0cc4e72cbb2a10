------------------------------ MODULE MCShares -------------------------------
(* Shares on small instances.  Requests are interchangeable, and so are      *)
(* uids.                                                                    *)
EXTENDS Shares, TLC

ReqSymmetry == Permutations(Reqs) \cup Permutations(Numbers)
==============================================================================
