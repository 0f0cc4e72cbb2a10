----------------------------- MODULE MCUploads -------------------------------
(* Uploads on small instances.  Uploads are interchangeable, and so are     *)
(* PATCHes.                                                                 *)
EXTENDS Uploads, TLC

UploadSymmetry == Permutations(Uploads) \cup Permutations(Patches)
==============================================================================
