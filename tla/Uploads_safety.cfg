CONSTANTS
  Uploads = {u1, u2}
  Dests = {d1}
  Patches = {q1, q2, q3}
  Sizes = {1, 2}
  Free = free
  NoUpload = noupload
  MaxExits = 1
  MaxFaults = 1
SPECIFICATION Spec
SYMMETRY UploadSymmetry
INVARIANTS DestIsWhole OffsetIsExact RowHandlePart
CHECK_DEADLOCK FALSE
