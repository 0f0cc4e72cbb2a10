CONSTANTS
  d1 = d1
  d2 = d2
  Disks = {d1, d2}
  Sizes = {small, large}
  Unplugged = unplugged
  Volumes = {v1, v2}
  Layouts <- SingleOrMirror
  Plans = {p1, p2}
  Requests = {q1, q2}
  NoRequest = none
  MaxUpsets = 1
SYMMETRY Symmetry
SPECIFICATION Spec
INVARIANTS VolumeIntact RegisteredIsMounted
  DoneIsNotForgotten
PROPERTY ErasesOnlyWhatWasShown
CHECK_DEADLOCK FALSE
