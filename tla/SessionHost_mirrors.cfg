SPECIFICATION Spec
CONSTANTS
  Session = {s1, s2}
  Proc = {p1, p2, p3}
  Gate = {}
  Channel = {"sdk", "pty"}
  Mode = {"attended"}
  None = None
SYMMETRY Symmetry
INVARIANTS
  TypeOK
  MirroredNeverDriven
  WatchedDirStaysPolled
PROPERTY ImplementsLease
