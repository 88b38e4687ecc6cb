SPECIFICATION Spec
CONSTANTS
  Streams = {a, b}
  Subs = {s1, s2, s3}
  MaxSeq = 3
  MaxBatch = 2
SYMMETRY Symmetry
INVARIANTS
  TypeOK
  CaughtUp
PROPERTY ImplementsDelivery
