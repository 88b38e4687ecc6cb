SPECIFICATION FairSpec
CONSTANTS
  None = None
  Task = {t1}
  Run = {r1, r2}
  Call = {c1, c2}
  Criterion = {k1}
  Node <- ShippedNode
  Edge <- ShippedEdge
  Forbidden <- ShippedForbidden
  Acceptance <- ShippedAcceptance
  ArmsPlan <- ShippedArmsPlan
INVARIANTS TypeOK ReportsNameTheirRun
PROPERTIES DoneIsReviewed ImplementsBoard DispatchesSettle
