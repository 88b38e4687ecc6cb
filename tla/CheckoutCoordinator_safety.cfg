SPECIFICATION Spec
CONSTANTS
  Op = {o1, o2, o3}
  Branch = {main}
  MaxCommit = 1
  Environment = {"archive", "commit", "crash", "human spawn"}
  None = None
SYMMETRY Symmetry
INVARIANTS
  AttachedKeepsDirectory
  OrphansAreExplained
  CreatedFromRecordedCommit
  RemovalAuditedOnce
PROPERTY HumanBranchesSurvive
