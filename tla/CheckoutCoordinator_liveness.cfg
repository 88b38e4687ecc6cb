SPECIFICATION FairSpec
CONSTANTS
  Op = {o1, o2}
  Branch = {main}
  MaxCommit = 0
  Environment = {"archive", "crash", "orphan scan"}
  None = None
INVARIANT TypeOK
PROPERTY EveryOperationSettles
