SPECIFICATION Spec
CONSTANTS
  Session = {s1, s2}
  Threshold <- Ladder
  Hold = 3
  MaxFill = 3
  MaxTime = 2
  MaxLog = 4
  None = None
INVARIANTS TypeOK LadderIsClimbed
SYMMETRY Symmetry
PROPERTY NotesLiftTheHold
