SPECIFICATION Spec
CONSTANTS
  Session = {s1}
  Proc = {p1, p2, p3}
  Gate = {g1}
  Channel = {"sdk", "pty"}
  Mode = {"attended", "dispatched", "planning"}
  None = None
SYMMETRY Symmetry
INVARIANTS
  OneProcessPerSession
  RunningHasProcess
  HookChannelStaysWhole
  UnattendedNeverAsked
