SPECIFICATION Spec
CONSTANTS
  Session = {s1}
  Proc = {p1, p2}
  Gate = {g1}
  Channel = {"pty"}
  Mode = {"attended"}
  None = None
INVARIANT RespawnIsNeverClobbered
