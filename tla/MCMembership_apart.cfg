\* Two requests at a time, of three users on one workspace, one breaks off.
CONSTANTS
  User = {u1, u2, u3}
  Workspace = {w1}
  Request = {q1, q2}
  Apart <- Conflicts
  MaxFaults = 1
  None = None
SPECIFICATION Spec
SYMMETRY Symmetry
INVARIANTS TypeOK NoTraceOfDeletedAccount GoneLeavesNothing MembersAreNamed
PROPERTY WorkspaceKeepsOwner
CHECK_DEADLOCK FALSE
