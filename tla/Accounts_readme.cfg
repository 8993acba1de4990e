SPECIFICATION Spec
CONSTANTS
  Users = {u1, u2}
  Requests = {r1, r2}
  NoUser = NoUser
  None = None
SYMMETRY Symmetry
CHECK_DEADLOCK FALSE
INVARIANT OnlyOneAdmin
