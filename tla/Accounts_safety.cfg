SPECIFICATION Spec
CONSTANTS
  Users = {u1, u2}
  Requests = {r1, r2, r3, r4, r5}
  NoUser = NoUser
  None = None
SYMMETRY Symmetry
CHECK_DEADLOCK FALSE
INVARIANTS TypeOK FirstAdminStays OneAdminInSequence AdminTokensTrue
PROPERTY RoleKept
