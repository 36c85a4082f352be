CONSTANTS
  Users = {u1, u2}
  Roles = {x1, x2}
  NoRole = NoRole
  Runs = {r1}
  Overlap = "none"
  MayCrash = TRUE
  EmbedExecInstalled = TRUE
  Embeds <- NoEmbeds
SYMMETRY Symmetry
SPECIFICATION Spec
INVARIANTS RolesAccounted RecordsOwnRoles
PROPERTIES RestoresOnlyStaffRoles RestoresOnlyGivenUp
CONSTRAINT OneForgotten
