CONSTANTS
  Users = {u1, u2}
  Roles = {x1}
  NoRole = NoRole
  Runs = {r1, r2}
  Overlap = "commands"
  MayCrash = FALSE
  EmbedExecInstalled = TRUE
  Embeds <- NoEmbeds
SPECIFICATION Spec
INVARIANT RolesAccounted
