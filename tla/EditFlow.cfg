CONSTANTS
  Users = {u1}
  Sections = {Rules, Admin}
  Names = {lower, upper}
  Texts = {t1}
  RulesSection = Rules
  CommandsSection = Commands
  RuleNames = {upper}
  ValidRules = {upper}
  lower = lower
  upper = upper
  Titled <- FirstLettersUp
  Group = Group
  Absent = Absent
  NoRow = NoRow
  Plain = Plain
  NoRecord = NoRecord
  Runs = {r1}
  Overlap = FALSE
  MayCrash = FALSE
  OneConfirmPerSecond = TRUE
  Hour = 2
  MaxNow = 2
  MaxForms = 1
SYMMETRY UserSymmetry
SPECIFICATION Spec
INVARIANTS GroupsStay DeletesOnce
PROPERTY LosesNothingUnseen
