CONSTANTS
  Users = {u1}
  Sections = {Rules}
  Names = {rule1, rule2}
  Texts = {t1}
  RulesSection = Rules
  CommandsSection = Commands
  RuleNames = {rule1, rule2}
  ValidRules = {rule1}
  lower = lower
  upper = upper
  Titled <- FirstLettersUp
  Group = Group
  Absent = Absent
  NoRow = NoRow
  Plain = Plain
  NoRecord = NoRecord
  Runs = {r1, r2}
  Overlap = TRUE
  MayCrash = TRUE
  OneConfirmPerSecond = TRUE
  Hour = 2
  MaxNow = 2
  MaxForms = 0
SYMMETRY UserSymmetry
SPECIFICATION Spec
INVARIANT DeletesWhatItShowed
