\* A member may be kicked, come back and be kicked again.
CONSTANTS
  Members = {m1, m2}
  Panels = {p1}
  Runs = {r1, r2}
  NoMember = NoMember
  Returning = {m1}
  MaxKicks = 2
SPECIFICATION FairSpec
INVARIANTS KickIsRechecked TellsWhatHappened
PROPERTY EveryKickIsTold
