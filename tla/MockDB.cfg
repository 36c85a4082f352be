SPECIFICATION Spec
CONSTANTS
  u1 = u1
  u2 = u2
  k1 = k1
  k2 = k2
  text = text
  Users <- MCUsers
  Keys <- MCKeys
  Entries <- MCEntries
  Patterns <- MCPatterns
  Amounts <- MCAmounts
  Ttls <- MCTtls
  Texts <- MCTexts
  NumOf <- MCNumOf
  Number = Number
  NoRow = NoRow
  AnyUser = AnyUser
  NaN = NaN
  MaxAmount = 2
  MaxSkip = 1
  MaxId = 3
  MaxNow = 3
  MaxNum = 2
INVARIANTS
  QueriesAgree
PROPERTIES
  IsExpiringStore
