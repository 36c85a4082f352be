SPECIFICATION MCSpec
CONSTANTS
  F1 = F1
  F2 = F2
  F3 = F3
  File <- MCFile
  SnapshotPath <- MCSnapshotPath
  Projects <- MCProjects
  Writes <- MCWrites
  Templates <- MCTemplates
  Servers <- MCServers
  Bounds <- MCBounds
  Durations <- MCDurations
  MaxInt = 2047
  Units <- MCUnits
  AnyDelay = AnyDelay
  Bot = 99
  MaxFields = 2
  Prefix <- MCPrefix
  GuildRoles = {3}
  GuildChannels = {1, 2}
  Members = {5}
  MaxName = 4
  MaxOptions = 2
  MaxHours = 2
  MinMinutes = 2
  MaxMinutes = 7
  Hour = 3
  RowWidth = 2
  MaxRows = 2
  MaxButtons = 6
  MaxMenus = 2
  MaxChoices = 1
  MaxEmbeds = 1
  MaxFile = 1
  MaxID = 2
  MaxInputs = 2
  MaxListed = 1
  Guild = 1
  ServerRoles <- MCRoles
  Mentionable = {4}
  ShownCalls <- MCShownCalls
  MaxContent = 1
  Author = 5
INVARIANTS SaysAllOfIt HeadersReadBack GreenMeansChecked UpdatedIsGreen ShownCanBeUsed PingsOnlyTheAllowed
PROPERTY WatchCatchesUp
CHECK_DEADLOCK FALSE
