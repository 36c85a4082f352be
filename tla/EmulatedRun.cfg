CONSTANTS
  Limits <- MCLimits
  Calls <- MCCalls
  Channels = {"here", "muted", "full", "forum"}
  ForumChannels = {"forum"}
  Muted = {"muted"}
  PinsFull = {"full"}
  Roles = {"held", "free"}
  Held = {"held"}
  Stranger = "stranger"
  MaxTries = 1
  MaxDepth = 2
  MaxSleep = 1
  MaxResponse = 1
  MaxOutput = 2
  LenientOutput = 4
SPECIFICATION Spec
INVARIANTS WarnsWhereItDiffers WithinLimits MessagesNumbered OneUniqueRun
PROPERTIES CatchesAlike
CHECK_DEADLOCK FALSE
