CONSTANTS
  Names = {"x", "y", "main", "Del", "len", "lt", "index", "joinStr", "execTemplate", "sdict", "deleteResponse", "sendTemplateDM", "dbCount"}
  Functions = {"len", "lt", "index", "joinStr", "execTemplate", "sdict", "deleteResponse", "sendTemplateDM", "dbCount"}
  MaxStackDepth = 2
  MaxOps = 120
  HardStop = 2
  MaxDepth = 2
  MaxString = 3
  MaxParts = 3
  MaxChars = 2
  Sources <- MCSources
  Fresh <- MCFresh
  Wide <- MCWide
  ParseItems <- Parse
  RunTemplates <- Execute
  OwnNames <- Renamed
  Minified <- Minify
  ShortNames <- MCShortNames
SPECIFICATION Spec
INVARIANTS ItemsAreFaithful ReadsWhatItWrites NamesDoNotMatter EndsCleanly LoopCallsAreFound MinifiedRunsAlike
CHECK_DEADLOCK FALSE
