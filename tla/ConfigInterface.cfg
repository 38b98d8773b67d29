CONSTANTS
  Program = "prog"
  Lines = {0, 1, 10}
  Rules <- AllRules
  Files <- AllFiles
  Scripts <- AllScripts
  Chunk = 6
SPECIFICATION Spec
INVARIANTS ConfigIsFile StringsOwned Whitelisted OwnCommands
PROPERTIES RereadHarmless ClientLetGo
CHECK_DEADLOCK FALSE
