CONSTANTS
  Inputs <- AllInputs
  Numbers <- AllNumbers
  Addresses <- AllAddresses
  Services <- AllServices
  Rules <- AllRules
  Sockets <- AllSockets
  Moments <- AllMoments
SPECIFICATION Spec
INVARIANTS ParsedAsWritten ErrorTold RefusalTold ShapeKept ListedReadable MatchesFlow ConditionTold
CHECK_DEADLOCK FALSE
