SPECIFICATION ServingSpec
CONSTANTS
  main = main
  Threads = {main, t1, t2}
  yolo = yolo
  hands = hands
  Specs <- MCSpecs
  PathOf <- MCPathOf
  Configs <- MCConfigs
  Unconfigured = Unconfigured
  Camera = "cam"
  DefaultZone = "a"
  NoPresence = NoPresence
  NoSpec = NoSpec
  NoThread = NoThread
  MaxLoads = 2
INVARIANTS
  OneDetectorPerPath
  ServedAsConfigured
PROPERTIES
  GetReturns
CHECK_DEADLOCK FALSE
