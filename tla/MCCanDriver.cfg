CONSTANTS
  e1 = e1
  e2 = e2
  None = None
  Escs <- MCEscs
  Volts = {12, 16}
  StartupMin = 15
  Cutoff = 13
  Hold = 2
  EscCount = 2
  DronecanToGlobal <- MCDronecanToGlobal
  Signs <- MCSigns
  Rpms = {0, 1}
SPECIFICATION FairSpec
INVARIANTS
  TypeOK
  LiveOnlyWithTelemetry
PROPERTIES
  KillSwitchSpec
  MovesOnlyAsAsked
  UndervoltageNeedsHold
  KillReachesTheBus
  LowPackKills
CHECK_DEADLOCK FALSE
