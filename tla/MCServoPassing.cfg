CONSTANTS
  Servos = {1, 2}
  MaxAngle = 3
  Tolerance = 1
  Window <- MCWindow
  PowerOn <- MCPowerOn
  Tasks <- MCTasks
  None = None
SPECIFICATION FairSpec
PROPERTIES
  SuccessStays
