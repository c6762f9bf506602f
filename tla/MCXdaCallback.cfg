SPECIFICATION FairSpec
CONSTANTS
  W = 6
  m_bufferSize = 3
  TIME_WINDOW = 1
  m_maxBufferSize = 2
  Contents <- MCContents
  MaxGap = 2
  MaxLate = 1
  StartTimes = {5}
  MaxTime = 6
  MaxStamp = 6
INVARIANTS
  TypeOK
  NoLostWakeup
  StampsFollowSensor
  InterpolatesTrueTimes
PROPERTIES
  PacketsDelivered
