SPECIFICATION Spec
CONSTANTS
  Clock = 26
  TenHours = 7
  NumChannels = 4
  MaxDr = 2
  JoinDr = 1
  JoinChannels <- MCJoinChannels
  NumJoin = 4
  Defaults <- MCDefaults
  AirTime <- MCAirTime
  TxCap <- MCTxCap
  CfLists <- MCCfLists
  NewChannels <- MCNewChannels
  ChannelMaps <- MCChannelMaps
  DutyRates = {0, 1}
  StartTimes = {22}
  Draws = {1}
  Delays = {0, 1}
  MaxTime = 28
PROPERTIES
  EarliestFree
CHECK_DEADLOCK FALSE
