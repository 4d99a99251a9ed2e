SPECIFICATION Spec
CONSTANTS
  Messages = {m1}
  NoMsg = NoMsg
  PayloadLen <- MCPayloadLen
  Downlinks <- MCDownlinks
  Api = {"processMessage"}
  IdleCalls = TRUE
  SlowReports = FALSE
  TxconfAttempts = 2
  LinkCheckInit <- MCLinkCheckInit
  LinkCheckCont = 0
  LinkCheckDead = 0
  LinkCheckOff <- MCLinkCheckOff
  MaxRejoin = 1
  MaxDr = 1
  SlowDr = 0
  CntMod = 4
  SeqMod = 16
  MaxSeq = 2
PROPERTIES
  AllIsSent
CHECK_DEADLOCK FALSE
