SPECIFICATION Spec
CONSTANTS
  Messages = {m1}
  NoMsg = NoMsg
  PayloadLen <- MCPayloadLen
  Downlinks <- MCSlow
  Api = {"processMessage"}
  IdleCalls = FALSE
  SlowReports = FALSE
  TxconfAttempts = 2
  LinkCheckInit <- MCLinkCheckInit
  LinkCheckCont = 0
  LinkCheckDead = 0
  LinkCheckOff <- MCLinkCheckOff
  MaxRejoin = 1
  MaxDr = 1
  SlowDr = 0
  CntMod = 4
  SeqMod = 16
  MaxSeq = 2
INVARIANTS
  NoAssertFails
CHECK_DEADLOCK FALSE
