SPECIFICATION Spec
CONSTANTS
  Messages = {m1}
  NoMsg = NoMsg
  PayloadLen <- MCPayloadLen
  Downlinks <- MCAnswer
  Api = {"processMessage", "sendAlive", "tryRejoin", "clrTxData", "shutdown", "setLinkCheckMode"}
  IdleCalls = FALSE
  SlowReports = TRUE
  TxconfAttempts = 2
  LinkCheckInit <- MCLinkCheckInit
  LinkCheckCont = 0
  LinkCheckDead = 0
  LinkCheckOff <- MCLinkCheckOff
  MaxRejoin = 1
  MaxDr = 1
  SlowDr = 0
  CntMod = 4
  SeqMod = 16
  MaxSeq = 1
INVARIANTS
  TypeOK
  JoinState
  TransactionContinues
  WorkIsScheduled
PROPERTIES
  ShutdownSilent
CHECK_DEADLOCK FALSE
