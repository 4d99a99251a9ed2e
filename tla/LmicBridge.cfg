SPECIFICATION FairSpec
CONSTANTS
  Messages = {m1}
  NoMsg = NoMsg
  PayloadLen <- MCPayloadLen
  Downlinks <- MCBeacon
  Api = {"processMessage"}
  IdleCalls = TRUE
  SlowReports = FALSE
  TxconfAttempts = 2
  LinkCheckInit <- MCLinkCheckInit
  LinkCheckCont = 0
  LinkCheckDead = 0
  LinkCheckOff <- MCLinkCheckOff
  MaxRejoin = 1
  MaxDr = 1
  SlowDr = 0
  CntMod = 4
  SeqMod = 16
  MaxSeq = 1
INVARIANTS
  OnlyBeaconFails
  PresetFunc
  OneThingPending
PROPERTIES
  EarlyIsSent
  ClassAExchange
  TransactionEnds
  DataIsSent
  KeepsJoining
  AckIsSent
CHECK_DEADLOCK FALSE
