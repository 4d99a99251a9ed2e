SPECIFICATION Spec
CONSTANTS
  Messages = {m1, m2}
  NoMsg = NoMsg
  PayloadLen <- MCPayloadLen
  Downlinks <- MCCommands
  Api = {"setTxData2"}
  IdleCalls = TRUE
  SlowReports = FALSE
  TxconfAttempts = 2
  LinkCheckInit <- MCLinkCheckInit
  LinkCheckCont = 0
  LinkCheckDead = 0
  LinkCheckOff <- MCLinkCheckOff
  MaxRejoin = 1
  MaxDr = 1
  SlowDr = 0
  CntMod = 4
  SeqMod = 4
  MaxSeq = 2
INVARIANTS
  TriesBounded
  KeystreamOnce
PROPERTIES
  AnswersCarried
SYMMETRY Symmetry
CHECK_DEADLOCK FALSE
