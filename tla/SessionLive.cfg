SPECIFICATION FairSpec
CONSTANTS
  Messages = {m1}
  NoMsg = NoMsg
  Sessions = {1, 2, 3}
  Mod16 = 2
  Mod32 = 4
  RollGuard = 1
  TxconfAttempts = 2
  CntMod = 4
  LinkCheckInit = 0
  LinkCheckCont = 0
  LinkCheckDead = 0
  Api = {"setTxData2", "tryRejoin", "restart"}
PROPERTIES Recovers
