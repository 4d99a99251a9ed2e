SPECIFICATION Spec
CONSTANTS
  Messages = {m1, m2}
  NoMsg = NoMsg
  Sessions = {1, 2, 3}
  Mod16 = 3
  Mod32 = 6
  RollGuard = 2
  TxconfAttempts = 2
  CntMod = 3
  LinkCheckInit = 0
  LinkCheckCont = 0
  LinkCheckDead = 0
  Api = {"setTxData2", "sendAlive", "restart"}
INVARIANTS
  TypeOK
  TakenOnce
  InStep
PROPERTIES
  InOrder
  AckTrue
  OnlyGrow
SYMMETRY Symmetry
