SPECIFICATION Spec
CONSTANTS
  Clock = 26
  Jobs = {osjob, reportjob}
  RadioJob = osjob
  Delays = {0, 1, 4}
  Early = 2
  Late = 1
  StartTimes = {20}
  ThreadCalls = 2
INVARIANTS
  TypeOK
  InTime
PROPERTIES
  QueueKept
  IrqServed
