SPECIFICATION Spec
CONSTANTS
  Messages = {m1, m2, m3}
  Inputs <- MCInputs
INVARIANTS
  KeysFirst
  StartedOnce
PROPERTIES
  StartsUp
CHECK_DEADLOCK FALSE
