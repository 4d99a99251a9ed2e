SPECIFICATION Spec
CONSTANT RandLen = 16
INVARIANTS
  TypeOK
  NeverStuck
PROPERTIES
  Reported
