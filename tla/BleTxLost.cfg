CONSTANTS
  TxLen = 3
  CountMod = 2
  IdMax = 5
SPECIFICATION Spec
INVARIANTS NoLostWakeup
CHECK_DEADLOCK FALSE
