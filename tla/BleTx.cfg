CONSTANTS
  TxLen = 3
  CountMod = 4
  IdMax = 5
SPECIFICATION FairSpec
INVARIANTS TypeOK SlotsAccounted NoLostWakeup
PROPERTIES QosHeld Delivered Implements
CHECK_DEADLOCK FALSE
