CONSTANTS
  QueueLen = 3
  Event = {"init", "go", "other"}
  State = {"sm_S_BOOT", "sm_S_IDLE", "busy"}
  Matrix <- MCMatrix
SPECIFICATION FairSpec
INVARIANTS TypeOK EventsAccounted AwakeForEvents
PROPERTIES ImplementsQueue
