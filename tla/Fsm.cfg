CONSTANTS
  QueueLen = 3
  MaxCommits = 5
  MaxResets = 2
SPECIFICATION FairSpec
INVARIANTS TypeOK ScansWhenReady RebootUnderWay
PROPERTIES ImplementsLife RebootHappens SinkScans
CHECK_DEADLOCK FALSE
