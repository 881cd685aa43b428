\* Four pairs through a queue of two, two further calls after stop().
SPECIFICATION FairSpec
CONSTANTS
  N = 4
  MaxAhead = 2
  ExtraCalls = 3
INVARIANTS
  TypeOK
  QueueBounded
  NoLostWakeUp
PROPERTIES
  StreamSpec
  EveryCallReturns
  StopTerminates
