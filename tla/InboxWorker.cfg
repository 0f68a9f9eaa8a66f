SPECIFICATION FairSpec
CONSTANTS
  Tasks = {t1, t2, t3}
  Consumers = {w1, w2}
  MaxSize = 2
  NoTask = NoTask
INVARIANTS
  NoLostWakeup
  TypeOK
  TaskConservation
  DrainComplete
PROPERTIES
  EveryTaskHandled
  StopTerminates
CHECK_DEADLOCK FALSE
