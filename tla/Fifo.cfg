CONSTANTS
  Producer = {p1, p2, p3}
  Worker = {w1, w2}
  Job = {j1, j2, j3, j4}
  NoJob = NoJob
  Max = 2
  Blocking = {p1, p2}
SPECIFICATION FairSpec
INVARIANTS
  WorkerNotForgotten
  ProducerNotForgotten
  JobsDistinct
PROPERTY QueuedJobRuns
CHECK_DEADLOCK FALSE
