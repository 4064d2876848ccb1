SPECIFICATION FairSpec
CONSTANTS
  alice = alice
  bob = bob
  j1 = j1
  j2 = j2
  NoJob = NoJob
  Jobs <- TwoJobs
  Users <- TwoUsers
  Owner <- TwoOwners
  MaxStarts = 2
  MaxCancels = 1
  MaxFaults = 1
\* After a fault in the last process the loop is dead and the bot waits for nobody.
CHECK_DEADLOCK FALSE
INVARIANTS
  RunningIsTheWorkers
  DeliveredOncePerStart
  NoLostWakeup
  ScratchIsCurrents
  NothingHangsUncommitted
PROPERTIES
  ServedInOrder
  LegalStateChanges
  KeepsThePromise
  ShutdownEnds
  KeepsThePromiseInTime
