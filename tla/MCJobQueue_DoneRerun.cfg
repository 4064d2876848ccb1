SPECIFICATION Spec
CONSTANTS
  alice = alice
  bob = bob
  j1 = j1
  j2 = j2
  NoJob = NoJob
  Jobs <- TwoJobs
  Users <- OneUser
  Owner <- OneOwner
  MaxStarts = 2
  MaxCancels = 1
  MaxFaults = 0
PROPERTIES
  DoneIsFinal
