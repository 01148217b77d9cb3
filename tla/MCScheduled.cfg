SPECIFICATION Spec
CONSTANTS
  Jobs = {j1, j2, j3}
  Runners = {r1, r2}
  NoJob = noJob
  Elsewhere = elsewhere
  NoRunner = noRunner
  Orphan = orphan
  MaxFaults = 3
CONSTRAINT FaultsByJobs
SYMMETRY JobSymmetry
INVARIANTS TypeOK NeverUnsentOnAGuess OneLiveJobPerSpend LiveJobIsQueued
PROPERTIES NoWayBack
CHECK_DEADLOCK FALSE
