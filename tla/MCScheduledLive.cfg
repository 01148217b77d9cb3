SPECIFICATION FairSpec
CONSTANTS
  Jobs = {j1}
  Runners = {r1, r2}
  NoJob = noJob
  Elsewhere = elsewhere
  NoRunner = noRunner
  Orphan = orphan
  MaxFaults = 3
PROPERTIES DueJobEnds LandedIsRecorded
CHECK_DEADLOCK FALSE
