SPECIFICATION Spec
CONSTANTS
    t1 = t1
    t2 = t2
    w1 = w1
    w2 = w2
    Tabs <- TwoTabs
    Runners <- TwoRunners
    MaxJobs = 2
    MaxVersion = 2
    MaxClicks = 2
    MaxFaults = 2
    Attempts = 2
    MaxStalled = 1
SYMMETRY Same
CHECK_DEADLOCK FALSE
INVARIANTS
  TypeOK
  FileIsRight
  NoTwinJobs
  NoOldFailure
