SPECIFICATION Spec
CONSTANTS
    Readers = {r1, r2, r3}
    Topics = {pose}
    MaxJobs = 4
INVARIANTS
    TablesTellRos
    RaisesOnlyIfMet
    AnswersOwn
