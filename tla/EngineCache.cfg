SPECIFICATION Spec
CONSTANTS
    a = a
    b = b
    a1 = a1
    a2 = a2
    b1 = b1
    None = None
    Nil = Nil
    Absent = Absent
    Engines <- TwoEngines
    Threads <- ThreeThreads
    EngineOf <- SharedEngine
    Keys = {k1}
    Values = {Absent, v1}
    MaxRevision = 2
    CancellingBatches = FALSE
INVARIANTS AnswersAreExact WritersSeeTheirBase
