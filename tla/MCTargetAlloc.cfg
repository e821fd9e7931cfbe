SPECIFICATION Spec
CONSTANTS
    Cpus <- MCCpus
    TotalCpus = 2
    StartAddr = 16
    EndAddr = 64
    Sizes <- MCSizes
    MaxBufferSize = 11
    Word = 128
INVARIANTS WritesStayInPartition OverwrittenOnlyIfSwept
