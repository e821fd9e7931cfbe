SPECIFICATION Spec
CONSTANTS
    Cpus <- MCCpus
    TotalCpus = 2
    StartAddr = 16
    EndAddr = 56
    Sizes <- MCSizes
    MaxBufferSize = 11
    Word = 128
INVARIANT WritesStayInArea
