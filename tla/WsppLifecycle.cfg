CONSTANTS
    NumberOfThreads = 2
    MaxConnections = 2
    MaxJobs = 2
SPECIFICATION FairSpec
INVARIANTS
    TypeOK
    JobsFindCompleteObjects
    ExitsAloneAfter30
    AcceptsWithCertificate
PROPERTIES
    LogStaysUntilDestroyed
    StartUpEnds
