CONSTANTS
    NumberOfThreads = 1
    MaxConnections = 2
    MaxJobs = 2
SPECIFICATION Spec
PROPERTY
    ReturnsZero
