CONSTANTS
    Hosts <- MCHosts
    Urls <- MCUrls
    TargetPorts <- MCTargetPorts
    NoPort = "0"
    NumberOfApps = 3
SPECIFICATION Spec
INVARIANTS
    TypeOK
    OneAnswerInOrder
    RedirectsToTarget
