CONSTANTS
    Paths <- MCPaths
    Name <- MCName
    Locations <- MCLocations
    Under <- MCUnder
    Dirs <- MCDirs
    InDir <- MCInDir
    SettingsFiles <- MCSettingsFiles
    AppLocations <- MCAppLocations
    MaxChanges = 2
    NoLocation = ""
    NoPath = ""
SPECIFICATION Spec
INVARIANTS
    TypeOK
    EntriesStandAlone
PROPERTIES
    AlwaysAnswered
    AnswersInOrder
    LongNamesAreServed
