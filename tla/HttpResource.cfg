CONSTANTS
    Letters = {"a"}
    MaxLength = 6
    NPos = 15
SPECIFICATION FairSpec
INVARIANTS
    TypeOK
    NeverThrows
    ParsesLikeSplitting
PROPERTIES
    EachTurnMovesOn
    ParsingEnds
