SPECIFICATION ParserSpec
CONSTANTS
    Lines <- MCLines
    NoName = NoName
    MaxLines = 6
    MaxBlocks = 2
INVARIANTS
    BlocksAreTheirSpans
    CommandsLoseOnlyTheHeader
CHECK_DEADLOCK FALSE
