SPECIFICATION FairSpec
CONSTANTS
    Settings <- AllSettings
    Triples <- MCTriples
    Parsed <- MCParsed
    Strings <- MCStrings
    IRIs <- MCIRIs
    Literals <- MCLiterals
INVARIANTS JoinCount NothingLeft Answered AssertionsHold InFlightBounded
PROPERTY AllAnswered
