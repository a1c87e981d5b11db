SPECIFICATION Spec
CONSTANTS
    Settings <- ThreeEngines
    Triples <- MCTriples
    Parsed <- MCParsed
    Strings <- MCStrings
    IRIs <- MCIRIs
    Literals <- MCLiterals
INVARIANT Answered
