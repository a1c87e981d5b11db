SPECIFICATION Spec
CONSTANTS
    Settings <- MCSettings
    Triples <- MCTriples
    Strings <- MCStrings
    IRIs <- MCIRIs
    Literals <- MCLiterals
    Requests <- MCRequests
    COST_THRESHOLD = 4
INVARIANTS PlanAnswers ShortcutSound SearchRestored Page
