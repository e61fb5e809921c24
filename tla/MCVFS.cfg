\* Two names, so that names repeat, and paths through a file.
CONSTANTS
    Threads = {t1, t2}
    Names = {a, b}
    Order <- MCOrder
    Paths <- MCPaths
SPECIFICATION Spec
INVARIANTS
    RoundTrip
    TreeSurvivesRemount
PROPERTY LookupStable
