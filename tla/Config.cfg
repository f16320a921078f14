CONSTANTS
    p1 = p1
    p2 = p2
    Procs = {p1, p2}
    Resources = {"po"}
    Commands <- Given
    Files <- AtFirst
    Environments <- Settings
    MaxCommands = 3
    MaxDeaths = 1
SPECIFICATION Spec
SYMMETRY ProcSymmetry
INVARIANTS
    TypeOK
    ConfiguredHandlerRuns
PROPERTIES
    AloneLosesNothing
    ConfigSurvives
    BrokenForGood
CHECK_DEADLOCK FALSE
