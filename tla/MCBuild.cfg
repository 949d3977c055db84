SPECIFICATION BuildSpec
CONSTANTS
    None = None
    NullOpt = NullOpt
    Torn = Torn
    Targets <- MCTargets
    Imports <- MCImports
    Texts <- MCTexts
    FirstText <- MCFirstText
    Modes = {"debug"}
    Hosted = TRUE
    MaxUpsets = 2
    MaxBuilds = 3
    Worlds <- MCWorlds
    Preamble <- MCPreamble
    Lines <- MCLines
    PathOrder <- MCPathOrder
    MaxLines = 4
    IntMax = 7
INVARIANTS
    BuildIsClean
    FreshInterfaces
    InterfacesComeFirst
    AcceptedMeansWhatItSays
PROPERTY
    CyclesAreReal
CHECK_DEADLOCK FALSE
