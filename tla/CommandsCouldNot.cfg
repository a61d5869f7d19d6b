SPECIFICATION Spec
CONSTANTS
    Missing = Missing
    NoAnswer = NoAnswer
    NoExit = NoExit
    NoPath = NoPath
    None = None
    Sample <- MCSample
    Gaps <- MCGaps
    Tables <- MCTables
    Tools <- MCTools
    Tasks <- MCTasks
    Systems <- MCSystems
    Lines <- MCLines
    Queries <- MCQueries
    Screens <- MCScreens
INVARIANT CouldNotCheck
CHECK_DEADLOCK FALSE
