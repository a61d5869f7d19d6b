SPECIFICATION Spec
CONSTANTS
    Missing = Missing
    NoAnswer = NoAnswer
    NoExit = NoExit
    NoPath = NoPath
    None = None
    Sample <- MCSample
    Gaps <- MCGaps
    Tables <- MCTables
    Tools <- MCTools
    Tasks <- MCTasks
    Systems <- MCSystems
    Lines <- MCLines
    Queries <- MCQueries
    Screens <- MCScreens
INVARIANTS TypeOK ClaimIsBacked ExitCodeIsWhatIsPrinted NothingIsDisguised
PROPERTIES WorseNeverLooksBetter RateIsOfThePresent
CHECK_DEADLOCK FALSE
