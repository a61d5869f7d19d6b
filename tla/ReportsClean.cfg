SPECIFICATION Spec
CONSTANTS
    NoAnswer = NoAnswer
    Idle = Idle
    Scenes <- MCScenes
    Found <- MCFound
    Outputs <- MCOutputs
    Readable <- MCReadable
    Directories <- MCDirectories
    Footprints <- MCFootprints
    DirCounts <- MCDirCounts
    Patterns <- MCPatterns
INVARIANT CleanIsKnown
