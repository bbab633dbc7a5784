SPECIFICATION HelpersSpec
CONSTANTS
    Nominals = {3, 7}
    Configs <- MCConfigs
    Scores <- MCScores
    MaxProbes = 4
    Tolerance = 10
    MaxSearchStops = 1
    MaxAsks = 1
    Groups = {"scheduled", "manual", "pre-migration", "pre-restore"}
    DefaultKeep = 1
    KeepScheduled = 1
    MaxCommits = 1
    MaxBackups = 3
    MaxBackupCrashes = 1
    Versions = {1, 2}
    Automatic = TRUE
    RequireSigned = TRUE
    MaxPublishings = 2
    MaxRuns = 4
    MaxKills = 1
    Pieces = 2
    MaxEdits = 2
    MaxBuilds = 2
    MaxSendings = 1
    MaxKitCrashes = 1
    Pairs = 1
    Budget = 3
    Flawed = {"efficiency", "subtitles", "sound", "metrics"}
    MaxReviews = 4
    MaxMishaps = 1
    Discs <- MCDiscs
    Requests <- MCRequests
    MaxTroubles = 3
    Titles = {{"a"}, {"a", "b"}}
    Readers = {1, 2}
    MaxChanges = 1
    MaxStageStops = 1
    MaxTurns = 2
    Streams <- MCStreams
    Choices <- MCChoices
    Detections <- MCDetections
    SampleCount = 3
    MaxRevisions = 1
    MaxReferences = 2
    MaxLanguageStops = 1
INVARIANTS Bracketed ChosenMeetsTarget BackupsHold OnlyTheApprovedLeaves AcceptedIsSound TimeIsNotLost RetainedAsReviewed ReferenceIsOfOneDisc LanguagesAreEarned
PROPERTY UpdatesAreSound
CHECK_DEADLOCK FALSE
