\* One image, two webhook requests, two job slots; two uploads to its URL, two
\* failures or repetitions, one loss.
SPECIFICATION FairSpec
CONSTANTS
    i1 = i1
    h1 = h1
    h2 = h2
    w1 = w1
    w2 = w2
    None = None
    Images <- OneImage
    Hooks <- TwoHooks
    Workers <- TwoWorkers
    MaxUploads = 2
    MaxFailures = 2
    MaxLost = 1
    HasPool = TRUE
CHECK_DEADLOCK FALSE
INVARIANTS
    TypeOK
    ActiveIsClean
PROPERTIES
    EnqueuesOnlyPending
    OnlyFailuresUndo
    UploadIsProcessed
    FeedbackEnds
