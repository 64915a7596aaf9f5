\* A job that fails after another one has activated the image.
SPECIFICATION Spec
CONSTANTS
    i1 = i1
    h1 = h1
    h2 = h2
    w1 = w1
    w2 = w2
    None = None
    Images <- OneImage
    Hooks <- OneHook
    Workers <- TwoWorkers
    MaxUploads = 1
    MaxFailures = 1
    MaxLost = 0
    HasPool = TRUE
CHECK_DEADLOCK FALSE
PROPERTIES
    ProcessedStaysProcessed
