\* One request in a life of the process, two groups, searches that find nothing, fair
\* timers and downloads.
SPECIFICATION AssistantFairSpec
CONSTANTS
    t1 = t1
    t2 = t2
    i1 = i1
    s1 = s1
    Track = {t1}
    Image = {i1}
    NoArt = NoArt
    NoImage = NoImage
    NoTracks = NoTracks
    TrackLists <- OneAlbumOrNone
    DiskMayFail = FALSE
    MaxGroups = 2
    MaxScheduled = 1
    Title = {s1}
    NoTitle = NoTitle
    TitleOf <- OneTitle
    AmazonAreas = {}
    GoogleAreas = {}
    MaxFinds = 1
    MaxRequests = 1
INVARIANTS
    ApplicationIndicatorStops
PROPERTIES
    RequestsAreAnswered
    ProcessingEnds
