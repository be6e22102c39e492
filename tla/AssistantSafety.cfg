\* Two untitled albums, two requests in a life of the process, two groups, a disk
\* that does not fail.
SPECIFICATION AssistantSpec
CONSTANTS
    t1 = t1
    t2 = t2
    i1 = i1
    s1 = s1
    Track = {t1, t2}
    Image = {i1}
    NoArt = NoArt
    NoImage = NoImage
    NoTracks = NoTracks
    TrackLists <- TwoAlbums
    DiskMayFail = FALSE
    MaxGroups = 2
    MaxScheduled = 1
    Title = {}
    NoTitle = NoTitle
    TitleOf <- Untitled
    AmazonAreas = {}
    GoogleAreas = {}
    MaxFinds = 1
    MaxRequests = 2
SYMMETRY Alike
INVARIANTS
    CoversWereListed
    UnsavedOnlyBehindMalformed
PROPERTY
    QueuedImagesAreKept
