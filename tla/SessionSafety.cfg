\* Searches overlap each other and one request.
SPECIFICATION Spec
CONSTANTS
    t1 = t1
    t2 = t2
    s1 = s1
    s2 = s2
    Track = {t1, t2}
    TrackLists <- Albums
    NoTracks = NoTracks
    Title = {s1, s2}
    NoTitle = NoTitle
    TitleOf <- OneTitle
    AmazonAreas = {2}
    GoogleAreas = {1}
    MaxFinds = 2
    MaxRequests = 1
INVARIANTS
    TypeOK
    ImagesAreForTitle
    IndicatorStops
    BrowserShowsList
