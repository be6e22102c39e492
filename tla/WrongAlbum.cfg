\* Another album is fetched before the image arrives.
SPECIFICATION AskedSpec
CONSTANTS
    t1 = t1
    t2 = t2
    s1 = s1
    s2 = s2
    Track = {t1, t2}
    TrackLists <- Albums
    NoTracks = NoTracks
    Title = {s1, s2}
    NoTitle = NoTitle
    TitleOf <- TwoTitles
    AmazonAreas = {2}
    GoogleAreas = {}
    MaxFinds = 1
    MaxRequests = 1
PROPERTIES
    ImageGoesToTheAlbumItWasChosenFor
