\* No malformed group and no disk failure: removal alone.
SPECIFICATION Spec
CONSTANTS
    t1 = t1
    t2 = t2
    i1 = i1
    i2 = i2
    Track = {t1, t2}
    Image = {i1, i2}
    NoArt = NoArt
    NoImage = NoImage
    NoTracks = NoTracks
    TrackLists <- OneAlbum
    DiskMayFail = FALSE
    MaxGroups = 1
    MaxScheduled = 1
INVARIANTS
    DeletedGroupsAreNotStored
