\* An album with no tracks left in the list came first.
SPECIFICATION Spec
CONSTANTS
    t1 = t1
    t2 = t2
    i1 = i1
    i2 = i2
    Track = {t1, t2}
    Image = {i1, i2}
    NoArt = NoArt
    NoImage = NoImage
    NoTracks = NoTracks
    TrackLists <- OneAlbumOrEmpty
    DiskMayFail = FALSE
    MaxGroups = 2
    MaxScheduled = 1
INVARIANTS
    AddedGroupsAreStored
