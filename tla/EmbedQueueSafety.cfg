\* Any track list may arrive, the disk may fail, the process may end any time;
\* the queue still implements the durable queue.
SPECIFICATION Spec
CONSTANTS
    t1 = t1
    t2 = t2
    i1 = i1
    i2 = i2
    Track = {t1, t2}
    Image = {i1, i2}
    NoArt = NoArt
    NoImage = NoImage
    NoTracks = NoTracks
    TrackLists <- AnyList
    DiskMayFail = TRUE
    MaxGroups = 2
    MaxScheduled = 2
INVARIANTS
    TypeOK
    StoredGroupsAreAccountedFor
    OverGroupsReturnOnlyFromStore
    StoredGroupsCanBeEmbedded
    ProcessingIsScheduled
    IdleButtonProcesses
PROPERTIES
    GroupsLeaveStoreOnlyWhenOver
    ImplementsDurableQueue
