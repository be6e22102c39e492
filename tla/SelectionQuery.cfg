\* Four tracks, two titles and the empty one, two containers, a stream.
SPECIFICATION Spec
CONSTANTS
    t1 = t1
    t2 = t2
    t3 = t3
    t4 = t4
    Track = {t1, t2, t3, t4}
    Album = {a1, a2}
    NoAlbum = NoAlbum
    Libraries <- SomeLibraries
    Selections <- SomeSelections
INVARIANTS
    TypeOK
    ListsSelectedAlbums
    ListsTracksOnce
    FirstAlbumFirst
PROPERTY
    ImplementsAlbumQuery
CHECK_DEADLOCK FALSE
