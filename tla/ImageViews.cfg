\* Two namesakes, two versions of an image, a background thread and the main one.
SPECIFICATION Spec
CONSTANTS
    i1 = i1
    i2 = i2
    d1 = d1
    d2 = d2
    e1 = e1
    e2 = e2
    p1 = p1
    p2 = p2
    cover = cover
    Item = {i1, i2}
    FileName <- SameName
    Data = {d1, d2}
    NoData = NoData
    NoItem = NoItem
    NoFile = NoFile
    MaxThreads = 1
    Img = {e1, e2}
    Page = {p1, p2}
    PageOf <- OnFirstPage
    Style = {NoStyle, bordered}
    NoStyle = NoStyle
    NoElement = NoElement
    GoneElement = GoneElement
SYMMETRY Alike
INVARIANTS
    TypeOK
    LoadsAgree
    PreviewHoldsOwnImage
    OnlyHoveredIsMarked
    StyleGivenBack
    StatusTextIsTrue
