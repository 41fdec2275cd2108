CONSTANTS
    Nodes <- MCNodes
    Body <- MCBody
    Names <- MCNames
    Urls <- MCUrls
    NoUrl <- MCNoUrl
    NoAttr = NoAttr
    RootFolder <- MCRootFolder
    SrcFolders <- MCSrcFolders
    SrcParent <- MCSrcParent
    SpecialFolders <- MCSpecialFolders
    SrcFeedFolder <- MCSrcFeedFolder
    SrcQuick <- MCSrcQuick
    Title <- MCTitle
    Docs <- MCDocs
    Targets <- MCTargets
    ServerQuick = FALSE
    CreateMayFail = TRUE
    MaxOutlines = 4
    Undef = Undef
    NoQuick = NoQuick
    NoCall = NoCall

SPECIFICATION ISpec
CHECK_DEADLOCK FALSE
INVARIANT OTypeOK
INVARIANT RoundTripRestores
PROPERTY ImportEnds
PROPERTY ImportRefinesQueue
