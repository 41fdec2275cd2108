CONSTANTS
    Nodes <- MCNodes
    Body <- MCBody
    Names <- MCNames
    Urls <- MCUrls
    NoUrl <- MCNoUrl
    NoAttr = NoAttr
    RootFolder <- MCRootFolder
    SrcFolders <- MCSrcFolders
    SrcParent <- MCSrcParent
    SpecialFolders <- MCSpecialFolders
    SrcFeedFolder <- MCSrcFeedFolder
    SrcQuick <- MCSrcQuick
    Title <- MCTitle
    Docs <- MCHangDocs
    Targets <- MCEmptyTargets
    ServerQuick = FALSE
    CreateMayFail = FALSE
    MaxOutlines = 4
    Undef = Undef
    NoQuick = NoQuick
    NoCall = NoCall

SPECIFICATION ISpec
CHECK_DEADLOCK FALSE
PROPERTY ImportReportsBack
