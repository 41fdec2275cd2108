CONSTANTS
    Roots <- MCRoots
    RootOrder <- MCRootOrder
    FolderIds <- MCFolderIds
    FeedIds <- MCFeedIds
    InitStore <- MCInitStore
    Obj <- MCObj
    NoObj = 0
    NoSel <- MCNoSel
    NullIdx <- MCNullIdx
    NoFolder = 0
    NewFeedIds <- MCNewFeedIds
    MaxDownloads = 2
    UserActsDuringDownload = TRUE

SPECIFICATION CSpec
PROPERTY VerifyNeverUnsubscribes
