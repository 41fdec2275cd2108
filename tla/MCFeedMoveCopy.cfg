CONSTANTS
    Roots <- MCRoots
    RootOrder <- MCRootOrder
    FolderIds <- MCFolderIds
    FeedIds <- MCFeedIds
    InitStore <- MCInitStore
    Obj <- MCObj
    NoObj = 0
    NoSel <- MCNoSel
    NullIdx <- MCNullIdx
    NoFolder = 0
    NewFolderIds <- MCNewFolderIds
    EventsNeedCurrentRow = TRUE
    NoPending = NoPending
    UserActsDuringSettle = FALSE

SPECIFICATION MSpec
INVARIANT MTypeOK
INVARIANT ViewMatchesModel
INVARIANT SettledMatchesStore
PROPERTY AddKeepsCurrent
PROPERTY DeleteKeepsUnrelatedCurrent
PROPERTY RenameKeepsCurrent
PROPERTY MoveKeepsOtherCurrent
PROPERTY RemoveKeepsSelection
