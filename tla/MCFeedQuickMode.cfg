CONSTANTS
    Root = 1
    Folders <- MCFolders
    Parent <- MCParent
    Urls <- MCUrls
    InitStore <- MCInitStore
    NoDownload = NoDownload

SPECIFICATION Spec
INVARIANT FolderFeedsShareQuickMode
