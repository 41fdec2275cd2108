---------------------------- MODULE FeedOpmlExport ----------------------------
(***************************************************************************)
(* exportOPML: the outline document written for a feed account, either   *)
(* nested (generateOutlineStruct: one folder outline per folder, its      *)
(* subfolders' outlines first, then its feeds' outlines) or flat          *)
(* (generateOutlineList, Ctrl held: every feed outline directly in the    *)
(* <body>, a folder's subfolders' feeds before its own).  Trash and       *)
(* virtual folders, and everything below them, are left out.             *)
(*                                                                         *)
(* The account is given by constants.  An outline's element id is the id  *)
(* of the folder or feed it was made from; subFolders and the feed url   *)
(* list of a folder are enumerated in ascending id order.                 *)
(***************************************************************************)
EXTENDS FeedOpmlDoc

CONSTANTS
    RootFolder,      \* the account's root folder
    SrcFolders,      \* its folders, below the root
    SrcParent,       \* folder -> parent folder
    SpecialFolders,  \* folders with the Trash or Virtual flag
    SrcFeedFolder,   \* feed url -> the folder it is subscribed in
    SrcQuick,        \* feed url -> its quickMode
    Title            \* folder -> prettyName, feed url -> title

ASSUME /\ SrcFolders \cup {RootFolder} \cup DOMAIN SrcFeedFolder \subseteq Nodes
       /\ DOMAIN SrcFeedFolder \subseteq Urls

SrcFeeds == DOMAIN SrcFeedFolder

SubFolders(f) == SetToSortSeq({g \in SrcFolders : SrcParent[g] = f}, <)

(* The `continue` for folders that are Trash or Virtual.                   *)
Exportable(f) == f \notin SpecialFolders

ExportedSubFolders(f) == SelectSeq(SubFolders(f), Exportable)

(* getFeedsInFolder.                                                       *)
FeedsInFolder(f) == SetToSortSeq({u \in SrcFeeds : SrcFeedFolder[u] = f}, <)

(* The document with the given element children: exportOPMLOutline makes  *)
(* a feed outline with type="rss", xmlUrl, title and text from the feed's *)
(* title, and fz:quickMode; a folder outline has only a title.            *)
ExportDoc(k) ==
    [kids  |-> k,
     tag   |-> [n \in Nodes |-> IF n = Body THEN "body" ELSE "outline"],
     rss   |-> [n \in Nodes |-> n \in SrcFeeds],
     url   |-> [n \in Nodes |-> IF n \in SrcFeeds THEN n ELSE NoUrl],
     name  |-> Title,
     quick |-> [n \in Nodes |-> IF n \in SrcFeeds THEN SrcQuick[n] ELSE NoAttr]]

(* generateOutlineStruct, from the root folder into the <body>.           *)
StructKids ==
    [n \in Nodes |->
        IF n = Body THEN ExportedSubFolders(RootFolder)
        ELSE IF n \in SrcFolders THEN ExportedSubFolders(n) \o FeedsInFolder(n)
        ELSE <<>>]

(* generateOutlineList: for each exported subfolder, the list of its own  *)
(* subfolders first (the recursion), then its feeds.                      *)
RECURSIVE GenerateOutlineList(_)
GenerateOutlineList(f) ==
    LET S == ExportedSubFolders(f)
    IN  FlattenSeq([i \in 1..Len(S) |-> GenerateOutlineList(S[i]) \o FeedsInFolder(S[i])])

ListKids == [n \in Nodes |-> IF n = Body THEN GenerateOutlineList(RootFolder) ELSE <<>>]

(* exportOPML writes no file when the <body> has no outline.              *)
ExportedDocs == {d \in {ExportDoc(StructKids), ExportDoc(ListKids)} : d.kids[Body] # <<>>}

(* The folder path of a source folder: what import's getChildNamed walk   *)
(* must arrive at for it.                                                  *)
RECURSIVE NamePath(_)
NamePath(f) == IF f = RootFolder THEN Root ELSE Append(NamePath(SrcParent[f]), Title[f])

(* Whether feed u is in a folder that export writes out.                  *)
Exported(u) ==
    LET Up[f \in SrcFolders \cup {RootFolder}] ==
            IF f = RootFolder THEN TRUE ELSE Exportable(f) /\ Up[SrcParent[f]]
    IN  Up[SrcFeedFolder[u]]

=============================================================================
