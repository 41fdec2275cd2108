------------------------ MODULE MCFeedFolderListener ------------------------
(***************************************************************************)
(* One account (1) with folders 10 and 14 under the root, folder 12 under *)
(* 10, feed 11 in 10 and feed 13 in 12, plus a spare folder URI (16) that *)
(* folderAdded can create anywhere: an added folder can land above, below *)
(* or beside the current row, in a shown or a hidden branch.  Names        *)
(* interleave folders and feeds as in MCFeedTreeView.  There are enough    *)
(* objects for the old and the rebuilt items of the whole account to      *)
(* coexist within one handler.                                             *)
(***************************************************************************)
EXTENDS FeedFolderListener

MCRoots == {1}
MCRootOrder == <<1>>
MCFolderIds == {10, 12, 14, 16}
MCFeedIds == {11, 13}
MCInitStore == (10 :> 1) @@ (14 :> 1) @@ (12 :> 10) @@ (11 :> 10) @@ (13 :> 12)
MCNewFolderIds == {16}
MCObj == 1..16
MCNoSel == -999
MCNullIdx == -1000
=============================================================================
