--------------------------- MODULE MCFeedMoveCopy ---------------------------
(***************************************************************************)
(* The forest of MCFeedFolderListener: folders 10 and 14 under root 1,    *)
(* folder 12 under 10, feed 11 in 10 and feed 13 in 12.  The leaf folders *)
(* 12 and 14 can move, as 16, into the root or into another folder.       *)
(***************************************************************************)
EXTENDS FeedMoveCopy

MCRoots == {1}
MCRootOrder == <<1>>
MCFolderIds == {10, 12, 14, 16}
MCFeedIds == {11, 13}
MCInitStore == (10 :> 1) @@ (14 :> 1) @@ (12 :> 10) @@ (11 :> 10) @@ (13 :> 12)
MCNewFolderIds == {16}
MCObj == 1..16
MCNoSel == -999
MCNullIdx == -1000
=============================================================================
