--------------------------- MODULE MCFeedTreeView ---------------------------
(***************************************************************************)
(* One feed account (1).  Folders 10 and 14 sit under the root and folder *)
(* 12 under 10; feed 11 is in 10, feeds 13 and 15 in 12, feed 17 in 14.   *)
(* Numbers order names, and folder and feed names interleave, so that the *)
(* containers-first pass of folderItemSorter matters; three levels below  *)
(* the root let a collapse hide an open subfolder that a reopen restores. *)
(***************************************************************************)
EXTENDS FeedTreeView

MCRoots == {1}
MCRootOrder == <<1>>
MCFolderIds == {10, 12, 14}
MCFeedIds == {11, 13, 15, 17}
MCInitStore == (10 :> 1) @@ (14 :> 1) @@ (12 :> 10)
               @@ (11 :> 10) @@ (13 :> 12) @@ (15 :> 12) @@ (17 :> 14)
MCObj == 1..16
MCNoSel == -999
MCNullIdx == -1000
=============================================================================
