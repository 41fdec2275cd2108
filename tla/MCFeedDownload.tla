--------------------------- MODULE MCFeedDownload ---------------------------
(***************************************************************************)
(* One account (1) with folders 10 and 14 under the root, folder 12 under *)
(* 10, feed 11 in 10 and feed 13 in 12.  Feed url 9 is not subscribed;  *)
(* it sorts before the feeds, so its item must be resorted into place.   *)
(* It can be added to a folder, or replace a feed's url in an update.    *)
(***************************************************************************)
EXTENDS FeedDialog

MCRoots == {1}
MCRootOrder == <<1>>
MCFolderIds == {10, 12, 14}
MCFeedIds == {9, 11, 13}
MCInitStore == (10 :> 1) @@ (14 :> 1) @@ (12 :> 10) @@ (11 :> 10) @@ (13 :> 12)
MCNewFeedIds == {9}
MCObj == 1..16
MCNoSel == -999
MCNullIdx == -1000
=============================================================================
