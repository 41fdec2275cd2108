---------------------------- MODULE MCFeedMoveFeed ---------------------------
(***************************************************************************)
(* Two accounts.  Account 1 has folder 10 under its root, folder 12 under  *)
(* 10, feed 11 in 10 and feed 13 in 12; account 2 has folder 20, an empty  *)
(* target in the other account.  Feed 11 moved into 12 lands after 13      *)
(* unless the children are resorted.  Adding and updating feeds is checked *)
(* by MCFeedDownload; here no new url exists.                              *)
(***************************************************************************)
EXTENDS FeedMoveFeed

MCRoots == {1, 2}
MCRootOrder == <<1, 2>>
MCFolderIds == {10, 12, 20}
MCFeedIds == {11, 13}
MCInitStore == (10 :> 1) @@ (12 :> 10) @@ (11 :> 10) @@ (13 :> 12)
                 @@ (20 :> 2)
MCNewFeedIds == {}
MCObj == 1..20
MCNoSel == -999
MCNullIdx == -1000
=============================================================================
