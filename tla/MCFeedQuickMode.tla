---------------------------- MODULE MCFeedQuickMode ---------------------------
(***************************************************************************)
(* The account root 1 with folder A (10) and folder B (14); A has feed 11 *)
(* and subfolder S (12), S has feed 13.  Url 15 is free to subscribe.     *)
(* Init takes every db in which each folder's feeds agree, and either    *)
(* server default.                                                         *)
(***************************************************************************)
EXTENDS FeedQuickMode

MCFolders == {10, 12, 14}
MCParent == (10 :> 1) @@ (12 :> 10) @@ (14 :> 1)
MCUrls == {11, 13, 15}
MCInitStore == (11 :> 10) @@ (13 :> 12)
=============================================================================
