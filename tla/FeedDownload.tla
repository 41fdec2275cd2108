---------------------------- MODULE FeedDownload ----------------------------
(***************************************************************************)
(* Subscribing, updating and verifying a feed: addFeed and updateFeed set *)
(* mActionMode and start feed.download(.., mFeedDownloadCallback); the     *)
(* download completes later and mFeedDownloadCallback.downloaded applies   *)
(* the result to the store and to the view, reading mActionMode and the    *)
(* current row as they are when it runs.                                   *)
(*                                                                         *)
(* addFeed disables the Add button and updateFeed the Update button, but  *)
(* setFocus re-enables them on the next select or focus change, so the    *)
(* user may act, and start another download, while one is in flight.      *)
(***************************************************************************)
EXTENDS FeedTreeView

CONSTANTS
    NewFeedIds,             \* feed urls the user can subscribe to
    MaxDownloads,           \* bound on downloads in flight at once
    UserActsDuringDownload  \* the user may act while a download is in flight

ASSUME /\ NewFeedIds \subseteq FeedIds
       /\ MaxDownloads \in Nat \ {0}
       /\ UserActsDuringDownload \in BOOLEAN

VARIABLES
    mActionMode,  \* FeedSubscriptions.mActionMode; 0 is null
    downloads     \* the downloads in flight: the feed's url and folder, the
                  \* aMode addFeed or updateFeed started it in, and (a history
                  \* field, not in the code) the feed an update replaces, or
                  \* NoFolder

dvars == <<vars, mActionMode, downloads>>

(* The modes of mActionMode this component uses.                          *)
kSubscribeMode == 1
kUpdateMode == 2
kMoveMode == 3
kVerifyUrlMode == 6
Modes == {0, kSubscribeMode, kUpdateMode, kMoveMode, kVerifyUrlMode}

Download == [url : FeedIds, folder : FolderIds, replaces : FeedIds \cup {NoFolder},
             mode : Modes \ {0}]

(* makeFeedObject(feed, folder, level) in the lowest free object.         *)
MakeFeedObject(h, url, folder, level) ==
    LET o == CHOOSE x \in Obj \ DOMAIN h : \A y \in Obj \ DOMAIN h : x <= y
    IN  [heap |-> h @@ (o :> [url |-> url, level |-> level, open |-> FALSE,
                              container |-> FALSE, pf |-> folder, children |-> <<>>]),
         obj  |-> o]

-----------------------------------------------------------------------------
(* User actions that start a download.                                     *)

(* addFeed(url, null, ..) in kSubscribeMode on the view v: the folder is  *)
(* the current container row's; a url already subscribed is refused.  An *)
(* add into an account root is not generated: selectFeed then resolves  *)
(* the folder through getChildWithURI, which is outside this repository. *)
StartSubscribe(v, u) ==
    LET o == GetItemAtIndex(v, v.cur)
    IN  /\ Cardinality(downloads) < MaxDownloads
        /\ u \in NewFeedIds \ DOMAIN store
        /\ \A d \in downloads : d.url # u
        /\ o # NoObj
        /\ v.heap[o].container
        /\ v.heap[o].url \in FolderIds
        /\ mActionMode' = kSubscribeMode
        /\ downloads' = downloads \cup {[url |-> u, folder |-> v.heap[o].url, replaces |-> NoFolder,
                                         mode |-> kSubscribeMode]}

(* The Add button with url u in the location field.                       *)
AddFeed(u) ==
    /\ UserActsDuringDownload \/ downloads = {}
    /\ StartSubscribe(View, u)
    /\ UNCHANGED <<viewVars, store>>

(* updateFeed() on the current feed row: with an edited url u it is        *)
(* addFeed(null, parentFolder, false, null, kUpdateMode); with the url     *)
(* unchanged it verifies the feed (kVerifyUrlMode).                        *)
UpdateFeed(u) ==
    LET o == GetItemAtIndex(View, cur)
    IN  /\ Cardinality(downloads) < MaxDownloads
        /\ UserActsDuringDownload \/ downloads = {}
        /\ sel # NoSel
        /\ o # NoObj
        /\ ~heap[o].container
        /\ \/ /\ u = heap[o].url
              /\ mActionMode' = kVerifyUrlMode
           \/ /\ u \in NewFeedIds \ DOMAIN store
              /\ mActionMode' = kUpdateMode
        /\ \A d \in downloads : d.url # u     \* one download per url
        /\ downloads' = downloads \cup {[url |-> u, folder |-> heap[o].pf,
                                         replaces |-> IF u = heap[o].url THEN NoFolder
                                                      ELSE heap[o].url,
                                         mode |-> mActionMode']}
        /\ UNCHANGED <<viewVars, store>>

-----------------------------------------------------------------------------
(* mFeedDownloadCallback.downloaded(feed, aErrorCode).                     *)

(* Mutant: the children are not resorted after the push.                  *)
PushChildUnsorted(st, p, m) ==
    [st EXCEPT !.heap = [m.heap EXCEPT ![p].children = Append(@, m.obj)]]

(* The new item joins parentItem p's children, which are resorted.        *)
PushChild(st, p, m) ==
    [st EXCEPT !.heap = [m.heap EXCEPT ![p].children =
                           FolderItemSorter(m.heap, Append(@, m.obj))]]

(* Mutant: the row is removed but the subscription is kept.               *)
RemoveCurrentFeedKeepStore(st, sp) ==
    LET o == GetItemAtIndex(st, st.cur)
    IN  IF st.sel = NoSel \/ o = NoObj \/ st.heap[o].container
        THEN [st |-> st, sp |-> sp]
        ELSE [st |-> RemoveItemAtIndex(st, st.cur, FALSE), sp |-> sp]

(* removeFeed(false) as the update-mode callback calls it: the current    *)
(* row, if it is the one selected feed, is unsubscribed and removed.      *)
RemoveCurrentFeed(st, sp) ==
    LET o == GetItemAtIndex(st, st.cur)
    IN  IF st.sel = NoSel \/ o = NoObj \/ st.heap[o].container
        THEN [st |-> st, sp |-> sp]
        ELSE [st |-> RemoveItemAtIndex(st, st.cur, FALSE),
              sp |-> [n \in DOMAIN sp \ {st.heap[o].url} |-> sp[n]]]

(* selectFeed(feed, parentIndex) once the item is in place (R).          *)
SelectNewFeed(R, d, parentIndex) ==
    [st |-> SelectFeed(R.st, R.sp, d.folder, d.url, parentIndex), sp |-> R.sp]

(* Mutant: the new feed is selected before removeFeed(false) runs.        *)
PlaceNewItemSelectFirst(st, sp, d, mode, parentIndex, m) ==
    LET p == GetItemAtIndex(st, parentIndex)
    IN  IF p = NoObj THEN [st |-> st, sp |-> sp]
        ELSE IF mode = kUpdateMode
        THEN RemoveCurrentFeed(SelectNewFeed([st |-> PushChild(st, p, m), sp |-> sp],
                                             d, parentIndex).st, sp)
        ELSE SelectNewFeed([st |-> PushChild(st, p, m), sp |-> sp], d, parentIndex)

(* The end of the success branch, once newItem m is built under parent   *)
(* row parentIndex: push it, remove the old feed in update mode, and      *)
(* select the new feed.                                                    *)
PlaceNewItem(st, sp, d, mode, parentIndex, m) ==
    LET p == GetItemAtIndex(st, parentIndex)
    IN  IF p = NoObj THEN [st |-> st, sp |-> sp]    \* parentItem.children throws
        ELSE SelectNewFeed(IF mode = kUpdateMode
                           THEN RemoveCurrentFeed(PushChild(st, p, m), sp)
                           ELSE [st |-> PushChild(st, p, m), sp |-> sp],
                           d, parentIndex)

(* The current row is a container: selectFolder(feed.folder) from it; a   *)
(* folder not found below it is taken for a new folder and built whole,   *)
(* else the feed goes under the row selectFolder made current.            *)
PlaceUnderFolder(st, sp, d, mode, R) ==
    IF ~R.found
    THEN PlaceNewItem(R.st, sp, d, mode, st.cur,
                      MakeFolderObject(R.st.heap, sp, d.folder,
                                       R.st.heap[GetItemAtIndex(st, st.cur)].level + 1))
    ELSE LET ci == R.st.cur
             o  == GetItemAtIndex(R.st, ci)
         IN  IF o = NoObj THEN [st |-> R.st, sp |-> sp]    \* curItem.level throws
             ELSE PlaceNewItem(R.st, sp, d, mode, ci,
                               MakeFeedObject(R.st.heap, d.url, d.folder,
                                              R.st.heap[o].level + 1))

(* "Now add the feed to our view": from the current row when the callback *)
(* runs; with no current row the view is left alone.                      *)
DownloadedView(st, sp, d, mode) ==
    LET o == GetItemAtIndex(st, st.cur)
    IN  IF o = NoObj THEN [st |-> st, sp |-> sp]
        ELSE IF st.heap[o].container
        THEN PlaceUnderFolder(st, sp, d, mode,
                              SelectFolder(st, sp, d.folder, st.cur, TRUE, TRUE, FALSE, NoFolder))
        ELSE PlaceNewItem(st, sp, d, mode, GetParentIndex(st, st.cur),
                          MakeFeedObject(st.heap, d.url, d.folder, st.heap[o].level))

(* The download d fails: "Remove intermediate traces from the feeds       *)
(* database", unless verifying.                                           *)
DownloadFailed(d) ==
    /\ d \in downloads
    /\ downloads' = downloads \ {d}
    /\ mActionMode' = 0
    /\ store' = IF mActionMode = kVerifyUrlMode THEN store
                ELSE [n \in DOMAIN store \ {d.url} |-> store[n]]
    /\ UNCHANGED viewVars

(* The download d succeeds in verify mode: nothing more to do.            *)
DownloadVerified(d) ==
    /\ d \in downloads
    /\ mActionMode = kVerifyUrlMode
    /\ downloads' = downloads \ {d}
    /\ mActionMode' = 0
    /\ UNCHANGED <<viewVars, store>>

(* The download d succeeds otherwise: FeedUtils.addFeed(feed), then the   *)
(* feed is added to the view.                                             *)
DownloadAdded(d) ==
    /\ d \in downloads
    /\ mActionMode # kVerifyUrlMode
    /\ CanAllocate(heap)
    /\ downloads' = downloads \ {d}
    /\ mActionMode' = 0
    /\ \E R \in {DownloadedView(View, store @@ (d.url :> d.folder), d, mActionMode)} :
           /\ store' = R.sp
           /\ SetView(R.st)

DInit == Init /\ mActionMode = 0 /\ downloads = {}

(* The user's steps, and the callbacks of the downloads in flight.       *)
DUser ==
    \/ UserNext /\ (UserActsDuringDownload \/ downloads = {})
                /\ UNCHANGED <<mActionMode, downloads>>
    \/ \E u \in NewFeedIds : AddFeed(u)
    \/ \E u \in FeedIds : UpdateFeed(u)

DCallback ==
    \E d \in downloads : DownloadFailed(d) \/ DownloadVerified(d) \/ DownloadAdded(d)

DNext == DUser \/ DCallback

DSpec == DInit /\ [][DNext]_dvars

-----------------------------------------------------------------------------
(* Properties.                                                             *)

DTypeOK ==
    /\ TypeOK
    /\ mActionMode \in Modes
    /\ downloads \subseteq Download

(* A step in which the callback of download d takes the success branch  *)
(* in subscribe, update or move mode.                                     *)
AddedStep(d) ==
    /\ mActionMode \in {kSubscribeMode, kUpdateMode, kMoveMode}
    /\ DownloadAdded(d)

(* The success callback ends with selectFeed(feed, parentIndex): the new  *)
(* subscription is the current row once the callback has run.            *)
AddedFeedIsCurrent ==
    [][\A d \in downloads : AddedStep(d) => CurUrl(View') = d.url]_dvars

Subscriptions == INSTANCE FeedSubscriptionStore

(* The dialog keeps FeedSubscriptionStore's promise: the store changes   *)
(* only when a download the user started succeeds (the new url in the    *)
(* folder it was started for, an update also dropping exactly the feed    *)
(* it started from, a verify nothing) or when the user removes a feed;    *)
(* every download started is a valid request.  The callback decides from *)
(* mActionMode and the current row as they are when it runs, and         *)
(* removeFeed(false) removes whatever feed row is current.                *)
DownloadRefinesStore == Subscriptions!Spec

(* The update-mode callback unsubscribes no feed but the one the update *)
(* was started from: removeFeed(false) acts on the current row as it is  *)
(* when the download completes.                                           *)
UpdateRemovesOnlyReplaced ==
    [][\A d \in downloads : AddedStep(d) /\ mActionMode = kUpdateMode =>
         DOMAIN store \ DOMAIN store' \subseteq {d.replaces}]_dvars

(* Verifying a feed never unsubscribes it: the failure branch deletes    *)
(* the feed only when mActionMode, read when the callback runs, is not   *)
(* kVerifyUrlMode.  A verify download is one updateFeed started in that   *)
(* mode, for a url that is still subscribed.                              *)
VerifyNeverUnsubscribes ==
    [][\A d \in downloads :
         d.mode = kVerifyUrlMode /\ d.url \in DOMAIN store /\ DownloadFailed(d)
           => d.url \in DOMAIN store']_dvars

=============================================================================
