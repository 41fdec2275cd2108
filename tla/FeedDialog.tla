----------------------------- MODULE FeedDialog -----------------------------
(***************************************************************************)
(* A url dropped on the tree, whose addFeed runs from a timer, and the    *)
(* end of the dialog's life: onClose, with the downloads of           *)
(* FeedDownload in flight.  onLoad clears FeedUtils.CANCEL_REQUESTED;      *)
(* onClose asks the user to confirm when mActionMode is kSubscribeMode,    *)
(* and on dismissal sets CANCEL_REQUESTED to whether it is, and removes    *)
(* the folder listener.  What FeedUtils does with CANCEL_REQUESTED, and a  *)
(* callback that runs in a closed window, are outside this repository:    *)
(* once the dialog is dismissed nothing more happens here.                *)
(***************************************************************************)
EXTENDS FeedDownload

VARIABLES
    closed,          \* the dialog has been dismissed
    cancelRequested, \* FeedUtils.CANCEL_REQUESTED
    dropTimer        \* the url whose addFeed timer is pending, or NoFolder

cvars == <<dvars, closed, cancelRequested, dropTimer>>

(* A download addFeed started in kSubscribeMode.                          *)
IsSubscription(d) == d.mode = kSubscribeMode

(* onLoad: FeedUtils.CANCEL_REQUESTED = false.                             *)
CInit == DInit /\ closed = FALSE /\ cancelRequested = FALSE /\ dropTimer = NoFolder

(* mView.drop(r, DROP_ON) of url u (extractDragData found a feed uri):    *)
(* the tree offers DROP_ON only on a container row, a folder here (on an *)
(* account row FeedUtils would create the folder).  Row r is selected and *)
(* addFeed(u, null, true, null, kSubscribeMode) is put on a setTimeout(0). *)
(* A url already downloading is not dropped.                               *)
DropUrl(r, u) ==
    LET p == GetItemAtIndex(View, r)
    IN  /\ UserActsDuringDownload \/ downloads = {}
        /\ dropTimer = NoFolder
        /\ p # NoObj /\ heap[p].container /\ heap[p].url \in FolderIds
        /\ Cardinality(downloads) < MaxDownloads
        /\ \A d \in downloads : d.url # u
        /\ dropTimer' = u
        /\ SetView(SelSelect(View, r))
        /\ UNCHANGED <<store, mActionMode, downloads, closed, cancelRequested>>

(* addFeed refuses: the url is subscribed (feedAlreadyExists) or the      *)
(* current row is not a folder (no addFolder).                            *)
AddFeedRefused(v, u) ==
    LET o == GetItemAtIndex(v, v.cur)
    IN  u \in DOMAIN store \/ o = NoObj \/ ~v.heap[o].container

(* The drop's timer: addFeed from the row current when it runs.           *)
DropTimerFires ==
    /\ dropTimer # NoFolder
    /\ dropTimer' = NoFolder
    /\ \/ StartSubscribe(View, dropTimer) /\ UNCHANGED <<viewVars, store>>
       \/ AddFeedRefused(View, dropTimer) /\ UNCHANGED dvars
    /\ UNCHANGED <<closed, cancelRequested>>

(* onClose, the dialog dismissed: with no subscription pending, or with  *)
(* one and the user confirming the cancel.  Answering no to the prompt   *)
(* returns false and changes nothing.                                     *)
OnClose ==
    /\ ~closed /\ dropTimer = NoFolder
    /\ closed' = TRUE
    /\ cancelRequested' = (mActionMode = kSubscribeMode)
    /\ UNCHANGED <<dvars, dropTimer>>

(* The dialog is gone: its state no longer changes.                       *)
Closed == closed /\ UNCHANGED cvars

(* A pending timer runs before the next user event; a download callback *)
(* may come first.                                                         *)
CNext ==
    \/ ~closed /\ dropTimer = NoFolder /\ DUser /\ UNCHANGED <<closed, cancelRequested, dropTimer>>
    \/ ~closed /\ DCallback /\ UNCHANGED <<closed, cancelRequested, dropTimer>>
    \/ ~closed /\ \E r \in 0..(Len(rows) - 1), u \in NewFeedIds : DropUrl(r, u)
    \/ ~closed /\ DropTimerFires
    \/ OnClose
    \/ Closed

CSpec == CInit /\ [][CNext]_cvars

-----------------------------------------------------------------------------
(* Properties.                                                             *)

CTypeOK ==
    /\ DTypeOK
    /\ closed \in BOOLEAN /\ cancelRequested \in BOOLEAN
    /\ dropTimer \in NewFeedIds \cup {NoFolder}

(* "Dismissing the dialog right now will abort the feed subscription":    *)
(* closing the dialog requests a cancel exactly when a subscription      *)
(* download is in flight.  onClose decides from mActionMode, which addFeed,*)
(* updateFeed and every outcome of the download callback write, not from *)
(* the downloads themselves; a stale mode cancels a later download or     *)
(* lets a pending subscription run on.                                    *)
CloseCancelsIffSubscribing ==
    [][~closed /\ closed' =>
         (cancelRequested' <=> \E d \in downloads : IsSubscription(d))]_cvars

(* A url dropped on a folder is subscribed there, unless the account      *)
(* already has it: the drop's timer starts its download.  addFeed reads   *)
(* the folder from the row current when the timer runs, and a download   *)
(* callback that runs first selects the feed it added.                    *)
DropNotLost ==
    [][DropTimerFires /\ dropTimer \notin DOMAIN store => downloads' # downloads]_cvars

=============================================================================
