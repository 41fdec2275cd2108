---------------------------- MODULE FeedQuickMode ----------------------------
(***************************************************************************)
(* The summary (quickMode) setting of the subscriptions dialog, for one   *)
(* account.  The feeds database keeps a quickMode per feed; the view's    *)
(* items keep their own copy, a folder item the mode of its feeds (or the *)
(* server default when it has none); the quickMode checkbox shows the     *)
(* current item's copy and is what a new subscription gets.               *)
(*                                                                         *)
(* Modelled: selecting a row (updateFeedData), editing the location field, *)
(* toggling the checkbox (setSummary), subscribing a feed in the current  *)
(* folder (addFeed and a successful download callback), updating a feed's *)
(* url, removing a feed (removeFeed) and moving a feed within the account *)
(* (moveCopyFeed), each with its updateFolderQuickModeInView.  The rows   *)
(* and their order are FeedTreeView's business and left out here: an item *)
(* is named by its folder or url.                                         *)
(***************************************************************************)
EXTENDS Naturals, FiniteSets, TLC

CONSTANTS
    Root,       \* the account's root folder
    Folders,    \* the account's other folders
    Parent,     \* Parent[f]: the folder f is a subfolder of
    Urls,       \* the feed urls that may be subscribed
    InitStore,  \* url -> folder: the subscriptions when the dialog opens
    NoDownload  \* no download in flight

VARIABLES
    store,       \* url -> destFolder of each subscription in the feeds db
    quick,       \* url -> the quickMode stored for the feed
    serverQuick, \* the account's "quickMode" pref, the default
    itemQuick,   \* folder or url -> the quickMode of its item in the view
    cur,         \* the current item: a folder or a feed url
    checked,     \* the quickMode checkbox
    location,    \* whether the location field holds a value
    pending      \* the subscription whose download is in flight, or NoDownload

vars == <<store, quick, serverQuick, itemQuick, cur, checked, location, pending>>

Containers == Folders \cup {Root}

Children(c) == {f \in Folders : Parent[f] = c} \cup {u \in DOMAIN store : store[u] = c}

(* getFeedsInFolder / FeedUtils.getFeedUrlsInFolder: the feeds of f.       *)
FeedsIn(st, f) == {u \in DOMAIN st : st[u] = f}

(* makeFolderObject's quickMode: the server default, replaced by the      *)
(* quickMode of the folder's first feed (feeds[0]; the db order is not   *)
(* known, CHOOSE fixes one).                                               *)
FolderQuickMode(st, q, dflt, f) ==
    IF FeedsIn(st, f) = {} THEN dflt ELSE q[CHOOSE u \in FeedsIn(st, f) : TRUE]

(* The items makeFolderObject builds for the account: a folder item with  *)
(* FolderQuickMode, a feed item (makeFeedObject) with the feed's mode.    *)
MakeView(st, q, dflt) ==
    [n \in Containers \cup DOMAIN st |->
        IF n \in DOMAIN st THEN q[n] ELSE FolderQuickMode(st, q, dflt, n)]

(* The db: every folder's feeds agree, as an OPML import or this dialog   *)
(* leaves them when nothing goes wrong.                                   *)
UniformQuick(st) ==
    {q \in [DOMAIN st -> BOOLEAN] :
        \A u, v \in DOMAIN st : st[u] = st[v] => q[u] = q[v]}

Init ==
    /\ store = InitStore
    /\ quick \in UniformQuick(InitStore)
    /\ serverQuick \in BOOLEAN
    /\ itemQuick = MakeView(store, quick, serverQuick)
    /\ cur = Root
    /\ checked = itemQuick[Root]
    /\ location = FALSE
    /\ pending = NoDownload

(* updateFolderQuickModeInView(feedItem, parentItem, true) after feed's   *)
(* removal from folder p: p's item takes the server default if p has no  *)
(* feed left.                                                             *)
RemovedQuickMode(st, iq, p) ==
    IF FeedsIn(st, p) = {} THEN [iq EXCEPT ![p] = serverQuick] ELSE iq

(* updateFolderQuickModeInView(feedItem, parentItem, false) after feed u  *)
(* joined its folder, p being the parent item passed: if u's folder has  *)
(* other feeds, u takes p's item's quickMode, in the db and in its item; *)
(* else p's item takes u's.                                               *)
AddedQuickMode(st, q, iq, u, p) ==
    IF Cardinality(FeedsIn(st, st[u])) > 1
    THEN [q |-> [q EXCEPT ![u] = iq[p]], iq |-> [iq EXCEPT ![u] = iq[p]]]
    ELSE [q |-> q, iq |-> [iq EXCEPT ![p] = iq[u]]]

(* onselect -> updateFeedData: the location shows a feed's url and is     *)
(* cleared for a folder; the checkbox shows the item's quickMode.        *)
Select(n) ==
    /\ cur' = n
    /\ checked' = itemQuick[n]
    /\ location' = (n \in DOMAIN store)
    /\ UNCHANGED <<store, quick, serverQuick, itemQuick, pending>>

(* The user types a url into, or clears, the location field of a folder. *)
EditLocation ==
    /\ cur \in Containers
    /\ location' = ~location
    /\ UNCHANGED <<store, quick, serverQuick, itemQuick, cur, checked, pending>>

(* setFocus: the checkbox is enabled for the account, for a folder with   *)
(* feeds or a folder whose location holds a url, never for a feed.       *)
SummaryEnabled ==
    \/ cur = Root
    \/ cur \in Folders /\ (location \/ FeedsIn(store, cur) # {})

(* setSummary(aChecked).  The account: unless a url is being added, the  *)
(* pref is set and FolderListener.folderAdded(root) rebuilds the         *)
(* account's items with makeFolderObject.  A folder with feeds: every    *)
(* feed's db quickMode, every item of item.children (its feeds and its   *)
(* subfolders) and the folder's item take aChecked.  A folder without     *)
(* feeds: nothing.                                                        *)
SetSummary(a) ==
    \/ /\ cur = Root
       /\ location
       /\ UNCHANGED <<store, quick, serverQuick, itemQuick>>
    \/ /\ cur = Root
       /\ ~location
       /\ serverQuick' = a
       /\ itemQuick' = MakeView(store, quick, a)
       /\ UNCHANGED <<store, quick>>
    \/ /\ cur \in Folders
       /\ FeedsIn(store, cur) = {}
       /\ UNCHANGED <<store, quick, serverQuick, itemQuick>>
    \/ /\ cur \in Folders
       /\ FeedsIn(store, cur) # {}
       /\ quick' = [u \in DOMAIN quick |-> IF store[u] = cur THEN a ELSE quick[u]]
       /\ itemQuick' = [n \in DOMAIN itemQuick |->
                           IF n \in Children(cur) \cup {cur} THEN a ELSE itemQuick[n]]
       /\ UNCHANGED <<store, serverQuick>>

(* A click on the enabled checkbox flips it and calls setSummary.        *)
ToggleSummary ==
    /\ SummaryEnabled
    /\ checked' = ~checked
    /\ SetSummary(~checked)
    /\ UNCHANGED <<cur, location, pending>>

(* addFeed(url) with the current folder's location: storeFeed keeps the  *)
(* checkbox's quickMode with the feed, and the download starts.  A url   *)
(* the account already has is refused (feedAlreadyExists); the button is *)
(* disabled until the download ends.  Adding on the account row creates a *)
(* folder in FeedUtils and is not modelled.                               *)
AddFeed(u) ==
    /\ pending = NoDownload
    /\ cur \in Folders
    /\ location
    /\ u \in Urls \ DOMAIN store
    /\ pending' = [url |-> u, folder |-> cur, q |-> checked]
    /\ UNCHANGED <<store, quick, serverQuick, itemQuick, cur, checked, location>>

(* Whether folder f is c or below it: containsFolder's search from c.     *)
RECURSIVE InTree(_, _)
InTree(f, c) == f = c \/ (f \in Folders /\ InTree(Parent[f], c))

(* The download callback's success branch: FeedUtils.addFeed stores the   *)
(* feed with its quickMode.  The parent item is read from the row current *)
(* now: a folder c holding the feed's folder f is searched (selectFolder) *)
(* and f's row becomes current, so f's item is the parent; for a current *)
(* feed it is that feed's folder's item, whatever f is.                   *)
(* updateFolderQuickModeInView(newItem, parentItem, false) runs with f's *)
(* feed count, and selectFeed makes the feed current.  A folder c not   *)
(* holding f gets a new folder item built from the db, a duplicate the   *)
(* rows check (FeedDownload); f's own item is left as it was.            *)
DownloadSucceeded ==
    /\ pending # NoDownload
    /\ LET u  == pending.url
           f  == pending.folder
           st == store @@ (u :> f)
           q0 == quick @@ (u :> pending.q)
           iq0 == itemQuick @@ (u :> pending.q)
           r  == IF cur \in Containers /\ ~InTree(f, cur)
                 THEN [q |-> q0, iq |-> iq0]
                 ELSE AddedQuickMode(st, q0, iq0, u,
                                     IF cur \in Containers THEN f ELSE store[cur])
       IN  /\ store' = st
           /\ quick' = r.q
           /\ itemQuick' = r.iq
           /\ cur' = u
           /\ checked' = r.iq[u]
           /\ location' = TRUE
           /\ pending' = NoDownload
           /\ UNCHANGED serverQuick

(* The failure branch: deleteFeed of a feed never stored changes nothing. *)
DownloadFailed ==
    /\ pending # NoDownload
    /\ pending' = NoDownload
    /\ UNCHANGED <<store, quick, serverQuick, itemQuick, cur, checked, location>>

(* updateFeed with an edited url: addFeed(null, parentFolder, .., kUpdate-*)
(* Mode) stores the new url with the checkbox's quickMode; the callback  *)
(* adds it beside the old feed, so updateFolderQuickModeInView gives it   *)
(* the parent item's mode; removeFeed(false) then deletes the old feed,  *)
(* which leaves a feed in the folder, and selectFeed selects the new one.*)
UpdateUrl(u) ==
    /\ pending = NoDownload
    /\ cur \in DOMAIN store
    /\ u \in Urls \ DOMAIN store
    /\ LET p  == store[cur]
           st == store @@ (u :> p)
           r  == AddedQuickMode(st, quick @@ (u :> checked),
                                itemQuick @@ (u :> checked), u, p)
           keep == DOMAIN st \ {cur}
           st2  == [v \in keep |-> st[v]]
       IN  /\ store' = st2
           /\ quick' = [v \in keep |-> r.q[v]]
           /\ itemQuick' = RemovedQuickMode(st2, [n \in DOMAIN r.iq \ {cur} |-> r.iq[n]], p)
           /\ cur' = u
           /\ checked' = r.iq[u]
           /\ location' = TRUE
           /\ UNCHANGED <<serverQuick, pending>>

(* removeFeed: FeedUtils.deleteFeed of the current feed, then             *)
(* updateFolderQuickModeInView(item, parentItem, true) and                *)
(* removeItemAtIndex; the selection moves to a remaining row, whose item *)
(* updateFeedData shows (which row is FeedFolderListener's business).    *)
RemoveFeed ==
    /\ cur \in DOMAIN store
    /\ LET keep == DOMAIN store \ {cur}
           st   == [v \in keep |-> store[v]]
           iq   == RemovedQuickMode(st, [n \in DOMAIN itemQuick \ {cur} |-> itemQuick[n]],
                                    store[cur])
       IN  /\ store' = st
           /\ quick' = [v \in keep |-> quick[v]]
           /\ itemQuick' = iq
           /\ \E n \in DOMAIN iq :
                 /\ cur' = n
                 /\ checked' = iq[n]
                 /\ location' = (n \in keep)
           /\ UNCHANGED <<serverQuick, pending>>

(* moveCopyFeed(current feed, folder d, "move") within the account: the   *)
(* subscription's destFolder is set, updateFolderQuickModeInView for the *)
(* old parent (remove) and, after parentFolder = d, for d (add); then     *)
(* selectFeed.  The account row and the feed's own folder are refused.   *)
MoveFeed(d) ==
    /\ cur \in DOMAIN store
    /\ d \in Folders \ {store[cur]}
    /\ LET st == [store EXCEPT ![cur] = d]
           r  == AddedQuickMode(st, quick,
                                RemovedQuickMode(st, itemQuick, store[cur]), cur, d)
       IN  /\ store' = st
           /\ quick' = r.q
           /\ itemQuick' = r.iq
           /\ checked' = r.iq[cur]
           /\ UNCHANGED <<serverQuick, cur, location, pending>>

Next ==
    \/ \E n \in DOMAIN itemQuick : Select(n)
    \/ EditLocation
    \/ ToggleSummary
    \/ \E u \in Urls : AddFeed(u)
    \/ DownloadSucceeded
    \/ DownloadFailed
    \/ \E u \in Urls : UpdateUrl(u)
    \/ RemoveFeed
    \/ \E d \in Folders : MoveFeed(d)

Spec == Init /\ [][Next]_vars

QTypeOK ==
    /\ store \in [DOMAIN store -> Folders] /\ DOMAIN store \subseteq Urls
    /\ quick \in [DOMAIN store -> BOOLEAN]
    /\ serverQuick \in BOOLEAN
    /\ itemQuick \in [Containers \cup DOMAIN store -> BOOLEAN]
    /\ cur \in Containers \cup DOMAIN store
    /\ checked \in BOOLEAN
    /\ location \in BOOLEAN
    /\ pending \in {NoDownload} \cup [url : Urls, folder : Folders, q : BOOLEAN]

(* All feeds of a folder have one quickMode in the feeds db: the comment  *)
(* at makeFolderObject (line 711) says quickMode "is updated to be the   *)
(* same for all feeds in a folder", and the folder's item, hence the     *)
(* checkbox and every feed later added or moved there, takes the first   *)
(* feed's.                                                                *)
FolderFeedsShareQuickMode ==
    \A f \in Folders : \A u, v \in FeedsIn(store, f) : quick[u] = quick[v]
=============================================================================
