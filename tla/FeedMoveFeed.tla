---------------------------- MODULE FeedMoveFeed ----------------------------
(***************************************************************************)
(* Moving a feed by drag and drop (onDragStart, the tree view's canDrop / *)
(* drop / extractDragData) or through the folder picker (setNewFolder),   *)
(* both ending in moveCopyFeed(aOldFeedIndex, aNewParentIndex, "move").   *)
(*                                                                         *)
(* Within one account the move is synchronous: the subscription's         *)
(* destFolder is set and the feed's item moves to the new parent item.    *)
(* Across accounts it is addFeed(url, newFolder, .., kMoveMode), which    *)
(* starts a download, followed at once by FeedUtils.deleteFeed of the old *)
(* subscription; the download callback of FeedDownload later adds the    *)
(* feed to the view under the row the move preselected.                   *)
(*                                                                         *)
(* Copies are not modelled: the store maps a feed url to one folder.      *)
(***************************************************************************)
EXTENDS FeedDownload

(* Mutant: the item keeps its old parentFolder.                           *)
MoveItemKeepParentFolder(s1, o, p) ==
    [s1 EXCEPT !.heap = [@ EXCEPT ![o].level = s1.heap[p].level + 1,
                                  ![p].children = Append(@, o)]]

(* moveCopyFeed within an account, on the view s1 after                   *)
(* removeItemAtIndex(aOldFeedIndex, true): the feed's item o gets its new *)
(* level and parentFolder and is pushed onto the children of the new     *)
(* parent item p (not resorted); an open parent is closed by toggle; then *)
(* selectFeed from the new parent's row nr.                                *)
MoveItem(s1, o, p) ==
    [s1 EXCEPT !.heap = [@ EXCEPT ![o].level = s1.heap[p].level + 1,
                                  ![o].pf = s1.heap[p].url,
                                  ![p].children = Append(@, o)]]

(* Mutant: the open parent is not closed before selectFeed.               *)
CloseParentSkipped(s2, p, nr) == s2

CloseParent(s2, p, nr) == IF s2.heap[p].open THEN Toggle(s2, nr) ELSE s2

(* Mutant: aNewParentIndex is not decremented after the removal.          *)
NewParentIndexUnadjusted(old, r) == r

(* aNewParentIndex-- when the removed feed row was above the drop target. *)
NewParentIndex(old, r) == IF r > old THEN r - 1 ELSE r

(* Mutant: selectFeed looks under the feed's old folder.                  *)
MoveWithinAccountOldFolder(s1, sp, o, p, nr) ==
    SelectFeed(CloseParent(MoveItem(s1, o, p), p, nr), sp, s1.heap[o].pf, s1.heap[o].url, nr)

MoveWithinAccount(s1, sp, o, p, nr) ==
    SelectFeed(CloseParent(MoveItem(s1, o, p), p, nr), sp, s1.heap[p].url, s1.heap[o].url, nr)

(* The store after feed u's subscription is given destFolder f.           *)
DestFolderStore(u, f) == [store EXCEPT ![u] = f]

(* Whether onDragStart / canDrop let the current feed row be dropped on   *)
(* container row r with the move effect: one selected feed row, a        *)
(* container target (the tree offers DROP_ON only on containers), and     *)
(* within an account neither the feed's own folder nor the account root. *)
(* A drop on the root of another account is not generated: FeedUtils     *)
(* then creates the subfolder, outside this repository.                   *)
CanDropFeed(r) ==
    LET o == GetItemAtIndex(View, cur)
        p == GetItemAtIndex(View, r)
    IN  /\ sel # NoSel
        /\ o # NoObj /\ ~heap[o].container
        /\ p # NoObj /\ heap[p].container
        /\ heap[p].url \notin Roots
        /\ RootOf(store, heap[o].pf) = RootOf(store, heap[p].url)
              => heap[p].url # heap[o].pf

(* moveCopyFeed(old, r, "move") within one account, on the view st0: the *)
(* store after setSubscriptionAttr, and the view after removeItemAtIndex *)
(* and the move of the item.                                               *)
MoveCopyWithin(st0, old, r) ==
    LET o  == GetItemAtIndex(st0, old)
        p  == GetItemAtIndex(st0, r)
        sp == DestFolderStore(st0.heap[o].url, st0.heap[p].url)
    IN  [sp |-> sp,
         st |-> MoveWithinAccount(RemoveItemAtIndex(st0, old, TRUE), sp, o, p,
                                  NewParentIndex(old, r))]

(* moveCopyFeed(old, r, "move") across accounts: addFeed starts the       *)
(* download in kMoveMode, the old subscription is deleted, the row        *)
(* removed, and the new folder preselected for the callback.              *)
MoveCopyAcross(st0, old, r) ==
    LET o  == GetItemAtIndex(st0, old)
        p  == GetItemAtIndex(st0, r)
        sp == [n \in DOMAIN store \ {st0.heap[o].url} |-> store[n]]
    IN  [sp |-> sp, d |-> [url |-> st0.heap[o].url, folder |-> st0.heap[p].url,
                           replaces |-> NoFolder, mode |-> kMoveMode],
         st |-> SelectFolder(RemoveItemAtIndex(st0, old, TRUE), sp, st0.heap[p].url,
                             NewParentIndex(old, r), TRUE, TRUE, FALSE, NoFolder).st]

(* Whether the feed at row old and the folder at row r share an account.  *)
SameAccount(st0, old, r) ==
    RootOf(store, st0.heap[GetItemAtIndex(st0, old)].pf)
        = RootOf(store, st0.heap[GetItemAtIndex(st0, r)].url)

(* The state after a move M within an account, or across accounts.       *)
ApplyWithin(M) ==
    /\ store' = M.sp
    /\ SetView(M.st)
    /\ UNCHANGED <<mActionMode, downloads>>

ApplyAcross(M) ==
    /\ mActionMode' = kMoveMode
    /\ downloads' = downloads \cup {M.d}
    /\ store' = M.sp
    /\ SetView(M.st)

(* drop(r) then moveCopyFeed(cur, r, "move") within one account.          *)
DropFeedWithinAccount(r) ==
    /\ UserActsDuringDownload \/ downloads = {}
    /\ CanDropFeed(r)
    /\ SameAccount(View, cur, r)
    /\ ApplyWithin(MoveCopyWithin(SelSelect(View, r), cur, r))

(* drop(r) then moveCopyFeed(cur, r, "move") across accounts.             *)
DropFeedAcrossAccounts(r) ==
    /\ UserActsDuringDownload \/ downloads = {}
    /\ Cardinality(downloads) < MaxDownloads
    /\ CanDropFeed(r)
    /\ ~SameAccount(View, cur, r)
    /\ \A d \in downloads : d.url # heap[GetItemAtIndex(View, cur)].url
    /\ ApplyAcross(MoveCopyAcross(SelSelect(View, r), cur, r))

(* setNewFolder: the user picks folder f for the current feed in the      *)
(* folder picker.  The picked folder is made visible (selectFolder, which *)
(* also selects it), the feed reselected (selectFeed without a parent    *)
(* index), and the first container row showing f is the newParentIndex.  *)
PickedView(f) ==
    LET o == GetItemAtIndex(View, cur)
    IN  SelectFeed(SelectFolder(View, store, f, NullIdx, TRUE, TRUE, FALSE, NoFolder).st,
                   store, heap[o].pf, heap[o].url, NullIdx)

(* The picker offers the folders of the feeds accounts, and the account   *)
(* row of the feed's own account; one feed row is selected and the       *)
(* picked folder is not its own.  Picking another account's row makes    *)
(* FeedUtils create a folder, outside this repository.                    *)
CanPickFolder(f) ==
    LET o == GetItemAtIndex(View, cur)
    IN  /\ UserActsDuringDownload \/ downloads = {}
        /\ sel # NoSel
        /\ o # NoObj /\ ~heap[o].container
        /\ f \in OpenableFolders(store) \ {heap[o].pf}
        /\ f \in Roots => f = RootOf(store, heap[o].pf)

(* setNewFolder when moveCopyFeed does nothing: the folder is not shown,  *)
(* or is the current row's parent, or is the account row.  The selection *)
(* and expansion changes stay.  v is the view after the two searches and *)
(* r the new parent index.                                                 *)
PickFolderNoMove(f, v, r) ==
    /\ \/ r = NullIdx
       \/ GetParentIndex(v, v.cur) = r
       \/ f \in Roots
    /\ SetView(v)
    /\ UNCHANGED <<store, mActionMode, downloads>>

(* setNewFolder ending in moveCopyFeed(currentIndex, newParentIndex,      *)
(* "move") within the account.                                             *)
PickFolderWithinAccount(f, v, r) ==
    /\ r # NullIdx /\ GetParentIndex(v, v.cur) # r /\ f \notin Roots
    /\ SameAccount(v, v.cur, r)
    /\ ApplyWithin(MoveCopyWithin(v, v.cur, r))

(* setNewFolder ending in moveCopyFeed across accounts.                   *)
PickFolderAcrossAccounts(f, v, r) ==
    /\ Cardinality(downloads) < MaxDownloads
    /\ r # NullIdx /\ GetParentIndex(v, v.cur) # r /\ f \notin Roots
    /\ ~SameAccount(v, v.cur, r)
    /\ \A d \in downloads : d.url # heap[GetItemAtIndex(View, cur)].url
    /\ ApplyAcross(MoveCopyAcross(v, v.cur, r))

(* setNewFolder(f), whichever way moveCopyFeed goes.                       *)
PickFolderIn(f, v) ==
    LET r == GetItemInViewIndex(v, f)
    IN  \/ PickFolderNoMove(f, v, r)
        \/ PickFolderWithinAccount(f, v, r)
        \/ PickFolderAcrossAccounts(f, v, r)

SetNewFolder(f) == CanPickFolder(f) /\ PickFolderIn(f, PickedView(f))

FNext ==
    \/ DNext
    \/ \E r \in 0..(Len(rows) - 1) : DropFeedWithinAccount(r) \/ DropFeedAcrossAccounts(r)
    \/ \E f \in Roots \cup FolderIds : SetNewFolder(f)

FSpec == DInit /\ [][FNext]_dvars

-----------------------------------------------------------------------------
(* Properties.                                                             *)

(* The item tree mirrors the store as ModelMatchesStore says, except that *)
(* the order of each folder's children is not checked.                    *)
ItemsMirrorStore ==
    /\ {heap[o].url : o \in ToSet(AccountRows)} = Roots
    /\ \A o \in ModelItems :
        LET it == heap[o] IN
        /\ it.url \in Roots \cup DOMAIN store
        /\ it.container =>
              /\ {heap[c].url : c \in ToSet(it.children)} = StoreChildren(store, it.url)
              /\ Len(it.children) = Cardinality(StoreChildren(store, it.url))
              /\ \A i \in 1..Len(it.children) : heap[it.children[i]].level = it.level + 1
        /\ ~it.container => it.pf = store[it.url]

(* A move within an account is the step that gives a subscription a new *)
(* folder; the feed it moves.                                             *)
MovedWithinAccountStep == DOMAIN store' = DOMAIN store /\ store' # store
MovedFeed == CHOOSE u \in DOMAIN store : store'[u] # store[u]

(* moveCopyFeed ends with selectFeed from the new parent's row: after a   *)
(* move within an account the moved feed is the current row, shown under *)
(* its new folder.                                                         *)
MovedFeedIsCurrent ==
    [][MovedWithinAccountStep =>
         /\ CurUrl(View') = MovedFeed
         /\ heap'[CurSelItem(View')].pf = store'[MovedFeed]]_dvars

(* "Unsubscribe the feed from the old folder, if add to the new folder is *)
(* successful": a move across accounts whose download fails leaves the    *)
(* feed subscribed somewhere.                                              *)
MoveFailureKeepsFeed ==
    [][\A d \in downloads : mActionMode = kMoveMode /\ DownloadFailed(d)
         => d.url \in DOMAIN store']_dvars

=============================================================================
