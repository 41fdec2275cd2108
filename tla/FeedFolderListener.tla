------------------------- MODULE FeedFolderListener -------------------------
(***************************************************************************)
(* The dialog's folder listener (FeedSubscriptions.FolderListener): the    *)
(* folder store changes underneath the open dialog and notifies it, and    *)
(* folderAdded / folderDeleted reconcile the item tree, the rows and the   *)
(* selection with the new store.  Each notification runs to completion on *)
(* the main thread, so each handler is one atomic action, interleaved      *)
(* with the user's actions of FeedTreeView.                                *)
(*                                                                         *)
(* The store grows by creating a folder (FolderIds not yet present) under  *)
(* an account root or an existing folder, and shrinks by deleting a folder *)
(* that holds no subfolder (its feeds go with it).                         *)
(***************************************************************************)
EXTENDS FeedTreeView

CONSTANTS
    NewFolderIds,         \* the folder URIs a folderAdded may create
    EventsNeedCurrentRow  \* restrict store events to states with a current row

ASSUME NewFolderIds \subseteq FolderIds /\ EventsNeedCurrentRow \in BOOLEAN

(* folderAdded's last step: reselect the item old that was current        *)
(* before the event, by URI, in the rebuilt rows s2.                       *)
(* Mutant: folderAdded without the final reselection.                     *)
ReselectNone(sp, s2, old, parentIndex) == s2

Reselect(sp, s2, old, parentIndex) ==
    IF old.container
    THEN SelectFolder(s2, sp, old.url, NullIdx, TRUE, old.open, FALSE, NoFolder).st
    ELSE SelectFeed(s2, sp, old.pf, old.url, parentIndex)

(* folderAdded after selectFolder rebuilt the parent's item (s1): the      *)
(* early return, else collapse and reopen the grandparent row (or the     *)
(* root's own row) and reselect.                                          *)
FolderAddedRebuild(st, sp, s1, indexInView, open) ==
    LET curSel      == CurSelItem(st)
        pi0         == GetParentIndex(s1, indexInView)
        parentIndex == IF pi0 = -1 THEN indexInView ELSE pi0
    IN  IF indexInView = NullIdx \/ curSel = NoObj THEN s1
        ELSE Reselect(sp,
                      IF open THEN ToggleOpenState(Toggle(s1, parentIndex), parentIndex)
                      ELSE s1,
                      st.heap[curSel], parentIndex)

(* folderAdded(aFolder) for a new non-root folder under p, after the store *)
(* holds it.  Account roots are always shown, so the branch that pushes a *)
(* new account row is not reached.                                        *)
FolderAddedHandler(st, sp, p) ==
    LET indexInView == GetItemInViewIndex(st, p)
        open        == IF p \in Roots /\ indexInView # NullIdx
                       THEN st.heap[st.rows[indexInView + 1]].open
                       ELSE indexInView # NullIdx
    IN  FolderAddedRebuild(st, sp,
                           SelectFolder(st, sp, p, NullIdx, FALSE, open, FALSE, p).st,
                           indexInView, open)

(* folderDeleted after selectFolder detached the item (s1): the early     *)
(* return, else remove its row, selecting a neighbour if the current row  *)
(* was it or was inside it.                                                *)
(* Mutant: folderDeleted always reselects after removing the row.         *)
FolderDeletedRemoveAlwaysSelect(s1, indexInView, curSelIndex) ==
    IF indexInView = NullIdx \/ curSelIndex < 0 THEN s1
    ELSE RemoveItemAtIndex(s1, indexInView, FALSE)

FolderDeletedRemove(s1, indexInView, curSelIndex) ==
    IF indexInView = NullIdx \/ curSelIndex < 0 THEN s1
    ELSE RemoveItemAtIndex(s1, indexInView,
                           ~(\/ indexInView = curSelIndex
                             \/ IsIndexChildOfParentIndex(s1, indexInView, curSelIndex)))

(* folderDeleted(aFolder), after the store has dropped it.                 *)
FolderDeletedHandler(st, sp, f) ==
    FolderDeletedRemove(SelectFolder(st, sp, f, NullIdx, FALSE, FALSE, TRUE, NoFolder).st,
                        GetItemInViewIndex(st, f), st.cur)

(* folderRenamed's last step: reselect the item old that was current      *)
(* before the event.  The renamed folder itself is found by its new URI g; *)
(* a folder the current row was inside of is selected by the renamed      *)
(* folder's row; a feed is found from its folder in the store.            *)
(* Mutant: the renamed folder is looked up by its old URI.                *)
RenameReselectOldUri(sp, s2, old, f, g, select, indexInView, parentIndex) ==
    IF old.container
    THEN IF select THEN SelSelect(s2, indexInView)
         ELSE SelectFolder(s2, sp, old.url, NullIdx, TRUE, old.open, FALSE, NoFolder).st
    ELSE SelectFeed(s2, sp, sp[old.url], old.url, parentIndex)

RenameReselect(sp, s2, old, f, g, select, indexInView, parentIndex) ==
    IF old.container
    THEN IF old.url = f THEN SelectFolder(s2, sp, g, NullIdx, TRUE, old.open, FALSE, NoFolder).st
         ELSE IF select THEN SelSelect(s2, indexInView)
         ELSE SelectFolder(s2, sp, old.url, NullIdx, TRUE, old.open, FALSE, NoFolder).st
    ELSE SelectFeed(s2, sp, sp[old.url], old.url, parentIndex)

(* folderRenamed after selectFolder rebuilt the item under its new URI    *)
(* (s1): the early return, else collapse and reopen the parent row (or    *)
(* the root's own row) and reselect.                                      *)
FolderRenamedRebuild(st, sp, s1, f, g, indexInView) ==
    LET curSel      == CurSelItem(st)
        select      == \/ indexInView = st.cur
                       \/ IsIndexChildOfParentIndex(s1, indexInView, st.cur)
        pi0         == GetParentIndex(s1, indexInView)
        parentIndex == IF pi0 = -1 THEN indexInView ELSE pi0
    IN  IF indexInView = NullIdx \/ curSel = NoObj THEN s1
        ELSE RenameReselect(sp, ToggleOpenState(Toggle(s1, parentIndex), parentIndex),
                            st.heap[curSel], f, g, select, indexInView, parentIndex)

(* folderRenamed(aOrigFolder f, aNewFolder g).  sp is the store after the *)
(* rename with f's old entry kept, since selectFolder finds f's account   *)
(* through the old folder object.                                         *)
FolderRenamedHandler(st, sp, f, g) ==
    LET indexInView == GetItemInViewIndex(st, f)
    IN  FolderRenamedRebuild(st, sp,
                             SelectFolder(st, sp, f, NullIdx, FALSE, indexInView # NullIdx,
                                          FALSE, g).st,
                             f, g, indexInView)

EventEnabled == EventsNeedCurrentRow => CurSelItem(View) # NoObj

(* A folder f is created under p, which is an account root or a folder.    *)
FolderAdded(f, p) ==
    /\ EventEnabled
    /\ f \in NewFolderIds \ DOMAIN store
    /\ p \in Roots \cup (DOMAIN store \cap FolderIds)
    /\ CanAllocate(heap)
    /\ store' = store @@ (f :> p)
    /\ SetView(FolderAddedHandler(View, store @@ (f :> p), p))

(* A folder f holding no subfolder is deleted, its feeds with it.          *)
FolderDeleted(f) ==
    /\ EventEnabled
    /\ f \in DOMAIN store \cap FolderIds
    /\ StoreChildren(store, f) \cap FolderIds = {}
    /\ store' = [n \in DOMAIN store \ ({f} \cup StoreChildren(store, f)) |-> store[n]]
    \* the deleted folder object still knows its account: look it up in the
    \* store as it was
    /\ SetView(FolderDeletedHandler(View, store, f))

(* A folder f holding no subfolder is renamed to g: its feeds move to g.   *)
(* (Renaming a folder with subfolders changes their URIs too.)            *)
RenamedStore(f, g) ==
    [n \in (DOMAIN store \ {f}) \cup {g} |->
        IF n = g THEN store[f] ELSE IF store[n] = f THEN g ELSE store[n]]

FolderRenamed(f, g) ==
    /\ EventEnabled
    /\ f \in DOMAIN store \cap FolderIds
    /\ g \in NewFolderIds \ DOMAIN store
    /\ StoreChildren(store, f) \cap FolderIds = {}
    /\ CanAllocate(heap)
    /\ store' = RenamedStore(f, g)
    /\ SetView(FolderRenamedHandler(View, RenamedStore(f, g) @@ (f :> store[f]), f, g))

EventNext ==
    \/ \E f \in NewFolderIds, p \in Roots \cup FolderIds : FolderAdded(f, p)
    \/ \E f \in FolderIds : FolderDeleted(f)
    \/ \E f \in FolderIds, g \in NewFolderIds : FolderRenamed(f, g)

Next == UserNext \/ EventNext

Spec == Init /\ [][Next]_vars

-----------------------------------------------------------------------------
(* Properties of the reconciliation.                                       *)

ShownUrls(st) == {st.heap[st.rows[i]].url : i \in 1..Len(st.rows)}

OpenShownFolders(st) ==
    {st.heap[st.rows[i]].url : i \in {j \in 1..Len(st.rows) :
                                   st.heap[st.rows[j]].container /\ st.heap[st.rows[j]].open}}

(* The steps that are store events: only the folder listener's events    *)
(* change which folders the store holds; a rename drops one and adds one *)
(* under the same parent (a move, in FeedMoveCopy, changes the parent).  *)
FoldersAdded == (DOMAIN store' \ DOMAIN store) \cap FolderIds
FoldersDropped == (DOMAIN store \ DOMAIN store') \cap FolderIds
AddStep == FoldersAdded # {} /\ FoldersDropped = {}
DeleteStep == FoldersDropped # {} /\ FoldersAdded = {}
RenameStep ==
    /\ FoldersAdded # {} /\ FoldersDropped # {}
    /\ \A f \in FoldersDropped, g \in FoldersAdded : store'[g] = store[f]

(* "Restore the previously-current selection target by identity key after *)
(* reconciliation": after a folder is added, the current row shows the     *)
(* same folder or feed as before.                                          *)
AddKeepsCurrent ==
    [][AddStep /\ CurUrl(View) # NoFolder => CurUrl(View') = CurUrl(View)]_vars

(* Adding a folder keeps the expansion state of the other branches: every *)
(* folder shown open before the event is still shown open after it.      *)
AddKeepsExpansion ==
    [][AddStep => OpenShownFolders(View) \subseteq OpenShownFolders(View')]_vars

(* Deleting a folder that is neither the current row nor holds it leaves   *)
(* the current row on the same folder or feed.                             *)
DeleteKeepsUnrelatedCurrent ==
    [][DeleteStep /\ CurUrl(View) \in Roots \cup DOMAIN store'
         => CurUrl(View') = CurUrl(View)]_vars

(* The 1-based row showing url x, or 0 when x is not shown.               *)
RowOfUrl(st, x) ==
    LET I == {i \in 1..Len(st.rows) : st.heap[st.rows[i]].url = x}
    IN  IF I = {} THEN 0 ELSE CHOOSE i \in I : TRUE

(* The url of the item after the one shown at row i among its parent's    *)
(* children in the item tree, or NoFolder when it is the last child.      *)
NextSiblingUrl(st, i) ==
    LET o == st.rows[i]
        P == {p \in DOMAIN st.heap : \E k \in 1..Len(st.heap[p].children) : st.heap[p].children[k] = o}
        C == st.heap[CHOOSE p \in P : TRUE].children
        k == CHOOSE k \in 1..Len(C) : C[k] = o
    IN  IF P = {} \/ k = Len(C) THEN NoFolder ELSE st.heap[C[k + 1]].url

(* removeItemAtIndex selects "the next sibling or, if none, the previous  *)
(* row" (spec 4.2), and clears the selection only past the last row.      *)
(* When removeFeed or folderDeleted takes away the current row, or the    *)
(* folder that holds it, some row is current afterwards: the host tree    *)
(* has reset the current index for the removed rows, and the select at    *)
(* line 334 picks a row that still exists, the last row included.         *)
RemoveKeepsSelection ==
    [][DOMAIN store' \subseteq DOMAIN store /\ CurUrl(View) \in DOMAIN store \ DOMAIN store'
         => CurUrl(View') # NoFolder]_vars

(* The comment at lines 330-332: "If the item is the last child, select   *)
(* the parent.  Otherwise select the next sibling."  When the current    *)
(* row, or the folder that holds it, is removed, the new current row is   *)
(* the removed item's next sibling, or else its parent.  The code selects *)
(* the row above instead: a previous sibling, or a row inside its open    *)
(* subtree.                                                                *)
RemoveSelectsSiblingOrParent ==
    [][DOMAIN store' \subseteq DOMAIN store =>
         \A x \in DOMAIN store \ DOMAIN store' :
            LET i == RowOfUrl(View, x) IN
            /\ store[x] \in Roots \cup DOMAIN store'
            /\ i > 1
            /\ CurUrl(View) \in DOMAIN store \ DOMAIN store'
            => CurUrl(View') = IF NextSiblingUrl(View, i) # NoFolder
                               THEN NextSiblingUrl(View, i)
                               ELSE store[x]]_vars

(* folderRenamed restores the selection after rebuilding the renamed      *)
(* folder's item: the current row shows the same folder or feed as        *)
(* before, and when it was the renamed folder, that folder under its new  *)
(* URI.                                                                    *)
RenameKeepsCurrent ==
    [][RenameStep /\ CurUrl(View) # NoFolder =>
         CurUrl(View') = IF CurUrl(View) \in FoldersDropped
                         THEN CHOOSE g \in FoldersAdded : TRUE
                         ELSE CurUrl(View)]_vars

=============================================================================
