---------------------------- MODULE FeedMoveCopy ----------------------------
(***************************************************************************)
(* FolderListener.folderMoveCopyCompleted(aMove, aSrcFolder, aDestFolder) *)
(* for a folder move.  aDestFolder is the folder the source was moved     *)
(* into.  The notification runs in two steps on the main thread:          *)
(*                                                                         *)
(*  - MoveNotified: it captures the current item, the source and          *)
(*    destination rows, the destination's parent row and whether the      *)
(*    current row is the source or inside it, and then runs folderDeleted *)
(*    on the source.  It schedules the rest with setTimeout(.., 50).      *)
(*  - MoveSettled: the timer callback rebuilds the destination's item,    *)
(*    collapses and reopens the captured parent row, and reselects.       *)
(*                                                                         *)
(* Between the two, the user keeps acting on the dialog.  Other folder    *)
(* events are serialised with the move (spec 4.3), so they wait for the   *)
(* timer; one move is in flight at a time.                                 *)
(***************************************************************************)
EXTENDS FeedFolderListener

CONSTANTS
    NoPending,          \* no settle timer is scheduled
    UserActsDuringSettle \* the user may act between the notification and the timer

ASSUME UserActsDuringSettle \in BOOLEAN

VARIABLE pending        \* the settle timer's closure, or NoPending

mvars == <<vars, pending>>

(* The closure the timer captures.  cur is a snapshot of curSelItem: the  *)
(* fields the callback reads (its open flag could differ only if the user *)
(* toggled that very row during the delay), or NoPending when no row was  *)
(* current.                                                               *)
TimerClosure == [src : FolderIds, dest : Roots \cup FolderIds, open : BOOLEAN,
            select : BOOLEAN, parentIndex : Int,
            cur : {NoPending} \cup [url : Nodes, open : BOOLEAN, container : BOOLEAN,
                                pf : Roots \cup FolderIds \cup {NoFolder}]]

(* The store after folder f (holding no subfolder) moves into d as g: its *)
(* feeds follow it.                                                         *)
MovedStore(f, d, g) ==
    [n \in (DOMAIN store \ {f}) \cup {g} |->
        IF n = g THEN d ELSE IF store[n] = f THEN g ELSE store[n]]

(* The synchronous part of folderMoveCopyCompleted(true, f, d), after the *)
(* store has moved f into d as g.                                         *)
MoveNotified(f, d, g) ==
    /\ pending = NoPending
    /\ EventEnabled
    /\ f \in DOMAIN store \cap FolderIds
    /\ StoreChildren(store, f) \cap FolderIds = {}
    /\ d \in (Roots \cup (DOMAIN store \cap FolderIds)) \ {f, store[f]}
    /\ g \in NewFolderIds \ DOMAIN store
    /\ LET st          == View
           curSel      == CurSelItem(st)
           indexInView == GetItemInViewIndex(st, f)
           open        == indexInView # NullIdx \/ GetItemInViewIndex(st, d) # NullIdx
           \* aDestFolder.parent || aDestFolder
           parentIndex == GetItemInViewIndex(st, IF d \in Roots THEN d ELSE store[d])
           select      == \/ indexInView = st.cur
                          \/ IsIndexChildOfParentIndex(st, indexInView, st.cur)
       IN  pending' = [src |-> f, dest |-> d, open |-> open, select |-> select,
                       parentIndex |-> parentIndex,
                       cur |-> IF curSel = NoObj THEN NoPending
                               ELSE [url |-> st.heap[curSel].url,
                                     open |-> st.heap[curSel].open,
                                     container |-> st.heap[curSel].container,
                                     pf |-> st.heap[curSel].pf]]
    /\ store' = MovedStore(f, d, g)
    \* this.folderDeleted(aSrcFolder); the folder object still knows its
    \* account, so the old store answers that lookup
    /\ SetView(FolderDeletedHandler(View, store, f))

(* The timer callback's reselection, after the rebuild.  A feed is found  *)
(* from the subscription's folder in the store; when the feed is gone,    *)
(* getChildWithURI yields null and selectFolder(null) throws, which ends  *)
(* the callback.                                                          *)
(* Mutant: every current folder is replaced by the destination.          *)
MoveReselectAlwaysDest(s2, sp, c) ==
    IF c.cur.container
    THEN SelectFolder(s2, sp, c.dest, NullIdx, TRUE, TRUE, FALSE, NoFolder).st
    ELSE IF c.cur.url \notin DOMAIN sp THEN s2
    ELSE SelectFeed(s2, sp, sp[c.cur.url], c.cur.url, NullIdx)

MoveReselect(s2, sp, c) ==
    IF c.cur.container
    THEN IF c.cur.url = c.src \/ c.select
         THEN SelectFolder(s2, sp, c.dest, NullIdx, TRUE, TRUE, FALSE, NoFolder).st
         ELSE SelectFolder(s2, sp, c.cur.url, NullIdx, TRUE, c.cur.open, FALSE, NoFolder).st
    ELSE IF c.cur.url \notin DOMAIN sp THEN s2
    ELSE SelectFeed(s2, sp, sp[c.cur.url], c.cur.url, NullIdx)

(* The rest of the callback after selectFolder rebuilt the destination's  *)
(* item (s1): the early return, else collapse and reopen the captured     *)
(* parent row, then reselect.                                             *)
MoveSettledRebuild(s1, sp, c) ==
    IF ~c.open \/ c.cur = NoPending THEN s1
    ELSE MoveReselect(ToggleOpenState(Toggle(s1, c.parentIndex), c.parentIndex), sp, c)

(* Mutant: the callback's selectFolder is not given newFolder.            *)
MoveSettledNoNewFolder ==
    /\ pending # NoPending
    /\ CanAllocate(heap)
    /\ pending' = NoPending
    /\ UNCHANGED store
    /\ SetView(MoveSettledRebuild(
                   SelectFolder(View, store, pending.dest, NullIdx, FALSE,
                                pending.open \/ pending.select, FALSE, NoFolder).st,
                   store, pending))

(* The settle timer fires.                                                 *)
MoveSettled ==
    /\ pending # NoPending
    /\ CanAllocate(heap)
    /\ pending' = NoPending
    /\ UNCHANGED store
    /\ SetView(MoveSettledRebuild(
                   SelectFolder(View, store, pending.dest, NullIdx, FALSE,
                                pending.open \/ pending.select, FALSE, pending.dest).st,
                   store, pending))

MInit == Init /\ pending = NoPending

MNext ==
    \/ UserNext /\ UNCHANGED pending /\ (UserActsDuringSettle \/ pending = NoPending)
    \/ pending = NoPending /\ EventNext /\ UNCHANGED pending
    \/ \E f \in FolderIds, d \in Roots \cup FolderIds, g \in NewFolderIds : MoveNotified(f, d, g)
    \/ MoveSettled

MSpec == MInit /\ [][MNext]_mvars

-----------------------------------------------------------------------------
(* Properties.                                                             *)

MTypeOK == TypeOK /\ (pending = NoPending \/ pending \in TimerClosure)

(* Between the notification and the timer the store holds the moved      *)
(* folder and the item tree does not yet; once the timer has run and no   *)
(* move is pending, the item tree mirrors the store again.                *)
SettledMatchesStore == pending = NoPending => ModelMatchesStore

(* The step the settle timer takes, and the URI the moved folder has now. *)
SettleStep == pending # NoPending /\ pending' = NoPending
MovedAs == CHOOSE g \in NewFolderIds \cap DOMAIN store : store[g] = pending.dest

(* Spec 7.7: when the moved folder was the current row, after the settle  *)
(* delay that folder, under its new URI, is the current row.              *)
MoveSelectsMovedFolder ==
    [][SettleStep /\ pending.cur # NoPending /\ pending.cur.url = pending.src
         => CurUrl(View') = MovedAs]_mvars

(* The settle timer reselects what was current at the notification: any  *)
(* folder or feed other than the moved folder itself is the current row   *)
(* again after the timer, a feed of the moved folder included.            *)
MoveKeepsOtherCurrent ==
    [][SettleStep /\ pending.cur # NoPending /\ pending.cur.url # pending.src
         => CurUrl(View') = pending.cur.url]_mvars

=============================================================================
