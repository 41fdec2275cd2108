---------------------------- MODULE FeedTreeView ----------------------------
(***************************************************************************)
(* The tree view of the feed-subscription dialog                           *)
(* (mailnews/extensions/newsblog/feed-subscriptions.js, FeedSubscriptions  *)
(* and its mView).                                                         *)
(*                                                                         *)
(* The dialog keeps a heap of item objects built by makeFolderObject and   *)
(* makeFeedObject: each item has a url, a level, an open flag, a container *)
(* flag, an ordered children list and, for a feed, its parent folder.      *)
(* mFeedContainers (here rows) is the sequence of items the tree shows;    *)
(* the account roots are its level-0 rows and the rest of the item tree is *)
(* reachable from them through children.  The XUL tree's selection keeps   *)
(* a current index (cur) and a selected range (sel), which the tree shifts *)
(* whenever the view reports rowCountChanged.                              *)
(*                                                                         *)
(* The folder store that the items mirror is the variable store: a         *)
(* function from every present non-root folder or feed to its parent       *)
(* folder.  Folders and feeds are identified by their URI (a number: the   *)
(* numbers order names, so sorting by number is sorting by name).          *)
(*                                                                         *)
(* An item object is a model value of Obj; makeFolderObject allocates      *)
(* fresh ones, and objects no longer reachable from the rows are           *)
(* collected after every step, as the JS garbage collector would.          *)
(***************************************************************************)
EXTENDS Integers, Sequences, SequencesExt, FiniteSets, TLC

CONSTANTS
    Roots,        \* URIs of the feed account root folders
    RootOrder,    \* the order FeedUtils.getAllRssServerRootFolders lists them
    FolderIds,    \* URIs a non-root folder may have
    FeedIds,      \* feed URLs
    InitStore,    \* the store when the dialog opens: node -> parent folder
    Obj,          \* object identities available to the heap
    NoObj,        \* null / undefined item
    NoSel,        \* the tree selection holds no range
    NullIdx,      \* JS null where the code expects a row index
    NoFolder      \* no folder (null argument)

ASSUME Roots \cap FolderIds = {} /\ FeedIds \cap (Roots \cup FolderIds) = {}
ASSUME RootOrder \in Seq(Roots) /\ ToSet(RootOrder) = Roots
ASSUME NoObj \notin Obj /\ NullIdx \in Int /\ NullIdx < -100

VARIABLES
    rows,      \* FeedSubscriptions.mFeedContainers: Seq(Obj)
    heap,      \* the item objects: Obj -> item record
    rowCount,  \* mView.mRowCount
    cur,       \* mView.selection.currentIndex
    sel,       \* the selected row of mView.selection (single selection)
    store      \* the folder/feed store: node -> parent folder

viewVars == <<rows, heap, rowCount, cur, sel>>
vars == <<rows, heap, rowCount, cur, sel, store>>

Nodes == Roots \cup FolderIds \cup FeedIds

Item == [url : Nodes, level : Nat, open : BOOLEAN, container : BOOLEAN,
         children : Seq(Obj), pf : Roots \cup FolderIds \cup {NoFolder}]

(* The state of the view as one record, so that the code's helper calls    *)
(* can be composed as functions from a view state to a view state.        *)
View == [rows |-> rows, heap |-> heap, rc |-> rowCount, cur |-> cur, sel |-> sel]

-----------------------------------------------------------------------------
(* The folder store (the external collaborator).                           *)

(* A finite set of numbers in ascending order.                             *)
Ascending(S) ==
    [i \in 1..Cardinality(S) |-> CHOOSE x \in S : Cardinality({y \in S : y < x}) = i - 1]

StoreChildren(sp, f) == {n \in DOMAIN sp : sp[n] = f}

RECURSIVE Subtree(_, _)
Subtree(sp, f) == {f} \cup UNION {Subtree(sp, c) : c \in StoreChildren(sp, f)}

(* Mutant: depth counted from -1 (an off-by-one in the levels).            *)
RECURSIVE DepthBelowFromMinusOne(_, _, _)
DepthBelowFromMinusOne(sp, f, n) ==
    IF n = f THEN -1 ELSE 1 + DepthBelowFromMinusOne(sp, f, sp[n])

RECURSIVE DepthBelow(_, _, _)
DepthBelow(sp, f, n) == IF n = f THEN 0 ELSE 1 + DepthBelow(sp, f, sp[n])

RECURSIVE RootOf(_, _)
RootOf(sp, n) == IF n \in Roots THEN n ELSE RootOf(sp, sp[n])

-----------------------------------------------------------------------------
(* Row helpers of mView.  Row indices are the code's 0-based indices.      *)

GetItemAtIndex(st, i) ==
    IF i >= 0 /\ i < Len(st.rows) THEN st.rows[i + 1] ELSE NoObj

Lvl(st, i) == st.heap[st.rows[i + 1]].level

GetParentIndex(st, r) ==
    LET o == GetItemAtIndex(st, r)
        C == IF o = NoObj THEN {}
             ELSE {i \in 0..r : Lvl(st, i) < st.heap[o].level}
    IN  IF C = {} THEN -1 ELSE Max(C)

HasNextSibling(st, r, after) ==
    LET lv == Lvl(st, r)
        J  == {i \in (after + 1)..(Len(st.rows) - 1) : Lvl(st, i) <= lv}
    IN  J # {} /\ Lvl(st, Min(J)) = lv

IsIndexChildOfParentIndex(st, r, c) ==
    LET o == GetItemAtIndex(st, r)
    IN  IF o = NoObj \/ c <= r THEN FALSE
        ELSE LET B    == {i \in (r + 1)..(Len(st.rows) - 1) :
                             Lvl(st, i) <= st.heap[o].level}
                 stop == IF B = {} THEN Len(st.rows) ELSE Min(B)
             IN  c < stop

GetItemInViewIndex(st, u) ==
    LET C == {i \in 0..(st.rc - 1) :
                 /\ GetItemAtIndex(st, i) # NoObj
                 /\ st.heap[st.rows[i + 1]].container
                 /\ st.heap[st.rows[i + 1]].url = u}
    IN  IF C = {} THEN NullIdx ELSE Min(C)

(* The item the tree's current index designates (mView.currentItem).       *)
CurSelItem(st) == GetItemAtIndex(st, st.cur)

(* What the current row shows: the URI of its folder or feed.  Object     *)
(* names are not comparable across a store event, which renames them.     *)
CurUrl(st) == IF CurSelItem(st) = NoObj THEN NoFolder ELSE st.heap[CurSelItem(st)].url

-----------------------------------------------------------------------------
(* The XUL tree selection.  rowCountChanged(index, count) makes the tree   *)
(* shift the selection as nsTreeSelection.AdjustSelection does: a removal  *)
(* that covers the current index resets it to -1 and drops the range.      *)

AdjustIndex(x, idx, cnt, gone) ==
    IF x \in {-1, NoSel} \/ idx > x THEN x
    ELSE IF cnt < 0 /\ x <= idx - cnt - 1 THEN gone
    ELSE x + cnt

RowCountChanged(st, idx, cnt) ==
    IF cnt = 0 THEN st
    ELSE [st EXCEPT !.cur = AdjustIndex(@, idx, cnt, -1),
                    !.sel = AdjustIndex(@, idx, cnt, NoSel)]

SelSelect(st, i) == [st EXCEPT !.cur = i, !.sel = i]

ClearSelection(st) == [st EXCEPT !.sel = NoSel]

-----------------------------------------------------------------------------
(* Building items: makeFolderObject, makeFeedObject and folderItemSorter.  *)

(* folderItemSorter: by name, then containers before leaves.               *)
ItemBefore(a, b) ==
    \/ a.container /\ ~b.container
    \/ a.container = b.container /\ a.url < b.url

(* Mutant: only the name pass of folderItemSorter.                        *)
FolderItemSorterByName(h, s) == SortSeq(s, LAMBDA a, b : h[a].url < h[b].url)

FolderItemSorter(h, s) == SortSeq(s, LAMBDA a, b : ItemBefore(h[a], h[b]))

(* makeFolderObject(folder, level): fresh items for the folder's whole     *)
(* store subtree, folders recursively and then its feeds, children sorted. *)
MakeFolderObject(h, sp, f, level) ==
    LET N     == Subtree(sp, f)
        ns    == Ascending(N)
        fs    == Ascending(Obj \ DOMAIN h)
        alloc == [n \in N |-> fs[CHOOSE i \in 1..Len(ns) : ns[i] = n]]
        new   == [o \in {alloc[n] : n \in N} |->
                    LET n == CHOOSE m \in N : alloc[m] = o
                    IN  [url       |-> n,
                         level     |-> level + DepthBelow(sp, f, n),
                         open      |-> FALSE,
                         container |-> n \notin FeedIds,
                         pf        |-> IF n \in FeedIds THEN sp[n] ELSE NoFolder,
                         children  |-> <<>>]]
        h1    == h @@ new
        h2    == [o \in DOMAIN h1 |->
                    IF o \in DOMAIN new
                    THEN [h1[o] EXCEPT !.children =
                            FolderItemSorter(h1,
                              Ascending({alloc[c] : c \in StoreChildren(sp, h1[o].url)}))]
                    ELSE h1[o]]
    IN  [heap |-> h2, obj |-> alloc[f]]

(* There are enough free objects to build the largest subtree.            *)
CanAllocate(h) == Cardinality(Obj \ DOMAIN h) >= Cardinality(Nodes)

-----------------------------------------------------------------------------
(* mView.toggle and mView.toggleOpenState.                                 *)

(* addDescendants: the rows an opened item shows, by its children's open   *)
(* flags.                                                                  *)
RECURSIVE AddDescendants(_, _)
AddDescendants(h, o) ==
    FlattenSeq([i \in 1..Len(h[o].children) |->
                  LET c == h[o].children[i]
                  IN  <<c>> \o (IF h[c].open THEN AddDescendants(h, c) ELSE <<>>)])

(* Mutant: collapsing also takes the following rows of the same level.    *)
DeeperRowsSameLevel(st, r) ==
    LET lv == Lvl(st, r)
        n  == Len(st.rows)
    IN  CHOOSE k \in 0..(n - r - 1) :
            /\ \A j \in 1..k : Lvl(st, r + j) >= lv
            /\ (r + k + 1 >= n \/ Lvl(st, r + k + 1) < lv)

(* The number of contiguous rows after row r whose level exceeds its own.  *)
DeeperRows(st, r) ==
    LET lv == Lvl(st, r)
        n  == Len(st.rows)
    IN  CHOOSE k \in 0..(n - r - 1) :
            /\ \A j \in 1..k : Lvl(st, r + j) > lv
            /\ (r + k + 1 >= n \/ Lvl(st, r + k + 1) <= lv)

ToggleDelta(st, r) ==
    LET o == GetItemAtIndex(st, r)
    IN  IF st.heap[o].open THEN -DeeperRows(st, r)
        ELSE Len(AddDescendants(st.heap, o))

Toggle(st, r) ==
    LET o == GetItemAtIndex(st, r)
    IN  IF o = NoObj THEN st
        ELSE LET d     == ToggleDelta(st, r)
                 rows2 == IF st.heap[o].open
                          THEN SubSeq(st.rows, 1, r + 1)
                                 \o SubSeq(st.rows, r + 2 - d, Len(st.rows))
                          ELSE SubSeq(st.rows, 1, r + 1)
                                 \o AddDescendants(st.heap, o)
                                 \o SubSeq(st.rows, r + 2, Len(st.rows))
             IN  RowCountChanged([st EXCEPT !.rows = rows2,
                                            !.rc = @ + d,
                                            !.heap[o].open = ~@], r, d)

(* toggleOpenState's restore of the current index it saved before toggle  *)
(* (c), once toggle has changed the rows by d and told the tree.           *)
(* Mutant: the current row is shifted also when it is the toggled row.     *)
RestoreSelectionAtOrAfter(s1, r, c, d) ==
    IF c >= r THEN [s1 EXCEPT !.cur = c + d] ELSE SelSelect(s1, c)

RestoreSelection(s1, r, c, d) ==
    IF c > r THEN [s1 EXCEPT !.cur = c + d] ELSE SelSelect(s1, c)

ToggleOpenState(st, r) ==
    IF GetItemAtIndex(st, r) = NoObj THEN st
    ELSE RestoreSelection(Toggle(st, r), r, st.cur, ToggleDelta(st, r))

-----------------------------------------------------------------------------
(* mView.removeItemAtIndex(aRow, aNoSelect).                               *)

(* Mutant: the item is left in its parent's children.                     *)
DetachNone(s1, r, o) == s1

(* The removed item o is spliced out of its parent's children.            *)
Detach(s1, r, o) ==
    LET pi == GetParentIndex(s1, r)
        p  == GetItemAtIndex(s1, pi)
    IN  IF pi # -1 /\ p # NoObj
        THEN [s1 EXCEPT !.heap[p].children = RemoveFirst(@, o)]
        ELSE s1

(* Mutant: the bound at line 334 taken as strict.                         *)
SelectAfterRemoveStrict(s3, r, hn, noSelect) ==
    IF noSelect THEN s3
    ELSE IF r < Len(s3.rows) THEN SelSelect(s3, IF hn THEN r ELSE r - 1)
    ELSE ClearSelection(s3)

(* The selection after the row is gone: the next sibling, else the row    *)
(* above, unless the caller selects later (noSelect).                     *)
SelectAfterRemove(s3, r, hn, noSelect) ==
    IF noSelect THEN s3
    ELSE IF r <= Len(s3.rows) THEN SelSelect(s3, IF hn THEN r ELSE r - 1)
    ELSE ClearSelection(s3)

(* Removal of row r (item o) from the view, the container already closed. *)
RemoveRow(s1, r, o, noSelect) ==
    SelectAfterRemove(
        RowCountChanged([Detach(s1, r, o) EXCEPT !.rows = RemoveAt(@, r + 1),
                                                 !.rc = @ - 1], r, -1),
        r, HasNextSibling(s1, r, r), noSelect)

(* Mutant: an open container is removed without being collapsed first.    *)
RemoveItemAtIndexNoCollapse(st, r, noSelect) ==
    LET o == GetItemAtIndex(st, r)
    IN  IF o = NoObj THEN st ELSE RemoveRow(st, r, o, noSelect)

RemoveItemAtIndex(st, r, noSelect) ==
    LET o == GetItemAtIndex(st, r)
    IN  IF o = NoObj THEN st
        ELSE RemoveRow(IF st.heap[o].container /\ st.heap[o].open
                       THEN ToggleOpenState(st, r) ELSE st,
                       r, o, noSelect)

-----------------------------------------------------------------------------
(* selectFolder(aFolder, aParms).                                          *)

(* containsFolder's search: the items from o down to the item with url u,  *)
(* taking at each level the first container child that contains it.       *)
RECURSIVE FindPath(_, _, _)
FindPath(h, o, u) ==
    IF h[o].url = u THEN <<o>>
    ELSE LET cs   == h[o].children
             hits == {i \in 1..Len(cs) :
                        h[cs[i]].container /\ FindPath(h, cs[i], u) # <<>>}
         IN  IF hits = {} THEN <<>> ELSE <<o>> \o FindPath(h, cs[Min(hits)], u)

(* Set the open flag of the items S.                                       *)
SetOpen(h, S, b) == [x \in DOMAIN h |-> IF x \in S THEN [h[x] EXCEPT !.open = b] ELSE h[x]]

(* The start row: parentIndex if given, else the row of the folder's       *)
(* account root (rowCount when no row shows it).                          *)
StartIndex(st, sp, u, parentIndex) ==
    IF parentIndex # NullIdx THEN parentIndex
    ELSE LET C == {i \in 0..(st.rc - 1) :
                     /\ GetItemAtIndex(st, i) # NoObj
                     /\ st.heap[st.rows[i + 1]].url = RootOf(sp, u)}
         IN  IF C = {} THEN st.rc ELSE Min(C)

(* containsFolder(startItem): the path from the start item so to the item  *)
(* with url u.  For an account root the start item is the fake            *)
(* "AccountRoot" item whose only child is so, so the path starts at so.    *)
SearchPath(st, u, so) ==
    IF so = NoObj \/ (u \in Roots /\ ~st.heap[so].container) THEN <<>>
    ELSE FindPath(st.heap, so, u)

(* The newFolder branch: the item kid found under q is replaced by m.obj,  *)
(* freshly built by makeFolderObject, keeping kid's open flag; the        *)
(* children are resorted, or, for an account root, the start row is      *)
(* replaced.  The ancestors S are opened.                                  *)
InsertNewFolder(st, m, q, kid, startIndex, newFolder, S) ==
    LET no == m.obj
        h1 == [m.heap EXCEPT ![no].open = st.heap[kid].open]
        h2 == IF newFolder \in Roots \/ q = NoObj THEN h1
              ELSE [h1 EXCEPT ![q].children = FolderItemSorter(h1, ReplaceAll(@, kid, no))]
    IN  [st EXCEPT !.heap = SetOpen(h2, S, TRUE),
                   !.rows = IF newFolder \in Roots THEN [@ EXCEPT ![startIndex + 1] = no]
                            ELSE @]

(* containsFolder's effect on the items along the path P: the found item  *)
(* is spliced out (removeIt), replaced (newFolder), or given openIt; the  *)
(* ancestors are opened when selectIt or openIt.                          *)
ContainsFolder(st, sp, u, startIndex, P, selectIt, openIt, removeIt, newFolder) ==
    LET isServer    == u \in Roots
        kids        == IF isServer THEN P ELSE Tail(P)     \* o_1 .. o_k
        k           == Len(kids)
        q           == IF isServer THEN (IF k = 1 THEN NoObj ELSE P[k - 1]) ELSE P[k]
        anc         == {kids[j] : j \in 1..(k - 1)}
        S           == IF selectIt \/ openIt THEN anc ELSE {}
    IN  IF P = <<>> \/ k = 0 THEN st
        ELSE IF removeIt THEN
          [st EXCEPT !.heap = SetOpen(IF q = NoObj THEN @
                                      ELSE [@ EXCEPT ![q].children = RemoveFirst(@, kids[k])],
                                      S, TRUE)]
        ELSE IF newFolder # NoFolder THEN
          InsertNewFolder(st,
                          MakeFolderObject(st.heap, sp, newFolder,
                                           IF q = NoObj THEN 0 ELSE st.heap[q].level + 1),
                          q, kids[k], startIndex, newFolder, S)
        \* found is already set when the found item's parent sees it, so it is
        \* opened like an ancestor, not given openIt
        ELSE [st EXCEPT !.heap = SetOpen(@, IF selectIt \/ openIt THEN anc \cup {kids[k]} ELSE {}, TRUE)]

(* selectFolder's last loop: find the folder's row, give it the open state *)
(* openIt asks for, and select it.                                         *)
SelectLoop(s, u, openIt) ==
    LET C == {i \in 0..(s.rc - 1) :
                /\ GetItemAtIndex(s, i) # NoObj
                /\ s.heap[s.rows[i + 1]].container
                /\ s.heap[s.rows[i + 1]].url = u}
    IN  IF C = {} THEN [st |-> s, hit |-> FALSE]
        ELSE LET i  == Min(C)
                 it == s.heap[s.rows[i + 1]]
             IN  [st  |-> SelSelect(IF it.children # <<>> /\ it.open # openIt
                                   THEN ToggleOpenState(s, i) ELSE s, i),
                  hit |-> TRUE]

(* The result L of the last loop, with whether the search found it.        *)
Found(L, found0) == [st |-> L.st, found |-> found0 \/ L.hit]

(* After containsFolder (s1, found0): the early returns, else rebuild the  *)
(* rows by closing (if open) and reopening the start row, then the loop.  *)
AfterSearch(s1, u, startIndex, so, found0, selectIt, openIt) ==
    LET started == u \in Roots \/ so # NoObj
        startOpen == u \notin Roots /\ so # NoObj /\ s1.heap[so].open
    IN  IF started /\ ~found0 THEN [st |-> s1, found |-> FALSE]
        ELSE IF ~selectIt THEN [st |-> s1, found |-> found0]
        ELSE IF ~started THEN Found(SelectLoop(s1, u, openIt), found0)
        ELSE Found(SelectLoop(ToggleOpenState(IF startOpen THEN Toggle(s1, startIndex) ELSE s1,
                                              startIndex), u, openIt), found0)

SelectFolderFrom(st, sp, u, startIndex, P, selectIt, openIt, removeIt, newFolder) ==
    AfterSearch(ContainsFolder(st, sp, u, startIndex, P, selectIt, openIt, removeIt, newFolder),
                u, startIndex, GetItemAtIndex(st, startIndex), P # <<>>, selectIt, openIt)

SelectFolder(st, sp, u, parentIndex, selectIt, openIt, removeIt, newFolder) ==
    LET startIndex == StartIndex(st, sp, u, parentIndex)
    IN  SelectFolderFrom(st, sp, u, startIndex,
                         SearchPath(st, u, GetItemAtIndex(st, startIndex)),
                         selectIt, openIt, removeIt, newFolder)

(* selectFeed's loop once selectFolder returned R: select the first row   *)
(* below the current one showing the feed url.                           *)
SelectFeedRow(R, url) ==
    LET s == R.st
        C == {i \in (s.cur + 1)..(s.rc - 1) :
                 GetItemAtIndex(s, i) # NoObj /\ s.heap[s.rows[i + 1]].url = url}
    IN  IF R.found /\ GetItemAtIndex(s, s.cur) # NoObj /\ C # {}
        THEN SelSelect(s, Min(C)) ELSE s

(* selectFeed(aFeed, aParentIndex) for a feed whose folder is not a root.  *)
SelectFeed(st, sp, folder, url, parentIndex) ==
    SelectFeedRow(SelectFolder(st, sp, folder, parentIndex, TRUE, TRUE, FALSE, NoFolder), url)

-----------------------------------------------------------------------------
(* Objects reachable from the rows; the rest is garbage.                  *)
RECURSIVE Closure(_, _)
Closure(h, S) ==
    LET N == S \cup UNION {ToSet(h[o].children) : o \in S}
    IN  IF N = S THEN S ELSE Closure(h, N)

(* The live objects in the order a pre-order walk from the rows meets them. *)
(* Object identities are only ever compared, so renaming the live objects *)
(* 1, 2, ... in this order (and dropping the garbage) yields an equivalent *)
(* state; it keeps TLC from telling apart states that differ only in which *)
(* free objects the allocator happened to take.                           *)
RECURSIVE PreOrder(_, _)
PreOrder(h, o) ==
    <<o>> \o FlattenSeq([i \in 1..Len(h[o].children) |-> PreOrder(h, h[o].children[i])])

Canon(st) ==
    LET walk == FlattenSeq([i \in 1..Len(st.rows) |-> PreOrder(st.heap, st.rows[i])])
        keep == Ascending({i \in 1..Len(walk) : \A j \in 1..(i - 1) : walk[j] # walk[i]})
        live == [i \in 1..Len(keep) |-> walk[keep[i]]]
        name == [o \in ToSet(live) |-> CHOOSE i \in 1..Len(live) : live[i] = o]
        ren(s) == [i \in 1..Len(s) |-> name[s[i]]]
    IN  [st EXCEPT !.rows = ren(@),
                   !.heap = [i \in 1..Len(live) |->
                               [st.heap[live[i]] EXCEPT !.children = ren(@)]]]

SetView(st0) ==
    \E st \in {Canon(st0)} :     \* evaluate the handler once
        /\ rows' = st.rows
        /\ heap' = st.heap
        /\ rowCount' = st.rc
        /\ cur' = st.cur
        /\ sel' = st.sel

-----------------------------------------------------------------------------
(* loadSubscriptions, then refreshSubscriptionView(aSelectFolder) as the   *)
(* dialog's onLoad schedules it; aSelectFolder is the folder the dialog    *)
(* was opened on, or none.                                                 *)
RECURSIVE LoadFrom(_, _, _)
LoadFrom(acc, sp, i) ==
    IF i > Len(RootOrder) THEN acc
    ELSE LET m == MakeFolderObject(acc.heap, sp, RootOrder[i], 0)
         IN  LoadFrom([heap |-> m.heap, rows |-> Append(acc.rows, m.obj)], sp, i + 1)

LoadSubscriptions(sp) ==
    LET L == LoadFrom([heap |-> <<>>, rows |-> <<>>], sp, 1)
    IN  [rows |-> L.rows, heap |-> L.heap, rc |-> Len(L.rows), cur |-> -1, sel |-> NoSel]

OpenableFolders(sp) == Roots \cup {n \in DOMAIN sp : n \in FolderIds}

Init ==
    /\ store = InitStore
    /\ \E f \in OpenableFolders(InitStore) \cup {NoFolder} :
          LET st0 == LoadSubscriptions(InitStore)
              st  == Canon(IF f = NoFolder THEN st0
                           ELSE SelectFolder(st0, InitStore, f, NullIdx,
                                             TRUE, TRUE, FALSE, NoFolder).st)
          IN  /\ rows = st.rows
              /\ heap = st.heap
              /\ rowCount = st.rc
              /\ cur = st.cur
              /\ sel = st.sel

-----------------------------------------------------------------------------
(* User actions.                                                           *)

(* A click on a row's twisty (non-empty containers) or Enter on the        *)
(* current row: the tree calls mView.toggleOpenState(row).                 *)
ToggleRow(r) ==
    LET o == GetItemAtIndex(View, r)
    IN  /\ o # NoObj
        /\ heap[o].container
        /\ heap[o].children # <<>> \/ r = cur
        /\ SetView(ToggleOpenState(View, r))
        /\ UNCHANGED store

(* A click on a row selects it.                                            *)
SelectRow(r) ==
    /\ r \in 0..(Len(rows) - 1)
    /\ SetView(SelSelect(View, r))
    /\ UNCHANGED store

(* removeFeed(aPrompt), the prompt (if any) accepted: FeedUtils.deleteFeed *)
(* unsubscribes the feed, then the row is removed from the view.           *)
RemoveFeed ==
    LET o == GetItemAtIndex(View, cur)
    IN  /\ sel # NoSel
        /\ o # NoObj
        /\ ~heap[o].container
        /\ store' = [n \in DOMAIN store \ {heap[o].url} |-> store[n]]
        /\ SetView(RemoveItemAtIndex(View, cur, FALSE))

UserNext ==
    \/ \E r \in 0..(Len(rows) - 1) : ToggleRow(r)
    \/ \E r \in 0..(Len(rows) - 1) : SelectRow(r)
    \/ RemoveFeed


ViewSpec == Init /\ [][UserNext]_vars

-----------------------------------------------------------------------------
(* Properties.                                                             *)

TypeOK ==
    /\ DOMAIN heap \subseteq Obj
    /\ heap \in [DOMAIN heap -> Item]
    /\ rows \in Seq(DOMAIN heap)
    /\ rowCount \in Int
    /\ cur \in Int
    /\ sel \in Int
    /\ DOMAIN store \subseteq FolderIds \cup FeedIds
    /\ \A n \in DOMAIN store : store[n] \in Roots \cup FolderIds

(* Reference definition of what the tree should show: each account root,  *)
(* then, if it is open, the pre-order of its children, recursively.       *)
RECURSIVE Shown(_, _)
Shown(h, o) ==
    <<o>> \o (IF h[o].open
              THEN FlattenSeq([i \in 1..Len(h[o].children) |-> Shown(h, h[o].children[i])])
              ELSE <<>>)

AccountRows == SelectSeq(rows, LAMBDA o : heap[o].level = 0)

ModelItems == Closure(heap, ToSet(AccountRows))

SortedStoreChildren(f) ==
    LET C == StoreChildren(store, f)
    IN  Ascending(C \ FeedIds) \o Ascending(C \cap FeedIds)

(* The row cache is exactly the visible part of the item tree: the rows    *)
(* are the pre-order of every account root through open items, and         *)
(* mRowCount is their number.  toggle, removeItemAtIndex and selectFolder  *)
(* each splice rows in place, so every one of them must keep this.         *)
ViewMatchesModel ==
    /\ rows = FlattenSeq([i \in 1..Len(AccountRows) |-> Shown(heap, AccountRows[i])])
    /\ rowCount = Len(rows)

(* The item tree mirrors the store: one tree per account, each folder      *)
(* item lists its store children sorted (folders first, by name), levels   *)
(* grow by one, and each feed item names the folder that holds it.  This   *)
(* is what the dialog offers the user to act on.                           *)
ModelMatchesStore ==
    /\ {heap[o].url : o \in ToSet(AccountRows)} = Roots
    /\ \A o \in ModelItems :
        LET it == heap[o] IN
        /\ it.url \in Roots \cup DOMAIN store
        /\ it.container =>
              /\ [i \in 1..Len(it.children) |-> heap[it.children[i]].url]
                    = SortedStoreChildren(it.url)
              /\ \A i \in 1..Len(it.children) : heap[it.children[i]].level = it.level + 1
        /\ ~it.container => it.pf = store[it.url]

(* A toggle is the step that flips an item's open flag and leaves the     *)
(* store alone.  Canonical object names follow the pre-order walk, which a *)
(* toggle does not change, so the toggled item keeps its name.             *)
ToggleStep == UNCHANGED store /\ heap' # heap

Toggled == CHOOSE o \in DOMAIN heap : heap[o].open # heap'[o].open

(* toggleOpenState saves the current index and restores it after the rows  *)
(* below it move ("ensuring selection is maintained on toggles"): when the *)
(* current item is still shown after a toggle, it is still current.        *)
ToggleKeepsCurrentItem ==
    [][ToggleStep =>
         LET before == CurSelItem(View)
         IN  before # NoObj /\ before \in ToSet(rows')
               => CurSelItem(View') = before]_vars

(* When a toggle hides the current item (it was inside the collapsed       *)
(* folder), the current row becomes that folder or no row at all; it never *)
(* moves to an unrelated row.                                              *)
ToggleNeverRetargets ==
    [][ToggleStep =>
         LET before == CurSelItem(View)
         IN  before # NoObj /\ before \notin ToSet(rows')
               => CurSelItem(View') \in {Toggled, NoObj}]_vars

=============================================================================
