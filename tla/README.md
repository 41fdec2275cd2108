# TLA+ models of the feed-subscription dialog

This directory holds TLA+ models of the feed-subscription dialog of Thunderbird's
news & blogs extension, `src/mailnews/extensions/newsblog/feed-subscriptions.js`
(the `FeedSubscriptions` object), and the TLC configurations that check them.
The other files under `src/` are test harnesses and an add-ons page patch. They
are listed in `PROJECT.json` as not modelled.

## The system

The dialog shows every feed account as a tree: account root folders, their
folders, and the feeds in each folder. The parts and how they interact:

- **Folder store.** The mail folders and feed subscriptions are owned by the
  rest of Thunderbird, outside this repository. The dialog reads from the store
  (`aFolder.subFolders`, `getFeedsInFolder`), and the store notifies it of
  changes through `FolderListener`.
- **Item model.** `makeFolderObject` / `makeFeedObject` build one JS object per
  folder and feed. Each object carries a `url`, a `level`, an `open` flag, a
  `container` flag and a `children` array sorted by `folderItemSorter`
  (containers first, then by name). `loadSubscriptions` builds one tree per
  account.
- **Row cache.** `mFeedContainers` and `mView.mRowCount` hold the visible rows:
  the pre-order of each account tree through open items. `mView` is the
  `nsITreeView` the XUL tree reads. `toggle` and `toggleOpenState` splice rows in
  and out. `removeItemAtIndex` removes a row and its item.
- **Tree selection.** The host tree widget keeps a current index and a selected
  range. Whenever the view calls `rowCountChanged(index, count)`, the widget
  shifts them, or drops them when the change covers them. This is Gecko's
  `nsTreeSelection::AdjustSelection`.
- **Search.** `selectFolder` walks the item tree (`containsFolder`). It can open
  ancestors, splice an item out (`remove`), or rebuild a subtree (`newFolder`),
  and then rebuilds the rows by collapsing and reopening the account row.
  `selectFeed` selects a feed row below its folder.
- **Synchronisation.** `FolderListener.folderAdded`, `folderDeleted`,
  `folderRenamed` and `folderMoveCopyCompleted` reconcile the item tree, the rows
  and the selection after the store has changed.
- **User operations.** These are row clicks and twisty toggles, `removeFeed`, and
  `addFeed` / `updateFeed` / `moveCopyFeed`. The last three start a download
  whose callback (`mFeedDownloadCallback.downloaded`) updates the view.
- **OPML import/export.** Import is a timer-driven processor over an outline
  document. Export is a pre-order traversal.

All of it runs on the main thread. A handler runs to completion before the next
event, so each handler is one atomic step. Handlers interleave only between
steps. The exceptions are the explicit timers: `folderMoveCopyCompleted`'s 50 ms
settle delay, the OPML processor, and `onLoad`'s deferred first refresh. The
download callback is another.

## Modules

| module | models |
|---|---|
| `FeedTreeView` | item model, row cache, tree selection, `selectFolder`/`selectFeed`, initial load, user toggles, row clicks and `removeFeed` |
| `FeedFolderListener` | `folderAdded`, `folderDeleted` and `folderRenamed` as store events interleaved with the user actions (EXTENDS `FeedTreeView`) |
| `FeedMoveCopy` | `folderMoveCopyCompleted` for a folder move: the notification and its 50 ms settle timer as two steps (EXTENDS `FeedFolderListener`) |
| `FeedDownload` | `addFeed`, `updateFeed` and `mFeedDownloadCallback.downloaded`, with `mActionMode` and the downloads in flight (EXTENDS `FeedTreeView`) |
| `FeedSubscriptionStore` | the abstract promise of the dialog to the feeds database: requests in flight, and the store changed only by a successful request or a remove |
| `FeedDialog` | `onLoad`'s reset of `FeedUtils.CANCEL_REQUESTED` and `onClose`: the prompt, the cancel request and the end of the dialog, with the downloads of `FeedDownload` in flight (EXTENDS `FeedDownload`) |
| `FeedMoveFeed` | moving a feed by dragging it onto a folder (`canDrop`, `drop`) or by picking a folder (`setNewFolder`), and `moveCopyFeed`'s moves within and across accounts (EXTENDS `FeedDownload`) |
| `FeedQuickMode` | the summary (quickMode) setting: `setSummary`, the checkbox in `setFocus` and `updateFeedData`, `updateFolderQuickModeInView` and its callers `addFeed` with the download callback, `updateFeed`, `removeFeed` and `moveCopyFeed` within an account |
| `FeedOpmlDoc` | an outline document: elements with a tag, children, `type="rss"`, url, name and `fz:quickMode` |
| `FeedOpmlExport` | `exportOPML`, `generateOutlineStruct`, `generateOutlineList` and `exportOPMLOutline`, as operators that build the document from an account given by constants |
| `FeedOpmlImport` | `importOPML`, `importOPMLFile` and the `importOPMLOutlines` processor with its closure variables, up to `importOPMLStatus`'s report (`ImportOPMLStatus`) and `importOPMLFinished`'s reset of `mActionMode` |
| `FeedOpmlImportQueue` | the abstract promise of an import: feed outlines handled in document order, each subscribed at most once, the status reported when none is left |
| `FeedOpml` | export and import composed: an exported file imported again, and the refinement of `FeedOpmlImportQueue` |
| `MCFeedTreeView`, `MCFeedFolderListener`, `MCFeedMoveCopy`, `MCFeedDownload`, `MCFeedMoveFeed` | the constants for TLC: a small forest |
| `MCFeedQuickMode` | an account with folder A, its subfolder S and folder B, one feed in A and one in S, and a free url |
| `MCFeedOpml` | the exporting account and the hand-written documents for the import runs |

### FeedTreeView

State:

| variable | code |
|---|---|
| `rows` | `mFeedContainers`, a sequence of object names |
| `heap` | the item objects, from object name to `[url, level, open, container, children, pf]`; `pf` is a feed's `parentFolder` |
| `rowCount` | `mView.mRowCount` |
| `cur` | `mView.selection.currentIndex` |
| `sel` | the selected range (the dialog uses single selection): a row index, or `NoSel` |
| `store` | the folder store: from each non-root folder and each feed to its parent folder |

Every code helper is an operator from a view record `[rows, heap, rc, cur, sel]`
to a new one. A handler that calls several helpers is their composition inside
one action. The definitions keep the code's names: `GetItemAtIndex`,
`GetParentIndex`, `HasNextSibling`, `IsIndexChildOfParentIndex`,
`GetItemInViewIndex`, `Toggle`, `ToggleOpenState`, `RemoveItemAtIndex`,
`MakeFolderObject`, `FolderItemSorter`, `SelectFolder`, `SelectFeed` and
`LoadSubscriptions`. `PROJECT.json` maps each one to its lines.

`Init` is the first `refreshSubscriptionView(folder)` that `onLoad` schedules. It
loads the subscriptions and then calls `selectFolder(folder)` on the folder the
dialog was opened on, for every choice of that folder, or on none. The actions
are `ToggleRow(r)`, `SelectRow(r)` and `RemoveFeed`:

- `ToggleRow(r)` is the tree calling `toggleOpenState` on a twisty click, which
  needs a non-empty container, or on Enter on the current row.
- `SelectRow(r)` is a click.
- `RemoveFeed` is `removeFeed` with the prompt accepted: the store drops the feed
  and the row is removed.

Host behaviour that is not in this repository is modelled from Gecko's
documented semantics: `RowCountChanged` / `AdjustIndex` (a removal that covers
the index resets it, an insertion at or before it shifts it), `SelSelect`
(`select(i)` sets the current index and a one-row range, even for `i = -1`) and
`ClearSelection`.

### FeedFolderListener

`FolderAdded(f, p)` first adds folder `f` under `p` to the store, then runs
`FolderAddedHandler`, which is `folderAdded` whole:

1. Rebuild the parent's item through `selectFolder(newFolder)`.
2. Return early when the parent is not shown or no row is current.
3. Otherwise collapse and reopen the grandparent row.
4. Reselect the captured current item by URI.

`FolderDeleted(f)` first drops a folder without subfolders from the store, with
its feeds. It then runs `FolderDeletedHandler`, which is `folderDeleted` whole:
`selectFolder(remove)`, the early return when the folder is hidden or no row is
current, and `removeItemAtIndex` with or without reselection.

`FolderRenamed(f, g)` renames a folder without subfolders to a fresh URI `g`
(its feeds follow it) and runs `FolderRenamedHandler`, which is
`folderRenamed` whole: the rebuild of the parent's item, the collapse and
reopen, and the reselection that maps a current item inside the renamed folder
to its new URI.

The constant `EventsNeedCurrentRow` restricts store events to states in which a
row is current. With it `TRUE`, the `listener` run checks the handlers in the
case they are written for. With it `FALSE`, the `listener_stale` run shows what
happens otherwise.

### FeedMoveCopy

`pending` is the settle timer's closure, or `NoPending`. `MoveNotified(f, d, g)`
moves folder `f` into `d` as `g` in the store. It captures what the code
captures when notified (the current item's url, open and container flags, the
source and destination, `open`, `select` and the destination's parent row) and
runs `folderDeleted(f)`. `MoveSettled` is the timer callback:

1. `selectFolder(dest, {newFolder})` rebuilds the destination's item.
2. It returns early when nothing was open or no row was current.
3. Otherwise it collapses and reopens the captured parent row.
4. It reselects the captured item.

Other folder events wait while a move is pending. The spec serialises them
with the move (spec 4.3). The constant `UserActsDuringSettle` says whether row
clicks and toggles may run during the delay. They can in the dialog; the
passing run leaves them out, and the `move_race` run puts them in.

### FeedDownload

`mActionMode` is the code's field, with its numeric modes. `downloads` is the
set of downloads in flight, each with the feed's url and folder and the mode
(`aMode`, or `kVerifyUrlMode`) it was started in. It also has one history
field, `replaces`: the feed an update started from. The code keeps neither the
mode nor this field with the download (it has only the one `mActionMode`), and
only properties read them.

- `AddFeed(u)` is the Add button with url `u`. The folder is the current
  container row's. A url that is already subscribed is refused.
- `StartSubscribe(v, u)` is the part of `addFeed` both the Add button and a
  dropped url run: the checks and the download's start.
- `UpdateFeed(u)` is the Update button on the current feed row. With `u` equal
  to the feed's url it verifies the feed (`kVerifyUrlMode`). With a new url it is
  `addFeed(.., kUpdateMode)`.
- `DownloadAdded(d)`, `DownloadVerified(d)` and `DownloadFailed(d)` are the
  three outcomes of `downloaded`. The success branch reads the current row when
  it runs. It builds the new item under the row `selectFolder` made current, or
  under the current feed's parent. It pushes and resorts the item. In update
  mode it calls `removeFeed(false)`. Finally it calls `selectFeed`. The failure
  branch deletes the feed unless the mode is `kVerifyUrlMode`. Every outcome
  resets `mActionMode`.

`UserActsDuringDownload` says whether the user may act while a download is in
flight. `setFocus` re-enables the Add button on the next select, and editing the
location re-enables Update, so the code allows it. `MaxDownloads` bounds the
downloads in flight. Two downloads with the same url are not generated.

### FeedDialog

`closed` says the dialog has been dismissed and `cancelRequested` is
`FeedUtils.CANCEL_REQUESTED`, which `onLoad` clears (`CInit`). `OnClose` is
`onClose` when it dismisses the dialog: with `mActionMode` other than
`kSubscribeMode` at once, otherwise after the user confirms the prompt (a "no"
returns false and changes nothing, a stutter). It sets `cancelRequested` to
whether `mActionMode` is `kSubscribeMode`. What FeedUtils does with the request,
and a download callback that runs after the window closed, are outside this
repository, so once the dialog is closed nothing more happens (`Closed`, a
stuttering step, so a closed dialog is not a deadlock). The listener removal has
no state in this module. `MCFeedDownload` extends `FeedDialog`, so every
download run can close the dialog at any point.

A url dropped on the tree is two steps. `DropUrl(r, u)` is `mView.drop` on
folder row `r`: it selects the row and puts `addFeed(url, null, ..)` on a
`setTimeout(0)`, recorded in `dropTimer`. `DropTimerFires` is that timer: it
runs `StartSubscribe` from the row current when it fires, or, when `addFeed`
refuses (the url is subscribed, or the current row is no folder:
`AddFeedRefused`), changes nothing. The timer runs before the next user event
(user steps wait for it), but a download callback already queued may run
first. `onClose` is a user event too and waits for it.

### FeedMoveFeed

A drag starts from the one selected feed row (`onDragStart`) and is dropped on
a container row `r`. The tree offers `DROP_ON` only on containers.
`CanDropFeed` is `extractDragData`'s test. It refuses a drop, within the feed's
own account, onto the feed's folder or onto the account root. `drop` selects
`r` and calls `moveCopyFeed(cur, r, "move")`:

- `DropFeedWithinAccount(r)` is `MoveCopyWithin`: it sets the subscription's `destFolder` and runs
  `removeItemAtIndex(old, true)`. It decrements `aNewParentIndex` when the
  target was below, gives the item its new level and parent folder, and
  pushes it onto the new parent's children. It closes an open parent with
  `toggle` and then calls `selectFeed`.
- `DropFeedAcrossAccounts(r)` is `MoveCopyAcross`: `addFeed(url, newFolder, .., kMoveMode)`,
  which starts a download, then `FeedUtils.deleteFeed` of the old
  subscription, the row removal and `selectFolder(newFolder)`. FeedDownload's
  callback finishes the move.

`SetNewFolder(f)` is the folder picker's `setNewFolder`, allowed with one
feed row selected (`CanPickFolder`). `selectFolder(f)` opens and selects the
picked folder, and `selectFeed` reselects the feed (`PickedView`). The first
container row showing `f` is the new parent index, and
`moveCopyFeed(currentIndex, newParentIndex, "move")` runs on those rebuilt
rows. Nothing moves when `f` is not shown, is the feed's parent row, or is
its account row; the selection and expansion changes stay
(`PickFolderNoMove`). Otherwise the move is `MoveCopyWithin` or
`MoveCopyAcross`. The `feed_move` run checks the picker's moves with the same
properties as the drops.

Copies across accounts are not generated, because the store maps a url to one
folder. Same-account copies are refused by `canDrop`. Dropping a url, and
dropping onto another account's root, are not generated either: there
`FeedUtils` creates the folder, outside this repository.

### FeedQuickMode

The summary setting lives in three places: the feeds database keeps a
`quickMode` per feed (`quick`), the account keeps a default (`serverQuick`),
and each item of the view keeps a copy (`itemQuick`). `makeFolderObject`
gives a folder item the quickMode of its first feed, or the default when it
has none (`FolderQuickMode`, `MakeView`); `updateFeedData` copies the current
item's value into the checkbox (`Select`), and a new subscription is stored
with the checkbox's value. The module leaves rows out: an item is named by
its folder or url, and which row the selection lands on is
`FeedFolderListener`'s business (`RemoveFeed` lets it land on any remaining
item).

- `ToggleSummary` is a click on the checkbox, allowed where `setFocus`
  enables it (`SummaryEnabled`): on the account row, on a folder with feeds,
  or on a folder whose location field holds a url (`EditLocation`). It runs
  `SetSummary`, one disjunct per branch of `setSummary`: on the account the
  pref is set and `folderAdded(root)` rebuilds the account's items; on a
  folder with feeds the feeds' db values, the items of `item.children` and
  the folder's item take the new value.
- `AddFeed` is `addFeed`: the feed is kept with the checkbox's value and its
  download starts (`pending`). `DownloadSucceeded` is the callback's success
  branch, run against whatever row is current then, since the user may click
  meanwhile: a current folder holding the feed's folder is searched
  (`InTree`) and that folder's item becomes the parent; a current feed's
  folder item is the parent whatever the feed's folder is. `DownloadFailed`
  changes nothing but ends the download.
- `UpdateUrl`, `RemoveFeed` and `MoveFeed` are `updateFeed` with an edited
  url (the user waiting for its download, whose interleavings `FeedDownload`
  checks), `removeFeed` and `moveCopyFeed` within an account. Each, like the
  callback, runs `updateFolderQuickModeInView` (`AddedQuickMode`,
  `RemovedQuickMode`).

`Init` takes every database in which each folder's feeds agree, and either
default.

### OPML export and import

`FeedOpmlExport` builds the document an account exports. The account (its
folders, their parents, the Trash, each feed's folder and quickMode) is given
by constants. `StructKids` is `generateOutlineStruct`: a folder outline per
exportable folder with its subfolders' outlines first, then its feeds'.
`GenerateOutlineList` is the recursive `generateOutlineList`: every feed
outline directly in the `<body>`, a folder's subfolders' feeds before its own.
Trash and virtual folders are skipped with everything below them
(`Exportable`), and `exportOPML` writes no file when the `<body>` is empty
(`ExportedDocs`).

`FeedOpmlImport` keeps the processor's closure variables as state:
`feedFolder` (initially `Undef`, as the JS `let` leaves it),
`firstQuick` (`firstFeedInFolderQuickMode`), `feedsAdded`, `rssOutlines` and
`lastFolder`. `kids` is the document as the processor removes outlines from it,
and `call` is the scheduled `processor(aParentNode, aParentFolder)`. The
target account is its folder paths and its subscriptions (url to folder path
and quickMode). The actions:

- `Start` is `importOPML` up to the file read: `mActionMode` becomes
  `kImportingOPML`.
- `Loaded` is the read completing. A document whose `<body>` has no element is
  rejected and `mActionMode` reset. Otherwise the processor runs at once.
- `Timer` is the `setTimeout(0)` firing the next processor run.

`Processor(p, pf)` is one run of `processor`, on the first element child `o` of
`p`. It is a disjunction of the code's branches: a non-outline element
(`BadTag`); an rss outline without url (`FeedWithoutUrl`); an rss outline
whose url is subscribed (`FeedExists`), added (`FeedAdded`) or whose folder
`createFolder` could not make (`FeedFolderFailed`); a folder outline found
(`FolderFound`), created (`FolderCreated`), whose creation throws
(`FolderCreateFailed`) or throws after making the folder (`FolderCreateUndone`);
and a folder outline reached with an undefined parent folder
(`FolderInUndefined`). Each ends with `Continue`, the code's tail: a leaf or a
bad element is removed and the next run restarts from the `<body>` with the
root folder; otherwise the next run descends into `o`. An exception that
escapes the run is `Abort`: nothing is scheduled and the callback never
runs. When the `<body>` is empty, `Finished` reports and resets `mActionMode`.

`Feed.createFolder`, `feedAlreadyExists`, `addFeed` and `deleteFeed` are
FeedUtils code outside this repository. A feed whose parent outline is a
folder goes into that folder; any other feed gets a folder of its own name under
the root (`FeedTarget`).

`FeedOpml` maps the import onto `FeedOpmlImportQueue`: the abstract `queue` is
the urls of the rss outlines still in the document, in document order
(`PendingFeedUrls`), `subs` is the account's subscriptions and `reported` is
`phase = "done"`. A feed outline handled is a `Handle` step, a bad element or
failed folder dropped with feed outlines inside is a `Drop` step, and
`Finished` is `Report`. Steps that only descend into an outline or restart
from the `<body>` are stuttering steps of the queue.

## Abstractions

- **Names are numbers.** A folder or feed is identified by its URI, which is a
  number here. Numbers order names, so `folderItemSorter`'s name pass is `<` on
  numbers. Both passes are taken as the stable sort SpiderMonkey performs with
  the code's boolean comparators. The constants interleave folder and feed
  numbers so the containers-first pass matters.
- **Objects.** Item objects are numbers. `MakeFolderObject` allocates the lowest
  free ones. After every step the live objects are renamed 1, 2, ... in the
  order a pre-order walk from the rows meets them, and the rest are dropped
  (`Canon`). JS compares object identities but never orders them, so this
  renaming does not change behaviour. It keeps TLC from telling apart states
  that differ only in which free objects the allocator took. A toggle does not
  change the walk, so object names are stable across toggles. Store events
  rename objects, so properties about events compare URIs (`CurUrl`).
- **Null.** JS `null` as a row index is `NullIdx`, which differs from `-1`
  (`kRowIndexUndefined`). A `null` item is `NoObj`.
- **Left out.** Display names, quickMode, options, favicons, scrolling
  (`scrollToRow`, `ensureRowIsVisible`), status text and logging. No property is
  about them.
- **Store events** are restricted to creating a folder from `NewFolderIds` under
  an account root or an existing folder, and to deleting a folder that holds no
  subfolder. Deleting an account, or a folder with subfolders, is not generated.

## Runs

| run | expect | what it shows |
|---|---|---|
| `listener` | pass | This run uses `MCFeedMoveCopy`, which generates every folder event. With a current row, folder adds, deletes, renames and two-step moves, interleaved with user actions, keep `ViewMatchesModel`. Once no move is pending, the items mirror the store again (`SettledMatchesStore`). The current folder or feed stays current across an add (`AddKeepsCurrent`) and across a delete that does not contain it (`DeleteKeepsUnrelatedCurrent`). Across a rename it stays current, by its new URI when it was the renamed folder (`RenameKeepsCurrent`). The move timer reselects any current item other than the moved folder (`MoveKeepsOtherCurrent`). Removing the current feed, or deleting the folder that holds the current row, always leaves a row current, the last row included (`RemoveKeepsSelection`): the select at line 334 picks the next sibling or else the row above, as spec 4.2 says. |
| `listener_stale` | violation | When no row is current, `folderAdded` rebuilds the parent's item and returns. The rows keep the old objects, so the new folder is not shown until its parent is toggled again (`ViewMatchesModel`). `folderDeleted` has the same early return. |
| `move_race` | violation | A user toggle during the settle delay makes the captured `open` and parent row stale. The rebuilt destination item never reaches the rows (`ViewMatchesModel`). |
| `download` | pass | Row clicks, toggles and feed removals, and, when the user waits for each download, subscribing, updating and verifying, keep `ViewMatchesModel` and `ModelMatchesStore`. The rows equal the visible pre-order of the item tree and `mRowCount` is their number; the item tree mirrors the store, with children sorted, levels consistent and feed parents right. A successful subscribe or update leaves the new feed current (`AddedFeedIsCurrent`). The store changes only as `FeedSubscriptionStore` allows (`DownloadRefinesStore`): a successful subscribe adds the url in the folder it was started for, an update also drops exactly the feed it started from, a verify and every failure change nothing, and a remove takes out the removed feed. A toggle keeps a still-visible current item current (`ToggleKeepsCurrentItem`). The dialog can be closed at any point. |
| `download_wrong_feed` | violation | If the user clicks another feed while an update is in flight, the callback's `removeFeed(false)` unsubscribes the clicked feed, and the updated feed keeps its old url (`UpdateRemovesOnlyReplaced`). |
| `feed_move` | pass | Moving feeds by drag and drop or through the folder picker, within an account and into another account, keeps `ViewMatchesModel`. The items mirror the store up to the order of each folder's children (`ItemsMirrorStore`). A feed moved within its account is current afterwards, under its new folder (`MovedFeedIsCurrent`). |
| `feed_move_lost` | violation | A move across accounts deletes the old subscription as soon as the download starts. If the download fails, the feed is subscribed nowhere (`MoveFailureKeepsFeed`), contrary to the comment at lines 1840-1841. |
| `import` | pass | Importing the dialog's nested and flat exports, a hand-written file and an empty one, into an empty account and back into the exporting account, with folder creation allowed to fail. The processor always stops: the import finishes, is rejected or aborts (`ImportEnds`, under fairness). It implements `FeedOpmlImportQueue` (`ImportRefinesQueue`). After importing an export, every exported feed is subscribed in the folder of the same path, or in a folder of its own name for the flat list, unless the report shows fewer feeds added than found or the feed's folder is missing (`RoundTripRestores`). |
| `import_quickmode` | violation | In a folder holding a feed, a subfolder with a feed of the other quickMode, and another feed, the two feeds of the outer folder get different quickModes (`FolderQuickModeUniform`), against the comment at line 2972. |
| `import_hang` | violation | A `type="rss"` outline without url that holds a folder outline sends the processor into it with `feedFolder` undefined. `getChildNamed` throws, the exception escapes the timer, and `mActionMode` stays `kImportingOPML` (`ImportReportsBack`). |
| `summary_subfolder` | violation | `setSummary` on a folder writes the new value into every item of `item.children`, subfolders included. A feed then moved (or subscribed) into such a subfolder takes the subfolder item's stale value, and the subfolder's feeds disagree in the database (`FolderFeedsShareQuickMode`), against the comment at line 711. Three steps: check summary on A, select A's feed, drop it on S. With the loop restricted to the folder's feeds, TLC next finds the race at line 2011: while feed 15's download for A runs, the user selects S's feed, and the callback stores 15 with S's mode. With the user also waiting for the download, it finds no violation (7928 states). |
| `download_mode` | violation | A verify of a feed is followed by an update of it to a new url. If the verify download then fails, the callback reads `kUpdateMode` and deletes the feed being verified (`VerifyNeverUnsubscribes`). |

More disagreements are recorded as hazards in `PROJECT.json`, not as runs
of their own. Six of them keep their properties and configurations here, and
running them shows the violation:

- `MCFeedDownload_close.cfg` checks `CloseCancelsIffSubscribing` when the user
  may act during a download (two in flight). The user subscribes url 9 in
  folder 10, selects feed 11 and clicks Update, which verifies it and sets
  `mActionMode` to `kVerifyUrlMode`. Closing the dialog then neither asks nor
  requests the cancel, although the subscription of 9 is still in flight,
  against the comment at line 81. The verify completing first (which sets
  `mActionMode` to null) has the same effect.
- `MCFeedDownload_drop.cfg` checks `DropNotLost` with the same constants. While
  a verify of feed 11 is in flight (in TLC's trace, started after an update
  of 11 to url 9 that then failed), the user drops url 9 on a folder. The verify's callback
  runs before the drop's timer and selects feed 11, so `addFeed` finds no
  folder and returns false: the dropped url is silently not subscribed. In the
  passing run nothing can run between the drop and its timer.
- `MCFeedMoveCopy_moved.cfg` checks `MoveSelectsMovedFolder`. When the moved
  folder was current, the settle timer selects the destination folder, not
  the moved folder under its new URI, as spec 7.7 says.

- `MCFeedTreeView_toggle.cfg` checks `ToggleNeverRetargets`. Collapsing a
  folder whose visible subtree holds the current row moves the current index
  to an unrelated row above it, such as the root. This is the
  `currentSelectionIndex + rowsChanged` restore in `toggleOpenState`.
- `MCFeedFolderListener_expansion.cfg` checks `AddKeepsExpansion`. Adding a
  folder collapses the open subfolders of its parent, because
  `makeFolderObject` rebuilds them closed. Spec 4.3 says the expansion of
  unaffected branches is preserved.
- Deleting the current folder when it has no next sibling selects the row
  above it. When that is the last row of an open sibling folder's subtree,
  the selection lands inside that folder, while spec 4.3 asks for the
  nearest remaining sibling or else the parent. The code follows spec 4.2's
  rule for `removeRow`, not the comment at lines 330-332 ("if the item is
  the last child, select the parent"). `MCFeedMoveCopy_removeparent.cfg`
  checks that comment (`RemoveSelectsSiblingOrParent`): with folder 14
  current and the last child of the root, deleting 14 selects folder 10 above
  it, not the root.

- A download that completes when no row is current adds the feed to the store
  but never to the items. This is the early-return pattern of
  `listener_stale`.
- A feed moved within its account is appended to its new folder's children
  unsorted. `ModelMatchesStore`, which checks the order, fails on a move of
  feed 11 into folder 12. The `feed_move` run checks `ItemsMirrorStore`, which
  ignores the order.

Each property of a passing run has a mutant in `PROJECT.json`. A mutant is a
plausible bug in a mapped definition, defined next to it, and TLC shows that it
breaks the property:

- `DeeperRowsSameLevel` collapses one row too many.
- `DepthBelowFromMinusOne` computes levels off by one.
- `DetachNone` leaves a removed item in its parent's children.
- `RestoreSelectionAtOrAfter` uses `>=` for `>`.
- `ReselectNone` skips `folderAdded`'s reselection.
- `FolderDeletedRemoveAlwaysSelect` ignores `!select`.
- `RenameReselectOldUri` reselects a renamed folder by its old URI.
- `MoveSettledNoNewFolder` omits `newFolder` from the timer's `selectFolder`.
- `MoveReselectAlwaysDest` selects the destination for every current folder.
- `SelectAfterRemoveStrict` takes the bound at line 334 as `<`, so removing
  the last row clears the selection.
- `PushChildUnsorted` does not resort the children after the push.
- `PlaceNewItemSelectFirst` selects the new feed before `removeFeed(false)`.
- `RemoveCurrentFeedKeepStore` removes the row but keeps the subscription.
- `MoveItemKeepParentFolder` leaves a moved feed's item with its old
  `parentFolder`.
- `MoveWithinAccountOldFolder` looks for the moved feed under its old folder.
- `OutlineQuickNoDefault` reads `fz:quickMode` without the `hasAttribute` test.
- `FeedTargetAlwaysOwnFolder` gives every feed a folder of its own, as if its
  parent were never a folder outline.
- `ContinueKeepLeaf` does not remove a handled leaf before the restart.
- `FeedAddedNoExistsCheck` drops the `feedAlreadyExists` test.

## Bounds

`MCFeedTreeView` (for `MCFeedTreeView_toggle.cfg`) has one account with three
folders over three levels and four feeds. The names interleave folders and
feeds, so a collapse can hide an open subfolder holding the current row.

`MCFeedFolderListener` (the `listener_stale` run and
`MCFeedFolderListener_expansion.cfg`) and `MCFeedMoveCopy` (the `listener` run and the move
violation runs) share one forest. It is one account with folders 10 and 14
under the root, folder 12 under 10, and a feed in each of 10 and 12. One spare
folder URI can be created under the root, under a shown folder or under a
hidden one, so an add lands above, inside or beside the current row's branch.
A rename or a move gives a folder without subfolders that spare URI. A move
goes into the root or into another folder, shown or hidden. The `listener` run
reaches 8,500 states in about a minute.

`MCFeedDownload` has the listener's forest and one unsubscribed feed url, 9. It
sorts before the existing feeds, so pushing its item without resorting leaves
the children out of order. It can be subscribed in any folder, or replace
either feed's url in an update. The passing run has one download in flight and
reaches 4,640 states (half of them with the dialog closed). Removing the new feed when it sorts before feed 13 in
folder 12 removes a row with a next sibling, and removing 13 or 11 a last
child. `download_mode` needs two, a verify followed by an
update, and finds its trace in a few hundred states.

`MCFeedMoveFeed` has two accounts. Folder 10, with folder 12 under it, is in
the first, and the empty folder 20 in the second. Feed 11 is in 10 and feed 13
in 12, so moving 11 into 12 puts it after 13 unless the children are resorted.
The feeds can move between all three folders and back. The run reaches 3,959
states. No new url is offered there, since adding and updating are checked by
`MCFeedDownload`.

`MCFeedOpml` exports an account with folder A holding feed 11 and subfolder S
holding feed 13 (the two differ in quickMode), the Trash holding feed 15, and
an empty folder B. The nested export has A, S and B; the flat one has 11 and
13 and no folders. Both are imported into an empty account and into the
exporting account, where every folder exists and every feed is subscribed. A
hand-written file has a non-outline element around a feed outline, an rss
outline without url, one without `fz:quickMode`, a feed the exporting account
already has, and a feed directly in the `<body>`; another has only an empty
`<body>`. With folder creation allowed to fail, every branch of the processor
is taken, and the run reaches 169 states. `MaxOutlines` is 4, the largest
number of feed outlines in one file, so the bound never blocks a run: a
blocked processor would show as a violation of `ImportEnds`. The violation
runs import one file each: `MixedDoc` (folder A with a feed, subfolder S with
a feed of the other quickMode, another feed) and `HangDoc` (a url-less rss
outline holding a folder outline and then a feed outline).

`MCFeedQuickMode` has the smallest account where a folder with a feed has a
subfolder with a feed (A and S), a third folder B that is empty (a feed moved
there leaves its folder empty and takes the default), and one free url to
subscribe or update to (one download in flight at a time; `FeedDownload` checks two). Init enumerates both values of every folder's feeds
and of the default: 8 initial states.

Apart from `MCFeedMoveFeed`, a second account is not needed for these properties: nothing in the modelled
code compares accounts except `selectFolder`'s search for the account row. Large
forests only lengthen the row scans.

## Fairness and liveness

The view, listener and download runs check safety only: their handlers are
atomic steps with no waiting, and no property of theirs needs a step to
happen.

The OPML import is where the code promises progress. Once the file read
completes, `importOPMLFile` calls the processor, and each processor run
schedules the next with `setTimeout(0)` on the main thread. A timer that is
scheduled stays enabled until it runs, and the event loop runs it while the
dialog is open, so the import assumes weak fairness of `Loaded` and `Timer`
(`Fairness` in `FeedOpmlImport`). `Start` has none: the user need not import.
Under it, `ImportEnds` says the restart-from-the-`<body>` walk never spins for
ever, and `ImportReportsBack` says `mActionMode` is eventually reset, which
`import_hang` shows false.

## Refinement

`ImportRefinesQueue` is `FeedOpmlImportQueue`'s specification, instantiated
with the mapping described under "OPML export and import" and checked as a
`PROPERTY` of the `import` run. It holds for every file the model offers,
including bad elements, url-less rss outlines and folder failures. The code's
own NOTE at line 2958 excludes rss outlines with children: such an outline is
subscribed, then descended into, and handled again as an existing feed, so
the refinement fails at the first step. The documents respect the NOTE.

`DownloadRefinesStore` is `FeedSubscriptionStore`'s specification, instantiated
in `FeedDownload` with the identity mapping: the abstract `store` and
`downloads` are the detailed ones, whose records carry the mode and the
replaced feed. The detailed spec's row clicks, toggles, `OnClose` and the
closed dialog are stuttering steps of the abstract one. It is a `PROPERTY` of
the `download` run, where the user waits for each download, and it holds. With
the user acting during downloads (the cfgs of `download_wrong_feed` and
`download_mode`), TLC finds it violated at once: the update's callback removes
whichever feed row is current, which is the finding of `download_wrong_feed`.

## Not modelled yet, and the plan

These are listed in `PROJECT.json` with reasons:

- Folder copies in `folderMoveCopyCompleted`, and moves of a folder that has
  subfolders.
- Copies across accounts in `moveCopyFeed`, and dropping a url or a feed on
  an account's root (FeedUtils then creates the folder).
- The summary setting for cross-account moves (`params.quickMode`, line
  1831).
- What FeedUtils does with `CANCEL_REQUESTED`, and a download callback that
  runs after the dialog closed.
- The view side of OPML import: the `selectFolder` calls of
  `importOPMLFinished` and the `folderAdded` events the new folders cause.
- An abstract specification of the row cache (rows = visible pre-order of the
  store), with `FeedTreeView` shown to refine it.

The hazards the code is exposed to are listed in `PROJECT.json` with their
lines, and with the properties that cover each one or a note on why none does
yet.
