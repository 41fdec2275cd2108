---------------------------- MODULE FeedOpmlImport ----------------------------
(***************************************************************************)
(* OPML import: importOPML, importOPMLFile, importOPMLOutlines and its     *)
(* processor, importOPMLStatus and importOPMLFinished.                     *)
(*                                                                         *)
(* importOPML sets mActionMode to kImportingOPML and awaits the file read  *)
(* (Start); when the read completes the document is checked and the       *)
(* processor runs for the first time (Loaded).  Each processor run looks *)
(* at the first element child of the outline it was given, handles it,    *)
(* and schedules the next run with setTimeout(0) (Timer): it descends     *)
(* into an outline with children, and removes a handled leaf or a bad     *)
(* element from the document and starts again from the <body>.  When the *)
(* <body> is empty the callback importOPMLFinished resets mActionMode.    *)
(*                                                                         *)
(* The target account is its folder paths, and its subscriptions: feed    *)
(* url -> folder path and quickMode.  FeedUtils and Feed (feedAlreadyExists,*)
(* Feed.createFolder, addFeed, deleteFeed) are outside this repository:   *)
(* createFolder either gives the feed its folder or, where it may fail,   *)
(* leaves it without one.  The view (the folderAdded notifications the    *)
(* new folders cause, and the final selectFolder calls) is not modelled.  *)
(***************************************************************************)
EXTENDS FeedOpmlDoc

CONSTANTS
    Docs,           \* the documents a file may hold
    Targets,        \* the accounts imported into: [folders, feeds, quick]
    ServerQuick,    \* the account's quickMode, for outlines without one
    CreateMayFail,  \* whether creating a folder can fail
    MaxOutlines,    \* bound on the outline counters
    Undef,          \* the closure's feedFolder before it is first assigned
    NoQuick,        \* firstFeedInFolderQuickMode = null
    NoCall          \* no processor run is scheduled

VARIABLES
    file,           \* the document that was read
    kids,           \* its element children, as the processor removes them
    call,           \* the scheduled processor(aParentNode, aParentFolder)
    feedFolder,     \* the closure variable feedFolder
    firstQuick,     \* the closure variable firstFeedInFolderQuickMode
    folders,        \* the target account's folders
    feeds,          \* its subscriptions: url -> folder
    quick,          \* url -> quickMode
    feedsAdded,
    rssOutlines,
    lastFolder,
    phase,          \* "idle", "loading", "running", "done", "rejected", "aborted"
    mActionMode

ivars == <<file, kids, call, feedFolder, firstQuick, folders, feeds, quick,
           feedsAdded, rssOutlines, lastFolder, phase, mActionMode>>

kImportingOPML == 5

NoFolder == Undef

-----------------------------------------------------------------------------
(* One run of processor(p, pf), on the outline o = p.firstElementChild.   *)

(* The end of a run: a leaf or a bad element is removed and the next run *)
(* starts from the <body> and the root; otherwise it descends into o with *)
(* feedFolder.                                                            *)
(* Mutant: the handled leaf is not removed before the restart.           *)
ContinueKeepLeaf(p, o, bad, ff) ==
    /\ phase' = "running"
    /\ IF kids[o] = <<>> \/ bad
       THEN /\ call' = [node |-> Body, folder |-> Root]
            /\ feedFolder' = Root
            /\ UNCHANGED kids
       ELSE /\ call' = [node |-> o, folder |-> ff]
            /\ feedFolder' = ff
            /\ UNCHANGED kids

Continue(p, o, bad, ff) ==
    /\ phase' = "running"
    /\ IF kids[o] = <<>> \/ bad
       THEN /\ kids' = [kids EXCEPT ![p] = Tail(@)]
            /\ call' = [node |-> Body, folder |-> Root]
            /\ feedFolder' = Root
       ELSE /\ call' = [node |-> o, folder |-> ff]
            /\ feedFolder' = ff
            /\ UNCHANGED kids

(* An exception escapes the run: nothing is scheduled again and the       *)
(* callback is never called.                                              *)
Abort ==
    /\ phase' = "aborted"
    /\ call' = NoCall
    /\ UNCHANGED <<kids, feedFolder, firstQuick, folders, feeds, quick,
                   feedsAdded, rssOutlines, lastFolder, mActionMode>>

(* importOPMLStatus(aFeedsAdded, aRssOutlines): the report names both     *)
(* counts when fewer feeds were added than found, else only the count    *)
(* added (the wording and plural forms are left out).                     *)
ImportOPMLStatus(added, found) == IF found > added THEN "partial" ELSE "count"

Finished(p) ==
    /\ file.tag[p] = "body" /\ kids[p] = <<>>
    /\ phase' = "done"
    /\ call' = NoCall
    /\ mActionMode' = 0
    /\ UNCHANGED <<kids, feedFolder, firstQuick, folders, feeds, quick,
                   feedsAdded, rssOutlines, lastFolder>>

(* The quickMode an outline asks for, the account's when it has none.     *)
(* Mutant: the fz:quickMode attribute is read without the hasAttribute    *)
(* test.                                                                   *)
OutlineQuickNoDefault(o) == file.quick[o]

OutlineQuick(o) == IF file.quick[o] # NoAttr THEN file.quick[o] ELSE ServerQuick

(* The first feed since the last folder creation sets the quickMode of    *)
(* every later one.                                                       *)
EffectiveQuick(o) == IF firstQuick = NoQuick THEN OutlineQuick(o) ELSE firstQuick

(* A feed outline whose parent is a folder outline goes in that folder;   *)
(* otherwise Feed.createFolder makes it a folder named after the feed     *)
(* under the account root.                                                *)
(* Mutant: every feed gets a folder of its own, as in a flat list.         *)
FeedTargetAlwaysOwnFolder(p, pf, o) == <<file.name[o]>>

FeedTarget(p, pf, o) ==
    IF file.tag[p] = "outline" /\ ~file.rss[p] THEN pf ELSE <<file.name[o]>>

BadTag(p, o) ==
    /\ file.tag[o] # "outline"
    /\ Continue(p, o, TRUE, feedFolder)
    /\ UNCHANGED <<firstQuick, folders, feeds, quick, feedsAdded, rssOutlines,
                   lastFolder, mActionMode>>

FeedWithoutUrl(p, o) ==
    /\ file.tag[o] = "outline" /\ file.rss[o] /\ file.url[o] = NoUrl
    /\ Continue(p, o, FALSE, feedFolder)
    /\ UNCHANGED <<firstQuick, folders, feeds, quick, feedsAdded, rssOutlines,
                   lastFolder, mActionMode>>

FeedOutline(o) ==
    /\ file.tag[o] = "outline" /\ file.rss[o] /\ file.url[o] # NoUrl
    /\ rssOutlines < MaxOutlines
    /\ rssOutlines' = rssOutlines + 1

FeedExists(p, pf, o) ==
    /\ FeedOutline(o)
    /\ file.url[o] \in DOMAIN feeds
    /\ Continue(p, o, FALSE, pf)
    /\ UNCHANGED <<firstQuick, folders, feeds, quick, feedsAdded, lastFolder, mActionMode>>

(* Mutant: no feedAlreadyExists test; addFeed overwrites the subscription. *)
FeedAddedNoExistsCheck(p, pf, o) ==
    LET f == FeedTarget(p, pf, o) IN
    /\ FeedOutline(o)
    /\ firstQuick' = EffectiveQuick(o)
    /\ folders' = folders \cup {f}
    /\ feeds' = (file.url[o] :> f) @@ feeds
    /\ quick' = (file.url[o] :> EffectiveQuick(o)) @@ quick
    /\ feedsAdded' = feedsAdded + 1
    /\ lastFolder' = f
    /\ Continue(p, o, FALSE, pf)
    /\ UNCHANGED mActionMode

FeedAdded(p, pf, o) ==
    LET f == FeedTarget(p, pf, o) IN
    /\ FeedOutline(o)
    /\ file.url[o] \notin DOMAIN feeds
    /\ firstQuick' = EffectiveQuick(o)
    /\ folders' = folders \cup {f}
    /\ feeds' = feeds @@ (file.url[o] :> f)
    /\ quick' = quick @@ (file.url[o] :> EffectiveQuick(o))
    /\ feedsAdded' = feedsAdded + 1
    /\ lastFolder' = f
    /\ Continue(p, o, FALSE, pf)
    /\ UNCHANGED mActionMode

(* createFolder fails: deleteFeed removes the traces and the outline is   *)
(* dropped as a bad tag.  The log line before the break reads             *)
(* aParentFolder.filePath, which throws when aParentFolder is undefined.  *)
FeedFolderFailed(p, pf, o) ==
    /\ CreateMayFail
    /\ FeedOutline(o)
    /\ file.url[o] \notin DOMAIN feeds
    /\ firstQuick' = EffectiveQuick(o)
    /\ IF pf = Undef
       THEN /\ phase' = "aborted" /\ call' = NoCall
            /\ UNCHANGED <<kids, feedFolder>>
       ELSE Continue(p, o, TRUE, pf)
    /\ UNCHANGED <<folders, feeds, quick, feedsAdded, lastFolder, mActionMode>>

FolderOutline(o) == file.tag[o] = "outline" /\ ~file.rss[o]

FolderFound(p, pf, o) ==
    /\ FolderOutline(o) /\ pf # Undef
    /\ Append(pf, file.name[o]) \in folders
    /\ Continue(p, o, FALSE, Append(pf, file.name[o]))
    /\ UNCHANGED <<firstQuick, folders, feeds, quick, feedsAdded, rssOutlines,
                   lastFolder, mActionMode>>

FolderCreated(p, pf, o) ==
    /\ FolderOutline(o) /\ pf # Undef
    /\ Append(pf, file.name[o]) \notin folders
    /\ firstQuick' = NoQuick
    /\ folders' = folders \cup {Append(pf, file.name[o])}
    /\ Continue(p, o, FALSE, Append(pf, file.name[o]))
    /\ UNCHANGED <<feeds, quick, feedsAdded, rssOutlines, lastFolder, mActionMode>>

(* createLocalSubfolder throws; the catch's getChildNamed then throws     *)
(* too, as no folder of that name exists.                                  *)
FolderCreateFailed(pf, o) ==
    /\ CreateMayFail
    /\ FolderOutline(o) /\ pf # Undef
    /\ Append(pf, file.name[o]) \notin folders
    /\ Abort

(* createLocalSubfolder throws after the folder was made: getChildNamed  *)
(* finds it, propagateDelete removes it, and the outline is dropped as a  *)
(* bad tag.                                                                *)
FolderCreateUndone(p, pf, o) ==
    /\ CreateMayFail
    /\ FolderOutline(o) /\ pf # Undef
    /\ Append(pf, file.name[o]) \notin folders
    /\ firstQuick' = NoQuick
    /\ Continue(p, o, TRUE, feedFolder)
    /\ UNCHANGED <<folders, feeds, quick, feedsAdded, rssOutlines, lastFolder, mActionMode>>

(* aParentFolder is undefined: every call on it throws, the last one in   *)
(* a catch block.                                                          *)
FolderInUndefined(pf, o) ==
    /\ FolderOutline(o) /\ pf = Undef
    /\ Abort

Processor(p, pf) ==
    /\ UNCHANGED file
    /\ \/ Finished(p)
       \/ /\ kids[p] # <<>>
          /\ LET o == Head(kids[p]) IN
             \/ BadTag(p, o)
             \/ FeedWithoutUrl(p, o)
             \/ FeedExists(p, pf, o)
             \/ FeedAdded(p, pf, o)
             \/ FeedFolderFailed(p, pf, o)
             \/ FolderFound(p, pf, o)
             \/ FolderCreated(p, pf, o)
             \/ FolderCreateFailed(pf, o)
             \/ FolderCreateUndone(p, pf, o)
             \/ FolderInUndefined(pf, o)

-----------------------------------------------------------------------------

Init ==
    /\ file \in Docs
    /\ kids = file.kids
    /\ \E t \in Targets : folders = t.folders /\ feeds = t.feeds /\ quick = t.quick
    /\ call = NoCall
    /\ feedFolder = Undef
    /\ firstQuick = NoQuick
    /\ feedsAdded = 0
    /\ rssOutlines = 0
    /\ lastFolder = NoFolder
    /\ phase = "idle"
    /\ mActionMode = 0

(* importOPML, up to the await of the file read.                           *)
Start ==
    /\ phase = "idle"
    /\ phase' = "loading"
    /\ mActionMode' = kImportingOPML
    /\ UNCHANGED <<file, kids, call, feedFolder, firstQuick, folders, feeds, quick,
                   feedsAdded, rssOutlines, lastFolder>>

(* The read completes: a document whose <body> has no element child is    *)
(* rejected and importOPML resets mActionMode; otherwise                  *)
(* importOPMLOutlines calls processor(body, rootFolder) at once.          *)
Loaded ==
    /\ phase = "loading"
    /\ IF kids[Body] = <<>>
       THEN /\ phase' = "rejected"
            /\ mActionMode' = 0
            /\ UNCHANGED <<file, kids, call, feedFolder, firstQuick, folders, feeds,
                           quick, feedsAdded, rssOutlines, lastFolder>>
       ELSE Processor(Body, Root)

(* The setTimeout(0) fires.                                                *)
Timer ==
    /\ phase = "running"
    /\ Processor(call.node, call.folder)

Next == Start \/ Loaded \/ Timer

(* The file read completes and a scheduled timer fires while the dialog   *)
(* is open; the user need not start an import.                             *)
Fairness == WF_ivars(Loaded) /\ WF_ivars(Timer)

ISpec == Init /\ [][Next]_ivars /\ Fairness

=============================================================================
