------------------------------- MODULE FeedOpml -------------------------------
(***************************************************************************)
(* OPML export and import together: a file the dialog exported from one  *)
(* account, or any other outline file, imported into an account.  The    *)
(* import is shown to implement FeedOpmlImportQueue.                      *)
(***************************************************************************)
EXTENDS FeedOpmlImport, FeedOpmlExport

(* The urls of the feed outlines still in the document, in document      *)
(* order: the abstract queue.  A type="rss" outline without url is no    *)
(* feed to subscribe.                                                      *)
PendingFeedUrls ==
    LET R == SelectSeq(RssOutlines([file EXCEPT !.kids = kids], Body),
                       LAMBDA n : file.url[n] # NoUrl)
    IN  [i \in 1..Len(R) |-> file.url[R[i]]]

Queue == INSTANCE FeedOpmlImportQueue
            WITH queue <- PendingFeedUrls, subs <- feeds, reported <- (phase = "done")

-----------------------------------------------------------------------------
(* Properties.                                                             *)

Paths == Seq(Names)

OTypeOK ==
    /\ file \in Docs
    /\ kids \in [Nodes -> Seq(Nodes)]
    /\ call = NoCall \/ (call.node \in Nodes /\ call.folder \in Paths \cup {Undef})
    /\ feedFolder \in Paths \cup {Undef}
    /\ firstQuick \in BOOLEAN \cup {NoQuick}
    /\ \A f \in folders : f \in Paths
    /\ DOMAIN feeds \subseteq Urls /\ DOMAIN quick = DOMAIN feeds
    /\ \A u \in DOMAIN feeds : feeds[u] \in Paths /\ quick[u] \in BOOLEAN
    /\ feedsAdded \in 0..MaxOutlines /\ rssOutlines \in 0..MaxOutlines
    /\ lastFolder \in Paths \cup {NoFolder}
    /\ phase \in {"idle", "loading", "running", "done", "rejected", "aborted"}
    /\ mActionMode \in {0, kImportingOPML}

(* The processor's restart-from-the-body walk ends: once a file has been  *)
(* read, the import finishes, is rejected, or stops on an exception; it   *)
(* never keeps rescheduling itself.                                        *)
ImportEnds == phase \in {"loading", "running"} ~> phase \in {"done", "rejected", "aborted"}

(* The processor handles the feed outlines in document order, subscribes *)
(* only the one it is at and only if its url is new, drops only a run of  *)
(* them at the front, and reports only when none is left.                 *)
ImportRefinesQueue == Queue!QSpec

(* Where a feed exported by generateOutlineStruct (or generateOutlineList) *)
(* should land when the file is imported again: in the folder of the same *)
(* path (or in a folder of its own name under the root).                  *)
ImportedAs(u) ==
    IF file.kids = StructKids THEN NamePath(SrcFeedFolder[u]) ELSE <<Title[u]>>

(* Importing a file the dialog exported: when the import has finished,    *)
(* every exported feed is subscribed where export found it, unless the    *)
(* status report says that fewer feeds were added than were found, or the *)
(* feed's folder could not be created (createLocalSubfolder failed and    *)
(* the folder outline was dropped with everything in it).                  *)
RoundTripRestores ==
    phase = "done" /\ file \in ExportedDocs =>
        \/ ImportOPMLStatus(feedsAdded, rssOutlines) = "partial"
        \/ \A u \in SrcFeeds :
              Exported(u) =>
                  \/ u \in DOMAIN feeds /\ feeds[u] = ImportedAs(u)
                  \/ ImportedAs(u) \notin folders

(* "quickMode is updated to be the same for all feeds in a folder", and   *)
(* import forces it so as not to "leave mismatches": no two feeds in one  *)
(* folder differ in quickMode.                                             *)
FolderQuickModeUniform ==
    \A u, v \in DOMAIN feeds : feeds[u] = feeds[v] => quick[u] = quick[v]

(* importOPMLFinished is called: once a file has been read, the import    *)
(* reports its status and leaves kImportingOPML.                           *)
ImportReportsBack == phase \in {"loading", "running"} ~> mActionMode = 0

=============================================================================
