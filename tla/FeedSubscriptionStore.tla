------------------------ MODULE FeedSubscriptionStore ------------------------
(***************************************************************************)
(* What the subscriptions dialog promises of the feeds database, without  *)
(* rows, items or the shared mActionMode: a subscription appears only     *)
(* when a download the user asked for succeeds, in the folder it was      *)
(* asked for; an update swaps exactly the feed it started from for the    *)
(* new url; a verify, and any failed download, leave the database alone;  *)
(* and the user's remove takes out one feed.                              *)
(*                                                                         *)
(* A request is a record of the url, the folder, the feed an update       *)
(* replaces (or NoFolder) and the mode, as FeedDownload's downloads are.  *)
(***************************************************************************)
CONSTANTS
    InitStore,   \* url or folder -> the folder it is in
    FolderIds,   \* the folders a feed may be subscribed in
    FeedIds,     \* the feed urls
    NoFolder,    \* no feed replaced
    kSubscribeMode, kUpdateMode, kVerifyUrlMode

VARIABLES
    store,      \* the feeds database and folder tree: key -> folder
    downloads   \* the requests in flight

Init == store = InitStore /\ downloads = {}

(* The database with url u subscribed in folder f.                        *)
With(u, f) == [n \in DOMAIN store \cup {u} |-> IF n = u THEN f ELSE store[n]]

(* The database without key u.                                            *)
Without(s, u) == [n \in DOMAIN s \ {u} |-> s[n]]

(* A request the dialog may start: a subscription of a url the database   *)
(* does not have; an update of a subscribed feed to such a url, in the    *)
(* feed's folder; a verify of a subscribed feed, in its folder.           *)
Valid(d) ==
    \/ /\ d.mode = kSubscribeMode
       /\ d.url \notin DOMAIN store /\ d.replaces = NoFolder
    \/ /\ d.mode = kUpdateMode
       /\ d.url \notin DOMAIN store
       /\ d.replaces \in DOMAIN store \cap FeedIds /\ store[d.replaces] = d.folder
    \/ /\ d.mode = kVerifyUrlMode
       /\ d.url \in DOMAIN store /\ d.replaces = NoFolder /\ store[d.url] = d.folder

Request(d) ==
    /\ Valid(d)
    /\ downloads' = downloads \cup {d}
    /\ UNCHANGED store

Succeed(d) ==
    /\ d \in downloads
    /\ downloads' = downloads \ {d}
    /\ store' = CASE d.mode = kSubscribeMode -> With(d.url, d.folder)
                  [] d.mode = kUpdateMode    -> Without(With(d.url, d.folder), d.replaces)
                  [] d.mode = kVerifyUrlMode -> store

Fail(d) ==
    /\ d \in downloads
    /\ downloads' = downloads \ {d}
    /\ UNCHANGED store

Unsubscribe(u) ==
    /\ u \in DOMAIN store \cap FeedIds
    /\ store' = Without(store, u)
    /\ UNCHANGED downloads

Requests ==
    [url : FeedIds, folder : FolderIds, replaces : FeedIds \cup {NoFolder},
     mode : {kSubscribeMode, kUpdateMode, kVerifyUrlMode}]

Next ==
    \/ \E d \in Requests \ downloads : Request(d)
    \/ \E d \in downloads : Succeed(d) \/ Fail(d)
    \/ \E u \in FeedIds : Unsubscribe(u)

Spec == Init /\ [][Next]_<<store, downloads>>

=============================================================================
