-------------------------- MODULE FeedOpmlImportQueue --------------------------
(***************************************************************************)
(* What an OPML import promises, whatever walk implements it: the feed    *)
(* outlines of the file are handled one after another in document order.  *)
(* Handling the next one subscribes its url, in some folder, or skips it; *)
(* a whole run of them can be dropped at once (a bad element with feed    *)
(* outlines inside).  A url that is already subscribed is never           *)
(* subscribed again, and no subscription changes otherwise.  The status   *)
(* is reported only once every feed outline has been handled.            *)
(***************************************************************************)
EXTENDS Naturals, Sequences

CONSTANT Urls

VARIABLES
    queue,      \* the urls of the feed outlines not yet handled
    subs,       \* url -> folder
    reported

qvars == <<queue, subs, reported>>

QInit == reported = FALSE

(* The next feed outline is handled: its url, if it is new, is            *)
(* subscribed; nothing else is.                                            *)
Handle ==
    /\ queue # <<>>
    /\ queue' = Tail(queue)
    /\ \/ subs' = subs
       \/ /\ Head(queue) \in Urls \ DOMAIN subs
          /\ DOMAIN subs' = DOMAIN subs \cup {Head(queue)}
          /\ \A u \in DOMAIN subs : subs'[u] = subs[u]
    /\ UNCHANGED reported

Drop ==
    /\ \E k \in 1..Len(queue) : queue' = SubSeq(queue, k + 1, Len(queue))
    /\ UNCHANGED <<subs, reported>>

Report ==
    /\ queue = <<>> /\ ~reported
    /\ reported' = TRUE
    /\ UNCHANGED <<queue, subs>>

QNext == Handle \/ Drop \/ Report

QSpec == QInit /\ [][QNext]_qvars

=============================================================================
