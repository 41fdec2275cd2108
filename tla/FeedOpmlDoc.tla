----------------------------- MODULE FeedOpmlDoc -----------------------------
(***************************************************************************)
(* The outline document that OPML export writes and OPML import reads, as *)
(* the two sides of feed-subscriptions.js see it.  An element is a node   *)
(* with a tag, its element children in document order (text nodes such  *)
(* as the pretty-printing whitespace are not elements and are left out), *)
(* and the attributes the code reads: type="rss", xmlUrl (or url), the   *)
(* name it takes from text, title or xmlUrl, and fz:quickMode.           *)
(*                                                                         *)
(* Folders of an account are named by their path of folder names from   *)
(* the account root, which is how getChildNamed finds them level by       *)
(* level; the root itself is the empty path.                              *)
(***************************************************************************)
EXTENDS Naturals, Sequences, SequencesExt, FiniteSets

CONSTANTS
    Nodes,      \* element ids, the <body> included
    Body,       \* the <body> element
    Names,      \* outline names (folder names and feed titles)
    Urls,       \* feed urls
    NoUrl,      \* an outline without xmlUrl and url
    NoAttr      \* an outline without fz:quickMode

ASSUME Body \in Nodes /\ NoUrl \notin Urls

Tags == {"body", "outline", "other"}

Doc == [kids : [Nodes -> Seq(Nodes)], tag : [Nodes -> Tags],
        rss : [Nodes -> BOOLEAN], url : [Nodes -> Urls \cup {NoUrl}],
        name : [Nodes -> Names], quick : [Nodes -> BOOLEAN \cup {NoAttr}]]

Root == <<>>

(* The type="rss" outlines below node n, in document order.               *)
RECURSIVE RssOutlines(_, _)
RssOutlines(d, n) ==
    LET k == d.kids[n]
    IN  FlattenSeq([i \in 1..Len(k) |->
            (IF d.tag[k[i]] = "outline" /\ d.rss[k[i]] THEN <<k[i]>> ELSE <<>>)
            \o RssOutlines(d, k[i])])

=============================================================================
