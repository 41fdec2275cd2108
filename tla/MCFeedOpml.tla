------------------------------ MODULE MCFeedOpml ------------------------------
(***************************************************************************)
(* The exporting account: folder A (10) with feed 11 and subfolder S (12) *)
(* with feed 13; the Trash T (14) with feed 15; an empty folder B (16).   *)
(* A's and S's feeds differ in quickMode.  Exported nested and flat, the *)
(* files are imported into an empty account and back into the account     *)
(* itself.  A third file has a non-outline element around a feed outline,*)
(* a feed outline without url, one without fz:quickMode, a feed that the  *)
(* account already has, and a feed directly in the <body>.                *)
(* HangDoc starts with a type="rss" outline without url that holds a     *)
(* folder outline and then a feed outline.                                *)
(* EmptyDoc has an empty <body>.                                          *)
(* MixedDoc is a file whose folder A has a feed, then a subfolder S with  *)
(* a feed of the other quickMode, then another feed.                      *)
(***************************************************************************)
EXTENDS FeedOpml

MCBody == 0
MCNodes == {0, 1, 10, 11, 12, 13, 14, 15, 16, 20, 21, 22, 23, 25, 27, 30, 31, 32, 33, 35, 40, 41, 42}
MCUrls == {11, 13, 15, 21, 25, 27, 31, 33, 35}
MCNames == {"A", "S", "T", "B", "X", "f11", "f13", "f15", "f21", "f25", "f27", "none"}

MCNoUrl == -1

MCRootFolder == 1
MCSrcFolders == {10, 12, 14, 16}
MCSrcParent == (10 :> 1) @@ (12 :> 10) @@ (14 :> 1) @@ (16 :> 1)
MCSpecialFolders == {14}
MCSrcFeedFolder == (11 :> 10) @@ (13 :> 12) @@ (15 :> 14)
MCSrcQuick == (11 :> TRUE) @@ (13 :> FALSE) @@ (15 :> TRUE)
MCTitle ==
    [n \in MCNodes |->
        CASE n = 10 -> "A" [] n = 12 -> "S" [] n = 14 -> "T" [] n = 16 -> "B"
          [] n = 11 -> "f11" [] n = 13 -> "f13" [] n = 15 -> "f15"
          [] OTHER -> "none"]

(* A hand-written document: the element e has the given tag, children,   *)
(* type="rss" flag, url, name and quickMode.                              *)
Outline(tg, k, r, u, nm, q) == [tag |-> tg, kids |-> k, rss |-> r, url |-> u, name |-> nm, quick |-> q]
NoOutline == Outline("outline", <<>>, FALSE, MCNoUrl, "none", NoAttr)
HandDoc(E) ==
    LET e(n) == IF n \in DOMAIN E THEN E[n] ELSE NoOutline
    IN  [kids |-> [n \in MCNodes |-> e(n).kids], tag |-> [n \in MCNodes |-> e(n).tag],
         rss |-> [n \in MCNodes |-> e(n).rss], url |-> [n \in MCNodes |-> e(n).url],
         name |-> [n \in MCNodes |-> e(n).name], quick |-> [n \in MCNodes |-> e(n).quick]]

MessyDoc ==
    HandDoc((0 :> Outline("body", <<20, 22, 27>>, FALSE, MCNoUrl, "none", NoAttr))
         @@ (20 :> Outline("other", <<21>>, FALSE, MCNoUrl, "X", NoAttr))
         @@ (21 :> Outline("outline", <<>>, TRUE, 21, "f21", TRUE))
         @@ (22 :> Outline("outline", <<23, 25, 11>>, FALSE, MCNoUrl, "A", NoAttr))
         @@ (23 :> Outline("outline", <<>>, TRUE, MCNoUrl, "none", FALSE))
         @@ (25 :> Outline("outline", <<>>, TRUE, 25, "f25", NoAttr))
         @@ (11 :> Outline("outline", <<>>, TRUE, 11, "f11", TRUE))
         @@ (27 :> Outline("outline", <<>>, TRUE, 27, "f27", FALSE)))

MixedDoc ==
    HandDoc((0 :> Outline("body", <<30>>, FALSE, MCNoUrl, "none", NoAttr))
         @@ (30 :> Outline("outline", <<31, 32, 35>>, FALSE, MCNoUrl, "A", NoAttr))
         @@ (31 :> Outline("outline", <<>>, TRUE, 31, "f11", TRUE))
         @@ (32 :> Outline("outline", <<33>>, FALSE, MCNoUrl, "S", NoAttr))
         @@ (33 :> Outline("outline", <<>>, TRUE, 33, "f13", FALSE))
         @@ (35 :> Outline("outline", <<>>, TRUE, 35, "f15", TRUE)))

HangDoc ==
    HandDoc((0 :> Outline("body", <<40>>, FALSE, MCNoUrl, "none", NoAttr))
         @@ (40 :> Outline("outline", <<42, 41>>, TRUE, MCNoUrl, "none", NoAttr))
         @@ (41 :> Outline("outline", <<>>, TRUE, 21, "f21", TRUE))
         @@ (42 :> Outline("outline", <<>>, FALSE, MCNoUrl, "X", NoAttr)))

EmptyDoc == HandDoc(0 :> Outline("body", <<>>, FALSE, MCNoUrl, "none", NoAttr))

MCDocs == ExportedDocs \cup {MessyDoc, HangDoc, EmptyDoc}
MCMixedDocs == {MixedDoc}
MCHangDocs == {HangDoc}

EmptyAccount == [folders |-> {}, feeds |-> [u \in {} |-> Root], quick |-> [u \in {} |-> TRUE]]
SameAccount ==
    [folders |-> {NamePath(f) : f \in MCSrcFolders},
     feeds   |-> [u \in SrcFeeds |-> NamePath(SrcFeedFolder[u])],
     quick   |-> SrcQuick]

MCTargets == {EmptyAccount, SameAccount}
MCEmptyTargets == {EmptyAccount}
=============================================================================
