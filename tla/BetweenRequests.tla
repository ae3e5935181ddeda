-------------------------- MODULE BetweenRequests --------------------------
(***************************************************************************)
(* What an answer leaves to the next request: the links of a page and the  *)
(* names of the snapshots.  cgit keeps nothing of a request, so that all   *)
(* it was about has to be in the url that the answer links to.             *)
(***************************************************************************)
EXTENDS Links, Snapshot

VARIABLES
    visit,    \* the page that was asked for: <<site, query>>, or None
    download  \* the ref whose snapshots a page links to: <<repository, head, ref>>, or None

\* The links of a page, and its form for another of the branches, show what the page
\* shows (ui-shared-links-nav.c, ui-shared-forms.c, parsing.c).
LinkShowsPage ==
    visit # None =>
        /\ SelfLinkShowsPage(visit[1], visit[2])
        /\ \A branch \in Range(visit[1].branches) :
              SwitchKeepsPage(visit[1], visit[2], branch)

\* A link to a snapshot is answered with the object that it was made for
\* (ui-shared-snapshot.c, ui-snapshot.c).
SnapshotRoundTrip ==
    download # None => FileFindsCommit(download[1], download[2], download[3])
=============================================================================
