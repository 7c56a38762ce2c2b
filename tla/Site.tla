--------------------------------- MODULE Site ---------------------------------
(***************************************************************************)
(* The reading side of the application: a reader goes through the lists    *)
(* (DocumentLists), opens a document and goes through its pages            *)
(* (DocumentPages), and comes back to the home page.                       *)
(***************************************************************************)
EXTENDS DocumentLists, DocumentPages

CONSTANT Opened  \* bound on the stores that a document is opened from

ASSUME OpenedAssumption == Opened \subseteq Collections

siteVars == <<vars, pageVars>>

SiteInit == Init /\ PagesInit

ReadLists == browser.at = "list" /\ Next /\ UNCHANGED pageVars

Home == [view |-> "home", status |-> "other", from_year |-> Absent, to_year |-> Absent,
         page |-> Absent]

\* Every list leads to the same pages, which remember neither the list nor what
\* comes and goes in it: one list of some stores stands for all of them.
OpenDocument ==
    /\ url = Home /\ shown = Page(Home) /\ walk = NoWalk
    /\ documents \in Opened
    /\ Open
    /\ UNCHANGED vars

ReadDocument == Read /\ UNCHANGED vars

LeaveDocument == Leave /\ UNCHANGED vars

SiteNext == ReadLists \/ OpenDocument \/ ReadDocument \/ LeaveDocument

\* The server answers every request, and the browser follows every redirect.
SiteSpec ==
    /\ SiteInit /\ [][SiteNext]_siteVars
    /\ WF_siteVars(Answer /\ UNCHANGED vars)

=============================================================================
