---------------------------- MODULE DocumentPages ----------------------------
(***************************************************************************)
(* The pages of a document, as a browser goes through them: the links that *)
(* a page shows (templatetags/navigation_tags.py and the templates), the   *)
(* forms that it sends, the redirects that answer them (views), and the    *)
(* document that others change meanwhile.  What the forms write is modelled *)
(* call by call in DocumentRequests; here they are answered in one step.   *)
(***************************************************************************)
EXTENDS Routes

CONSTANTS
    Judgments, PressSummaries,   \* the URIs of documents
    Uuids,                       \* identifiers, as segments of an address
    MetadataFlag                 \* the flag document_metadata

ASSUME FlagAssumption == MetadataFlag \in BOOLEAN

VARIABLES
    document,  \* the document that the reader is at, or was
    browser    \* what the reader sees, or waits for

pageVars == <<document, browser>>

Uris == Judgments \cup PressSummaries

Suffix == <<"press-summary", "1">>

\* _build_related_document_uri: a press summary whose URI does not end so is
\* related to itself.
RelatedUri(uri) ==
    IF uri \notin PressSummaries THEN uri \o Suffix
    ELSE IF IsSuffix(Suffix, uri) THEN SubSeq(uri, 1, Len(uri) - Len(Suffix))
    ELSE uri

\* The first words of the pages that are no document's, and the last ones of the
\* words of those that are.
SiteWords ==
    {Head(Patterns[i].words) :
       i \in {j \in DOMAIN Patterns : ~Patterns[j].has_uri /\ Patterns[j].words # <<>>}}

PageWords ==
    {Last(Patterns[i].words) :
       i \in {j \in DOMAIN Patterns : Patterns[j].has_uri /\ Patterns[j].words # <<>>}}

\* An address that no pattern takes for that of another page.
Clear(uri) ==
    /\ uri \in Seq(STRING) \ {<<>>}
    /\ Head(uri) \notin SiteWords
    /\ Last(uri) \notin PageWords
    /\ "identifiers" \notin Range(uri)

\* What the patterns rely on: courts, years and numbers are none of their words.
ASSUME UrisAssumption == \A uri \in Uris : Clear(uri) /\ Clear(RelatedUri(uri))
ASSUME UuidsAssumption ==
    \A uuid \in Uuids : uuid \in Seq(STRING) \ {<<>>} /\ "identifiers" \notin Range(uuid)

Content == {"html", "failed", "none"}

\* content_as_html() answers for "html"; "failed" has failed to parse.  linked:
\* there is a document at the related URI.
Documents ==
    {d \in [uri : Uris, content : Content, pdf : BOOLEAN, locked : BOOLEAN,
            published : BOOLEAN, ever : BOOLEAN, held : BOOLEAN, linked : BOOLEAN] :
        /\ d.published => d.ever
        /\ RelatedUri(d.uri) = d.uri => d.linked}

NoDocument == [uri |-> <<>>]

\* What may be at a URI, when nothing is known of it.
Found(uri) == {d \in Documents : d.uri = uri} \cup {NoDocument}

\* get_linked_document_uri
LinkedUri(d) == IF d.linked THEN RelatedUri(d.uri) ELSE <<"None">>

-----------------------------------------------------------------------------
(***************************************************************************)
(* The toolbar of a page: the view that names the page, and the document   *)
(* as it was when the page was made.                                       *)
(***************************************************************************)

Item(id, selected, name) == {[id |-> id, selected |-> selected, name |-> name]}

\* Seeded fault: the page that takes off hold is nobody's.
ForgetfulHoldItem(view, d) ==
    IF d.published THEN {}
    ELSE IF d.held THEN Item("take-off-hold", view = "hold_judgment", "unhold-document")
    ELSE Item("put-on-hold", view = "hold_judgment", "hold-document")

\* get_hold_navigation_item
HoldItem(view, d) ==
    LET selected == view \in {"hold_judgment", "unhold_judgment"} IN
    IF d.published THEN {}
    ELSE IF d.held THEN Item("take-off-hold", selected, "unhold-document")
    ELSE Item("put-on-hold", selected, "hold-document")

\* get_publishing_navigation_item
PublishingItem(view, d) ==
    LET selected == view \in {"unpublish_judgment", "publish_judgment"} IN
    IF d.published THEN Item("unpublished", selected, "unpublish-document")
    ELSE Item("publish", selected, "publish-document")

\* get_metadata_navigation_item
MetadataItem(view) ==
    IF MetadataFlag THEN Item("metadata", view = "document_metadata", "document-metadata") ELSE {}

\* get_navigation_items_logic
NavigationItems(view, d) ==
    UNION {
        Item("review", view \in {"judgment_html", "judgment_pdf"}, "full-text-html"),
        HoldItem(view, d), PublishingItem(view, d),
        Item("identifiers", view = "document_identifiers", "document-identifiers"),
        MetadataItem(view),
        Item("history", view = "document_history", "document-history"),
        Item("downloads", view = "document_downloads", "document-downloads"),
        Item("upload", view = "document_upload", "document-upload"),
        IF d.linked THEN Item("associated_documents", view = "associated_documents",
                              "associated-documents") ELSE {} }

-----------------------------------------------------------------------------
(***************************************************************************)
(* The pages: the names of their routes, each with the view that it names. *)
(***************************************************************************)

FullTextPages ==
    {<<"full-text-html", "judgment_html">>, <<"full-text-pdf", "judgment_pdf">>}

HoldPages ==
    {<<"hold-document", "hold_judgment">>, <<"hold-document-success", "hold_judgment">>,
     <<"unhold-document", "unhold_judgment">>, <<"unhold-document-success", "unhold_judgment">>}

PublishPages ==
    {<<"publish-document", "publish_judgment">>,
     <<"publish-document-success", "publish_judgment">>,
     <<"unpublish-document", "unpublish_judgment">>,
     <<"unpublish-document-success", "unpublish_judgment">>}

UploadPages ==
    {<<"document-upload", "upload_document">>,
     <<"upload-document-success", "upload_document_success">>}

IdentifiersPages ==
    {<<"document-identifiers", "document_identifiers">>,
     <<"document-identifiers-add", "document_identifiers">>,
     <<"document-identifier-delete", "document_identifiers">>}

DeletePage     == {<<"delete-document", "delete_judgment">>}
HistoryPage    == {<<"document-history", "document_history">>}
MetadataPage   == {<<"document-metadata", "document_metadata">>}
DownloadsPage  == {<<"document-downloads", "document_downloads">>}
AssociatedPage == {<<"associated-documents", "associated_documents">>}

Pages ==
    UNION {FullTextPages, HoldPages, PublishPages, UploadPages, IdentifiersPages, DeletePage,
           HistoryPage, MetadataPage, DownloadsPage, AssociatedPage}

PageNames == {page[1] : page \in Pages}

View(name) == (CHOOSE page \in Pages : page[1] = name)[2]

\* The two pages that have tabs.
FullText == {page[1] : page \in FullTextPages}

\* The library publishes no document on hold or with contents that failed.
Publishable(d) == ~d.held /\ d.content # "failed"

When(condition, set) == IF condition THEN set ELSE {}

\* Seeded fault: the HTML page always shows its tabs.
EagerTabs(name, d) ==
    When(name = "full-text-html" \/ (name = "full-text-pdf" /\ d.content = "html"),
         FullText)

\* full_text_html.jinja and full_text_pdf.jinja: each shows the two tabs when
\* the other has something to show.
Tabs(name, d) ==
    When(IF name = "full-text-html" THEN d.pdf ELSE name = "full-text-pdf" /\ d.content = "html",
         FullText)

\* Seeded fault: the buttons are there for every document.
BoldIdentifierLinks(name, d) ==
    When(name = "document-identifiers",
         {Target("document-identifiers-add", d.uri, <<>>)} \cup
         {Target("document-identifier-delete", d.uri, uuid) : uuid \in Uuids})

\* identifiers.jinja, where the flag identifier_editing is set.
IdentifierLinks(name, d) ==
    When(name = "document-identifiers",
         {Target("document-identifiers-add", d.uri, <<>>)} \cup
         {Target("document-identifier-delete", d.uri, uuid) : uuid \in When(~d.ever, Uuids)})

\* The links of a page beside toolbar and tabs.  "Delete" is there for editors,
\* and the page that confirms an unlock has no other.
Links(name, d) ==
    LET Here(n) == Target(n, d.uri, <<>>)
        There == Target("full-text-html", LinkedUri(d), <<>>)
        Review == {Here("full-text-html")} IN
    IF name = "unlock" THEN Review
    ELSE UNION {
        {Here("delete-document")},
        When(d.locked, {Target("unlock", <<>>, <<>>)}),
        When(d.uri \in PressSummaries /\ d.linked, {There}),
        When(name = "associated-documents", {There}),
        When(name \in {"delete-document", "hold-document", "unhold-document",
                       "unpublish-document", "upload-document-success", "document-history"},
             Review),
        When(name = "publish-document" /\ Publishable(d), Review),
        When(name = "document-upload" /\ ~d.published, Review),
        When(name = "document-downloads", {Here("full-text-xml")}),
        IdentifierLinks(name, d) }

\* The forms that a page sends to its own address.
OwnForms == {"document-metadata", "document-identifiers-add", "document-identifier-delete"}

\* The routes that a page's forms are sent to.
Forms(name, d) ==
    IF name = "unlock" THEN {"unlock"}
    ELSE UNION {
        {"enrich", "reparse"}, {name} \cap OwnForms,
        When(name \in FullText /\ d.uri \in Judgments, {"edit-document"}),
        When(name = "hold-document", {"hold"}), When(name = "unhold-document", {"unhold"}),
        When(name = "publish-document" /\ Publishable(d), {"publish"}),
        When(name = "unpublish-document", {"unpublish"}),
        When(name = "document-upload" /\ ~d.published, {"upload"}),
        When(name = "delete-document", {"delete"}) }

-----------------------------------------------------------------------------
(***************************************************************************)
(* The reader.  A request takes with it the item of the toolbar, or the    *)
(* tab, that was followed; "stale" once the document has changed since the *)
(* page was made.                                                          *)
(***************************************************************************)

Ask(method, t, uri, item) ==
    browser' = [at |-> "asking", method |-> method, target |-> t, judgment_uri |-> uri,
                item |-> item]

\* The document of a page, or another one that it links to.
Turn(uri) ==
    IF uri \in {browser.seen.uri, <<>>} THEN UNCHANGED document
    ELSE document' \in IF browser.seen = document /\ browser.seen.linked
                       THEN Found(uri) \ {NoDocument} ELSE Found(uri)

Send(method, t, item) ==
    /\ browser.at = "page"
    /\ Turn(t.uri)
    /\ Ask(method, t, browser.seen.uri, IF browser.seen = document THEN item ELSE "stale")

\* From a list (documents_table.jinja) or from an address of earlier days.
Open ==
    /\ browser.at = "list"
    /\ \E uri \in Uris :
         /\ document' \in Found(uri)
         /\ \E t \in {Target("full-text-html", uri, <<>>), Target("edit-redirect", <<>>, <<>>),
                      Target("detail-redirect", <<>>, <<>>), Target("xml-redirect", <<>>, <<>>)} :
              Ask("GET", t, uri, IF document' = NoDocument THEN "stale" ELSE "none")

FollowItem ==
    /\ browser.at = "page" /\ browser.name # "unlock"
    /\ \E item \in NavigationItems(View(browser.name), browser.seen) :
         Send("GET", Target(item.name, browser.seen.uri, <<>>), item.id)

FollowTab ==
    /\ browser.at = "page"
    /\ \E name \in Tabs(browser.name, browser.seen) :
         Send("GET", Target(name, browser.seen.uri, <<>>), name)

FollowLink ==
    /\ browser.at = "page"
    /\ \E t \in Links(browser.name, browser.seen) : Send("GET", t, "none")

SendForm ==
    /\ browser.at = "page"
    /\ \E name \in Forms(browser.name, browser.seen) :
         Send("POST",
              IF name \in OwnForms THEN Target(name, browser.seen.uri, browser.part)
              ELSE Target(name, IF name = "edit-document" THEN browser.seen.uri ELSE <<>>, <<>>),
              "none")

\* Back to the lists.
Leave ==
    /\ browser.at \in {"page", "error", "file"}
    /\ browser' = [at |-> "list"]
    /\ document' = NoDocument

\* Others write the document, or the one at the related URI, and the parser
\* writes its contents; a page is at most one change behind.
ChangeDocument ==
    /\ document # NoDocument
    /\ IF browser.at = "page" THEN browser.seen = document ELSE browser.at = "asking"
    /\ \/ document' = NoDocument
       \/ document' = [document EXCEPT !.published = TRUE, !.ever = TRUE]
       \/ document' = [document EXCEPT !.published = FALSE]
       \/ document' = [document EXCEPT !.pdf = TRUE]
       \/ \E value \in BOOLEAN :
            document' \in {[document EXCEPT !.held = value], [document EXCEPT !.locked = value],
                           [document EXCEPT !.linked = value]}
       \/ \E content \in Content : document' = [document EXCEPT !.content = content]
    /\ document' \in (Documents \cup {NoDocument}) \ {document}
    /\ browser' = IF browser.at = "asking" THEN [browser EXCEPT !.item = "stale"] ELSE browser

-----------------------------------------------------------------------------
(***************************************************************************)
(* The answers.  R is the page that the address of a request leads to.     *)
(***************************************************************************)

Targets ==
    {Target(Patterns[i].name, uri, part) :
       i \in DOMAIN Patterns, part \in Uuids \cup {<<>>},
       uri \in Uris \cup {RelatedUri(u) : u \in Uris} \cup {<<>>, <<"None">>}}

LeadsTo == [t \in Targets |-> Resolve(Address(t))]

R == LeadsTo[browser.target]

Asked(method, names) ==
    browser.at = "asking" /\ browser.method = method /\ R.name \in names

\* Pages find their document by the address, forms and old addresses by the
\* parameter judgment_uri.
FoundAt(uri) == document # NoDocument /\ document.uri = uri

Show(name) ==
    browser' = [at |-> "page", name |-> name, part |-> R.part, seen |-> document,
                item |-> browser.item]

Redirect(name, uri) == Ask("GET", Target(name, uri, <<>>), uri, browser.item)

Error == browser' = [at |-> "error", target |-> browser.target, item |-> browser.item]

\* get_document_by_uri_or_404, in the setup of every page and in every form.
NotFound ==
    /\ \/ Asked("GET", PageNames \cup {"full-text-xml"}) /\ ~FoundAt(R.uri)
       \/ Asked("POST", OwnForms) /\ ~FoundAt(R.uri)
       \/ Asked("POST", {"hold", "unhold", "publish", "unpublish", "upload", "delete", "enrich",
                         "reparse", "unlock", "edit-document"}) /\ ~FoundAt(browser.judgment_uri)
    /\ Error
    /\ UNCHANGED document

\* Seeded fault: a document that failed to parse is treated as one without
\* contents.
HastyReviewHTML ==
    /\ Asked("GET", {"full-text-html"}) /\ FoundAt(R.uri)
    /\ IF document.content = "html" THEN Show("full-text-html")
                                    ELSE Redirect("full-text-pdf", R.uri)
    /\ UNCHANGED document

\* DocumentReviewHTMLView
ReviewHTML ==
    /\ Asked("GET", {"full-text-html"}) /\ FoundAt(R.uri)
    /\ IF document.content = "none" THEN Redirect("full-text-pdf", R.uri)
                                    ELSE Show("full-text-html")
    /\ UNCHANGED document

\* DocumentReviewPDFView
ReviewPDF ==
    /\ Asked("GET", {"full-text-pdf"}) /\ FoundAt(R.uri)
    /\ IF document.pdf THEN Show("full-text-pdf") ELSE Redirect("full-text-html", R.uri)
    /\ UNCHANGED document

\* check_safe_to_delete_identifier: refused once the document has been published,
\* and not found once the identifier is gone.
IfSafeToDelete(Then) ==
    \/ ~document.ever /\ Then
    \/ (document.ever \/ browser.item = "stale") /\ Error

\* The other pages.
OtherPage ==
    /\ Asked("GET", PageNames \ FullText) /\ FoundAt(R.uri)
    /\ IF R.name = "document-identifier-delete" THEN IfSafeToDelete(Show(R.name)) ELSE Show(R.name)
    /\ UNCHANGED document

\* A form at the address of its page: claims are saved, or say why not, on the
\* page of metadata; an identifier that is not valid is asked for again.
OwnForm ==
    /\ Asked("POST", OwnForms) /\ FoundAt(R.uri)
    /\ \/ R.name = "document-metadata" /\ Redirect("document-metadata", R.uri)
       \/ /\ R.name = "document-identifiers-add"
          /\ Redirect("document-identifiers", R.uri) \/ Show(R.name)
       \/ /\ R.name = "document-identifier-delete"
          /\ IfSafeToDelete(Redirect("document-identifiers", R.uri))
    /\ UNCHANGED document

\* xml_view
XmlView ==
    /\ Asked("GET", {"full-text-xml"}) /\ FoundAt(R.uri)
    /\ browser' = [at |-> "file"]
    /\ UNCHANGED document

\* unlock_get looks for no document: its page knows the URI alone.
UnlockGet ==
    /\ Asked("GET", {"unlock"})
    /\ browser' = [at |-> "page", name |-> "unlock", part |-> R.part,
                   seen |-> [uri |-> browser.judgment_uri], item |-> browser.item]
    /\ UNCHANGED document

\* edit_view_redirect, html_view_redirect, xml_view_redirect, and the page that
\* a document was edited on.
OldAddress ==
    /\ \/ Asked("GET", {"edit-redirect"}) /\ Redirect("edit-document", browser.judgment_uri)
       \/ Asked("GET", {"detail-redirect"}) /\ Redirect("full-text-html", browser.judgment_uri)
       \/ Asked("GET", {"xml-redirect"}) /\ Redirect("full-text-xml", browser.judgment_uri)
       \/ Asked("GET", {"edit-document"}) /\ Redirect("full-text-html", R.uri)
    /\ UNCHANGED document

\* The writes and their success pages.
Written(names, d, name) ==
    /\ Asked("POST", names) /\ FoundAt(browser.judgment_uri)
    /\ document' = d
    /\ Redirect(name, document.uri)

WriteFlag ==
    \/ Written({"hold"}, [document EXCEPT !.held = TRUE], "hold-document-success")
    \/ Written({"unhold"}, [document EXCEPT !.held = FALSE], "unhold-document-success")
    \/ Written({"unpublish"}, [document EXCEPT !.published = FALSE], "unpublish-document-success")

Refused(name) ==
    Asked("POST", {name}) /\ FoundAt(browser.judgment_uri) /\ Error /\ UNCHANGED document

\* A document that is not publishable is refused by the library.
Publish ==
    /\ document # NoDocument
    /\ IF Publishable(document)
       THEN Written({"publish"}, [document EXCEPT !.published = TRUE, !.ever = TRUE],
                    "publish-document-success")
       ELSE Refused("publish")

\* A file that is no PDF, or too large, is asked for again.
Upload ==
    \/ Written({"upload"}, [document EXCEPT !.pdf = TRUE], "upload-document-success")
    \/ Written({"upload"}, document, "document-upload")

\* The document that is deleted leaves the reader on the home page.
Delete ==
    /\ Asked("POST", {"delete"}) /\ FoundAt(browser.judgment_uri)
    /\ IF document.published THEN Refused("delete")
       ELSE browser' = [at |-> "list"] /\ document' = NoDocument

\* Enrichment, reparsing and saving lead to the HTML page, unlocking to the
\* edit page; break_checkout raises when nothing is checked out.
Button ==
    /\ document # NoDocument
    /\ \/ Written({"enrich", "reparse", "edit-document"}, document, "full-text-html")
       \/ /\ document.locked
          /\ Written({"unlock"}, [document EXCEPT !.locked = FALSE], "edit-document")
       \/ ~document.locked /\ Refused("unlock")

Answer ==
    \/ NotFound \/ ReviewHTML \/ ReviewPDF \/ OtherPage \/ OwnForm \/ XmlView \/ UnlockGet
    \/ OldAddress \/ WriteFlag \/ Publish \/ Upload \/ Delete \/ Button

PagesInit == document = NoDocument /\ browser = [at |-> "list"]

Read == FollowItem \/ FollowTab \/ FollowLink \/ SendForm \/ ChangeDocument \/ Answer

-----------------------------------------------------------------------------

\* Every link, form and redirect reaches the page and the document that it was
\* made for: no pattern before its own takes the address (judgments/urls.py).
LinksResolve == browser.at = "asking" => R = browser.target

\* A reader who follows an item of the toolbar, or a tab, while the document
\* does not change, comes to a page that shows it as selected, redirects
\* included: the conditions of navigation_tags.py and of the templates agree
\* with those of the views.  The item "upload" is the exception: no view has the
\* name that it looks for.
ItemSelected ==
    browser.at = "page" /\ browser.item \notin {"none", "stale", "upload"} =>
        IF browser.item \in FullText THEN browser.name = browser.item
        ELSE \E item \in NavigationItems(View(browser.name), browser.seen) :
               item.id = browser.item /\ item.selected

\* A reader meets an error only by acting on a page that the document has since
\* left behind, or does not show: what a page offers, its view or its handler
\* grants.  The form that deletes is offered for published documents too, and
\* the page of associated documents has a link even when there are none.
ErrorsComeOfChanges ==
    browser.at = "error" =>
        \/ browser.item = "stale"
        \/ browser.target.name = "delete"
        \/ browser.target.uri = LinkedUri([linked |-> FALSE])

\* Every request is answered by a page, an error or a file at last, as long as
\* its document has either contents or a PDF, or has failed to parse: without
\* any of them the two views of it redirect to each other for ever.
Bare == document # NoDocument /\ document.content = "none" /\ ~document.pdf

RedirectsEnd == []<>(browser.at # "asking") \/ []<>Bare

=============================================================================
