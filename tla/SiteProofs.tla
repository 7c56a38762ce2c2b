----------------------------- MODULE SiteProofs -----------------------------
(***************************************************************************)
(* Theorems about Site: the reader of lists and pages.                     *)
(***************************************************************************)
EXTENDS Site, DocumentListsProofs, SequenceTheorems

-----------------------------------------------------------------------------
(***************************************************************************)
(* The lists.                                                              *)
(***************************************************************************)
\* Opening, reading and leaving a document leave the lists as they are.
LEMMA ListsGoOn == SiteSpec => Spec
<1>1. SiteInit => Init
  BY DEF SiteInit
<1>2. [SiteNext]_siteVars => [Next]_vars
  BY DEF SiteNext, siteVars, ReadLists, OpenDocument, ReadDocument, LeaveDocument
<1> QED BY <1>1, <1>2, PTL DEF SiteSpec, Spec

\* What the lists promise they promise to a reader who opens documents from them
\* and comes back: the page shown is made of known filters, its bar is complete,
\* its walk shows the list, and its count is that of what was asked for.
THEOREM ListsHoldOnSite ==
    SiteSpec => [](TypeOK /\ BarComplete /\ WalkShowsList /\ ListIsAsAsked)
BY ListsGoOn, ListsTyped, BarsComplete, WalksShowLists, ListsAsAsked, PTL

-----------------------------------------------------------------------------
(***************************************************************************)
(* The pages: the invariants.                                              *)
(***************************************************************************)
None == <<"None">>

OldNames == {"edit-redirect", "detail-redirect", "xml-redirect"}

\* The toolbar of page name shows the item as selected.
Shows(item, name, d) ==
    \E i \in NavigationItems(View(name), d) : i.id = item /\ i.selected

\* A request for page name of d leads to a page that shows the item, or the tab,
\* that was followed.
Aims(item, name, d) ==
    \/ item \in {"none", "stale", "upload"}
    \/ item = "full-text-html" /\ name = item /\ d.content # "none"
    \/ item = "full-text-pdf" /\ name = item /\ d.pdf
    \/ item = "review" /\ name \in FullText
    \/ item \notin FullText /\ name \in PageNames \ FullText /\ Shows(item, name, d)

\* A target has the document's URI in its address, or has not.
Formed(t) ==
    /\ t.name \in PageNames \cup {"full-text-xml", "edit-document"} => t.uri # <<>>
    /\ t.name = "edit-document" => t.uri \in Uris
    /\ t.name \in OldNames => t.uri = <<>>

DocumentNames == PageNames \cup {"full-text-xml", "edit-document"}

FormNames ==
    {"hold", "unhold", "publish", "unpublish", "upload", "delete", "enrich", "reparse", "unlock"}

\* The deletion of an identifier is the one page that has it in its address.
PartFits(name, part) ==
    IF name = "document-identifier-delete" THEN part \in Uuids ELSE part = <<>>

\* A target that some page of the site is for.
TargetFits(t) ==
    /\ t = Target(t.name, t.uri, t.part)
    /\ \/ t.name \in DocumentNames /\ t.uri \in Uris \cup {RelatedUri(u) : u \in Uris} \cup {None}
       \/ t.name \in FormNames \cup OldNames /\ t.uri = <<>>
    /\ PartFits(t.name, t.part)

\* What a view or a handler asks for before it grants the request.
Grants(method, t, uri, d) ==
    /\ d \in Documents
    /\ t.uri = <<>> => d.uri = uri
    /\ t.uri # <<>> => d.uri = t.uri /\ (method = "POST" => uri = t.uri)
    /\ t.name = "publish" => Publishable(d)
    /\ ~(t.name = "unlock" /\ method = "POST")
    /\ t.name = "document-identifier-delete" => ~d.ever

AskFits(b, d) ==
    b.at = "asking" =>
        /\ b.judgment_uri \in Uris
        /\ b.item \in {"none", "stale"} \/ b.method = "GET"
        /\ b.method \in {"GET", "POST"}
        /\ Formed(b.target)
        /\ Aims(b.item, b.target.name, d)
        /\ b.item # "stale" /\ b.target.name # "delete" /\ b.target.uri # None
             => Grants(b.method, b.target, b.judgment_uri, d)

PageFits(b) ==
    b.at = "page" =>
        /\ b.name \in PageNames \cup {"unlock"}
        /\ b.name = "unlock" => \E u \in Uris : b.seen = [uri |-> u]
        /\ b.name # "unlock" => b.seen \in Documents
        /\ b.name = "full-text-html" => b.seen.content # "none"
        /\ b.name = "full-text-pdf" => b.seen.pdf
        /\ b.name = "document-identifier-delete" => ~b.seen.ever
        /\ \/ b.item \in {"none", "stale", "upload"}
           \/ b.item \in FullText /\ b.name = b.item
           \/ b.item \notin FullText /\ Shows(b.item, b.name, b.seen)

ErrorFits(b) ==
    b.at = "error" =>
        b.item = "stale" \/ b.target.name = "delete" \/ b.target.uri = None

PagesInv ==
    /\ document \in Documents \cup {NoDocument}
    /\ AskFits(browser, document)
    /\ PageFits(browser)
    /\ ErrorFits(browser)

\* Requests are for targets of the site, and pages hand on the part they have.
ReachInv ==
    /\ browser.at = "asking" => TargetFits(browser.target)
    /\ browser.at = "page" => PartFits(browser.name, browser.part)

-----------------------------------------------------------------------------
(***************************************************************************)
(* The views that pages name.                                              *)
(***************************************************************************)
LEMMA UriNotEmpty ==
    /\ \A u \in Uris : u # <<>>
    /\ None # <<>>
BY UrisAssumption DEF Clear, None

LEMMA FullTextIs == FullText = {"full-text-html", "full-text-pdf"}
BY DEF FullText, FullTextPages

LEMMA PageNamesAre ==
    PageNames =
        {"full-text-html", "full-text-pdf", "hold-document", "hold-document-success",
         "unhold-document", "unhold-document-success", "publish-document",
         "publish-document-success", "unpublish-document", "unpublish-document-success",
         "document-upload", "upload-document-success", "document-identifiers",
         "document-identifiers-add", "document-identifier-delete", "delete-document",
         "document-history", "document-metadata", "document-downloads", "associated-documents"}
<1>1. \A p : p \in Pages <=>
             \/ p \in FullTextPages \/ p \in HoldPages \/ p \in PublishPages \/ p \in UploadPages
             \/ p \in IdentifiersPages \/ p \in DeletePage \/ p \in HistoryPage
             \/ p \in MetadataPage \/ p \in DownloadsPage \/ p \in AssociatedPage
  BY DEF Pages
<1>2. \A n : (\E p \in FullTextPages : n = p[1]) <=> n \in {"full-text-html", "full-text-pdf"}
  BY DEF FullTextPages
<1>3. \A n : (\E p \in HoldPages : n = p[1]) <=>
             n \in {"hold-document", "hold-document-success",
                    "unhold-document", "unhold-document-success"}
  BY DEF HoldPages
<1>4. \A n : (\E p \in PublishPages : n = p[1]) <=>
             n \in {"publish-document", "publish-document-success",
                    "unpublish-document", "unpublish-document-success"}
  BY DEF PublishPages
<1>5. \A n : (\E p \in UploadPages : n = p[1]) <=>
             n \in {"document-upload", "upload-document-success"}
  BY DEF UploadPages
<1>6. \A n : (\E p \in IdentifiersPages : n = p[1]) <=>
             n \in {"document-identifiers", "document-identifiers-add",
                    "document-identifier-delete"}
  BY DEF IdentifiersPages
<1>7. /\ \A n : (\E p \in DeletePage : n = p[1]) <=> n = "delete-document"
      /\ \A n : (\E p \in HistoryPage : n = p[1]) <=> n = "document-history"
      /\ \A n : (\E p \in MetadataPage : n = p[1]) <=> n = "document-metadata"
      /\ \A n : (\E p \in DownloadsPage : n = p[1]) <=> n = "document-downloads"
      /\ \A n : (\E p \in AssociatedPage : n = p[1]) <=> n = "associated-documents"
  BY DEF DeletePage, HistoryPage, MetadataPage, DownloadsPage, AssociatedPage
<1>8. \A n : n \in PageNames <=> \E p \in Pages : n = p[1]
  BY DEF PageNames
<1> QED BY <1>1, <1>2, <1>3, <1>4, <1>5, <1>6, <1>7, <1>8

LEMMA ViewIs ==
    ASSUME NEW page \in Pages
    PROVE  View(page[1]) = page[2]
<1>1. \A p, q \in Pages : p[1] = q[1] => p[2] = q[2]
  BY DEF Pages, FullTextPages, HoldPages, PublishPages, UploadPages, IdentifiersPages,
         DeletePage, HistoryPage, MetadataPage, DownloadsPage, AssociatedPage
<1> QED BY <1>1 DEF View

\* The views of the pages that items of the toolbar lead to.
LEMMA ItemViews ==
    /\ View("full-text-html") = "judgment_html"
    /\ View("full-text-pdf") = "judgment_pdf"
    /\ View("hold-document") = "hold_judgment"
    /\ View("unhold-document") = "unhold_judgment"
    /\ View("publish-document") = "publish_judgment"
    /\ View("unpublish-document") = "unpublish_judgment"
    /\ View("document-identifiers") = "document_identifiers"
    /\ View("document-history") = "document_history"
    /\ View("document-metadata") = "document_metadata"
    /\ View("document-downloads") = "document_downloads"
    /\ View("associated-documents") = "associated_documents"
<1>1. \A page \in {<<"full-text-html", "judgment_html">>, <<"full-text-pdf", "judgment_pdf">>,
                   <<"hold-document", "hold_judgment">>, <<"unhold-document", "unhold_judgment">>,
                   <<"publish-document", "publish_judgment">>,
                   <<"unpublish-document", "unpublish_judgment">>,
                   <<"document-identifiers", "document_identifiers">>,
                   <<"document-history", "document_history">>,
                   <<"document-metadata", "document_metadata">>,
                   <<"document-downloads", "document_downloads">>,
                   <<"associated-documents", "associated_documents">>} : page \in Pages
  BY DEF Pages, FullTextPages, HoldPages, PublishPages, UploadPages, IdentifiersPages,
         DeletePage, HistoryPage, MetadataPage, DownloadsPage, AssociatedPage
<1> QED BY <1>1, ViewIs

-----------------------------------------------------------------------------
(***************************************************************************)
(* Sequences.                                                              *)
(***************************************************************************)
\* The lengths and the elements of sequences one behind the other.
LEMMA SingleIsSeq == ASSUME NEW S, NEW w \in S PROVE <<w>> \in Seq(S)
OBVIOUS

LEMMA PairIsSeq == ASSUME NEW S, NEW w \in S, NEW x \in S PROVE <<w, x>> \in Seq(S)
OBVIOUS

LEMMA Concat ==
  ASSUME NEW S, NEW u \in Seq(S), NEW v \in Seq(S)
  PROVE  /\ u \o v \in Seq(S) /\ Len(u \o v) = Len(u) + Len(v)
         /\ \A i \in 1..Len(u) : (u \o v)[i] = u[i]
         /\ \A i \in 1..Len(v) : (u \o v)[Len(u) + i] = v[i]
<1>1. \A i \in 1..Len(v) : (u \o v)[Len(u) + i] = v[i]
  OBVIOUS
<1> QED BY <1>1

\* A sequence is the slice of another that has its elements.
LEMMA SliceIs ==
    ASSUME NEW S, NEW u \in Seq(S), NEW a \in Seq(S), NEW m \in Nat, m + Len(u) <= Len(a),
           \A k \in 1..Len(u) : a[m + k] = u[k]
    PROVE  SubSeq(a, m + 1, m + Len(u)) = u
<1> DEFINE b == SubSeq(a, m + 1, m + Len(u))
<1>1. /\ Len(u) \in Nat /\ Len(a) \in Nat
      /\ m + 1 \in Int /\ m + Len(u) \in Int
  OBVIOUS
<1>2. \A k \in (m + 1)..(m + Len(u)) : a[k] \in S
  BY <1>1, ElementOfSeq
<1>3. /\ b \in Seq(S) /\ Len(b) = Len(u)
      /\ \A k \in 1..Len(u) : b[k] = a[m + 1 + k - 1]
  BY <1>1, <1>2, SubSeqProperties
<1> HIDE DEF b
<1>4. \A k \in 1..Len(u) : b[k] = u[k]
  <2> SUFFICES ASSUME NEW k \in 1..Len(u) PROVE b[k] = u[k]
    OBVIOUS
  <2>1. m + 1 + k - 1 = m + k
    BY <1>1
  <2> QED BY <1>3, <2>1
<1>5. b = u
  BY <1>3, <1>4, SeqEqual
<1> QED BY <1>5 DEF b

-----------------------------------------------------------------------------
(***************************************************************************)
(* The patterns.                                                           *)
(***************************************************************************)
\* The patterns are those of the four lists, in their order.
LEMMA PatternsAre ==
    /\ Len(Patterns) = 53 /\ DOMAIN Patterns = 1..53
    /\ \A i \in 1..5 : Patterns[i] = Before[i]
    /\ \A i \in 1..25 : Patterns[5 + i] = Application[i]
    /\ \A i \in 1..22 : Patterns[30 + i] = DocumentPagesRoutes[i]
    /\ Patterns[53] = BareDocument[1]
<1> DEFINE S == {Before[i] : i \in 1..5} \cup {Application[i] : i \in 1..25}
                  \cup {DocumentPagesRoutes[i] : i \in 1..22} \cup {BareDocument[1]}
<1>1. /\ \A i \in 1..5 : Before[i] \in S
      /\ \A i \in 1..25 : Application[i] \in S
      /\ \A i \in 1..22 : DocumentPagesRoutes[i] \in S
      /\ BareDocument[1] \in S
  OBVIOUS
<1> HIDE DEF S
<1>2. Before \in Seq(S) /\ Len(Before) = 5
  BY <1>1 DEF Before
<1>3. Application \in Seq(S) /\ Len(Application) = 25
  BY <1>1, SMTT(60) DEF Application
<1>4. DocumentPagesRoutes \in Seq(S) /\ Len(DocumentPagesRoutes) = 22
  BY <1>1, SMTT(60) DEF DocumentPagesRoutes
<1>5. BareDocument \in Seq(S) /\ Len(BareDocument) = 1
  BY <1>1 DEF BareDocument
<1>6. /\ Before \in Seq(S) /\ Application \in Seq(S)
      /\ DocumentPagesRoutes \in Seq(S) /\ BareDocument \in Seq(S)
  BY <1>2, <1>3, <1>4, <1>5
<1> DEFINE a == Before \o Application
           b == a \o DocumentPagesRoutes
           c == b \o BareDocument
<1>7. /\ a \in Seq(S) /\ Len(a) = Len(Before) + Len(Application)
      /\ \A i \in 1..Len(Before) : a[i] = Before[i]
      /\ \A i \in 1..Len(Application) : a[Len(Before) + i] = Application[i]
  BY <1>6, Concat
<1> HIDE DEF a
<1>8. /\ b \in Seq(S) /\ Len(b) = Len(a) + Len(DocumentPagesRoutes)
      /\ \A i \in 1..Len(a) : b[i] = a[i]
      /\ \A i \in 1..Len(DocumentPagesRoutes) : b[Len(a) + i] = DocumentPagesRoutes[i]
  <2>1. a \in Seq(S)
    BY <1>7
  <2> QED BY <1>6, <2>1, Concat
<1> HIDE DEF b
<1>9. /\ c \in Seq(S) /\ Len(c) = Len(b) + Len(BareDocument)
      /\ \A i \in 1..Len(b) : c[i] = b[i]
      /\ \A i \in 1..Len(BareDocument) : c[Len(b) + i] = BareDocument[i]
  <2>1. b \in Seq(S)
    BY <1>8
  <2> QED BY <1>6, <2>1, Concat
<1>10. c = Patterns
  BY DEF a, b, c, Patterns
<1> HIDE DEF c
<1>11. Len(a) = 30 /\ Len(b) = 52 /\ Len(c) = 53
  BY <1>2, <1>3, <1>4, <1>5, <1>7, <1>8, <1>9
<1>12. /\ \A i \in 1..52 : c[i] = b[i]
       /\ c[52 + 1] = BareDocument[1]
       /\ \A i \in 1..30 : b[i] = a[i]
       /\ \A i \in 1..22 : b[30 + i] = DocumentPagesRoutes[i]
       /\ \A i \in 1..5 : a[i] = Before[i]
       /\ \A i \in 1..25 : a[5 + i] = Application[i]
  BY <1>2, <1>3, <1>4, <1>5, <1>7, <1>8, <1>9, <1>11
<1>13. \A i \in 1..22 : 30 + i \in 1..52
  OBVIOUS
<1>14. \A i \in 1..25 : 5 + i \in 1..30 /\ 5 + i \in 1..52
  OBVIOUS
<1>15. \A i \in 1..5 : i \in 1..30 /\ i \in 1..52
  OBVIOUS
<1>16. Len(c) = 53 /\ DOMAIN c = 1..53
  <2>1. DOMAIN c = 1..Len(c)
    BY <1>9
  <2> QED BY <1>11, <2>1
<1> QED BY <1>10, <1>12, <1>13, <1>14, <1>15, <1>16

One(s) == \E w : s = <<w>>
Two(s) == \E w, x : s = <<w, x>>

LEMMA ShortLengths ==
    ASSUME NEW s
    PROVE  /\ One(s) => Len(s) = 1
           /\ Two(s) => Len(s) = 2
           /\ One(s) \/ Two(s) => 1 \in 1..Len(s) /\ Len(s) \in 1..Len(s)
<1>1. ASSUME One(s) PROVE Len(s) = 1
  <2>1. PICK w : s = <<w>>
    BY <1>1 DEF One
  <2> QED BY <2>1
<1>2. ASSUME Two(s) PROVE Len(s) = 2
  <2>1. PICK w, x : s = <<w, x>>
    BY <1>2 DEF Two
  <2> QED BY <2>1
<1> QED BY <1>1, <1>2

\* The places of the pages that are no document's, and of those that are, but for
\* that of the document itself.
Plain == (1..30) \cup {51}
Paged == (31..52) \ {51}

\* A fact about each pattern follows from one about those of its list.
LEMMA PlacesAre ==
    /\ \A i \in Plain : \/ i \in 1..5 /\ Patterns[i] = Before[i]
                        \/ i - 5 \in 1..25 /\ Patterns[i] = Application[i - 5]
                        \/ i = 51 /\ Patterns[i] = DocumentPagesRoutes[21]
    /\ \A i \in Paged : i - 30 \in (1..22) \ {21} /\ Patterns[i] = DocumentPagesRoutes[i - 30]
    /\ \A i \in 1..53 : i \in Plain \/ i \in Paged \/ i = 53
    /\ Plain \subseteq 1..53 /\ Paged \subseteq 1..53
<1>1. \A i \in 6..30 : i - 5 \in 1..25 /\ Patterns[i] = Application[i - 5]
  <2> SUFFICES ASSUME NEW i \in 6..30
               PROVE  i - 5 \in 1..25 /\ Patterns[i] = Application[i - 5]
    OBVIOUS
  <2>1. i - 5 \in 1..25 /\ 5 + (i - 5) = i
    OBVIOUS
  <2> QED BY <2>1, PatternsAre
<1>2. \A i \in 31..52 : i - 30 \in 1..22 /\ Patterns[i] = DocumentPagesRoutes[i - 30]
  <2> SUFFICES ASSUME NEW i \in 31..52
               PROVE  i - 30 \in 1..22 /\ Patterns[i] = DocumentPagesRoutes[i - 30]
    OBVIOUS
  <2>1. i - 30 \in 1..22 /\ 30 + (i - 30) = i
    OBVIOUS
  <2> QED BY <2>1, PatternsAre
<1>3. Patterns[51] = DocumentPagesRoutes[21]
  BY <1>2
<1> QED BY <1>1, <1>2, <1>3, PatternsAre DEF Plain, Paged


-----------------------------------------------------------------------------
\* The pages that are no document's: fixed words, and one at least but for the
\* home page.
LEMMA PlainAre ==
    \A i \in Plain :
        LET r == Patterns[i] IN
        /\ ~r.has_uri /\ r.rest = <<>>
        /\ i = 6 => r.words = <<>> /\ ~r.has_part
        /\ i # 6 => One(r.words) \/ Two(r.words)
<1>1. \A i \in 1..5 : LET r == Before[i] IN ~r.has_uri /\ r.rest = <<>> /\ One(r.words)
  BY SMTT(60) DEF Before, Fixed, Below, One
<1>2. \A i \in 1..25 :
        LET r == Application[i] IN
        ~r.has_uri /\ r.rest = <<>> /\ (i = 1 => r.words = <<>> /\ ~r.has_part)
  BY SMTT(60) DEF Application, Fixed, Below
<1>3. \A i \in 1..25 :
        LET r == Application[i] IN i # 1 => One(r.words) \/ Two(r.words)
  BY SMTT(60) DEF Application, Fixed, Below, One, Two
<1>4. LET r == DocumentPagesRoutes[21] IN ~r.has_uri /\ r.rest = <<>> /\ One(r.words)
  BY DEF DocumentPagesRoutes, Fixed, One
<1> SUFFICES ASSUME NEW i \in Plain
             PROVE  LET r == Patterns[i] IN
                    /\ ~r.has_uri /\ r.rest = <<>>
                    /\ i = 6 => r.words = <<>> /\ ~r.has_part
                    /\ i # 6 => One(r.words) \/ Two(r.words)
  OBVIOUS
<1>5. CASE i \in 1..5 /\ Patterns[i] = Before[i]
  BY <1>1, <1>5
<1>6. CASE i - 5 \in 1..25 /\ Patterns[i] = Application[i - 5]
  <2>1. i - 5 = 1 <=> i = 6
    BY <1>6 DEF Plain
  <2> QED BY <1>2, <1>3, <1>6, <2>1
<1>7. CASE i = 51 /\ Patterns[i] = DocumentPagesRoutes[21]
  BY <1>4, <1>7
<1> QED BY <1>5, <1>6, <1>7, PlacesAre

\* The pages of documents: words of their own, and but one with more behind.
LEMMA PagedAre ==
    /\ \A i \in Paged :
        LET r == Patterns[i] IN
        /\ r.has_uri
        /\ r.has_part <=> i = 37
        /\ i # 37 => r.rest = <<>>
        /\ i # 36 => One(r.words)
    /\ Patterns[36].words = <<"identifiers", "add">>
    /\ Patterns[37].words = <<"identifiers">> /\ Patterns[37].rest = <<"delete">>
    /\ Patterns[37].name = "document-identifier-delete"
    /\ Patterns[34].words = <<"identifiers">>
    /\ Patterns[48].words = <<"delete">>
<1>1. \A i \in (1..22) \ {21} :
        LET r == DocumentPagesRoutes[i] IN
        /\ r.has_uri
        /\ r.has_part <=> i = 7
        /\ i # 7 => r.rest = <<>>
  BY SMTT(60) DEF DocumentPagesRoutes, Fixed, Document, Within
<1>2. \A i \in (1..22) \ {21} : i # 6 => One(DocumentPagesRoutes[i].words)
  BY SMTT(60) DEF DocumentPagesRoutes, Fixed, Document, Within, One
<1>3. /\ DocumentPagesRoutes[6].words = <<"identifiers", "add">>
      /\ DocumentPagesRoutes[7].words = <<"identifiers">>
      /\ DocumentPagesRoutes[7].rest = <<"delete">>
      /\ DocumentPagesRoutes[7].name = "document-identifier-delete"
      /\ DocumentPagesRoutes[4].words = <<"identifiers">>
      /\ DocumentPagesRoutes[18].words = <<"delete">>
  BY DEF DocumentPagesRoutes, Document, Within
<1>4. /\ 36 \in Paged /\ 36 - 30 = 6 /\ 37 \in Paged /\ 37 - 30 = 7
      /\ 34 \in Paged /\ 34 - 30 = 4 /\ 48 \in Paged /\ 48 - 30 = 18
  BY DEF Paged
<1>5. /\ Patterns[36] = DocumentPagesRoutes[6] /\ Patterns[37] = DocumentPagesRoutes[7]
      /\ Patterns[34] = DocumentPagesRoutes[4] /\ Patterns[48] = DocumentPagesRoutes[18]
  BY <1>4, PlacesAre
<1>6. ASSUME NEW i \in Paged
      PROVE  LET r == Patterns[i] IN
             /\ r.has_uri
             /\ r.has_part <=> i = 37
             /\ i # 37 => r.rest = <<>>
             /\ i # 36 => One(r.words)
  <2>1. /\ i - 30 \in (1..22) \ {21} /\ Patterns[i] = DocumentPagesRoutes[i - 30]
        /\ i - 30 = 7 <=> i = 37
        /\ i - 30 = 6 <=> i = 36
    BY PlacesAre DEF Paged
  <2> QED BY <1>1, <1>2, <2>1
<1> QED BY <1>3, <1>5, <1>6

\* The page of the document itself.
LEMMA BareIs == Patterns[53] = Document("full-text-html", <<>>)
BY PatternsAre DEF BareDocument

\* Single words tell the pages from each other: those of documents, and those of
\* the forms and the old addresses.
LEMMA WordsDiffer ==
    /\ \A i, j \in Paged \ {36, 37} : Patterns[i].words[1] = Patterns[j].words[1] => i = j
    /\ \A i \in Paged \ {36, 37} :
         Patterns[i].words[1] # "add" /\ (Patterns[i].words[1] = "delete" => i = 48)
    /\ \A i, j \in 7..22 : Patterns[i].words[1] = Patterns[j].words[1] => i = j
    /\ \A i \in 1..5, j \in 7..22 : Patterns[i].words[1] # Patterns[j].words[1]
<1>1. \A i, j \in (1..22) \ {6, 7, 21} :
        DocumentPagesRoutes[i].words[1] = DocumentPagesRoutes[j].words[1] => i = j
  BY SMTT(100) DEF DocumentPagesRoutes, Fixed, Document, Within
<1>2. \A i \in (1..22) \ {6, 7, 21} :
        LET w == DocumentPagesRoutes[i].words[1] IN w # "add" /\ (w = "delete" => i = 18)
  BY SMTT(60) DEF DocumentPagesRoutes, Fixed, Document, Within
<1>3. \A i, j \in 2..17 : Application[i].words[1] = Application[j].words[1] => i = j
  BY SMTT(100) DEF Application, Fixed, Below
<1>4. \A i \in 1..5, j \in 2..25 : Before[i].words[1] # Application[j].words[1]
  BY SMTT(100) DEF Application, Before, Fixed, Below
<1>5. \A i \in Paged \ {36, 37} :
        i - 30 \in (1..22) \ {6, 7, 21} /\ Patterns[i] = DocumentPagesRoutes[i - 30]
  BY PlacesAre DEF Paged
<1>6. \A i \in 7..22 : i - 5 \in 2..17 /\ Patterns[i] = Application[i - 5]
  BY PlacesAre DEF Plain
<1>7. ASSUME NEW i \in Paged \ {36, 37}, NEW j \in Paged \ {36, 37},
             Patterns[i].words[1] = Patterns[j].words[1]
      PROVE  i = j
  <2>1. /\ i - 30 \in (1..22) \ {6, 7, 21} /\ Patterns[i] = DocumentPagesRoutes[i - 30]
        /\ j - 30 \in (1..22) \ {6, 7, 21} /\ Patterns[j] = DocumentPagesRoutes[j - 30]
    BY <1>5
  <2>2. i - 30 = j - 30
    BY <1>1, <1>7, <2>1
  <2> QED BY <2>2 DEF Paged
<1>8. ASSUME NEW i \in Paged \ {36, 37}
      PROVE  Patterns[i].words[1] # "add" /\ (Patterns[i].words[1] = "delete" => i = 48)
  <2>1. i - 30 \in (1..22) \ {6, 7, 21} /\ Patterns[i] = DocumentPagesRoutes[i - 30]
    BY <1>5
  <2> QED BY <1>2, <2>1 DEF Paged
<1>9. ASSUME NEW i \in 7..22, NEW j \in 7..22, Patterns[i].words[1] = Patterns[j].words[1]
      PROVE  i = j
  <2>1. /\ i - 5 \in 2..17 /\ Patterns[i] = Application[i - 5]
        /\ j - 5 \in 2..17 /\ Patterns[j] = Application[j - 5]
    BY <1>6
  <2>2. i - 5 = j - 5
    BY <1>3, <1>9, <2>1
  <2> QED BY <2>2
<1>10. ASSUME NEW i \in 1..5, NEW j \in 7..22
       PROVE  Patterns[i].words[1] # Patterns[j].words[1]
  <2>1. /\ j - 5 \in 2..25 /\ Patterns[j] = Application[j - 5]
        /\ Patterns[i] = Before[i]
    BY <1>6, PatternsAre
  <2> QED BY <1>4, <2>1
<1> QED BY <1>7, <1>8, <1>9, <1>10

\* No two patterns have the same name.
LEMMA NamesDiffer ==
    \A i, j \in 1..53 : Patterns[i].name = Patterns[j].name => i = j
<1>1. \A i, j \in 1..5 : Before[i].name = Before[j].name => i = j
  BY SMTT(60) DEF Before, Fixed, Below
<1>2. \A i, j \in 1..25 : Application[i].name = Application[j].name => i = j
  BY SMTT(100) DEF Application, Fixed, Below
<1>3. \A i, j \in 1..22 : DocumentPagesRoutes[i].name = DocumentPagesRoutes[j].name => i = j
  BY SMTT(100) DEF DocumentPagesRoutes, Fixed, Document, Within
<1>4. \A i \in 1..5, j \in 1..25 : Before[i].name # Application[j].name
  BY SMTT(100) DEF Before, Application, Fixed, Below
<1>5. \A i \in 1..5, j \in 1..22 : Before[i].name # DocumentPagesRoutes[j].name
  BY SMTT(100) DEF Before, DocumentPagesRoutes, Fixed, Below, Document, Within
<1>6. \A i \in 1..25, j \in 1..22 : Application[i].name # DocumentPagesRoutes[j].name
  BY SMTT(100) DEF Application, DocumentPagesRoutes, Fixed, Below, Document, Within
<1>7. /\ \A i \in 1..5 : Before[i].name # "full-text-html"
      /\ \A i \in 1..25 : Application[i].name # "full-text-html"
      /\ \A i \in 1..22 : DocumentPagesRoutes[i].name # "full-text-html"
  BY SMTT(60) DEF Before, Application, DocumentPagesRoutes, Fixed, Below, Document, Within
<1>8. Patterns[53].name = "full-text-html"
  BY BareIs DEF Document
<1>9. \A i \in 1..53 : \/ i \in 1..5 /\ Patterns[i] = Before[i]
                       \/ i - 5 \in 1..25 /\ Patterns[i] = Application[i - 5]
                       \/ i - 30 \in 1..22 /\ Patterns[i] = DocumentPagesRoutes[i - 30]
                       \/ i = 53
  BY PlacesAre
<1> SUFFICES ASSUME NEW i \in 1..53, NEW j \in 1..53, Patterns[i].name = Patterns[j].name
             PROVE  i = j
  OBVIOUS
<1> DEFINE First(k) == k \in 1..5 /\ Patterns[k] = Before[k]
           Second(k) == k - 5 \in 1..25 /\ Patterns[k] = Application[k - 5]
           Third(k) == k - 30 \in 1..22 /\ Patterns[k] = DocumentPagesRoutes[k - 30]
<1>10. /\ First(i) \/ Second(i) \/ Third(i) \/ i = 53
       /\ First(j) \/ Second(j) \/ Third(j) \/ j = 53
  BY <1>9
<1>11. ASSUME NEW k \in 1..53, NEW l \in 1..53, Patterns[k].name = Patterns[l].name
       PROVE  /\ ~(First(k) /\ Second(l))
              /\ ~(First(k) /\ Third(l))
              /\ ~(Second(k) /\ Third(l))
  <2>1. ~(First(k) /\ Second(l))
    BY <1>4, <1>11
  <2>2. ~(First(k) /\ Third(l))
    BY <1>5, <1>11
  <2>3. ~(Second(k) /\ Third(l))
    BY <1>6, <1>11
  <2> QED BY <2>1, <2>2, <2>3
<1>12. ASSUME NEW k \in 1..53, Patterns[k].name = "full-text-html"
       PROVE  ~First(k) /\ ~Second(k) /\ ~Third(k)
  BY <1>7, <1>12
<1>13. First(i) /\ First(j) => i = j
  BY <1>1
<1>14. Second(i) /\ Second(j) => i = j
  <2>1. Second(i) /\ Second(j) => i - 5 = j - 5
    BY <1>2
  <2> QED BY <2>1
<1>15. Third(i) /\ Third(j) => i = j
  <2>1. Third(i) /\ Third(j) => i - 30 = j - 30
    BY <1>3
  <2> QED BY <2>1
<1> HIDE DEF First, Second, Third
<1> QED BY <1>8, <1>10, <1>11, <1>12, <1>13, <1>14, <1>15

-----------------------------------------------------------------------------
(***************************************************************************)
(* Addresses.                                                              *)
(***************************************************************************)
Segments == STRING \cup {Patterns[i].words[1] : i \in 1..53}
                   \cup {Patterns[i].words[2] : i \in 1..53} \cup {"delete", "None"}

LEMMA WordsAreSegments ==
    \A i \in 1..53 : Patterns[i].words \in Seq(Segments) /\ Patterns[i].rest \in Seq(Segments)
<1>1. <<>> \in Seq(Segments) /\ <<"delete">> \in Seq(Segments)
  BY SingleIsSeq DEF Segments
<1>2. ASSUME NEW i \in 1..53
      PROVE  Patterns[i].words[1] \in Segments /\ Patterns[i].words[2] \in Segments
  BY DEF Segments
<1>3. ASSUME NEW i \in 1..53, One(Patterns[i].words) PROVE Patterns[i].words \in Seq(Segments)
  <2>1. PICK w : Patterns[i].words = <<w>>
    BY <1>3 DEF One
  <2>2. w \in Segments
    <3>1. Patterns[i].words[1] = w
      BY <2>1
    <3> QED BY <1>2, <3>1
  <2> QED BY <2>1, <2>2, SingleIsSeq
<1>4. ASSUME NEW i \in 1..53, Two(Patterns[i].words) PROVE Patterns[i].words \in Seq(Segments)
  <2>1. PICK w, x : Patterns[i].words = <<w, x>>
    BY <1>4 DEF Two
  <2>2. Patterns[i].words[1] = w /\ Patterns[i].words[2] = x
    BY <2>1
  <2>3. w \in Segments /\ x \in Segments
    BY <1>2, <2>2
  <2> QED BY <2>1, <2>3, PairIsSeq
<1> SUFFICES ASSUME NEW i \in 1..53
             PROVE  Patterns[i].words \in Seq(Segments) /\ Patterns[i].rest \in Seq(Segments)
  OBVIOUS
<1>5. CASE i \in Plain
  <2>1. Patterns[i].rest = <<>>
    BY <1>5, PlainAre
  <2>2. Patterns[i].words = <<>> \/ One(Patterns[i].words) \/ Two(Patterns[i].words)
    BY <1>5, PlainAre
  <2> QED BY <1>1, <1>3, <1>4, <2>1, <2>2
<1>6. CASE i \in Paged
  <2>1. Patterns[i].rest \in {<<>>, <<"delete">>}
    BY <1>6, PagedAre
  <2>2. One(Patterns[i].words) \/ Two(Patterns[i].words)
    BY <1>6, PagedAre DEF Two
  <2> QED BY <1>1, <1>3, <1>4, <2>1, <2>2
<1>7. CASE i = 53
  BY <1>1, <1>7, BareIs DEF Document
<1> QED BY <1>5, <1>6, <1>7, PlacesAre

\* An address, argument by argument and word by word.
Parts(a, i, uri, part) ==
    LET r == Patterns[i] IN
    /\ a \in Seq(Segments)
    /\ Len(a) = Len(uri) + Len(r.words) + Len(part) + Len(r.rest)
    /\ \A k \in 1..Len(uri) : a[k] = uri[k]
    /\ \A k \in 1..Len(r.words) : a[Len(uri) + k] = r.words[k]
    /\ \A k \in 1..Len(part) : a[Len(uri) + Len(r.words) + k] = part[k]
    /\ \A k \in 1..Len(r.rest) : a[Len(uri) + Len(r.words) + Len(part) + k] = r.rest[k]

LEMMA Filled ==
    ASSUME NEW i \in 1..53, NEW uri \in Seq(Segments), NEW part \in Seq(Segments)
    PROVE  Parts(Fill(Patterns[i], uri, part), i, uri, part)
<1> DEFINE words == Patterns[i].words
           rest == Patterns[i].rest
<1>0. words \in Seq(Segments) /\ rest \in Seq(Segments)
  BY WordsAreSegments
<1> HIDE DEF words, rest
<1> DEFINE a == uri \o words
           b == a \o part
           c == b \o rest
<1>1. /\ a \in Seq(Segments) /\ Len(a) = Len(uri) + Len(words)
      /\ \A k \in 1..Len(uri) : a[k] = uri[k]
      /\ \A k \in 1..Len(words) : a[Len(uri) + k] = words[k]
  BY <1>0, Concat
<1> HIDE DEF a
<1>2. /\ b \in Seq(Segments) /\ Len(b) = Len(a) + Len(part)
      /\ \A k \in 1..Len(a) : b[k] = a[k]
      /\ \A k \in 1..Len(part) : b[Len(a) + k] = part[k]
  <2>1. a \in Seq(Segments)
    BY <1>1
  <2> QED BY <1>0, <2>1, Concat
<1> HIDE DEF b
<1>3. /\ c \in Seq(Segments) /\ Len(c) = Len(b) + Len(rest)
      /\ \A k \in 1..Len(b) : c[k] = b[k]
      /\ \A k \in 1..Len(rest) : c[Len(b) + k] = rest[k]
  <2>1. b \in Seq(Segments)
    BY <1>2
  <2> QED BY <1>0, <2>1, Concat
<1> HIDE DEF c
<1>4. Len(uri) \in Nat /\ Len(words) \in Nat /\ Len(part) \in Nat /\ Len(rest) \in Nat
  BY <1>0
<1>5. \A k \in 1..Len(uri) : c[k] = uri[k]
  BY <1>1, <1>2, <1>3, <1>4
<1>6. \A k \in 1..Len(words) : c[Len(uri) + k] = words[k]
  <2> SUFFICES ASSUME NEW k \in 1..Len(words) PROVE c[Len(uri) + k] = words[k]
    OBVIOUS
  <2>1. Len(uri) + k \in 1..Len(a) /\ Len(uri) + k \in 1..Len(b)
    BY <1>1, <1>2, <1>4
  <2>2. c[Len(uri) + k] = b[Len(uri) + k] /\ b[Len(uri) + k] = a[Len(uri) + k]
    BY <1>2, <1>3, <2>1
  <2> QED BY <1>1, <2>2
<1>7. \A k \in 1..Len(part) : c[Len(uri) + Len(words) + k] = part[k]
  <2> SUFFICES ASSUME NEW k \in 1..Len(part) PROVE c[Len(uri) + Len(words) + k] = part[k]
    OBVIOUS
  <2>1. Len(a) + k \in 1..Len(b)
    BY <1>1, <1>2, <1>4
  <2> QED BY <1>1, <1>2, <1>3, <2>1
<1>8. /\ Len(c) = Len(uri) + Len(words) + Len(part) + Len(rest)
      /\ \A k \in 1..Len(rest) : c[Len(uri) + Len(words) + Len(part) + k] = rest[k]
  BY <1>1, <1>2, <1>3
<1>9. Fill(Patterns[i], uri, part) = c
  BY DEF Fill, a, b, c, words, rest
<1> QED BY <1>3, <1>5, <1>6, <1>7, <1>8, <1>9 DEF words, rest, Parts

\* What an address says of a target by a pattern that matches it.
LEMMA MatchIs ==
    ASSUME NEW i \in 1..53, NEW a \in Seq(Segments), NEW t \in TargetsBy(Patterns[i], a)
    PROVE  /\ t = Target(Patterns[i].name, t.uri, t.part)
           /\ t.uri \in Seq(Segments) /\ t.part \in Seq(Segments)
           /\ IF Patterns[i].has_uri THEN t.uri # <<>> ELSE t.uri = <<>>
           /\ IF Patterns[i].has_part THEN t.part # <<>> ELSE t.part = <<>>
           /\ Fill(Patterns[i], t.uri, t.part) = a
<1>1. ASSUME NEW k \in DOMAIN a, NEW l \in DOMAIN a PROVE SubSeq(a, k, l) \in Seq(Segments)
  OBVIOUS
<1>2. <<>> \in Seq(Segments)
  OBVIOUS
<1>3. ASSUME NEW x \in {SubSeq(a, k, l) : k, l \in DOMAIN a} \ {<<>>}
      PROVE  x \in Seq(Segments) /\ x # <<>>
  <2>1. PICK k \in DOMAIN a, l \in DOMAIN a : x = SubSeq(a, k, l)
    OBVIOUS
  <2> QED BY <1>1, <2>1
<1>4. PICK uri \in Arguments(Patterns[i].has_uri, a), part \in Arguments(Patterns[i].has_part, a) :
        t = Target(Patterns[i].name, uri, part)
  BY DEF TargetsBy
<1>5. t.uri = uri /\ t.part = part
  BY <1>4 DEF Target
<1>6. Fill(Patterns[i], t.uri, t.part) = a
  BY DEF TargetsBy
<1>7. uri \in Seq(Segments) /\ IF Patterns[i].has_uri THEN uri # <<>> ELSE uri = <<>>
  <2>1. CASE Patterns[i].has_uri
    <3>1. uri \in {SubSeq(a, k, l) : k, l \in DOMAIN a} \ {<<>>}
      BY <2>1 DEF Arguments
    <3> QED BY <1>3, <2>1, <3>1
  <2>2. CASE ~Patterns[i].has_uri
    <3>1. uri = <<>>
      BY <2>2 DEF Arguments
    <3> QED BY <1>2, <2>2, <3>1
  <2> QED BY <2>1, <2>2
<1>8. part \in Seq(Segments) /\ IF Patterns[i].has_part THEN part # <<>> ELSE part = <<>>
  <2>1. CASE Patterns[i].has_part
    <3>1. part \in {SubSeq(a, k, l) : k, l \in DOMAIN a} \ {<<>>}
      BY <2>1 DEF Arguments
    <3> QED BY <1>3, <2>1, <3>1
  <2>2. CASE ~Patterns[i].has_part
    <3>1. part = <<>>
      BY <2>2 DEF Arguments
    <3> QED BY <1>2, <2>2, <3>1
  <2> QED BY <2>1, <2>2
<1> QED BY <1>4, <1>5, <1>6, <1>7, <1>8

\* A slice of an address that is not empty is among those it is searched for.
LEMMA SliceFound ==
    ASSUME NEW S, NEW u \in Seq(S), NEW a \in Seq(S), NEW m \in Nat, m + Len(u) <= Len(a),
           \A k \in 1..Len(u) : a[m + k] = u[k], u # <<>>
    PROVE  u \in {SubSeq(a, k, l) : k, l \in DOMAIN a} \ {<<>>}
<1>1. SubSeq(a, m + 1, m + Len(u)) = u
  BY SliceIs
<1>2. Len(u) \in Nat \ {0} /\ Len(a) \in Nat /\ DOMAIN a = 1..Len(a)
  BY LenProperties, EmptySeq
<1>3. m + 1 \in DOMAIN a /\ m + Len(u) \in DOMAIN a
  BY <1>2
<1> DEFINE lo == m + 1
           hi == m + Len(u)
<1>4. lo \in DOMAIN a /\ hi \in DOMAIN a /\ SubSeq(a, lo, hi) = u
  BY <1>1, <1>3
<1> HIDE DEF lo, hi
<1> QED BY <1>4

\* The address of a target matches the pattern that it was made by.
LEMMA OwnMatches ==
    ASSUME NEW i \in 1..53, NEW uri \in Seq(Segments), NEW part \in Seq(Segments),
           IF Patterns[i].has_uri THEN uri # <<>> ELSE uri = <<>>,
           IF Patterns[i].has_part THEN part # <<>> ELSE part = <<>>
    PROVE  Target(Patterns[i].name, uri, part) \in
               TargetsBy(Patterns[i], Fill(Patterns[i], uri, part))
<1> DEFINE r == Patterns[i]
           a == Fill(r, uri, part)
           n == Len(uri) + Len(r.words)
<1>1. /\ a \in Seq(Segments)
      /\ Len(a) = Len(uri) + Len(r.words) + Len(part) + Len(r.rest)
      /\ \A k \in 1..Len(uri) : a[k] = uri[k]
      /\ \A k \in 1..Len(part) : a[n + k] = part[k]
  <2>1. Parts(a, i, uri, part)
    BY Filled
  <2> QED BY <2>1 DEF Parts
<1>2. /\ Len(uri) \in Nat /\ Len(part) \in Nat /\ Len(r.words) \in Nat /\ Len(r.rest) \in Nat
  <2>1. r.words \in Seq(Segments) /\ r.rest \in Seq(Segments)
    BY WordsAreSegments
  <2> QED BY <2>1
<1> HIDE DEF a
<1>3. Len(uri) <= Len(a) /\ n \in Nat /\ n + Len(part) <= Len(a)
  <2>1. Len(a) = Len(uri) + Len(r.words) + Len(part) + Len(r.rest)
    BY <1>1
  <2>2. \A k, l, m, o, p \in Nat :
          p = k + l + m + o => k <= p /\ k + l \in Nat /\ k + l + m <= p
    OBVIOUS
  <2>3. Len(a) \in Nat
    <3>1. a \in Seq(Segments)
      BY <1>1
    <3> QED BY <3>1, LenProperties
  <2> QED BY <1>2, <2>1, <2>2, <2>3
<1> DEFINE z == 0
<1>4. /\ z \in Nat /\ z + Len(uri) <= Len(a)
      /\ a \in Seq(Segments) /\ \A k \in 1..Len(uri) : a[z + k] = uri[k]
  <2>1. \A k \in 1..Len(uri) : z + k = k
    OBVIOUS
  <2>2. z \in Nat /\ z + Len(uri) = Len(uri)
    BY <1>2
  <2> HIDE DEF z
  <2> QED BY <1>1, <1>3, <2>1, <2>2
<1>5. a \in Seq(Segments) /\ \A k \in 1..Len(part) : a[n + k] = part[k]
  BY <1>1
<1> HIDE DEF n, z
<1>6. ASSUME uri # <<>> PROVE uri \in {SubSeq(a, k, l) : k, l \in DOMAIN a} \ {<<>>}
  BY <1>4, <1>6, SliceFound
<1>7. ASSUME part # <<>> PROVE part \in {SubSeq(a, k, l) : k, l \in DOMAIN a} \ {<<>>}
  BY <1>3, <1>5, <1>7, SliceFound
<1>8. uri \in Arguments(r.has_uri, a) /\ part \in Arguments(r.has_part, a)
  BY <1>6, <1>7 DEF Arguments
<1>9. LET t == Target(r.name, uri, part) IN Fill(r, t.uri, t.part) = a
  BY DEF Target, a
<1> QED BY <1>8, <1>9 DEF TargetsBy, a

\* A target that alone matches, and at the first pattern that does.
LEMMA FirstMatch ==
    ASSUME NEW k \in 1..53, NEW a, NEW t \in TargetsBy(Patterns[k], a),
           \A s \in TargetsBy(Patterns[k], a) : s = t,
           \A j \in 1..53 : j < k => TargetsBy(Patterns[j], a) = {},
           Len(t.uri) \in Nat
    PROVE  Resolve(a) = t
<1> DEFINE Matching(i) == TargetsBy(Patterns[i], a)
           First(i) == Matching(i) # {} /\ \A j \in 1..(i - 1) : Matching(j) = {}
           first == CHOOSE i \in 1..53 : First(i)
           Best(s) == \A u \in Matching(k) : Len(u.uri) <= Len(s.uri)
<1>1. First(k)
  <2>1. ASSUME NEW j \in 1..(k - 1) PROVE Matching(j) = {}
    <3>1. j \in 1..53 /\ j < k
      OBVIOUS
    <3> QED BY <3>1
  <2> QED BY <2>1
<1>2. \A i \in 1..53 : First(i) => i = k
  <2> SUFFICES ASSUME NEW i \in 1..53, First(i) PROVE i = k
    OBVIOUS
  <2>1. ASSUME i < k PROVE FALSE
    BY <2>1
  <2>2. ASSUME k < i PROVE FALSE
    <3>1. k \in 1..(i - 1)
      BY <2>2
    <3> QED BY <3>1
  <2> QED BY <2>1, <2>2
<1>3. first = k
  <2> HIDE DEF First
  <2> QED BY <1>1, <1>2
<1>4. Best(t)
  OBVIOUS
<1>5. (CHOOSE s \in Matching(k) : Best(s)) = t
  <2> HIDE DEF Best
  <2> QED BY <1>4
<1>6. Resolve(a) = CHOOSE s \in Matching(first) :
                     \A u \in Matching(first) : Len(u.uri) <= Len(s.uri)
  BY PatternsAre DEF Resolve
<1> HIDE DEF first
<1> QED BY <1>3, <1>5, <1>6

LEMMA AddressIs ==
    ASSUME NEW k \in 1..53, NEW t, t.name = Patterns[k].name
    PROVE  Address(t) = Fill(Patterns[k], t.uri, t.part)
<1>1. (CHOOSE i \in 1..53 : Patterns[i].name = t.name) = k
  BY NamesDiffer
<1> QED BY <1>1, PatternsAre DEF Address

-----------------------------------------------------------------------------
(***************************************************************************)
(* Which patterns an address matches.                                      *)
(***************************************************************************)
\* The last word of a page of a document.
End(i) == IF i = 36 THEN "add" ELSE IF i = 37 THEN "delete" ELSE Patterns[i].words[1]

LEMMA EndsDiffer ==
    ASSUME NEW i \in Paged, NEW j \in Paged, End(i) = End(j)
    PROVE  i = j \/ (i = 37 /\ j = 48) \/ (i = 48 /\ j = 37)
BY WordsDiffer DEF End

LEMMA WordsTaken ==
    /\ \A i \in Plain \ {6} : Patterns[i].words[1] \in SiteWords
    /\ \A i \in Paged : End(i) \in PageWords
<1>1. ASSUME NEW i \in Plain \ {6} PROVE Patterns[i].words[1] \in SiteWords
  <2>1. /\ i \in 1..53 /\ ~Patterns[i].has_uri
        /\ One(Patterns[i].words) \/ Two(Patterns[i].words)
    BY PlacesAre, PlainAre
  <2>2. Patterns[i].words # <<>>
    BY <2>1 DEF One, Two
  <2>3. Head(Patterns[i].words) \in SiteWords
    BY <2>1, <2>2, PatternsAre DEF SiteWords
  <2>4. Head(Patterns[i].words) = Patterns[i].words[1]
    BY <2>1 DEF One, Two
  <2> QED BY <2>3, <2>4
<1>2. ASSUME NEW i \in Paged, Patterns[i].words # <<>> PROVE Last(Patterns[i].words) \in PageWords
  BY <1>2, PagedAre, PlacesAre, PatternsAre DEF PageWords
<1>3. ASSUME NEW i \in Paged, One(Patterns[i].words) PROVE Patterns[i].words[1] \in PageWords
  <2>1. PICK w : Patterns[i].words = <<w>>
    BY <1>3 DEF One
  <2>2. Patterns[i].words # <<>> /\ Last(Patterns[i].words) = w /\ Patterns[i].words[1] = w
    BY <2>1 DEF Last
  <2> QED BY <1>2, <2>2
<1>4. "add" \in PageWords
  <2>1. Patterns[36].words = <<"identifiers", "add">> /\ 36 \in Paged
    BY PagedAre DEF Paged
  <2>2. Patterns[36].words # <<>> /\ Last(Patterns[36].words) = "add"
    BY <2>1 DEF Last
  <2> QED BY <1>2, <2>1, <2>2
<1>5. "delete" \in PageWords
  <2>1. Patterns[48].words = <<"delete">> /\ 48 \in Paged
    BY PagedAre DEF Paged
  <2>2. One(Patterns[48].words) /\ Patterns[48].words[1] = "delete"
    BY <2>1 DEF One
  <2> QED BY <1>3, <2>1, <2>2
<1>6. ASSUME NEW i \in Paged PROVE End(i) \in PageWords
  BY <1>3, <1>4, <1>5, PagedAre DEF End
<1> QED BY <1>1, <1>6

LEMMA SameLength ==
    ASSUME NEW i \in 1..53, NEW uri \in Seq(Segments), NEW uri2 \in Seq(Segments),
           NEW a, Parts(a, i, uri, <<>>), Parts(a, i, uri2, <<>>)
    PROVE  Len(uri) = Len(uri2)
<1> DEFINE k == Len(Patterns[i].words)
           l == Len(Patterns[i].rest)
           m == Len(uri)
           n == Len(uri2)
<1>1. Len(a) = m + k + Len(<<>>) + l /\ Len(a) = n + k + Len(<<>>) + l
  BY DEF Parts
<1>2. k \in Nat /\ l \in Nat /\ m \in Nat /\ n \in Nat /\ Len(<<>>) = 0
  <2>1. Patterns[i].words \in Seq(Segments) /\ Patterns[i].rest \in Seq(Segments)
    BY WordsAreSegments
  <2> QED BY <2>1
<1>3. m + k + 0 + l = n + k + 0 + l
  BY <1>1, <1>2
<1> HIDE DEF k, l, m, n
<1>4. m = n
  BY <1>2, <1>3
<1> QED BY <1>4 DEF m, n

\* An address is one way only a URI of some length and an argument.
LEMMA SameArguments ==
    ASSUME NEW i \in 1..53,
           NEW uri \in Seq(Segments), NEW part \in Seq(Segments),
           NEW uri2 \in Seq(Segments), NEW part2 \in Seq(Segments),
           NEW a, Parts(a, i, uri, part), Parts(a, i, uri2, part2),
           Len(uri) = Len(uri2)
    PROVE  uri = uri2 /\ part = part2
<1> DEFINE n == Len(uri) + Len(Patterns[i].words)
<1>1. /\ Len(a) = n + Len(part) + Len(Patterns[i].rest)
      /\ \A k \in 1..Len(uri) : a[k] = uri[k]
      /\ \A k \in 1..Len(part) : a[n + k] = part[k]
  BY DEF Parts
<1>2. /\ Len(a) = n + Len(part2) + Len(Patterns[i].rest)
      /\ \A k \in 1..Len(uri2) : a[k] = uri2[k]
      /\ \A k \in 1..Len(part2) : a[n + k] = part2[k]
  BY DEF Parts
<1>3. n \in Nat /\ Len(part) \in Nat /\ Len(part2) \in Nat /\ Len(Patterns[i].rest) \in Nat
  <2>1. Patterns[i].words \in Seq(Segments) /\ Patterns[i].rest \in Seq(Segments)
    BY WordsAreSegments
  <2> QED BY <2>1
<1> HIDE DEF n
<1>4. Len(part) = Len(part2)
  <2> DEFINE k == Len(part)
             l == Len(part2)
             m == Len(Patterns[i].rest)
  <2>1. n + k + m = n + l + m
    BY <1>1, <1>2
  <2>2. n \in Nat /\ k \in Nat /\ l \in Nat /\ m \in Nat
    BY <1>3
  <2> HIDE DEF k, l, m
  <2>3. k = l
    BY <2>1, <2>2
  <2> QED BY <2>3 DEF k, l
<1>5. uri = uri2
  <2>1. \A k \in 1..Len(uri) : uri[k] = uri2[k]
    BY <1>1, <1>2
  <2> QED BY <2>1, SeqEqual
<1>6. part = part2
  <2>1. \A k \in 1..Len(part) : part[k] = part2[k]
    BY <1>1, <1>2, <1>4
  <2> QED BY <1>4, <2>1, SeqEqual
<1> QED BY <1>5, <1>6

\* An address that begins with none of the site's words is that of no page but a
\* document's.
LEMMA PlainElsewhere ==
    ASSUME NEW i \in Plain, NEW a \in Seq(Segments), a # <<>>, a[1] \notin SiteWords
    PROVE  TargetsBy(Patterns[i], a) = {}
<1> SUFFICES ASSUME NEW t \in TargetsBy(Patterns[i], a) PROVE FALSE
  OBVIOUS
<1>1. i \in 1..53
  BY PlacesAre
<1>2. /\ t.uri = <<>> /\ t.part \in Seq(Segments) /\ Fill(Patterns[i], t.uri, t.part) = a
      /\ ~Patterns[i].has_part => t.part = <<>>
  BY <1>1, PlainAre, MatchIs
<1>3. /\ Len(a) = Len(t.uri) + Len(Patterns[i].words) + Len(t.part) + Len(Patterns[i].rest)
      /\ \A k \in 1..Len(Patterns[i].words) : a[Len(t.uri) + k] = Patterns[i].words[k]
  <2>1. t.uri \in Seq(Segments)
    BY <1>2
  <2>2. Parts(a, i, t.uri, t.part)
    BY <1>1, <1>2, <2>1, Filled
  <2> QED BY <2>2 DEF Parts
<1>4. Len(a) \in Nat \ {0} /\ Len(t.uri) = 0
  BY <1>2, EmptySeq
<1>5. CASE i = 6
  <2>1. Patterns[i].words = <<>> /\ Patterns[i].rest = <<>> /\ t.part = <<>>
    BY <1>2, <1>5, PlainAre
  <2>2. Len(a) = 0
    <3>1. Len(Patterns[i].words) = 0 /\ Len(Patterns[i].rest) = 0 /\ Len(t.part) = 0
      BY <2>1
    <3> QED BY <1>3, <1>4, <3>1
  <2> QED BY <1>4, <2>2
<1>6. CASE i # 6
  <2>1. One(Patterns[i].words) \/ Two(Patterns[i].words)
    BY <1>6, PlainAre
  <2>2. Len(Patterns[i].words) = 1 \/ Len(Patterns[i].words) = 2
    BY <2>1, ShortLengths
  <2>3. a[1] = Patterns[i].words[1]
    <3>1. 1 \in 1..Len(Patterns[i].words)
      BY <2>1, ShortLengths
    <3>2. a[0 + 1] = Patterns[i].words[1]
      BY <1>3, <1>4, <3>1
    <3> QED BY <3>2
  <2> QED BY <1>6, <2>3, WordsTaken
<1> QED BY <1>5, <1>6

\* The address of a page of a document begins with the URI and ends with the page's
\* own word.
LEMMA PagedEnds ==
    ASSUME NEW i \in Paged, NEW uri \in Seq(Segments), NEW part \in Seq(Segments), uri # <<>>,
           i # 37 => part = <<>>
    PROVE  LET a == Fill(Patterns[i], uri, part) IN
           /\ a \in Seq(Segments) /\ a # <<>> /\ a[1] = uri[1] /\ a[Len(a)] = End(i)
<1> DEFINE words == Patterns[i].words
           rest == Patterns[i].rest
           a == Fill(Patterns[i], uri, part)
<1>1. /\ a \in Seq(Segments)
      /\ Len(a) = Len(uri) + Len(words) + Len(part) + Len(rest)
      /\ \A k \in 1..Len(uri) : a[k] = uri[k]
      /\ \A k \in 1..Len(words) : a[Len(uri) + k] = words[k]
      /\ \A k \in 1..Len(rest) : a[Len(uri) + Len(words) + Len(part) + k] = rest[k]
  <2>1. i \in 1..53
    BY PlacesAre
  <2>2. Parts(a, i, uri, part)
    BY <2>1, Filled
  <2> QED BY <2>2 DEF Parts
<1>2. Len(uri) \in Nat \ {0} /\ Len(part) \in Nat
  BY EmptySeq, LenProperties
<1>3. a[1] = uri[1]
  <2>1. 1 \in 1..Len(uri)
    BY <1>2
  <2> QED BY <1>1, <2>1
<1>4. (Len(words) = 1 \/ Len(words) = 2) /\ (Len(rest) = 0 \/ Len(rest) = 1) /\ a[Len(a)] = End(i)
  <2>1. CASE i = 37
    <3>1. words = <<"identifiers">> /\ rest = <<"delete">>
      BY <2>1, PagedAre
    <3>2. Len(words) = 1 /\ Len(rest) = 1 /\ rest[1] = "delete"
      BY <3>1
    <3> HIDE DEF words, rest, a
    <3>3. Len(a) = Len(uri) + Len(words) + Len(part) + 1
      BY <1>1, <3>2
    <3>4. a[Len(uri) + Len(words) + Len(part) + 1] = "delete"
      BY <1>1, <3>2
    <3>5. a[Len(a)] = "delete"
      BY <3>3, <3>4
    <3> QED BY <2>1, <3>2, <3>5 DEF End
  <2>2. CASE i # 37
    <3>1. rest = <<>> /\ part = <<>>
      BY <2>2, PagedAre
    <3>2. Len(rest) = 0 /\ Len(part) = 0
      BY <3>1
    <3>3. /\ Len(words) = 1 \/ Len(words) = 2
          /\ Len(words) \in 1..Len(words) /\ words[Len(words)] = End(i)
      <4>1. CASE i = 36
        <5>1. words = <<"identifiers", "add">>
          BY <4>1, PagedAre
        <5>2. Len(words) = 2 /\ words[2] = "add" /\ Two(words)
          BY <5>1 DEF Two
        <5> QED BY <4>1, <5>2, ShortLengths DEF End
      <4>2. CASE i # 36
        <5>1. PICK w : words = <<w>>
          BY <4>2, PagedAre DEF One
        <5>2. Len(words) = 1 /\ words[1] = w /\ One(words)
          BY <5>1 DEF One
        <5> QED BY <2>2, <4>2, <5>2, ShortLengths DEF End
      <4> QED BY <4>1, <4>2
    <3> HIDE DEF words, rest, a
    <3>4. Len(a) = Len(uri) + Len(words)
      BY <1>1, <1>2, <3>2, <3>3
    <3>5. a[Len(uri) + Len(words)] = words[Len(words)]
      BY <1>1, <3>3
    <3> QED BY <3>2, <3>3, <3>4, <3>5
  <2> QED BY <2>1, <2>2
<1>5. a # <<>>
  <2>1. Len(a) # 0
    <3> HIDE DEF words, rest, a
    <3> QED BY <1>1, <1>2, <1>4
  <2> QED BY <2>1
<1> QED BY <1>1, <1>3, <1>4, <1>5

LEMMA PagedElsewhere ==
    ASSUME NEW i \in Paged, NEW a \in Seq(Segments), a[Len(a)] # End(i)
    PROVE  TargetsBy(Patterns[i], a) = {}
<1> SUFFICES ASSUME NEW t \in TargetsBy(Patterns[i], a) PROVE FALSE
  OBVIOUS
<1>1. i \in 1..53
  BY PlacesAre
<1>2. /\ t.uri \in Seq(Segments) /\ t.part \in Seq(Segments) /\ t.uri # <<>>
      /\ i # 37 => t.part = <<>>
      /\ Fill(Patterns[i], t.uri, t.part) = a
  BY <1>1, PagedAre, MatchIs
<1> QED BY <1>2, PagedEnds

-----------------------------------------------------------------------------
(***************************************************************************)
(* Every page is reached by its own address.                               *)
(***************************************************************************)
\* What Clear says, of any segments.
Apart(uri) ==
    /\ uri \in Seq(Segments) /\ uri # <<>>
    /\ uri[1] \notin SiteWords
    /\ uri[Len(uri)] \notin PageWords
    /\ \A k \in 1..Len(uri) : uri[k] # "identifiers"

LEMMA ClearIs ==
    ASSUME NEW uri, Clear(uri)
    PROVE  Apart(uri)
<1>1. uri \in Seq(STRING) /\ uri # <<>> /\ STRING \subseteq Segments
  BY DEF Clear, Segments
<1>2. uri \in Seq(Segments)
  BY <1>1, SeqMonotonic
<1>3. Head(uri) = uri[1] /\ Last(uri) = uri[Len(uri)]
  BY <1>1 DEF Last
<1>4. \A k \in 1..Len(uri) : uri[k] \in Range(uri)
  BY <1>1 DEF Range
<1> QED BY <1>1, <1>2, <1>3, <1>4 DEF Clear, Apart

\* A URI with the word of its deletion is no address of an identifier's.
LEMMA NoIdentifierIn ==
    ASSUME NEW uri \in Seq(Segments), NEW a \in Seq(Segments),
           \A k \in 1..Len(uri) : uri[k] # "identifiers" /\ a[k] = uri[k],
           Len(a) = Len(uri) + 1
    PROVE  TargetsBy(Patterns[37], a) = {}
<1> SUFFICES ASSUME NEW t \in TargetsBy(Patterns[37], a) PROVE FALSE
  OBVIOUS
<1>1. 37 \in 1..53 /\ 37 \in Paged
  BY DEF Paged
<1>2. /\ Patterns[37].words = <<"identifiers">> /\ Patterns[37].rest = <<"delete">>
      /\ Patterns[37].has_part
  BY <1>1, PagedAre
<1>3. /\ t.uri \in Seq(Segments) /\ t.part \in Seq(Segments) /\ t.part # <<>>
      /\ Fill(Patterns[37], t.uri, t.part) = a
  BY <1>1, <1>2, MatchIs
<1>4. /\ Len(a) = Len(t.uri) + Len(Patterns[37].words) + Len(t.part) + Len(Patterns[37].rest)
      /\ \A k \in 1..Len(Patterns[37].words) : a[Len(t.uri) + k] = Patterns[37].words[k]
  <2>1. Parts(a, 37, t.uri, t.part)
    BY <1>1, <1>3, Filled
  <2> QED BY <2>1 DEF Parts
<1>5. /\ Len(Patterns[37].words) = 1 /\ Len(Patterns[37].rest) = 1
      /\ Patterns[37].words[1] = "identifiers"
  BY <1>2
<1> DEFINE m == Len(t.uri)
           n == Len(t.part)
           l == Len(uri)
<1>6. Len(a) = m + 1 + n + 1
  BY <1>4, <1>5
<1>7. a[m + 1] = "identifiers"
  <2>1. 1 \in 1..Len(Patterns[37].words)
    BY <1>5
  <2> QED BY <1>4, <1>5, <2>1
<1>8. m \in Nat /\ n \in Nat \ {0} /\ l \in Nat
  BY <1>3, EmptySeq, LenProperties
<1>9. l + 1 = m + 1 + n + 1
  BY <1>6
<1> HIDE DEF m, n
<1>10. m + 1 \in 1..l
  BY <1>8, <1>9
<1> QED BY <1>7, <1>10

\* A page of a document, with its word behind the URI.
LEMMA PageResolves ==
    ASSUME NEW k \in Paged \ {37}, NEW uri, Apart(uri)
    PROVE  Resolve(Fill(Patterns[k], uri, <<>>)) = Target(Patterns[k].name, uri, <<>>)
<1> DEFINE a == Fill(Patterns[k], uri, <<>>)
           t == Target(Patterns[k].name, uri, <<>>)
<1>1. /\ uri \in Seq(Segments) /\ uri # <<>> /\ uri[1] \notin SiteWords
      /\ \A l \in 1..Len(uri) : uri[l] # "identifiers"
      /\ <<>> \in Seq(Segments)
  BY EmptySeq DEF Apart
<1>2. k \in 1..53 /\ Patterns[k].has_uri /\ ~Patterns[k].has_part
  BY PlacesAre, PagedAre
<1>3. a \in Seq(Segments) /\ a # <<>> /\ a[1] \notin SiteWords /\ a[Len(a)] = End(k)
  BY <1>1, PagedEnds
<1>4. t \in TargetsBy(Patterns[k], a)
  BY <1>1, <1>2, OwnMatches
<1>5. ASSUME NEW s \in TargetsBy(Patterns[k], a) PROVE s = t
  <2>1. /\ s.uri \in Seq(Segments) /\ s.part = <<>> /\ Fill(Patterns[k], s.uri, s.part) = a
        /\ s = Target(Patterns[k].name, s.uri, s.part)
    BY <1>2, <1>3, MatchIs
  <2>2. Parts(a, k, uri, <<>>) /\ Parts(a, k, s.uri, <<>>)
    BY <1>1, <1>2, <2>1, Filled
  <2>3. Len(s.uri) = Len(uri)
    BY <1>1, <1>2, <2>1, <2>2, SameLength
  <2>4. s.uri = uri
    BY <1>1, <1>2, <2>1, <2>2, <2>3, SameArguments
  <2> QED BY <2>1, <2>4
<1>6. ASSUME NEW j \in 1..53, j < k PROVE TargetsBy(Patterns[j], a) = {}
  <2>1. j \in Plain \/ j \in Paged
    BY <1>2, <1>6, PlacesAre DEF Paged
  <2>2. CASE j \in Plain
    BY <1>3, <2>2, PlainElsewhere
  <2>3. CASE j \in Paged /\ End(j) # End(k)
    BY <1>3, <2>3, PagedElsewhere
  <2>4. CASE j \in Paged /\ End(j) = End(k)
    <3>1. j = 37 /\ k = 48
      BY <1>2, <1>6, <2>4, EndsDiffer
    <3>2. Len(a) = Len(uri) + 1 /\ \A l \in 1..Len(uri) : a[l] = uri[l]
      <4>1. Patterns[48].words = <<"delete">> /\ Patterns[48].rest = <<>>
        BY <3>1, PagedAre
      <4>2. /\ Len(a) = Len(uri) + Len(Patterns[k].words) + Len(<<>>) + Len(Patterns[k].rest)
            /\ \A l \in 1..Len(uri) : a[l] = uri[l]
        <5>1. Parts(a, k, uri, <<>>)
          BY <1>1, <1>2, Filled
        <5> QED BY <5>1 DEF Parts
      <4>3. /\ Len(Patterns[k].words) = 1 /\ Len(Patterns[k].rest) = 0
            /\ Len(<<>>) = 0 /\ Len(uri) \in Nat
        BY <1>1, <3>1, <4>1
      <4> HIDE DEF a
      <4> QED BY <4>2, <4>3
    <3> HIDE DEF a
    <3> QED BY <1>1, <1>3, <3>1, <3>2, NoIdentifierIn
  <2> QED BY <2>1, <2>2, <2>3, <2>4
<1>7. Len(t.uri) \in Nat
  BY <1>1 DEF Target
<1> HIDE DEF a, t
<1>8. Resolve(a) = t
  BY <1>2, <1>4, <1>5, <1>6, <1>7, FirstMatch
<1> QED BY <1>8 DEF a, t

\* The page of the document itself, which no other pattern takes.
LEMMA BareResolves ==
    ASSUME NEW uri, Apart(uri)
    PROVE  Resolve(Fill(Patterns[53], uri, <<>>)) = Target(Patterns[53].name, uri, <<>>)
<1> DEFINE a == Fill(Patterns[53], uri, <<>>)
           t == Target(Patterns[53].name, uri, <<>>)
<1>1. /\ uri \in Seq(Segments) /\ uri # <<>> /\ uri[1] \notin SiteWords
      /\ uri[Len(uri)] \notin PageWords
      /\ <<>> \in Seq(Segments)
  BY EmptySeq DEF Apart
<1>2. /\ Patterns[53].has_uri /\ ~Patterns[53].has_part
      /\ Patterns[53].words = <<>> /\ Patterns[53].rest = <<>>
      /\ 53 \in 1..53
  BY BareIs DEF Document
<1>3. a = uri /\ a \in Seq(Segments)
  BY <1>1, <1>2, ConcatEmptySeq DEF Fill
<1>4. t \in TargetsBy(Patterns[53], a)
  BY <1>1, <1>2, OwnMatches
<1>5. ASSUME NEW s \in TargetsBy(Patterns[53], a) PROVE s = t
  <2>1. /\ s.uri \in Seq(Segments) /\ s.part = <<>> /\ Fill(Patterns[53], s.uri, s.part) = a
        /\ s = Target(Patterns[53].name, s.uri, s.part)
    BY <1>1, <1>2, <1>3, MatchIs
  <2>2. Fill(Patterns[53], s.uri, s.part) = s.uri
    BY <1>2, <2>1, ConcatEmptySeq DEF Fill
  <2> QED BY <1>3, <2>1, <2>2
<1>6. ASSUME NEW j \in 1..53, j < 53 PROVE TargetsBy(Patterns[j], a) = {}
  <2>1. CASE j \in Plain
    BY <1>1, <1>3, <2>1, PlainElsewhere
  <2>2. CASE j \in Paged
    <3>1. End(j) \in PageWords
      BY <2>2, WordsTaken
    <3> QED BY <1>1, <1>3, <2>2, <3>1, PagedElsewhere
  <2>3. j # 53
    BY <1>6
  <2> QED BY <2>1, <2>2, <2>3, PlacesAre
<1>7. Len(t.uri) \in Nat
  BY <1>1 DEF Target
<1> HIDE DEF a, t
<1>8. Resolve(a) = t
  BY <1>2, <1>4, <1>5, <1>6, <1>7, FirstMatch
<1> QED BY <1>8 DEF a, t

\* The page that deletes an identifier: the address has the word "identifiers" once.
LEMMA IdentifierResolves ==
    ASSUME NEW uri, Apart(uri), NEW part \in Seq(Segments), part # <<>>,
           \A k \in 1..Len(part) : part[k] # "identifiers"
    PROVE  Resolve(Fill(Patterns[37], uri, part)) = Target(Patterns[37].name, uri, part)
<1> DEFINE a == Fill(Patterns[37], uri, part)
           t == Target(Patterns[37].name, uri, part)
<1>1. /\ uri \in Seq(Segments) /\ uri # <<>> /\ uri[1] \notin SiteWords
      /\ \A k \in 1..Len(uri) : uri[k] # "identifiers"
  BY DEF Apart
<1>2. /\ 37 \in 1..53 /\ 37 \in Paged
      /\ Patterns[37].has_uri /\ Patterns[37].has_part
      /\ Patterns[37].words = <<"identifiers">> /\ Patterns[37].rest = <<"delete">>
  <2>1. 37 \in Paged
    BY DEF Paged
  <2> QED BY <2>1, PagedAre
<1>3. a \in Seq(Segments) /\ a # <<>> /\ a[1] \notin SiteWords /\ a[Len(a)] = End(37)
  BY <1>1, <1>2, PagedEnds
<1>4. t \in TargetsBy(Patterns[37], a)
  BY <1>1, <1>2, OwnMatches
<1>5. /\ Len(Patterns[37].words) = 1 /\ Len(Patterns[37].rest) = 1
      /\ Patterns[37].words[1] = "identifiers" /\ Patterns[37].rest[1] = "delete"
  BY <1>2
<1>6. ASSUME NEW u \in Seq(Segments), NEW p \in Seq(Segments), Parts(a, 37, u, p)
      PROVE  /\ Len(a) = Len(u) + 1 + Len(p) + 1
             /\ \A k \in 1..Len(u) : a[k] = u[k]
             /\ a[Len(u) + 1] = "identifiers"
             /\ \A k \in 1..Len(p) : a[Len(u) + 1 + k] = p[k]
             /\ a[Len(u) + 1 + Len(p) + 1] = "delete"
  <2>1. 1 \in 1..Len(Patterns[37].words) /\ 1 \in 1..Len(Patterns[37].rest)
    BY <1>5
  <2> QED BY <1>5, <1>6, <2>1 DEF Parts
<1> DEFINE m == Len(uri)
           n == Len(part)
<1>7. /\ m \in Nat /\ n \in Nat
      /\ Len(a) = m + 1 + n + 1
      /\ \A k \in 1..m : a[k] # "identifiers"
      /\ \A k \in 1..n : a[m + 1 + k] # "identifiers"
      /\ a[m + 1 + n + 1] = "delete"
  <2>1. Parts(a, 37, uri, part)
    BY <1>1, <1>2, Filled
  <2>2. /\ Len(a) = m + 1 + n + 1
        /\ \A k \in 1..m : a[k] = uri[k]
        /\ \A k \in 1..n : a[m + 1 + k] = part[k]
        /\ a[m + 1 + n + 1] = "delete"
    BY <1>1, <1>6, <2>1
  <2>3. m \in Nat /\ n \in Nat
    BY <1>1, LenProperties
  <2> HIDE DEF a
  <2> QED BY <1>1, <2>2, <2>3
<1>8. ASSUME NEW k \in 1..(m + 1 + n + 1), a[k] = "identifiers" PROVE k = m + 1
  <2> HIDE DEF a, m, n
  <2>1. CASE k \in 1..m
    BY <1>7, <1>8, <2>1
  <2>2. CASE k - (m + 1) \in 1..n
    <3>1. k = m + 1 + (k - (m + 1))
      BY <1>7
    <3> QED BY <1>7, <1>8, <2>2, <3>1
  <2>3. CASE k = m + 1 + n + 1
    BY <1>7, <1>8, <2>3
  <2> QED BY <1>7, <2>1, <2>2, <2>3
<1>9. ASSUME NEW s \in TargetsBy(Patterns[37], a) PROVE s = t
  <2>1. /\ s.uri \in Seq(Segments) /\ s.part \in Seq(Segments)
        /\ Fill(Patterns[37], s.uri, s.part) = a
        /\ s = Target(Patterns[37].name, s.uri, s.part)
    BY <1>2, <1>3, MatchIs
  <2>2. Parts(a, 37, s.uri, s.part)
    BY <1>2, <2>1, Filled
  <2>3. Len(a) = Len(s.uri) + 1 + Len(s.part) + 1 /\ a[Len(s.uri) + 1] = "identifiers"
    BY <1>6, <2>1, <2>2
  <2> DEFINE k == Len(s.uri)
             l == Len(s.part)
  <2>4. k \in Nat /\ l \in Nat
    BY <2>1, LenProperties
  <2>5. k + 1 + l + 1 = m + 1 + n + 1 /\ a[k + 1] = "identifiers"
    BY <1>7, <2>3
  <2> HIDE DEF k, l, m, n, a, t
  <2>6. k + 1 \in 1..(m + 1 + n + 1)
    BY <1>7, <2>4, <2>5
  <2>7. k + 1 = m + 1
    BY <1>8, <2>5, <2>6
  <2>8. Len(s.uri) = Len(uri)
    BY <1>7, <2>4, <2>7 DEF k, m
  <2>9. Parts(a, 37, uri, part)
    BY <1>1, <1>2, Filled DEF a
  <2>10. s.uri = uri /\ s.part = part
    BY <1>1, <1>2, <2>1, <2>2, <2>8, <2>9, SameArguments
  <2> QED BY <2>1, <2>10 DEF t
<1>10. ASSUME NEW j \in 1..53, j < 37 PROVE TargetsBy(Patterns[j], a) = {}
  <2>1. CASE j \in Plain
    BY <1>3, <2>1, PlainElsewhere
  <2>2. CASE j \in Paged
    <3>1. End(j) # End(37)
      BY <1>2, <1>10, <2>2, EndsDiffer
    <3> QED BY <1>3, <2>2, <3>1, PagedElsewhere
  <2>3. j # 53
    BY <1>10
  <2> QED BY <2>1, <2>2, <2>3, PlacesAre
<1>11. Len(t.uri) \in Nat
  BY <1>1 DEF Target
<1> HIDE DEF a, t
<1>12. Resolve(a) = t
  BY <1>2, <1>4, <1>9, <1>10, <1>11, FirstMatch
<1> QED BY <1>12 DEF a, t

\* The forms and the old addresses: one word, that no earlier pattern has.
LEMMA VerbResolves ==
    ASSUME NEW k \in 10..22
    PROVE  Resolve(Fill(Patterns[k], <<>>, <<>>)) = Target(Patterns[k].name, <<>>, <<>>)
<1> DEFINE a == Fill(Patterns[k], <<>>, <<>>)
           t == Target(Patterns[k].name, <<>>, <<>>)
<1>1. \A i \in 2..17 :
        LET r == Application[i] IN One(r.words) /\ (i # 4 => ~r.has_part)
  BY SMTT(60) DEF Application, Fixed, Below, One
<1>2. \A i \in 1..5 : One(Before[i].words)
  BY SMTT(60) DEF Before, Fixed, Below, One
<1>3. ASSUME NEW j \in 1..22, j # 6
      PROVE  /\ j \in Plain /\ j \in 1..53
             /\ One(Patterns[j].words) /\ (j \in 10..22 => ~Patterns[j].has_part)
  <2>1. CASE j \in 1..5
    BY <1>2, <2>1, PatternsAre DEF Plain
  <2>2. CASE j \in 7..22
    <3>1. j - 5 \in 2..17 /\ 5 + (j - 5) = j /\ j - 5 \in 1..25 /\ (j \in 10..22 => j - 5 # 4)
      BY <2>2
    <3>2. Patterns[j] = Application[j - 5]
      BY <3>1, PatternsAre
    <3>3. j \in Plain /\ j \in 1..53
      BY <2>2 DEF Plain
    <3> QED BY <1>1, <2>2, <3>1, <3>2, <3>3
  <2> QED BY <1>3, <2>1, <2>2
<1>4. /\ k \in Plain /\ k \in 1..53 /\ One(Patterns[k].words) /\ ~Patterns[k].has_part
      /\ ~Patterns[k].has_uri /\ Patterns[k].rest = <<>> /\ <<>> \in Seq(Segments)
  <2>1. /\ k \in Plain /\ k \in 1..53
        /\ One(Patterns[k].words) /\ ~Patterns[k].has_part
    BY <1>3
  <2>2. ~Patterns[k].has_uri /\ Patterns[k].rest = <<>>
    BY <2>1, PlainAre
  <2> QED BY <2>1, <2>2, EmptySeq
<1>5. t \in TargetsBy(Patterns[k], a)
  BY <1>4, OwnMatches
<1>6. ASSUME NEW s \in TargetsBy(Patterns[k], a) PROVE s = t
  <2>1. a \in Seq(Segments)
    <3>1. Parts(a, k, <<>>, <<>>)
      BY <1>4, Filled
    <3> QED BY <3>1 DEF Parts
  <2>2. s.uri = <<>> /\ s.part = <<>> /\ s = Target(Patterns[k].name, s.uri, s.part)
    BY <1>4, <2>1, MatchIs
  <2> QED BY <2>2
<1>7. PICK w : Patterns[k].words = <<w>>
  BY <1>4 DEF One
<1>8. a = <<w>> /\ Patterns[k].words[1] = w
  <2>1. a = <<>> \o <<w>> \o <<>> \o <<>>
    BY <1>4, <1>7 DEF Fill
  <2>2. <<w>> \in Seq({w}) /\ <<>> \o <<w>> = <<w>> /\ <<w>> \o <<>> = <<w>>
    OBVIOUS
  <2> QED BY <1>7, <2>1, <2>2
<1>9. ASSUME NEW j \in 1..53, j < k PROVE TargetsBy(Patterns[j], a) = {}
  <2> SUFFICES ASSUME NEW s \in TargetsBy(Patterns[j], a) PROVE FALSE
    OBVIOUS
  <2>1. j \in 1..22 /\ j \in Plain /\ j \in 1..53
    BY <1>9 DEF Plain
  <2>2. a \in Seq(Segments)
    <3>1. Parts(a, k, <<>>, <<>>)
      BY <1>4, Filled
    <3> QED BY <3>1 DEF Parts
  <2>3. /\ s.uri = <<>> /\ s.part \in Seq(Segments) /\ Fill(Patterns[j], s.uri, s.part) = a
        /\ j = 6 => s.part = <<>> /\ Patterns[j].words = <<>>
        /\ Patterns[j].rest = <<>>
    BY <2>1, <2>2, PlainAre, MatchIs
  <2>4. Parts(a, j, s.uri, s.part)
    BY <1>4, <2>1, <2>3, Filled
  <2>5. /\ Len(a) = Len(s.uri) + Len(Patterns[j].words) + Len(s.part) + Len(Patterns[j].rest)
        /\ \A l \in 1..Len(Patterns[j].words) : a[Len(s.uri) + l] = Patterns[j].words[l]
    BY <2>4 DEF Parts
  <2>6. Len(a) = 1 /\ a[1] = w /\ Len(s.uri) = 0 /\ Len(Patterns[j].rest) = 0
    BY <1>8, <2>3
  <2>7. CASE j = 6
    <3>1. Len(s.part) = 0 /\ Len(Patterns[j].words) = 0
      BY <2>3, <2>7
    <3> QED BY <2>5, <2>6, <3>1
  <2>8. CASE j # 6
    <3>1. PICK x : Patterns[j].words = <<x>>
      BY <1>3, <2>1, <2>8 DEF One
    <3>2. Len(Patterns[j].words) = 1 /\ Patterns[j].words[1] = x
      BY <3>1
    <3>3. a[1] = x
      <4>1. 1 \in 1..Len(Patterns[j].words)
        BY <3>2
      <4>2. a[0 + 1] = Patterns[j].words[1]
        BY <2>5, <2>6, <4>1
      <4> QED BY <3>2, <4>2
    <3>4. Patterns[j].words[1] = Patterns[k].words[1]
      BY <1>8, <2>6, <3>2, <3>3
    <3>5. k \in 7..22 /\ (j \in 1..5 \/ j \in 7..22)
      BY <2>1, <2>8
    <3>6. j = k
      BY <3>4, <3>5, WordsDiffer
    <3> QED BY <1>9, <3>6
  <2> QED BY <2>7, <2>8
<1>10. Len(t.uri) \in Nat
  BY DEF Target
<1> HIDE DEF a, t
<1>11. Resolve(a) = t
  BY <1>4, <1>5, <1>6, <1>9, <1>10, FirstMatch
<1> QED BY <1>11 DEF a, t

LEMMA NamesArePlaced ==
    /\ \A n \in DocumentNames : n = "full-text-html" \/ \E k \in Paged : Patterns[k].name = n
    /\ \A n \in FormNames \cup OldNames : \E k \in 10..22 : Patterns[k].name = n
<1>1. \A n \in DocumentNames :
        n = "full-text-html" \/ \E k \in (1..22) \ {21} : DocumentPagesRoutes[k].name = n
  BY PageNamesAre, SMTT(60) DEF DocumentNames, DocumentPagesRoutes, Document, Within
<1>2. \A n \in FormNames \cup OldNames : \E k \in 5..17 : Application[k].name = n
  BY SMTT(60) DEF FormNames, OldNames, Application, Fixed, Below
<1>3. ASSUME NEW k \in (1..22) \ {21}
      PROVE  30 + k \in Paged /\ Patterns[30 + k] = DocumentPagesRoutes[k]
  BY PatternsAre DEF Paged
<1>4. ASSUME NEW k \in 5..17 PROVE 5 + k \in 10..22 /\ Patterns[5 + k] = Application[k]
  BY PatternsAre
<1>5. ASSUME NEW n \in DocumentNames, n # "full-text-html"
      PROVE  \E k \in Paged : Patterns[k].name = n
  <2>1. PICK k \in (1..22) \ {21} : DocumentPagesRoutes[k].name = n
    BY <1>1, <1>5
  <2>2. 30 + k \in Paged /\ Patterns[30 + k].name = n
    BY <1>3, <2>1
  <2> QED BY <2>2
<1>6. ASSUME NEW n \in FormNames \cup OldNames PROVE \E k \in 10..22 : Patterns[k].name = n
  <2>1. PICK k \in 5..17 : Application[k].name = n
    BY <1>2
  <2>2. 5 + k \in 10..22 /\ Patterns[5 + k].name = n
    BY <1>4, <2>1
  <2> QED BY <2>2
<1> QED BY <1>5, <1>6

\* The addresses that the assumption is about, and "None", which stands for the URI
\* of a document that there is not.
LEMMA AddressesApart ==
    \A uri \in Uris \cup {RelatedUri(u) : u \in Uris} \cup {None} : Apart(uri)
<1>1. None # <<>> /\ Len(None) = 1 /\ None[1] = "None"
  BY DEF None
<1>2. None \in Seq(Segments)
  BY SingleIsSeq DEF None, Segments
<1>3. "None" \notin SiteWords
  <2> SUFFICES ASSUME "None" \in SiteWords PROVE FALSE
    OBVIOUS
  <2>1. PICK i \in 1..53 : /\ ~Patterns[i].has_uri /\ Patterns[i].words # <<>>
                           /\ Head(Patterns[i].words) = "None"
    BY PatternsAre DEF SiteWords
  <2>2. i \in Plain /\ i # 6
    <3>1. i \notin Paged
      BY <2>1, PagedAre
    <3>2. i # 53
      BY <2>1, BareIs DEF Document
    <3>3. i # 6
      <4>1. 6 \in Plain
        BY DEF Plain
      <4>2. Patterns[6].words = <<>>
        BY <4>1, PlainAre
      <4> QED BY <2>1, <4>2
    <3> QED BY <3>1, <3>2, <3>3, PlacesAre
  <2>3. Patterns[i].words[1] = "None"
    BY <2>1, <2>2, PlainAre DEF One, Two
  <2>4. \A k \in 1..5 : Before[k].words[1] # "None"
    BY SMTT(60) DEF Before, Fixed, Below
  <2>5. \A k \in 2..25 : Application[k].words[1] # "None"
    BY SMTT(60) DEF Application, Fixed, Below
  <2>6. DocumentPagesRoutes[21].words[1] # "None"
    BY DEF DocumentPagesRoutes, Fixed
  <2>7. CASE i \in 1..5 /\ Patterns[i] = Before[i]
    BY <2>3, <2>4, <2>7
  <2>8. CASE i - 5 \in 1..25 /\ Patterns[i] = Application[i - 5]
    <3>1. i - 5 \in 2..25
      BY <2>2, <2>8
    <3> QED BY <2>3, <2>5, <2>8, <3>1
  <2>9. CASE Patterns[i] = DocumentPagesRoutes[21]
    BY <2>3, <2>6, <2>9
  <2> QED BY <2>2, <2>7, <2>8, <2>9, PlacesAre
<1>4. "None" \notin PageWords
  <2> SUFFICES ASSUME "None" \in PageWords PROVE FALSE
    OBVIOUS
  <2>1. PICK i \in 1..53 : /\ Patterns[i].has_uri /\ Patterns[i].words # <<>>
                           /\ Last(Patterns[i].words) = "None"
    BY PatternsAre DEF PageWords
  <2>2. i \in Paged
    <3>1. i \notin Plain
      BY <2>1, PlainAre
    <3>2. i # 53
      BY <2>1, BareIs DEF Document
    <3> QED BY <3>1, <3>2, PlacesAre
  <2>3. \A k \in (1..22) \ {6, 21} : DocumentPagesRoutes[k].words[1] # "None"
    BY SMTT(60) DEF DocumentPagesRoutes, Fixed, Document, Within
  <2>4. CASE i = 36
    <3>1. Patterns[i].words = <<"identifiers", "add">>
      BY <2>4, PagedAre
    <3> QED BY <2>1, <3>1 DEF Last
  <2>5. CASE i # 36
    <3>1. PICK w : Patterns[i].words = <<w>>
      BY <2>2, <2>5, PagedAre DEF One
    <3>2. w = "None"
      BY <2>1, <3>1 DEF Last
    <3>3. i - 30 \in (1..22) \ {6, 21} /\ Patterns[i] = DocumentPagesRoutes[i - 30]
      BY <2>2, <2>5, PlacesAre DEF Paged
    <3> QED BY <2>3, <3>1, <3>2, <3>3
  <2> QED BY <2>4, <2>5
<1>5. Apart(None)
  BY <1>1, <1>2, <1>3, <1>4 DEF Apart
<1> QED BY <1>5, ClearIs, UrisAssumption

\* What LinksResolve says, of all targets: each leads to itself.
LEMMA TargetsReached ==
    ASSUME NEW t, TargetFits(t)
    PROVE  LeadsTo[t] = t
<1>1. /\ t.name \in DocumentNames => Apart(t.uri)
      /\ t.name = "document-identifier-delete" <=> t.name = Patterns[37].name
  <2>1. (FormNames \cup OldNames) \cap DocumentNames = {}
    BY PageNamesAre DEF DocumentNames, FormNames, OldNames
  <2>2. t.name \in DocumentNames => t.uri \in Uris \cup {RelatedUri(u) : u \in Uris} \cup {None}
    BY <2>1 DEF TargetFits, PartFits
  <2> QED BY <2>2, AddressesApart, PagedAre
<1>2. ASSUME NEW k \in 1..53, t.name = Patterns[k].name,
             Resolve(Fill(Patterns[k], t.uri, t.part)) = Target(Patterns[k].name, t.uri, t.part)
      PROVE  Resolve(Address(t)) = t /\ t \in Targets
  <2>1. Resolve(Address(t)) = t
    BY <1>2, AddressIs DEF TargetFits, PartFits
  <2>2. /\ t.part \in Uuids \cup {<<>>}
        /\ t.uri \in Uris \cup {RelatedUri(u) : u \in Uris} \cup {<<>>, <<"None">>}
    BY DEF TargetFits, PartFits, None
  <2>3. t = Target(Patterns[k].name, t.uri, t.part) /\ k \in DOMAIN Patterns
    BY <1>2, PatternsAre DEF TargetFits, PartFits
  <2>4. t \in Targets
    BY <2>2, <2>3 DEF Targets
  <2> QED BY <2>1, <2>4
<1>3. Resolve(Address(t)) = t /\ t \in Targets
  <2>1. CASE t.name \in DocumentNames /\ t.name = "full-text-html"
    <3>1. t.part = <<>> /\ Patterns[53].name = t.name
      BY <2>1, BareIs DEF TargetFits, PartFits, Document
    <3> QED BY <1>1, <1>2, <2>1, <3>1, BareResolves
  <2>2. CASE t.name \in DocumentNames /\ t.name # "full-text-html"
    <3>1. PICK k \in Paged : Patterns[k].name = t.name
      BY <2>2, NamesArePlaced
    <3>2. k \in 1..53 /\ Apart(t.uri)
      BY <1>1, <2>2, PlacesAre
    <3>3. CASE k = 37
      <4>1. t.part \in Uuids
        BY <1>1, <3>1, <3>3 DEF TargetFits, PartFits
      <4>2. /\ t.part \in Seq(Segments) /\ t.part # <<>>
            /\ \A l \in 1..Len(t.part) : t.part[l] # "identifiers"
        <5>1. t.part \in Seq(STRING) /\ t.part # <<>> /\ "identifiers" \notin Range(t.part)
          BY <4>1, UuidsAssumption
        <5>2. t.part \in Seq(Segments)
          BY <5>1, SeqMonotonic DEF Segments
        <5> QED BY <5>1, <5>2 DEF Range
      <4>3. Resolve(Fill(Patterns[37], t.uri, t.part)) = Target(Patterns[37].name, t.uri, t.part)
        BY <3>2, <4>2, IdentifierResolves
      <4> QED BY <1>2, <3>1, <3>2, <3>3, <4>3
    <3>4. CASE k # 37
      <4>1. t.part = <<>>
        <5>1. t.name # Patterns[37].name
          BY <3>1, <3>2, <3>4, NamesDiffer
        <5> QED BY <1>1, <5>1 DEF TargetFits, PartFits
      <4>2. Resolve(Fill(Patterns[k], t.uri, <<>>)) = Target(Patterns[k].name, t.uri, <<>>)
        BY <3>2, <3>4, PageResolves
      <4> QED BY <1>2, <3>1, <3>2, <4>1, <4>2
    <3> QED BY <3>3, <3>4
  <2>3. CASE t.name \notin DocumentNames
    <3>1. t.name \in FormNames \cup OldNames /\ t.uri = <<>> /\ t.part = <<>>
      BY <2>3 DEF TargetFits, PartFits, FormNames, OldNames
    <3>2. PICK k \in 10..22 : Patterns[k].name = t.name
      BY <3>1, NamesArePlaced
    <3>3. k \in 1..53
      OBVIOUS
    <3>4. Resolve(Fill(Patterns[k], <<>>, <<>>)) = Target(Patterns[k].name, <<>>, <<>>)
      BY VerbResolves
    <3> QED BY <1>2, <3>1, <3>2, <3>3, <3>4
  <2> QED BY <2>1, <2>2, <2>3
<1> QED BY <1>3 DEF LeadsTo

-----------------------------------------------------------------------------
(***************************************************************************)
(* What a page offers.                                                     *)
(***************************************************************************)
\* An item of the toolbar leads to a page that shows it as selected.
LEMMA ItemsAim ==
    ASSUME NEW v, NEW d \in Documents, NEW item \in NavigationItems(v, d)
    PROVE  /\ item.name \in PageNames
           /\ item.name # "document-identifier-delete"
           /\ Aims(item.id, item.name, d)
<1> USE DEF Item, HoldItem, PublishingItem, MetadataItem
<1>1. /\ d.published \in BOOLEAN /\ d.held \in BOOLEAN /\ d.linked \in BOOLEAN
      /\ d.content \in Content
  BY DEF Documents
<1> DEFINE Led(id, name) ==
      item.id = id /\ item.name = name
<1>2. \/ Led("review", "full-text-html")
      \/ Led("take-off-hold", "unhold-document") /\ ~d.published /\ d.held
      \/ Led("put-on-hold", "hold-document") /\ ~d.published /\ ~d.held
      \/ Led("unpublished", "unpublish-document") /\ d.published
      \/ Led("publish", "publish-document") /\ ~d.published
      \/ Led("identifiers", "document-identifiers")
      \/ Led("metadata", "document-metadata") /\ MetadataFlag
      \/ Led("history", "document-history")
      \/ Led("downloads", "document-downloads")
      \/ Led("upload", "document-upload")
      \/ Led("associated_documents", "associated-documents") /\ d.linked
  BY DEF NavigationItems
<1>3. /\ item.name \in PageNames
      /\ item.name # "document-identifier-delete"
  BY <1>2, PageNamesAre
<1>4. CASE item.id \in {"review", "upload"}
  BY <1>2, <1>3, <1>4, FullTextIs DEF Aims
<1>5. CASE item.id \notin {"review", "upload"}
  <2>1. item.id \notin FullText /\ item.name \in PageNames \ FullText
    BY <1>2, <1>3, <1>5, FullTextIs
  <2> DEFINE it == [id |-> item.id, selected |-> TRUE, name |-> item.name]
             w == View(item.name)
  <2>2. it \in NavigationItems(w, d)
    <3>1. CASE item.id \in {"take-off-hold", "put-on-hold"}
      <4>1. w \in {"hold_judgment", "unhold_judgment"}
        BY <1>2, <3>1, ItemViews
      <4>2. it \in HoldItem(w, d)
        BY <1>1, <1>2, <3>1, <4>1
      <4> HIDE DEF w, it
      <4> QED BY <4>2 DEF NavigationItems
    <3>2. CASE item.id \in {"unpublished", "publish"}
      <4>1. w \in {"unpublish_judgment", "publish_judgment"}
        BY <1>2, <3>2, ItemViews
      <4>2. it \in PublishingItem(w, d)
        BY <1>1, <1>2, <3>2, <4>1
      <4> HIDE DEF w, it
      <4> QED BY <4>2 DEF NavigationItems
    <3>3. CASE item.id = "metadata"
      <4>1. w = "document_metadata" /\ MetadataFlag
        BY <1>2, <3>3, ItemViews
      <4>2. it \in MetadataItem(w)
        BY <1>2, <3>3, <4>1
      <4> HIDE DEF w, it
      <4> QED BY <4>2 DEF NavigationItems
    <3>4. CASE item.id = "identifiers"
      <4>1. /\ w = "document_identifiers"
            /\ it = [id |-> "identifiers", selected |-> TRUE,
                     name |-> "document-identifiers"]
        BY <1>2, <3>4, ItemViews
      <4> HIDE DEF w, it
      <4> QED BY <4>1 DEF NavigationItems
    <3>5. CASE item.id = "history"
      <4>1. /\ w = "document_history"
            /\ it = [id |-> "history", selected |-> TRUE, name |-> "document-history"]
        BY <1>2, <3>5, ItemViews
      <4> HIDE DEF w, it
      <4> QED BY <4>1 DEF NavigationItems
    <3>6. CASE item.id = "downloads"
      <4>1. /\ w = "document_downloads"
            /\ it = [id |-> "downloads", selected |-> TRUE, name |-> "document-downloads"]
        BY <1>2, <3>6, ItemViews
      <4> HIDE DEF w, it
      <4> QED BY <4>1 DEF NavigationItems
    <3>7. CASE item.id = "associated_documents"
      <4>1. /\ w = "associated_documents" /\ d.linked
            /\ it = [id |-> "associated_documents", selected |-> TRUE,
                     name |-> "associated-documents"]
        BY <1>2, <3>7, ItemViews
      <4> HIDE DEF w, it
      <4> QED BY <4>1 DEF NavigationItems
    <3> QED BY <1>2, <1>5, <3>1, <3>2, <3>3, <3>4, <3>5, <3>6, <3>7
  <2>3. Shows(item.id, item.name, d)
    BY <2>2 DEF Shows
  <2> QED BY <1>3, <2>1, <2>3 DEF Aims
<1> QED BY <1>4, <1>5

-----------------------------------------------------------------------------
(***************************************************************************)
(* A step of the reader.                                                   *)
(***************************************************************************)
USE DEF AskFits, PageFits, ErrorFits

\* A request that a page offers is granted and aims at what was followed, unless
\* the document has changed since the page was made.
LEMMA SendFits ==
    ASSUME PagesInv, NEW method \in {"GET", "POST"}, NEW t, NEW item, Send(method, t, item),
           item # "none" => method = "GET" /\ t.uri = browser.seen.uri,
           Formed(t),
           browser.name = "unlock" \/ Aims(item, t.name, browser.seen),
           \/ t.uri \in {browser.seen.uri, <<>>}
           \/ t.uri = LinkedUri(browser.seen) /\ method = "GET" /\ t.name = "full-text-html",
           \/ browser.name = "unlock"
           \/ /\ method = "POST" => t.name # "unlock"
              /\ t.name = "publish" => Publishable(browser.seen)
              /\ t.name = "document-identifier-delete" => ~browser.seen.ever
    PROVE  PagesInv'
<1> DEFINE seen == browser.seen
<1>1. /\ browser.at = "page" /\ Turn(t.uri)
      /\ browser' = [at |-> "asking", method |-> method, target |-> t, judgment_uri |-> seen.uri,
                     item |-> IF seen = document THEN item ELSE "stale"]
  BY DEF Send, Ask
<1>2. /\ seen.uri \in Uris
      /\ browser.name = "unlock" => seen # document
      /\ browser.name # "unlock" => seen \in Documents
      /\ seen.uri # <<>>
  <2>1. CASE browser.name = "unlock"
    <3>1. PICK u \in Uris : seen = [uri |-> u]
      BY <1>1, <2>1 DEF PagesInv
    <3>2. seen \notin Documents
      BY <3>1 DEF Documents
    <3>3. seen # NoDocument /\ seen.uri = u /\ u # <<>>
      BY <3>1, UriNotEmpty DEF NoDocument
    <3> QED BY <2>1, <3>2, <3>3 DEF PagesInv
  <2>2. CASE browser.name # "unlock"
    <3>1. seen \in Documents
      BY <1>1, <2>2 DEF PagesInv
    <3>2. seen.uri \in Uris
      BY <3>1 DEF Documents
    <3> QED BY <2>2, <3>1, <3>2, UriNotEmpty
  <2> QED BY <2>1, <2>2
<1>3. /\ document' \in Documents \cup {NoDocument}
      /\ t.uri \in {seen.uri, <<>>} => document' = document
      /\ t.uri \notin {seen.uri, <<>>} /\ seen = document /\ seen.linked
           => document' \in Documents /\ document'.uri = t.uri
  BY <1>1 DEF Turn, Found, PagesInv
<1> HIDE DEF seen
<1>4. ASSUME seen = document, t.uri # None
      PROVE  Grants(method, t, seen.uri, document')
  <2>1. seen \in Documents /\ browser.name # "unlock"
    BY <1>2, <1>4
  <2>2. CASE t.uri \in {seen.uri, <<>>}
    <3>1. document' = seen
      BY <1>3, <1>4, <2>2
    <3> QED BY <1>2, <2>1, <2>2, <3>1 DEF Grants, seen
  <2>3. CASE t.uri \notin {seen.uri, <<>>}
    <3>1. t.uri = LinkedUri(seen) /\ method = "GET" /\ t.name = "full-text-html"
      BY <2>3 DEF seen
    <3>2. seen.linked
      BY <1>4, <3>1 DEF LinkedUri, None
    <3> QED BY <1>3, <1>4, <2>3, <3>1, <3>2 DEF Grants
  <2> QED BY <2>2, <2>3
<1>5. Aims(browser'.item, t.name, document')
  <2>1. CASE seen = document /\ item # "none"
    <3>1. document' = seen
      BY <1>3, <2>1 DEF seen
    <3> QED BY <1>1, <1>2, <2>1, <3>1 DEF seen
  <2>2. CASE ~(seen = document /\ item # "none")
    <3>1. browser'.item \in {"none", "stale"}
      BY <1>1, <2>2
    <3> QED BY <3>1 DEF Aims
  <2> QED BY <2>1, <2>2
<1> HIDE DEF Grants, Aims, Formed
<1> QED BY <1>1, <1>2, <1>3, <1>4, <1>5 DEF PagesInv

\* What a page knows of its document.
LEMMA PageSeen ==
    ASSUME PagesInv, browser.at = "page"
    PROVE  /\ browser.seen.uri \in Uris /\ browser.seen.uri # <<>>
           /\ browser.name # "unlock" => browser.seen \in Documents
           /\ browser.name \in PageNames \cup {"unlock"}
<1>1. CASE browser.name = "unlock"
  <2>1. PICK u \in Uris : browser.seen = [uri |-> u]
    BY <1>1 DEF PagesInv
  <2> QED BY <1>1, <2>1, UriNotEmpty
<1>2. CASE browser.name # "unlock"
  <2>1. browser.seen \in Documents /\ browser.name \in PageNames
    BY <1>2 DEF PagesInv
  <2>2. browser.seen.uri \in Uris
    BY <2>1 DEF Documents
  <2> QED BY <2>1, <2>2, UriNotEmpty
<1> QED BY <1>1, <1>2

LEMMA ItemStep ==
    ASSUME PagesInv, FollowItem
    PROVE  PagesInv'
<1> DEFINE seen == browser.seen
<1>1. PICK item \in NavigationItems(View(browser.name), seen) :
        Send("GET", Target(item.name, seen.uri, <<>>), item.id)
  BY DEF FollowItem
<1> DEFINE t == Target(item.name, seen.uri, <<>>)
<1>2. /\ browser.at = "page" /\ browser.name # "unlock" /\ seen \in Documents
      /\ seen.uri \in Uris /\ seen.uri # <<>>
  BY PageSeen DEF FollowItem
<1>3. t.name = item.name /\ t.uri = seen.uri
  BY DEF Target
<1>4. /\ t.name \in PageNames /\ t.name # "document-identifier-delete"
      /\ Aims(item.id, t.name, seen)
  BY <1>2, <1>3, ItemsAim
<1>5. /\ t.name \notin OldNames /\ t.name \notin {"edit-document", "unlock", "publish"}
  BY <1>4, PageNamesAre DEF OldNames
<1>6. Formed(t)
  BY <1>2, <1>3, <1>5 DEF Formed
<1> HIDE DEF t
<1>7. Send("GET", t, item.id)
  BY <1>1 DEF t
<1> HIDE DEF Formed, Aims, PagesInv
<1> QED BY <1>2, <1>3, <1>4, <1>5, <1>6, <1>7, SendFits

LEMMA TabStep ==
    ASSUME PagesInv, FollowTab
    PROVE  PagesInv'
<1> DEFINE seen == browser.seen
<1>1. PICK name \in Tabs(browser.name, seen) : Send("GET", Target(name, seen.uri, <<>>), name)
  BY DEF FollowTab
<1> DEFINE t == Target(name, seen.uri, <<>>)
<1>2. /\ browser.at = "page" /\ seen.uri \in Uris /\ seen.uri # <<>>
      /\ browser.name # "unlock" => seen \in Documents
  BY PageSeen DEF FollowTab
<1>3. t.name = name /\ t.uri = seen.uri
  BY DEF Target
<1>4. /\ name \in {"full-text-html", "full-text-pdf"}
      /\ \/ browser.name = "full-text-html" /\ seen.pdf
         \/ browser.name = "full-text-pdf" /\ seen.content = "html"
  BY FullTextIs DEF Tabs, When
<1>5. Aims(name, name, seen)
  BY <1>2, <1>4 DEF Aims, PagesInv
<1>6. Formed(t)
  BY <1>2, <1>3, <1>4 DEF Formed, OldNames
<1> HIDE DEF t
<1>7. Send("GET", t, name)
  BY <1>1 DEF t
<1> HIDE DEF Formed, Aims, PagesInv
<1> QED BY <1>2, <1>3, <1>4, <1>5, <1>6, <1>7, SendFits

\* A document's related document is at an address, if it is anywhere.
LEMMA LinkedNotEmpty ==
    ASSUME NEW d, d.uri \in Uris
    PROVE  LinkedUri(d) # <<>>
BY UriNotEmpty, UrisAssumption DEF Clear, LinkedUri, None

LEMMA LinkStep ==
    ASSUME PagesInv, FollowLink
    PROVE  PagesInv'
<1> DEFINE seen == browser.seen
<1>1. PICK t \in Links(browser.name, seen) : Send("GET", t, "none")
  BY DEF FollowLink
<1>2. /\ browser.at = "page" /\ seen.uri \in Uris /\ seen.uri # <<>>
      /\ browser.name # "unlock" => seen \in Documents
  BY PageSeen DEF FollowLink
<1>3. \/ t.uri = seen.uri /\ t.name \in PageNames \cup {"full-text-xml"}
           /\ (browser.name = "unlock" \/ (t.name = "document-identifier-delete" => ~seen.ever))
      \/ t.uri = <<>> /\ t.name = "unlock"
      \/ t.uri = LinkedUri(seen) /\ t.name = "full-text-html"
  BY PageNamesAre DEF Links, When, IdentifierLinks, Target
<1>4. Formed(t)
  <2>1. t.uri # <<>> \/ t.name = "unlock"
    BY <1>2, <1>3, LinkedNotEmpty
  <2>2. t.name \notin OldNames \cup {"edit-document"}
    BY <1>3, PageNamesAre DEF OldNames
  <2>3. "unlock" \notin PageNames \cup {"full-text-xml"}
    BY PageNamesAre
  <2> QED BY <2>1, <2>2, <2>3 DEF Formed
<1>5. Aims("none", t.name, seen)
  BY DEF Aims
<1>6. t.name # "publish" /\ "publish" \notin PageNames
  BY <1>3, PageNamesAre
<1>7. t.name = "document-identifier-delete" => browser.name = "unlock" \/ ~seen.ever
  BY <1>3
<1> HIDE DEF Formed, Aims, PagesInv
<1> QED BY <1>1, <1>2, <1>3, <1>4, <1>5, <1>6, <1>7, SendFits

LEMMA FormStep ==
    ASSUME PagesInv, SendForm
    PROVE  PagesInv'
<1> DEFINE seen == browser.seen
           Sent(name) ==
             IF name \in OwnForms THEN Target(name, seen.uri, browser.part)
             ELSE Target(name, IF name = "edit-document" THEN seen.uri ELSE <<>>, <<>>)
<1>1. PICK name \in Forms(browser.name, seen) : Send("POST", Sent(name), "none")
  BY DEF SendForm
<1> DEFINE t == Sent(name)
<1>2. /\ browser.at = "page" /\ seen.uri \in Uris /\ seen.uri # <<>>
      /\ browser.name # "unlock" => seen \in Documents
  BY PageSeen DEF SendForm
<1>3. /\ t.name = name
      /\ name \in OwnForms \cup {"edit-document"} => t.uri = seen.uri
      /\ name \notin OwnForms \cup {"edit-document"} => t.uri = <<>>
  BY DEF Target
<1>4. /\ name \in OwnForms => name = browser.name
      /\ name \in OwnForms \cup {"edit-document", "enrich", "reparse", "hold", "unhold", "publish",
                                 "unpublish", "upload", "delete", "unlock"}
      /\ name = "unlock" => browser.name = "unlock"
      /\ name = "publish" => Publishable(seen)
  BY DEF Forms, When, OwnForms
<1> HIDE DEF t
<1>5. Formed(t)
  <2>1. name \notin PageNames \ OwnForms /\ name # "full-text-xml" /\ name \notin OldNames
    BY <1>4, PageNamesAre DEF OwnForms, OldNames
  <2> QED BY <1>2, <1>3, <2>1 DEF Formed
<1>6. Aims("none", t.name, seen)
  BY DEF Aims
<1>7. name = "document-identifier-delete" => ~seen.ever
  BY <1>2, <1>4 DEF PagesInv, OwnForms
<1>8. Send("POST", t, "none")
  BY <1>1 DEF t
<1> HIDE DEF Formed, Aims, PagesInv
<1> QED BY <1>2, <1>3, <1>4, <1>5, <1>6, <1>7, <1>8, SendFits

LEMMA OpenStep ==
    ASSUME PagesInv, Open
    PROVE  PagesInv'
<1>1. PICK uri \in Uris :
        /\ document' \in Found(uri)
        /\ \E t \in {Target("full-text-html", uri, <<>>), Target("edit-redirect", <<>>, <<>>),
                     Target("detail-redirect", <<>>, <<>>), Target("xml-redirect", <<>>, <<>>)} :
             Ask("GET", t, uri, IF document' = NoDocument THEN "stale" ELSE "none")
  BY DEF Open
<1>2. PICK t : /\ \/ t.uri = uri /\ t.name = "full-text-html"
                  \/ t.uri = <<>> /\ t.name \in OldNames
               /\ Ask("GET", t, uri, IF document' = NoDocument THEN "stale" ELSE "none")
  BY <1>1 DEF Target, OldNames
<1>3. /\ document' \in Documents \cup {NoDocument}
      /\ document' # NoDocument => document' \in Documents /\ document'.uri = uri
  BY <1>1 DEF Found
<1>4. Formed(t)
  BY <1>2, UriNotEmpty, PageNamesAre DEF Formed, OldNames
<1>5. document' # NoDocument => Grants("GET", t, uri, document')
  BY <1>2, <1>3, UriNotEmpty DEF Grants, OldNames
<1>6. \A item \in {"none", "stale"} : Aims(item, t.name, document')
  BY DEF Aims
<1>7. browser' = [at |-> "asking", method |-> "GET", target |-> t, judgment_uri |-> uri,
                  item |-> IF document' = NoDocument THEN "stale" ELSE "none"]
  BY <1>2 DEF Ask
<1> HIDE DEF Formed, Aims, Grants
<1> QED BY <1>3, <1>4, <1>5, <1>6, <1>7 DEF PagesInv

LEMMA ChangeStep ==
    ASSUME PagesInv, ChangeDocument
    PROVE  PagesInv'
<1>1. document' \in Documents \cup {NoDocument}
  BY DEF ChangeDocument
<1>2. CASE browser.at = "page"
  <2>1. browser' = browser
    BY <1>2 DEF ChangeDocument
  <2> QED BY <1>1, <1>2, <2>1 DEF PagesInv, Shows
<1>3. CASE browser.at = "asking"
  <2>1. browser' = [browser EXCEPT !.item = "stale"]
    BY <1>3 DEF ChangeDocument
  <2> QED BY <1>1, <1>3, <2>1 DEF PagesInv, Aims
<1> QED BY <1>2, <1>3 DEF ChangeDocument

LEMMA LeaveStep ==
    ASSUME PagesInv, Leave
    PROVE  PagesInv'
BY DEF Leave, PagesInv

-----------------------------------------------------------------------------
(***************************************************************************)
(* An answer, where links resolve.                                         *)
(***************************************************************************)
\* A document that is found has a URI.
LEMMA FoundIs ==
    ASSUME PagesInv, document # NoDocument
    PROVE  document \in Documents /\ document.uri \in Uris /\ document.uri # <<>>
<1>1. document \in Documents
  BY DEF PagesInv
<1>2. document.uri \in Uris
  BY <1>1 DEF Documents
<1> QED BY <1>1, <1>2, UriNotEmpty

\* The request that a redirect makes is granted as the one before it was.
LEMMA RedirectFits ==
    ASSUME PagesInv, browser.at = "asking", NEW name, NEW uri \in Uris, Redirect(name, uri),
           document' \in Documents \cup {NoDocument},
           name \notin OldNames \cup {"publish", "document-identifier-delete"},
           Aims(browser.item, name, document'),
           browser.item # "stale" /\ uri # None => document' \in Documents /\ document'.uri = uri
    PROVE  PagesInv'
<1> DEFINE t == Target(name, uri, <<>>)
<1>1. t.name = name /\ t.uri = uri /\ uri # <<>>
  BY UriNotEmpty DEF Target
<1>2. browser' = [at |-> "asking", method |-> "GET", target |-> t, judgment_uri |-> uri,
                  item |-> browser.item]
  BY DEF Redirect, Ask
<1> HIDE DEF t
<1>3. Formed(t)
  BY <1>1 DEF Formed
<1>4. browser.item # "stale" /\ t.uri # None => Grants("GET", t, uri, document')
  BY <1>1 DEF Grants
<1> HIDE DEF Formed, Grants, Aims
<1> QED BY <1>1, <1>2, <1>3, <1>4 DEF PagesInv

\* A page of the document shows as selected what the request aimed at.
LEMMA ShowFits ==
    ASSUME PagesInv, NEW name \in PageNames, Show(name), document # NoDocument,
           document' = document, Aims(browser.item, name, document),
           name = "full-text-html" => document.content # "none",
           name = "full-text-pdf" => document.pdf,
           name = "document-identifier-delete" => ~document.ever
    PROVE  PagesInv'
<1>1. browser' = [at |-> "page", name |-> name, part |-> R.part, seen |-> document,
                  item |-> browser.item]
  BY DEF Show
<1>2. document \in Documents /\ name # "unlock"
  BY FoundIs, PageNamesAre
<1>3. ASSUME name \in FullText
      PROVE  Shows("review", name, document)
  <2>1. View(name) \in {"judgment_html", "judgment_pdf"}
    BY <1>3, FullTextIs, ItemViews
  <2>2. [id |-> "review", selected |-> TRUE, name |-> "full-text-html"]
          \in NavigationItems(View(name), document)
    BY <2>1 DEF NavigationItems, Item
  <2> QED BY <2>2 DEF Shows
<1>4. \/ browser.item \in {"none", "stale", "upload"}
      \/ browser.item \in FullText /\ name = browser.item
      \/ browser.item \notin FullText /\ Shows(browser.item, name, document)
  BY <1>3, FullTextIs DEF Aims
<1> HIDE DEF Shows
<1> QED BY <1>1, <1>2, <1>4 DEF PagesInv

\* What is not granted had changed, or was asked for in vain.
LEMMA ErrorFitsWhen ==
    ASSUME PagesInv, browser.at = "asking", Error, document' = document,
           ~Grants(browser.method, browser.target, browser.judgment_uri, document)
    PROVE  PagesInv'
<1>1. browser.item = "stale" \/ browser.target.name = "delete" \/ browser.target.uri = None
  BY DEF PagesInv
<1>2. browser' = [at |-> "error", target |-> browser.target, item |-> browser.item]
  BY DEF Error
<1> QED BY <1>1, <1>2 DEF PagesInv

LEMMA NotFoundStep ==
    ASSUME PagesInv, LinksResolve, NotFound
    PROVE  PagesInv'
<1> DEFINE t == browser.target
<1>1. browser.at = "asking" /\ R = t /\ Error /\ document' = document
  BY DEF NotFound, Asked, LinksResolve
<1>2. ~Grants(browser.method, t, browser.judgment_uri, document)
  <2> SUFFICES ASSUME Grants(browser.method, t, browser.judgment_uri, document)
               PROVE  FALSE
    OBVIOUS
  <2>1. document \in Documents /\ document.uri \in Uris
    BY DEF Grants, Documents
  <2>2. document # NoDocument
    BY <2>1, UriNotEmpty DEF NoDocument
  <2>3. \/ Asked("GET", PageNames \cup {"full-text-xml"}) /\ ~FoundAt(R.uri)
        \/ Asked("POST", OwnForms) /\ ~FoundAt(R.uri)
        \/ browser.method = "POST" /\ ~FoundAt(browser.judgment_uri)
    BY DEF NotFound, Asked
  <2>4. CASE t.name \in PageNames \cup {"full-text-xml"} /\ ~FoundAt(t.uri)
    <3>1. t.uri # <<>>
      BY <1>1, <2>4 DEF PagesInv, Formed
    <3> QED BY <2>2, <2>4, <3>1 DEF FoundAt, Grants
  <2>5. CASE browser.method = "POST" /\ ~FoundAt(browser.judgment_uri)
    BY <2>2, <2>5 DEF FoundAt, Grants
  <2>6. OwnForms \subseteq PageNames
    BY PageNamesAre DEF OwnForms
  <2> QED BY <1>1, <2>3, <2>4, <2>5, <2>6 DEF Asked
<1> HIDE DEF Grants
<1> QED BY <1>1, <1>2, ErrorFitsWhen

LEMMA ReviewHTMLStep ==
    ASSUME PagesInv, LinksResolve, ReviewHTML
    PROVE  PagesInv'
<1>1. /\ browser.at = "asking" /\ R = browser.target /\ document' = document
      /\ R.name = "full-text-html" /\ document # NoDocument /\ document.uri = R.uri
  BY DEF ReviewHTML, Asked, FoundAt, LinksResolve
<1>2. document \in Documents /\ R.uri \in Uris
  BY <1>1, FoundIs
<1>3. Aims(browser.item, "full-text-html", document)
  BY <1>1 DEF PagesInv
<1>4. CASE document.content = "none"
  <2>1. Redirect("full-text-pdf", R.uri)
    BY <1>4 DEF ReviewHTML
  <2>2. Aims(browser.item, "full-text-pdf", document')
    BY <1>1, <1>3, <1>4, FullTextIs DEF Aims
  <2> HIDE DEF Aims, PagesInv, R
  <2> QED BY <1>1, <1>2, <2>1, <2>2, RedirectFits DEF OldNames
<1>5. CASE document.content # "none"
  <2>1. Show("full-text-html")
    BY <1>5 DEF ReviewHTML
  <2> HIDE DEF Aims, PagesInv
  <2> QED BY <1>1, <1>3, <1>5, <2>1, ShowFits, PageNamesAre
<1> QED BY <1>4, <1>5

LEMMA ReviewPDFStep ==
    ASSUME PagesInv, LinksResolve, ReviewPDF
    PROVE  PagesInv'
<1>1. /\ browser.at = "asking" /\ R = browser.target /\ document' = document
      /\ R.name = "full-text-pdf" /\ document # NoDocument /\ document.uri = R.uri
  BY DEF ReviewPDF, Asked, FoundAt, LinksResolve
<1>2. document \in Documents /\ R.uri \in Uris
  BY <1>1, FoundIs
<1>3. Aims(browser.item, "full-text-pdf", document)
  BY <1>1 DEF PagesInv
<1>4. CASE ~document.pdf
  <2>1. Redirect("full-text-html", R.uri)
    BY <1>4 DEF ReviewPDF
  <2>2. Aims(browser.item, "full-text-html", document')
    BY <1>1, <1>3, <1>4, FullTextIs DEF Aims
  <2> HIDE DEF Aims, PagesInv, R
  <2> QED BY <1>1, <1>2, <2>1, <2>2, RedirectFits DEF OldNames
<1>5. CASE document.pdf
  <2>1. Show("full-text-pdf")
    BY <1>5 DEF ReviewPDF
  <2> HIDE DEF Aims, PagesInv
  <2> QED BY <1>1, <1>3, <1>5, <2>1, ShowFits, PageNamesAre
<1> QED BY <1>4, <1>5

LEMMA OtherPageStep ==
    ASSUME PagesInv, LinksResolve, OtherPage
    PROVE  PagesInv'
<1>1. /\ browser.at = "asking" /\ R = browser.target /\ document' = document
      /\ R.name \in PageNames \ FullText /\ document # NoDocument
  BY DEF OtherPage, Asked, FoundAt, LinksResolve
<1>2. R.name \notin {"full-text-html", "full-text-pdf"}
  BY <1>1, FullTextIs
<1>3. Aims(browser.item, R.name, document)
  BY <1>1 DEF PagesInv
<1>4. \/ Show(R.name) /\ (R.name = "document-identifier-delete" => ~document.ever)
      \/ /\ R.name = "document-identifier-delete" /\ Error
         /\ document.ever \/ browser.item = "stale"
  BY DEF OtherPage, IfSafeToDelete
<1>5. CASE Show(R.name) /\ (R.name = "document-identifier-delete" => ~document.ever)
  <2> HIDE DEF Aims, PagesInv, R
  <2> QED BY <1>1, <1>2, <1>3, <1>5, ShowFits
<1>6. CASE /\ R.name = "document-identifier-delete" /\ Error
           /\ document.ever \/ browser.item = "stale"
  <2>1. browser.item = "stale" \/ browser.target.name = "delete" \/ browser.target.uri = None
    BY <1>1, <1>6 DEF PagesInv, Grants
  <2>2. browser' = [at |-> "error", target |-> browser.target, item |-> browser.item]
    BY <1>6 DEF Error
  <2> QED BY <1>1, <2>1, <2>2 DEF PagesInv
<1> QED BY <1>4, <1>5, <1>6

LEMMA OwnFormStep ==
    ASSUME PagesInv, LinksResolve, OwnForm
    PROVE  PagesInv'
<1>1. /\ browser.at = "asking" /\ R = browser.target /\ document' = document
      /\ browser.method = "POST" /\ document # NoDocument /\ document.uri = R.uri
  BY DEF OwnForm, Asked, FoundAt, LinksResolve
<1>2. document \in Documents /\ R.uri \in Uris
  BY <1>1, FoundIs
<1>3. \A name : Aims(browser.item, name, document')
  BY <1>1 DEF PagesInv, Aims
<1>4. \/ Redirect("document-metadata", R.uri) \/ Redirect("document-identifiers", R.uri)
      \/ R.name = "document-identifiers-add" /\ Show(R.name)
      \/ /\ R.name = "document-identifier-delete" /\ Error
         /\ document.ever \/ browser.item = "stale"
  BY DEF OwnForm, IfSafeToDelete
<1>5. CASE Redirect("document-metadata", R.uri)
  <2> HIDE DEF Aims, PagesInv, R
  <2> QED BY <1>1, <1>2, <1>3, <1>5, RedirectFits DEF OldNames
<1>6. CASE Redirect("document-identifiers", R.uri)
  <2> HIDE DEF Aims, PagesInv, R
  <2> QED BY <1>1, <1>2, <1>3, <1>6, RedirectFits DEF OldNames
<1>7. CASE R.name = "document-identifiers-add" /\ Show(R.name)
  <2> HIDE DEF Aims, PagesInv, R
  <2> QED BY <1>1, <1>3, <1>7, ShowFits, PageNamesAre
<1>8. CASE /\ R.name = "document-identifier-delete" /\ Error
           /\ document.ever \/ browser.item = "stale"
  <2>1. browser.item = "stale" \/ browser.target.name = "delete" \/ browser.target.uri = None
    BY <1>1, <1>8 DEF PagesInv, Grants
  <2>2. browser' = [at |-> "error", target |-> browser.target, item |-> browser.item]
    BY <1>8 DEF Error
  <2> QED BY <1>1, <2>1, <2>2 DEF PagesInv
<1> QED BY <1>4, <1>5, <1>6, <1>7, <1>8

LEMMA XmlViewStep ==
    ASSUME PagesInv, XmlView
    PROVE  PagesInv'
BY DEF PagesInv, XmlView

LEMMA UnlockGetStep ==
    ASSUME PagesInv, LinksResolve, UnlockGet
    PROVE  PagesInv'
<1>1. /\ browser.at = "asking" /\ browser.target.name = "unlock" /\ document' = document
      /\ browser' = [at |-> "page", name |-> "unlock", part |-> R.part,
                     seen |-> [uri |-> browser.judgment_uri], item |-> browser.item]
  BY DEF UnlockGet, Asked, LinksResolve
<1>2. browser.item \in {"none", "stale", "upload"}
  BY <1>1, PageNamesAre, FullTextIs DEF PagesInv, Aims
<1>3. browser.judgment_uri \in Uris
  BY <1>1 DEF PagesInv
<1> HIDE DEF Shows, R
<1> QED BY <1>1, <1>2, <1>3 DEF PagesInv

LEMMA OldAddressStep ==
    ASSUME PagesInv, LinksResolve, OldAddress
    PROVE  PagesInv'
<1> DEFINE t == browser.target
<1>1. /\ browser.at = "asking" /\ R = t /\ document' = document
      /\ t.name \in OldNames \cup {"edit-document"} /\ browser.judgment_uri \in Uris
  BY DEF OldAddress, Asked, LinksResolve, PagesInv, OldNames
<1>2. \A name : Aims(browser.item, name, document')
  <2>1. t.name \notin PageNames
    BY <1>1, PageNamesAre DEF OldNames
  <2>2. browser.item \in {"none", "stale", "upload"}
    BY <1>1, <2>1, PageNamesAre, FullTextIs DEF PagesInv, Aims
  <2> QED BY <2>2 DEF Aims
<1>3. Formed(t)
  BY <1>1 DEF PagesInv
<1>4. browser.item # "stale" /\ t.uri # None
        => Grants(browser.method, t, browser.judgment_uri, document)
  BY <1>1 DEF PagesInv, OldNames
<1>5. PICK name, uri :
        /\ name \in {"edit-document", "full-text-html", "full-text-xml"}
        /\ Redirect(name, uri)
        /\ \/ t.name \in OldNames /\ uri = browser.judgment_uri
           \/ t.name = "edit-document" /\ uri = t.uri
  BY <1>1 DEF OldAddress, Asked, OldNames
<1>6. uri \in Uris
  BY <1>1, <1>3, <1>5 DEF Formed
<1>7. browser.item # "stale" /\ uri # None => document' \in Documents /\ document'.uri = uri
  BY <1>1, <1>3, <1>4, <1>5, <1>6, UriNotEmpty DEF Formed, Grants
<1>8. document' \in Documents \cup {NoDocument}
  BY <1>1 DEF PagesInv
<1> HIDE DEF Aims, PagesInv
<1> QED BY <1>1, <1>2, <1>5, <1>6, <1>7, <1>8, RedirectFits DEF OldNames

\* A document stays one when a handler writes it.
LEMMA StillDocument ==
    ASSUME NEW d \in Documents
    PROVE  /\ \A value \in BOOLEAN : [d EXCEPT !.held = value] \in Documents
           /\ [d EXCEPT !.published = FALSE] \in Documents
           /\ [d EXCEPT !.published = TRUE, !.ever = TRUE] \in Documents
           /\ [d EXCEPT !.pdf = TRUE] \in Documents
           /\ [d EXCEPT !.locked = FALSE] \in Documents
BY DEF Documents

LEMMA WrittenStep ==
    ASSUME PagesInv, NEW names, NEW d, NEW name, Written(names, d, name),
           d \in Documents, d.uri = document.uri,
           name \notin OldNames \cup {"publish", "document-identifier-delete"}
    PROVE  PagesInv'
<1>1. /\ browser.at = "asking" /\ browser.method = "POST" /\ document # NoDocument
      /\ document' = d /\ Redirect(name, document.uri)
  BY DEF Written, Asked, FoundAt
<1>2. document.uri \in Uris
  BY <1>1, FoundIs
<1>3. Aims(browser.item, name, document')
  BY <1>1 DEF PagesInv, Aims
<1> HIDE DEF Aims, PagesInv
<1> QED BY <1>1, <1>2, <1>3, RedirectFits

LEMMA RefusedStep ==
    ASSUME PagesInv, LinksResolve, NEW name, Refused(name),
           \/ name \in {"unlock", "delete"}
           \/ name = "publish" /\ ~Publishable(document)
    PROVE  PagesInv'
<1>1. /\ browser.at = "asking" /\ browser.method = "POST" /\ browser.target.name = name
      /\ Error /\ document' = document
  BY DEF Refused, Asked, LinksResolve
<1>2. browser.item = "stale" \/ browser.target.name = "delete" \/ browser.target.uri = None
  BY <1>1 DEF PagesInv, Grants
<1>3. browser' = [at |-> "error", target |-> browser.target, item |-> browser.item]
  BY <1>1 DEF Error
<1> QED BY <1>1, <1>2, <1>3 DEF PagesInv

LEMMA WriteStep ==
    ASSUME PagesInv, LinksResolve, WriteFlag \/ Publish \/ Upload \/ Delete \/ Button
    PROVE  PagesInv'
<1>1. document # NoDocument /\ document \in Documents
  <2>1. document # NoDocument
    BY DEF WriteFlag, Publish, Upload, Delete, Button, Written, FoundAt
  <2> QED BY <2>1, FoundIs
<1> DEFINE Fine(d) == d \in Documents /\ d.uri = document.uri
<1>2. /\ Fine(document)
      /\ Fine([document EXCEPT !.held = TRUE]) /\ Fine([document EXCEPT !.held = FALSE])
      /\ Fine([document EXCEPT !.published = FALSE])
      /\ Fine([document EXCEPT !.published = TRUE, !.ever = TRUE])
      /\ Fine([document EXCEPT !.pdf = TRUE]) /\ Fine([document EXCEPT !.locked = FALSE])
  <2>1. \A u \in BOOLEAN :
          /\ [document EXCEPT !.held = u].uri = document.uri
          /\ [document EXCEPT !.published = FALSE].uri = document.uri
          /\ [document EXCEPT !.published = TRUE, !.ever = TRUE].uri = document.uri
          /\ [document EXCEPT !.pdf = TRUE].uri = document.uri
          /\ [document EXCEPT !.locked = FALSE].uri = document.uri
    BY <1>1 DEF Documents
  <2> QED BY <1>1, <2>1, StillDocument
<1>3. \/ \E names, d, name :
           /\ Written(names, d, name) /\ Fine(d)
           /\ name \notin OldNames \cup {"publish", "document-identifier-delete"}
      \/ \E name :
           /\ Refused(name)
           /\ \/ name \in {"unlock", "delete"}
              \/ name = "publish" /\ ~Publishable(document)
      \/ browser' = [at |-> "list"] /\ document' = NoDocument
  <2> HIDE DEF Fine
  <2>1. CASE WriteFlag
    BY <1>2, <2>1 DEF WriteFlag, OldNames
  <2>2. CASE Publish
    BY <1>2, <2>2 DEF Publish, OldNames
  <2>3. CASE Upload
    BY <1>2, <2>3 DEF Upload, OldNames
  <2>4. CASE Delete
    BY <2>4 DEF Delete
  <2>5. CASE Button
    BY <1>2, <2>5 DEF Button, OldNames
  <2> QED BY <2>1, <2>2, <2>3, <2>4, <2>5
<1>4. CASE browser' = [at |-> "list"] /\ document' = NoDocument
  BY <1>4 DEF PagesInv
<1> HIDE DEF PagesInv
<1> QED BY <1>3, <1>4, WrittenStep, RefusedStep

-----------------------------------------------------------------------------
(***************************************************************************)
(* Every request is for a target of the site.                              *)
(***************************************************************************)
LEMMA ReachResolves == ReachInv => LinksResolve
BY TargetsReached DEF ReachInv, LinksResolve, R

LEMMA AskReaches ==
    ASSUME NEW method, NEW t, NEW uri, NEW item, Ask(method, t, uri, item), TargetFits(t)
    PROVE  ReachInv'
<1>1. browser'.at = "asking" /\ browser'.target = t
  BY DEF Ask
<1> HIDE DEF TargetFits
<1> QED BY <1>1 DEF ReachInv

LEMMA RedirectReaches ==
    ASSUME NEW name \in DocumentNames \ {"document-identifier-delete"}, NEW uri \in Uris,
           Redirect(name, uri)
    PROVE  ReachInv'
<1> DEFINE t == Target(name, uri, <<>>)
<1>1. TargetFits(t)
  BY DEF TargetFits, PartFits, Target
<1>2. Ask("GET", t, uri, browser.item)
  BY DEF Redirect
<1> HIDE DEF t
<1> QED BY <1>1, <1>2, AskReaches

LEMMA ShowReaches ==
    ASSUME ReachInv, LinksResolve, browser.at = "asking", Show(R.name)
    PROVE  ReachInv'
<1>1. PartFits(R.name, R.part)
  BY DEF ReachInv, LinksResolve, TargetFits
<1>2. browser'.at = "page" /\ browser'.name = R.name /\ browser'.part = R.part
  BY DEF Show
<1> HIDE DEF PartFits, R
<1> QED BY <1>1, <1>2 DEF ReachInv

\* Where no page is shown and nothing is asked for.
LEMMA ElsewhereReaches ==
    ASSUME browser'.at \notin {"asking", "page"}
    PROVE  ReachInv'
BY DEF ReachInv

LEMMA OpenReaches ==
    ASSUME Open
    PROVE  ReachInv'
<1> DEFINE Ts(uri) == {Target("full-text-html", uri, <<>>), Target("edit-redirect", <<>>, <<>>),
                      Target("detail-redirect", <<>>, <<>>), Target("xml-redirect", <<>>, <<>>)}
<1>1. PICK uri \in Uris : \E t \in Ts(uri) : \E item : Ask("GET", t, uri, item)
  BY DEF Open
<1>2. PICK t \in Ts(uri) : \E item : Ask("GET", t, uri, item)
  BY <1>1
<1>3. "full-text-html" \in DocumentNames
  BY PageNamesAre DEF DocumentNames
<1>4. TargetFits(t)
  BY <1>2, <1>3 DEF TargetFits, PartFits, Target, OldNames
<1> QED BY <1>2, <1>4, AskReaches

\* What a page offers is for targets of the site.
LEMMA OffersReach ==
    ASSUME PagesInv, ReachInv, FollowItem \/ FollowTab \/ FollowLink \/ SendForm
    PROVE  ReachInv'
<1> DEFINE seen == browser.seen
<1>1. /\ browser.at = "page" /\ seen.uri \in Uris
      /\ browser.name # "unlock" => seen \in Documents
      /\ PartFits(browser.name, browser.part)
  BY PageSeen DEF FollowItem, FollowTab, FollowLink, SendForm, ReachInv
<1>2. PageNames \subseteq DocumentNames /\ "full-text-xml" \in DocumentNames
      /\ "edit-document" \in DocumentNames /\ OwnForms \subseteq PageNames
      /\ "full-text-html" \in PageNames /\ "full-text-pdf" \in PageNames
  BY PageNamesAre DEF DocumentNames, OwnForms
<1> DEFINE Asks == \E method, t, item : Send(method, t, item) /\ TargetFits(t)
<1>3. ASSUME Asks PROVE ReachInv'
  <2>1. PICK method, t, item : Send(method, t, item) /\ TargetFits(t)
    BY <1>3
  <2>2. \E uri, i : Ask(method, t, uri, i)
    BY <2>1 DEF Send
  <2> QED BY <2>1, <2>2, AskReaches
<1>4. CASE FollowItem
  <2>1. PICK item \in NavigationItems(View(browser.name), seen) :
          Send("GET", Target(item.name, seen.uri, <<>>), item.id)
    BY <1>4 DEF FollowItem
  <2>2. item.name \in PageNames /\ item.name # "document-identifier-delete"
    BY <1>1, <1>4, ItemsAim DEF FollowItem
  <2>3. TargetFits(Target(item.name, seen.uri, <<>>))
    BY <1>1, <1>2, <2>2 DEF TargetFits, PartFits, Target
  <2> QED BY <1>3, <2>1, <2>3
<1>5. CASE FollowTab
  <2>1. PICK name \in Tabs(browser.name, seen) : Send("GET", Target(name, seen.uri, <<>>), name)
    BY <1>5 DEF FollowTab
  <2>2. name \in {"full-text-html", "full-text-pdf"}
    BY FullTextIs DEF Tabs, When
  <2>3. TargetFits(Target(name, seen.uri, <<>>))
    BY <1>1, <1>2, <2>2 DEF TargetFits, PartFits, Target
  <2> QED BY <1>3, <2>1, <2>3
<1>6. CASE FollowLink
  <2>1. PICK t \in Links(browser.name, seen) : Send("GET", t, "none")
    BY <1>6 DEF FollowLink
  <2>2. LinkedUri(seen) \in {RelatedUri(u) : u \in Uris} \cup {None}
    BY <1>1 DEF LinkedUri, None
  <2>3. \/ \E n \in (PageNames \cup {"full-text-xml"}) \ {"document-identifier-delete"} :
             t = Target(n, seen.uri, <<>>)
        \/ \E uuid \in Uuids : t = Target("document-identifier-delete", seen.uri, uuid)
        \/ t = Target("unlock", <<>>, <<>>)
        \/ t = Target("full-text-html", LinkedUri(seen), <<>>)
    BY PageNamesAre DEF Links, When, IdentifierLinks
  <2>4. TargetFits(t)
    <3>1. CASE \E n \in (PageNames \cup {"full-text-xml"}) \ {"document-identifier-delete"} :
                 t = Target(n, seen.uri, <<>>)
      BY <1>1, <1>2, <3>1 DEF TargetFits, PartFits, Target
    <3>2. CASE \E uuid \in Uuids : t = Target("document-identifier-delete", seen.uri, uuid)
      <4>1. "document-identifier-delete" \in DocumentNames
        BY PageNamesAre DEF DocumentNames
      <4> QED BY <1>1, <3>2, <4>1 DEF TargetFits, PartFits, Target
    <3>3. CASE t = Target("unlock", <<>>, <<>>)
      BY <3>3 DEF TargetFits, PartFits, Target, FormNames
    <3>4. CASE t = Target("full-text-html", LinkedUri(seen), <<>>)
      BY <1>2, <2>2, <3>4 DEF TargetFits, PartFits, Target
    <3> QED BY <2>3, <3>1, <3>2, <3>3, <3>4
  <2> QED BY <1>3, <2>1, <2>4
<1>7. CASE SendForm
  <2> DEFINE Sent(name) ==
        IF name \in OwnForms THEN Target(name, seen.uri, browser.part)
        ELSE Target(name, IF name = "edit-document" THEN seen.uri ELSE <<>>, <<>>)
  <2>1. PICK name \in Forms(browser.name, seen) : Send("POST", Sent(name), "none")
    BY <1>7 DEF SendForm
  <2>2. /\ name \in OwnForms => name = browser.name
        /\ name \in OwnForms \cup {"edit-document"} \cup FormNames
    BY DEF Forms, When, OwnForms, FormNames
  <2>3. TargetFits(Sent(name))
    <3>1. CASE name \in OwnForms
      BY <1>1, <1>2, <2>2, <3>1 DEF TargetFits, Target
    <3>2. CASE name = "edit-document"
      BY <1>1, <1>2, <3>2 DEF TargetFits, PartFits, Target, OwnForms
    <3>3. CASE name \in FormNames
      BY <3>3 DEF TargetFits, PartFits, Target, OwnForms, FormNames
    <3> QED BY <2>2, <3>1, <3>2, <3>3
  <2> QED BY <1>3, <2>1, <2>3
<1> QED BY <1>4, <1>5, <1>6, <1>7

LEMMA ChangeReaches ==
    ASSUME ReachInv, ChangeDocument
    PROVE  ReachInv'
<1>1. /\ browser'.at = browser.at
      /\ browser.at = "asking" => browser'.target = browser.target
      /\ browser.at = "page" => browser' = browser
  BY DEF ChangeDocument
<1> HIDE DEF TargetFits, PartFits
<1> QED BY <1>1 DEF ReachInv

\* So are the redirects that answer a request.
LEMMA AnswersReach ==
    ASSUME PagesInv, ReachInv, LinksResolve, Answer
    PROVE  ReachInv'
<1> DEFINE RedirectNames ==
      {"full-text-html", "full-text-pdf", "full-text-xml", "edit-document", "document-metadata",
       "document-identifiers", "document-upload", "hold-document-success",
       "unhold-document-success", "publish-document-success", "unpublish-document-success",
       "upload-document-success"}
<1>1. RedirectNames \subseteq DocumentNames \ {"document-identifier-delete"}
  BY PageNamesAre DEF DocumentNames
<1>2. ASSUME NEW name \in RedirectNames, NEW uri \in Uris, Redirect(name, uri) PROVE ReachInv'
  BY <1>1, <1>2, RedirectReaches
<1>3. ASSUME NEW name \in RedirectNames, document # NoDocument, Redirect(name, document.uri)
      PROVE  ReachInv'
  BY <1>2, <1>3, FoundIs
<1>4. ASSUME NEW uri, FoundAt(uri) PROVE document # NoDocument /\ document.uri = uri
  BY <1>4 DEF FoundAt
<1>5. ASSUME Error PROVE ReachInv'
  <2>1. browser'.at = "error"
    BY <1>5 DEF Error
  <2> QED BY <2>1, ElsewhereReaches
<1>6. ASSUME browser' = [at |-> "list"] \/ browser' = [at |-> "file"] PROVE ReachInv'
  <2>1. browser'.at \notin {"asking", "page"}
    BY <1>6
  <2> QED BY <2>1, ElsewhereReaches
<1>7. CASE NotFound
  BY <1>5, <1>7 DEF NotFound
<1>8. CASE ReviewHTML
  <2>1. /\ browser.at = "asking" /\ R.name = "full-text-html" /\ FoundAt(R.uri)
        /\ Redirect("full-text-pdf", R.uri) \/ Show("full-text-html")
    BY <1>8 DEF ReviewHTML, Asked
  <2> HIDE DEF R
  <2> QED BY <1>3, <1>4, <2>1, ShowReaches
<1>9. CASE ReviewPDF
  <2>1. /\ browser.at = "asking" /\ R.name = "full-text-pdf" /\ FoundAt(R.uri)
        /\ Redirect("full-text-html", R.uri) \/ Show("full-text-pdf")
    BY <1>9 DEF ReviewPDF, Asked
  <2> HIDE DEF R
  <2> QED BY <1>3, <1>4, <2>1, ShowReaches
<1>10. CASE OtherPage
  <2>1. browser.at = "asking" /\ (Show(R.name) \/ Error)
    BY <1>10 DEF OtherPage, Asked, IfSafeToDelete
  <2> HIDE DEF R
  <2> QED BY <1>5, <2>1, ShowReaches
<1>11. CASE OwnForm
  <2>1. /\ browser.at = "asking" /\ FoundAt(R.uri)
        /\ \/ Redirect("document-metadata", R.uri) \/ Redirect("document-identifiers", R.uri)
           \/ Show(R.name) \/ Error
    BY <1>11 DEF OwnForm, Asked, IfSafeToDelete
  <2> HIDE DEF R
  <2> QED BY <1>3, <1>4, <1>5, <2>1, ShowReaches
<1>12. CASE XmlView
  BY <1>6, <1>12 DEF XmlView
<1>13. CASE UnlockGet
  <2>1. /\ browser.at = "asking" /\ R.name = "unlock"
        /\ browser'.at = "page" /\ browser'.name = "unlock" /\ browser'.part = R.part
    BY <1>13 DEF UnlockGet, Asked
  <2>2. PartFits("unlock", R.part)
    BY <2>1 DEF ReachInv, LinksResolve, TargetFits
  <2> HIDE DEF R, PartFits
  <2> QED BY <2>1, <2>2 DEF ReachInv
<1>14. CASE OldAddress
  <2>1. browser.at = "asking" /\ browser.judgment_uri \in Uris /\ Formed(browser.target)
    BY <1>14 DEF OldAddress, Asked, PagesInv
  <2>2. R.name = "edit-document" => R.uri \in Uris
    BY <2>1 DEF LinksResolve, Formed
  <2>3. \E name \in RedirectNames :
          \/ Redirect(name, browser.judgment_uri)
          \/ R.name = "edit-document" /\ Redirect(name, R.uri)
    BY <1>14 DEF OldAddress, Asked
  <2> HIDE DEF R, RedirectNames
  <2> QED BY <1>2, <2>1, <2>2, <2>3
<1>15. ASSUME NEW names, NEW d, NEW name \in RedirectNames, Written(names, d, name)
       PROVE  ReachInv'
  <2>1. document # NoDocument /\ Redirect(name, document.uri)
    BY <1>15 DEF Written, FoundAt
  <2> QED BY <1>3, <2>1
<1>16. ASSUME NEW name, Refused(name) PROVE ReachInv'
  BY <1>5, <1>16 DEF Refused
<1>17. CASE WriteFlag \/ Publish \/ Upload \/ Delete \/ Button
  <2>1. \/ \E names, d : \E name \in RedirectNames : Written(names, d, name)
        \/ \E name : Refused(name)
        \/ browser' = [at |-> "list"]
    BY <1>17 DEF WriteFlag, Publish, Upload, Delete, Button
  <2> HIDE DEF RedirectNames
  <2> QED BY <1>6, <1>15, <1>16, <2>1
<1> QED BY <1>7, <1>8, <1>9, <1>10, <1>11, <1>12, <1>13, <1>14, <1>17 DEF Answer


-----------------------------------------------------------------------------
(***************************************************************************)
(* The pages: the theorems.                                                *)
(***************************************************************************)
LEMMA PagesStart == SiteInit => PagesInv
BY DEF SiteInit, PagesInit, PagesInv

LEMMA PagesStep == PagesInv /\ LinksResolve /\ [SiteNext]_siteVars => PagesInv'
<1> SUFFICES ASSUME PagesInv, LinksResolve, [SiteNext]_siteVars
             PROVE  PagesInv'
  OBVIOUS
<1>1. CASE UNCHANGED pageVars
  BY <1>1 DEF pageVars, PagesInv, Shows
<1>2. CASE Open
  BY <1>2, OpenStep
<1>3. CASE FollowItem \/ FollowTab \/ FollowLink \/ SendForm \/ ChangeDocument
  BY <1>3, ItemStep, TabStep, LinkStep, FormStep, ChangeStep
<1>4. CASE Answer
  <2> HIDE DEF PagesInv, LinksResolve
  <2> QED BY <1>4, NotFoundStep, ReviewHTMLStep, ReviewPDFStep, OtherPageStep, OwnFormStep,
             XmlViewStep, UnlockGetStep, OldAddressStep, WriteStep DEF Answer
<1>5. CASE Leave
  BY <1>5, LeaveStep
<1>6. \/ UNCHANGED pageVars \/ Open \/ FollowItem \/ FollowTab \/ FollowLink \/ SendForm
      \/ ChangeDocument \/ Answer \/ Leave
  BY DEF SiteNext, siteVars, ReadLists, OpenDocument, ReadDocument, Read, LeaveDocument
<1> QED BY <1>1, <1>2, <1>3, <1>4, <1>5, <1>6

LEMMA ReachStart == SiteInit => ReachInv
BY DEF SiteInit, PagesInit, ReachInv

LEMMA ReachStep == PagesInv /\ ReachInv /\ [SiteNext]_siteVars => ReachInv'
<1> SUFFICES ASSUME PagesInv, ReachInv, [SiteNext]_siteVars
             PROVE  ReachInv'
  OBVIOUS
<1>1. CASE UNCHANGED pageVars
  <2>1. browser' = browser
    BY <1>1 DEF pageVars
  <2> HIDE DEF TargetFits, PartFits
  <2> QED BY <2>1 DEF ReachInv
<1>2. CASE Open
  BY <1>2, OpenReaches
<1>3. CASE FollowItem \/ FollowTab \/ FollowLink \/ SendForm
  BY <1>3, OffersReach
<1>4. CASE ChangeDocument
  BY <1>4, ChangeReaches
<1>5. CASE Answer
  BY <1>5, AnswersReach, ReachResolves
<1>6. CASE Leave
  <2>1. browser'.at = "list"
    BY <1>6 DEF Leave
  <2> QED BY <2>1, ElsewhereReaches
<1>7. \/ UNCHANGED pageVars \/ Open \/ FollowItem \/ FollowTab \/ FollowLink \/ SendForm
      \/ ChangeDocument \/ Answer \/ Leave
  BY DEF SiteNext, siteVars, ReadLists, OpenDocument, ReadDocument, Read, LeaveDocument
<1> QED BY <1>1, <1>2, <1>3, <1>4, <1>5, <1>6, <1>7

LEMMA PagesAlways == SiteSpec => [](PagesInv /\ ReachInv)
<1>1. SiteInit => PagesInv /\ ReachInv
  BY PagesStart, ReachStart
<1>2. PagesInv /\ ReachInv /\ [SiteNext]_siteVars => (PagesInv /\ ReachInv)'
  BY PagesStep, ReachStep, ReachResolves
<1> QED BY <1>1, <1>2, PTL DEF SiteSpec

\* Every link, form and redirect leads to the page, the document and the
\* identifier that it was made for: of the 53 patterns of urls.py none before its
\* own takes the address, and its own splits it where it was put together, for
\* all documents whose addresses have none of the words that tell pages apart.
THEOREM LinksAlwaysResolve == SiteSpec => []LinksResolve
BY PagesAlways, ReachResolves, PTL

\* A reader who follows an item of the toolbar, or a tab, while the document does
\* not change, comes to a page that shows it as selected, redirects included:
\* navigation_tags.py and the templates agree with the views, for all documents.
THEOREM ItemsSelected == SiteSpec => []ItemSelected
<1>1. PagesInv => ItemSelected
  BY DEF PagesInv, ItemSelected, Shows
<1> QED BY <1>1, PagesAlways, PTL

\* A reader meets an error only by acting on a page that the document has since
\* left behind, or by the two offers that are made in vain, whatever documents
\* there are.
THEOREM ErrorsFromChanges == SiteSpec => []ErrorsComeOfChanges
<1>1. PagesInv => ErrorsComeOfChanges
  BY DEF PagesInv, ErrorsComeOfChanges, LinkedUri, None
<1> QED BY <1>1, PagesAlways, PTL

=============================================================================
