-------------------------------- MODULE Routes --------------------------------
(***************************************************************************)
(* The addresses of the application (judgments/urls.py, behind             *)
(* config/urls.py): the patterns in the order in which they are tried, the *)
(* address that reverse() makes for a page of a document, and the page     *)
(* that an address leads to.  An address is the sequence of its segments;  *)
(* a document's URI is one or more of them, since "path:" crosses slashes. *)
(***************************************************************************)
EXTENDS Integers, SequencesExt

\* The addresses of a page: the document's URI, where the pattern has_uri, words,
\* another argument, where it has_part, and the rest.
Fixed(name, words) ==
    [name |-> name, has_uri |-> FALSE, words |-> words, has_part |-> FALSE, rest |-> <<>>]

Below(name, words) ==
    [name |-> name, has_uri |-> FALSE, words |-> words, has_part |-> TRUE, rest |-> <<>>]

Document(name, words) ==
    [name |-> name, has_uri |-> TRUE, words |-> words, has_part |-> FALSE, rest |-> <<>>]

Within(name, words, rest) ==
    [name |-> name, has_uri |-> TRUE, words |-> words, has_part |-> TRUE, rest |-> rest]

\* What config/urls.py takes before the pages of documents.  Below accounts/
\* nothing falls through: what is not a page of theirs is not found.
Before == <<
    Fixed("check", <<"check">>), Below("accounts", <<"accounts">>),
    Below("admin", <<"admin">>), Fixed("robots", <<"robots.txt">>),
    Fixed("favicon", <<"favicon.ico">>) >>

Application == <<
    Fixed("home", <<>>), Fixed("components", <<"components">>), Fixed("results", <<"results">>),
    Below("signed-asset", <<"signed-asset">>),
    Fixed("upload", <<"upload">>), Fixed("publish", <<"publish">>),
    Fixed("unpublish", <<"unpublish">>), Fixed("hold", <<"hold">>),
    Fixed("unhold", <<"unhold">>), Fixed("delete", <<"delete">>),
    Fixed("enrich", <<"enrich">>), Fixed("reparse", <<"reparse">>),
    Fixed("unlock", <<"unlock">>), Fixed("stub", <<"create_stub">>),
    Fixed("edit-redirect", <<"edit">>), Fixed("detail-redirect", <<"detail">>),
    Fixed("xml-redirect", <<"xml">>),
    Fixed("reports", <<"reports">>),
    Fixed("report_awaiting_parse", <<"reports", "awaiting-parse">>),
    Fixed("report_bulk_reparse_run_logs", <<"reports", "bulk-reparse-run-logs">>),
    Below("report_bulk_reparse_run_log_detail", <<"reports", "bulk-reparse-run-logs">>),
    Fixed("report_awaiting_enrichment", <<"reports", "awaiting-enrichment">>),
    Fixed("report_locked_documents", <<"reports", "locked-documents">>),
    Fixed("tools", <<"tools">>), Fixed("tools_missing_fclid", <<"tools", "missing-fclid">>) >>

\* Success pages and pages of one document, down to the deletion of one of its
\* identifiers, before the one of the document itself.
DocumentPagesRoutes == <<
    Document("associated-documents", <<"associated-documents">>),
    Document("edit-document", <<"edit">>), Document("document-history", <<"history">>),
    Document("document-identifiers", <<"identifiers">>),
    Document("document-metadata", <<"metadata">>),
    Document("document-identifiers-add", <<"identifiers", "add">>),
    Within("document-identifier-delete", <<"identifiers">>, <<"delete">>),
    Document("publish-document", <<"publish">>),
    Document("publish-document-success", <<"published">>),
    Document("unpublish-document", <<"unpublish">>),
    Document("unpublish-document-success", <<"unpublished">>),
    Document("hold-document", <<"hold">>), Document("hold-document-success", <<"onhold">>),
    Document("unhold-document", <<"unhold">>), Document("unhold-document-success", <<"unheld">>),
    Document("document-upload", <<"upload">>),
    Document("upload-document-success", <<"uploaded">>),
    Document("delete-document", <<"delete">>), Document("full-text-pdf", <<"pdf">>),
    Document("document-downloads", <<"downloads">>),
    Fixed("create-stub-document", <<"stub">>), Document("full-text-xml", <<"xml">>) >>

\* The "bare document" matches whatever is left.
BareDocument == << Document("full-text-html", <<>>) >>

\* Seeded fault: the page that deletes a document is tried before the one that
\* deletes an identifier.
HastyPatterns ==
    Before \o Application \o << Document("delete-document", <<"delete">>) >>
        \o DocumentPagesRoutes \o BareDocument

Patterns == Before \o Application \o DocumentPagesRoutes \o BareDocument

-----------------------------------------------------------------------------

\* A page asked for: its name, the document's URI, and the other argument.
Target(name, uri, part) == [name |-> name, uri |-> uri, part |-> part]

Fill(route, uri, part) == uri \o route.words \o part \o route.rest

\* reverse(): the address of a page.
Address(t) ==
    LET pattern == CHOOSE i \in DOMAIN Patterns : Patterns[i].name = t.name IN
    Fill(Patterns[pattern], t.uri, t.part)

\* What an argument, where there is one, can stand for in an address.
Arguments(has, address) ==
    IF has THEN {SubSeq(address, i, j) : i, j \in DOMAIN address} \ {<<>>} ELSE {<<>>}

\* The targets of an address by one pattern.
TargetsBy(route, address) ==
    {t \in {Target(route.name, uri, part) :
              uri \in Arguments(route.has_uri, address),
              part \in Arguments(route.has_part, address)} :
       Fill(route, t.uri, t.part) = address}

\* The page that an address leads to: by the first pattern that matches, whose
\* first argument takes as much as it can.  Every address that is not empty
\* matches the last pattern.
Resolve(address) ==
    LET Matching(i) == TargetsBy(Patterns[i], address)
        first == CHOOSE i \in DOMAIN Patterns :
                   Matching(i) # {} /\ \A j \in 1..(i - 1) : Matching(j) = {} IN
    CHOOSE t \in Matching(first) : \A s \in Matching(first) : Len(s.uri) <= Len(t.uri)

=============================================================================
