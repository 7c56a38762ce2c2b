# Verification of the case-law editor interface

This directory holds TLA+ models of `ds-caselaw-editor-ui`, the Django service
with which the editors of the Find Case Law collection publish, edit and delete
documents, the configurations that check the models with TLC, and theorems about
them that TLAPS proves.  Paths below are relative to the repository; `judgments/`
is `src/judgments/`.

## The system

The editor interface keeps almost no state of its own.  Documents live in a
MarkLogic database reached through the package `caselawclient`, their files in S3
buckets, and three CloudFront distributions (public site, assets, editor) cache
what is served.  gunicorn runs five synchronous workers (`docker/start`), each
serving one request at a time; management commands run beside them from a
scheduler.  Nothing locks a document while a handler works on it, so handlers of
different workers, and commands, interleave between any two external calls.

### Components

| Component | Source | State | Operations | What is hard | What makes it correct |
|---|---|---|---|---|---|
| Document requests | `judgments/views/judgment_publish.py`, `judgment_hold.py`, `delete.py`, `judgment_edit.py`, `document_identifiers.py`, `upload.py`, `stub.py`, `utils/view_helpers.py` | the document, its identifiers, its PDF; a worker's loaded copy | publish, unpublish, hold, unhold, delete, edit form, add and delete identifier, upload, create stub | guards evaluated on a loaded copy, whole-collection saves, multi-call writes that fail half way, forms sent again | a published document is not deleted, identifiers are not lost, an edit reported as successful is complete |
| Cache invalidation | `judgments/utils/aws.py` | CloudFront copies and invalidations in progress | three `create_invalidation` calls | a failure between the calls; a cache filled between write and invalidation | no acknowledged write stays hidden behind an old copy, and each eventually reaches the readers |
| Version history | `judgments/views/document_history.py` | submission in progress, two counters | one event per MarkLogic version, the closing step | annotations of several generations mixed in one list, exceptions half way through an event | each version is shown once, in order, under the submission it belongs to |
| Bulk reparse | `judgments/management/commands/reparse_next_in_reparse_queue.py`, `judgments/models/telemetry.py`, `views/document_reparse.py` | run logs in the database, the selected batch | select, send, record, end | failures of several kinds, a killed process, two limits | the log tells what was sent, and how the run ended |
| Re-enrichment queue | `judgments/management/commands/enrich_next_in_reenrichment_queue.py`, `views/enrich.py` | none; the queue is a query of MarkLogic | send the next 25 | one document that raises stops every run, and 25 that are refused fill every run | what is behind no such document is enriched, however often a run is killed |
| FCLID assignment | `judgments/management/commands/assign_missing_fclids.py` | loop counters | fetch a page, assign | the loop only ends when the query is empty, and fetches the refused documents again | it ends only when every document is identified, and reaches all that take an identifier |
| Metadata claims | `judgments/views/document_metadata.py` | the claims collection in memory | reject, suppress, add, save | the whole collection is saved; early returns after some changes | a rejected claim stays rejected, one claim of a single-valued field is current |
| Document lists | `judgments/utils/document_list.py`, `utils/paginator.py`, `views/document_list.py`, `views/paginated_view.py`, `utils/view_helpers.py` | none | parse the query, search, page links | page numbers beyond the end, dividers at the edges, swapped years | every page is reachable by links, no link leads outside the range |
| Routes | `judgments/urls.py`, `config/urls.py` | none | make an address, resolve one | `path:` takes slashes, so that patterns overlap and their order decides | every address leads to the page that it was made for |
| Review pages and buttons | `judgments/views/document_full_text.py`, the other pages of a document, their templates, `views/document_reparse.py`, `views/enrich.py`, `views/unlock.py` | none | pages, forms, redirects | two views that redirect to each other; pages made before others changed the document | redirects end; what a page offers is granted |
| Navigation | `judgments/templatetags/navigation_tags.py` | none | items of the toolbar, tabs | items depend on the document and on the name of the view | the page that an item leads to shows that item as selected |
| Test recording | `config/vcr_config.py`, `config/vcr_middleware.py` | cassettes in files, the one in use in memory | record a page, play it back | names of cassettes that must not collide, requests that match although they differ, answers that pass the hooks any number of times | a page played back gets the answers recorded for it |
| Reports | `judgments/views/reports.py` | none | five read-only pages | results with one row | rows are the rows of the query |
| Tools, components, signed assets, accounts, errors | other files of `judgments/views/`, `judgments/accounts` | none | one redirect, or a rendered page | none | the page is rendered |
| Cookie consent | `ds_caselaw_editor_ui/static/js/cookie_consent` | a cookie, the banner | accept, reject, save preferences | none of its own | vendored (its README names The National Archives' cookie-consent repository), not modelled |
| Settings, deployment | `config/settings/`, `fabfile.py`, `merge_production_dotenvs_in_dotenv.py` | none | start-up | none at run time | not modelled |

## The modules

| Module | Models | State | Actions |
|---|---|---|---|
| `DocumentStore` | what the handlers need of a document in MarkLogic | none (operators on document records) | none |
| `Distributions` | the three CloudFront distributions, `utils/aws.py` | `rev` (writes of a document), `cdn` (the revision each distribution serves), `pending` (accepted invalidations) | fill, accept and complete an invalidation |
| `DocumentRequests` | every handler that writes to a document | `store`, `pdf`, `acked`, and `pc`, `task` for each worker | one for the start of each handler, one for each external call |
| `MCDocumentRequests` | | | symmetry for TLC |
| `SequentialRequests` | the same handlers with one worker | `cut`, a history variable: the documents on which an exception cut a handler off between the two writes of a citation | those of `DocumentRequests` |
| `SequentialRequestsProofs` | | | theorems |
| `DocumentRequestsProofs` | | | theorems |
| `HistorySequencer` | `DocumentHistorySequencer` | the annotations, the versions still to come, the submission in progress, the two counters, the structured history, and how the constructor ended | one for each branch of `add_event_to_structured_history`, and the closing call |
| `HistorySequencerProofs` | | | theorems |
| `RunLog` | what the row of a bulk reparse run promises (abstract) | `row`, `limit` | create, advance (select or count a document), finish, abandon |
| `BulkReparse` | `reparse_next_in_reparse_queue.py` | `pc`, `batch`, the row in memory and in the database, `sent` | one for each external call, the except, else and finally clauses, the kill |
| `DocumentLists`, `MCDocumentLists` | lists of documents: filters, search, page bar | `documents`, `url`, `shown`, and `walk`, a history variable | a request, the next-page link, documents that come and go |
| `DocumentListsProofs` | | | theorems |
| `Routes` | the patterns of `urls.py`, `reverse` and the resolver | none (operators on addresses) | none |
| `DocumentPages` | toolbar, tabs, links and forms of every page of a document, and the views that answer them | `document`, `browser` | follow an item, a tab, a link; send a form (to a route of its own or to the address of its page); a change by others; one for each kind of answer |
| `Site`, `MCSite` | `DocumentLists` and `DocumentPages` composed: one reader's session | those of both | those of both, and open a document from a list, leave it |
| `SiteProofs` | | | theorems about the lists and the pages together |
| `EnrichmentQueue` | runs of `enrich_next_in_reenrichment_queue.py` | `waiting`, `taken`, `requested`, and which documents raise or are refused | take a batch, send the next, a kill; a document is enriched, joins the queue |
| `FclidAssignment` | one run of `assign_missing_fclids.py` | `missing`, `loop`, and which documents are refused | fetch a page, assign, raise; an editor assigns |
| `Commands` | the three commands, one of them run | `command`, and those of the three | those of the three |
| `CommandsProofs` | | | theorems about `BulkReparse`, its refinement of `RunLog` among them, `FclidAssignment` and `Commands` |
| `Recordings` | what recording promises (abstract) | `known` answers, what a page hears | begin, hear, recall, end, restart |
| `Cassettes`, `MCCassettes` | `vcr_config.py` and `vcr_middleware.py` around vcrpy | `cassettes`, the one `open`, `mode`, `revision` of MarkLogic, `heard` (history) | serve a page, record, play, write or lose the cassette, restart, a change in MarkLogic |
| `CassettesProofs` | | | theorems, the refinement of `Recordings` among them |
| `MetadataClaims`, `MCMetadataClaims` | the metadata page and its form | `stored` claims, `offered` (history: the boxes that pages have shown), `job` for each worker | load and process a form, save, fail to save |
| `MetadataClaimsProofs` | | | theorems |

### Document requests

A handler loads its document with `get_document_by_uri_or_404`, decides from that
copy, and then makes external calls.  Loading and the checks on the loaded copy
are one step, because a `Document` caches its attributes; every later call is a
step of its own, so that other workers come between any two.  `pc[w]` is the
next call and `task[w]` holds the handler's locals: `snap` is the copy loaded,
`seen` the revision it had, `mark` the revision when invalidation began, `out`
the answer.  With `Failures` TRUE a call may raise before it has had its effect or
after.  `judgment_edit` catches `MarklogicAPIError`, reports it and still
invalidates the caches; elsewhere the exception ends in a 500.  The date that does
not parse, the identifier forms, the stub form and the upload form invalidate
nothing, as in the code.

What forms contain is reduced to what is told apart: name, court and date are
the number of the form that wrote them, identifiers are values, and "neutral
citation or other" is the only difference of type.  What `caselawclient` decides
alone (`is_publishable`, `validate_identifiers`, the preferred identifier, who
may do what) is a nondeterministic choice.

`create_stub` puts the neutral citation into the body as it was typed, with the spaces
around it, and only then tests and stores `ncn.strip()` as the identifier.  So a citation in
a body is a text (`Texts`): a citation, or none, with spaces or without, and `Strip` gives the
citation; a text of nothing but spaces is no citation.  A body with spaces stays as it
is until the edit form changes the citation: the form compares with the identifier,
which has none.

A fill of a distribution is one step: a response that CloudFront fetched before a
write and stores after the invalidation is not modelled.

`SequentialRequests` adds to it on which documents a handler was cut off by an exception
between its first and its last write of the neutral citation, to the body and to the
identifiers.  One run with failing calls then tells both what holds always (a failed edit
leaves a prefix of its form) and that nothing but such a cut leaves a stub without its
identifier, or a body and identifiers that name different citations: failures of other
calls, of other documents' handlers and of the caches do not.  The spaces around a stub's
citation are the only difference left.

### Version history

The kinds of a version are the ways the code tells annotations apart: a submission,
an event of one, a legacy annotation (or none), a submission or an event whose
fields have the wrong shape, and one without the keys looked up, which ends the
constructor with an exception.  The
branch each takes, and what it has done before an exception is caught, is
modelled as the code has it: the counters and the submission in progress keep
what was changed.

### Bulk reparse

Documents of a batch are told apart only by their place, because nothing carries over
from one to the next but counters.  One run is modelled, as two runs share nothing
but the external queue.  `KeyboardInterrupt` passes the `except Exception` clause
but not `finally`; a kill passes both.  `RunLog` states what a reader of the row may
rely on; the mapping is `row <- saved`.

### The other commands

`EnrichmentQueue` runs the command again and again, as its schedule does.  Documents are
numbered in the order of the queue.  MarkLogic's answer has the names of its columns as a
first row, which `get_rows_from_result` drops.  Nothing in the command is caught, so a
document that raises ends the run; what `enrich()` returns is not looked at, so a refused
document counts like any other, and both stay where they are in the queue.

`FclidAssignment` fetches pages until one is empty.  A document whose identifiers do not
validate is reported and left, so it is fetched again with the next page; a full page of
them would hide the others.

`Commands` composes the two with `BulkReparse` by choosing one: the commands share nothing
but external queries, and what one does to the documents another reads is an action
(`Join`, `Identify`) of that one's module.

### Routes, pages and the reader's session

An address is a sequence of segments: the document's URI, where the pattern has one, the
pattern's words, its other argument, and what follows that (`Fill`).  `Address` is `reverse()`;
`Resolve` finds the first pattern that matches and gives its first argument as much as it can
take, as the regular expressions behind `path:` do.  What URIs look like is MarkLogic's affair,
and the patterns rely on it: `Clear` says what of.

A page is a pair of its name in the patterns and the name of the view that the toolbar knows
it by, since the two differ where navigation goes wrong.

`DocumentPages` has a browser that looks at a page, or waits for an answer.  A page holds the
document as it was when the page was made; `ChangeDocument` lets others change it, or the
document at the related URI, at most once under a page that is being looked at, since a second
change makes a stale page no staler.  A request remembers which item of the toolbar was
followed, so that the page at the end of the redirects can be compared with it, and is
"stale" once the document has changed.  Handlers that `DocumentRequests` takes apart
call by call are answered in one step here: the question is where the reader ends up.  The
pages of older versions of a document render another version under the same rules and are
left out.

### Test recording

`Cassettes` keeps what the developer's promise depends on: how the name of a cassette is made
of path, method and parameters; how a request is normalised (the user replaced, the JSON of
its variables laid out anew) and matched (calls of the search module match whatever they
ask); how an answer of several parts is unpacked and kept as text, and becomes a body again,
in place, when it is first played; that cassettes pass through the same hooks again whenever
they are loaded.  vcrpy is external.  Which headers are dropped, and parameters
whose hashes collide, are left out.  `Recordings` states the promise: a page that is played
back is given, for each question, the answer first recorded for it on that page, whoever
asks.  The mapping reads each answer out of the cassette of its page.  That a page has one name and
two pages never share one (`NamesAssumption`), and that a page calls the search module once
at most (`SearchAssumption`), are assumptions, which TLC evaluates for the pages of the run.

### Document lists

`Filters` is `from_query_params`, `SearchParameters` the parameters sent to the search,
`Paginator` the function of that name with its range given by its two ends.  Query,
order and courts go to the search unchanged and are left out.  The store is a set of documents,
each with its status, its year and a number that tells it from others like it; the
search counts those that fit.  `walk` records which
pages a reader has seen since the first page of a list, and is dropped when a
document changes: paging by offset promises nothing then.

### Metadata claims

The form's order (reject, suppress, add) and its two early returns are kept; loading and
processing in memory are one step, `save_metadata_fields` the other.  `offered` holds
every box that any page has shown, so that a form may come from a page of any age.
How `suppress_body_value` turns the body's judges into claims is taken from
`judgments/tests/test_document_metadata.py`; whether `add_editor_judge` does so too
is left open (`Keeping`).  Claims are ordered by age, the newest winning; the claims of a field are the
set of their places in the collection, so that the newest of them is the greatest place.

The page has a box for a new claim under each field, and all are in one form.  A form therefore
has any number of new claims (`Additions`: sequences of field and value), several for
one field among them, as `getlist` allows; `Added` makes a claim of each, those of a field in
the order of the form.  `InEffect` asks for a claim of its own for each new value, and that
the last one for a single-valued field wins.  Claims of different fields are never
compared, so their order among each other is abstracted: body judges that are kept may stand
before another field's new claims.  The body's values are a constant, as the page
does not change them; a document begins with claims of any of its single-valued
fields.

## The runs

| Run | Asks | Bounds |
|---|---|---|
| `caches` | `AckedWritesCovered`, `WritesReachReaders`: do acknowledged writes reach all readers although calls fail? | two workers, one document, all three distributions, two requests. A lost invalidation needs one write, one fill and one invalidation; the second request gives the race between a write and the invalidation of another |
| `writes` | `PublishedDeletedOnlyIfStale`, `IdentifierLossExplained`: what overtaken checks and saves can do | every handler, two workers, one document, two citations and another identifier, two requests: two overlapping handlers are the smallest and the typical race |
| `sequential` | `TypeOK`, `SequentialFormPrefix`, `CitationStoredUnlessCut`, `CitationIdentifiedUnlessCut`: what failing calls leave without interleaving, and what only a handler cut off between two writes leaves | one worker, one document, two citations with spaces or without, three requests: a stub, an edit and its repetition |
| `citation_retry` | `EditedCitationStored`, the first of the last two without its exception: violated | two requests |
| `published_identifiers` | does the edit form keep identifiers of published documents, as the publish page says: violated | one request |
| `published_uploads` | does the upload form refuse published documents, as the upload page says: violated | two requests |
| `history` | `TypeOK`, `EventsInOrder`, `SubmissionsNumbered`, `GroupedBySubmission`, `OrphansFollowBreak` | all lists of up to five versions of six kinds: an open submission, a break, an orphan, and another submission fit in five |
| `history_legacy` | are only unstructured annotations shown as legacy, as a comment says: violated | two versions |
| `reparse` | bulk reparse: `TypeOK`, `RowMatchesSends`, `FinishedAccountsForAll`, `SendsBounded`, `RunLogImplemented`; enrichment: `HeadEnriched`; FCLIDs: `EndsWhenAllAssigned`, `OthersAssigned` | batches of up to four, limits up to three: the limit is met before, at and after the end of the batch. A queue of four and two to a run: a run can be full of refused documents, have one, or none. Three documents, two to a page: a page can be full, short, or full of refused ones |
| `lists` | lists: `TypeOK`, `BarComplete`, `WalkShowsList`, `ListIsAsAsked`; pages: `LinksResolve`, `ItemSelected`, `ErrorsComeOfChanges`, `RedirectsEnd` | none to eight pages of two documents: the bar of five numbers is cut at neither, one and both ends; two years, asked for either way round. A judgment, its press summary and a press summary at an address of its own, in every state; one identifier. Documents are opened from one list (`Opened`), since a page remembers nothing of the list before it |
| `cassettes` | `TypeOK`, `PlaysWhatWasRecorded` | two pages of search results, one of them at two addresses, and a document; five questions of every kind that the matcher tells apart; two users; one change in MarkLogic, three recorded answers: two on one page and one on another, or one before the change and two after |
| `claims` | `TypeOK`, `OneCurrent`, `FormAppliedWhole`, `NothingComesBack` | two workers, one single-valued field and the judges (two in the body), three claims: suppressing a judge makes two, an overtaking request a third. Forms with no new claim, with one for either field, two for the court, one for each field, and two for the court with one for the judges (`MCAdditions`). Two requests that both turn the body's judges into claims would need four, which the theorems cover |

`MaxRequests`, `MaxRevision`, `MaxVersion`, `MaxTry`, `MaxParse`, `MaxQueue`, `MaxPage`,
`Opened`, `MaxInteractions` and `MaxClaims` are the bounds; `NumberToEnrich` and
`NumberPerLoop` are constants of the code (25 and 100) made small.  Deadlock is not checked
where the system stops by itself: requests are bounded (`DocumentRequests`), a constructor
ends (`HistorySequencer`), a command ends (`Commands`).  It is checked in `lists`,
`cassettes` and `claims`.

Each property of a passing run has a mutant, a definition changed as a plausible
bug would change it; the definitions marked "Seeded fault" are those.

### Fairness

* `WritesReachReaders` asks only CloudFront for fairness: an invalidation that it has accepted is
  completed (weak fairness on `CompleteInvalidation` for each distribution with readers).
  Nothing is assumed of workers, which may stop in the middle of a request, nor of users,
  nor of fills.  The property speaks of writes whose handler has come back from
  `invalidate_caches`; those of a handler that failed before are not promised to anyone.
* `HeadEnriched` assumes that the command is run on its schedule and goes on while nobody kills it
  (weak fairness on `TakeBatch` and `SendNext`), that it is not killed every single time
  that it comes to the same document (strong fairness on sending it), and that enrichment
  deals with what it is sent (weak fairness on `Enriched`).  It promises nothing about documents
  behind one that raises, or behind a batch of refused ones: those wait for ever.
* `OthersAssigned` assumes that the command goes on (weak fairness on its two steps); which
  documents make up a page stays open.
* `RedirectsEnd` assumes that the server answers and the browser follows (weak fairness on
  `Answer`).
* The properties of `Cassettes`, and all others, hold without fairness.

### Disagreements with the repository's own words

* `citation_retry`: the edit form writes a new neutral citation first to the identifiers,
  then to the body.  If the second write fails and the form is sent again, the
  citation is found unchanged, the body is never written, and the user reads "Document
  successfully updated" (`judgments/views/judgment_edit.py:71`).
* `published_identifiers`: the publish page says that identifiers of a published document
  cannot be deleted (`templates/judgment/publish.jinja:11`); the edit form deletes and
  replaces its neutral citations (`judgment_edit.py:33`).
* `published_uploads`: the upload page says that a published document takes no uploads
  (`templates/judgment/upload.jinja:11`); only the page, not the handler, looks
  (`judgments/views/upload.py:88`).
* `history_legacy`: a comment says that the last branch catches versions without
  annotation and unstructured ones (`document_history.py:130`); it also catches structured
  ones whose payload or submitter is null.

Known behaviour that contradicts nothing written down, and that the properties name as
their exceptions:

* Without results the page bar links to the pages 1 and 0.
* A run of the reparse command with `max_parse` 0 sends one document.
* A document that raises, or 25 that are refused, at the head of the enrichment queue keep all
  behind them waiting (`HeadEnriched`); the assignment of FCLIDs does not end while a
  document is refused, and 100 of them hide all others (`OthersAssigned`).
* A document with neither contents nor a PDF is sent from its HTML page to its PDF page and back
  without end (`RedirectsEnd`); no link uses the parameter `no-redirect` that would stop it,
  and the page's message for that case cannot be reached by one.  The redirect to the PDF
  page also loses `version_uri`.
* The item "Upload" is never shown as selected: the toolbar looks for `document_upload` where the
  view is named `upload_document` (`ItemSelected`).
* The form that deletes is offered for published documents, and refused; the page of associated
  documents links to `/None` when there are none (`ErrorsComeOfChanges`).  A press
  summary whose URI lacks the suffix is related to itself.
* A page that is recorded again gets new interactions behind the old ones, and playback gives the
  old ones (`Recordings` says "first").

## The proofs

The theorems hold for all values of the constants that satisfy the named assumptions of the
modules.  Most of these state a constant's type (`HandlersAssumption`, `FailuresAssumption`,
`ReadersAssumption`, `BoundsAssumption`, `LimitsAssumption`, `CollectionsAssumption`, ...).
The others say something of the service or of its surroundings:

* `OneWorkerAssumption`, `NoIdentifierFormsAssumption` (`SequentialRequests`): the question is what
  one worker leaves without the forms that are meant to separate identifiers and body.
* `MaxClaimsAssumption` (`MetadataClaims`): the bound leaves room for the claims that parsing makes.
* `UrisAssumption`, `UuidsAssumption` (`DocumentPages`): addresses of documents, and those related
  to them, begin with none of the words that pages of no document begin with, end with none of the
  words that pages of documents end with, and hold "identifiers" nowhere; nor do identifiers.
  Courts, years, numbers and `d-` followed by a UUID are none of these words.  Without it `urls.py`
  does not keep the promise: a document at `uksc/1/edit` has no page of its own.  The words are
  computed from the patterns, so a pattern that is added makes the assumption stronger, and a
  document at `ewhc/admin/...` stays one although `admin` is a page: only the first word counts.
* `QuestionAssumption` (`Cassettes`): only programs and modules are called with variables, and a variable
  named "user" is always the user.
* `SearchAssumption`: a page calls the search module at most once, without which the matcher, to
  which all such calls are alike, would answer the second with the first.
* `NamesAssumption`: the name of a cassette tells the page, whatever the order of its parameters:
  addresses that differ only by slashes and underscores, or collide in their hash, are left out.
* `UnknownAssumption`: what stands for no page and no answer is neither.

| Theorem | Statement | Argument |
|---|---|---|
| `DocumentRequestsProofs!TypeCorrect` | `[]TypeOK` | with `CallsFit`: the next call of a worker is one of its handler's, so that the record in `task` has the values the call needs |
| `CachesCovered` | `[]AckedWritesCovered` | `CoverInv`: a worker that has passed the call for a distribution knows every copy older than its `mark` to be covered by an accepted invalidation there; the property alone says nothing of a worker between the three calls, and is not inductive |
| `SnapshotsCoherent` | a loaded copy differs from the store only after a write | `SnapInv`, the same of what the worker will still do |
| `DeletionsExplained` | `PublishedDeletedOnlyIfStale` | from `SnapshotsCoherent` and the guard of `delete` |
| `IdentifierLossesExplained` | `IdentifierLossExplained` | from `SnapshotsCoherent` and `StubInv`: a document is only inserted where there is none, by one worker at a time, and has no identifier to lose |
| `SequentialRequestsProofs!SequentialFormsPrefix` | `[]SequentialFormPrefix` | `PrefixInv`: name, court and date of every document come from forms in falling order, none newer than the one served, and before each call what the calls before it wrote is the present form's |
| `CitationsStored`, `CitationsIdentified` | `[]CitationStoredUnlessCut`, `[]CitationIdentifiedUnlessCut` | `CiteInv`: a document outside `cut` that no worker is half way through has in its body, but for spaces, the one citation among its identifiers; before each call, what the handler still has to do to that end, with a text and its stripped citation told apart; and a step that leaves a handler early within the citation's calls puts its document into `cut` |
| `HistorySequencerProofs!TypeCorrect` | `[]TypeOK` | with the domain of the annotations |
| `VersionsInOrder` | `[]EventsInOrder` | `OrderInv`: `BoundsInv` (what is open and what is pushed lie between the bounds of the versions read), `Ordered` and `Complete` |
| `Numbering` | `[]SubmissionsNumbered` | `NumberInv`: no number shown is above the counter, which the property alone does not say; one lemma for a branch that pushes one submission, one for the branch that pushes two |
| `OrphansExplained` | `[]OrphansFollowBreak` | `OrphanInv`: while versions are read and no submission is in progress, the last entry shown is a legacy one |
| `VersionsGrouped` | `[]GroupedBySubmission` | `GroupInv`: the open submission holds the unbroken versions since it began |
| `CommandsProofs!TypeCorrect`, `RowTellsSends`, `LimitHolds`, `FinishedRunsComplete` | the invariants of `BulkReparse` | `Inv`: at each call, how the row in memory, the row stored and the documents sent are related |
| `ImplementsRunLog` | `Spec => RunLogImplemented` | every step under `Inv` is a step of `RunLog` or leaves the row alone |
| `EndsComplete` | `[]EndsWhenAllAssigned`, of `FclidAssignment` | `EndInv`: a page of the size of the smaller of the limit and what is missing is only empty when nothing is; after the end nothing changes |
| `CommandsKeepPromises`, `CommandsImplementRunLog` | the same of `Commands` | a step of another command is a stutter of the reparse and of the assignment; a command that is not run starts where its invariant holds |
| `DocumentListsProofs!PaginatorComplete` | `Complete(Paginator(c, n))` for every page and every number of pages | the window lies within the pages and is five wide if anything is left out |
| `ListsTyped`, `BarsComplete` | `[]TypeOK`, `[]BarComplete` | `ListInv`: what is shown is the page made for `url` when it was asked for; with `PaginatorComplete` |
| `WalksShowLists` | `[]WalkShowsList` | `ListInv`: a walk has seen the pages from the first to the one shown, of one list, of a store that has not changed; rounding up gives as many pages as hold documents |
| `ListsAsAsked` | `[]ListIsAsAsked` | the swap of the years and the flags of the search, case by case, select the same set of documents, so the count is the same |
| `MetadataClaimsProofs!TypeCorrect` | `[]TypeOK` | `ClaimsInv`: claims are numbered in the order of the collection by different numbers up to `made`, in the store and in every worker's memory, and each memory is what its form makes of the copy it loaded |
| `OneCurrentAlways` | `[]OneCurrent` | from `ClaimsInv`: the claim with the winner's identity is the winner, which is false when two share one |
| `FormsAppliedWhole` | `FormAppliedWhole`, for any number of fields, and of new claims in a form | from `ClaimsInv`, lemma by lemma for rejecting, suppressing, keeping and adding: what each leaves alone is found at its place, and the new claims at theirs, behind all others and in the order of the form |
| `NothingEverComesBack` | `NothingComesBack` | from `ClaimsInv`: a value active in the memory but not in the copy loaded was added; for a single-valued field, what is last among the active claims was active before |
| `SiteProofs!ListsHoldOnSite` | the invariants of `DocumentLists`, of `Site` | opening, reading and leaving a document are stutters of the lists |
| `LinksAlwaysResolve` | `[]LinksResolve` | `ReachInv`: a request under way is for a target of the site, with an identifier for the page that deletes one and for no other. `TargetsReached`: such a target is what its address leads to. The patterns are taken by place (`PlacesAre`); one before the target's own would have to end in its last word (`EndsDiffer`), or begin with the first one of the URI (`PlainElsewhere`); its own takes the words where they were put, as the URI holds none of them (`SameArguments`) |
| `ItemsSelected`, `ErrorsFromChanges` | `[]ItemSelected`, `[]ErrorsComeOfChanges` | `PagesInv`: a request under way aims at a page that shows its item as selected, and asks for what the view will grant, unless the document has changed since its page was made; each view keeps the aim or answers with a page that shows the item |
| `CassettesProofs!CassettesTyped` | `[]TypeOK` | `CassetteInv`: the file of a page holds only requests that put a question of that page, as they are kept, and answers as they are kept, which pass the hooks unchanged (`KeptAgain`, `AnswersStay`) |
| `PlaybackIsRecording` | `Spec => PlaysWhatWasRecorded` | `CassetteInv`: while a page is recorded its tape is the file and what was heard since (`TellsTogether`); while it is played, the file with some answers put together; of what is kept for a page, the requests that match a question are those that put it (`MatchesTell`) |

Only model-checked: liveness (`WritesReachReaders`, `HeadEnriched`, `OthersAssigned`,
`RedirectsEnd`), which is out of the prover's reach.  Every invariant and every action property
that a run checks is a theorem, the refinements among them.

## What is not modelled

Pages that only render, formatting, links, e-mail texts, settings and start-up
have no state and no order to get wrong; reports and tools show an answer of MarkLogic;
accounts are django-allauth's; the cookie banner is vendored; `fabfile.py` calls docker.
MarkLogic, S3, CloudFront, the parser, the enrichment service and vcrpy are modelled only as
far as the code uses them.  `get_view_control_tabs` is called by no template, and the pages
of older versions of a document are those of the present one rendered from another text.

Not covered by a property, although the code is exposed to it: documents that are published
between two pages of a list shift the following ones (paging by offset promises nothing
then); two reparse runs at a time select the same documents (nothing forbids it); a
reparse button reports a request that the library has refused.

## Plan

Done, in the order in which they were planned: `DocumentStore`, `Distributions` and
`DocumentRequests` with their theorems; `HistorySequencer`; `BulkReparse` with its
abstraction `RunLog`; `DocumentLists`; `MetadataClaims`; the other commands (`EnrichmentQueue`,
`FclidAssignment`, `Commands`); `Routes`, `DocumentPages` and the reader's session `Site`;
`Cassettes` with its abstraction `Recordings`; theorems about all of them but the enrichment
queue.

Left, should the project be extended: the safety half of `HeadEnriched`; an abstract
specification of the document that `DocumentRequests` implements when one worker serves every
request.
