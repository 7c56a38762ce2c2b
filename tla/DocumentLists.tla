---------------------------- MODULE DocumentLists ----------------------------
(***************************************************************************)
(* The lists of documents: the filters that a request asks for             *)
(* (utils/document_list.py), the search (utils/view_helpers.py), the page  *)
(* links (utils/paginator.py, views/paginated_view.py), and a reader who   *)
(* follows them while documents are added, published and deleted.          *)
(***************************************************************************)
EXTENDS Integers, FiniteSetsExt

CONSTANTS
    PerPage,     \* RESULTS_PER_PAGE of the search client
    Years,       \* the years of documents, and those that a reader may ask for
    Collections, \* the stores: what documents there may be at a time
    MaxPage      \* bound on the pages that a reader may ask for

Published == {"unpublished", "published"}

ASSUME PerPageAssumption == PerPage \in Nat \ {0}
ASSUME YearsAssumption == Years \subseteq 1000..9999 /\ IsFiniteSet(Years)
ASSUME CollectionsAssumption ==
    \A store \in Collections :
        IsFiniteSet(store) /\ \A d \in store : d.status \in Published /\ d.year \in Years
ASSUME MaxPageAssumption == MaxPage \in Nat

VARIABLES
    documents,  \* the documents of the store, each with its status and its year
    url,        \* what the reader has asked for
    shown,      \* the page that answered
    walk        \* the list that the reader goes through from its first page

vars == <<documents, url, shown, walk>>

PublicationStatus == Published \cup {"all"}

Absent == 0  \* no such parameter, or one that is not a number

(***************************************************************************)
(* The request.  A status that is absent or unknown is "other"; the other  *)
(* parameters (query, order, courts) go to the search as they are.         *)
(***************************************************************************)
Url == [view : {"home", "results"}, status : PublicationStatus \cup {"other"},
        from_year : Years \cup {Absent}, to_year : Years \cup {Absent},
        page : -1..MaxPage]

DefaultStatus(view) == IF view = "home" THEN "unpublished" ELSE "all"

\* Seeded fault: a page number below one is taken as it comes.
UnboundedFilters(u) ==
    LET swap == u.from_year # Absent /\ u.to_year # Absent /\ u.from_year > u.to_year IN
    [status |-> IF u.status \in PublicationStatus THEN u.status ELSE DefaultStatus(u.view),
     from_year |-> IF swap THEN u.to_year ELSE u.from_year,
     to_year |-> IF swap THEN u.from_year ELSE u.to_year,
     page |-> u.page]

\* DocumentListFilters.from_query_params.
Filters(u) ==
    LET swap == u.from_year # Absent /\ u.to_year # Absent /\ u.from_year > u.to_year IN
    [status |-> IF u.status \in PublicationStatus THEN u.status ELSE DefaultStatus(u.view),
     from_year |-> IF swap THEN u.to_year ELSE u.from_year,
     to_year |-> IF swap THEN u.from_year ELSE u.to_year,
     page |-> IF u.page >= 1 THEN u.page ELSE 1]

\* Seeded fault: unpublished documents are hidden from no list.
ShowAllSearch(f) ==
    [only_unpublished |-> f.status = "unpublished", show_unpublished |-> TRUE,
     date_from |-> f.from_year, date_to |-> f.to_year]

\* _search_parameters_from_filters: the two flags and the dates of the search.
SearchParameters(f) ==
    [only_unpublished |-> f.status = "unpublished",
     show_unpublished |-> f.status # "published",
     date_from |-> f.from_year, date_to |-> f.to_year]

\* The number of documents that the search finds.
SearchTotal(p) ==
    Cardinality({d \in documents :
                   /\ p.only_unpublished => d.status = "unpublished"
                   /\ ~p.show_unpublished => d.status = "published"
                   /\ p.date_from # Absent => p.date_from <= d.year
                   /\ p.date_to # Absent => d.year <= p.date_to})

-----------------------------------------------------------------------------

NumberOfLinks == 5

HalfRange == NumberOfLinks \div 2

NumberOfPages(total) == (total + PerPage - 1) \div PerPage

\* The first and the last number of page_range.
PageRange(current, n) ==
    IF n <= NumberOfLinks THEN <<1, n>>
    ELSE IF current - HalfRange < 1 THEN <<1, NumberOfLinks>>
    ELSE IF current + HalfRange > n THEN <<n - NumberOfLinks + 1, n>>
    ELSE <<current - HalfRange, current + HalfRange>>

\* Seeded fault: the dividers are left out one page too late.
LatePaginator(current, n) ==
    LET range == PageRange(current, n)
        InRange(p) == range[1] <= p /\ p <= range[2] IN
    [first |-> range[1], last |-> range[2], number_of_pages |-> n, current_page |-> current,
     show_first_page |-> ~InRange(1), show_last_page |-> ~InRange(n),
     show_first_page_divider |-> n > NumberOfLinks /\ ~InRange(1),
     show_last_page_divider |-> n > NumberOfLinks /\ ~InRange(n),
     has_prev_page |-> current > 1, has_next_page |-> current < n]

\* paginator, the range of links by its ends.
Paginator(current, n) ==
    LET range == PageRange(current, n)
        InRange(p) == range[1] <= p /\ p <= range[2] IN
    [first |-> range[1], last |-> range[2], number_of_pages |-> n, current_page |-> current,
     show_first_page |-> ~InRange(1), show_last_page |-> ~InRange(n),
     show_first_page_divider |-> n > NumberOfLinks /\ ~InRange(2),
     show_last_page_divider |-> n > NumberOfLinks /\ ~InRange(n - 1),
     has_prev_page |-> current > 1, has_next_page |-> current < n]

\* get_pagination_context: the numbers that the bar shows,
Numbers(bar) ==
    (bar.first..bar.last)
        \cup (IF bar.show_first_page THEN {1} ELSE {})
        \cup (IF bar.show_last_page THEN {bar.number_of_pages} ELSE {})

\* and where "Previous" and "Next" lead.
Steps(bar) ==
    (IF bar.has_prev_page THEN {bar.current_page - 1} ELSE {})
        \cup (IF bar.has_next_page THEN {bar.current_page + 1} ELSE {})

-----------------------------------------------------------------------------

\* get_search_results_from_filters.
Page(u) ==
    LET f == Filters(u)
        total == SearchTotal(SearchParameters(f)) IN
    [filters |-> f, total |-> total, bar |-> Paginator(f.page, NumberOfPages(total))]

NoWalk == [list |-> "none"]

\* A walk through a list begins on its first page.
WalkFrom(page) ==
    IF page.filters.page = 1
    THEN [list |-> page.filters, total |-> page.total, pages |-> {1}]
    ELSE NoWalk

Init ==
    /\ documents \in Collections
    /\ url = [view |-> "home", status |-> "other", from_year |-> Absent,
              to_year |-> Absent, page |-> Absent]
    /\ shown = Page(url)
    /\ walk = WalkFrom(shown)

\* The reader types an address, or sends the search form.
Visit ==
    /\ url' \in Url
    /\ shown' = Page(url')
    /\ walk' = WalkFrom(shown')
    /\ UNCHANGED documents

\* Seeded fault: the address of the next page has lost the status.
ForgetfulNextHref == [url EXCEPT !.page = shown.bar.current_page + 1, !.status = "other"]

\* page_href: the address of this page with another page number.
NextHref == [url EXCEPT !.page = shown.bar.current_page + 1]

\* The reader goes on to the next page.
FollowNext ==
    /\ shown.bar.has_next_page
    /\ shown.bar.current_page < MaxPage
    /\ url' = NextHref
    /\ shown' = Page(url')
    /\ walk' = IF walk = NoWalk THEN NoWalk
               ELSE [walk EXCEPT !.pages = @ \cup {shown'.filters.page}]
    /\ UNCHANGED documents

\* Documents come and go while the reader reads: what was a walk through one
\* list may leave documents out or repeat them.
Change ==
    /\ documents' \in Collections
    /\ walk' = NoWalk
    /\ UNCHANGED <<url, shown>>

Next == Visit \/ FollowNext \/ Change

Spec == Init /\ [][Next]_vars

-----------------------------------------------------------------------------

TypeOK ==
    /\ documents \in Collections
    /\ url \in Url
    /\ shown.filters.status \in PublicationStatus
    /\ shown.filters.page \in Nat \ {0}
    /\ shown.total \in Nat

\* A bar is complete when it links to the first and to the last page, when an
\* ellipsis stands exactly where pages are left out, and when no number is that
\* of a page that is not there; and when, on a page that is there, that page is
\* among the numbers and the pages beside it are linked.
Complete(bar) ==
    LET n == bar.number_of_pages
        c == bar.current_page IN
    /\ {1, n} \subseteq Numbers(bar) /\ Numbers(bar) \subseteq 1..n
    /\ bar.show_first_page_divider <=> \E p \in 2..(bar.first - 1) : p \notin Numbers(bar)
    /\ bar.show_last_page_divider <=> \E p \in (bar.last + 1)..(n - 1) : p \notin Numbers(bar)
    /\ c <= n => c \in Numbers(bar) /\ (1..n) \cap {c - 1, c + 1} = Steps(bar)

\* As long as there are documents, the bar is complete, whatever page was asked
\* for: every page can be reached from every other (paginator).
BarComplete == shown.total > 0 => Complete(shown.bar)

\* A reader who goes from the first page of a list to the last by the link to
\* the next page, while no document comes or goes, is shown every document that
\* the first page promised, and no page without one: the links keep the filters
\* of the list (get_pagination_context), the pages are as many as the documents
\* need, and the last page is the first without a next one (paginator).
WalkShowsList ==
    walk # NoWalk /\ ~shown.bar.has_next_page =>
        /\ shown.filters = [walk.list EXCEPT !.page = shown.filters.page]
        /\ walk.pages = {p \in 1..MaxPage : (p - 1) * PerPage < walk.total} \cup {1}

\* A list counts the documents of the status that its label names, and of the
\* years between the two that were asked for, whichever way round: the flags of
\* the search have no "only published", and the label is made from the status,
\* not from the flags (total_count_postfix).
ListIsAsAsked ==
    LET years == {url.from_year, url.to_year}
        Asked(y) ==
            IF Absent \notin years THEN Min(years) <= y /\ y <= Max(years)
            ELSE /\ url.from_year # Absent => url.from_year <= y
                 /\ url.to_year # Absent => y <= url.to_year IN
    walk # NoWalk =>
        shown.total = Cardinality({d \in documents :
                                     shown.filters.status \in {"all", d.status} /\ Asked(d.year)})

=============================================================================
