------------------------- MODULE DocumentListsProofs -------------------------
(***************************************************************************)
(* Theorems about DocumentLists: the bar of page links, the walk through a *)
(* list and what its first page promises, for any documents, years, size   *)
(* of a page and request.                                                  *)
(***************************************************************************)
EXTENDS DocumentLists, FiniteSetTheorems, TLAPS

\* The window lies within the pages and, when there is anything to leave out, is
\* five wide; it holds the page asked for if that page is there.
LEMMA WindowFits ==
    ASSUME NEW c \in Nat \ {0}, NEW n \in Nat \ {0}
    PROVE  LET r == PageRange(c, n) IN
           /\ r[1] \in 1..n /\ r[2] \in 1..n /\ r[1] <= r[2]
           /\ n <= 5 => r[1] = 1 /\ r[2] = n
           /\ n > 5 => r[2] = r[1] + 4
           /\ c <= n => r[1] <= c /\ c <= r[2]
<1>1. NumberOfLinks = 5 /\ HalfRange = 2
  BY DEF NumberOfLinks, HalfRange
<1>2. CASE n <= 5
  BY <1>1, <1>2 DEF PageRange
<1>3. CASE n > 5 /\ c - 2 < 1
  BY <1>1, <1>3 DEF PageRange
<1>4. CASE n > 5 /\ ~(c - 2 < 1) /\ c + 2 > n
  BY <1>1, <1>4 DEF PageRange
<1>5. CASE n > 5 /\ ~(c - 2 < 1) /\ ~(c + 2 > n)
  BY <1>1, <1>5 DEF PageRange
<1> QED
  BY <1>2, <1>3, <1>4, <1>5

\* The bar of paginator is complete whatever page was asked for, as soon as there
\* is a page.
THEOREM PaginatorComplete ==
    ASSUME NEW c \in Nat \ {0}, NEW n \in Nat \ {0}
    PROVE  Complete(Paginator(c, n))
<1> DEFINE bar == Paginator(c, n)
           a == PageRange(c, n)[1]
           b == PageRange(c, n)[2]
<1>1. /\ a \in 1..n /\ b \in 1..n /\ a <= b
      /\ n <= 5 => a = 1 /\ b = n
      /\ n > 5 => b = a + 4
      /\ c <= n => a <= c /\ c <= b
  BY WindowFits
<1>2. /\ bar.first = a /\ bar.last = b
      /\ bar.number_of_pages = n /\ bar.current_page = c
      /\ bar.show_first_page <=> ~(a <= 1 /\ 1 <= b)
      /\ bar.show_last_page <=> ~(a <= n /\ n <= b)
      /\ bar.show_first_page_divider <=> (n > 5 /\ ~(a <= 2 /\ 2 <= b))
      /\ bar.show_last_page_divider <=> (n > 5 /\ ~(a <= n - 1 /\ n - 1 <= b))
      /\ bar.has_prev_page <=> (c > 1)
      /\ bar.has_next_page <=> (c < n)
  BY DEF Paginator, NumberOfLinks
<1> HIDE DEF a, b, bar
<1>3. \A p : p \in Numbers(bar) <=> p \in a..b \/ p = 1 \/ p = n
  BY <1>1, <1>2 DEF Numbers
<1>4. {1, n} \subseteq Numbers(bar) /\ Numbers(bar) \subseteq 1..n
  BY <1>1, <1>3
<1>5. bar.show_first_page_divider <=> \E p \in 2..(a - 1) : p \notin Numbers(bar)
  <2>1. ASSUME bar.show_first_page_divider
        PROVE  \E p \in 2..(a - 1) : p \notin Numbers(bar)
    <3>1. 2 \in 2..(a - 1) /\ 2 \notin Numbers(bar)
      BY <1>1, <1>2, <1>3, <2>1
    <3> QED
      BY <3>1
  <2>2. ASSUME NEW p \in 2..(a - 1), p \notin Numbers(bar)
        PROVE  bar.show_first_page_divider
    BY <1>1, <1>2, <2>2
  <2> QED
    BY <2>1, <2>2
<1>6. bar.show_last_page_divider <=> \E p \in (b + 1)..(n - 1) : p \notin Numbers(bar)
  <2>1. ASSUME bar.show_last_page_divider
        PROVE  \E p \in (b + 1)..(n - 1) : p \notin Numbers(bar)
    <3>1. n - 1 \in (b + 1)..(n - 1) /\ n - 1 \notin Numbers(bar)
      BY <1>1, <1>2, <1>3, <2>1
    <3> QED
      BY <3>1
  <2>2. ASSUME NEW p \in (b + 1)..(n - 1), p \notin Numbers(bar)
        PROVE  bar.show_last_page_divider
    BY <1>1, <1>2, <2>2
  <2> QED
    BY <2>1, <2>2
<1>7. ASSUME c <= n
      PROVE  c \in Numbers(bar) /\ (1..n) \cap {c - 1, c + 1} = Steps(bar)
  <2>1. c \in Numbers(bar)
    BY <1>1, <1>3, <1>7
  <2>2. \A p : p \in (1..n) \cap {c - 1, c + 1} <=> p \in Steps(bar)
    BY <1>2, <1>7 DEF Steps
  <2> QED
    BY <2>1, <2>2
<1>8. Complete(bar)
  BY <1>2, <1>4, <1>5, <1>6, <1>7 DEF Complete
<1> QED
  BY <1>8 DEF bar

-----------------------------------------------------------------------------
(***************************************************************************)
(* The lemmas about the operators of the lists.                            *)
(***************************************************************************)
\* The pages are as many as the documents need: a page is there if and only if
\* the pages before it do not hold every document, and the first always is when
\* there are documents.
LEMMA PagesNeeded ==
    ASSUME NEW t \in Nat
    PROVE  /\ NumberOfPages(t) \in Nat
           /\ t > 0 => NumberOfPages(t) \in Nat \ {0}
           /\ \A p \in Nat \ {0} : p <= NumberOfPages(t) <=> (p - 1) * PerPage < t
<1> DEFINE k == PerPage
           n == NumberOfPages(t)
           a == t + k - 1
<1>1. k \in Nat \ {0} /\ a \in Nat
  BY PerPageAssumption
<1>2. n = a \div k
  BY DEF NumberOfPages
<1> HIDE DEF k, n, a
<1>3. n \in Nat /\ k * n <= a /\ a < k * n + k
  BY <1>1, <1>2, SMTT(30)
<1>4. ASSUME NEW p \in Nat \ {0}
      PROVE  p <= n <=> (p - 1) * k < t
  <2>1. CASE p <= n
    <3>1. PICK i \in Nat : n = p + i
      <4>1. n - p \in Nat /\ n = p + (n - p)
        BY <1>3, <2>1
      <4> QED BY <4>1
    <3>2. k * n = k * (p - 1) + k + k * i /\ k * i >= 0 /\ (p - 1) * k = k * (p - 1)
      BY <1>1, <3>1
    <3> QED BY <1>1, <1>3, <2>1, <3>2 DEF a
  <2>2. CASE p > n
    <3>1. PICK i \in Nat : p - 1 = n + i
      <4>1. p - 1 - n \in Nat /\ p - 1 = n + (p - 1 - n)
        BY <1>3, <2>2
      <4> QED BY <4>1
    <3>2. (p - 1) * k = k * n + k * i /\ k * i >= 0
      BY <1>1, <1>3, <3>1
    <3> QED BY <1>1, <1>3, <2>2, <3>2 DEF a
  <2> QED BY <1>3, <2>1, <2>2
<1>5. ASSUME t > 0
      PROVE  n # 0
  <2>1. (1 - 1) * k < t
    BY <1>1, <1>5
  <2> QED BY <1>3, <1>4, <2>1
<1> QED BY <1>3, <1>4, <1>5 DEF k, n

LEMMA PagesType ==
    ASSUME NEW t \in Nat
    PROVE  NumberOfPages(t) \in Nat /\ (t > 0 => NumberOfPages(t) > 0)
BY PagesNeeded

LEMMA YearsType ==
    ASSUME NEW y \in Years
    PROVE  y \in Nat /\ y # 0
<1>1. y \in 1000..9999
  BY YearsAssumption
<1> QED BY <1>1

\* The earlier and the later of two years, whichever is named first.
LEMMA TwoYears ==
    ASSUME NEW a \in Nat, NEW b \in Nat, a <= b
    PROVE  Min({a, b}) = a /\ Max({a, b}) = b
<1>1. Min({a, b}) \in {a, b} /\ \A y \in {a, b} : Min({a, b}) <= y
  <2>1. \E x \in {a, b} : \A y \in {a, b} : x <= y
    OBVIOUS
  <2> QED BY <2>1 DEF Min
<1>2. Max({a, b}) \in {a, b} /\ \A y \in {a, b} : Max({a, b}) >= y
  <2>1. \E x \in {a, b} : \A y \in {a, b} : x >= y
    OBVIOUS
  <2> QED BY <2>1 DEF Max
<1> QED BY <1>1, <1>2

\* A search finds a number of documents, whatever it asks for.
LEMMA SearchTotalType ==
    ASSUME documents \in Collections, NEW p
    PROVE  SearchTotal(p) \in Nat
<1> DEFINE found == {d \in documents :
                       /\ p.only_unpublished => d.status = "unpublished"
                       /\ ~p.show_unpublished => d.status = "published"
                       /\ p.date_from # Absent => p.date_from <= d.year
                       /\ p.date_to # Absent => d.year <= p.date_to}
<1>1. IsFiniteSet(documents) /\ found \subseteq documents
  BY CollectionsAssumption
<1>2. Cardinality(found) \in Nat
  BY <1>1, FS_Subset, FS_CardinalityType
<1> QED BY <1>2 DEF SearchTotal

\* The filters of a request.
LEMMA FiltersType ==
    ASSUME NEW u \in Url
    PROVE  /\ Filters(u).page \in Nat \ {0}
           /\ Filters(u).page = 1 \/ Filters(u).page <= MaxPage
           /\ Filters(u).status \in PublicationStatus
           /\ Filters(u) = [[Filters(u) EXCEPT !.page = 1] EXCEPT !.page = Filters(u).page]
<1>1. /\ Filters(u).page = IF u.page >= 1 THEN u.page ELSE 1
      /\ Filters(u).status \in PublicationStatus
      /\ Filters(u) = [[Filters(u) EXCEPT !.page = 1] EXCEPT !.page = Filters(u).page]
  BY DEF Filters, Url, PublicationStatus, Published, DefaultStatus
<1>2. u.page \in Int /\ u.page <= MaxPage
  BY MaxPageAssumption DEF Url
<1> QED BY <1>1, <1>2

\* The same request for another page asks for another page of the same list.
LEMMA SameList ==
    ASSUME NEW u \in Url, NEW n \in 1..MaxPage
    PROVE  LET v == [u EXCEPT !.page = n] IN
           /\ v \in Url
           /\ Filters(v).page = n
           /\ [Filters(v) EXCEPT !.page = 1] = [Filters(u) EXCEPT !.page = 1]
           /\ SearchParameters(Filters(v)) = SearchParameters(Filters(u))
<1> DEFINE v == [u EXCEPT !.page = n]
<1>1. /\ v \in Url /\ v.page = n /\ v.view = u.view /\ v.status = u.status
      /\ v.from_year = u.from_year /\ v.to_year = u.to_year
  BY MaxPageAssumption DEF Url
<1>2. n >= 1
  BY MaxPageAssumption
<1> HIDE DEF v
<1>3. /\ Filters(v).page = n /\ Filters(v).status = Filters(u).status
      /\ Filters(v).from_year = Filters(u).from_year /\ Filters(v).to_year = Filters(u).to_year
  BY <1>1, <1>2 DEF Filters
<1>4. \A r \in {u, v} : Filters(r) =
          [status |-> Filters(r).status, from_year |-> Filters(r).from_year,
           to_year |-> Filters(r).to_year, page |-> Filters(r).page]
  BY DEF Filters
<1>5. [Filters(v) EXCEPT !.page = 1] = [Filters(u) EXCEPT !.page = 1]
  BY <1>3, <1>4
<1> QED BY <1>1, <1>3, <1>5 DEF SearchParameters, v

-----------------------------------------------------------------------------
(***************************************************************************)
(* The walk.                                                               *)
(***************************************************************************)
\* A walk that has come from the first page of the list to the one that is shown.
Walked ==
    [list |-> [shown.filters EXCEPT !.page = 1], total |-> shown.total,
     pages |-> 1..shown.filters.page]

\* The page that is shown answers the request, as the store was then; as long as
\* the walk goes on it is as the store is now, and it has a document to show
\* unless it is the first.
ListInv ==
    /\ documents \in Collections
    /\ url \in Url
    /\ shown.total \in Nat
    /\ shown.filters = Filters(url)
    /\ shown.bar = Paginator(shown.filters.page, NumberOfPages(shown.total))
    /\ walk # NoWalk =>
         /\ shown = Page(url)
         /\ walk = Walked
         /\ shown.filters.page = 1 \/ shown.filters.page <= NumberOfPages(shown.total)

\* A page as it is made, and a walk that it begins.
LEMMA PageMade ==
    ASSUME documents \in Collections, NEW u \in Url
    PROVE  LET page == Page(u) IN
           /\ page.total \in Nat
           /\ page.filters = Filters(u)
           /\ page.bar = Paginator(page.filters.page, NumberOfPages(page.total))
           /\ WalkFrom(page) # NoWalk =>
                /\ page.filters.page = 1
                /\ WalkFrom(page) = [list |-> [page.filters EXCEPT !.page = 1],
                                     total |-> page.total, pages |-> 1..page.filters.page]
<1> DEFINE f == Filters(u)
           total == SearchTotal(SearchParameters(f))
<1>1. total \in Nat
  BY SearchTotalType
<1>2. f = [f EXCEPT !.page = f.page]
  BY DEF Filters
<1> HIDE DEF f, total
<1>3. /\ Page(u).filters = f /\ Page(u).total = total
      /\ Page(u).bar = Paginator(f.page, NumberOfPages(total))
  BY DEF Page, f, total
<1>4. ASSUME WalkFrom(Page(u)) # NoWalk
      PROVE  /\ f.page = 1
             /\ WalkFrom(Page(u)) = [list |-> [f EXCEPT !.page = 1], total |-> total,
                                     pages |-> 1..f.page]
  <2>1. f.page = 1 /\ WalkFrom(Page(u)) = [list |-> f, total |-> total, pages |-> {1}]
    BY <1>3, <1>4 DEF WalkFrom
  <2>2. 1..1 = {1}
    OBVIOUS
  <2> QED BY <1>2, <2>1, <2>2
<1> QED BY <1>1, <1>3, <1>4 DEF f

LEMMA ListInvariant == Spec => []ListInv
<1>1. Init => ListInv
  <2> SUFFICES ASSUME Init PROVE ListInv
    OBVIOUS
  <2>1. documents \in Collections /\ url \in Url /\ shown = Page(url) /\ walk = WalkFrom(shown)
    BY MaxPageAssumption DEF Init, Url, Absent
  <2> QED BY <2>1, PageMade DEF ListInv, Walked
<1>2. ListInv /\ [Next]_vars => ListInv'
  <2> SUFFICES ASSUME ListInv, [Next]_vars PROVE ListInv'
    OBVIOUS
  <2>1. CASE Visit
    <3>1. /\ documents' = documents /\ documents \in Collections /\ url' \in Url
          /\ shown' = Page(url') /\ walk' = WalkFrom(shown') /\ Page(url)' = Page(url')
      BY <2>1 DEF Visit, ListInv, Page, SearchTotal
    <3> QED BY <3>1, PageMade DEF ListInv, Walked
  <2>2. CASE FollowNext
    <3> DEFINE n == shown.filters.page + 1
               pages == NumberOfPages(shown.total)
    <3>1. /\ shown.filters = Filters(url) /\ url \in Url /\ documents \in Collections
          /\ shown.total \in Nat /\ pages \in Nat /\ n \in Nat \ {0, 1}
          /\ shown.filters.page \in Nat
          /\ shown.bar = Paginator(shown.filters.page, pages)
      <4>1. /\ shown.filters = Filters(url) /\ url \in Url /\ documents \in Collections
            /\ shown.total \in Nat /\ shown.bar = Paginator(shown.filters.page, pages)
        BY DEF ListInv
      <4>2. shown.filters.page \in Nat \ {0}
        BY <4>1, FiltersType
      <4>3. pages \in Nat
        BY <4>1, PagesType
      <4> QED BY <4>1, <4>2, <4>3
    <3>2. shown.bar.current_page = shown.filters.page
          /\ shown.bar.has_next_page = (shown.filters.page < pages)
      BY <3>1 DEF Paginator
    <3>3. n \in 1..MaxPage /\ n <= pages
      <4>1. shown.filters.page < pages /\ shown.filters.page < MaxPage
        BY <2>2, <3>2 DEF FollowNext
      <4> QED BY <3>1, <4>1, MaxPageAssumption
    <3>4. /\ documents' = documents /\ url' = [url EXCEPT !.page = n]
          /\ shown' = Page(url') /\ Page(url)' = Page(url')
      BY <2>2, <3>2 DEF FollowNext, NextHref, Page, SearchTotal
    <3> HIDE DEF n, pages
    <3>5. /\ url' \in Url /\ Filters(url').page = n
          /\ [Filters(url') EXCEPT !.page = 1] = [Filters(url) EXCEPT !.page = 1]
          /\ SearchParameters(Filters(url')) = SearchParameters(Filters(url))
      BY <3>1, <3>3, <3>4, SameList
    <3>6. /\ shown'.total \in Nat /\ shown'.filters = Filters(url')
          /\ shown'.bar = Paginator(shown'.filters.page, NumberOfPages(shown'.total))
      BY <3>1, <3>4, <3>5, PageMade
    <3>7. ASSUME walk' # NoWalk
          PROVE  walk' = Walked' /\ n <= NumberOfPages(shown'.total)
      <4>1. walk # NoWalk /\ walk' = [walk EXCEPT !.pages = @ \cup {n}]
        BY <2>2, <3>5, <3>6, <3>7 DEF FollowNext
      <4>2. shown = Page(url) /\ walk = Walked
        BY <4>1 DEF ListInv
      <4>3. shown'.total = shown.total
        BY <3>4, <3>5, <4>2 DEF Page
      <4>4. 1..n = (1..shown.filters.page) \cup {n}
        <5>1. \A m \in Nat : 1..(m + 1) = (1..m) \cup {m + 1}
          OBVIOUS
        <5>2. shown.filters.page \in Nat
          BY <3>1, FiltersType
        <5> QED BY <5>1, <5>2 DEF n
      <4>5. walk' = [list |-> [shown.filters EXCEPT !.page = 1], total |-> shown.total,
                     pages |-> 1..n]
        BY <4>1, <4>2, <4>4 DEF Walked
      <4> QED BY <3>1, <3>3, <3>5, <3>6, <4>3, <4>5 DEF Walked, pages
    <3> QED BY <3>1, <3>4, <3>5, <3>6, <3>7 DEF ListInv
  <2>3. CASE Change
    BY <2>3 DEF Change, ListInv
  <2>4. CASE UNCHANGED vars
    BY <2>4 DEF vars, ListInv, Page, SearchTotal, Walked
  <2> QED BY <2>1, <2>2, <2>3, <2>4 DEF Next
<1> QED BY <1>1, <1>2, PTL DEF Spec

\* The page that is shown has been found by known filters, whatever was asked for.
THEOREM ListsTyped == Spec => []TypeOK
<1>1. ListInv => TypeOK
  BY FiltersType DEF ListInv, TypeOK
<1> QED BY <1>1, ListInvariant, PTL

\* As long as there are documents the bar is complete, whatever page was asked
\* for and whatever has come and gone since (paginator).
THEOREM BarsComplete == Spec => []BarComplete
<1>1. ListInv => BarComplete
  <2> SUFFICES ASSUME ListInv, shown.total > 0 PROVE Complete(shown.bar)
    BY DEF BarComplete
  <2>1. /\ shown.total \in Nat /\ shown.filters = Filters(url) /\ url \in Url
        /\ shown.bar = Paginator(shown.filters.page, NumberOfPages(shown.total))
    BY DEF ListInv
  <2>2. NumberOfPages(shown.total) \in Nat \ {0}
    BY <2>1, PagesType
  <2>3. shown.filters.page \in Nat \ {0}
    BY <2>1, FiltersType
  <2> QED BY <2>1, <2>2, <2>3, PaginatorComplete
<1> QED BY <1>1, ListInvariant, PTL

\* A reader who follows the link to the next page from the first page of a list
\* to the last has been shown every document that the first page promised, and
\* no page without one, in one and the same list (get_pagination_context).
THEOREM WalksShowLists == Spec => []WalkShowsList
<1>1. ListInv => WalkShowsList
  <2> SUFFICES ASSUME ListInv, walk # NoWalk, ~shown.bar.has_next_page
               PROVE  /\ shown.filters = [walk.list EXCEPT !.page = shown.filters.page]
                      /\ walk.pages = {p \in 1..MaxPage : (p - 1) * PerPage < walk.total} \cup {1}
    BY DEF WalkShowsList
  <2> DEFINE n == shown.filters.page
             pages == NumberOfPages(shown.total)
  <2>1. /\ walk = Walked /\ shown.total \in Nat /\ shown.filters = Filters(url) /\ url \in Url
        /\ shown.bar = Paginator(n, pages) /\ (n = 1 \/ n <= pages)
    BY DEF ListInv
  <2>2. /\ n \in Nat \ {0} /\ (n = 1 \/ n <= MaxPage)
        /\ shown.filters = [[shown.filters EXCEPT !.page = 1] EXCEPT !.page = n]
        /\ pages \in Nat
        /\ \A p \in Nat \ {0} : p <= pages <=> (p - 1) * PerPage < shown.total
    BY <2>1, FiltersType, PagesNeeded
  <2> HIDE DEF n, pages
  <2>3. ~(n < pages)
    <3>1. Paginator(n, pages).has_next_page = (n < pages)
      BY DEF Paginator
    <3> QED BY <2>1, <3>1
  <2>4. /\ walk.list = [shown.filters EXCEPT !.page = 1] /\ walk.total = shown.total
        /\ walk.pages = 1..n
    BY <2>1 DEF Walked, n
  <2>5. \A p : p \in 1..n <=> (p \in 1..MaxPage /\ (p - 1) * PerPage < shown.total) \/ p = 1
    <3>1. \A p \in Nat \ {0} : p <= n <=> (p <= MaxPage /\ p <= pages) \/ p = 1
      BY <2>1, <2>2, <2>3, MaxPageAssumption
    <3>2. \A p \in Nat \ {0} : p <= n <=> (p <= MaxPage /\ (p - 1) * PerPage < shown.total) \/ p = 1
      BY <2>2, <3>1
    <3>3. \A p, m : p \in 1..m => p \in Nat \ {0}
      OBVIOUS
    <3> QED BY <2>2, <3>2, MaxPageAssumption
  <2> QED BY <2>2, <2>4, <2>5 DEF n
<1> QED BY <1>1, ListInvariant, PTL

\* A list counts the documents of the status that its label names and of the
\* years that were asked for, whichever way round (_search_parameters_from_filters
\* turns filters into flags, and total_count_postfix makes the label).
THEOREM ListsAsAsked == Spec => []ListIsAsAsked
<1> DEFINE years == {url.from_year, url.to_year}
           Asked(y) ==
             IF Absent \notin years THEN Min(years) <= y /\ y <= Max(years)
             ELSE /\ url.from_year # Absent => url.from_year <= y
                  /\ url.to_year # Absent => y <= url.to_year
           f == Filters(url)
           p == SearchParameters(f)
<1>1. ASSUME ListInv
      PROVE  walk # NoWalk =>
               shown.total = Cardinality({d \in documents :
                                shown.filters.status \in {"all", d.status} /\ Asked(d.year)})
  <2> SUFFICES ASSUME walk # NoWalk
               PROVE  shown.total = Cardinality({d \in documents :
                                f.status \in {"all", d.status} /\ Asked(d.year)})
    BY <1>1 DEF ListInv
  <2>1. /\ shown.total = SearchTotal(p) /\ url \in Url /\ f.status \in PublicationStatus
        /\ \A d \in documents : d.status \in Published /\ d.year \in Years
    <3>1. /\ documents \in Collections /\ url \in Url /\ shown = Page(url)
      BY <1>1 DEF ListInv
    <3>2. shown.total = SearchTotal(p)
      BY <3>1 DEF Page
    <3> QED BY <3>1, <3>2, FiltersType, CollectionsAssumption
  <2>2. ASSUME NEW d \in documents
        PROVE  f.status \in {"all", d.status} <=>
                 /\ p.only_unpublished => d.status = "unpublished"
                 /\ ~p.show_unpublished => d.status = "published"
    BY <2>1 DEF SearchParameters, PublicationStatus, Published
  <2>3. /\ url.from_year \in Years \cup {0} /\ url.to_year \in Years \cup {0} /\ Absent = 0
        /\ \A y \in Years \cup {0} : y \in Nat
        /\ \A y \in Years : y # 0
    BY <2>1, YearsType DEF Url, Absent
  <2> DEFINE from == url.from_year
             to == url.to_year
  <2>4. years = {from, to} /\ years = {to, from}
    OBVIOUS
  <2> HIDE DEF years
  <2>5. ASSUME NEW d \in documents
        PROVE  Asked(d.year) <=> /\ p.date_from # Absent => p.date_from <= d.year
                                 /\ p.date_to # Absent => d.year <= p.date_to
    <3>1. d.year \in Nat \ {0} /\ from \in Nat /\ to \in Nat /\ Absent = 0
      <4>1. d.year \in Years /\ Absent = 0
        BY <2>1, <2>3
      <4>2. from \in Nat /\ to \in Nat
        BY <2>3
      <4>3. d.year \in Nat /\ d.year # 0
        BY <2>3, <4>1
      <4> QED BY <4>1, <4>2, <4>3
    <3>2. /\ p.date_from = IF from # 0 /\ to # 0 /\ from > to THEN to ELSE from
          /\ p.date_to = IF from # 0 /\ to # 0 /\ from > to THEN from ELSE to
      BY <3>1 DEF SearchParameters, Filters
    <3>3. Absent \notin years <=> from # 0 /\ to # 0
      BY <2>4, <3>1
    <3> HIDE DEF p, from, to
    <3>4. CASE from # 0 /\ to # 0
      <4>1. \/ from <= to /\ Min(years) = from /\ Max(years) = to
            \/ from > to /\ Min(years) = to /\ Max(years) = from
        BY <2>4, <3>1, TwoYears
      <4>2. Asked(d.year) <=> Min(years) <= d.year /\ d.year <= Max(years)
        BY <3>3, <3>4
      <4> HIDE DEF Asked
      <4> QED BY <3>1, <3>2, <3>4, <4>1, <4>2
    <3>5. CASE from = 0 \/ to = 0
      <4>1. Asked(d.year) <=> (from # 0 => from <= d.year) /\ (to # 0 => d.year <= to)
        BY <3>1, <3>3, <3>5 DEF from, to
      <4> HIDE DEF Asked
      <4> QED BY <3>1, <3>2, <3>5, <4>1
    <3> QED BY <3>4, <3>5
  <2> HIDE DEF f, p, Asked
  <2>6. {d \in documents : f.status \in {"all", d.status} /\ Asked(d.year)}
          = {d \in documents :
               /\ p.only_unpublished => d.status = "unpublished"
               /\ ~p.show_unpublished => d.status = "published"
               /\ p.date_from # Absent => p.date_from <= d.year
               /\ p.date_to # Absent => d.year <= p.date_to}
    BY <2>2, <2>5
  <2> QED BY <2>1, <2>6 DEF SearchTotal
<1>2. ListInv => ListIsAsAsked
  BY <1>1 DEF ListIsAsAsked
<1> QED BY <1>2, ListInvariant, PTL

=============================================================================
