--------------------------- MODULE MCDocumentLists ---------------------------
(* The stores of the runs of DocumentLists: no documents, and enough of them *)
(* for one to eight pages of two, by status and year.                        *)
EXTENDS DocumentLists

Kind(status, year, count) == {[status |-> status, year |-> year, n |-> n] : n \in 1..count}

MCCollections ==
    LET Store(u1, u2, p1, p2) ==
            UNION {Kind("unpublished", 2020, u1), Kind("unpublished", 2021, u2),
                   Kind("published", 2020, p1), Kind("published", 2021, p2)} IN
    {Store(0, 0, 0, 0), Store(4, 7, 1, 3), Store(2, 8, 5, 1)}

=============================================================================
