---------------------------- MODULE MCCassettes ----------------------------
(* The pages of the runs of Cassettes: two pages of search results, one of    *)
(* them with its parameters in either order, and a document.                  *)
EXTENDS Cassettes, TLC

CONSTANTS results, page2, document

MCAddress ==
    LET At(p, path, query) == [page |-> p, method |-> "get", path |-> path, query |-> query]
        query == <<"query", "x">>
        second == <<"page", "2">> IN
    {At(results, << <<"results">> >>, <<query>>),
     At(page2, << <<"results">> >>, <<query, second>>),
     At(page2, << <<"results">> >>, <<second, query>>),
     At(document, << <<"eat">>, <<"2023">>, <<"1">> >>, <<>>)}

Search(n) == [uri |-> "invoke", program |-> "search", for_user |-> FALSE, vars |-> [page |-> n]]
Role == [uri |-> "eval", program |-> "role", for_user |-> TRUE, vars |-> [role |-> "admin"]]
Exists == [uri |-> "eval", program |-> "exists", for_user |-> FALSE, vars |-> [uri |-> "/eat/2023/1.xml"]]
File == [uri |-> "other", program |-> "", for_user |-> FALSE, vars |-> <<>>]

MCQuestion == {Search(1), Search(2), Role, Exists, File}

MCAsks ==
    results :> {Search(1), Role} @@ page2 :> {Search(2)} @@ document :> {Exists, File}

=============================================================================
