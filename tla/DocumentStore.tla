--------------------------- MODULE DocumentStore ---------------------------
(***************************************************************************)
(* What the editor interface knows of a document held in MarkLogic, and    *)
(* the questions its views ask of one that they have loaded.               *)
(*                                                                         *)
(* The store itself is reached through the external package caselawclient, *)
(* so the definitions below describe it as the views under src/ use it.    *)
(* An identifier is abstracted to its value, and its schema to whether the *)
(* value is one of Ncns (neutral citations) or one of OtherIds.            *)
(***************************************************************************)
EXTENDS Naturals

CONSTANTS
    Uris,       \* document URIs
    Ncns,       \* neutral citation values
    OtherIds,   \* identifier values of every other schema
    NoNcn       \* the empty neutral citation

ASSUME UrisAssumption == Uris # {}
ASSUME NcnsAssumption == NoNcn \notin Ncns /\ Ncns \cap OtherIds = {}

Identifiers == Ncns \cup OtherIds

\* A neutral citation, or none, as it was typed: with spaces around it or not.
Texts == [ncn : Ncns \cup {NoNcn}, spaces : BOOLEAN]

Plain(n) == [ncn |-> n, spaces |-> FALSE]

\* ncn.strip(): the citation itself, and NoNcn for what is only spaces.
Strip(text) == text.ncn

(***************************************************************************)
(* One document.  "name", "court" and "date" hold the number of the form   *)
(* that last wrote the field (0 for what the ingester wrote).              *)
(***************************************************************************)
Document ==
    [status    : {"absent", "live", "deleted"},
     published : BOOLEAN,             \* is_published
     ever      : BOOLEAN,             \* has_ever_been_published
     held      : BOOLEAN,
     ids       : SUBSET Identifiers,  \* the saved identifiers collection
     cite      : Texts,               \* the neutral citation in the XML body
     name      : Nat,
     court     : Nat,
     date      : Nat]

AbsentDocument ==
    [status |-> "absent", published |-> FALSE, ever |-> FALSE, held |-> FALSE,
     ids |-> {}, cite |-> Plain(NoNcn), name |-> 0, court |-> 0, date |-> 0]

\* A document just written with the text of a neutral citation in its body.
NewDocument(text) == [AbsentDocument EXCEPT !.status = "live", !.cite = text]

\* Documents from earlier days, with identifiers and body in agreement.
IngestedDocuments ==
    {doc \in [status : {"live"}, published : BOOLEAN, ever : BOOLEAN, held : BOOLEAN,
              ids : SUBSET Ncns, cite : {Plain(n) : n \in Ncns \cup {NoNcn}},
              name : {0}, court : {0}, date : {0}] :
        /\ doc.published => doc.ever
        /\ doc.ids = {Strip(doc.cite)} \ {NoNcn}}

\* get_document_by_uri finds a document.
Exists(doc) == doc.status = "live"

\* document.safe_to_delete, the library's guard on deletion.
SafeToDelete(doc) == ~doc.published

\* document.identifiers.preferred(NeutralCitationNumber): one of the neutral
\* citations of the collection, none only when it holds none.
PreferredNcns(doc) ==
    IF doc.ids \cap Ncns = {} THEN {NoNcn} ELSE doc.ids \cap Ncns

\* The collection after delete_type(NeutralCitationNumber) and add(n).
ReplaceNcn(doc, n) == (doc.ids \ Ncns) \cup {n}

=============================================================================
