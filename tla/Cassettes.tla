------------------------------ MODULE Cassettes ------------------------------
(***************************************************************************)
(* The recording of MarkLogic's answers and their playback without         *)
(* MarkLogic (config/vcr_config.py, config/vcr_middleware.py): one         *)
(* cassette for each page, one page at a time.  vcrpy itself is external:  *)
(* it keeps what a cassette holds when it records on it, passes every      *)
(* interaction through the two hooks when it is recorded and when it is    *)
(* loaded, and plays the first interaction whose request matches.          *)
(***************************************************************************)
EXTENDS Integers, SequencesExt

CONSTANTS
    Address,         \* the requests of browsers: a page by its method, path and query
    Question,        \* the requests that pages make to MarkLogic
    Asks,            \* Asks[p]: the questions that page p asks
    User,            \* the users of MarkLogic that a server may run as
    MaxRevision,     \* bound on the changes in MarkLogic
    MaxInteractions, \* bound on what the cassettes hold together
    Unknown          \* no page, no question, no answer

CanonicalUser == "cassette_user"

Page == {a.page : a \in Address}

ASSUME AddressAssumption ==
    \A a \in Address : {"page", "method", "path", "query"} \subseteq DOMAIN a
\* Only programs and modules of MarkLogic are called with variables.
ASSUME QuestionAssumption ==
    \A q \in Question :
        /\ q = [uri |-> q.uri, program |-> q.program, for_user |-> q.for_user, vars |-> q.vars]
        /\ q.uri \in {"eval", "invoke", "other"} /\ q.for_user \in BOOLEAN
        /\ q.vars = [v \in DOMAIN q.vars |-> q.vars[v]] /\ "user" \notin DOMAIN q.vars
        /\ q.uri = "other" => DOMAIN q.vars = {}
\* Lists of documents are the only pages that call the search module, once each.
ASSUME SearchAssumption ==
    \A p \in Page : \A q1, q2 \in Asks[p] :
        q1.uri = "invoke" /\ q2.uri = "invoke" => q1 = q2
ASSUME BoundsAssumption == MaxRevision \in Nat /\ MaxInteractions \in Nat

VARIABLES
    mode,       \* VCR_MODE
    revision,   \* of the data in MarkLogic
    cassettes,  \* the files of VCR_CASSETTE_DIR
    open,       \* the cassette in memory, and the page that it is used for
    heard,      \* history: the first answer to each question on this page
    answer      \* the last answer that the page was given

vars == <<mode, revision, cassettes, open, heard, answer>>

(***************************************************************************)
(* The name of a cassette.                                                 *)
(***************************************************************************)

\* cassette_name_for_request: the words of the path, the method, and a hash of
\* the parameters in their order (a path is a sequence of segments, and a
\* segment one of the words between its underscores).
CassetteName(a) ==
    [slug |-> FlattenSeq(a.path), method |-> a.method, params |-> ToBag(a.query)]

Name == {CassetteName(a) : a \in Address}

\* A page has one name, in whatever order its parameters come, and no two pages
\* have the same: paths that differ only by slashes and underscores, or whose
\* hashes collide, are left out.
ASSUME NamesAssumption ==
    \A a, b \in Address : CassetteName(a) = CassetteName(b) <=> a.page = b.page

(***************************************************************************)
(* The requests.  The variables of a question are sent as JSON, laid out   *)
(* as the client pleases; some name the user.                              *)
(***************************************************************************)
Layout == {"as written", "compact"}

Body(q, user, layout) ==
    [program |-> q.program, layout |-> IF DOMAIN q.vars = {} THEN "none" ELSE layout,
     vars |-> IF q.for_user
              THEN [v \in DOMAIN q.vars \cup {"user"} |-> IF v = "user" THEN user ELSE q.vars[v]]
              ELSE q.vars]

Request(q, user, layout) == [uri |-> q.uri, body |-> Body(q, user, layout)]

Anonymous(variables) == [variables EXCEPT !["user"] = CanonicalUser]

\* _normalise_user_in_request_body: only a body with a user is laid out anew.
NormaliseUser(body) ==
    IF "user" \in DOMAIN body.vars
    THEN [body EXCEPT !.vars = Anonymous(@), !.layout = "compact"]
    ELSE body

BeforeRecordRequest(r) == [r EXCEPT !.body = NormaliseUser(@)]

\* _body_matcher: calls of the search module match whatever they search for.
BodyMatcher(r1, r2) ==
    LET b1 == NormaliseUser(r1.body)
        b2 == NormaliseUser(r2.body) IN
    \/ r1.uri = "invoke"
    \/ b1 = b2
    \/ r1.uri = r2.uri /\ r1.uri = "eval" /\ b1.program = b2.program /\ b1.vars = b2.vars

\* match_on: the method and the parts of the address, and the body.
Matches(r1, r2) == r1.uri = r2.uri /\ BodyMatcher(r1, r2)

(***************************************************************************)
(* The answers.  A body of several parts is "wire" as it comes, with the   *)
(* boundary that its header names, or "text" as it is kept.                *)
(***************************************************************************)
Packing == {"identity", "gzip"}

\* What MarkLogic holds in answer to a question: at first nothing.
Parts(q) == IF revision = 0 THEN <<>> ELSE << <<q, revision>> >>

Reply == {<<>>} \cup { << <<q, r>> >> : q \in Question, r \in 1..MaxRevision}

ASSUME UnknownAssumption == Unknown \notin Page /\ Unknown \notin Reply

Response(q, packing) ==
    [multipart |-> q.uri # "other", boundary |-> "live", encoding |-> packing,
     body |-> [form |-> "wire", boundary |-> "live", packing |-> packing, parts |-> Parts(q)]]

\* The client unpacks a body as its header says and splits it at the boundary.
Read(s) ==
    IF /\ s.body.form = "wire" /\ s.body.packing = s.encoding
       /\ s.multipart => s.body.boundary = s.boundary
    THEN s.body.parts
    ELSE Unknown

\* _extract_all_parts_from_multipart, after unpacking: there are none in a text.
ExtractedParts(s) ==
    IF s.body.form = "wire" /\ s.body.packing = s.encoding THEN s.body.parts ELSE <<>>

Kept(s) ==
    [multipart |-> s.multipart, boundary |-> "vcr", encoding |-> "identity",
     body |-> [form |-> "text", boundary |-> "none", packing |-> "identity",
               parts |-> ExtractedParts(s)]]

\* Seeded fault: a body without parts is converted like any other.
EagerBeforeRecordResponse(s) == IF ~s.multipart THEN s ELSE Kept(s)

\* Seeded fault: the header still names the boundary of the answer as it came.
ForgetfulBeforeRecordResponse(s) ==
    IF ~s.multipart \/ ExtractedParts(s) = <<>> THEN s
    ELSE [Kept(s) EXCEPT !.boundary = s.boundary]

\* _before_record_response, which meets the answers that are kept already
\* whenever their cassette is loaded.
BeforeRecordResponse(s) ==
    IF ~s.multipart \/ ExtractedParts(s) = <<>> THEN s ELSE Kept(s)

\* _patched_vcrhttpresponse_init: the text becomes a body again, in place.
Rebuilt(s) ==
    IF s.body.form = "text"
    THEN [s EXCEPT !.encoding = "identity",
                   !.body = [@ EXCEPT !.form = "wire", !.boundary = "vcr"]]
    ELSE s

-----------------------------------------------------------------------------

NoCassette == [page |-> Unknown]

\* The cassette as it is read from its file.
Load(name) ==
    [i \in DOMAIN cassettes[name] |->
       [request |-> BeforeRecordRequest(cassettes[name][i].request),
        response |-> BeforeRecordResponse(cassettes[name][i].response)]]

NothingHeard == [q \in Question |-> Unknown]

Idle == [question |-> Unknown, reply |-> Unknown]

Init ==
    /\ mode \in {"record", "playback"}
    /\ revision = 0
    /\ cassettes = [n \in Name |-> <<>>]
    /\ open = NoCassette
    /\ heard = NothingHeard
    /\ answer = Idle

\* The middleware opens the cassette of the page that is asked for.
Serve(a, user) ==
    /\ open = NoCassette
    /\ open' = [page |-> a.page, name |-> CassetteName(a), user |-> user,
                tape |-> Load(CassetteName(a))]
    /\ UNCHANGED <<mode, revision, cassettes, heard, answer>>

Used == FoldFunction(LAMBDA tape, n : n + Len(tape), 0, cassettes)

New == Len(open.tape) - Len(cassettes[open.name])

\* Recording: MarkLogic answers, and the interaction is added.
Record(q, layout, packing) ==
    /\ mode = "record" /\ open # NoCassette /\ q \in Asks[open.page]
    /\ Used + New < MaxInteractions
    /\ open' = [open EXCEPT !.tape = Append(@,
           [request |-> BeforeRecordRequest(Request(q, open.user, layout)),
            response |-> BeforeRecordResponse(Response(q, packing))])]
    /\ answer' = [question |-> q, reply |-> Read(Response(q, packing))]
    /\ heard' = [heard EXCEPT ![q] = IF @ = Unknown THEN answer'.reply ELSE @]
    /\ UNCHANGED <<mode, revision, cassettes>>

Matching(r) == {i \in DOMAIN open.tape : Matches(BeforeRecordRequest(r), open.tape[i].request)}

\* Playback: the first interaction that matches, however often it is asked for.
Play(q, layout) ==
    /\ mode = "playback" /\ open # NoCassette /\ q \in Asks[open.page]
    /\ LET found == Matching(Request(q, open.user, layout)) IN
       \/ /\ found # {}
          /\ LET i == Min(found)
                 s == Rebuilt(open.tape[i].response) IN
             /\ open' = [open EXCEPT !.tape = [@ EXCEPT ![i] =
                             [request |-> open.tape[i].request, response |-> s]]]
             /\ answer' = [question |-> q, reply |-> Read(s)]
       \/ found = {} /\ answer' = [question |-> q, reply |-> Unknown] /\ UNCHANGED open
    /\ UNCHANGED <<mode, revision, cassettes, heard>>

Close ==
    /\ open' = NoCassette
    /\ heard' = NothingHeard
    /\ answer' = Idle
    /\ UNCHANGED <<mode, revision>>

\* The page is ready, or the view has raised: the cassette is written if it has
\* been added to.
Exit ==
    /\ open # NoCassette
    /\ cassettes' = IF mode = "record" /\ New > 0
                    THEN [cassettes EXCEPT ![open.name] = open.tape] ELSE cassettes
    /\ Close

\* The server is stopped in the middle of a page.
Kill ==
    /\ open # NoCassette
    /\ UNCHANGED cassettes
    /\ Close

\* It is started again, perhaps in the other mode.
Restart ==
    /\ open = NoCassette
    /\ mode' \in {"record", "playback"}
    /\ UNCHANGED <<revision, cassettes, open, heard, answer>>

\* Somebody changes the data in MarkLogic.
Change ==
    /\ revision < MaxRevision
    /\ revision' = revision + 1
    /\ UNCHANGED <<mode, cassettes, open, heard, answer>>

Next ==
    \/ \E a \in Address, u \in User : Serve(a, u)
    \/ \E q \in Question, l \in Layout, k \in Packing : Record(q, l, k)
    \/ \E q \in Question, l \in Layout : Play(q, l)
    \/ Exit \/ Kill \/ Restart \/ Change

Spec == Init /\ [][Next]_vars

-----------------------------------------------------------------------------

\* Every answer is one that MarkLogic has given, never a body that the client
\* cannot unpack or split, and only a playback leaves a question unanswered.
TypeOK ==
    /\ mode \in {"record", "playback"}
    /\ revision \in 0..MaxRevision
    /\ DOMAIN cassettes = Name /\ open.page \in Page \cup {Unknown}
    /\ heard \in [Question -> Reply \cup {Unknown}]
    /\ answer = Idle \/ answer \in [question : Question, reply : Reply \cup {Unknown}]
    /\ \A n \in Name : \A i \in DOMAIN cassettes[n] :
           Read(Rebuilt(cassettes[n][i].response)) \in Reply

\* The requests that put a question, as they are kept.
Forms == [q \in Question |->
            {BeforeRecordRequest(Request(q, u, l)) : u \in User, l \in Layout}]

\* The name of the cassette of a page, whatever its address.
NameOf == [p \in Page |-> CassetteName(CHOOSE a \in Address : a.page = p)]

\* What the file of a page tells of a question.
Recorded(p, q) ==
    LET tape == cassettes[NameOf[p]]
        found == {i \in DOMAIN tape : tape[i].request \in Forms[q]} IN
    IF found = {} THEN Unknown ELSE Read(Rebuilt(tape[Min(found)].response))

Memory == INSTANCE Recordings WITH
    known <- [p \in Page |-> [q \in Question |-> Recorded(p, q)]],
    page <- open.page

\* A page that is played back is given, for each question, the answer recorded
\* first on that page: whichever user the server ran as then and runs as now,
\* however the question is laid out, in whatever order the parameters of the
\* page come, although calls of the search module match each other, although
\* the parts of an answer are taken apart, kept, and put together in place when
\* it is first played, and although a cassette that is recorded on again passes
\* through the hooks once more.
PlaysWhatWasRecorded == Memory!Spec

=============================================================================
