---------------------------- MODULE CassettesProofs ----------------------------
(***************************************************************************)
(* Theorems about Cassettes: a page that is played back is given what was  *)
(* recorded for it, whatever the pages, the questions and the users, and   *)
(* however often cassettes are written and read.                           *)
(***************************************************************************)
EXTENDS Cassettes, NaturalsInduction, WellFoundedInduction, TLAPS

-----------------------------------------------------------------------------
(***************************************************************************)
(* The requests.                                                           *)
(***************************************************************************)
\* The variables of a question with the user in place of every user.
Variables(q) ==
    IF q.for_user
    THEN [v \in DOMAIN q.vars \cup {"user"} |-> IF v = "user" THEN CanonicalUser ELSE q.vars[v]]
    ELSE q.vars

\* The layout in which a request is kept, when it has been sent in layout.
KeptLayout(q, layout) ==
    IF q.for_user THEN "compact" ELSE IF DOMAIN q.vars = {} THEN "none" ELSE layout

KeptRequest(q, layout) ==
    [uri |-> q.uri,
     body |-> [program |-> q.program, layout |-> KeptLayout(q, layout), vars |-> Variables(q)]]

\* Neither the user nor, where the user is named, the layout is kept.
LEMMA RequestKept ==
    ASSUME NEW q \in Question, NEW user, NEW layout
    PROVE  BeforeRecordRequest(Request(q, user, layout)) = KeptRequest(q, layout)
<1> USE QuestionAssumption
<1>1. CASE q.for_user
  <2> DEFINE vars1 == [v \in DOMAIN q.vars \cup {"user"} |-> IF v = "user" THEN user ELSE q.vars[v]]
             l == IF DOMAIN q.vars = {} THEN "none" ELSE layout
             body == [program |-> q.program, layout |-> l, vars |-> vars1]
  <2>1. Body(q, user, layout) = body
    BY <1>1 DEF Body
  <2>2. Anonymous(vars1) = Variables(q)
    BY <1>1 DEF Variables, Anonymous
  <2>3. body.vars = vars1 /\ "user" \in DOMAIN vars1
    OBVIOUS
  <2>4. NormaliseUser(body)
          = [program |-> q.program, layout |-> "compact", vars |-> Variables(q)]
    <3> HIDE DEF vars1, l
    <3> QED BY <2>2, <2>3 DEF NormaliseUser
  <2> HIDE DEF body
  <2> QED BY <1>1, <2>1, <2>4 DEF BeforeRecordRequest, Request, KeptRequest, KeptLayout
<1>2. CASE ~q.for_user
  <2> DEFINE l == IF DOMAIN q.vars = {} THEN "none" ELSE layout
             body == [program |-> q.program, layout |-> l, vars |-> q.vars]
  <2>1. Body(q, user, layout) = body
    BY <1>2 DEF Body
  <2>2. NormaliseUser(body) = body
    BY DEF NormaliseUser
  <2> HIDE DEF body
  <2>3. BeforeRecordRequest(Request(q, user, layout)) = [uri |-> q.uri, body |-> body]
    BY <2>1, <2>2 DEF BeforeRecordRequest, Request
  <2> QED BY <1>2, <2>3 DEF body, KeptRequest, KeptLayout, Variables
<1> QED BY <1>1, <1>2

\* A question is known by what is kept of it.
LEMMA VariablesTell ==
    ASSUME NEW q1 \in Question, NEW q2 \in Question, q1.uri = q2.uri, q1.program = q2.program,
           Variables(q1) = Variables(q2)
    PROVE  q1 = q2
<1> USE QuestionAssumption
<1>1. \A q \in Question : q.for_user <=> "user" \in DOMAIN Variables(q)
  BY DEF Variables
<1>2. q1.for_user = q2.for_user
  BY <1>1
<1>3. q1.vars = q2.vars
  <2>1. CASE ~q1.for_user
    BY <1>2, <2>1 DEF Variables
  <2>2. CASE q1.for_user
    <3>1. \A q \in Question : q.for_user =>
            /\ DOMAIN Variables(q) = DOMAIN q.vars \cup {"user"}
            /\ \A v \in DOMAIN q.vars : Variables(q)[v] = q.vars[v]
      BY DEF Variables
    <3>2. DOMAIN q1.vars = DOMAIN q2.vars
      <4>1. DOMAIN q1.vars \cup {"user"} = DOMAIN q2.vars \cup {"user"}
        BY <1>2, <2>2, <3>1
      <4>2. "user" \notin DOMAIN q1.vars /\ "user" \notin DOMAIN q2.vars
        OBVIOUS
      <4> QED BY <4>1, <4>2
    <3>3. \A v \in DOMAIN q1.vars : q1.vars[v] = q2.vars[v]
      <4> TAKE v \in DOMAIN q1.vars
      <4>1. Variables(q1)[v] = q1.vars[v]
        BY <2>2, <3>1
      <4>2. Variables(q2)[v] = q2.vars[v]
        BY <1>2, <2>2, <3>1, <3>2
      <4> QED BY <4>1, <4>2
    <3>4. /\ q1.vars = [v \in DOMAIN q1.vars |-> q1.vars[v]]
          /\ q2.vars = [v \in DOMAIN q2.vars |-> q2.vars[v]]
      OBVIOUS
    <3> QED BY <3>2, <3>3, <3>4
  <2> QED BY <2>1, <2>2
<1>4. /\ q1 = [uri |-> q1.uri, program |-> q1.program, for_user |-> q1.for_user, vars |-> q1.vars]
      /\ q2 = [uri |-> q2.uri, program |-> q2.program, for_user |-> q2.for_user, vars |-> q2.vars]
  OBVIOUS
<1> QED BY <1>2, <1>3, <1>4

\* What is kept of a question is kept as it is when it passes the hook again.
LEMMA KeptAgain ==
    ASSUME NEW q \in Question, NEW layout
    PROVE  /\ BeforeRecordRequest(KeptRequest(q, layout)) = KeptRequest(q, layout)
           /\ NormaliseUser(KeptRequest(q, layout).body) = KeptRequest(q, layout).body
<1> DEFINE body == KeptRequest(q, layout).body
<1>1. body = [program |-> q.program, layout |-> KeptLayout(q, layout), vars |-> Variables(q)]
  BY DEF KeptRequest
<1>2. NormaliseUser(body) = body
  <2>1. CASE q.for_user
    <3>1. "user" \in DOMAIN Variables(q) /\ Variables(q)["user"] = CanonicalUser
          /\ Variables(q) = [v \in DOMAIN Variables(q) |-> Variables(q)[v]]
      BY <2>1 DEF Variables
    <3>2. Anonymous(Variables(q)) = Variables(q)
      BY <3>1 DEF Anonymous
    <3>3. KeptLayout(q, layout) = "compact"
      BY <2>1 DEF KeptLayout
    <3> DEFINE kept == [program |-> q.program, layout |-> "compact", vars |-> Variables(q)]
    <3>4. NormaliseUser(kept) = kept
      BY <3>1, <3>2 DEF NormaliseUser
    <3> QED BY <1>1, <3>3, <3>4
  <2>2. CASE ~q.for_user
    <3>1. "user" \notin DOMAIN body.vars
      <4>1. Variables(q) = q.vars
        BY <2>2 DEF Variables
      <4>2. "user" \notin DOMAIN q.vars
        BY QuestionAssumption
      <4> QED BY <1>1, <4>1, <4>2
    <3> QED BY <3>1 DEF NormaliseUser
  <2> QED BY <2>1, <2>2, QuestionAssumption
<1> HIDE DEF body
<1>3. KeptRequest(q, layout) = [uri |-> q.uri, body |-> body]
  BY DEF KeptRequest, body
<1> QED BY <1>2, <1>3 DEF BeforeRecordRequest, body

\* The requests that put a question are those kept of it, and of no other.
LEMMA FormsAre ==
    ASSUME NEW q \in Question
    PROVE  /\ \A form \in Forms[q] : \E l \in Layout : form = KeptRequest(q, l)
           /\ \A u \in User, l \in Layout :
                BeforeRecordRequest(Request(q, u, l)) = KeptRequest(q, l)
                /\ KeptRequest(q, l) \in Forms[q]
           /\ \A q2 \in Question : Forms[q] \cap Forms[q2] # {} => q = q2
<1>1. \A q1 \in Question :
        Forms[q1] = {BeforeRecordRequest(Request(q1, u, l)) : u \in User, l \in Layout}
  BY DEF Forms
<1>2. \A q1 \in Question : \A u \in User, l \in Layout :
        BeforeRecordRequest(Request(q1, u, l)) = KeptRequest(q1, l)
  BY RequestKept
<1>3. \A q1 \in Question : \A form \in Forms[q1] : \E l \in Layout : form = KeptRequest(q1, l)
  BY <1>1, <1>2
<1>4. \A u \in User, l \in Layout : KeptRequest(q, l) \in Forms[q]
  BY <1>1, <1>2
<1>5. ASSUME NEW q2 \in Question, NEW form, form \in Forms[q], form \in Forms[q2]
      PROVE  q = q2
  <2>1. PICK l1 \in Layout, l2 \in Layout : KeptRequest(q, l1) = KeptRequest(q2, l2)
    BY <1>3, <1>5
  <2>2. q.uri = q2.uri /\ q.program = q2.program /\ Variables(q) = Variables(q2)
    BY <2>1 DEF KeptRequest
  <2> QED BY <2>2, VariablesTell
<1> QED BY <1>2, <1>3, <1>4, <1>5

\* Of the requests that are kept for a page, those that match a question of it are
\* those that put it: calls of the search module match each other, but a page has
\* one.
LEMMA MatchesTell ==
    ASSUME NEW p \in Page, NEW q \in Question \cap Asks[p], NEW q2 \in Question \cap Asks[p],
           NEW u \in User, NEW l \in Layout, NEW form \in Forms[q2]
    PROVE  Matches(BeforeRecordRequest(Request(q, u, l)), form) <=> form \in Forms[q]
<1> DEFINE r == KeptRequest(q, l)
<1>1. BeforeRecordRequest(Request(q, u, l)) = r /\ r \in Forms[q]
  BY FormsAre
<1>2. PICK l2 \in Layout : form = KeptRequest(q2, l2)
  BY FormsAre
<1>3. /\ r.uri = q.uri /\ r.body.program = q.program /\ r.body.vars = Variables(q)
      /\ form.uri = q2.uri /\ form.body.program = q2.program /\ form.body.vars = Variables(q2)
      /\ form.body.layout = KeptLayout(q2, l2) /\ r.body.layout = KeptLayout(q, l)
      /\ NormaliseUser(r.body) = r.body /\ NormaliseUser(form.body) = form.body
  BY <1>2, KeptAgain DEF KeptRequest
<1>4. form \in Forms[q] <=> q2 = q
  BY FormsAre
<1> HIDE DEF r
<1>5. ASSUME Matches(r, form) PROVE q2 = q
  <2>1. q.uri = q2.uri
    BY <1>3, <1>5 DEF Matches
  <2>2. \/ q.uri = "invoke"
        \/ q.program = q2.program /\ Variables(q) = Variables(q2)
    BY <1>3, <1>5 DEF Matches, BodyMatcher
  <2>3. CASE q.uri = "invoke"
    BY <2>1, <2>3, SearchAssumption
  <2>4. CASE q.program = q2.program /\ Variables(q) = Variables(q2)
    BY <2>1, <2>4, VariablesTell
  <2> QED BY <2>2, <2>3, <2>4
<1>6. ASSUME q2 = q PROVE Matches(r, form)
  <2>1. q.uri \in {"invoke", "eval"} => Matches(r, form)
    BY <1>3, <1>6 DEF Matches, BodyMatcher
  <2>2. CASE q.uri = "other"
    <3>1. KeptLayout(q, l) = KeptLayout(q, l2)
      BY <2>2, QuestionAssumption DEF KeptLayout
    <3>2. r = form
      BY <1>2, <1>6, <3>1 DEF r, KeptRequest
    <3> QED BY <1>3, <3>2 DEF Matches, BodyMatcher
  <2> QED BY <2>1, <2>2, QuestionAssumption
<1> QED BY <1>1, <1>4, <1>5, <1>6

-----------------------------------------------------------------------------
(***************************************************************************)
(* The answers.                                                            *)
(***************************************************************************)
\* An answer as it comes, of one part or of several, as text, and as a body put
\* together again.
Single(packing, parts) ==
    [multipart |-> FALSE, boundary |-> "live", encoding |-> packing,
     body |-> [form |-> "wire", boundary |-> "live", packing |-> packing, parts |-> parts]]

Multi(packing, parts) ==
    [multipart |-> TRUE, boundary |-> "live", encoding |-> packing,
     body |-> [form |-> "wire", boundary |-> "live", packing |-> packing, parts |-> parts]]

Text(parts) ==
    [multipart |-> TRUE, boundary |-> "vcr", encoding |-> "identity",
     body |-> [form |-> "text", boundary |-> "none", packing |-> "identity", parts |-> parts]]

Again(parts) ==
    [multipart |-> TRUE, boundary |-> "vcr", encoding |-> "identity",
     body |-> [form |-> "wire", boundary |-> "vcr", packing |-> "identity", parts |-> parts]]

\* The answers that cassettes hold: one of several parts is text, unless it is empty.
Answers ==
    {Single(k, parts) : k \in Packing, parts \in Reply}
      \cup {Multi(k, <<>>) : k \in Packing}
      \cup {Text(parts) : parts \in Reply \ {<<>>}}

\* The answers on the tape of a page that is played.
Played == Answers \cup {Again(parts) : parts \in Reply}

LEMMA EmptyReply == <<>> \in Reply /\ <<>> # Unknown
BY UnknownAssumption DEF Reply

LEMMA PartsType ==
    ASSUME NEW q \in Question, revision \in 0..MaxRevision
    PROVE  Parts(q) \in Reply
BY BoundsAssumption DEF Parts, Reply

LEMMA MultiKept ==
    ASSUME NEW k, NEW parts, ExtractedParts(Multi(k, parts)) = parts
    PROVE  Kept(Multi(k, parts)) = Text(parts)
BY DEF Kept, Text, Multi

\* What is kept of an answer is what the client reads in it.
LEMMA AnswerKept ==
    ASSUME NEW q \in Question, NEW k \in Packing, revision \in 0..MaxRevision
    PROVE  /\ BeforeRecordResponse(Response(q, k)) \in Answers
           /\ Read(Response(q, k)) = Parts(q)
           /\ Read(Rebuilt(BeforeRecordResponse(Response(q, k)))) = Parts(q)
<1> DEFINE parts == Parts(q)
           s == Response(q, k)
<1>1. parts \in Reply
  BY PartsType
<1>2. s = IF q.uri = "other" THEN Single(k, parts) ELSE Multi(k, parts)
  BY DEF Response, Single, Multi
<1> HIDE DEF parts, s
<1>3. Read(s) = parts /\ ExtractedParts(s) = parts /\ Rebuilt(s) = s
  BY <1>2 DEF Read, ExtractedParts, Rebuilt, Single, Multi
<1>4. CASE q.uri = "other"
  <2>1. s = Single(k, parts)
    BY <1>2, <1>4
  <2>2. BeforeRecordResponse(s) = s
    BY <2>1 DEF BeforeRecordResponse, Single
  <2>3. s \in Answers
    BY <1>1, <2>1 DEF Answers
  <2> QED BY <1>3, <2>2, <2>3 DEF s, parts
<1>5. CASE q.uri # "other" /\ parts = <<>>
  <2>1. s = Multi(k, <<>>)
    BY <1>2, <1>5
  <2>2. BeforeRecordResponse(s) = s
    BY <1>3, <1>5 DEF BeforeRecordResponse
  <2>3. s \in Answers
    BY <2>1 DEF Answers
  <2> QED BY <1>3, <2>2, <2>3 DEF s, parts
<1>6. CASE q.uri # "other" /\ parts # <<>>
  <2>1. s = Multi(k, parts)
    BY <1>2, <1>6
  <2>2. s.multipart = TRUE
    BY <2>1 DEF Multi
  <2>3. BeforeRecordResponse(s) = Text(parts)
    BY <1>3, <1>6, <2>1, <2>2, MultiKept DEF BeforeRecordResponse
  <2>4. Text(parts) \in Answers
    BY <1>1, <1>6 DEF Answers
  <2>5. Read(Rebuilt(Text(parts))) = parts
    BY DEF Read, Rebuilt, Text
  <2> QED BY <1>3, <2>3, <2>4, <2>5 DEF s, parts
<1> QED BY <1>4, <1>5, <1>6

\* What is kept stays as it is when its cassette is loaded, and can be read once
\* it is put together, the second time as the first.
LEMMA AnswersStay ==
    ASSUME NEW s \in Answers
    PROVE  /\ BeforeRecordResponse(s) = s
           /\ Rebuilt(s) \in Played /\ Rebuilt(Rebuilt(s)) = Rebuilt(s)
           /\ Read(Rebuilt(s)) \in Reply
<1>1. CASE \E k \in Packing, parts \in Reply : s = Single(k, parts)
  <2>1. PICK k \in Packing, parts \in Reply : s = Single(k, parts)
    BY <1>1
  <2>2. BeforeRecordResponse(s) = s /\ Rebuilt(s) = s /\ Read(s) = parts
    BY <2>1 DEF BeforeRecordResponse, Rebuilt, Read, Single
  <2> QED BY <2>1, <2>2 DEF Played
<1>2. CASE \E k \in Packing : s = Multi(k, <<>>)
  <2>1. PICK k \in Packing : s = Multi(k, <<>>)
    BY <1>2
  <2>2. ExtractedParts(s) = <<>>
    BY <2>1 DEF ExtractedParts, Multi
  <2>3. BeforeRecordResponse(s) = s /\ Rebuilt(s) = s /\ Read(s) = <<>>
    BY <2>1, <2>2 DEF BeforeRecordResponse, Rebuilt, Read, Multi
  <2> QED BY <2>3, EmptyReply DEF Played
<1>3. CASE \E parts \in Reply : s = Text(parts)
  <2>1. PICK parts \in Reply : s = Text(parts)
    BY <1>3
  <2>2. ExtractedParts(s) = <<>>
    BY <2>1 DEF ExtractedParts, Text
  <2>3. BeforeRecordResponse(s) = s
    BY <2>2 DEF BeforeRecordResponse
  <2>4. Rebuilt(s) = Again(parts)
    BY <2>1 DEF Rebuilt, Text, Again
  <2>5. Rebuilt(Again(parts)) = Again(parts) /\ Read(Again(parts)) = parts
    BY DEF Rebuilt, Again, Read
  <2> QED BY <2>1, <2>3, <2>4, <2>5 DEF Played
<1> QED BY <1>1, <1>2, <1>3 DEF Answers

-----------------------------------------------------------------------------
(***************************************************************************)
(* What a tape tells.                                                      *)
(***************************************************************************)
\* From place from on, the tape first answers question q with reply r, or not
\* at all if that is Unknown.
Tells(tape, from, q, r) ==
    \/ r = Unknown /\ \A i \in from..Len(tape) : tape[i].request \notin Forms[q]
    \/ \E i \in from..Len(tape) :
         /\ tape[i].request \in Forms[q]
         /\ \A j \in from..(i - 1) : tape[j].request \notin Forms[q]
         /\ r = Read(Rebuilt(tape[i].response))

\* A set of places that is not empty has a least one.
LEMMA MinOfPlaces ==
    ASSUME NEW n \in Nat, NEW S \in SUBSET (1..n), S # {}
    PROVE  Min(S) \in S /\ \A i \in S : Min(S) <= i
<1>1. S \subseteq Nat
  OBVIOUS
<1>2. \E m \in S : \A i \in S : ~(<<i, m>> \in OpToRel(<, Nat))
  BY <1>1, NatLessThanWellFounded, WFMin
<1>3. PICK m \in S : \A i \in S : ~(i < m)
  BY <1>1, <1>2 DEF OpToRel
<1>4. \A i \in S : m <= i
  BY <1>1, <1>3
<1> QED BY <1>4 DEF Min

\* A tape tells one answer.
LEMMA TellsOne ==
    ASSUME NEW tape, Len(tape) \in Nat, NEW from \in Nat, NEW q, NEW r1, NEW r2,
           Tells(tape, from, q, r1), Tells(tape, from, q, r2)
    PROVE  r1 = r2
<1> DEFINE At(i, r) ==
      /\ i \in from..Len(tape) /\ tape[i].request \in Forms[q]
      /\ \A j \in from..(i - 1) : tape[j].request \notin Forms[q]
      /\ r = Read(Rebuilt(tape[i].response))
<1>1. CASE \A i \in from..Len(tape) : tape[i].request \notin Forms[q]
  BY <1>1 DEF Tells
<1>2. CASE ~\A i \in from..Len(tape) : tape[i].request \notin Forms[q]
  <2>1. PICK i \in from..Len(tape), j \in from..Len(tape) : At(i, r1) /\ At(j, r2)
    BY <1>2 DEF Tells
  <2>2. ~(i < j) /\ ~(j < i)
    BY <2>1
  <2>3. i = j
    BY <2>1, <2>2
  <2> QED BY <2>1, <2>3
<1> QED BY <1>1, <1>2

\* What another interaction on the tape adds to what it tells.
LEMMA TellsAppended ==
    ASSUME NEW S, NEW tape \in Seq(S), NEW x \in S, NEW from \in 1..(Len(tape) + 1), NEW q, NEW r,
           Tells(tape, from, q, r),
           \A i \in from..Len(tape) : Read(Rebuilt(tape[i].response)) # Unknown
    PROVE  Tells(Append(tape, x), from, q,
                 IF x.request \in Forms[q] /\ r = Unknown THEN Read(Rebuilt(x.response)) ELSE r)
<1> DEFINE longer == Append(tape, x)
<1>1. /\ Len(longer) = Len(tape) + 1 /\ Len(tape) \in Nat
      /\ longer[Len(tape) + 1] = x
      /\ \A i \in 1..Len(tape) : longer[i] = tape[i]
  OBVIOUS
<1> HIDE DEF longer
<1>2. CASE \E i \in from..Len(tape) : tape[i].request \in Forms[q]
  <2>1. PICK i \in from..Len(tape) :
          /\ tape[i].request \in Forms[q]
          /\ \A j \in from..(i - 1) : tape[j].request \notin Forms[q]
          /\ r = Read(Rebuilt(tape[i].response))
    BY <1>2 DEF Tells
  <2>2. r # Unknown
    BY <2>1
  <2>3. i \in from..Len(longer) /\ longer[i] = tape[i]
    BY <1>1
  <2>4. \A j \in from..(i - 1) : longer[j] = tape[j]
    BY <1>1
  <2>5. Tells(longer, from, q, r)
    BY <2>1, <2>3, <2>4 DEF Tells
  <2> QED BY <2>2, <2>5 DEF longer
<1>3. CASE \A i \in from..Len(tape) : tape[i].request \notin Forms[q]
  <2>1. r = Unknown
    BY <1>3 DEF Tells
  <2>2. \A i \in from..Len(tape) : longer[i].request \notin Forms[q]
    BY <1>1, <1>3
  <2>3. CASE x.request \in Forms[q]
    <3>1. Len(tape) + 1 \in from..Len(longer) /\ (Len(tape) + 1) - 1 = Len(tape)
      BY <1>1
    <3>2. Tells(longer, from, q, Read(Rebuilt(x.response)))
      BY <1>1, <2>2, <2>3, <3>1 DEF Tells
    <3> QED BY <2>1, <2>3, <3>2 DEF longer
  <2>4. CASE x.request \notin Forms[q]
    <3>1. \A i \in from..Len(longer) : longer[i].request \notin Forms[q]
      BY <1>1, <2>2, <2>4
    <3>2. Tells(longer, from, q, r)
      BY <2>1, <3>1 DEF Tells
    <3> QED BY <2>4, <3>2 DEF longer
  <2> QED BY <2>3, <2>4
<1> QED BY <1>2, <1>3

\* What a file and its continuation tell together.
LEMMA TellsTogether ==
    ASSUME NEW S, NEW file \in Seq(S), NEW tape \in Seq(S), Len(file) <= Len(tape),
           \A i \in 1..Len(file) : tape[i] = file[i],
           \A i \in 1..Len(file) : Read(Rebuilt(file[i].response)) # Unknown,
           NEW q, NEW r, NEW h, Tells(file, 1, q, r), Tells(tape, Len(file) + 1, q, h)
    PROVE  Tells(tape, 1, q, IF r = Unknown THEN h ELSE r)
<1>1. Len(file) \in Nat /\ Len(tape) \in Nat
  OBVIOUS
<1>2. CASE \E i \in 1..Len(file) : file[i].request \in Forms[q]
  <2>1. PICK i \in 1..Len(file) :
          /\ file[i].request \in Forms[q]
          /\ \A j \in 1..(i - 1) : file[j].request \notin Forms[q]
          /\ r = Read(Rebuilt(file[i].response))
    BY <1>2 DEF Tells
  <2>2. r # Unknown
    BY <2>1
  <2>3. i \in 1..Len(tape) /\ tape[i] = file[i] /\ \A j \in 1..(i - 1) : tape[j] = file[j]
    BY <1>1
  <2>4. Tells(tape, 1, q, r)
    BY <2>1, <2>3 DEF Tells
  <2> QED BY <2>2, <2>4
<1>3. CASE \A i \in 1..Len(file) : file[i].request \notin Forms[q]
  <2>1. r = Unknown
    BY <1>3 DEF Tells
  <2>2. \A i \in 1..Len(file) : tape[i].request \notin Forms[q]
    BY <1>3
  <2>3. CASE \A i \in (Len(file) + 1)..Len(tape) : tape[i].request \notin Forms[q]
    <3>1. h = Unknown
      BY <2>3 DEF Tells
    <3>2. \A i \in 1..Len(tape) : tape[i].request \notin Forms[q]
      BY <1>1, <2>2, <2>3
    <3> QED BY <2>1, <3>1, <3>2 DEF Tells
  <2>4. CASE ~\A i \in (Len(file) + 1)..Len(tape) : tape[i].request \notin Forms[q]
    <3>1. PICK i \in (Len(file) + 1)..Len(tape) :
            /\ tape[i].request \in Forms[q]
            /\ \A j \in (Len(file) + 1)..(i - 1) : tape[j].request \notin Forms[q]
            /\ h = Read(Rebuilt(tape[i].response))
      BY <2>4 DEF Tells
    <3>2. i \in 1..Len(tape) /\ \A j \in 1..(i - 1) : tape[j].request \notin Forms[q]
      BY <1>1, <2>2, <3>1
    <3>3. Tells(tape, 1, q, h)
      BY <3>1, <3>2 DEF Tells
    <3> QED BY <2>1, <3>3
  <2> QED BY <2>3, <2>4
<1> QED BY <1>2, <1>3

-----------------------------------------------------------------------------
(***************************************************************************)
(* The invariant.                                                          *)
(***************************************************************************)
\* The requests that may be kept for a page, and the interactions on its tape.
Requests(p) == UNION {Forms[q] : q \in Question \cap Asks[p]}

Entry(p, answers) == [request : Requests(p), response : answers]

FileOf(p) == cassettes[NameOf[p]]

FilesFit ==
    /\ DOMAIN cassettes = Name
    /\ \A p \in Page : FileOf(p) \in Seq(Entry(p, Answers))

\* While a page is recorded its tape is the file and what has been heard since.
RecordFits ==
    /\ open.tape \in Seq(Entry(open.page, Answers))
    /\ Len(FileOf(open.page)) <= Len(open.tape)
    /\ \A i \in 1..Len(FileOf(open.page)) : open.tape[i] = FileOf(open.page)[i]
    /\ \A q \in Question : Tells(open.tape, Len(FileOf(open.page)) + 1, q, heard[q])

\* While it is played its tape is the file, with some answers put together.
PlayFits ==
    /\ Len(open.tape) = Len(FileOf(open.page))
    /\ \A i \in 1..Len(open.tape) :
         /\ open.tape[i].request = FileOf(open.page)[i].request
         /\ open.tape[i].response
              \in {FileOf(open.page)[i].response, Rebuilt(FileOf(open.page)[i].response)}
    /\ heard = NothingHeard

OpenFits ==
    open # NoCassette =>
        /\ open.page \in Page /\ open.name = NameOf[open.page] /\ open.user \in User
        /\ open \in [page : Page, name : Name, user : User,
                     tape : Seq(Entry(open.page, Played))]
        /\ IF mode = "record" THEN RecordFits ELSE PlayFits

HeardFits ==
    /\ heard \in [Question -> Reply \cup {Unknown}]
    /\ answer = Idle \/ answer \in [question : Question, reply : Reply \cup {Unknown}]
    /\ open = NoCassette => heard = NothingHeard /\ answer = Idle

CassetteInv ==
    /\ mode \in {"record", "playback"}
    /\ revision \in 0..MaxRevision
    /\ FilesFit /\ OpenFits /\ HeardFits

\* Every page has a name of its own, whichever address it is asked for by.
LEMMA NamesTell ==
    /\ \A a \in Address : a.page \in Page /\ CassetteName(a) = NameOf[a.page]
    /\ \A p \in Page : NameOf[p] \in Name
    /\ \A p1, p2 \in Page : NameOf[p1] = NameOf[p2] => p1 = p2
    /\ \A n \in Name : \E p \in Page : n = NameOf[p]
<1>1. \A p \in Page : \E a \in Address : a.page = p /\ NameOf[p] = CassetteName(a)
  BY DEF Page, NameOf
<1>2. \A a \in Address : a.page \in Page
  BY DEF Page
<1>3. \A a \in Address : CassetteName(a) = NameOf[a.page]
  BY <1>1, <1>2, NamesAssumption
<1>4. \A p1, p2 \in Page : NameOf[p1] = NameOf[p2] => p1 = p2
  BY <1>1, NamesAssumption
<1>5. \A n \in Name : \E a \in Address : n = CassetteName(a)
  BY DEF Name
<1>6. \A p \in Page : NameOf[p] \in Name
  BY <1>1 DEF Name
<1> QED BY <1>2, <1>3, <1>4, <1>5, <1>6

\* The hooks leave a file as it is when it is read.
LEMMA LoadedIs ==
    ASSUME FilesFit, NEW p \in Page
    PROVE  Load(NameOf[p]) = FileOf(p)
<1> DEFINE file == FileOf(p)
<1>1. file \in Seq(Entry(p, Answers))
  BY DEF FilesFit
<1>2. \A i \in DOMAIN file :
        [request |-> BeforeRecordRequest(file[i].request),
         response |-> BeforeRecordResponse(file[i].response)] = file[i]
  <2> TAKE i \in DOMAIN file
  <2>1. file[i] \in Entry(p, Answers)
    <3> HIDE DEF file
    <3> QED BY <1>1
  <2>2. /\ file[i] = [request |-> file[i].request, response |-> file[i].response]
        /\ file[i].request \in Requests(p) /\ file[i].response \in Answers
    <3> HIDE DEF file
    <3> QED BY <2>1 DEF Entry
  <2>3. BeforeRecordRequest(file[i].request) = file[i].request
    <3>1. PICK q \in Question : file[i].request \in Forms[q]
      BY <2>2 DEF Requests
    <3>2. PICK l \in Layout : file[i].request = KeptRequest(q, l)
      BY <3>1, FormsAre
    <3> QED BY <3>2, KeptAgain
  <2>4. BeforeRecordResponse(file[i].response) = file[i].response
    BY <2>2, AnswersStay
  <2> QED BY <2>2, <2>3, <2>4
<1>3. Load(NameOf[p]) = [i \in DOMAIN file |->
                           [request |-> BeforeRecordRequest(file[i].request),
                            response |-> BeforeRecordResponse(file[i].response)]]
  BY DEF Load, FileOf
<1> HIDE DEF file
<1>4. file = [i \in DOMAIN file |-> file[i]]
  BY <1>1
<1> QED BY <1>2, <1>3, <1>4 DEF file

\* The answer to a question in a file is the first.
First(file, q) ==
    LET found == {i \in DOMAIN file : file[i].request \in Forms[q]} IN
    IF found = {} THEN Unknown ELSE Read(Rebuilt(file[Min(found)].response))

LEMMA FirstTells ==
    ASSUME NEW S, NEW file \in Seq(S), NEW q
    PROVE  Tells(file, 1, q, First(file, q))
<1> DEFINE found == {i \in DOMAIN file : file[i].request \in Forms[q]}
<1>1. First(file, q) = IF found = {} THEN Unknown ELSE Read(Rebuilt(file[Min(found)].response))
  BY DEF First
<1>2. DOMAIN file = 1..Len(file) /\ Len(file) \in Nat
  OBVIOUS
<1>3. CASE found = {}
  BY <1>1, <1>2, <1>3 DEF Tells
<1>4. CASE found # {}
  <2> DEFINE m == Min(found)
  <2>1. m \in found /\ \A i \in found : m <= i
    <3>1. found \in SUBSET (1..Len(file))
      BY <1>2
    <3> HIDE DEF found
    <3> QED BY <1>2, <1>4, <3>1, MinOfPlaces
  <2>2. /\ m \in 1..Len(file) /\ file[m].request \in Forms[q]
        /\ \A i \in 1..Len(file) : file[i].request \in Forms[q] => m <= i
    BY <1>2, <2>1
  <2>3. First(file, q) = Read(Rebuilt(file[m].response))
    BY <1>1, <1>4
  <2> HIDE DEF m, found
  <2>4. \A j \in 1..(m - 1) : file[j].request \notin Forms[q]
    BY <1>2, <2>2
  <2> QED BY <2>2, <2>3, <2>4 DEF Tells
<1> QED BY <1>3, <1>4

-----------------------------------------------------------------------------
(***************************************************************************)
(* The steps.                                                              *)
(***************************************************************************)
LEMMA StartInv == Init => CassetteInv
<1> SUFFICES ASSUME Init PROVE CassetteInv
  OBVIOUS
<1>1. \A p \in Page : FileOf(p) = <<>>
  BY NamesTell DEF Init, FileOf
<1>2. \A p \in Page : FileOf(p) \in Seq(Entry(p, Answers))
  <2> TAKE p \in Page
  <2>1. ASSUME NEW S PROVE <<>> \in Seq(S)
    OBVIOUS
  <2> QED BY <1>1, <2>1
<1>3. NothingHeard \in [Question -> Reply \cup {Unknown}]
  BY DEF NothingHeard
<1> QED BY <1>2, <1>3, BoundsAssumption DEF Init, CassetteInv, FilesFit, OpenFits, HeardFits

LEMMA NothingOpen == \A p \in Page : NoCassette.page # p
BY UnknownAssumption DEF NoCassette

LEMMA ServeInv ==
    ASSUME CassetteInv, NEW a \in Address, NEW user \in User, Serve(a, user)
    PROVE  CassetteInv'
<1> DEFINE p == a.page
           file == FileOf(p)
<1>1. /\ open = NoCassette
      /\ open' = [page |-> p, name |-> NameOf[p], user |-> user, tape |-> file]
      /\ mode' = mode /\ revision' = revision /\ cassettes' = cassettes
      /\ heard' = heard /\ answer' = answer
  BY NamesTell, LoadedIs DEF Serve, CassetteInv
<1>2. p \in Page /\ NameOf[p] \in Name
  BY NamesTell
<1>3. /\ FilesFit' /\ \A p1 \in Page : FileOf(p1)' = FileOf(p1)
      /\ file \in Seq(Entry(p, Answers)) /\ heard = NothingHeard
  BY <1>1, <1>2 DEF CassetteInv, FilesFit, FileOf, HeardFits
<1> HIDE DEF p, file
<1>4. file \in Seq(Entry(p, Played)) /\ Len(file) \in Nat
  <2>1. Entry(p, Answers) \subseteq Entry(p, Played)
    BY DEF Entry, Played
  <2> QED BY <1>3, <2>1
<1>5. open' # NoCassette /\ open'.page = p /\ open'.tape = file
  BY <1>1, <1>2, NothingOpen
<1>6. FileOf(p) = file
  BY DEF file
<1>7. \A q \in Question : Tells(file, Len(file) + 1, q, heard[q])
  BY <1>3, <1>4 DEF Tells, NothingHeard
<1>8. RecordFits'
  BY <1>1, <1>2, <1>3, <1>4, <1>5, <1>6, <1>7 DEF RecordFits
<1>9. PlayFits'
  BY <1>1, <1>2, <1>3, <1>4, <1>5, <1>6 DEF PlayFits
<1>10. OpenFits'
  BY <1>1, <1>2, <1>4, <1>5, <1>8, <1>9 DEF OpenFits
<1>11. HeardFits'
  BY <1>1, <1>5 DEF CassetteInv, HeardFits
<1> QED BY <1>1, <1>3, <1>10, <1>11 DEF CassetteInv

\* What MarkLogic answers while page p is recorded is added to its tape.
LEMMA RecordInv ==
    ASSUME CassetteInv, NEW q \in Question, NEW layout \in Layout, NEW packing \in Packing,
           Record(q, layout, packing)
    PROVE  /\ CassetteInv'
           /\ answer'.question = q /\ answer'.reply \in Reply
           /\ answer' \in [question : Question, reply : Reply]
<1> DEFINE p == open.page
           tape == open.tape
           x == [request |-> BeforeRecordRequest(Request(q, open.user, layout)),
                 response |-> BeforeRecordResponse(Response(q, packing))]
           reply == Read(Response(q, packing))
<1>1. /\ mode = "record" /\ open # NoCassette /\ q \in Asks[p]
      /\ open' = [open EXCEPT !.tape = Append(@, x)]
      /\ answer' = [question |-> q, reply |-> reply]
      /\ heard' = [heard EXCEPT ![q] = IF @ = Unknown THEN reply ELSE @]
      /\ mode' = mode /\ revision' = revision /\ cassettes' = cassettes
  BY DEF Record
<1>2. /\ p \in Page /\ open.name = NameOf[p] /\ open.user \in User
      /\ open \in [page : Page, name : Name, user : User, tape : Seq(Entry(p, Played))]
      /\ RecordFits
  BY <1>1 DEF CassetteInv, OpenFits
<1>3. /\ x.request \in Forms[q] /\ x.response \in Answers /\ reply \in Reply
      /\ Read(Rebuilt(x.response)) = reply
  BY <1>2, AnswerKept, PartsType, FormsAre DEF CassetteInv
<1>4. x \in Entry(p, Answers) /\ x \in Entry(p, Played)
  BY <1>1, <1>3 DEF Entry, Requests, Played
<1>5. /\ FilesFit' /\ \A p1 \in Page : FileOf(p1)' = FileOf(p1)
  BY <1>1 DEF CassetteInv, FilesFit, FileOf
<1> HIDE DEF x, reply
<1>6. /\ open'.page = p /\ open'.name = open.name /\ open'.user = open.user
      /\ open'.tape = Append(tape, x)
      /\ open' \in [page : Page, name : Name, user : User, tape : Seq(Entry(p, Played))]
      /\ open' # NoCassette
  <2>1. Append(tape, x) \in Seq(Entry(p, Played))
    BY <1>2, <1>4
  <2>2. /\ open'.page = p /\ open'.name = open.name /\ open'.user = open.user
        /\ open'.tape = Append(tape, x)
        /\ open' \in [page : Page, name : Name, user : User, tape : Seq(Entry(p, Played))]
    BY <1>1, <1>2, <2>1
  <2> QED BY <1>2, <2>2, NothingOpen
<1>7. /\ tape \in Seq(Entry(p, Answers)) /\ Len(FileOf(p)) \in Nat
      /\ Len(FileOf(p)) <= Len(tape) /\ Len(tape) \in Nat
  BY <1>2 DEF RecordFits, CassetteInv, FilesFit
<1>8. /\ Append(tape, x) \in Seq(Entry(p, Answers)) /\ Len(Append(tape, x)) = Len(tape) + 1
      /\ \A i \in 1..Len(tape) : Append(tape, x)[i] = tape[i]
  BY <1>4, <1>7
<1>9. heard \in [Question -> Reply \cup {Unknown}]
  BY DEF CassetteInv, HeardFits
<1>10. ASSUME NEW q1 \in Question
       PROVE  Tells(Append(tape, x), Len(FileOf(p)) + 1, q1, heard'[q1])
  <2>1. Tells(tape, Len(FileOf(p)) + 1, q1, heard[q1])
    BY <1>2 DEF RecordFits
  <2>2. \A i \in (Len(FileOf(p)) + 1)..Len(tape) : Read(Rebuilt(tape[i].response)) # Unknown
    <3> TAKE i \in (Len(FileOf(p)) + 1)..Len(tape)
    <3>1. tape[i] \in Entry(p, Answers)
      BY <1>7
    <3>2. tape[i].response \in Answers
      BY <3>1 DEF Entry
    <3> QED BY <3>2, AnswersStay, UnknownAssumption
  <2>3. Len(FileOf(p)) + 1 \in 1..(Len(tape) + 1)
    BY <1>7
  <2>4. Tells(Append(tape, x), Len(FileOf(p)) + 1, q1,
              IF x.request \in Forms[q1] /\ heard[q1] = Unknown
              THEN Read(Rebuilt(x.response)) ELSE heard[q1])
    BY <1>4, <1>7, <2>1, <2>2, <2>3, TellsAppended
  <2>5. x.request \in Forms[q1] <=> q1 = q
    BY <1>3, FormsAre
  <2>6. heard'[q1] = IF q1 = q /\ heard[q1] = Unknown THEN reply ELSE heard[q1]
    BY <1>1, <1>9
  <2> QED BY <1>3, <2>4, <2>5, <2>6
<1>11. RecordFits'
  BY <1>2, <1>5, <1>6, <1>7, <1>8, <1>10 DEF RecordFits
<1>12. OpenFits'
  BY <1>1, <1>2, <1>6, <1>11 DEF OpenFits
<1>13. HeardFits'
  BY <1>1, <1>3, <1>6, <1>9 DEF HeardFits
<1> QED BY <1>1, <1>3, <1>5, <1>12, <1>13 DEF CassetteInv

\* A question that page p asks while it is played is answered as it is recorded.
LEMMA PlayInv ==
    ASSUME CassetteInv, NEW q \in Question, NEW layout \in Layout, Play(q, layout)
    PROVE  /\ CassetteInv'
           /\ open'.page = open.page
           /\ answer' = [question |-> q, reply |-> Recorded(open.page, q)]
<1> DEFINE p == open.page
           tape == open.tape
           file == FileOf(p)
           found == Matching(Request(q, open.user, layout))
           there == {i \in DOMAIN file : file[i].request \in Forms[q]}
<1>1. /\ mode = "playback" /\ open # NoCassette /\ q \in Asks[p]
      /\ mode' = mode /\ revision' = revision /\ cassettes' = cassettes /\ heard' = heard
  BY DEF Play
<1>2. /\ p \in Page /\ open.name = NameOf[p] /\ open.user \in User
      /\ open \in [page : Page, name : Name, user : User, tape : Seq(Entry(p, Played))]
      /\ PlayFits
  BY <1>1 DEF CassetteInv, OpenFits
<1>3. /\ FilesFit' /\ \A p1 \in Page : FileOf(p1)' = FileOf(p1)
      /\ file \in Seq(Entry(p, Answers))
  BY <1>1, <1>2 DEF CassetteInv, FilesFit, FileOf
<1>4. /\ tape \in Seq(Entry(p, Played)) /\ Len(tape) = Len(file) /\ Len(file) \in Nat
      /\ DOMAIN tape = 1..Len(file) /\ DOMAIN file = 1..Len(file)
      /\ \A i \in 1..Len(file) :
           /\ tape[i].request = file[i].request
           /\ tape[i].response \in {file[i].response, Rebuilt(file[i].response)}
      /\ heard = NothingHeard
  <2>1. tape \in Seq(Entry(p, Played)) /\ Len(tape) = Len(file)
    BY <1>2 DEF PlayFits
  <2>2. DOMAIN tape = 1..Len(tape) /\ DOMAIN file = 1..Len(file) /\ Len(file) \in Nat
    <3> HIDE DEF file, tape
    <3> QED BY <1>3, <2>1
  <2> QED BY <1>2, <2>1, <2>2 DEF PlayFits
<1>5. ASSUME NEW i \in 1..Len(file)
      PROVE  /\ Matches(BeforeRecordRequest(Request(q, open.user, layout)), tape[i].request)
                   <=> file[i].request \in Forms[q]
             /\ Rebuilt(tape[i].response) = Rebuilt(file[i].response)
             /\ Rebuilt(file[i].response) \in Played
             /\ Read(Rebuilt(file[i].response)) \in Reply
             /\ tape[i].request \in Requests(p)
  <2> HIDE DEF file, tape, p
  <2>1. file[i] \in Entry(p, Answers)
    BY <1>3
  <2>2. file[i].request \in Requests(p) /\ file[i].response \in Answers
    BY <2>1 DEF Entry
  <2>3. PICK q2 \in Question \cap Asks[p] : file[i].request \in Forms[q2]
    BY <2>2 DEF Requests
  <2>4. Matches(BeforeRecordRequest(Request(q, open.user, layout)), file[i].request)
          <=> file[i].request \in Forms[q]
    BY <1>1, <1>2, <2>3, MatchesTell
  <2> QED BY <1>4, <2>2, <2>4, AnswersStay
<1>6. found = there
  <2>1. found = {i \in DOMAIN tape :
                   Matches(BeforeRecordRequest(Request(q, open.user, layout)), tape[i].request)}
    BY DEF Matching
  <2> HIDE DEF file, tape, found
  <2> QED BY <1>4, <1>5, <2>1
<1>7. Recorded(p, q) = IF there = {} THEN Unknown ELSE Read(Rebuilt(file[Min(there)].response))
  BY DEF Recorded, FileOf
<1>8. CASE found = {}
  <2>1. open' = open /\ answer' = [question |-> q, reply |-> Unknown]
    BY <1>8 DEF Play
  <2>2. PlayFits' /\ OpenFits'
    BY <1>1, <1>2, <1>3, <2>1 DEF PlayFits, OpenFits
  <2>3. answer' = [question |-> q, reply |-> Recorded(p, q)]
    BY <1>6, <1>7, <1>8, <2>1
  <2>4. HeardFits'
    BY <1>1, <2>1 DEF CassetteInv, HeardFits
  <2> QED BY <1>1, <1>3, <2>1, <2>2, <2>3, <2>4 DEF CassetteInv
<1>9. CASE found # {}
  <2> DEFINE i == Min(found)
             s == Rebuilt(tape[i].response)
             x == [request |-> tape[i].request, response |-> s]
  <2>1. /\ open' = [open EXCEPT !.tape = [tape EXCEPT ![i] = x]]
        /\ answer' = [question |-> q, reply |-> Read(s)]
    BY <1>9 DEF Play
  <2>2. i \in there
    <3>1. there \in SUBSET (1..Len(file))
      BY <1>4
    <3> HIDE DEF found, there, file
    <3> QED BY <1>4, <1>6, <1>9, <3>1, MinOfPlaces
  <2>3. i \in 1..Len(file)
    BY <1>4, <2>2
  <2> HIDE DEF i
  <2>4. s = Rebuilt(file[i].response) /\ s \in Played /\ Read(s) \in Reply
    BY <1>5, <2>3
  <2>5. answer' = [question |-> q, reply |-> Recorded(p, q)]
    <3>1. Recorded(p, q) = Read(Rebuilt(file[i].response))
      BY <1>6, <1>7, <1>9 DEF i
    <3> QED BY <2>1, <2>4, <3>1
  <2>6. x \in Entry(p, Played)
    BY <1>5, <2>3, <2>4 DEF Entry
  <2> HIDE DEF s
  <2> DEFINE tape2 == [tape EXCEPT ![i] = x]
  <2>7. /\ tape2 \in Seq(Entry(p, Played)) /\ Len(tape2) = Len(file)
        /\ \A j \in 1..Len(file) : tape2[j] = IF j = i THEN x ELSE tape[j]
    <3> HIDE DEF tape, x, file
    <3> QED BY <1>4, <2>3, <2>6
  <2>8. x.request = tape[i].request /\ x.response = s
    OBVIOUS
  <2> HIDE DEF x, tape2
  <2>9. /\ open'.page = p /\ open'.name = open.name /\ open'.user = open.user
        /\ open'.tape = tape2
        /\ open' \in [page : Page, name : Name, user : User, tape : Seq(Entry(p, Played))]
    BY <1>2, <2>1, <2>7 DEF tape2
  <2>10. open' # NoCassette
    BY <1>2, <2>9, NothingOpen
  <2>11. PlayFits'
    BY <1>1, <1>2, <1>3, <1>4, <2>3, <2>4, <2>7, <2>8, <2>9 DEF PlayFits
  <2>12. OpenFits'
    BY <1>1, <1>2, <2>9, <2>10, <2>11 DEF OpenFits
  <2>13. HeardFits'
    BY <1>1, <2>1, <2>4, <2>10 DEF CassetteInv, HeardFits
  <2> QED BY <1>1, <1>3, <2>5, <2>9, <2>12, <2>13 DEF CassetteInv
<1> QED BY <1>8, <1>9

\* The files as the abstract specification sees them.
Known == [p \in Page |-> [q \in Question |-> Recorded(p, q)]]

LEMMA CloseInv ==
    ASSUME CassetteInv, FilesFit', Close
    PROVE  CassetteInv'
<1>1. NothingHeard \in [Question -> Reply \cup {Unknown}]
  BY DEF NothingHeard
<1> QED BY <1>1 DEF CassetteInv, Close, OpenFits, HeardFits

\* The file of a page that has been recorded again tells what it told, and of other
\* questions what has been heard; the other files stay as they are.
LEMMA ExitInv ==
    ASSUME CassetteInv, Exit
    PROVE  /\ CassetteInv'
           /\ \/ Known' = Known
              \/ Known' = [Known EXCEPT ![open.page] =
                    [q \in Question |-> IF @[q] = Unknown THEN heard[q] ELSE @[q]]]
<1>1. open # NoCassette /\ Close
  BY DEF Exit
<1>2. CASE cassettes' = cassettes
  <2>1. FilesFit' /\ \A p \in Page, q \in Question : Recorded(p, q)' = Recorded(p, q)
    BY <1>2 DEF CassetteInv, FilesFit, FileOf, Recorded
  <2> QED BY <1>1, <2>1, CloseInv DEF Known
<1>3. CASE mode = "record" /\ New > 0 /\ cassettes' = [cassettes EXCEPT ![open.name] = open.tape]
  <2> DEFINE p == open.page
             tape == open.tape
             file == FileOf(p)
  <2>1. /\ p \in Page /\ open.name = NameOf[p] /\ NameOf[p] \in Name
        /\ RecordFits /\ FilesFit
    BY <1>1, <1>3, NamesTell DEF CassetteInv, OpenFits
  <2>2. /\ \A p1 \in Page : FileOf(p1)' = IF p1 = p THEN tape ELSE FileOf(p1)
        /\ DOMAIN cassettes' = Name
    BY <1>3, <2>1, NamesTell DEF FileOf, FilesFit
  <2>3. /\ tape \in Seq(Entry(p, Answers)) /\ file \in Seq(Entry(p, Answers))
        /\ Len(file) <= Len(tape) /\ \A i \in 1..Len(file) : tape[i] = file[i]
    BY <2>1 DEF RecordFits, FilesFit
  <2>4. \A p1 \in Page : FileOf(p1)' \in Seq(Entry(p1, Answers))
    <3> TAKE p1 \in Page
    <3>1. CASE p1 = p
      BY <2>2, <2>3, <3>1
    <3>2. CASE p1 # p
      BY <2>1, <2>2, <3>2 DEF FilesFit
    <3> QED BY <3>1, <3>2
  <2>5. FilesFit'
    BY <2>2, <2>4 DEF FilesFit
  <2>6. \A p1 \in Page, q \in Question : /\ Recorded(p1, q) = First(FileOf(p1), q)
                                        /\ Recorded(p1, q)' = First(FileOf(p1)', q)
    BY DEF Recorded, First, FileOf
  <2>7. ASSUME NEW p1 \in Page, p1 = p, NEW q \in Question
        PROVE  Recorded(p1, q)' = IF Recorded(p, q) = Unknown THEN heard[q] ELSE Recorded(p, q)
    <3> HIDE DEF tape, file, p
    <3>1. Tells(tape, Len(file) + 1, q, heard[q])
      BY <2>1 DEF RecordFits, tape, file, p
    <3>2. Tells(file, 1, q, First(file, q))
      BY <2>3, FirstTells
    <3>3. \A i \in 1..Len(file) : Read(Rebuilt(file[i].response)) # Unknown
      <4> TAKE i \in 1..Len(file)
      <4>1. file[i] \in Entry(p, Answers)
        BY <2>3
      <4>2. file[i].response \in Answers
        BY <4>1 DEF Entry
      <4> QED BY <4>2, AnswersStay, UnknownAssumption
    <3>4. Tells(tape, 1, q, IF First(file, q) = Unknown THEN heard[q] ELSE First(file, q))
      BY <2>3, <3>1, <3>2, <3>3, TellsTogether
    <3>5. Tells(tape, 1, q, First(tape, q)) /\ Len(tape) \in Nat
      BY <2>3, FirstTells
    <3>6. First(tape, q) = IF First(file, q) = Unknown THEN heard[q] ELSE First(file, q)
      BY <3>4, <3>5, TellsOne
    <3>7. Recorded(p1, q)' = First(tape, q) /\ Recorded(p, q) = First(file, q)
      BY <2>1, <2>2, <2>6, <2>7 DEF file
    <3> QED BY <3>6, <3>7
  <2>8. \A p1 \in Page, q \in Question : p1 # p => Recorded(p1, q)' = Recorded(p1, q)
    BY <2>2, <2>6
  <2> HIDE DEF p
  <2>9. Known' = [Known EXCEPT ![p] =
                    [q \in Question |-> IF @[q] = Unknown THEN heard[q] ELSE @[q]]]
    BY <2>1, <2>7, <2>8 DEF Known
  <2> QED BY <1>1, <2>5, <2>9, CloseInv DEF p
<1> QED BY <1>2, <1>3 DEF Exit

LEMMA KillInv ==
    ASSUME CassetteInv, Kill
    PROVE  CassetteInv' /\ Known' = Known
<1>1. Close /\ cassettes' = cassettes
  BY DEF Kill
<1>2. FilesFit' /\ \A p \in Page, q \in Question : Recorded(p, q)' = Recorded(p, q)
  BY <1>1 DEF CassetteInv, FilesFit, FileOf, Recorded
<1> QED BY <1>1, <1>2, CloseInv DEF Known

\* A server is not started again in the middle of a page.
LEMMA RestartInv ==
    ASSUME CassetteInv, Restart
    PROVE  CassetteInv'
BY DEF CassetteInv, Restart, FilesFit, FileOf, OpenFits, HeardFits

LEMMA ChangeInv ==
    ASSUME CassetteInv, Change
    PROVE  CassetteInv'
<1>1. /\ revision' \in 0..MaxRevision
      /\ UNCHANGED <<mode, cassettes, open, heard, answer>>
  BY BoundsAssumption DEF CassetteInv, Change
<1> QED BY <1>1 DEF CassetteInv, FilesFit, FileOf, OpenFits, HeardFits, RecordFits, PlayFits

-----------------------------------------------------------------------------
(***************************************************************************)
(* The theorems.                                                           *)
(***************************************************************************)
LEMMA StepInv ==
    ASSUME CassetteInv, [Next]_vars
    PROVE  CassetteInv'
<1>1. CASE \E a \in Address, u \in User : Serve(a, u)
  BY <1>1, ServeInv
<1>2. CASE \E q \in Question, l \in Layout, k \in Packing : Record(q, l, k)
  BY <1>2, RecordInv
<1>3. CASE \E q \in Question, l \in Layout : Play(q, l)
  BY <1>3, PlayInv
<1>4. CASE Exit
  BY <1>4, ExitInv
<1>5. CASE Kill
  BY <1>5, KillInv
<1>6. CASE Restart
  BY <1>6, RestartInv
<1>7. CASE Change
  BY <1>7, ChangeInv
<1>8. CASE UNCHANGED vars
  BY <1>8 DEF vars, CassetteInv, FilesFit, FileOf, OpenFits, HeardFits, RecordFits, PlayFits
<1> QED BY <1>1, <1>2, <1>3, <1>4, <1>5, <1>6, <1>7, <1>8 DEF Next

LEMMA Always == Spec => []CassetteInv
BY StartInv, StepInv, PTL DEF Spec

LEMMA InvTyped == CassetteInv => TypeOK
<1> SUFFICES ASSUME CassetteInv PROVE TypeOK
  OBVIOUS
<1>1. open.page \in Page \cup {Unknown}
  BY DEF CassetteInv, OpenFits, NoCassette
<1>2. ASSUME NEW n \in Name, NEW i \in DOMAIN cassettes[n]
      PROVE  Read(Rebuilt(cassettes[n][i].response)) \in Reply
  <2>1. PICK p \in Page : n = NameOf[p]
    BY NamesTell
  <2>2. cassettes[n] \in Seq(Entry(p, Answers))
    BY <2>1 DEF CassetteInv, FilesFit, FileOf
  <2>3. cassettes[n][i] \in Entry(p, Answers)
    BY <1>2, <2>2
  <2>4. cassettes[n][i].response \in Answers
    BY <2>3 DEF Entry
  <2> QED BY <2>4, AnswersStay
<1> QED BY <1>1, <1>2 DEF TypeOK, CassetteInv, FilesFit, HeardFits

\* Whatever the pages, the questions and the users, every answer that a cassette
\* holds can be unpacked and split, however often the hooks have met it, and is one
\* that MarkLogic has given.
THEOREM CassettesTyped == Spec => []TypeOK
BY Always, InvTyped, PTL

LEMMA StartsEmpty == Init => Memory!Init
<1> SUFFICES ASSUME Init PROVE Memory!Init
  OBVIOUS
<1>1. \A p \in Page, q \in Question : Recorded(p, q) = Unknown
  BY NamesTell DEF Init, Recorded
<1>2. open.page = Unknown
  BY DEF Init, NoCassette
<1> QED BY <1>1, <1>2 DEF Init, Memory!Init, Memory!Nothing, Memory!Idle, NothingHeard, Idle

\* Each step on the cassettes is one of those that the abstract specification allows:
\* serving begins a page, recording hears an answer, playing recalls one, and a
\* page that is left, or whose server is stopped, ends.
LEMMA StepImplements ==
    ASSUME CassetteInv, [Next]_vars
    PROVE  [Memory!Next]_<<mode, Known, open.page, heard, answer>>
<1> USE DEF Known
<1>1. CASE \E a \in Address, u \in User : Serve(a, u)
  <2>1. PICK a \in Address, u \in User : Serve(a, u)
    BY <1>1
  <2>2. open.page = Unknown /\ open'.page \in Page
    BY <2>1, NamesTell DEF Serve, NoCassette
  <2>3. Known' = Known
    BY <2>1 DEF Serve, Recorded
  <2> QED BY <2>1, <2>2, <2>3 DEF Serve, Memory!Next, Memory!Begin
<1>2. CASE \E q \in Question, l \in Layout, k \in Packing : Record(q, l, k)
  <2>1. PICK q \in Question, l \in Layout, k \in Packing : Record(q, l, k)
    BY <1>2
  <2>2. /\ open.page # Unknown /\ open'.page = open.page
        /\ mode = "record" /\ mode' = mode
        /\ answer'.question = q /\ answer' \in [question : Question, reply : Reply]
        /\ heard' = [heard EXCEPT ![q] = IF @ = Unknown THEN answer'.reply ELSE @]
    BY <2>1, RecordInv, UnknownAssumption DEF Record, CassetteInv, OpenFits
  <2>3. Known' = Known
    BY <2>1 DEF Record, Recorded
  <2> QED BY <2>2, <2>3 DEF Memory!Next, Memory!Hear
<1>3. CASE \E q \in Question, l \in Layout : Play(q, l)
  <2>1. PICK q \in Question, l \in Layout : Play(q, l)
    BY <1>3
  <2>2. /\ open.page # Unknown /\ open.page \in Page /\ open'.page = open.page
        /\ mode = "playback" /\ mode' = mode /\ heard' = heard
        /\ answer' = [question |-> q, reply |-> Recorded(open.page, q)]
    BY <2>1, PlayInv, UnknownAssumption DEF Play, CassetteInv, OpenFits
  <2>3. Known' = Known
    BY <2>1 DEF Play, Recorded
  <2>4. Known[open.page][q] = Recorded(open.page, q)
    BY <2>2
  <2> QED BY <2>2, <2>3, <2>4 DEF Memory!Next, Memory!Recall
<1>4. CASE Exit \/ Kill
  <2>1. /\ open # NoCassette /\ Close
        /\ \/ Known' = Known
           \/ Known' = [Known EXCEPT ![open.page] =
                 [q \in Question |-> IF @[q] = Unknown THEN heard[q] ELSE @[q]]]
    BY <1>4, ExitInv, KillInv DEF Exit, Kill
  <2>2. open.page # Unknown
    BY <2>1, UnknownAssumption DEF CassetteInv, OpenFits
  <2>3. /\ open'.page = Unknown /\ heard' = Memory!Nothing /\ answer' = Memory!Idle
        /\ mode' = mode
    BY <2>1 DEF Close, NoCassette, NothingHeard, Idle, Memory!Nothing, Memory!Idle
  <2> QED BY <2>1, <2>2, <2>3 DEF Memory!Next, Memory!End
<1>5. CASE Restart
  <2>1. open.page = Unknown
    BY <1>5 DEF Restart, NoCassette
  <2>2. Known' = Known /\ mode' \in {"record", "playback"}
        /\ UNCHANGED <<open, heard, answer>>
    BY <1>5 DEF Restart, Recorded
  <2> QED BY <2>1, <2>2 DEF Memory!Next, Memory!Restart
<1>6. CASE Change
  <2>1. Known' = Known
    BY <1>6 DEF Change, Recorded
  <2> QED BY <1>6, <2>1 DEF Change
<1>7. CASE UNCHANGED vars
  <2>1. Known' = Known
    BY <1>7 DEF vars, Recorded
  <2> QED BY <1>7, <2>1 DEF vars
<1> QED BY <1>1, <1>2, <1>3, <1>4, <1>5, <1>6, <1>7 DEF Next

\* A page that is played back is given, for each question, the answer recorded first
\* on that page: the cassettes and their hooks implement Recordings.
THEOREM PlaybackIsRecording == Spec => PlaysWhatWasRecorded
<1>1. Spec => []CassetteInv
  BY Always
<1> QED BY <1>1, StartsEmpty, StepImplements, PTL
    DEF Spec, PlaysWhatWasRecorded, Memory!Spec, Known

=============================================================================
