---------------------------- MODULE MetadataClaims ----------------------------
(***************************************************************************)
(* The metadata page of a document (views/document_metadata.py): editors   *)
(* reject claims, suppress judges that are read from the body, and add     *)
(* claims.  A request changes the collection of claims that it has loaded  *)
(* and saves it as a whole; nothing locks the document meanwhile.          *)
(***************************************************************************)
EXTENDS Naturals, Sequences, SequencesExt

CONSTANTS
    Workers,    \* gunicorn's workers
    Single,     \* the fields that hold one value (SingleMetadata)
    Multiple,   \* the fields that hold several, "judges" among them
    Values,     \* what claims say
    Body,       \* the values that the document's body has for each field
    Additions,  \* the new claims that a form may have: sequences of field and
                \* value, those of a field together and in the order of the form
    MaxClaims   \* bound on the claims that are ever made

Fields == Single \cup Multiple

ASSUME FieldsAssumption ==
    "judges" \in Multiple /\ Single \cap Multiple = {}

\* What the body says of the fields.
InBody(fields) == UNION {{f} \X Body[f] : f \in fields}

ASSUME BodyAssumption ==
    /\ Body \in [Fields -> SUBSET Values]
    /\ \A f \in Fields : IsFiniteSet(Body[f])
ASSUME AdditionsAssumption == Additions \subseteq Seq(Fields \X Values)
ASSUME MaxClaimsAssumption ==
    /\ MaxClaims \in Nat
    /\ IsFiniteSet(InBody(Single)) /\ Cardinality(InBody(Single)) <= MaxClaims

VARIABLES
    stored,   \* the claims in MarkLogic, the winner of a field last
    made,     \* the number of claims made so far
    offered,  \* the claims and judges that some page has offered to reject
    job       \* the request that each worker has, or whether its last one
              \* was answered with "updated successfully"

vars == <<stored, made, offered, job>>

Claim == [id : 1..MaxClaims, field : Fields, value : Values, rejected : BOOLEAN]

\* The places of a field's claims in a collection, and of the active ones
\* (metadata_fields.resolve(field): all_claims and the winner, which is last).
AllClaims(claims, f) == {i \in DOMAIN claims : claims[i].field = f}

ActiveClaims(claims, f) == {i \in AllClaims(claims, f) : ~claims[i].rejected}

Ids(claims, places) == {claims[i].id : i \in places}

ValuesOf(claims, places) == {claims[i].value : i \in places}

ActiveValues(claims, f) == ValuesOf(claims, ActiveClaims(claims, f))

-----------------------------------------------------------------------------
(***************************************************************************)
(* What the page shows of each field.                                      *)
(***************************************************************************)
\* The winning claim of a field that has an active one.
Winner(claims, f) == claims[Max(ActiveClaims(claims, f))]

\* Seeded fault: the winning claim is told by its value.
IsCurrentByValue(claims, c) ==
    ~c.rejected /\ (c.field \in Multiple \/ c.value = Winner(claims, c.field).value)

\* _real_claim: neither rejected nor superseded.
IsCurrent(claims, c) ==
    ~c.rejected /\ (c.field \in Multiple \/ c.id = Winner(claims, c.field).id)

\* The claims of a field that are shown as current,
CurrentClaims(claims, f) == {i \in AllClaims(claims, f) : IsCurrent(claims, claims[i])}

CurrentValues(claims, f) == ValuesOf(claims, CurrentClaims(claims, f))

\* Seeded fault: the body is shown when every claim is rejected.
ActiveOrBody(claims, f) ==
    IF ActiveClaims(claims, f) = {} THEN Body[f] ELSE CurrentValues(claims, f)

\* and the values: those of the body when there are no claims (_display_claims).
DisplayedValues(claims, f) ==
    IF AllClaims(claims, f) = {} THEN Body[f] ELSE CurrentValues(claims, f)

\* The boxes "Mark as rejected" (can_reject).
Boxes(claims) ==
    [claims |-> UNION {Ids(claims, CurrentClaims(claims, f)) : f \in Fields},
     judges |-> IF AllClaims(claims, "judges") = {} THEN Body["judges"] ELSE {}]

-----------------------------------------------------------------------------
(***************************************************************************)
(* What a form does to the claims in memory.                               *)
(***************************************************************************)
\* metadata_fields.reject, of every claim of the form.
Rejected(claims, ids) ==
    [i \in DOMAIN claims |-> [claims[i] EXCEPT !.rejected = @ \/ claims[i].id \in ids]]

\* A claim for each <<field, value>> of a sequence, numbered from n on.
NewClaims(pairs, n) ==
    [i \in 1..Len(pairs) |->
        [id |-> n + i, field |-> pairs[i][1], value |-> pairs[i][2], rejected |-> FALSE]]

\* The judges of the body become claims when there are none.
Materialised(claims, n) ==
    IF AllClaims(claims, "judges") = {}
    THEN claims \o NewClaims(SetToSeq(InBody({"judges"})), n)
    ELSE claims

\* suppress_body_value: the other judges of the body stay.
Suppressed(claims, judges, n) ==
    IF judges = {} THEN claims
    ELSE LET m == Materialised(claims, n) IN
         [i \in DOMAIN m |->
            [m[i] EXCEPT !.rejected = @ \/ (m[i].field = "judges" /\ m[i].value \in judges)]]

\* judges_metadata.values.
JudgeValues(claims) ==
    IF AllClaims(claims, "judges") = {} THEN Body["judges"]
    ELSE ActiveValues(claims, "judges")

\* add_editor_judge may keep the body's judges, before the first new one.
Keeping(claims, add, keep, n) ==
    IF keep /\ \E i \in DOMAIN add : add[i][1] = "judges"
    THEN Materialised(claims, n) ELSE claims

\* Seeded fault: the form is read by get, which gives the last value of a field.
LastAdded(claims, add, keep, n) ==
    LET k == Keeping(claims, add, keep, n)
        last == {i \in DOMAIN add : \A j \in DOMAIN add : j > i => add[j][1] # add[i][1]} IN
    k \o NewClaims(SetToSeq({add[i] : i \in last}), n + Len(k) - Len(claims))

\* _add_new_claims: a claim for every value of every field, those of a field in
\* the order of the form.  Claims of different fields are never compared, so
\* the judges of the body may come before the new claims of other fields.
Added(claims, add, keep, n) ==
    LET k == Keeping(claims, add, keep, n) IN
    k \o NewClaims(add, n + Len(k) - Len(claims))

-----------------------------------------------------------------------------
(***************************************************************************)
(* The requests.  A form has any number of new claims, several for a field *)
(* among them; its boxes may be those of a page loaded long ago.           *)
(***************************************************************************)
Form == [reject : SUBSET offered.claims, suppress : SUBSET offered.judges, add : Additions]

\* Neither _reject_claims nor _suppress_body_judges gives up.
Accepted(form) ==
    /\ form.reject \subseteq Ids(stored, DOMAIN stored)
    /\ form.suppress \subseteq JudgeValues(Rejected(stored, form.reject))

Changes(form) == form.reject # {} \/ form.suppress # {} \/ form.add # <<>>

\* post, up to the save.
Applied(claims, form, keep) ==
    LET r == Rejected(claims, form.reject)
        s == Suppressed(r, form.suppress, made) IN
    Added(s, form.add, keep, made + Len(s) - Len(claims))

Answered(w, a) == job' = [job EXCEPT ![w] = [answer |-> a]]

Free(w) == "answer" \in DOMAIN job[w]

\* Seeded fault: what was changed in memory is saved all the same.
SavingRefuse(w, form) ==
    /\ ~Accepted(form)
    /\ Answered(w, "none")
    /\ stored' = Rejected(stored, form.reject)
    /\ UNCHANGED <<made, offered>>

\* An unknown claim or judge: what was changed in memory is dropped.
Refuse(w, form) ==
    /\ ~Accepted(form)
    /\ Answered(w, "none")
    /\ UNCHANGED <<stored, made, offered>>

NoChange(w, form) ==
    /\ Accepted(form) /\ ~Changes(form)
    /\ Answered(w, "none")
    /\ UNCHANGED <<stored, made, offered>>

Process(w, form) ==
    /\ Accepted(form) /\ Changes(form)
    /\ \E keep \in BOOLEAN :
         LET memory == Applied(stored, form, keep) IN
         /\ made + Len(memory) - Len(stored) <= MaxClaims
         /\ made' = made + Len(memory) - Len(stored)
         /\ job' = [job EXCEPT ![w] = [form |-> form, loaded |-> stored, memory |-> memory]]
    /\ UNCHANGED <<stored, offered>>

\* The document is loaded and the form processed in memory.
Post(w) ==
    /\ Free(w)
    /\ \E form \in Form : Refuse(w, form) \/ NoChange(w, form) \/ Process(w, form)

\* Seeded fault: the save adds the claims to those that are there.
AppendingStore(memory) == stored' = stored \o memory

Store(memory) == stored' = memory

\* save_metadata_fields; the pages that follow offer other boxes.
Save(w) ==
    /\ ~Free(w)
    /\ Store(job[w].memory)
    /\ offered' = [claims |-> offered.claims \cup Boxes(stored').claims,
                   judges |-> offered.judges \cup Boxes(stored').judges]
    /\ Answered(w, "updated") \/ Answered(w, "none")
    /\ UNCHANGED made

\* The save raises without effect.
SaveFails(w) ==
    /\ ~Free(w)
    /\ Answered(w, "none")
    /\ UNCHANGED <<stored, made, offered>>

\* The document has been parsed: claims of some of the fields that hold one value.
Init ==
    /\ \E parsed \in SUBSET InBody(Single) : stored = NewClaims(SetToSeq(parsed), 0)
    /\ made = Len(stored)
    /\ offered = Boxes(stored)
    /\ job = [w \in Workers |-> [answer |-> "none"]]

Next == \E w \in Workers : Post(w) \/ Save(w) \/ SaveFails(w)

Spec == Init /\ [][Next]_vars

-----------------------------------------------------------------------------

\* No two claims ever have one identity: a box rejects one claim.
TypeOK ==
    /\ stored \in Seq(Claim)
    /\ \A i, j \in DOMAIN stored : stored[i].id = stored[j].id => i = j
    /\ made \in 0..MaxClaims
    /\ offered.claims \subseteq 1..made /\ offered.judges \subseteq Body["judges"]
    /\ \A w \in Workers : ~Free(w) => job[w].memory \in Seq(Claim)

\* A field that holds one value shows one as current, and the newest that was
\* not rejected; it shows none only when every claim was rejected or the body
\* is silent, and each current claim, no other, has a box (_real_claim).
OneCurrent ==
    \A f \in Single :
        LET current == CurrentClaims(stored, f)
            active == ActiveClaims(stored, f) IN
        /\ current = (IF active = {} THEN {} ELSE {Max(active)})
        /\ active # {} => /\ DisplayedValues(stored, f) = {Winner(stored, f).value}
                          /\ Boxes(stored).claims \cap Ids(stored, active) = {Winner(stored, f).id}

\* The claims of the form's new values are at these places: one for each value,
\* those of a field in the order of the form.
AddedAt(at, form, loaded, claims) ==
    /\ \A i \in DOMAIN form.add :
         /\ at[i] \in ActiveClaims(claims, form.add[i][1])
         /\ claims[at[i]].value = form.add[i][2]
         /\ claims[at[i]].id \notin Ids(loaded, DOMAIN loaded)
    /\ \A i, k \in DOMAIN form.add :
         i < k /\ form.add[i][1] = form.add[k][1] => at[i] < at[k]

\* The form has had its effect on the claims that the request loaded: the claims
\* and judges of its boxes are rejected, each of its new values has an active
\* claim of its own, the last value that it has for a field that holds one is
\* the current one, and every other claim is as it was.
InEffect(form, loaded, claims) ==
    /\ \A i \in DOMAIN loaded : \E j \in DOMAIN claims :
         /\ [claims[j] EXCEPT !.rejected = loaded[i].rejected] = loaded[i]
         /\ claims[j].rejected <=>
              \/ loaded[i].rejected
              \/ loaded[i].id \in form.reject
              \/ loaded[i].field = "judges" /\ loaded[i].value \in form.suppress
    /\ \A v \in form.suppress :
         v \in ActiveValues(claims, "judges") => <<"judges", v>> \in ToSet(form.add)
    /\ \E at \in [DOMAIN form.add -> DOMAIN claims] : AddedAt(at, form, loaded, claims)
    /\ \A i \in DOMAIN form.add :
         \/ \E k \in DOMAIN form.add : i < k /\ form.add[k][1] = form.add[i][1]
         \/ form.add[i][1] \in Multiple
         \/ CurrentValues(claims, form.add[i][1]) = {form.add[i][2]}

\* Only a form that is accepted as a whole changes the stored claims, with all of
\* its effect or none; what a form that is refused half way has changed in memory
\* is not stored, and "updated" is not answered before the effect is (post).
FormAppliedWhole ==
    [][/\ stored' # stored => \E w \in Workers : ~Free(w) /\ Free(w)'
       /\ \A w \in Workers :
            ~Free(w) /\ Free(w)' /\ (stored' # stored \/ job'[w].answer = "updated")
              => InEffect(job[w].form, job[w].loaded, stored')]_vars

\* A value that the page does not show as current comes back only when the form
\* adds it, when the claim that superseded it is rejected, or when the save
\* overtakes another one, whose changes it undoes without a message: in
\* particular a judge of the body, once suppressed, does not come back because
\* the judge's claim, or the last of the claims, is rejected (_display_claims).
NothingComesBack ==
    [][\A f \in Fields :
         \A v \in DisplayedValues(stored', f) \ DisplayedValues(stored, f) :
           \E w \in Workers :
             /\ ~Free(w) /\ job'[w] # job[w]
             /\ \/ <<f, v>> \in ToSet(job[w].form.add)
                \/ f \in Single /\ v \in ActiveValues(stored, f)
                \/ job[w].loaded # stored]_vars

=============================================================================
