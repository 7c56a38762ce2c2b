----------------------------- MODULE Recordings -----------------------------
(***************************************************************************)
(* What a developer is promised by the recording of MarkLogic's answers:   *)
(* a page that is played back is given, for each question that it asks,    *)
(* the answer that was recorded for it first, whoever asks now.            *)
(***************************************************************************)
CONSTANTS
    Page,      \* the pages of the site
    Question,  \* the questions that pages ask MarkLogic
    Reply,     \* its answers
    Unknown    \* no answer

VARIABLES
    mode,      \* how the server was started
    known,     \* known[p][q]: the answer to q that has been recorded on page p
    page,      \* the page that is being made, or Unknown
    heard,     \* heard[q]: the first answer to q on this page, if it is recorded
    answer     \* the last answer, and the question

Nothing == [q \in Question |-> Unknown]

Idle == [question |-> Unknown, reply |-> Unknown]

Init ==
    /\ mode \in {"record", "playback"}
    /\ known = [p \in Page |-> Nothing]
    /\ page = Unknown
    /\ heard = Nothing
    /\ answer = Idle

Begin ==
    /\ page = Unknown
    /\ page' \in Page
    /\ UNCHANGED <<mode, known, heard, answer>>

Hear ==
    /\ mode = "record" /\ page # Unknown
    /\ answer' \in [question : Question, reply : Reply]
    /\ heard' = [heard EXCEPT ![answer'.question] = IF @ = Unknown THEN answer'.reply ELSE @]
    /\ UNCHANGED <<mode, known, page>>

Recall ==
    /\ mode = "playback" /\ page # Unknown
    /\ \E q \in Question : answer' = [question |-> q, reply |-> known[page][q]]
    /\ UNCHANGED <<mode, known, page, heard>>

\* The page is ready, or has failed, with what it heard kept or lost.
End ==
    /\ page # Unknown
    /\ known' \in {known, [known EXCEPT ![page] =
                        [q \in Question |-> IF @[q] = Unknown THEN heard[q] ELSE @[q]]]}
    /\ page' = Unknown /\ heard' = Nothing /\ answer' = Idle
    /\ mode' = mode

Restart ==
    /\ page = Unknown
    /\ mode' \in {"record", "playback"}
    /\ UNCHANGED <<known, page, heard, answer>>

Next == Begin \/ Hear \/ Recall \/ End \/ Restart

Spec == Init /\ [][Next]_<<mode, known, page, heard, answer>>

=============================================================================
