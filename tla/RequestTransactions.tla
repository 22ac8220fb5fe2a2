------------------------ MODULE RequestTransactions ------------------------
(***************************************************************************)
(* The calls on one compliance request as overlapping transactions.        *)
(*                                                                         *)
(* A call opens a session (app/api/deps.py, get_db), reads the request,    *)
(* decides, writes, and is committed after the endpoint returns; an        *)
(* exception rolls it back.  Nothing takes a lock for reading and          *)
(* PostgreSQL runs at READ COMMITTED.  The session is a SQLAlchemy one     *)
(* (app/core/database.py): an object it has loaded is not read again, and  *)
(* a flush writes only the columns that differ from what was loaded.  So a *)
(* call acts on what it read first, and its commit lays its own changes    *)
(* over whatever others committed meanwhile.  Emails leave before the      *)
(* commit and are not taken back.                                          *)
(*                                                                         *)
(* Module RequestLifecycle says what the calls promise when they run one   *)
(* after the other; this one says what is left of it, and of the promise   *)
(* in module RequestWorkflow, when they overlap.                           *)
(* Sources: app/services/compliance_request_service.py,                    *)
(* public_request_service.py, follow_up_service.py,                        *)
(* extracted_field_service.py and their endpoints.                         *)
(*                                                                         *)
(* The request has one packaging component.  An answer is empty, typed or  *)
(* taken from a proposal; a typed answer conflicts with a proposal.        *)
(***************************************************************************)
EXTENDS Integers, FiniteSets, Sequences

CONSTANTS
    Calls,              \* calls under way at the same time
    Slots,              \* the columns of the component that are asked for
    Proposals,          \* rows of extracted_fields
    SlotOf,             \* the column a proposal is about
    MaxAutomaticRounds, \* max_automatic_follow_up_rounds
    MaxCalls,           \* bound: calls made
    MaxFailures         \* bound: calls that fail after their email left

ASSUME RequestTransactionsAssumption ==
    /\ IsFiniteSet(Slots)
    /\ SlotOf \in [Proposals -> Slots]
    /\ Proposals \cap {"request", "component"} = {}
    /\ MaxAutomaticRounds \in Nat
    /\ MaxCalls \in Nat
    /\ MaxFailures \in Nat

VARIABLES
    db,       \* what is committed: the request's row, answers, reviews
    rounds,   \* the committed follow_up_rounds, in the order of their commits
    tx,       \* the transaction of every call
    mints,    \* tokens minted so far, committed or not
    emailed,  \* the tokens that some email carried
    sends,    \* emails that a send() caused
    made,     \* calls made so far
    failures  \* calls that failed so far

vars == <<db, rounds, tx, mints, emailed, sends, made, failures>>

NoSnapshot == -1
NoToken == 0
NoRound == [refs |-> {}, automatic |-> FALSE]

Statuses == {"draft", "sent", "opened", "in_progress", "submitted", "completed"}
Answers == {"none", "typed", "proposed"}
Reviews == {"absent", "pending", "accepted", "rejected"}

RequestRows == [status    : Statuses,
                token     : Nat,                   \* secure_token_hash
                revoked   : BOOLEAN,               \* token_revoked_at is set
                submitted : BOOLEAN,               \* submitted_at is set
                snapshot  : Nat \cup {NoSnapshot}, \* first-submission snapshot
                automatic : BOOLEAN]               \* automatic_follow_up

Data == [row : RequestRows, answer : [Slots -> Answers], review : [Proposals -> Reviews]]

Kinds == {"send", "resend", "revoke", "follow_up", "open", "save", "submit",
          "accept", "reject", "extract"}

\* What a call was asked to do: the proposal it reviews or extracts, the
\* columns it types into.
Requested == [kind : Kinds, proposal : SUBSET Proposals, typed : SUBSET Slots]

Round == [refs : SUBSET Slots, automatic : BOOLEAN]

Transactions == [pc     : {"idle", "read", "flushed", "evaluated", "done"},
                 call   : Requested,
                 base   : Data,    \* as loaded
                 mine   : Data,    \* as this session has it now
                 round  : Round,   \* the follow-up round it inserts
                 missed : BOOLEAN] \* somebody committed since it read

TypeOK ==
    /\ db \in Data
    /\ rounds \in Seq(Round)
    /\ tx \in [Calls -> Transactions]
    /\ mints \in Nat
    /\ emailed \subseteq 1..mints
    /\ sends \in Nat
    /\ made \in 0..MaxCalls
    /\ failures \in 0..MaxFailures

NoCall == [kind |-> "open", proposal |-> {}, typed |-> {}]

NoTransaction(data) ==
    [pc |-> "idle", call |-> NoCall, base |-> data, mine |-> data, round |-> NoRound,
     missed |-> FALSE]

Fresh(automatic) ==
    [row |-> [status |-> "draft", token |-> NoToken, revoked |-> FALSE,
              submitted |-> FALSE, snapshot |-> NoSnapshot, automatic |-> automatic],
     answer |-> [s \in Slots |-> "none"],
     review |-> [p \in Proposals |-> "absent"]]

\* A draft, or a request in the supplier's hands whose documents were read.
Init ==
    /\ \E automatic \in BOOLEAN :
          \/ db = Fresh(automatic) /\ mints = 0
          \/ \E extracted \in SUBSET Proposals :
                /\ db = [Fresh(automatic) EXCEPT
                           !.row.status = "in_progress", !.row.token = 1,
                           !.review = [p \in Proposals |->
                              IF p \in extracted THEN "pending" ELSE "absent"]]
                /\ mints = 1
    /\ rounds = <<>>
    /\ tx = [k \in Calls |-> NoTransaction(Fresh(FALSE))]
    /\ emailed = 1..mints
    /\ sends = 0
    /\ made = 0
    /\ failures = 0
-----------------------------------------------------------------------------
(* What a summary says (module MissingInformation has it in full) *)

Pending(review) == {p \in Proposals : review[p] = "pending"}

Empty(answer) == {s \in Slots : answer[s] = "none"}

AllAnswered(data) == Empty(data.answer) = {} /\ Pending(data.review) = {}

SomethingMissing(data) == Empty(data.answer) # {} /\ Pending(data.review) = {}

Available(data) ==
    {s \in Slots \ Empty(data.answer) : \A p \in Pending(data.review) : SlotOf[p] # s}

\* Mutation: the previous round is not looked at.
CanFollowUpAgain(data) ==
    /\ data.row.token # NoToken /\ ~data.row.revoked
    /\ data.row.status # "completed"
    /\ SomethingMissing(data)

\* _assert_can_follow_up
CanFollowUp(data) ==
    /\ data.row.token # NoToken /\ ~data.row.revoked
    /\ data.row.status # "completed"
    /\ SomethingMissing(data)
    /\ rounds # <<>> => rounds[Len(rounds)].refs # Empty(data.answer)

AutomaticRounds == {i \in DOMAIN rounds : rounds[i].automatic}
-----------------------------------------------------------------------------
(* The session *)

\* Mutation: a flush writes every column of the request's row.
OverlayWholeRow(t) ==
    [row |-> IF t.mine.row # t.base.row THEN t.mine.row ELSE db.row,
     answer |-> [s \in Slots |-> IF t.mine.answer[s] # t.base.answer[s]
                                 THEN t.mine.answer[s] ELSE db.answer[s]],
     review |-> [p \in Proposals |-> IF t.mine.review[p] # t.base.review[p]
                                     THEN t.mine.review[p] ELSE db.review[p]]]

\* What is committed with the changed columns of t laid over it: what t's own
\* queries find from its flush on, and what its commit leaves.
Overlay(t) ==
    [row |-> [c \in DOMAIN db.row |-> IF t.mine.row[c] # t.base.row[c]
                                      THEN t.mine.row[c] ELSE db.row[c]],
     answer |-> [s \in Slots |-> IF t.mine.answer[s] # t.base.answer[s]
                                 THEN t.mine.answer[s] ELSE db.answer[s]],
     review |-> [p \in Proposals |-> IF t.mine.review[p] # t.base.review[p]
                                     THEN t.mine.review[p] ELSE db.review[p]]]

\* The rows t's UPDATEs lock; a submit always writes submitted_at.
Writes(t) ==
    {x \in {"request"} : t.mine.row # t.base.row \/ t.call.kind = "submit"}
    \cup {x \in {"component"} : t.mine.answer # t.base.answer}
    \cup {p \in Proposals : t.mine.review[p] # t.base.review[p] /\ t.base.review[p] # "absent"}

\* What reevaluate changed is flushed last; until then it is not locked.
Holds(k) ==
    CASE tx[k].pc \in {"flushed", "done"} -> Writes(tx[k])
      [] tx[k].pc = "evaluated" /\ tx[k].call.kind = "submit" -> {"request"}
      [] tx[k].pc = "evaluated" /\ tx[k].call.kind # "submit" -> Writes(tx[k]) \ {"request"}
      [] OTHER -> {}

\* The rows t writes are not locked by another call than k.
CanLock(k, t) == \A j \in Calls \ {k} : Holds(j) \cap Writes(t) = {}

NewToken == mints + 1

\* _issue_token_and_email and _mint_token
Minted(data) == [data EXCEPT !.row.token = NewToken, !.row.revoked = FALSE]

\* Mutation: the token is counted when it is stored, not when it is emailed.
EmailLinkUncounted ==
    /\ emailed' = emailed \cup {NewToken}
    /\ UNCHANGED mints

EmailLink ==
    /\ mints' = NewToken
    /\ emailed' = emailed \cup {NewToken}

EmailNothing == UNCHANGED <<mints, emailed>>
-----------------------------------------------------------------------------
(* Reading: a call that its guards refuse ends here and is no step *)

\* _resolve: the supplier has the stored link.
LinkWorks == db.row.token \in emailed /\ ~db.row.revoked

\* Mutation: a save or submit of a completed request is not refused.
AdmitsCompleted(call) ==
    IF call.kind \in {"save", "submit"} THEN LinkWorks
    ELSE call.kind \in {"accept", "reject"} /\ \A p \in call.proposal : db.review[p] = "pending"

Admits(call) ==
    CASE call.kind = "send"      -> db.row.status = "draft"
      [] call.kind = "resend"    -> db.row.status \in {"sent", "opened", "in_progress"}
      [] call.kind = "revoke"    -> db.row.token # NoToken /\ ~db.row.revoked
      [] call.kind = "follow_up" -> CanFollowUp(db)
      [] call.kind = "open"      -> LinkWorks /\ db.row.status = "sent"
      [] call.kind = "save"      -> LinkWorks /\ db.row.status # "completed"
      [] call.kind = "submit"    -> LinkWorks /\ db.row.status # "completed"
      [] call.kind = "extract"   -> db.row.token # NoToken
                                    /\ \A p \in call.proposal : db.review[p] = "absent"
      [] OTHER                   -> \A p \in call.proposal : db.review[p] = "pending"

WellFormed(call) ==
    /\ Cardinality(call.proposal) = IF call.kind \in {"accept", "reject", "extract"} THEN 1 ELSE 0
    /\ Cardinality(call.typed) = IF call.kind = "save" THEN 1 ELSE 0

Read(k, call) ==
    /\ tx[k].pc = "idle"
    /\ made < MaxCalls
    /\ Admits(call)
    /\ made' = made + 1
    /\ tx' = [tx EXCEPT ![k] = [NoTransaction(db) EXCEPT !.pc = "read", !.call = call]]
    /\ UNCHANGED <<db, rounds, mints, emailed, sends, failures>>
-----------------------------------------------------------------------------
(* Writing *)

Typed(t) ==
    [s \in Slots |-> IF s \in t.call.typed THEN "typed" ELSE t.base.answer[s]]

Reviewed(t, review) ==
    [p \in Proposals |-> IF p \in t.call.proposal THEN review ELSE t.base.review[p]]

\* An accept applies the proposal, a conflict it has seen being resolved in
\* its favour; keep_current does to the data what a reject does.
Applied(t) ==
    [s \in Slots |-> IF \E p \in t.call.proposal : SlotOf[p] = s
                     THEN "proposed" ELSE t.base.answer[s]]

\* The session after the first flush.
AfterFlush(t) ==
    CASE t.call.kind = "send"      -> [Minted(t.base) EXCEPT !.row.status = "sent"]
      [] t.call.kind = "resend"    -> Minted(t.base)
      [] t.call.kind = "revoke"    -> [t.base EXCEPT !.row.revoked = TRUE]
      [] t.call.kind = "follow_up" -> Minted(t.base)
      [] t.call.kind = "open"      -> [t.base EXCEPT !.row.status = "opened"]
      [] t.call.kind = "save"      -> [t.base EXCEPT !.row.status = "in_progress",
                                                     !.answer = Typed(t)]
      [] t.call.kind = "submit"    -> [t.base EXCEPT !.row.status = "submitted",
                                                     !.row.submitted = TRUE]
      [] t.call.kind = "accept"    -> [t.base EXCEPT !.answer = Applied(t),
                                                     !.review = Reviewed(t, "accepted")]
      [] t.call.kind = "reject"    -> [t.base EXCEPT !.review = Reviewed(t, "rejected")]
      [] t.call.kind = "extract"   -> [t.base EXCEPT !.review = Reviewed(t, "pending")]

Reevaluates(t) == t.call.kind \in {"submit", "accept", "reject"}

\* The service call up to its flush, the email it sends first included.
Flush(k) ==
    LET t == [tx[k] EXCEPT !.mine = AfterFlush(tx[k]),
                           !.pc = IF Reevaluates(tx[k]) THEN "flushed" ELSE "done",
                           !.round = IF tx[k].call.kind = "follow_up"
                                     THEN [refs |-> Empty(tx[k].base.answer), automatic |-> FALSE]
                                     ELSE NoRound]
    IN  /\ tx[k].pc = "read"
        /\ CanLock(k, t)
        /\ tx' = [tx EXCEPT ![k] = t]
        /\ IF t.call.kind \in {"send", "resend", "follow_up"} THEN EmailLink ELSE EmailNothing
        /\ sends' = IF t.call.kind = "send" THEN sends + 1 ELSE sends
        /\ UNCHANGED <<db, rounds, made, failures>>

\* What reevaluate sees: the row as loaded and changed; the answers as loaded
\* and changed, but a submit loads them only now; the proposals pending now.
Seen(t) ==
    [row |-> t.mine.row,
     answer |-> IF t.call.kind = "submit" THEN Overlay(t).answer ELSE t.mine.answer,
     review |-> Overlay(t).review]

\* Mutation: every submission takes the snapshot.
SnapshotRetaken(t) ==
    IF t.call.kind = "submit"
    THEN [t.mine EXCEPT !.row.snapshot = Cardinality(Available(Seen(t)))]
    ELSE t.mine

\* Mutation: the snapshot is left to a later call.
SnapshotLater(t) == t.mine

\* The first submission records how much was there.
WithSnapshot(t) ==
    IF t.call.kind = "submit" /\ ~t.base.row.submitted
    THEN [t.mine EXCEPT !.row.snapshot = Cardinality(Available(Seen(t)))]
    ELSE t.mine

\* Mutation: the summary is taken, and its verdict is not looked at.
EvaluatedAlways(t) == [t EXCEPT !.pc = "evaluated", !.mine.row.status = "completed"]

\* reevaluate, on the session t.
Evaluated(t) ==
    LET seen   == Seen(t)
        ready  == [t EXCEPT !.pc = "evaluated", !.mine = WithSnapshot(t)]
        retry  == /\ SomethingMissing(seen)
                  /\ seen.row.automatic
                  /\ CanFollowUp(seen)
                  /\ Cardinality(AutomaticRounds) < MaxAutomaticRounds
    IN  CASE AllAnswered(seen) -> [ready EXCEPT !.mine.row.status = "completed"]
          [] retry -> [ready EXCEPT !.mine = Minted(ready.mine),
                                    !.round = [refs |-> Empty(seen.answer), automatic |-> TRUE]]
          [] OTHER -> ready

Evaluate(k) ==
    LET t == Evaluated(tx[k])
    IN  /\ tx[k].pc = "flushed"
        /\ tx' = [tx EXCEPT ![k] = t]
        /\ IF t.round # NoRound THEN EmailLink ELSE EmailNothing
        /\ UNCHANGED <<db, rounds, sends, made, failures>>

\* The flush of what reevaluate changed.
FlushRow(k) ==
    /\ tx[k].pc = "evaluated"
    /\ CanLock(k, tx[k])
    /\ tx' = [tx EXCEPT ![k].pc = "done"]
    /\ UNCHANGED <<db, rounds, mints, emailed, sends, made, failures>>

End(k, changed) ==
    tx' = [j \in Calls |->
             IF j = k THEN NoTransaction(Fresh(FALSE))
             ELSE IF changed /\ tx[j].pc # "idle" THEN [tx[j] EXCEPT !.missed = TRUE]
             ELSE tx[j]]

\* get_db, after the endpoint has returned.
Commit(k) ==
    /\ tx[k].pc = "done"
    /\ db' = Overlay(tx[k])
    /\ rounds' = IF tx[k].round = NoRound THEN rounds ELSE Append(rounds, tx[k].round)
    /\ End(k, TRUE)
    /\ UNCHANGED <<mints, emailed, sends, made, failures>>

\* The email of the call failed, or its connection: everything is rolled back.
Fail(k) ==
    /\ tx[k].pc \in {"flushed", "evaluated", "done"}
    /\ failures < MaxFailures
    /\ failures' = failures + 1
    /\ End(k, FALSE)
    /\ UNCHANGED <<db, rounds, mints, emailed, sends, made>>

Next ==
    \E k \in Calls :
        \/ \E call \in {c \in Requested : WellFormed(c)} : Read(k, call)
        \/ Flush(k) \/ Evaluate(k) \/ FlushRow(k) \/ Commit(k) \/ Fail(k)

Spec == Init /\ [][Next]_vars
-----------------------------------------------------------------------------
(* Properties *)

Commits(k) == tx[k].pc = "done" /\ tx'[k].pc = "idle" /\ failures' = failures

\* A revocation outlasts every call that did not know of it: a send, a
\* follow-up or a round of reevaluate that read the request before the
\* revocation committed mints a token and clears nothing.  Only a resend that
\* read the revocation undoes it.
RevocationWins ==
    [][(db.row.revoked /\ ~db'.row.revoked) =>
          \E k \in Calls : /\ Commits(k)
                          /\ tx[k].call.kind = "resend"
                          /\ tx[k].base.row.revoked]_vars

\* However the columns that overlapping calls write are laid over each other,
\* the row stays coherent: the stored link was emailed, there is one exactly
\* when the request is no draft, and the snapshot exists exactly when there
\* was a submission.
RowIsCoherent ==
    /\ db.row.token = NoToken <=> db.row.status = "draft"
    /\ db.row.token # NoToken => db.row.token \in emailed
    /\ db.row.snapshot # NoSnapshot <=> db.row.submitted

\* COMPLETED is terminal but for a call that read the request before it was
\* completed and writes its status back over the completion: one of the
\* supplier, or a second send of what was then a draft.  A resend, a review, a
\* follow-up or an extraction never reopens, however late it commits.
CompletionReopensOnlyStale ==
    [][(db.row.status = "completed" /\ db'.row.status # "completed") =>
          \E k \in Calls : /\ Commits(k)
                          /\ tx[k].call.kind \in {"send", "open", "save", "submit"}
                          /\ tx[k].base.row.status # "completed"]_vars

\* reevaluate is right about what is committed: a submit, accept or reject
\* that nobody's commit overlapped completes the request exactly if it leaves
\* everything answered and nothing to review.  (Two overlapping accepts of
\* the last two proposals each see the other one pending.)
CompletionMissedOnlyByOverlap ==
    [][\A k \in Calls :
          (Commits(k) /\ Reevaluates(tx[k]) /\ ~tx[k].missed) =>
              /\ AllAnswered(db') => db'.row.status = "completed"
              /\ db'.row.status = "completed" => db.row.status = "completed" \/ AllAnswered(db')
      ]_vars

Phase(row) == IF row.status \in {"draft", "completed"} THEN row.status ELSE "open"

Link(row) == IF row.token = NoToken THEN "none" ELSE IF row.revoked THEN "revoked" ELSE "live"

AsksSoFar == [i \in DOMAIN rounds |-> rounds[i].refs]

Workflow == INSTANCE RequestWorkflow WITH
    Askable <- Slots,
    phase <- Phase(db.row),
    link <- Link(db.row),
    asks <- AsksSoFar

\* What module RequestWorkflow promises about one request, finality and "never
\* pester" included, is broken only by overlaps: a call that nobody's commit
\* overlapped takes a step of the workflow, whatever earlier overlaps have left
\* behind.  Its round asks for exactly what is missing, and an automatic one
\* stays within the cap.
WorkflowLeftOnlyByOverlap ==
    [][\A k \in Calls :
          (Commits(k) /\ ~tx[k].missed) =>
              /\ Workflow!WNext \/ UNCHANGED Workflow!wvars
              /\ tx[k].round # NoRound =>
                    /\ tx[k].round.refs = Empty(db'.answer)
                    /\ tx[k].round.automatic => Cardinality(AutomaticRounds) < MaxAutomaticRounds
      ]_vars

Decided(p) == db.review[p] \in {"accepted", "rejected"}

\* A decision about a proposal and the first-submission snapshot are made
\* once: only a call that overlapped the first decision, or the first
\* submission, replaces them.
DecisionsReplacedOnlyByOverlap ==
    [][(\/ \E p \in Proposals : Decided(p) /\ db'.review[p] # db.review[p]
        \/ db.row.submitted /\ db'.row.snapshot # db.row.snapshot) =>
          \E k \in Calls : Commits(k) /\ tx[k].missed]_vars

\* compliance_request_service.py:29-33 (RequestNotDraftError): sending the
\* same request twice would silently mint a second live token, "solicitud
\* enviada dos veces".
SentOnce == sends <= 1
=============================================================================
