-------------------------- MODULE RequestLifecycle --------------------------
(***************************************************************************)
(* One compliance request from draft to completed: its status, the secure  *)
(* link its supplier holds, the follow-up rounds and reminders, composed   *)
(* with the data of module ExtractionReview.                               *)
(*                                                                         *)
(* Sources: app/services/compliance_request_service.py,                    *)
(* public_request_service.py, follow_up_service.py, reminder_service.py,   *)
(* and the endpoints of app/api/v1/ that call them.                        *)
(*                                                                         *)
(* Every action is one HTTP call that succeeded, with everything the       *)
(* endpoint does after the service call (a submit, an accept and a reject  *)
(* are followed by FollowUpService.reevaluate in the same transaction).    *)
(* Only the latest raw token resolves, because a request stores one hash;  *)
(* the link is therefore none, live or revoked, and has an age in days.    *)
(* Calls are serialised here: overlapping transactions, a failing mail     *)
(* server and a lost commit are outside this module.                       *)
(***************************************************************************)
EXTENDS ExtractionReview, Sequences

CONSTANTS
    ExpiryDays,          \* supplier_token_default_expiry_days
    ReminderSchedule,    \* reminder_schedule_days
    MaxAutomaticRounds,  \* max_automatic_follow_up_rounds
    LongestDelay,        \* days after which a reminder's anchor gets no older
    MaxRounds            \* bound: follow-up rounds of the request

ASSUME RequestLifecycleAssumption ==
    /\ ExpiryDays \in Nat
    /\ ReminderSchedule \in Seq(Nat)
    /\ MaxAutomaticRounds \in Nat
    /\ LongestDelay \in Nat
    /\ \A i \in DOMAIN ReminderSchedule : ReminderSchedule[i] <= LongestDelay
    /\ MaxRounds \in Nat

VARIABLES
    status,      \* RequestStatus
    link,        \* secure_token_hash is null, or set, or set and revoked
    tokenAge,    \* days since the token was minted, see AgeCap
    anchorAge,   \* days since last_outbound_at (latest round, else sent_at)
    reminders,   \* reminder_count
    automatic,   \* automatic_follow_up
    submitted,   \* submitted_at is not null
    snapshot,    \* fields_available_after_first_submission
    rounds,      \* the request's follow_up_rounds rows, by round_number
    lastAsk,     \* content of the newest email that carries a link
    needsHuman   \* a REQUEST_NEEDS_HUMAN_ATTENTION audit event was recorded

requestVars == <<status, link, tokenAge, anchorAge, reminders, automatic, submitted,
                 snapshot, rounds, lastAsk, needsHuman>>

vars == <<reviewVars, requestVars>>

Statuses == {"draft", "sent", "opened", "in_progress", "submitted", "completed"}

ActiveStatuses == {"sent", "opened", "in_progress", "submitted"}

NoSnapshot == -1

Asks == [kind : {"none", "request", "follow_up"}, refs : SUBSET (Components \X Fields)]

Rounds == [refs      : SUBSET (Components \X Fields),
           trigger   : {"manual", "automatic"},
           available : Nat,
           missing   : Nat]

\* A token this old has expired; its age stops growing there.
AgeCap == ExpiryDays + 1

TypeOK ==
    /\ ReviewTypeOK
    /\ status \in Statuses
    /\ link \in {"none", "live", "revoked"}
    /\ tokenAge \in 0..AgeCap
    /\ anchorAge \in 0..LongestDelay
    /\ reminders \in 0..Len(ReminderSchedule)
    /\ automatic \in BOOLEAN
    /\ submitted \in BOOLEAN
    /\ snapshot \in Nat \cup {NoSnapshot}
    /\ rounds \in Seq(Rounds)
    /\ lastAsk \in Asks
    /\ needsHuman \in BOOLEAN

\* A new draft of a request whose products have no components yet; the
\* company's CreateComponent gives them some at any time.
Init ==
    /\ ReviewInit
    /\ status = "draft"
    /\ link = "none"
    /\ tokenAge = 0
    /\ anchorAge = 0
    /\ reminders = 0
    /\ automatic = FALSE
    /\ submitted = FALSE
    /\ snapshot = NoSnapshot
    /\ rounds = <<>>
    /\ lastAsk = [kind |-> "none", refs |-> {}]
    /\ needsHuman = FALSE
-----------------------------------------------------------------------------
(* Asking the supplier *)

\* _issue_token_and_email and _mint_token: a fresh hash and expiry, and the
\* revocation is cleared.
MintAndEmail(ask) ==
    /\ link' = "live"
    /\ tokenAge' = 0
    /\ lastAsk' = ask

RequestEmail == [kind |-> "request", refs |-> {}]
FollowUpEmail(refs) == [kind |-> "follow_up", refs |-> refs]

AutomaticRounds == {i \in DOMAIN rounds : rounds[i].trigger = "automatic"}

\* Mutation: the previous round is not looked at.
CanFollowUpAgain(st, cs, val, pend) ==
    /\ link = "live"
    /\ InformationStatus(cs, val, pend) = "missing_information"
    /\ st # "completed"

\* Mutation: a revoked link does not refuse the follow-up.
CanFollowUpRevoked(st, cs, val, pend) ==
    /\ InformationStatus(cs, val, pend) = "missing_information"
    /\ st # "completed"
    /\ rounds # <<>> => rounds[Len(rounds)].refs # MissingRefs(cs, val, pend)

\* _assert_can_follow_up, for the request in status st whose data is cs, val, pend.
\* A document is "processing" only inside the transaction that extracts it, so
\* no serialised call ever finds one and that conjunct has no counterpart here.
CanFollowUp(st, cs, val, pend) ==
    /\ link = "live"
    /\ InformationStatus(cs, val, pend) = "missing_information"
    /\ st # "completed"
    /\ rounds # <<>> => rounds[Len(rounds)].refs # MissingRefs(cs, val, pend)

NewRound(trigger, cs, val, pend) ==
    [refs      |-> MissingRefs(cs, val, pend),
     trigger   |-> trigger,
     available |-> Cardinality(AvailableSlots(cs, val, pend)),
     missing   |-> Cardinality(MissingSlots(cs, val, pend))]

\* The rest of create_round.
AddRound(trigger, cs, val, pend) ==
    /\ Len(rounds) < MaxRounds
    /\ rounds' = Append(rounds, NewRound(trigger, cs, val, pend))
    /\ MintAndEmail(FollowUpEmail(MissingRefs(cs, val, pend)))
    /\ anchorAge' = 0

AskNothing == UNCHANGED <<link, tokenAge, anchorAge, rounds, lastAsk>>

\* Mutation: a request that asks for nothing counts as complete.
ReevaluateVacuously(st, cs, val, pend) ==
    LET attempts == automatic /\ CanFollowUp(st, cs, val, pend)
        capped   == Cardinality(AutomaticRounds) >= MaxAutomaticRounds
    IN  /\ status' = IF Complete(cs, val, pend) THEN "completed" ELSE st
        /\ IF attempts /\ ~capped THEN AddRound("automatic", cs, val, pend) ELSE AskNothing
        /\ needsHuman' = (needsHuman \/ (attempts /\ capped))

\* Mutation: the cap is compared with > instead of >=.
ReevaluateOneTooMany(st, cs, val, pend) ==
    LET completes == Slots(cs) # {} /\ Complete(cs, val, pend)
        attempts  == Slots(cs) # {} /\ automatic /\ CanFollowUp(st, cs, val, pend)
        capped    == Cardinality(AutomaticRounds) > MaxAutomaticRounds
    IN  /\ status' = IF completes THEN "completed" ELSE st
        /\ IF attempts /\ ~capped THEN AddRound("automatic", cs, val, pend) ELSE AskNothing
        /\ needsHuman' = (needsHuman \/ (attempts /\ capped))

\* reevaluate, with the request in status st and the data cs, val, pend that
\* the handler has just flushed.
Reevaluate(st, cs, val, pend) ==
    LET completes == Slots(cs) # {} /\ Complete(cs, val, pend)
        attempts  == /\ Slots(cs) # {}
                     /\ automatic
                     /\ CanFollowUp(st, cs, val, pend)
        capped    == Cardinality(AutomaticRounds) >= MaxAutomaticRounds
    IN  /\ status' = IF completes THEN "completed" ELSE st
        /\ IF attempts /\ ~capped
           THEN AddRound("automatic", cs, val, pend)
           ELSE AskNothing
        /\ needsHuman' = (needsHuman \/ (attempts /\ capped))

ReevaluateData(st) == Reevaluate(st, comps', value', PendingProposals(rows'))
-----------------------------------------------------------------------------
(* The company's calls *)

Send ==
    /\ status = "draft"
    /\ status' = "sent"
    /\ MintAndEmail(RequestEmail)
    /\ anchorAge' = 0
    /\ UNCHANGED <<reviewVars, reminders, automatic, submitted, snapshot, rounds, needsHuman>>

Resend ==
    /\ status \in {"sent", "opened", "in_progress"}
    /\ MintAndEmail(RequestEmail)
    /\ UNCHANGED <<reviewVars, status, anchorAge, reminders, automatic, submitted, snapshot,
                   rounds, needsHuman>>

Revoke ==
    /\ link = "live"
    /\ link' = "revoked"
    /\ UNCHANGED <<reviewVars, status, tokenAge, anchorAge, reminders, automatic, submitted,
                   snapshot, rounds, lastAsk, needsHuman>>

SetAutomaticFollowUp(enabled) ==
    /\ automatic' = enabled
    /\ UNCHANGED <<reviewVars, status, link, tokenAge, anchorAge, reminders, submitted,
                   snapshot, rounds, lastAsk, needsHuman>>

FollowUp ==
    /\ CanFollowUp(status, comps, value, PendingProposals(rows))
    /\ AddRound("manual", comps, value, PendingProposals(rows))
    /\ UNCHANGED <<reviewVars, status, reminders, automatic, submitted, snapshot, needsHuman>>

Accept(r, c, resolution) ==
    /\ AcceptField(r, c, resolution)
    /\ ReevaluateData(status)
    /\ UNCHANGED <<reminders, automatic, submitted, snapshot>>

Reject(r) ==
    /\ RejectField(r)
    /\ ReevaluateData(status)
    /\ UNCHANGED <<reminders, automatic, submitted, snapshot>>

\* Mutation: a retry drops the document's earlier proposals.
RetryAfresh(d) ==
    /\ docs[d] # "absent"
    /\ docs' = [docs EXCEPT ![d] = "failed"]
    /\ rows' = [r \in Rows |-> IF rows[r] # NoRow /\ rows[r].doc = d THEN NoRow ELSE rows[r]]
    /\ UNCHANGED <<comps, value, requestVars>>

\* Calls that change the data and never look at the request: they have no
\* status guard and no re-evaluation.
Retry(d) == RetryExtraction(d) /\ UNCHANGED requestVars

Update(c, e) == UpdateComponent(c, e) /\ UNCHANGED requestVars

Create(c, e) == CreateComponent(c, e) /\ UNCHANGED requestVars

\* documents.py, accept: the request of the proposal is re-evaluated, no other.
OtherAccepts(c, f, v) == AcceptElsewhere(c, f, v) /\ UNCHANGED requestVars
-----------------------------------------------------------------------------
(* The supplier's calls *)

\* _resolve: the token is the latest one, neither revoked nor expired.
LinkWorks == link = "live" /\ tokenAge <= ExpiryDays

Open ==
    /\ LinkWorks
    /\ status = "sent"
    /\ status' = "opened"
    /\ UNCHANGED <<reviewVars, link, tokenAge, anchorAge, reminders, automatic, submitted,
                   snapshot, rounds, lastAsk, needsHuman>>

\* Mutation: a completed request can still be edited by its supplier.
SaveAlways(e) ==
    /\ LinkWorks
    /\ SaveProgress(e)
    /\ status' = "in_progress"
    /\ UNCHANGED <<link, tokenAge, anchorAge, reminders, automatic, submitted, snapshot,
                   rounds, lastAsk, needsHuman>>

\* Mutation: the status that FASE 6 removed is still written.
SaveForReview(e) ==
    /\ LinkWorks
    /\ status # "completed"
    /\ SaveProgress(e)
    /\ status' = "review_required"
    /\ UNCHANGED <<link, tokenAge, anchorAge, reminders, automatic, submitted, snapshot,
                   rounds, lastAsk, needsHuman>>

Save(e) ==
    /\ LinkWorks
    /\ status # "completed"
    /\ SaveProgress(e)
    /\ status' = "in_progress"
    /\ UNCHANGED <<link, tokenAge, anchorAge, reminders, automatic, submitted, snapshot,
                   rounds, lastAsk, needsHuman>>

\* The service's submit, then the endpoint's reevaluate.
Submit ==
    /\ LinkWorks
    /\ status # "completed"
    /\ submitted' = TRUE
    /\ snapshot' = IF submitted THEN snapshot
                   ELSE Cardinality(AvailableSlots(comps, value, PendingProposals(rows)))
    /\ Reevaluate("submitted", comps, value, PendingProposals(rows))
    /\ UNCHANGED <<reviewVars, reminders, automatic>>

\* A submit of a completed request is answered without any change, and
\* reevaluate follows all the same.
SubmitAgain ==
    /\ LinkWorks
    /\ status = "completed"
    /\ Reevaluate(status, comps, value, PendingProposals(rows))
    /\ UNCHANGED <<reviewVars, reminders, automatic, submitted, snapshot>>

Upload(d) ==
    /\ LinkWorks
    /\ status # "completed"
    /\ UploadDocument(d)
    /\ UNCHANGED requestVars

Delete(d) ==
    /\ LinkWorks
    /\ status # "completed"
    /\ DeleteDocument(d)
    /\ UNCHANGED requestVars
-----------------------------------------------------------------------------
(* Time and the reminder job *)

Older(age, cap) == IF age < cap THEN age + 1 ELSE age

Tick ==
    /\ tokenAge' = Older(tokenAge, AgeCap)
    /\ anchorAge' = Older(anchorAge, LongestDelay)
    /\ UNCHANGED <<reviewVars, status, link, reminders, automatic, submitted, snapshot,
                   rounds, lastAsk, needsHuman>>

\* Mutation: candidates are not filtered by revocation.
ReminderDueRevoked ==
    /\ status \in ActiveStatuses
    /\ reminders < Len(ReminderSchedule)
    /\ anchorAge >= ReminderSchedule[reminders + 1]

ReminderDue ==
    /\ status \in ActiveStatuses
    /\ link # "revoked"
    /\ reminders < Len(ReminderSchedule)
    /\ anchorAge >= ReminderSchedule[reminders + 1]

\* process_due_reminders for this request: claim the slot, then send_reminder.
Remind ==
    /\ ReminderDue
    /\ reminders' = reminders + 1
    /\ MintAndEmail(IF rounds = <<>> THEN RequestEmail
                    ELSE FollowUpEmail(MissingRefs(comps, value, PendingProposals(rows))))
    /\ UNCHANGED <<reviewVars, status, anchorAge, automatic, submitted, snapshot, rounds,
                   needsHuman>>
-----------------------------------------------------------------------------
CompanyNext ==
    \/ Send \/ Resend \/ Revoke \/ FollowUp
    \/ \E enabled \in BOOLEAN : SetAutomaticFollowUp(enabled)
    \/ \E r \in Rows :
          \/ \E c \in Components, resolution \in Resolutions : Accept(r, c, resolution)
          \/ Reject(r)
    \/ \E d \in Docs : Retry(d)
    \/ \E c \in Components :
          \/ \E e \in Edits({c} \X Fields) : Update(c, e)
          \/ \E e \in [{c} \X Fields -> Values \cup {NoValue}] : Create(c, e)
          \/ \E f \in Fields : \E v \in DOMAIN Stored[f] : OtherAccepts(c, f, v)

SupplierNext ==
    \/ Open \/ Submit \/ SubmitAgain
    \/ \E e \in Edits(comps \X SupplierFields) : Save(e)
    \/ \E d \in Docs : Upload(d) \/ Delete(d)

Next == CompanyNext \/ SupplierNext \/ Tick \/ Remind

Spec == Init /\ [][Next]_vars
-----------------------------------------------------------------------------
(* Properties *)

AllAnswered(cs, val, rs) ==
    /\ cs # {}
    /\ \A s \in Slots(cs) : val[s] # NoValue
    /\ PendingRows(rs) = {}

EarnsCompletion ==
    (status # "completed" /\ status' = "completed") => AllAnswered(comps', value', rows')

\* RequestStatus docs: COMPLETED is only ever reached once every requested
\* field is available with no pending review or conflict.  Stated on the data
\* itself and not on the summary: whatever call completes the request, no
\* proposal of any of its documents then waits for a human, not even one that
\* was linked to a component by an earlier extraction.
CompletionIsEarned == [][EarnsCompletion]_vars

KeepsCompletion ==
    status = "completed" =>
        /\ status' = "completed"
        /\ UNCHANGED <<rounds, lastAsk, reminders, submitted, snapshot>>
        /\ tokenAge' >= tokenAge
        /\ link' \in {link, "revoked"}

\* COMPLETED is terminal: no later call leaves it, asks the supplier anything
\* again, or gives the supplier a fresh or revived link, although the data
\* under it may still be edited by the company.
CompletionIsFinal == [][KeepsCompletion]_vars

\* README "Never pester the supplier": every round asked for something, for
\* exactly the slots that were missing outright when it was sent (never one
\* under review), and no round asked for what the round before it asked for.
NeverPester ==
    \A i \in DOMAIN rounds :
        /\ rounds[i].refs # {}
        /\ rounds[i].missing = Cardinality(rounds[i].refs)
        /\ i > 1 => rounds[i].refs # rounds[i - 1].refs

\* MAX_AUTOMATIC_FOLLOW_UP_ROUNDS stops the automatic loop, however the company
\* toggles it and mixes manual rounds in, and a human is called for only once
\* the cap is used up.
AutomaticRoundsCapped ==
    /\ Cardinality(AutomaticRounds) <= MaxAutomaticRounds
    /\ needsHuman => Cardinality(AutomaticRounds) = MaxAutomaticRounds

RevivedByResend ==
    (link = "revoked" /\ link' # "revoked") =>
        /\ lastAsk' = RequestEmail
        /\ status \in {"sent", "opened", "in_progress"}
        /\ UNCHANGED <<reviewVars, status, reminders, rounds>>

\* A link the company revoked is brought back by the company's own resend of a
\* request still in the supplier's hands and by nothing else: no reminder, no
\* follow-up of either kind, no call of the supplier.
RevokedStaysDead == [][RevivedByResend]_vars

\* A draft is invisible to its supplier: no link, no email, no round, no
\* document and no proposal exists for it; every later status has had a link.
DraftIsPrivate ==
    /\ status = "draft" <=> link = "none"
    /\ status = "draft" =>
          /\ rounds = <<>> /\ lastAsk.kind = "none" /\ ~submitted
          /\ reminders = 0
          /\ LiveRows(rows) = {}
          /\ \A d \in Docs : docs[d] = "absent"

\* The one historical data point of the recovery metric is taken with the
\* first submission, never lost or retaken, and never exceeds what the request
\* covers.
SnapshotIsFirst ==
    /\ submitted <=> snapshot # NoSnapshot
    /\ snapshot <= Cardinality(Slots(comps))

SnapshotIsKept ==
    [][snapshot # NoSnapshot => snapshot' = snapshot]_vars

\* README 999: manual follow-up remains available at any time.  While the work
\* is open, its link was never revoked and something is missing, the supplier
\* can still be reached: the link works, or a follow-up, a resend or a later
\* reminder would issue one that does.
SupplierIsReachable ==
    (/\ status \in ActiveStatuses
     /\ link = "live"
     /\ InformationStatus(comps, value, PendingProposals(rows)) = "missing_information")
    => \/ LinkWorks
       \/ CanFollowUp(status, comps, value, PendingProposals(rows))
       \/ status \in {"sent", "opened", "in_progress"}
       \/ reminders < Len(ReminderSchedule)
-----------------------------------------------------------------------------
(* The abstract specification *)

Phase == IF status \in {"draft", "completed"} THEN status ELSE "open"

AsksSoFar == [i \in DOMAIN rounds |-> rounds[i].refs]

Workflow == INSTANCE RequestWorkflow WITH
    Askable <- Components \X Fields,
    phase   <- Phase,
    asks    <- AsksSoFar

\* The lifecycle keeps the workflow's promises.
ImplementsWorkflow == Workflow!WorkflowSpec

\* Seen from its data alone, the lifecycle is the review of extracted fields:
\* every property of module ExtractionReview holds here too.
ImplementsReview == ReviewSpec
=============================================================================
