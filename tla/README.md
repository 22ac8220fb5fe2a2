# Sourcelya: a TLA+ model of the compliance-request workflow

Sourcelya collects packaging data from suppliers. A company sends a
*compliance request*, the supplier answers through a secure link by typing
values and attaching documents, an extractor proposes values read in the
documents, a company user accepts or rejects the proposals, and the system asks
again for what is missing (follow-up rounds, reminders) until the request is
complete. The value of the product rests on what this workflow promises about
data nobody approved, requests that complete too early or never, links that
were revoked, and suppliers who are asked twice. These modules state those
promises, check them with TLC on small instances and prove the ones of the
workflow with TLAPS for every instance.

Paths below are relative to `src/backend/app/` unless they start with `src/`.

## 1. Inventory of the system

| Component | State | Operations | Hard behaviour | What makes it correct |
|---|---|---|---|---|
| Missing information engine (`services/missing_information_service.py`) | none, computed on each call | `summarize`, `missing_field_refs` | order of the if/elif chain, proposals without a component, spellings of one value | the answer is what the data say |
| Extraction (`services/extraction_service.py`) | `supplier_documents.extraction_status`, new `extracted_fields` rows | `process` on upload and on retry, `_mark_failed` | retry beside reviewed rows, link guessed or stale, failure in the middle | nothing is written to a component, nothing lost |
| Review (`services/extracted_field_service.py`) | `review_status`, `packaging_component_id` of a proposal; the component's columns | `accept`, `reject` | conflict judged against another slot than the one written, second review of a row | one approved value per write |
| Documents (`services/document_service.py`, `integrations/storage/`, `integrations/malware/`) | a row and a stored object | `upload_for_request`, `delete_for_request` | two stores, one transaction; cascade of proposals against a retry | row and object differ only by what a rollback left |
| Catalogue (`services/packaging_component_service.py`, `product_service.py`) | products, components | create, update | edits under a running request, product moving to another supplier | the request sees it |
| Requests, company side (`services/compliance_request_service.py`) | status, token hash, expiry, revocation, `sent_at` | create, send, revoke, resend, automatic toggle | two sends at once, email before commit | one live link, none after revocation |
| Supplier portal (`services/public_request_service.py`, `api/v1/public_requests.py`) | status, `submitted_at`, first-submission snapshot | open, save, submit, upload, delete | save against completion, submit twice, expired link | supplier edits only open work |
| Follow-up (`services/follow_up_service.py`) | `follow_up_rounds` | `create_round`, `reevaluate`, `send_reminder`, `recovery_stats` | the loop between review, automatic rounds and the cap | never pester, complete exactly when complete |
| Reminder job (`services/reminder_service.py`, `api/v1/internal.py`) | `reminder_count` | `process_due_reminders` | stale candidates, overlapping runs, one failing email rolls back a batch | at most one reminder per slot of the schedule |
| Traffic light (`services/status_calculation_service.py`, `api/v1/products.py`) | none | `calculate_component_status`, `calculate_product_status` | a second rule over the columns of the summary, which looks for pending proposals of the whole company | says what the summary says, but for other requests' proposals |
| Extraction provider (`integrations/extraction/`) | none | `extract`, `verify_quote`, `resolve_confidence` | confidence ceiling of unverified quotes | an unverified quote is never high confidence |
| Companies, users, suppliers, products (`services/*_service.py`, `core/security.py`, `api/deps.py`) | tenant rows | CRUD, onboarding | two first logins at once, a product that moves | rows never cross companies, one company per user |
| Email, audit, models, migrations, front ends | outputs, declarations, user interface | - | - | - |

**Interaction.** Every HTTP call runs in one database transaction
(`api/deps.py:23`, PostgreSQL at READ COMMITTED): services call each other
inside it, a call that raises is rolled back. Shared state is the database.
`submit`, `accept` and `reject` end with `FollowUpService.reevaluate`, which may
complete the request or open an automatic round; `reevaluate` and `create_round`
read the request through the missing-information engine. Uploading a document
and retrying an extraction run the extractor inside the call. Company users,
the supplier and a cron job that calls the reminder endpoint act independently,
in any order, and their transactions overlap; nothing reads with a lock. Emails
and stored objects leave the process before the transaction commits and do not
come back when it rolls back. The hazards this gives rise to are listed, each
at its line, in `PROJECT.json` under `hazards`, with the properties that cover
them.

## 2. The modules

| Module | Models | Depends on |
|---|---|---|
| `MissingInformation` | `summarize` as set definitions: slots, conflict, review, available, missing, status | - |
| `Summarize` | the same function as the code computes it: the nested loops, the if/elif chain, the counters, the roll-up | extends `MissingInformation` |
| `ExtractionReview` | components, documents and proposals of one request; upload, retry, delete, accept, reject, typed edits, and the accepts of other requests | extends `MissingInformation` |
| `RequestWorkflow` | the abstract promise of one request: start, ask, reissue, withdraw, finish | - |
| `RequestLifecycle` | status, link, rounds, reminders, snapshot and automatic loop, composed with the data | extends `ExtractionReview`, instantiates `RequestWorkflow` |
| `TrafficLight` | the status of components and products, computed from the tables of the review and from what other requests have pending for the same components (`elsewhere`) | extends `ExtractionReview` |
| `RequestTransactions` | the calls on one request as overlapping transactions: read, flush, re-evaluate, flush, commit or roll back | instantiates `RequestWorkflow` |
| `ReminderBatch` | the reminder job over several requests: select, find due, claim or wait for a lock, commit, die | - |
| `DocumentPipeline` | one file in the bucket and in the tables: scan, store, extract, retry, delete, as overlapping transactions; the confidence ceiling | - |
| `Tenancy` | tokens, users, onboarding, suppliers, products, creation of requests, as overlapping transactions | - |
| `UploadEventLoop` | the event loop, the worker threads and the row locks of an upload and of the calls that mint a link | - |
| `*_proofs` | theorems of the module of that name (those of `TrafficLight` are in `ExtractionReview_proofs`) | extend it and TLAPS |
| `MC*` | values of the constants for TLC | extend the module |

How state corresponds to the code:

- A *slot* `<<component, field>>` is one column of one packaging component.
  `value[s]` is that column; `NoValue` is `None` or `""`, which
  `_current_value` does not tell apart. Values are abstract. What the code does
  to them is in four constants: `Same[f]` (which spellings `_values_differ` and
  `_values_conflict` find equal), `Valid[f]` (what the payload schemas accept),
  `Stored[f]` (what `_apply` parses and stores; outside its domain it raises)
  and `TextFields` / `RequiredFields` (which columns a payload may empty).
- `rows` is the `extracted_fields` table: a function from row identities to
  records or `NoRow`. An identity may be reused after a deletion; no
  property depends on that.
- `docs[d]` is the `extraction_status` a transaction commits. `PROCESSING` is
  flushed and never committed, so no other call sees it: the corresponding
  refusal of `_assert_can_follow_up` has no counterpart in `CanFollowUp`. (What an
  overlapping extraction does to a follow-up is in `RequestTransactions`.)
- A request stores one token hash, so only the latest link resolves. `link` is
  `none`, `live` or `revoked`; `tokenAge` counts the days since it was minted and
  `anchorAge` those since `last_outbound_at`. Both stop growing at the first
  value where no guard distinguishes older ones.
- `lastAsk` is what the newest email with a link contained; `needsHuman` that
  `REQUEST_NEEDS_HUMAN_ATTENTION` was recorded.

Every action is one call, with all it does: `Accept` is `accept` plus the
re-evaluation of the endpoint, on the data just written; `Submit` is the service
and the endpoint; `Remind` is the claim of the slot plus `send_reminder`. A
refused call is rolled back, so it is a disabled action. A catalogue edit, a retry,
an upload and a deletion leave the request alone, as in the code: `Update`,
`Create`, `Retry`, `Upload` and `Delete` carry `UNCHANGED requestVars` because
nothing calls `reevaluate` there.

`RequestWorkflow` is the specification a product owner would sign: work starts
once, a finished request stays finished and gets no link, a withdrawn link comes
back only by a reissue, and the supplier is asked only while work is open,
through a live link, for something, and never the same thing twice in a row.
`RequestLifecycle` implements it with `phase` the status folded to three values
and `asks` the field lists of the rounds. It also implements
`ExtractionReview`, by hiding its own variables. `RequestTransactions` maps its committed
row and rounds to the same three variables: calls that never overlap implement the
workflow, and one that nobody overlapped takes a step of it.

### The modules of overlapping transactions

`RequestLifecycle` and `ExtractionReview` say what the calls promise one after the
other. `RequestTransactions`, `ReminderBatch`, `DocumentPipeline` and `Tenancy` open
the calls up into the steps between which other calls commit.

- `tx[k]` (`run[w]` in the job) is the session of a call: where it is (`pc`), what it
  has loaded (`base`) and what it made of it (`mine`). SQLAlchemy does not load
  an object twice in a session and flushes only the columns that differ from what
  was loaded, and `autoflush` is off (`core/database.py:9`). So the guards of a call
  speak of `base`, and a commit is `Overlay`: the changed columns of `mine` over what
  is committed by then. Queries that return rows the session has not loaded
  (pending proposals, rounds) see what is committed at that moment.
- Locks are those of PostgreSQL's UPDATE and DELETE from the flush to the end of the
  transaction. `Writes(t)` names the rows `t` updates; in `RequestTransactions` they
  are locked in one step. In `ReminderBatch` they are locked one by one, with a
  queue per row, and a cycle is broken by aborting one run, as the server does.
  The guard of a claim, `WHERE reminder_count = :seen`, is tested again when the
  lock is got. Whether a reminder is due is asked before the UPDATE is sent
  (`Examine`, then `Update`): what commits in between, a new round say, is not seen
  by the guard.
- A call that is refused ends without a step of its own (its read has no effect).
  `Fail`, `Die` and `Rollback` are the exception, lost connection or crash after
  something left the process.
- History variables record what a property must speak of and no table has:
  `emailed` and `mints` (tokens), `mailed` and `lost` (reminders per slot), `missed`
  (another call committed since this one read), `crossed`, `undone`, `abandoned`,
  `overlapped`, `stale` (closed, revoked or asked anew since a run selected the request
  or found it due). No guard reads them, but that the supplier only has links that were
  emailed.
- In `RequestTransactions` the request has one component, whose columns are `typed`,
  `proposed` or empty, and a typed value disagrees with a proposal; a `keep_current`
  acts on the data as a reject and is one with it. In `DocumentPipeline` a content is
  what scanner and extractor tell apart: kind, readable text, infected.
- `Tenancy` has one write per call. The row of a new user is inserted at its first
  call and is rolled back with it, also by a 404 or 409.

## 3. The runs that pass

| Run | Instance | States | Shows |
|---|---|---|---|
| `summarize` | two components, two fields, three spellings (two equal), up to two pending proposals, any visiting order | 320 k | the loop computes the set definitions; "complete" and "missing information" mean what the module documentation says |
| `review` | two components, two documents, two proposals per extraction, three values (two spellings of one number, one text that is no number), an enumerated text field and a number, other requests that propose and accept for the same components | 309 k | provenance, no silent overwrite, links never guessed and always valid, reviews final; the traffic light agrees with the summary in every state, up to what other requests have pending |
| `lifecycle_data` | two components appearing at any time, one field, two values, one document, one proposal | 276 k | completion is earned, refinement of the review |
| `lifecycle_time` | one component with two fields, two reminders, expiry after a day, cap of one automatic round, three rounds | 179 k | never pester, cap, finality of completion and of revocation, refinement of the workflow |
| `reminder_batch` | two requests, two overlapping runs at a time, a schedule of one reminder, one run that dies, one revocation or completion | 347 k | every email belongs to one committed or running claim or to a run that was rolled back; a closed request is reminded, and any request too soon, only by a run that was overtaken; a due reminder goes out in the end |
| `request_transactions` | two overlapping calls at a time, four in all, two columns, two proposals, cap of one round, one failure | 758 k | what survives any overlap (the row is coherent, revocation wins) and what only an overlap can break, the promise of `RequestWorkflow` included |
| `document_pipeline` | one document, two calls at a time, four in all, five contents, two proposals per extraction, one failure | 460 k | the bucket and the table differ only by what a rollback left; no proposal without its document; status and confidence are honest |
| `tenancy` | two accounts that may share an address, nine tokens, two companies, suppliers and products, one request, two calls at a time, eight in all | 49 k | rows never cross companies, onboarding once, requests cover their supplier's products |

`lifecycle_data` and `lifecycle_time` are two views of one module because the two
halves multiply: the first has proposals and conflicts and no clock to speak of,
the second has clock, reminders and rounds and no documents.

Properties named `...OnlyByOverlap`, `...OnlyStale` and `...UnlessOvertaken` have the form
"whenever the promise is broken, the call that broke it had read the request before
another call committed". `WorkflowLeftOnlyByOverlap` says it of the whole abstract
specification: a commit that is no step of `RequestWorkflow` was overlapped by another.
They say two things: run alone, the code keeps the promise from every
reachable state, also those that earlier overlaps left behind; and the kind of
call that can break it is known. That they are broken by overlaps is what the code
does: two accepts of the last two proposals leave a request open that is
complete, a save that overlaps the completion reopens it (so does
the second of two sends, if it commits late enough), two follow-ups both send a round, two reviewers both decide one proposal, two first
submissions both take the snapshot. `RevocationWins`, `RowIsCoherent`,
`ProposalsKeepTheirDocument`, `EvidenceIsHonest`, `ClaimsAreExclusive` and
`TenantsNeverMix` have no such exception.

What the bounds leave out. `MaxSuggestions`, `MaxEdits`, `MaxRounds`,
`MaxPending`, `MaxCalls`, `MaxFailures`, `MaxDeaths` and `MaxClosings` limit how much one
step or one run may do. Two components are what the link of a proposal can
tell apart (the request's only component or one of several); two pending proposals
are what a slot needs to have an agreeing and a disagreeing one; three rounds
are one more than the cap plus a repeat; two reminders reach the end of the schedule
with a round in between. Two overlapping calls are what a lost update, a write
skew or a stale guard needs, the calls after them look at what they left behind; a
third run of the job at the same time would wait for the same locks. Two requests are what
a lock cycle needs. One document suffices where every property is about one id. The
properties that are theorems (section 6) do not depend on any of this.

`summarize` disables the deadlock check because the loop ends, `request_transactions`,
`document_pipeline` and `tenancy` because the calls are used up. In the other
runs some call is always possible and deadlock is checked.

Every property of a passing run has a mutant: a plausible bug of one definition
(a dropped guard, `>` for `>=`, a flush of every column, a cascade or a unique
constraint that is missing) under which TLC finds the property violated. The
mutated forms stand right before the definitions they replace, marked `Mutation`.

## 4. Where the code departs from what it says

Four runs each check one sentence of a document or a comment, and TLC finds it
violated by what the code does. The sentences and their places are in
`PROJECT.json` under `findings`.

| Run | The sentence | What happens |
|---|---|---|
| `reachable` | manual follow-up "remains available, uncapped, at any time" | expired link, submitted, same fields missing, reminders used up: follow-up and resend are both refused |
| `reminder_once` | overlapping invocations "or a manual retry" never send one interval's reminder twice | a run that fails after an email loses the claim of that email; the retry sends it again |
| `double_send` | "solicitud enviada dos veces" cannot happen | two overlapping sends both read a draft and both email a link, one of them dead |
| `upload_stalls` | an upload takes "as long as that call" of the provider | its INSERT waits, on the event loop, for a lock whose owner commits on the event loop: neither ends |

Other differences follow from the definitions and have no run:

- A retry adds a pending copy of a proposal already decided (`process` never looks at
  the rows that exist), where `src/README.md:1328` says it "never re-asks a question a
  human already answered". The copy blocks completion until it is decided again.
- An accepted proposal is stored without the bounds of the payload schemas
  (`ApplyExtracted`): 250 per cent of recycled content is possible.
- A complete request may have a red product, and a product may be red of which the
  summary says nothing: the light asks for the pending proposals of the whole company
  (`api/v1/products.py:28`), the summary for those of its request, and a product may be in
  several requests. `LightTellsTheSummary` names this as the only way in which the two
  contradict each other.
- A component completed through the products API, or by an accept of another request
  (`OtherAccepts`), leaves a submitted request submitted (nothing re-evaluates it),
  though `reevaluate` is "called right after anything that could change completeness".
- An accept completes a request that was only sent, outside
  `DRAFT -> SENT -> OPENED -> IN_PROGRESS -> SUBMITTED -> COMPLETED` of `domain/enums.py:66`.
- `resend` revives a revoked link; its exception is documented to be raised "when there
  is no live token to act on".
- A reminder lists what is missing now, possibly nothing, where
  `services/reminder_service.py:7` says it "re-delivers the same content".
- A reminder may follow a new round at once: when the round commits after `_is_due` has
  asked and before the claim (`services/reminder_service.py:85`), the claim succeeds,
  since it compares the counter only, and the supplier gets two emails in a row. The
  interval of the schedule is since that round (`_last_outbound_at`).
- `src/README.md:893` says a request goes back from `submitted` to `in_progress` when a
  round is created; the code leaves the status and the supplier's next save changes it.
- The README says the thank-you email depends on the automatic toggle
  (`src/README.md:942`); `reevaluate` sends it always.
- Two onboardings of one user at once leave a company nobody belongs to; an
  address left behind by an old account locks its new account out
  (`models/user.py:20`); a product that moves to another supplier stays in the requests
  of the old one.

## 5. Fairness

The workflow has none: nothing in the code makes a company review a proposal or a
supplier open a link, so "every request completes" is not a property of the program.

The reminder job has: cron calls its endpoint again and again
(`api/v1/internal.py:30`), so `Select` of every run is weakly fair, and a transaction
that is under way goes on, waits only for locks and ends, so `RunStep` is. A run that
dies is nobody's duty; there are at most `MaxDeaths` of them, for with an unlimited
number the mail server could fail for ever and no reminder would be committed.
`DueIsReminded` holds under this fairness: the lock queues and the abort of one of two
deadlocked runs keep the job going.

In `UploadEventLoop` everything that can make progress does: loop, threads, database
and provider. The violation in `upload_stalls` is a cycle of waiting, not an
unfair schedule.

## 6. What is proved

All theorems hold for arbitrary sets of components, fields, values, documents,
rows, requests, calls and runs of the job, and arbitrary equality, validity and parsing
relations, schedules, expiries and caps. They use the `...Assumption` of their
module and nothing else. What these assume of the code: a request has finitely many
components and fields, "no value", "no component" and "no row" are none of the
values, components and rows, what `_apply` stores is a value, finitely many runs of the
reminder job are under way at a time, and no reminder is scheduled later than `LongestDelay`, where the age of the anchor stops counting.
In the modules of overlapping transactions the number of calls, failures and deaths
is a constant too, so the theorems are about any number of calls in any overlap.

`MissingInformation_proofs`
- `CompleteMeaning`, `MissingMeaning`: what the two answers say about the data,
  so that later proofs never expand the classification.

`Summarize_proofs`, inductive invariant `LoopInv`: the types, `TallyCountsVisited`,
and that the result, once there, is the roll-up of the final counters.
- `LoopTypeCorrect`, `CountersCount`, `LoopComputesTheDefinition`,
  `AnswersAreHonest`: by
  `ClassifyMeaning` (the if/elif chain puts a slot where the set definitions put
  it) a turn of the loop adds one slot to one counter; when the loops end a counter
  is positive exactly when its set is not empty, which is all the roll-up reads.

`ExtractionReview_proofs`, inductive invariant
`ReviewInv == ReviewTypeOK /\ LinksStayValid`. `LinksStayValid` needs the types
(the record that a review writes back) and nothing else.
- `ReviewTypeCorrect`, `LinksAreValid` from the invariant.
- `ProposalsKept`, `NothingOverwritten`, `EveryValueHasProvenance`,
  `LinksAreNotGuessed`: action properties, by the kinds of step (`StepKinds`):
  extraction, deletion, accept, reject, edit of columns alone. `AcceptMeaning` is the lemma
  that fixes what an accept does once for all of them.
- `LightIsHonest`, of `LightSpec`, in which other requests propose and decide for the
  components they share with this one: in every reachable state a product is red exactly
  when the summary has something of it to review or another request has a proposal for it
  pending; a complete request has no other red products, and no orange one but those
  without components; and where all are green nothing is missing or undecided but fields
  that the light does not look at and proposals of no component. `LightRefinesReview` says
  that other requests do to the tables only what `ReviewSpec` has them do. The light asks
  for any pending proposal of a component, the summary goes slot by slot; `PendingMeaning` and `UndecidedMeaning` say when the two
  questions are one, `LightOfProduct` folds the components.

`RequestLifecycle_proofs`, inductive invariant
`LifecycleInv == ReviewInv /\ TypeOK /\ DraftIsPrivate /\ NeverPester /\
AutomaticRoundsCapped /\ SnapshotIsFirst`.
- `LifecycleRefinesReview`: a lifecycle step is a review step or leaves the data
  alone. `ReviewInv` and the four action properties of the review are inherited
  through it (`LifecycleKeepsReviews`) and not proved again.
- `LifecycleTypeCorrect`, `DraftsArePrivate`, `SupplierIsNeverPestered`,
  `AutomaticLoopIsCapped`, `SnapshotIsTaken` from the invariant. `DraftIsPrivate`
  is in it because a reminder tests only that a link is not *revoked*: that an
  active request has a link at all is what the draft property says.
  `ReevaluateOutcomes` (complete, or a round below the cap, or neither) carries the
  calls that re-evaluate; it rests on `MissingMeaning`, by which completion and
  a follow-up exclude each other.
- `CompletionEarned`: needs `LinksStayValid` after the step, since the summary
  sees only proposals of the request's components or of none, and
  `CompleteMeaning`.
- `CompletionFinal`, `RevocationHolds`, `SnapshotKeptForever`.
- `LifecycleRefinesWorkflow`: the refinement, step by step. A round is an `Ask`
  (`RoundIsAnAsk`), a reminder is a stutter because its link is live already.

`Tenancy_proofs`, inductive invariant
`TenancyInv == TypeOK /\ TenantsNeverMix /\ OnboardedOnce /\ CallsAreSound`. The tables
alone are not inductive: a commit writes what was checked earlier. `CallSound` says
what of the check still holds at the commit (the company of a supplier or product
never changes, and the row is not there yet), `PairSound` what two calls cannot both
be about to insert.
- `TenancyTypeCorrect`, `NoTenantMixing`, `OneCompanyPerFounder` from the invariant;
  `RequestsCoverTheirSupplier` with one more, that what a request was checked against
  is still so unless its session was marked `moved`.

`DocumentPipeline_proofs`, inductive invariant
`PipelineInv == TypeOK /\ SessionsAreSound`: what every session still owns of its
document (`SessionSound`), that no two sessions hold the row's lock or an upload's id
(`PairSound`), that nothing exists before its upload (`FileSound`), and that a proposal
is honest, has its document and comes from a call that has ended (`ProposalSound`).
- `PipelineTypeCorrect`, `ProposalsNeverDangle`, `EvidenceStaysHonest` from it.
- `StoresAgree`, `StatusIsTrue`, `BookkeepingIsRight`, each by an invariant of its own on
  top of `PipelineInv`.

`ReminderBatch_proofs`, inductive invariant
`JobInv == BatchInv /\ QueuesAreSound`, where `BatchInv == TablesAndRunsTyped /\
RunsAreSound /\ ClaimsAreExclusive /\ EmailsAreAccounted`. `RunsAreSound` is what makes it
inductive: a request is selected, found due or claimed, never two of these, and what is
found due has a slot left. A claim needs a row that nobody holds, whoever waits for it,
so `BatchInv` is inductive without the queues; `QueuesAreSound` adds that the queue of a
row holds exactly the runs that wait for it, each once (`WithoutMeaning` is the lemma
about leaving a queue).
- `BatchTypeCorrect`, `ClaimsExclude`, `EmailsAccountedFor` from it, and
  `SlotsCommittedInOrder`: the counter of a request moves by one slot, when an email of
  that slot is out.
- `QuietButForTheOvertaken`, with `SelectionsAreSound`: a request that is selected and not
  done with is open and not revoked, and one that was found due still is, or the
  selection is marked stale.
- `JobNeverStuck`: while runs are under way, one of them has a step, with any finite number
  of runs on any number of rows. If nobody could move, every run would wait for a row
  that another waiting run holds; the smallest set of runs that waits for itself is then a
  cycle (`WaitingRunsMeetInACycle`), which the database breaks.

`RequestTransactions_proofs`, inductive invariant `TransactionsInv`: the types,
`Coherent` of the committed row, and `SessionSound` of every open session: what it has
loaded was coherent, only a send has loaded a draft, its token was emailed, it revives
a link or leaves a completed status only if its kind may. `CommitLeavesCoherence` is the
core: such a session may be laid over any coherent row that is no older.
- `TransactionsTypeCorrect`, `RowStaysCoherent`, `RevocationOutlastsCalls`,
  `ReopenedOnlyByStaleCalls`.
- `CompletionMissedByOverlap`, `DecisionsReplacedByOverlap` with a
  second invariant, `OverlapInv`: a session that no commit has overlapped has loaded what
  is committed, and what it decided is right about what it will leave (`UpToDate`). It
  is kept because a commit marks every other open session as overlapped.
- `WorkflowLeftByOverlap` with a third, `MovesAreSound`: whoever overlaps it, a session
  takes the work from the row that it has *loaded* to the row it will leave by a step of
  `RequestWorkflow`, and a round only from open work with a live link. A session that
  nobody overlapped has loaded what is committed, so its commit is that step
  (`CommitIsAWorkflowStep`). That a supplier is not asked the same thing twice in a row
  is a guard on the rounds, which `UpToDate` has.
- `SerialCallsImplementWorkflow`: a request that starts as a draft and whose calls
  never overlap implements `RequestWorkflow`. The hypothesis is about the behaviour, not
  about the constants: any number of calls, each of which commits before the next reads.

The proof of `ReopenedOnlyByStaleCalls` is what put `send` into the property: with two
slots the bounds of `request_transactions` do not reach a completion that a second send
of the draft overlaps; with one slot and one proposal they do.

## 7. What is only model-checked

`DueIsReminded`, a liveness property, since liveness and `ENABLED` are out of the
prover's reach. What `JobNeverStuck` proves of it is that the row locks never stop the job;
that the fair scheduler then gets to the slot is TLC's. The runs of section 4 exhibit a
behaviour and prove nothing. That every action can happen, and that each property can
be broken by a bug, is also known from TLC only.

`SnapshotIsFirst`, `SnapshotIsKept`, `DraftIsPrivate`, `TallyCountsVisited`, `JobGoesOn`,
`SlotsGoInOrder` and `SerialCallsImplementWorkflow` are theorems that no run checks; they are
parts of the inductive invariants, follow from them, or have a run of the property they
rest on.

## 8. What is not modelled, and why

- Overlap everywhere at once. A property of several calls at a time is stated in the
  module of the tables it is about: reviews and rounds in `RequestTransactions`, files
  in `DocumentPipeline`, the job in `ReminderBatch`. In the last one the calls of
  users commit in one step, and in the first one the job and the automatic toggle do
  not occur; the request's link is the latest emailed one.
- In `RequestTransactions` a call locks all the rows of a flush in one step. An accept
  and a save that lock component and request in opposite order can deadlock in the
  database, which aborts one of them: to the model a `Fail`.
- Failures of the mail server are failures of the call (`Fail`, `Die`); a message that is
  accepted and lost later is not modelled, nor is one sent twice by the provider.
- Several requests in one lifecycle. Components belong to products and a product may
  be in several requests. Seen from one request, the others' accepts write stored
  values into the shared components at any time (`AcceptElsewhere`), their suppliers'
  saves are edits of some of the columns a company may edit (`UpdateComponent`), and their
  pending proposals, which only the light reads, are the set `elsewhere` of
  `TrafficLight`. In `RequestTransactions` the columns are written by the calls on the
  request alone.
- The age of the link in `RequestTransactions`; it is in `RequestLifecycle`.
- The decision on the reviewer's screen: `use_extracted` is sent for a conflict the
  reviewer saw, which may have changed. The model lets the resolution come at any
  time, so the properties hold in that case too, for what the code compares.
- Names, countries and addresses of companies, suppliers and products, and the
  updates of them; removal of users and companies (the API has none).
- Texts of emails, audit rows (but the one for human attention), `recovery_stats`, rate
  limits, cryptography, the parsing of file formats, the provider's answers (any
  answer of the schema is possible), the price list, the front ends, migrations.

## 9. Plan

1. Refinement: a run of `ReminderBatch` that overlaps nothing and does not die is a
   sequence of `Remind` of `RequestLifecycle`.
2. The calls of `ExtractionReview` on documents as the serial case of `DocumentPipeline`.
