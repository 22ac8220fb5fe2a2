--------------------------- MODULE ReminderBatch ---------------------------
(***************************************************************************)
(* The reminder job over several requests, as the steps its transaction    *)
(* takes (app/services/reminder_service.py, process_due_reminders).        *)
(*                                                                         *)
(* Cron calls POST /internal/jobs/process-reminders, which selects its     *)
(* candidates once and then claims, re-mints and emails them one by one,   *)
(* all in one READ COMMITTED transaction that commits at the end           *)
(* (app/api/deps.py, get_db).  A claim is an UPDATE guarded by the counter *)
(* the job selected; PostgreSQL makes it wait for the row lock of an       *)
(* overlapping run and then tests the guard on what that run committed.    *)
(* An email cannot be taken back: a run that dies loses its claims, not    *)
(* the emails it sent.                                                     *)
(*                                                                         *)
(* Module RequestLifecycle has the same job as one atomic step on one      *)
(* request (Remind).  Here a request is what the job reads of it.  The     *)
(* calls of users that change this commit in one step, and only while no   *)
(* run holds the row; which of the active statuses a request has, and that *)
(* a submitted one cannot be resent, is left out.                          *)
(***************************************************************************)
EXTENDS Integers, FiniteSets, SequencesExt

CONSTANTS
    Requests,
    Runs,         \* cron invocations (and manual retries) that may overlap
    Nobody,       \* the request an idle run works on
    Schedule,     \* reminder_schedule_days
    LongestDelay, \* days after which an anchor gets no older
    MaxDeaths,    \* bound: runs that die
    MaxClosings   \* bound: revocations and completions

ASSUME ReminderBatchAssumption ==
    /\ IsFiniteSet(Runs)
    /\ Nobody \notin Requests
    /\ Schedule \in Seq(Nat)
    /\ LongestDelay \in Nat
    /\ \A i \in DOMAIN Schedule : Schedule[i] <= LongestDelay
    /\ MaxDeaths \in Nat
    /\ MaxClosings \in Nat

VARIABLES
    active,   \* status is one of _ACTIVE_STATUSES, committed
    revoked,  \* token_revoked_at is not null, committed
    count,    \* reminder_count, committed
    age,      \* days since the request's last outbound email but reminders
    run,      \* the transaction of every run
    queue,    \* queue[r]: runs that wait for the row, the longest first
    mailed,   \* mailed[r][i]: emails sent for slot i of the schedule
    lost,     \* lost[r][i]: those of them whose run was rolled back
    deaths,   \* runs that died so far
    closings  \* revocations and completions so far

requestVars == <<active, revoked, count, age>>
mailVars == <<mailed, lost>>
vars == <<requestVars, run, queue, mailVars, deaths, closings>>

Slot == DOMAIN Schedule

\* An idle run; what it selected and claimed is cleared.
Idle == [pc |-> "idle", todo |-> {}, at |-> Nobody, claimed |-> {}, stale |-> {},
         seen |-> [r \in Requests |-> 0]]

RunStates == [pc      : {"idle", "loop", "due", "wait"},
              todo    : SUBSET Requests,            \* selected, not examined yet
              at      : Requests \cup {Nobody},     \* found due, about to be claimed
              claimed : SUBSET Requests,            \* rows updated, hence locked, and mailed
              stale   : SUBSET Requests,            \* closed or revoked since selected,
                                                    \* or asked anew since found due
              seen    : [Requests -> 0..Len(Schedule)]] \* reminder_count as selected

TypeOK ==
    /\ active \in [Requests -> BOOLEAN]
    /\ revoked \in [Requests -> BOOLEAN]
    /\ count \in [Requests -> 0..Len(Schedule)]
    /\ age \in [Requests -> 0..LongestDelay]
    /\ run \in [Runs -> RunStates]
    /\ queue \in [Requests -> Seq(Runs)]
    /\ mailed \in [Requests -> [Slot -> Nat]]
    /\ lost \in [Requests -> [Slot -> Nat]]
    /\ deaths \in 0..MaxDeaths
    /\ closings \in 0..MaxClosings

\* Requests that have just been sent.
Init ==
    /\ active = [r \in Requests |-> TRUE]
    /\ revoked = [r \in Requests |-> FALSE]
    /\ count = [r \in Requests |-> 0]
    /\ age = [r \in Requests |-> 0]
    /\ run = [w \in Runs |-> Idle]
    /\ queue = [r \in Requests |-> <<>>]
    /\ mailed = [r \in Requests |-> [i \in Slot |-> 0]]
    /\ lost = [r \in Requests |-> [i \in Slot |-> 0]]
    /\ deaths = 0
    /\ closings = 0

Locked(r) == \E w \in Runs : r \in run[w].claimed

\* Nobody holds the row or queues for it.
Free(r) == ~Locked(r) /\ queue[r] = <<>>

\* The queue q without w, which waits in it at most once.
Without(q, w) ==
    IF Contains(q, w)
    THEN RemoveAt(q, CHOOSE i \in DOMAIN q : q[i] = w)
    ELSE q
-----------------------------------------------------------------------------
(* A run of the job *)

\* Mutation: revoked requests are selected too.
CandidatesRevoked == {r \in Requests : active[r]}

\* _candidates
Candidates == {r \in Requests : active[r] /\ ~revoked[r]}

Select(w) ==
    /\ run[w].pc = "idle"
    /\ Candidates # {}
    /\ run' = [run EXCEPT ![w] = [Idle EXCEPT !.pc = "loop", !.todo = Candidates,
                 !.seen = [r \in Requests |-> IF r \in Candidates THEN count[r] ELSE 0]]]
    /\ UNCHANGED <<requestVars, queue, mailVars, deaths, closings>>

\* Mutation: the last interval is repeated for ever.
IsDueForEver(r, seen) ==
    age[r] >= Schedule[IF seen < Len(Schedule) THEN seen + 1 ELSE Len(Schedule)]

\* _is_due: the counter as selected, the latest round as committed now.
IsDue(r, seen) == seen < Len(Schedule) /\ age[r] >= Schedule[seen + 1]

\* The loop goes on after r, which was not claimed.
Passed(w, r) ==
    run' = [run EXCEPT ![w].pc = "loop", ![w].todo = @ \ {r}, ![w].at = Nobody,
                       ![w].stale = @ \ {r}, ![w].seen[r] = 0]

\* send_reminder: _mint_token looks at neither status nor revocation.
Remind(w, r) ==
    /\ run' = [run EXCEPT ![w].pc = "loop", ![w].todo = @ \ {r}, ![w].at = Nobody,
                          ![w].claimed = @ \cup {r}]
    /\ mailed' = [mailed EXCEPT ![r][run[w].seen[r] + 1] = @ + 1]

\* Mutation: the UPDATE is not guarded by the counter.
ClaimUnguarded(w, r) == Remind(w, r)

\* UPDATE ... WHERE reminder_count = seen, once nobody else holds the row.  An
\* email that fails ends the run, see Die.
Claim(w, r) ==
    IF count[r] = run[w].seen[r]
    THEN Remind(w, r)
    ELSE Passed(w, r) /\ UNCHANGED mailed

\* The loop reaches r: the candidates come in no particular order.
Examine(w, r) ==
    /\ run[w].pc = "loop"
    /\ r \in run[w].todo
    /\ IF IsDue(r, run[w].seen[r])
       THEN run' = [run EXCEPT ![w].pc = "due", ![w].todo = @ \ {r}, ![w].at = r]
       ELSE Passed(w, r)
    /\ UNCHANGED <<requestVars, queue, mailVars, deaths, closings>>

WaitForLock(w, r) ==
    /\ run' = [run EXCEPT ![w].pc = "wait"]
    /\ queue' = [queue EXCEPT ![r] = Append(@, w)]
    /\ UNCHANGED mailed

\* The UPDATE is sent: nothing was locked since the request was found due.
Update(w) ==
    /\ run[w].pc = "due"
    /\ \/ ~Free(run[w].at) /\ WaitForLock(w, run[w].at)
       \/ Free(run[w].at) /\ Claim(w, run[w].at) /\ UNCHANGED queue
    /\ UNCHANGED <<requestVars, lost, deaths, closings>>

\* The holder of the row has committed or is rolled back, and it is w's turn.
Resume(w) ==
    /\ run[w].pc = "wait"
    /\ ~Locked(run[w].at)
    /\ Head(queue[run[w].at]) = w
    /\ Claim(w, run[w].at)
    /\ queue' = [queue EXCEPT ![run[w].at] = Tail(@)]
    /\ UNCHANGED <<requestVars, lost, deaths, closings>>

\* get_db: everything claimed is committed, with the fresh token and no
\* revocation.
Commit(w) ==
    /\ run[w].pc = "loop"
    /\ run[w].todo = {}
    /\ count' = [r \in Requests |-> IF r \in run[w].claimed THEN run[w].seen[r] + 1 ELSE count[r]]
    /\ revoked' = [r \in Requests |-> revoked[r] /\ r \notin run[w].claimed]
    /\ run' = [run EXCEPT ![w] = Idle]
    /\ UNCHANGED <<active, age, queue, mailVars, deaths, closings>>

\* Mutation: the session of a call that raised is neither rolled back nor closed.
RollbackForgotten(w) ==
    /\ run' = [run EXCEPT ![w].pc = "raised", ![w].at = Nobody]
    /\ queue' = [r \in Requests |-> Without(queue[r], w)]
    /\ UNCHANGED <<requestVars, mailVars>>

\* The transaction ends without its changes; emails that are out stay out.
Rollback(w) ==
    /\ lost' = [r \in Requests |-> [i \in Slot |->
                   IF r \in run[w].claimed /\ i = run[w].seen[r] + 1
                   THEN lost[r][i] + 1 ELSE lost[r][i]]]
    /\ run' = [run EXCEPT ![w] = Idle]
    /\ queue' = [r \in Requests |-> Without(queue[r], w)]
    /\ UNCHANGED <<requestVars, mailed>>

\* The mail server refuses the next message (any exception leaves the loop),
\* or the process stops.
Die(w) ==
    /\ run[w].pc # "idle"
    /\ deaths < MaxDeaths
    /\ deaths' = deaths + 1
    /\ Rollback(w)
    /\ UNCHANGED closings

WaitsFor(w, v) == run[w].pc = "wait" /\ run[w].at \in run[v].claimed

\* w is on a cycle of runs that wait for each other's rows: each of them waits
\* for one of them and one of them waits for it.
OnCycle(w) ==
    \E cycle \in SUBSET Runs :
        /\ w \in cycle
        /\ \A v \in cycle : (\E u \in cycle : WaitsFor(v, u)) /\ (\E u \in cycle : WaitsFor(u, v))

\* Runs met each other's rows in opposite order: PostgreSQL aborts one.
BreakDeadlock(w) ==
    /\ OnCycle(w)
    /\ Rollback(w)
    /\ UNCHANGED <<deaths, closings>>
-----------------------------------------------------------------------------
(* What users and the clock do meanwhile *)

\* Runs that have r selected and not done with it.
NotDone(r) == {w \in Runs : r \in run[w].todo \/ run[w].at = r}

Overtaken(r, runs) ==
    run' = [w \in Runs |-> IF w \in runs THEN [run[w] EXCEPT !.stale = @ \cup {r}]
                                         ELSE run[w]]

Closing(r) ==
    /\ closings < MaxClosings
    /\ closings' = closings + 1
    /\ Overtaken(r, NotDone(r))

Revoke(r) ==
    /\ Free(r)
    /\ ~revoked[r]
    /\ revoked' = [revoked EXCEPT ![r] = TRUE]
    /\ Closing(r)
    /\ UNCHANGED <<active, count, age, queue, mailVars, deaths>>

Complete(r) ==
    /\ Free(r)
    /\ active[r]
    /\ active' = [active EXCEPT ![r] = FALSE]
    /\ Closing(r)
    /\ UNCHANGED <<revoked, count, age, queue, mailVars, deaths>>

Resend(r) ==
    /\ Free(r)
    /\ active[r]
    /\ revoked' = [revoked EXCEPT ![r] = FALSE]
    /\ UNCHANGED <<active, count, age, run, queue, mailVars, deaths, closings>>

\* A new round is the new anchor.
FollowUp(r) ==
    /\ Free(r)
    /\ active[r]
    /\ ~revoked[r]
    /\ age' = [age EXCEPT ![r] = 0]
    /\ Overtaken(r, {w \in Runs : run[w].at = r})
    /\ UNCHANGED <<active, revoked, count, queue, mailVars, deaths, closings>>

\* A day passes.
Tick ==
    /\ age' = [r \in Requests |-> IF age[r] < LongestDelay THEN age[r] + 1 ELSE age[r]]
    /\ UNCHANGED <<active, revoked, count, run, queue, mailVars, deaths, closings>>
-----------------------------------------------------------------------------
RunStep(w) ==
    \/ \E r \in Requests : Examine(w, r)
    \/ Update(w) \/ Resume(w) \/ Commit(w) \/ BreakDeadlock(w)

Next ==
    \/ \E w \in Runs : Select(w) \/ RunStep(w) \/ Die(w)
    \/ \E r \in Requests : Revoke(r) \/ Complete(r) \/ Resend(r) \/ FollowUp(r)
    \/ Tick

Spec == Init /\ [][Next]_vars

\* Cron keeps calling the endpoint and a call that runs goes on running.
\* Nothing is fair about users, the clock, or a run that dies.
Fairness == \A w \in Runs : WF_vars(Select(w)) /\ WF_vars(RunStep(w))

FairSpec == Spec /\ Fairness
-----------------------------------------------------------------------------
(* Properties *)

InFlight(r, i) == \E w \in Runs : r \in run[w].claimed /\ run[w].seen[r] + 1 = i

\* reminder_service docs, "can never send the same interval's reminder twice",
\* as far as it is true: every email of a slot belongs to the one run that
\* committed the slot, or to the one run that has it claimed, or was sent by a
\* run that was rolled back.  However runs overlap and die, no two of them
\* commit the same slot, and no slot is committed whose email did not go out.
EmailsAreAccounted ==
    \A r \in Requests : \A i \in Slot :
        mailed[r][i] = lost[r][i] + (IF i <= count[r] \/ InFlight(r, i) THEN 1 ELSE 0)

\* A run claims a row for as long as it is in its transaction, alone, and what
\* it claimed is still the slot it selected; slots go out in order.
ClaimsAreExclusive ==
    \A w \in Runs : \A r \in run[w].claimed :
        /\ run[w].seen[r] = count[r]
        /\ \A v \in Runs \ {w} : r \notin run[v].claimed

MailsClosed(r) == mailed'[r] # mailed[r] /\ (~active[r] \/ revoked[r])

MailsEarly(r) == \E i \in Slot : mailed'[r][i] # mailed[r][i] /\ age[r] < Schedule[i]

Revives(r) == revoked[r] /\ ~revoked'[r] /\ count'[r] # count[r]

\* A completed or revoked request is reminded, and its revocation undone, only
\* by a run that had selected it before; a reminder goes out before its interval
\* since the latest round is over only if the run had found it due before that
\* round.  What is committed while no run is under way is respected by every
\* later run.
QuietUnlessOvertaken ==
    [][\A r \in Requests : MailsClosed(r) \/ MailsEarly(r) \/ Revives(r) =>
          \E w \in Runs : r \in run[w].stale]_vars

Waiting(r) ==
    /\ active[r] /\ ~revoked[r]
    /\ count[r] < Len(Schedule)
    /\ age[r] >= Schedule[count[r] + 1]

\* The README's promise that silence is followed by a reminder: a slot that is
\* due is committed in the end, unless the request is closed, revoked or asked
\* anew first; overlapping runs, deadlocks between them and runs that die (up
\* to MaxDeaths times) delay it only.
DueIsReminded ==
    \A r \in Requests : \A i \in Slot :
        (Waiting(r) /\ count[r] + 1 = i) ~> (count[r] >= i \/ ~Waiting(r))

\* What RunStep(w) needs: the loop goes on or commits, a lock falls to the
\* first run in its queue, a cycle is broken.
CanMove(w) ==
    \/ run[w].pc \in {"loop", "due"}
    \/ run[w].pc = "wait" /\ ~Locked(run[w].at) /\ Head(queue[run[w].at]) = w
    \/ OnCycle(w)

\* The row locks never stop the job: while runs are under way, one of them
\* has a step, with any number of runs on any number of rows.
JobGoesOn == (\E w \in Runs : run[w].pc # "idle") => \E w \in Runs : CanMove(w)

\* reminder_service.py:19-24: two overlapping invocations, or a manual retry,
\* can never send the same interval's reminder twice.
SentOncePerSlot == \A r \in Requests : \A i \in Slot : mailed[r][i] <= 1
=============================================================================
