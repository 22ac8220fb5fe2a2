------------------------ MODULE ReminderBatch_proofs ------------------------
(***************************************************************************)
(* Proofs about the reminder job: however runs overlap, wait for each      *)
(* other and die, a row is claimed by one of them only, every email of a   *)
(* slot is accounted for, and the job never comes to a stop.               *)
(*                                                                         *)
(* The queues of the row locks do not matter for the claims and are not in *)
(* BatchInv: a claim needs a row that nobody holds, whoever waits for it.  *)
(* JobInv adds them, for the types and for the progress of the job.        *)
(***************************************************************************)
EXTENDS ReminderBatch, FiniteSetTheorems, SequenceTheorems, WellFoundedInduction, TLAPS

\* Every variable but queue has its type.
TablesAndRunsTyped ==
    /\ active \in [Requests -> BOOLEAN]
    /\ revoked \in [Requests -> BOOLEAN]
    /\ count \in [Requests -> 0..Len(Schedule)]
    /\ age \in [Requests -> 0..LongestDelay]
    /\ run \in [Runs -> RunStates]
    /\ mailed \in [Requests -> [Slot -> Nat]]
    /\ lost \in [Requests -> [Slot -> Nat]]
    /\ deaths \in 0..MaxDeaths
    /\ closings \in 0..MaxClosings

\* A request is selected, found due or claimed, never two of them; what is
\* found due or claimed has a slot left; an idle run has claimed nothing.
RunSound(w) ==
    /\ run[w].pc = "idle" => run[w].claimed = {} /\ run[w].todo = {}
    /\ run[w].pc \notin {"due", "wait"} => run[w].at = Nobody
    /\ run[w].pc \in {"due", "wait"} =>
          run[w].at \in Requests /\ run[w].seen[run[w].at] < Len(Schedule)
    /\ \A r \in run[w].claimed :
          r \notin run[w].todo /\ r # run[w].at /\ run[w].seen[r] < Len(Schedule)
    /\ run[w].at \notin run[w].todo

RunsAreSound == \A w \in Runs : RunSound(w)

BatchInv ==
    /\ TablesAndRunsTyped
    /\ RunsAreSound
    /\ ClaimsAreExclusive
    /\ EmailsAreAccounted

LEMMA ScheduleFacts ==
    /\ Nobody \notin Requests
    /\ Len(Schedule) \in Nat
    /\ Slot = 1..Len(Schedule)
    /\ LongestDelay \in Nat /\ MaxDeaths \in Nat /\ MaxClosings \in Nat
BY ReminderBatchAssumption DEF ReminderBatchAssumption, Slot

(* Initially nothing was selected, claimed or sent. *)
LEMMA InitEstablishes == Init => BatchInv
<1> SUFFICES ASSUME Init PROVE BatchInv OBVIOUS
<1>1. Idle \in RunStates
  BY ScheduleFacts DEF Idle, RunStates
<1>2. TablesAndRunsTyped
  BY <1>1, ScheduleFacts DEF Init, TablesAndRunsTyped
<1>3. RunsAreSound
  BY ScheduleFacts DEF Init, RunsAreSound, RunSound, Idle
<1>4. ClaimsAreExclusive
  BY DEF Init, ClaimsAreExclusive, Idle
<1>5. EmailsAreAccounted
  BY ScheduleFacts DEF Init, EmailsAreAccounted, InFlight, Idle
<1> QED BY <1>2, <1>3, <1>4, <1>5 DEF BatchInv

(* The types of one run, field by field. *)
LEMMA RunFields ==
    ASSUME TablesAndRunsTyped, NEW w \in Runs
    PROVE  /\ run[w] \in RunStates
           /\ run[w].todo \subseteq Requests
           /\ run[w].at \in Requests \cup {Nobody}
           /\ run[w].claimed \subseteq Requests
           /\ run[w].stale \subseteq Requests
           /\ run[w].seen \in [Requests -> 0..Len(Schedule)]
BY DEF TablesAndRunsTyped, RunStates

(* A step that leaves counters, mails and claims alone keeps every email    *)
(* accounted for: what is in flight depends on claimed and seen only.       *)
LEMMA SameClaims ==
    ASSUME BatchInv, count' = count, mailed' = mailed, lost' = lost,
           \A w \in Runs : run'[w].claimed = run[w].claimed,
           \A w \in Runs : \A r \in run[w].claimed : run'[w].seen[r] = run[w].seen[r]
    PROVE  ClaimsAreExclusive' /\ EmailsAreAccounted'
<1>1. ClaimsAreExclusive'
  BY DEF BatchInv, ClaimsAreExclusive
<1>2. ASSUME NEW r \in Requests, NEW i \in Slot PROVE InFlight(r, i)' <=> InFlight(r, i)
  BY DEF InFlight
<1>3. EmailsAreAccounted'
  BY <1>2 DEF BatchInv, EmailsAreAccounted
<1> QED BY <1>1, <1>3

(* A request that is passed by, because it is not due or another run has    *)
(* got there first, leaves the run and changes nothing else.                *)
LEMMA PassedKeeps ==
    ASSUME BatchInv, NEW w \in Runs, NEW r \in Requests,
           (run[w].pc = "loop" /\ r \in run[w].todo) \/ run[w].at = r,
           Passed(w, r),
           requestVars' = requestVars, mailed' = mailed, lost' = lost,
           deaths' = deaths, closings' = closings
    PROVE  BatchInv'
<1> USE DEF BatchInv
<1>1. /\ run[w] \in RunStates /\ run[w].seen \in [Requests -> 0..Len(Schedule)]
      /\ run \in [Runs -> RunStates]
  BY RunFields DEF TablesAndRunsTyped
<1>2. r \notin run[w].claimed
  BY DEF RunsAreSound, RunSound
<1>3. /\ run'[w].pc = "loop" /\ run'[w].todo = run[w].todo \ {r} /\ run'[w].at = Nobody
      /\ run'[w].stale = run[w].stale \ {r} /\ run'[w].claimed = run[w].claimed
      /\ run'[w].seen = [run[w].seen EXCEPT ![r] = 0]
      /\ run'[w] \in RunStates
  <2>1. /\ run'[w].pc = "loop" /\ run'[w].todo = run[w].todo \ {r} /\ run'[w].at = Nobody
        /\ run'[w].stale = run[w].stale \ {r} /\ run'[w].claimed = run[w].claimed
        /\ run'[w].seen = [run[w].seen EXCEPT ![r] = 0]
    BY <1>1 DEF Passed, RunStates
  <2>2. run'[w] = [pc |-> run'[w].pc, todo |-> run'[w].todo, at |-> run'[w].at,
                   claimed |-> run'[w].claimed, stale |-> run'[w].stale, seen |-> run'[w].seen]
    BY <1>1 DEF Passed, RunStates
  <2>3. run'[w].seen \in [Requests -> 0..Len(Schedule)]
    BY <1>1, <2>1, ScheduleFacts
  <2> QED BY <2>1, <2>2, <2>3, RunFields, ScheduleFacts DEF RunStates
<1>4. \A v \in Runs \ {w} : run'[v] = run[v]
  BY <1>1 DEF Passed
<1>5. TablesAndRunsTyped'
  <2>1. run' \in [Runs -> RunStates]
    BY <1>1, <1>3, <1>4 DEF Passed
  <2> QED BY <2>1 DEF TablesAndRunsTyped, requestVars
<1>6. \A q \in run[w].claimed : run'[w].seen[q] = run[w].seen[q]
  BY <1>2, <1>3, RunFields
<1>7. RunSound(w)'
  BY <1>2, <1>3, <1>6, RunFields, ScheduleFacts DEF RunsAreSound, RunSound
<1>8. RunsAreSound'
  BY <1>4, <1>7 DEF RunsAreSound, RunSound
<1>9. ClaimsAreExclusive' /\ EmailsAreAccounted'
  BY <1>3, <1>4, <1>6, SameClaims DEF requestVars
<1> QED BY <1>5, <1>8, <1>9

(* A claim of a row that nobody holds, with its email: the email is the     *)
(* first of its slot that was not rolled back.                              *)
LEMMA RemindKeeps ==
    ASSUME BatchInv, NEW w \in Runs, NEW r \in Requests,
           run[w].at = r, ~Locked(r), run[w].seen[r] < Len(Schedule), count[r] = run[w].seen[r],
           Remind(w, r),
           requestVars' = requestVars, lost' = lost, deaths' = deaths, closings' = closings
    PROVE  BatchInv'
<1> USE DEF BatchInv
<1> DEFINE s == run[w].seen[r] + 1
<1>1. run' = [run EXCEPT ![w] = [run[w] EXCEPT !.pc = "loop", !.todo = run[w].todo \ {r},
                 !.at = Nobody, !.claimed = run[w].claimed \cup {r}]]
  BY DEF Remind
<1>2. mailed' = [mailed EXCEPT ![r] = [mailed[r] EXCEPT ![s] = mailed[r][s] + 1]]
  BY DEF Remind
<1>3. \A v \in Runs : r \notin run[v].claimed
  BY DEF Locked
<1>4. /\ run'[w].pc = "loop" /\ run'[w].todo = run[w].todo \ {r} /\ run'[w].at = Nobody
      /\ run'[w].claimed = run[w].claimed \cup {r} /\ run'[w].seen = run[w].seen
      /\ run'[w] \in RunStates
  <2>1. run[w] \in RunStates /\ run \in [Runs -> RunStates]
    BY DEF TablesAndRunsTyped
  <2>2. run'[w] = [run[w] EXCEPT !.pc = "loop", !.todo = run[w].todo \ {r},
                     !.at = Nobody, !.claimed = run[w].claimed \cup {r}]
    BY <1>1, <2>1
  <2>3. /\ run'[w].pc = "loop" /\ run'[w].todo = run[w].todo \ {r} /\ run'[w].at = Nobody
        /\ run'[w].claimed = run[w].claimed \cup {r} /\ run'[w].seen = run[w].seen
        /\ run'[w].stale = run[w].stale
    BY <2>1, <2>2 DEF RunStates
  <2>4. run'[w] = [pc |-> run'[w].pc, todo |-> run'[w].todo, at |-> run'[w].at,
                   claimed |-> run'[w].claimed, stale |-> run'[w].stale, seen |-> run'[w].seen]
    BY <2>1, <2>2 DEF RunStates
  <2> QED BY <2>3, <2>4, RunFields DEF RunStates
<1>5. \A v \in Runs \ {w} : run'[v] = run[v]
  BY <1>1 DEF TablesAndRunsTyped
<1>6. s \in Slot /\ s = count[r] + 1
  BY RunFields, ScheduleFacts
<1>7. TablesAndRunsTyped'
  <2>1. run' \in [Runs -> RunStates]
    BY <1>1, <1>4 DEF TablesAndRunsTyped
  <2>2. mailed' \in [Requests -> [Slot -> Nat]]
    BY <1>2, <1>6 DEF TablesAndRunsTyped
  <2> QED BY <2>1, <2>2 DEF TablesAndRunsTyped, requestVars
<1>8. RunSound(w)'
  BY <1>4, RunFields, ScheduleFacts DEF RunsAreSound, RunSound
<1>9. RunsAreSound'
  BY <1>5, <1>8 DEF RunsAreSound, RunSound
<1>10. ClaimsAreExclusive'
  BY <1>3, <1>4, <1>5 DEF ClaimsAreExclusive, requestVars
<1>11. EmailsAreAccounted'
  <2> SUFFICES ASSUME NEW q \in Requests, NEW i \in Slot
               PROVE  mailed'[q][i] = lost[q][i]
                        + (IF i <= count[q] \/ InFlight(q, i)' THEN 1 ELSE 0)
    BY DEF EmailsAreAccounted, requestVars
  <2>1. mailed[q][i] = lost[q][i] + (IF i <= count[q] \/ InFlight(q, i) THEN 1 ELSE 0)
    BY DEF EmailsAreAccounted
  <2>2. CASE q = r /\ i = s
    <3>1. ~InFlight(q, i)
      BY <1>3, <2>2 DEF InFlight
    <3>2. InFlight(q, i)'
      BY <1>4, <2>2 DEF InFlight
    <3>3. mailed'[q][i] = mailed[q][i] + 1
      BY <1>2, <1>6, <2>2 DEF TablesAndRunsTyped
    <3>4. ~(i <= count[q]) /\ lost[q][i] \in Nat
      BY <1>6, <2>2, ScheduleFacts DEF TablesAndRunsTyped
    <3> QED BY <2>1, <3>1, <3>2, <3>3, <3>4
  <2>3. CASE ~(q = r /\ i = s)
    <3>1. mailed'[q][i] = mailed[q][i]
      BY <1>2, <1>6, <2>3 DEF TablesAndRunsTyped
    <3>2. InFlight(q, i)' <=> InFlight(q, i)
      BY <1>4, <1>5, <2>3 DEF InFlight
    <3> QED BY <2>1, <3>1, <3>2
  <2> QED BY <2>2, <2>3
<1> QED BY <1>7, <1>9, <1>10, <1>11

(* The guarded UPDATE: claimed if the counter is still the selected one,    *)
(* passed by otherwise.                                                     *)
LEMMA ClaimKeeps ==
    ASSUME BatchInv, NEW w \in Runs, NEW r \in Requests,
           run[w].at = r, ~Locked(r), run[w].seen[r] < Len(Schedule), Claim(w, r),
           requestVars' = requestVars, lost' = lost, deaths' = deaths, closings' = closings
    PROVE  BatchInv'
<1>1. CASE count[r] = run[w].seen[r]
  BY <1>1, RemindKeeps DEF Claim
<1>2. CASE count[r] # run[w].seen[r]
  BY <1>2, PassedKeeps DEF Claim
<1> QED BY <1>1, <1>2

(* A run that comes nearer to a claim: it finds r due, or it has found it   *)
(* due and waits for its row.                                               *)
LEMMA NearerKeeps ==
    ASSUME BatchInv, NEW w \in Runs, NEW r \in Requests,
           (run[w].pc = "loop" /\ r \in run[w].todo) \/ run[w].at = r,
           run[w].seen[r] < Len(Schedule), NEW pc \in {"due", "wait"},
           run' = [run EXCEPT ![w] = [run[w] EXCEPT !.pc = pc, !.todo = run[w].todo \ {r},
                                                    !.at = r]],
           requestVars' = requestVars, mailed' = mailed, lost' = lost, deaths' = deaths,
           closings' = closings
    PROVE  BatchInv'
<1> USE DEF BatchInv
<1>1. /\ run'[w].pc = pc /\ run'[w].todo = run[w].todo \ {r} /\ run'[w].at = r
      /\ run'[w].claimed = run[w].claimed /\ run'[w].seen = run[w].seen
      /\ run'[w] \in RunStates
  BY RunFields DEF TablesAndRunsTyped, RunStates
<1>2. \A v \in Runs \ {w} : run'[v] = run[v]
  BY DEF TablesAndRunsTyped
<1>3. TablesAndRunsTyped'
  BY <1>1 DEF TablesAndRunsTyped, requestVars
<1>4. RunSound(w)'
  BY <1>1 DEF RunsAreSound, RunSound
<1>5. RunsAreSound'
  BY <1>2, <1>4 DEF RunsAreSound, RunSound
<1>6. ClaimsAreExclusive' /\ EmailsAreAccounted'
  BY <1>1, <1>2, SameClaims DEF requestVars
<1> QED BY <1>3, <1>5, <1>6

(* What a run is about to claim is in no set of its own.                    *)
LEMMA FoundDue ==
    ASSUME BatchInv, NEW w \in Runs, run[w].pc \in {"due", "wait"}
    PROVE  /\ run[w].at \in Requests /\ run[w].seen[run[w].at] < Len(Schedule)
           /\ run[w].at \notin run[w].todo
BY DEF BatchInv, RunsAreSound, RunSound

(* A run that finds the row held waits for it. *)
LEMMA WaitKeeps ==
    ASSUME BatchInv, NEW w \in Runs, NEW r \in Requests,
           run[w].pc = "due", run[w].at = r, WaitForLock(w, r),
           requestVars' = requestVars, lost' = lost, deaths' = deaths, closings' = closings
    PROVE  BatchInv'
<1>1. /\ run[w] \in RunStates /\ run[w].seen[r] < Len(Schedule) /\ r \notin run[w].todo
  BY FoundDue, RunFields DEF BatchInv
<1> DEFINE old == run[w]
<1>2. [old EXCEPT !.pc = "wait"] = [old EXCEPT !.pc = "wait", !.todo = old.todo \ {r}, !.at = r]
  <2>1. old \in RunStates /\ old.at = r /\ old.todo \ {r} = old.todo
    BY <1>1
  <2> HIDE DEF old
  <2> QED BY <2>1 DEF RunStates
<1>3. run' = [run EXCEPT ![w] = [old EXCEPT !.pc = "wait"]] /\ mailed' = mailed
  BY DEF WaitForLock
<1>4. run' = [run EXCEPT ![w] = [run[w] EXCEPT !.pc = "wait", !.todo = run[w].todo \ {r},
                                               !.at = r]]
  BY <1>2, <1>3
<1> QED BY <1>1, <1>3, <1>4, NearerKeeps

(* A run that is rolled back loses its claims; its emails are then lost.    *)
LEMMA RollbackKeeps ==
    ASSUME BatchInv, NEW w \in Runs, Rollback(w),
           deaths' \in 0..MaxDeaths, closings' = closings
    PROVE  BatchInv'
<1> USE DEF BatchInv
<1>1. requestVars' = requestVars /\ mailed' = mailed /\ run' = [run EXCEPT ![w] = Idle]
  BY DEF Rollback
<1>2. Idle \in RunStates
  BY ScheduleFacts DEF Idle, RunStates
<1>3. run'[w] = Idle /\ \A v \in Runs \ {w} : run'[v] = run[v]
  BY <1>1 DEF TablesAndRunsTyped
<1>4. TablesAndRunsTyped'
  <2>1. lost' \in [Requests -> [Slot -> Nat]]
    BY DEF TablesAndRunsTyped, Rollback
  <2> QED BY <1>1, <1>2, <2>1 DEF TablesAndRunsTyped, requestVars
<1>5. RunSound(w)'
  BY <1>3, ScheduleFacts DEF RunSound, Idle
<1>6. RunsAreSound'
  BY <1>3, <1>5 DEF RunsAreSound, RunSound
<1>7. ClaimsAreExclusive'
  BY <1>1, <1>3 DEF ClaimsAreExclusive, requestVars, Idle
<1>8. EmailsAreAccounted'
  <2> SUFFICES ASSUME NEW r \in Requests, NEW i \in Slot
               PROVE  mailed[r][i] = lost'[r][i]
                        + (IF i <= count[r] \/ InFlight(r, i)' THEN 1 ELSE 0)
    BY <1>1 DEF EmailsAreAccounted, requestVars
  <2>1. mailed[r][i] = lost[r][i] + (IF i <= count[r] \/ InFlight(r, i) THEN 1 ELSE 0)
    BY DEF EmailsAreAccounted
  <2>2. lost[r][i] \in Nat /\ count[r] \in Nat /\ i \in Nat
    <3>1. lost[r] \in [Slot -> Nat] /\ count[r] \in 0..Len(Schedule)
      BY DEF TablesAndRunsTyped
    <3> QED BY <3>1, ScheduleFacts
  <2>3. CASE r \in run[w].claimed /\ i = run[w].seen[r] + 1
    <3>1. lost'[r][i] = lost[r][i] + 1
      BY <2>3 DEF Rollback
    <3>2. InFlight(r, i)
      BY <2>3 DEF InFlight
    <3>3. ~InFlight(r, i)'
      BY <1>3, <2>3 DEF InFlight, Idle, ClaimsAreExclusive
    <3>4. ~(i <= count[r])
      BY <2>2, <2>3 DEF ClaimsAreExclusive
    <3> QED BY <2>1, <2>2, <3>1, <3>2, <3>3, <3>4
  <2>4. CASE ~(r \in run[w].claimed /\ i = run[w].seen[r] + 1)
    <3>1. lost'[r][i] = lost[r][i]
      BY <2>4 DEF Rollback
    <3>2. InFlight(r, i)' <=> InFlight(r, i)
      BY <1>3, <2>4 DEF InFlight, Idle
    <3> QED BY <2>1, <3>1, <3>2
  <2> QED BY <2>3, <2>4
<1> QED BY <1>4, <1>6, <1>7, <1>8

(* A commit counts the slots it claimed: an email in flight is now one of a *)
(* committed slot.                                                          *)
LEMMA CommitKeeps == ASSUME BatchInv, NEW w \in Runs, Commit(w) PROVE BatchInv'
<1> USE DEF BatchInv
<1>1. run' = [run EXCEPT ![w] = Idle]
  BY DEF Commit
<1>2. Idle \in RunStates
  BY ScheduleFacts DEF Idle, RunStates
<1>3. run'[w] = Idle /\ \A v \in Runs \ {w} : run'[v] = run[v]
  BY <1>1 DEF TablesAndRunsTyped
<1>4. mailed' = mailed /\ lost' = lost /\ age' = age /\ active' = active
      /\ deaths' = deaths /\ closings' = closings
  BY DEF Commit, mailVars
<1>5. \A r \in Requests : count'[r] = IF r \in run[w].claimed THEN count[r] + 1 ELSE count[r]
  BY DEF Commit, ClaimsAreExclusive
<1>6. \A r \in run[w].claimed : count[r] < Len(Schedule)
  BY DEF ClaimsAreExclusive, RunsAreSound, RunSound
<1>7. TablesAndRunsTyped'
  <2>1. count' \in [Requests -> 0..Len(Schedule)]
    <3>1. \A r \in Requests : count'[r] \in 0..Len(Schedule)
      <4> SUFFICES ASSUME NEW r \in Requests PROVE count'[r] \in 0..Len(Schedule)
        OBVIOUS
      <4>1. count[r] \in 0..Len(Schedule)
        BY DEF TablesAndRunsTyped
      <4> QED BY <1>5, <1>6, <4>1, ScheduleFacts
    <3> QED BY <3>1 DEF Commit
  <2>2. revoked' \in [Requests -> BOOLEAN]
    BY DEF Commit
  <2>3. run' \in [Runs -> RunStates]
    BY <1>1, <1>2 DEF TablesAndRunsTyped
  <2> QED BY <1>4, <2>1, <2>2, <2>3 DEF TablesAndRunsTyped
<1>8. RunSound(w)'
  BY <1>3, ScheduleFacts DEF RunSound, Idle
<1>9. RunsAreSound'
  BY <1>3, <1>8 DEF RunsAreSound, RunSound
<1>10. ClaimsAreExclusive'
  <2> SUFFICES ASSUME NEW v \in Runs, NEW r \in run'[v].claimed
               PROVE  /\ run'[v].seen[r] = count'[r]
                      /\ \A u \in Runs \ {v} : r \notin run'[u].claimed
    BY DEF ClaimsAreExclusive
  <2>1. v # w /\ r \in run[v].claimed
    BY <1>3 DEF Idle
  <2>2. r \notin run[w].claimed /\ r \in Requests
    BY <2>1, RunFields DEF ClaimsAreExclusive
  <2> QED BY <1>3, <1>5, <2>1, <2>2 DEF ClaimsAreExclusive, Idle
<1>11. EmailsAreAccounted'
  <2> SUFFICES ASSUME NEW r \in Requests, NEW i \in Slot
               PROVE  mailed[r][i] = lost[r][i]
                        + (IF i <= count'[r] \/ InFlight(r, i)' THEN 1 ELSE 0)
    BY <1>4 DEF EmailsAreAccounted
  <2>1. mailed[r][i] = lost[r][i] + (IF i <= count[r] \/ InFlight(r, i) THEN 1 ELSE 0)
    BY DEF EmailsAreAccounted
  <2>2. count[r] \in Nat /\ i \in Nat
    BY ScheduleFacts DEF TablesAndRunsTyped
  <2>3. CASE r \in run[w].claimed
    <3>1. \A v \in Runs \ {w} : r \notin run[v].claimed
      BY <2>3 DEF ClaimsAreExclusive
    <3>2. InFlight(r, i) <=> i = count[r] + 1
      BY <2>3, <3>1 DEF InFlight, ClaimsAreExclusive
    <3>3. ~InFlight(r, i)'
      BY <1>3, <3>1 DEF InFlight, Idle
    <3>4. count'[r] = count[r] + 1
      BY <1>5, <2>3
    <3>5. (i <= count'[r]) <=> (i <= count[r] \/ i = count[r] + 1)
      BY <2>2, <3>4
    <3> QED BY <2>1, <3>2, <3>3, <3>5
  <2>4. CASE r \notin run[w].claimed
    <3>1. InFlight(r, i)' <=> InFlight(r, i)
      BY <1>3, <2>4 DEF InFlight, Idle
    <3> QED BY <1>5, <2>1, <2>4, <3>1
  <2> QED BY <2>3, <2>4
<1> QED BY <1>7, <1>9, <1>10, <1>11

(* A fresh selection replaces what an idle run had, which is nothing. *)
LEMMA SelectKeeps == ASSUME BatchInv, NEW w \in Runs, Select(w) PROVE BatchInv'
<1> USE DEF BatchInv
<1> DEFINE chosen == [r \in Requests |-> IF r \in Candidates THEN count[r] ELSE 0]
<1>1. run' = [run EXCEPT ![w] = [Idle EXCEPT !.pc = "loop", !.todo = Candidates,
                                             !.seen = chosen]]
  BY DEF Select
<1>2. chosen \in [Requests -> 0..Len(Schedule)] /\ Candidates \subseteq Requests
  BY ScheduleFacts DEF TablesAndRunsTyped, Candidates
<1>3. /\ run'[w].pc = "loop" /\ run'[w].todo = Candidates /\ run'[w].at = Nobody
      /\ run'[w].claimed = {} /\ run'[w] \in RunStates
  <2> HIDE DEF chosen
  <2> QED BY <1>1, <1>2, ScheduleFacts DEF TablesAndRunsTyped, RunStates, Idle
<1>4. \A v \in Runs \ {w} : run'[v] = run[v]
  BY <1>1 DEF TablesAndRunsTyped
<1>5. run[w].claimed = {}
  BY DEF Select, RunsAreSound, RunSound
<1>6. TablesAndRunsTyped'
  <2>1. run' \in [Runs -> RunStates]
    BY <1>1, <1>3 DEF TablesAndRunsTyped
  <2> QED BY <2>1 DEF TablesAndRunsTyped, Select, requestVars, mailVars
<1>7. RunSound(w)'
  BY <1>2, <1>3, ScheduleFacts DEF RunSound
<1>8. RunsAreSound'
  BY <1>4, <1>7 DEF RunsAreSound, RunSound
<1>9. ClaimsAreExclusive' /\ EmailsAreAccounted'
  BY <1>3, <1>4, <1>5, SameClaims DEF Select, requestVars, mailVars
<1> QED BY <1>6, <1>8, <1>9

(* What users and the clock do touches no counter, no claim and no email.   *)
LEMMA OthersKeep ==
    ASSUME BatchInv, (\E r \in Requests : Revoke(r) \/ Complete(r) \/ Resend(r) \/ FollowUp(r))
                     \/ Tick
    PROVE  BatchInv'
<1> USE DEF BatchInv
<1>1. /\ count' = count /\ mailed' = mailed /\ lost' = lost /\ deaths' = deaths
      /\ active' \in [Requests -> BOOLEAN] /\ revoked' \in [Requests -> BOOLEAN]
      /\ age' \in [Requests -> 0..LongestDelay]
  <2>1. 0 \in 0..LongestDelay /\ \A n \in 0..LongestDelay : n < LongestDelay => n + 1 \in 0..LongestDelay
    BY ScheduleFacts
  <2>2. CASE \E r \in Requests : Revoke(r)
    BY <2>2 DEF Revoke, mailVars, TablesAndRunsTyped
  <2>3. CASE \E r \in Requests : Complete(r)
    BY <2>3 DEF Complete, mailVars, TablesAndRunsTyped
  <2>4. CASE \E r \in Requests : Resend(r)
    BY <2>4 DEF Resend, mailVars, TablesAndRunsTyped
  <2>5. CASE \E r \in Requests : FollowUp(r)
    BY <2>1, <2>5 DEF FollowUp, mailVars, TablesAndRunsTyped
  <2>6. CASE Tick
    BY <2>1, <2>6 DEF Tick, mailVars, TablesAndRunsTyped
  <2> QED BY <2>2, <2>3, <2>4, <2>5, <2>6
<1>2. closings' \in 0..MaxClosings
  <2>1. closings \in 0..MaxClosings /\ (closings < MaxClosings => closings + 1 \in 0..MaxClosings)
    BY ScheduleFacts DEF TablesAndRunsTyped
  <2>2. CASE \E r \in Requests : Closing(r)
    BY <2>1, <2>2 DEF Closing
  <2>3. CASE closings' = closings
    BY <2>1, <2>3
  <2> QED BY <2>2, <2>3 DEF Revoke, Complete, Resend, FollowUp, Tick
<1>3. \/ run' = run
      \/ \E r \in Requests, runs \in SUBSET Runs : Overtaken(r, runs)
  <2>1. \A r \in Requests : NotDone(r) \in SUBSET Runs
    BY DEF NotDone
  <2>2. \A r \in Requests : {w \in Runs : run[w].at = r} \in SUBSET Runs
    OBVIOUS
  <2>3. CASE \E r \in Requests : FollowUp(r)
    BY <2>2, <2>3 DEF FollowUp
  <2> QED BY <2>1, <2>3 DEF Revoke, Complete, Resend, Tick, Closing
<1>4. \A w \in Runs :
         /\ run'[w] \in RunStates
         /\ run'[w].pc = run[w].pc /\ run'[w].todo = run[w].todo /\ run'[w].at = run[w].at
         /\ run'[w].claimed = run[w].claimed /\ run'[w].seen = run[w].seen
  BY <1>3, RunFields DEF RunStates, Overtaken
<1>5. run' \in [Runs -> RunStates]
  BY <1>3, <1>4 DEF TablesAndRunsTyped, Overtaken
<1>6. TablesAndRunsTyped'
  BY <1>1, <1>2, <1>5 DEF TablesAndRunsTyped
<1>7. RunsAreSound'
  BY <1>4 DEF RunsAreSound, RunSound
<1>8. ClaimsAreExclusive' /\ EmailsAreAccounted'
  BY <1>1, <1>4, SameClaims
<1> QED BY <1>6, <1>7, <1>8

(* The loop at one request. *)
LEMMA ExamineKeeps ==
    ASSUME BatchInv, NEW w \in Runs, NEW r \in Requests, Examine(w, r) PROVE BatchInv'
<1>1. /\ run[w].pc = "loop" /\ r \in run[w].todo /\ mailed' = mailed
      /\ requestVars' = requestVars /\ lost' = lost /\ deaths' = deaths /\ closings' = closings
  BY DEF Examine, mailVars
<1>2. CASE IsDue(r, run[w].seen[r])
  <2>1. run' = [run EXCEPT ![w] = [run[w] EXCEPT !.pc = "due", !.todo = run[w].todo \ {r},
                                                 !.at = r]]
    BY <1>2 DEF Examine
  <2> QED BY <1>1, <1>2, <2>1, NearerKeeps DEF IsDue
<1>3. CASE ~IsDue(r, run[w].seen[r])
  BY <1>1, <1>3, PassedKeeps DEF Examine
<1> QED BY <1>2, <1>3

(* The UPDATE of what was found due. *)
LEMMA UpdateKeeps == ASSUME BatchInv, NEW w \in Runs, Update(w) PROVE BatchInv'
<1>1. /\ run[w].pc = "due"
      /\ requestVars' = requestVars /\ lost' = lost /\ deaths' = deaths /\ closings' = closings
  BY DEF Update
<1>2. run[w].at \in Requests /\ run[w].seen[run[w].at] < Len(Schedule)
  BY <1>1, FoundDue
<1>3. CASE WaitForLock(w, run[w].at)
  BY <1>1, <1>2, <1>3, WaitKeeps
<1>4. CASE Free(run[w].at) /\ Claim(w, run[w].at)
  BY <1>1, <1>2, <1>4, ClaimKeeps DEF Free
<1> QED BY <1>3, <1>4 DEF Update

(* The loop at the row it has waited for. *)
LEMMA ResumeKeeps == ASSUME BatchInv, NEW w \in Runs, Resume(w) PROVE BatchInv'
<1>1. /\ run[w].pc = "wait" /\ ~Locked(run[w].at) /\ Claim(w, run[w].at)
      /\ requestVars' = requestVars /\ lost' = lost /\ deaths' = deaths /\ closings' = closings
  BY DEF Resume
<1>2. run[w].at \in Requests /\ run[w].seen[run[w].at] < Len(Schedule)
  BY <1>1, FoundDue
<1> QED BY <1>1, <1>2, ClaimKeeps

LEMMA BatchStep == BatchInv /\ [Next]_vars => BatchInv'
<1> SUFFICES ASSUME BatchInv, [Next]_vars PROVE BatchInv' OBVIOUS
<1>1. CASE UNCHANGED vars
  BY <1>1 DEF vars, requestVars, mailVars, BatchInv, TablesAndRunsTyped, RunsAreSound, RunSound,
     ClaimsAreExclusive, EmailsAreAccounted, InFlight
<1>2. ASSUME NEW w \in Runs, Select(w) PROVE BatchInv'
  BY <1>2, SelectKeeps
<1>3. ASSUME NEW w \in Runs, NEW r \in Requests, Examine(w, r) PROVE BatchInv'
  BY <1>3, ExamineKeeps
<1>4. ASSUME NEW w \in Runs, Update(w) \/ Resume(w) PROVE BatchInv'
  BY <1>4, UpdateKeeps, ResumeKeeps
<1>5. ASSUME NEW w \in Runs, Commit(w) PROVE BatchInv'
  BY <1>5, CommitKeeps
<1>6. ASSUME NEW w \in Runs, BreakDeadlock(w) PROVE BatchInv'
  BY <1>6, RollbackKeeps DEF BreakDeadlock, BatchInv, TablesAndRunsTyped
<1>7. ASSUME NEW w \in Runs, Die(w) PROVE BatchInv'
  <2>1. deaths' \in 0..MaxDeaths
    BY <1>7, ScheduleFacts DEF Die, BatchInv, TablesAndRunsTyped
  <2> QED BY <1>7, <2>1, RollbackKeeps DEF Die
<1> QED BY <1>1, <1>2, <1>3, <1>4, <1>5, <1>6, <1>7, OthersKeep DEF Next, RunStep

(* The claims of the reminder job are accounted for in every reachable      *)
(* state, for every number of requests, runs and deaths.                    *)
THEOREM BatchInvariant == Spec => []BatchInv
BY InitEstablishes, BatchStep, PTL DEF Spec

(* A row is claimed by one run at a time, and what is claimed is the slot   *)
(* the run selected: the guarded UPDATE of _claim.                          *)
THEOREM ClaimsExclude == Spec => []ClaimsAreExclusive
<1>1. BatchInv => ClaimsAreExclusive BY DEF BatchInv
<1> QED BY <1>1, BatchInvariant, PTL

(* No slot is committed twice or without its email, and an email without a  *)
(* committed slot is one of a run in flight or of a run that was rolled     *)
(* back.                                                                    *)
THEOREM EmailsAccountedFor == Spec => []EmailsAreAccounted
<1>1. BatchInv => EmailsAreAccounted BY DEF BatchInv
<1> QED BY <1>1, BatchInvariant, PTL

(* Both hold under the fairness of the scheduler, too, which is what the    *)
(* run checks.                                                              *)
COROLLARY FairlyAccountedFor == FairSpec => [](ClaimsAreExclusive /\ EmailsAreAccounted)
BY ClaimsExclude, EmailsAccountedFor, PTL DEF FairSpec

\* The counter of a request moves one slot at a time, and only when an email
\* of that very slot is out and was not rolled back.
MovesInOrder(r) ==
    \/ count'[r] = count[r]
    \/ /\ count'[r] = count[r] + 1
       /\ count'[r] \in Slot
       /\ mailed[r][count'[r]] = lost[r][count'[r]] + 1

SlotsGoInOrder == [][\A r \in Requests : MovesInOrder(r)]_vars

(* A commit moves the counter of what it claimed, and of nothing else.      *)
LEMMA CommitCounts ==
    ASSUME BatchInv, NEW w \in Runs, Commit(w), NEW r \in Requests
    PROVE  MovesInOrder(r)
<1> USE DEF MovesInOrder
<1>1. count'[r] = IF r \in run[w].claimed THEN run[w].seen[r] + 1 ELSE count[r]
  BY DEF Commit
<1>2. CASE r \notin run[w].claimed
  BY <1>1, <1>2
<1>3. CASE r \in run[w].claimed
  <2>1. run[w].seen[r] = count[r] /\ run[w].seen[r] < Len(Schedule) /\ count[r] \in Nat
    BY <1>3 DEF BatchInv, ClaimsAreExclusive, RunsAreSound, RunSound, TablesAndRunsTyped
  <2>2. count'[r] = count[r] + 1 /\ count'[r] = run[w].seen[r] + 1 /\ count'[r] \in Slot
    BY <1>1, <1>3, <2>1, ScheduleFacts
  <2>3. InFlight(r, count'[r])
    BY <1>3, <2>2 DEF InFlight
  <2>4. mailed[r][count'[r]] = lost[r][count'[r]] + 1
    BY <2>2, <2>3 DEF BatchInv, EmailsAreAccounted
  <2> QED BY <2>2, <2>4
<1> QED BY <1>2, <1>3

(* However runs overlap, wait and die: no slot of the schedule is skipped,  *)
(* none is committed twice, and none without an email that went out.        *)
THEOREM SlotsCommittedInOrder == Spec => SlotsGoInOrder
<1>1. ASSUME BatchInv, [Next]_vars PROVE \A r \in Requests : MovesInOrder(r)
  <2>1. ASSUME NEW w \in Runs, Commit(w) PROVE \A r \in Requests : MovesInOrder(r)
    BY <1>1, <2>1, CommitCounts
  <2>2. ASSUME NEW w \in Runs, Select(w) \/ Update(w) \/ Resume(w) \/ BreakDeadlock(w) \/ Die(w)
               \/ \E q \in Requests : Examine(w, q)
        PROVE  count' = count
    BY <2>2 DEF Select, Update, Resume, BreakDeadlock, Die, Rollback, Examine, requestVars
  <2>3. ASSUME \/ \E q \in Requests : Revoke(q) \/ Complete(q) \/ Resend(q) \/ FollowUp(q)
               \/ Tick
               \/ UNCHANGED vars
        PROVE  count' = count
    BY <2>3 DEF Revoke, Complete, Resend, FollowUp, Tick, vars, requestVars
  <2> QED BY <1>1, <2>1, <2>2, <2>3 DEF Next, RunStep, MovesInOrder
<1> QED BY <1>1, BatchInvariant, PTL DEF Spec, SlotsGoInOrder
-----------------------------------------------------------------------------
(* What a run may send to a closed or revoked request, or too early *)

\* A request that w has selected is open and its link valid, or w's selection
\* is stale; what w has claimed is not revoked, or the claim was stale; what w
\* is about to claim is still due, or was asked anew meanwhile.
SelectionSound(w) ==
    /\ \A r \in Requests : (r \in run[w].todo \/ run[w].at = r) =>
          (active[r] /\ ~revoked[r]) \/ r \in run[w].stale
    /\ \A r \in run[w].claimed : ~revoked[r] \/ r \in run[w].stale
    /\ \A r \in Requests : run[w].at = r =>
          age[r] >= Schedule[run[w].seen[r] + 1] \/ r \in run[w].stale

SelectionsAreSound == \A w \in Runs : SelectionSound(w)

(* Runs that did not move keep a sound selection unless a request closes or *)
(* is asked anew.                                                           *)
LEMMA OtherSelections ==
    ASSUME BatchInv, SelectionsAreSound, NEW v \in Runs, run'[v] = run[v], active' = active,
           age' = age, \A r \in Requests : revoked'[r] => revoked[r]
    PROVE  SelectionSound(v)'
BY RunFields DEF BatchInv, SelectionsAreSound, SelectionSound

(* A run that passes a request by, claims it, or comes nearer to a claim.   *)
LEMMA QuietLoop ==
    ASSUME BatchInv, SelectionsAreSound, NEW w \in Runs, NEW r \in Requests,
           r \in run[w].todo \/ run[w].at = r,
           \/ Passed(w, r)
           \/ Remind(w, r)
           \/ WaitForLock(w, r) /\ run[w].at = r
           \/ /\ IsDue(r, run[w].seen[r])
              /\ run' = [run EXCEPT ![w].pc = "due", ![w].todo = @ \ {r}, ![w].at = r],
           requestVars' = requestVars
    PROVE  SelectionsAreSound'
<1>1. active' = active /\ revoked' = revoked /\ age' = age
  BY DEF requestVars
<1>2. run[w] \in RunStates /\ run \in [Runs -> RunStates]
  BY DEF BatchInv, TablesAndRunsTyped
<1>3. \A v \in Runs \ {w} : run'[v] = run[v]
  BY <1>2 DEF Passed, Remind, WaitForLock
<1>4. SelectionSound(w) /\ RunSound(w) /\ Nobody \notin Requests
      /\ \A q \in run[w].claimed : q \in Requests
  BY RunFields, ScheduleFacts DEF BatchInv, SelectionsAreSound, RunsAreSound
<1>5. SelectionSound(w)'
  <2>1. CASE Passed(w, r)
    <3>1. /\ run'[w].todo = run[w].todo \ {r} /\ run'[w].at = Nobody
          /\ run'[w].stale = run[w].stale \ {r} /\ run'[w].claimed = run[w].claimed
      BY <1>2, <2>1 DEF Passed, RunStates
    <3>2. r \notin run[w].claimed
      BY <1>4 DEF RunSound
    <3> QED BY <1>1, <1>4, <3>1, <3>2 DEF SelectionSound
  <2>2. CASE Remind(w, r)
    <3>1. /\ run'[w].todo = run[w].todo \ {r} /\ run'[w].at = Nobody
          /\ run'[w].stale = run[w].stale /\ run'[w].claimed = run[w].claimed \cup {r}
      BY <1>2, <2>2 DEF Remind, RunStates
    <3> QED BY <1>1, <1>4, <3>1 DEF SelectionSound
  <2>3. CASE WaitForLock(w, r) /\ run[w].at = r
    <3>1. /\ run'[w].todo = run[w].todo /\ run'[w].at = run[w].at /\ run'[w].seen = run[w].seen
          /\ run'[w].stale = run[w].stale /\ run'[w].claimed = run[w].claimed
      BY <1>2, <2>3 DEF WaitForLock, RunStates
    <3> QED BY <1>1, <1>4, <3>1 DEF SelectionSound
  <2>4. CASE /\ IsDue(r, run[w].seen[r])
             /\ run' = [run EXCEPT ![w].pc = "due", ![w].todo = @ \ {r}, ![w].at = r]
    <3>1. /\ run'[w].todo = run[w].todo \ {r} /\ run'[w].at = r /\ run'[w].seen = run[w].seen
          /\ run'[w].stale = run[w].stale /\ run'[w].claimed = run[w].claimed
      BY <1>2, <2>4 DEF RunStates
    <3>2. age[r] >= Schedule[run[w].seen[r] + 1]
      BY <2>4 DEF IsDue
    <3> QED BY <1>1, <1>4, <3>1, <3>2 DEF SelectionSound
  <2> QED BY <2>1, <2>2, <2>3, <2>4
<1>6. ASSUME NEW v \in Runs \ {w} PROVE SelectionSound(v)'
  BY <1>1, <1>3, OtherSelections
<1> QED BY <1>5, <1>6 DEF SelectionsAreSound

(* The end of a run. *)
LEMMA QuietEnd ==
    ASSUME BatchInv, SelectionsAreSound, NEW w \in Runs, run' = [run EXCEPT ![w] = Idle],
           active' = active, age' = age, \A r \in Requests : revoked'[r] => revoked[r]
    PROVE  SelectionsAreSound'
<1>1. run'[w] = Idle /\ \A v \in Runs \ {w} : run'[v] = run[v]
  BY DEF BatchInv, TablesAndRunsTyped
<1>2. SelectionSound(w)'
  BY <1>1, ScheduleFacts DEF SelectionSound, Idle
<1>3. ASSUME NEW v \in Runs \ {w} PROVE SelectionSound(v)'
  BY <1>1, OtherSelections
<1> QED BY <1>2, <1>3 DEF SelectionsAreSound

LEMMA QuietSelect ==
    ASSUME BatchInv, SelectionsAreSound, NEW w \in Runs, Select(w)
    PROVE  SelectionsAreSound'
<1> DEFINE chosen == [r \in Requests |-> IF r \in Candidates THEN count[r] ELSE 0]
<1>1. run' = [run EXCEPT ![w] = [Idle EXCEPT !.pc = "loop", !.todo = Candidates,
                                             !.seen = chosen]]
      /\ active' = active /\ revoked' = revoked /\ age' = age
  BY DEF Select, requestVars
<1>2. run'[w].todo = Candidates /\ run'[w].at = Nobody /\ run'[w].claimed = {}
  <2> HIDE DEF chosen
  <2> QED BY <1>1 DEF BatchInv, TablesAndRunsTyped, Idle
<1>3. SelectionSound(w)'
  BY <1>1, <1>2, ScheduleFacts DEF SelectionSound, Candidates
<1>4. ASSUME NEW v \in Runs \ {w} PROVE SelectionSound(v)'
  BY <1>1, OtherSelections DEF BatchInv, TablesAndRunsTyped
<1> QED BY <1>3, <1>4 DEF SelectionsAreSound

(* What a run notes of a call that overtakes it. *)
LEMMA OvertakenRun ==
    ASSUME BatchInv, NEW r \in Requests, NEW runs \in SUBSET Runs, Overtaken(r, runs),
           NEW w \in Runs
    PROVE  /\ run'[w].todo = run[w].todo /\ run'[w].at = run[w].at
           /\ run'[w].claimed = run[w].claimed /\ run'[w].seen = run[w].seen
           /\ run'[w].stale = IF w \in runs THEN run[w].stale \cup {r} ELSE run[w].stale
<1>1. run'[w] = IF w \in runs THEN [run[w] EXCEPT !.stale = run[w].stale \cup {r}] ELSE run[w]
  BY DEF Overtaken
<1> DEFINE old == run[w]
           t == [old EXCEPT !.stale = old.stale \cup {r}]
<1>2. /\ t.todo = old.todo /\ t.at = old.at /\ t.claimed = old.claimed /\ t.seen = old.seen
      /\ t.stale = old.stale \cup {r}
  <2>1. old \in RunStates
    BY DEF BatchInv, TablesAndRunsTyped
  <2> HIDE DEF old
  <2> QED BY <2>1 DEF RunStates
<1>3. run'[w] = IF w \in runs THEN t ELSE old
  BY <1>1
<1> HIDE DEF t
<1> QED BY <1>2, <1>3

(* A closing is noted by every run that has selected the request and not    *)
(* got to it; a run that has claimed it holds the row and keeps it open.    *)
LEMMA QuietClosing ==
    ASSUME BatchInv, SelectionsAreSound, NEW r \in Requests, Revoke(r) \/ Complete(r)
    PROVE  SelectionsAreSound'
<1> SUFFICES ASSUME NEW w \in Runs PROVE SelectionSound(w)'
  BY DEF SelectionsAreSound
<1>1. /\ run[w].claimed \subseteq Requests /\ SelectionSound(w) /\ r \notin run[w].claimed
  BY RunFields DEF BatchInv, TablesAndRunsTyped, SelectionsAreSound, Revoke, Complete, Free, Locked
<1>2. /\ run'[w].todo = run[w].todo /\ run'[w].at = run[w].at
      /\ run'[w].claimed = run[w].claimed /\ run'[w].seen = run[w].seen
      /\ run'[w].stale = IF w \in NotDone(r) THEN run[w].stale \cup {r} ELSE run[w].stale
  BY OvertakenRun DEF Revoke, Complete, Closing, NotDone
<1>3. age' = age /\ \A q \in Requests \ {r} : active'[q] = active[q] /\ revoked'[q] = revoked[q]
  BY DEF Revoke, Complete, BatchInv, TablesAndRunsTyped
<1> QED BY <1>1, <1>2, <1>3 DEF SelectionSound, NotDone

(* A new round makes stale what was found due before it. *)
LEMMA QuietFollowUp ==
    ASSUME BatchInv, SelectionsAreSound, NEW r \in Requests, FollowUp(r)
    PROVE  SelectionsAreSound'
<1> SUFFICES ASSUME NEW w \in Runs PROVE SelectionSound(w)'
  BY DEF SelectionsAreSound
<1>1. run[w].claimed \subseteq Requests /\ SelectionSound(w)
  BY RunFields DEF BatchInv, SelectionsAreSound
<1> DEFINE asked == {v \in Runs : run[v].at = r}
<1>2. /\ run'[w].todo = run[w].todo /\ run'[w].at = run[w].at
      /\ run'[w].claimed = run[w].claimed /\ run'[w].seen = run[w].seen
      /\ run'[w].stale = IF w \in asked THEN run[w].stale \cup {r} ELSE run[w].stale
  <2>1. Overtaken(r, asked) /\ asked \in SUBSET Runs
    BY DEF FollowUp
  <2> HIDE DEF asked
  <2> QED BY <2>1, OvertakenRun
<1>3. active' = active /\ revoked' = revoked /\ \A q \in Requests \ {r} : age'[q] = age[q]
  BY DEF FollowUp, BatchInv, TablesAndRunsTyped
<1> QED BY <1>1, <1>2, <1>3 DEF SelectionSound

(* What is due stays due. *)
LEMMA QuietTick == ASSUME BatchInv, SelectionsAreSound, Tick PROVE SelectionsAreSound'
<1>1. active' = active /\ revoked' = revoked /\ run' = run
  BY DEF Tick
<1>2. ASSUME NEW r \in Requests, NEW i \in Slot, age[r] >= Schedule[i]
      PROVE  age'[r] >= Schedule[i]
  <2>1. age[r] \in 0..LongestDelay /\ LongestDelay \in Nat /\ Schedule[i] \in Nat
    BY ReminderBatchAssumption DEF BatchInv, TablesAndRunsTyped, ReminderBatchAssumption, Slot
  <2>2. age'[r] = age[r] + 1 \/ age'[r] = age[r]
    BY DEF Tick
  <2> QED BY <1>2, <2>1, <2>2
<1>3. ASSUME NEW w \in Runs, NEW r \in Requests, run[w].at = r
      PROVE  run[w].seen[r] + 1 \in Slot
  <2>1. run[w].pc \in {"due", "wait"}
    BY <1>3, ScheduleFacts DEF BatchInv, RunsAreSound, RunSound
  <2>2. run[w].seen[r] \in 0..Len(Schedule) /\ run[w].seen[r] < Len(Schedule)
    BY <1>3, <2>1, FoundDue, RunFields DEF BatchInv
  <2> QED BY <2>2, ScheduleFacts
<1> SUFFICES ASSUME NEW w \in Runs PROVE SelectionSound(w)'
  BY DEF SelectionsAreSound
<1>4. SelectionSound(w) /\ run[w].claimed \subseteq Requests
  BY RunFields DEF BatchInv, SelectionsAreSound
<1> QED BY <1>1, <1>2, <1>3, <1>4 DEF SelectionSound

LEMMA QuietStep == BatchInv /\ SelectionsAreSound /\ [Next]_vars => SelectionsAreSound'
<1> SUFFICES ASSUME BatchInv, SelectionsAreSound, [Next]_vars PROVE SelectionsAreSound'
  OBVIOUS
<1>1. CASE run' = run /\ active' = active /\ age' = age /\ \A r \in Requests : revoked'[r] => revoked[r]
  BY <1>1, OtherSelections DEF SelectionsAreSound
<1>2. CASE UNCHANGED vars \/ \E r \in Requests : Resend(r)
  BY <1>1, <1>2 DEF vars, requestVars, Resend, BatchInv, TablesAndRunsTyped
<1>3. ASSUME NEW w \in Runs, Select(w) PROVE SelectionsAreSound'
  BY <1>3, QuietSelect
<1>4. ASSUME NEW w \in Runs, NEW r \in Requests, Examine(w, r) PROVE SelectionsAreSound'
  BY <1>4, QuietLoop DEF Examine
<1>5. ASSUME NEW w \in Runs, Update(w) \/ Resume(w) PROVE SelectionsAreSound'
  <2>1. run[w].at \in Requests
    BY <1>5, FoundDue DEF Update, Resume
  <2> QED BY <1>5, <2>1, QuietLoop DEF Update, Resume, Claim
<1>6. ASSUME NEW w \in Runs, Commit(w) PROVE SelectionsAreSound'
  BY <1>6, QuietEnd DEF Commit
<1>7. ASSUME NEW w \in Runs, Die(w) \/ BreakDeadlock(w) PROVE SelectionsAreSound'
  BY <1>7, QuietEnd DEF Die, BreakDeadlock, Rollback, requestVars
<1>8. ASSUME NEW r \in Requests, Revoke(r) \/ Complete(r) \/ FollowUp(r) PROVE SelectionsAreSound'
  BY <1>8, QuietClosing, QuietFollowUp
<1> QED BY <1>2, <1>3, <1>4, <1>5, <1>6, <1>7, <1>8, QuietTick DEF Next, RunStep

(* Every selection is sound, in every reachable state. *)
THEOREM SelectionInvariant == Spec => [](BatchInv /\ SelectionsAreSound)
<1>1. Init => SelectionsAreSound
  BY ScheduleFacts DEF Init, SelectionsAreSound, SelectionSound, Idle
<1>2. BatchInv /\ SelectionsAreSound /\ [Next]_vars => (BatchInv /\ SelectionsAreSound)'
  BY BatchStep, QuietStep
<1> QED BY <1>1, <1>2, InitEstablishes, PTL DEF Spec

(* Every email is one of a run that had found the request due.              *)
LEMMA EmailOfARun ==
    ASSUME BatchInv, [Next]_vars, mailed' # mailed
    PROVE  \E w \in Runs, r \in Requests : run[w].at = r /\ Remind(w, r)
<1>1. PICK w \in Runs : Update(w) \/ Resume(w)
  BY DEF Next, RunStep, vars, mailVars, Select, Examine, Commit, BreakDeadlock, Die, Rollback,
     Revoke, Complete, Resend, FollowUp, Tick
<1>2. run[w].at \in Requests
  BY <1>1, FoundDue DEF Update, Resume
<1> QED BY <1>1, <1>2 DEF Update, Resume, Claim, WaitForLock

(* A completed or revoked request is emailed, and its revocation undone,    *)
(* only by a run that had selected it before it was closed; a reminder that *)
(* comes too soon after the latest round is one of a run that had found the *)
(* request due before that round.                                           *)
THEOREM QuietButForTheOvertaken == Spec => QuietUnlessOvertaken
<1> DEFINE Step == \A r \in Requests : MailsClosed(r) \/ MailsEarly(r) \/ Revives(r) =>
                      \E w \in Runs : r \in run[w].stale
<1>1. BatchInv /\ SelectionsAreSound /\ [Next]_vars => [Step]_vars
  <2> SUFFICES ASSUME BatchInv, SelectionsAreSound, [Next]_vars, NEW r \in Requests,
                      MailsClosed(r) \/ MailsEarly(r) \/ Revives(r)
               PROVE  \E w \in Runs : r \in run[w].stale
    OBVIOUS
  <2>1. CASE MailsClosed(r) \/ MailsEarly(r)
    <3>1. mailed' # mailed
      BY <2>1 DEF MailsClosed, MailsEarly
    <3>2. PICK w \in Runs, q \in Requests : run[w].at = q /\ Remind(w, q)
      BY <3>1, EmailOfARun
    <3>3. mailed' = [mailed EXCEPT ![q] = [mailed[q] EXCEPT
                        ![run[w].seen[q] + 1] = mailed[q][run[w].seen[q] + 1] + 1]]
      BY <3>2 DEF Remind
    <3>4. mailed \in [Requests -> [Slot -> Nat]]
      BY DEF BatchInv, TablesAndRunsTyped
    <3>5. q = r
      BY <2>1, <3>3, <3>4 DEF MailsClosed, MailsEarly
    <3>6. MailsEarly(r) => age[r] < Schedule[run[w].seen[r] + 1]
      BY <3>3, <3>4, <3>5 DEF MailsEarly
    <3>7. MailsEarly(r) => ~(age[r] >= Schedule[run[w].seen[r] + 1])
      <4>1. run[w].seen[r] + 1 \in Slot
        <5>1. run[w].pc \in {"due", "wait"}
          BY <3>2, ScheduleFacts DEF BatchInv, RunsAreSound, RunSound
        <5>2. run[w].seen[r] \in 0..Len(Schedule) /\ run[w].seen[r] < Len(Schedule)
          BY <3>2, <3>5, <5>1, FoundDue, RunFields DEF BatchInv
        <5> QED BY <5>2, ScheduleFacts
      <4>2. age[r] \in 0..LongestDelay /\ LongestDelay \in Nat
            /\ Schedule[run[w].seen[r] + 1] \in Nat
        BY <4>1, ReminderBatchAssumption
           DEF BatchInv, TablesAndRunsTyped, ReminderBatchAssumption, Slot
      <4> QED BY <3>6, <4>2
    <3> QED BY <2>1, <3>2, <3>5, <3>7 DEF MailsClosed, SelectionsAreSound, SelectionSound
  <2>2. CASE Revives(r)
    <3>1. count' # count
      BY <2>2 DEF Revives
    <3>2. PICK w \in Runs : Commit(w)
      BY <3>1 DEF Next, RunStep, vars, requestVars, Select, Examine, Update, Resume,
         BreakDeadlock, Die, Rollback, Revoke, Complete, Resend, FollowUp, Tick
    <3>3. r \in run[w].claimed
      BY <2>2, <3>2 DEF Revives, Commit, BatchInv, TablesAndRunsTyped
    <3> QED BY <2>2, <3>2, <3>3 DEF Revives, SelectionsAreSound, SelectionSound
  <2> QED BY <2>1, <2>2
<1> QED BY <1>1, SelectionInvariant, PTL DEF Spec, QuietUnlessOvertaken
-----------------------------------------------------------------------------
(* The queues of the row locks *)

\* Every run waits in the queue of the row it waits for, once, and in no other.
QueuesAreSound ==
    /\ queue \in [Requests -> Seq(Runs)]
    /\ \A r \in Requests : IsInjective(queue[r])
    /\ \A r \in Requests : \A w \in Runs :
          Contains(queue[r], w) <=> run[w].pc = "wait" /\ run[w].at = r

JobInv == BatchInv /\ QueuesAreSound

(* A run that leaves a queue leaves the others where they were.             *)
LEMMA WithoutMeaning ==
    ASSUME NEW q \in Seq(Runs), IsInjective(q), NEW w
    PROVE  /\ Without(q, w) \in Seq(Runs)
           /\ IsInjective(Without(q, w))
           /\ \A v : Contains(Without(q, w), v) <=>
                     v # w /\ Contains(q, v)
<1>1. CASE ~Contains(q, w)
  BY <1>1 DEF Without
<1>2. ASSUME NEW k \in DOMAIN q, q[k] = w, Without(q, w) = RemoveAt(q, k)
      PROVE  /\ Without(q, w) \in Seq(Runs)
             /\ IsInjective(Without(q, w))
             /\ \A v : Contains(Without(q, w), v) <=>
                       v # w /\ Contains(q, v)
  <2> DEFINE n == Len(q)
             left == SubSeq(q, 1, k - 1)
             right == SubSeq(q, k + 1, n)
             rest == Without(q, w)
  <2>1. n \in Nat /\ DOMAIN q = 1..n /\ k \in 1..n /\ \A i \in 1..n : q[i] \in Runs
    BY LenProperties, ElementOfSeq
  <2>2. /\ left \in Seq(Runs) /\ Len(left) = k - 1
        /\ \A i \in 1..k - 1 : left[i] = q[i]
    <3>1. \A i \in 1..k - 1 : q[i] \in Runs
      BY <2>1
    <3> QED BY <2>1, <3>1, SubSeqProperties
  <2>3. /\ right \in Seq(Runs) /\ Len(right) = n - k
        /\ \A i \in 1..n - k : right[i] = q[k + i]
    <3>1. \A i \in k + 1..n : q[i] \in Runs
      BY <2>1
    <3> QED BY <2>1, <3>1, SubSeqProperties
  <2>4. rest = left \o right
    BY <1>2 DEF RemoveAt
  <2> HIDE DEF left, right, rest, n
  <2>5. /\ rest \in Seq(Runs) /\ Len(rest) = n - 1
        /\ \A i \in 1..n - 1 : rest[i] = IF i < k THEN q[i] ELSE q[i + 1]
    <3>1. /\ rest \in Seq(Runs) /\ Len(rest) = (k - 1) + (n - k)
          /\ \A i \in 1..(k - 1) + (n - k) :
                rest[i] = IF i <= k - 1 THEN left[i] ELSE right[i - (k - 1)]
      BY <2>2, <2>3, <2>4, ConcatProperties
    <3>2. (k - 1) + (n - k) = n - 1
      BY <2>1
    <3>3. ASSUME NEW i \in 1..n - 1 PROVE rest[i] = IF i < k THEN q[i] ELSE q[i + 1]
      <4>1. rest[i] = IF i <= k - 1 THEN left[i] ELSE right[i - (k - 1)]
        BY <3>1, <3>2
      <4>2. CASE i < k
        BY <2>1, <2>2, <4>1, <4>2
      <4>3. CASE i >= k
        <5>1. i - (k - 1) \in 1..n - k /\ k + (i - (k - 1)) = i + 1 /\ ~(i <= k - 1) /\ ~(i < k)
          BY <2>1, <4>3
        <5>2. right[i - (k - 1)] = q[k + (i - (k - 1))]
          BY <2>3, <5>1
        <5> QED BY <4>1, <5>1, <5>2
      <4> QED BY <2>1, <4>2, <4>3
    <3> QED BY <3>1, <3>2, <3>3
  <2>6. DOMAIN rest = 1..n - 1
    BY <2>1, <2>5, LenProperties
  <2>7. \A i, j \in 1..n : q[i] = q[j] => i = j
    BY <2>1 DEF IsInjective
  <2>8. IsInjective(rest)
    BY <2>1, <2>5, <2>6, <2>7 DEF IsInjective
  <2>9. ASSUME NEW i \in 1..n - 1 PROVE rest[i] # w /\ \E j \in 1..n : q[j] = rest[i]
    <3>1. (i \in 1..n /\ i + 1 \in 1..n /\ i # k) \/ i >= k
      BY <2>1
    <3> QED BY <1>2, <2>1, <2>5, <2>7
  <2>10. ASSUME NEW j \in 1..n, q[j] # w PROVE \E i \in 1..n - 1 : rest[i] = q[j]
    <3>1. CASE j < k
      <4>1. j \in 1..n - 1 /\ rest[j] = q[j]
        BY <2>1, <2>5, <3>1
      <4> QED BY <4>1
    <3>2. CASE j > k
      <4>1. j - 1 \in 1..n - 1 /\ rest[j - 1] = q[j]
        BY <2>1, <2>5, <3>2
      <4> QED BY <4>1
    <3> QED BY <1>2, <2>1, <2>10, <3>1, <3>2
  <2>11. \A v : Contains(q, v) <=> \E i \in 1..n : q[i] = v
    BY DEF Contains, n
  <2>12. \A v : Contains(rest, v) <=> \E i \in 1..n - 1 : rest[i] = v
    BY <2>5 DEF Contains
  <2>13. \A v : Contains(rest, v) <=> v # w /\ Contains(q, v)
    BY <2>9, <2>10, <2>11, <2>12
  <2> QED BY <2>5, <2>8, <2>13 DEF rest
<1>3. CASE Contains(q, w)
  <2>1. PICK k \in DOMAIN q : k = CHOOSE i \in DOMAIN q : q[i] = w
    BY <1>3, LenProperties DEF Contains
  <2>2. q[k] = w
    BY <1>3, <2>1, LenProperties DEF Contains
  <2>3. Without(q, w) = RemoveAt(q, k)
    BY <1>3, <2>1 DEF Without
  <2> QED BY <1>2, <2>2, <2>3
<1> QED BY <1>1, <1>3

(* A step that leaves the queues alone, and every run where it waited.      *)
LEMMA SameQueues ==
    ASSUME QueuesAreSound, queue' = queue,
           \A v \in Runs : \A r \in Requests :
              (run'[v].pc = "wait" /\ run'[v].at = r) <=> (run[v].pc = "wait" /\ run[v].at = r)
    PROVE  QueuesAreSound'
BY DEF QueuesAreSound

(* A step of one run that was not waiting and does not wait after it.       *)
LEMMA NotWaiting ==
    ASSUME QueuesAreSound, queue' = queue, NEW w \in Runs,
           run[w].pc # "wait", run'[w].pc # "wait",
           \A v \in Runs \ {w} : run'[v] = run[v]
    PROVE  QueuesAreSound'
BY SameQueues

LEMMA SelectQueues ==
    ASSUME JobInv, NEW w \in Runs, Select(w) PROVE QueuesAreSound'
<1> DEFINE chosen == [r \in Requests |-> IF r \in Candidates THEN count[r] ELSE 0]
<1>1. run' = [run EXCEPT ![w] = [Idle EXCEPT !.pc = "loop", !.todo = Candidates,
                                             !.seen = chosen]]
      /\ queue' = queue /\ run[w].pc = "idle"
  BY DEF Select
<1>2. run'[w].pc = "loop" /\ \A v \in Runs \ {w} : run'[v] = run[v]
  <2> HIDE DEF chosen
  <2> QED BY <1>1 DEF JobInv, BatchInv, TablesAndRunsTyped, Idle
<1> QED BY <1>1, <1>2, NotWaiting DEF JobInv

(* A run that meets a locked row joins its queue at the end.                *)
LEMMA WaitQueues ==
    ASSUME JobInv, NEW w \in Runs, NEW r \in Requests, run[w].pc = "due", run[w].at = r,
           WaitForLock(w, r)
    PROVE  QueuesAreSound'
<1>1. /\ run[w] \in RunStates /\ run \in [Runs -> RunStates]
      /\ queue \in [Requests -> Seq(Runs)] /\ queue[r] \in Seq(Runs)
  BY DEF JobInv, BatchInv, TablesAndRunsTyped, QueuesAreSound
<1>2. /\ run'[w].pc = "wait" /\ run'[w].at = r
      /\ \A v \in Runs \ {w} : run'[v] = run[v]
  BY <1>1 DEF WaitForLock, RunStates
<1>3. /\ queue' = [queue EXCEPT ![r] = Append(queue[r], w)]
      /\ queue' \in [Requests -> Seq(Runs)]
      /\ queue'[r] = Append(queue[r], w)
      /\ \A s \in Requests \ {r} : queue'[s] = queue[s]
  BY <1>1, AppendProperties DEF WaitForLock
<1> DEFINE n == Len(queue[r])
<1>4. /\ n \in Nat /\ DOMAIN queue[r] = 1..n /\ DOMAIN queue'[r] = 1..n + 1
      /\ queue'[r][n + 1] = w /\ \A i \in 1..n : queue'[r][i] = queue[r][i]
  <2>1. Append(queue[r], w) \in Seq(Runs) /\ Len(Append(queue[r], w)) = n + 1
    BY <1>1, AppendProperties
  <2> QED BY <1>1, <1>3, <2>1, LenProperties, AppendProperties
<1>5. \A i \in 1..n : queue[r][i] # w
  BY DEF JobInv, QueuesAreSound, Contains, n
<1>6. IsInjective(queue'[r])
  <2> HIDE DEF n
  <2>1. \A i, j \in 1..n : queue[r][i] = queue[r][j] => i = j
    BY <1>4 DEF JobInv, QueuesAreSound, IsInjective
  <2> QED BY <1>4, <1>5, <2>1 DEF IsInjective
<1>7. \A v \in Runs : Contains(queue'[r], v) <=>
                      v = w \/ Contains(queue[r], v)
  <2>1. Len(queue'[r]) = n + 1
    BY <1>1, <1>3, AppendProperties
  <2> HIDE DEF n
  <2>2. \A v : Contains(queue[r], v) <=> \E i \in 1..n : queue[r][i] = v
    BY DEF Contains, n
  <2>3. \A v : Contains(queue'[r], v) <=> \E i \in 1..n + 1 : queue'[r][i] = v
    BY <2>1 DEF Contains
  <2> QED BY <1>4, <2>2, <2>3
<1>8. ASSUME NEW s \in Requests, NEW v \in Runs
      PROVE  Contains(queue'[s], v) <=>
             run'[v].pc = "wait" /\ run'[v].at = s
  <2>1. Contains(queue[s], v) <=> run[v].pc = "wait" /\ run[v].at = s
    BY DEF JobInv, QueuesAreSound
  <2> QED BY <1>2, <1>3, <1>7, <2>1
<1> QED BY <1>3, <1>6, <1>8 DEF JobInv, QueuesAreSound

(* The head of a queue gets its turn and leaves it.                         *)
LEMMA ResumeQueues ==
    ASSUME JobInv, NEW w \in Runs, Resume(w) PROVE QueuesAreSound'
<1> DEFINE r == run[w].at
           n == Len(queue[r])
<1>1. /\ run[w].pc = "wait" /\ r \in Requests /\ run \in [Runs -> RunStates]
      /\ queue \in [Requests -> Seq(Runs)] /\ queue[r] \in Seq(Runs)
  BY DEF Resume, JobInv, BatchInv, TablesAndRunsTyped, RunsAreSound, RunSound, QueuesAreSound
<1>2. run'[w].pc = "loop" /\ \A v \in Runs \ {w} : run'[v] = run[v]
  BY <1>1 DEF Resume, Claim, Remind, Passed, RunStates
<1>3. /\ queue' = [queue EXCEPT ![r] = Tail(queue[r])] /\ Head(queue[r]) = w
  BY DEF Resume
<1>4. Contains(queue[r], w)
  BY <1>1 DEF JobInv, QueuesAreSound
<1> HIDE DEF r
<1>5. n \in Nat /\ DOMAIN queue[r] = 1..n /\ n >= 1 /\ queue[r] # <<>>
  BY <1>1, <1>4, LenProperties, EmptySeq DEF Contains
<1>6. /\ Tail(queue[r]) \in Seq(Runs) /\ DOMAIN Tail(queue[r]) = 1..n - 1
      /\ Len(Tail(queue[r])) = n - 1
      /\ queue[r][1] = w /\ \A i \in 1..n - 1 : Tail(queue[r])[i] = queue[r][i + 1]
  <2>1. /\ Tail(queue[r]) \in Seq(Runs) /\ Len(Tail(queue[r])) = n - 1
        /\ \A i \in 1..Len(Tail(queue[r])) : Tail(queue[r])[i] = queue[r][i + 1]
    BY <1>1, <1>5, HeadTailProperties
  <2> QED BY <1>3, <1>5, <2>1, LenProperties
<1>7. /\ queue' \in [Requests -> Seq(Runs)] /\ queue'[r] = Tail(queue[r])
      /\ \A s \in Requests \ {r} : queue'[s] = queue[s]
  BY <1>1, <1>3, <1>6
<1> HIDE DEF n
<1>8. \A i, j \in 1..n : queue[r][i] = queue[r][j] => i = j
  BY <1>1, <1>5 DEF JobInv, QueuesAreSound, IsInjective
<1>9. IsInjective(queue'[r])
  BY <1>5, <1>6, <1>7, <1>8 DEF IsInjective
<1>10. ASSUME NEW v \in Runs
       PROVE  Contains(queue'[r], v) <=>
              v # w /\ Contains(queue[r], v)
  <2>1. ASSUME NEW i \in 1..n - 1, queue'[r][i] = v
        PROVE  v # w /\ \E j \in 1..n : queue[r][j] = v
    <3>1. i + 1 \in 1..n /\ 1 \in 1..n /\ i + 1 # 1
      BY <1>5
    <3> QED BY <1>5, <1>6, <1>7, <1>8, <2>1, <3>1
  <2>2. ASSUME NEW j \in 1..n, queue[r][j] = v, v # w
        PROVE  \E i \in 1..n - 1 : queue'[r][i] = v
    <3>1. j # 1
      BY <1>6, <2>2
    <3>2. j - 1 \in 1..n - 1 /\ (j - 1) + 1 = j
      BY <1>5, <3>1
    <3> QED BY <1>6, <1>7, <2>2, <3>2
  <2>3. Contains(queue[r], v) <=> \E j \in 1..n : queue[r][j] = v
    BY DEF Contains, n
  <2>4. Contains(queue'[r], v) <=> \E i \in 1..n - 1 : queue'[r][i] = v
    BY <1>6, <1>7 DEF Contains
  <2> QED BY <2>1, <2>2, <2>3, <2>4
<1>11. ASSUME NEW s \in Requests, NEW v \in Runs
       PROVE  Contains(queue'[s], v) <=>
              run'[v].pc = "wait" /\ run'[v].at = s
  <2>1. Contains(queue[s], v) <=> run[v].pc = "wait" /\ run[v].at = s
    BY DEF JobInv, QueuesAreSound
  <2>2. run[w].at = r
    BY DEF r
  <2> QED BY <1>2, <1>7, <1>10, <2>1, <2>2
<1> QED BY <1>7, <1>9, <1>11 DEF JobInv, QueuesAreSound

(* A run that is rolled back leaves the queue it waits in.                  *)
LEMMA RollbackQueues ==
    ASSUME JobInv, NEW w \in Runs, Rollback(w) PROVE QueuesAreSound'
<1>1. /\ run'[w] = Idle /\ \A v \in Runs \ {w} : run'[v] = run[v]
      /\ queue' = [r \in Requests |-> Without(queue[r], w)]
  BY DEF Rollback, JobInv, BatchInv, TablesAndRunsTyped
<1>2. \A r \in Requests : queue[r] \in Seq(Runs) /\ IsInjective(queue[r])
  BY DEF JobInv, QueuesAreSound
<1>3. \A r \in Requests :
         /\ queue'[r] \in Seq(Runs) /\ IsInjective(queue'[r])
         /\ \A v : Contains(queue'[r], v) <=>
                   v # w /\ Contains(queue[r], v)
  BY <1>1, <1>2, WithoutMeaning
<1>4. queue' \in [Requests -> Seq(Runs)]
  BY <1>1, <1>3
<1>5. ASSUME NEW r \in Requests, NEW v \in Runs
      PROVE  Contains(queue'[r], v) <=>
             run'[v].pc = "wait" /\ run'[v].at = r
  <2>1. Contains(queue[r], v) <=> run[v].pc = "wait" /\ run[v].at = r
    BY DEF JobInv, QueuesAreSound
  <2>2. Idle.pc # "wait"
    BY DEF Idle
  <2> QED BY <1>1, <1>3, <2>1, <2>2
<1> QED BY <1>3, <1>4, <1>5 DEF QueuesAreSound

LEMMA QueueStep == JobInv /\ [Next]_vars => QueuesAreSound'
<1> SUFFICES ASSUME JobInv, [Next]_vars PROVE QueuesAreSound'
  OBVIOUS
<1>1. QueuesAreSound /\ run \in [Runs -> RunStates] /\ \A w \in Runs : run[w] \in RunStates
  BY DEF JobInv, BatchInv, TablesAndRunsTyped
<1>2. CASE UNCHANGED <<run, queue>>
  BY <1>1, <1>2, SameQueues
<1>3. ASSUME NEW w \in Runs, Select(w) PROVE QueuesAreSound'
  BY <1>3, SelectQueues
<1>4. ASSUME NEW w \in Runs, NEW r \in Requests, Examine(w, r) PROVE QueuesAreSound'
  <2>1. /\ run[w].pc = "loop" /\ run'[w].pc \in {"loop", "due"} /\ queue' = queue
        /\ \A v \in Runs \ {w} : run'[v] = run[v]
    BY <1>1, <1>4 DEF Examine, Passed, RunStates
  <2> QED BY <1>1, <2>1, NotWaiting
<1>9. ASSUME NEW w \in Runs, Update(w) PROVE QueuesAreSound'
  <2> DEFINE r == run[w].at
  <2>1. r \in Requests /\ run[w].pc = "due"
    BY <1>9, FoundDue DEF Update, JobInv
  <2>2. CASE WaitForLock(w, r)
    BY <2>1, <2>2, WaitQueues
  <2>3. CASE queue' = queue /\ (Passed(w, r) \/ Remind(w, r))
    <3> HIDE DEF r
    <3>1. run'[w].pc = "loop" /\ \A v \in Runs \ {w} : run'[v] = run[v]
      BY <1>1, <2>3 DEF Passed, Remind, RunStates
    <3> QED BY <1>1, <2>1, <2>3, <3>1, NotWaiting
  <2> QED BY <1>9, <2>2, <2>3 DEF Update, Claim
<1>5. ASSUME NEW w \in Runs, Resume(w) PROVE QueuesAreSound'
  BY <1>5, ResumeQueues
<1>6. ASSUME NEW w \in Runs, Commit(w) PROVE QueuesAreSound'
  <2>1. run'[w] = Idle /\ \A v \in Runs \ {w} : run'[v] = run[v]
    BY <1>1, <1>6 DEF Commit
  <2>2. Idle.pc = "idle"
    BY DEF Idle
  <2> QED BY <1>1, <1>6, <2>1, <2>2, NotWaiting DEF Commit
<1>7. ASSUME NEW w \in Runs, BreakDeadlock(w) \/ Die(w) PROVE QueuesAreSound'
  BY <1>7, RollbackQueues DEF BreakDeadlock, Die
<1>8. ASSUME NEW r \in Requests, NEW runs, Overtaken(r, runs), queue' = queue
      PROVE  QueuesAreSound'
  <2>1. \A v \in Runs : run'[v].pc = run[v].pc /\ run'[v].at = run[v].at
    BY <1>1, <1>8 DEF Overtaken, RunStates
  <2> QED BY <1>1, <1>8, <2>1, SameQueues
<1>10. CASE \E r \in Requests : Revoke(r) \/ Complete(r) \/ Resend(r) \/ FollowUp(r)
  BY <1>2, <1>8, <1>10 DEF Revoke, Complete, Resend, FollowUp, Closing
<1> QED BY <1>2, <1>3, <1>4, <1>5, <1>6, <1>7, <1>9, <1>10
        DEF Next, RunStep, vars, Tick

(* The job's whole invariant. *)
THEOREM JobInvariant == Spec => []JobInv
<1>1. Init => QueuesAreSound
  <2> SUFFICES ASSUME Init PROVE QueuesAreSound OBVIOUS
  <2>1. queue \in [Requests -> Seq(Runs)] /\ \A r \in Requests : queue[r] = <<>>
    BY EmptySeq DEF Init
  <2>2. \A w \in Runs : run[w].pc = "idle"
    BY DEF Init, Idle
  <2>3. IsInjective(<<>>) /\ \A w \in Runs : ~Contains(<<>>, w)
    BY EmptySeq DEF IsInjective, Contains
  <2> QED BY <2>1, <2>2, <2>3 DEF QueuesAreSound
<1>2. Init => JobInv
  BY <1>1, InitEstablishes DEF JobInv
<1>3. JobInv /\ [Next]_vars => JobInv'
  BY BatchStep, QueueStep DEF JobInv
<1> QED BY <1>2, <1>3, PTL DEF Spec

(* Every variable of the job has its type, the queues of the locks too.     *)
THEOREM BatchTypeCorrect == Spec => []TypeOK
<1>1. JobInv => TypeOK
  BY DEF JobInv, BatchInv, TablesAndRunsTyped, QueuesAreSound, TypeOK
<1> QED BY <1>1, JobInvariant, PTL
-----------------------------------------------------------------------------
(* The job never stops for good *)

(* Where every run waits for the row of another one of them, some of them   *)
(* form a cycle: the smallest set that waits for itself has nobody in it    *)
(* that nobody waits for.                                                   *)
LEMMA WaitingRunsMeetInACycle ==
    ASSUME NEW W \in SUBSET Runs, W # {},
           \A w \in W : \E v \in W : WaitsFor(w, v)
    PROVE  \E w \in W : OnCycle(w)
<1> DEFINE Closed == {S \in SUBSET W : S # {} /\ \A w \in S : \E v \in S : WaitsFor(w, v)}
           order == StrictSubsetOrdering(Runs)
<1>1. IsWellFoundedOn(order, SUBSET Runs)
  BY ReminderBatchAssumption, FS_StrictSubsetOrderingWellFounded, FS_FiniteSubsetsOfFinite
<1>2. Closed \subseteq SUBSET Runs /\ W \in Closed
  OBVIOUS
<1>3. PICK S \in Closed : \A T \in Closed : <<T, S>> \notin order
  <2> HIDE DEF order, Closed
  <2>1. Closed # {}
    BY <1>2
  <2> QED BY <1>1, <1>2, <2>1, WFMin
<1>4. \A T \in Closed : T \subseteq S => T = S
  <2> SUFFICES ASSUME NEW T \in Closed, T \subseteq S, T # S PROVE FALSE
    OBVIOUS
  <2>1. T \in SUBSET Runs /\ S \in SUBSET Runs
    BY <1>2
  <2>2. <<T, S>> \in order
    BY <2>1 DEF StrictSubsetOrdering
  <2> QED BY <1>3, <2>2
<1> DEFINE T == {v \in S : \E u \in S : WaitsFor(u, v)}
<1>5. T \in Closed
  <2>1. S # {} /\ S \subseteq W /\ \A w \in S : \E v \in S : WaitsFor(w, v)
    BY <1>3
  <2>2. T # {} /\ T \subseteq W
    BY <2>1
  <2>3. ASSUME NEW w \in T PROVE \E v \in T : WaitsFor(w, v)
    BY <2>1
  <2> QED BY <2>2, <2>3
<1>6. T = S
  BY <1>4, <1>5
<1>7. S \in SUBSET Runs /\ S # {} /\ S \subseteq W
      /\ \A v \in S : (\E u \in S : WaitsFor(v, u)) /\ (\E u \in S : WaitsFor(u, v))
  <2>1. S \in SUBSET Runs /\ S # {} /\ S \subseteq W /\ \A v \in S : \E u \in S : WaitsFor(v, u)
    BY <1>3
  <2>2. \A v \in S : v \in T
    BY <1>6
  <2>3. \A v \in S : \E u \in S : WaitsFor(u, v)
    BY <2>2
  <2> QED BY <2>1, <2>3
<1> QED BY <1>7 DEF OnCycle

LEMMA SomebodyMoves == JobInv => JobGoesOn
<1> SUFFICES ASSUME JobInv, NEW a \in Runs, run[a].pc # "idle",
                    \A w \in Runs : ~CanMove(w)
             PROVE  FALSE
  BY DEF JobGoesOn
<1> DEFINE W == {w \in Runs : run[w].pc = "wait"}
<1>1. \A w \in Runs : run[w].pc \in {"idle", "wait"}
  BY DEF CanMove, JobInv, BatchInv, TablesAndRunsTyped, RunStates
<1>2. a \in W /\ W \in SUBSET Runs
  BY <1>1
<1>3. ASSUME NEW w \in W PROVE \E v \in W : WaitsFor(w, v)
  <2>1. w \in Runs /\ run[w].pc = "wait" /\ run[w].at \in Requests
    BY DEF JobInv, BatchInv, RunsAreSound, RunSound
  <2>2. Locked(run[w].at)
    <3> SUFFICES ASSUME ~Locked(run[w].at) PROVE FALSE OBVIOUS
    <3> DEFINE q == queue[run[w].at]
               head == Head(q)
    <3>1. q \in Seq(Runs) /\ Contains(q, w)
      BY <2>1 DEF JobInv, QueuesAreSound
    <3>2. Contains(q, head) /\ head \in Runs
      <4>1. Len(q) \in Nat /\ 1 \in 1..Len(q)
        BY <3>1, LenProperties DEF Contains
      <4>2. q # <<>> /\ head = q[1]
        BY <3>1, <4>1, EmptySeq
      <4> QED BY <3>1, <4>1, <4>2, ElementOfSeq DEF Contains
    <3>3. run[head].pc = "wait" /\ run[head].at = run[w].at
      BY <2>1, <3>2 DEF JobInv, QueuesAreSound
    <3>4. CanMove(head)
      BY <3>3 DEF CanMove
    <3> QED BY <3>2, <3>4
  <2>3. PICK v \in Runs : run[w].at \in run[v].claimed
    BY <2>2 DEF Locked
  <2>4. v \in W
    BY <1>1, <2>3 DEF JobInv, BatchInv, RunsAreSound, RunSound
  <2> QED BY <2>1, <2>3, <2>4 DEF WaitsFor
<1>4. \E w \in W : OnCycle(w)
  <2> HIDE DEF W
  <2> QED BY <1>2, <1>3, WaitingRunsMeetInACycle
<1> QED BY <1>4 DEF CanMove

(* However many runs overlap on however many rows, whatever they wait for   *)
(* and whoever died: as long as a run is under way, one of them has a step. *)
(* Under the fairness of FairSpec this is why no due reminder waits for     *)
(* ever; the liveness itself is checked and not proved.                     *)
THEOREM JobNeverStuck == Spec => []JobGoesOn
BY JobInvariant, SomebodyMoves, PTL
=============================================================================
