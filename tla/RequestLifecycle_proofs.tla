----------------------- MODULE RequestLifecycle_proofs -----------------------
(***************************************************************************)
(* What module RequestLifecycle promises, proved for every set of          *)
(* components, fields, documents and proposals, every reminder schedule,   *)
(* every expiry and every cap.                                             *)
(*                                                                         *)
(* The data half of the inductive invariant is inherited: a lifecycle step *)
(* is a step of the review or leaves the data alone (theorem               *)
(* LifecycleRefinesReview), so ReviewInv of ExtractionReview_proofs holds. *)
(* The other half is LifecycleInv below.                                   *)
(***************************************************************************)
EXTENDS RequestLifecycle, ExtractionReview_proofs, MissingInformation_proofs,
        SequenceTheorems

LifecycleInv ==
    /\ ReviewInv
    /\ TypeOK
    /\ DraftIsPrivate
    /\ NeverPester
    /\ AutomaticRoundsCapped
    /\ SnapshotIsFirst
-----------------------------------------------------------------------------
(* The data of the request *)

\* The lifecycle's calls, seen from the data, are calls of the review.
LEMMA StepOfReview == ASSUME [Next]_vars PROVE [ReviewNext]_reviewVars
<1>1. CASE CompanyNext
  BY <1>1 DEF CompanyNext, Send, Resend, Revoke, FollowUp, SetAutomaticFollowUp, Accept,
              Reject, Retry, Update, Create, OtherAccepts, ReviewNext
<1>2. CASE SupplierNext
  BY <1>2 DEF SupplierNext, Open, Submit, SubmitAgain, Save, Upload, Delete, ReviewNext
<1>3. CASE Tick \/ Remind \/ UNCHANGED vars
  BY <1>3 DEF Tick, Remind, vars
<1> QED
  BY <1>1, <1>2, <1>3 DEF Next

\* The lifecycle implements the review: whatever the request's status, link
\* and rounds allow, they only restrict the calls of module ExtractionReview.
THEOREM LifecycleRefinesReview == Spec => ImplementsReview
<1>1. Init => ReviewInit
  BY DEF Init
<1> QED
  BY <1>1, StepOfReview, PTL DEF Spec, ReviewSpec, ImplementsReview

\* Hence every theorem of the review holds of a whole request: whatever its
\* status, rounds and link do meanwhile, the reviewed proposals are final, and
\* documents reach the columns by accepts only.
THEOREM LifecycleKeepsReviews ==
    Spec => /\ []ReviewInv
            /\ ProposalsAreKept
            /\ NoSilentOverwrite
            /\ ValueHasProvenance
            /\ LinkIsNeverGuessed
BY LifecycleRefinesReview, ReviewInvariant, ProposalsKept, NothingOverwritten,
   EveryValueHasProvenance, LinksAreNotGuessed, PTL DEF ImplementsReview
-----------------------------------------------------------------------------
(* Rounds *)

\* A round records the slots it asks for.
LEMMA NewRoundIsTyped ==
    ASSUME NEW trigger \in {"manual", "automatic"},
           NEW cs \in SUBSET Components, NEW val, NEW pend
    PROVE  /\ NewRound(trigger, cs, val, pend) \in Rounds
           /\ NewRound(trigger, cs, val, pend).refs = MissingRefs(cs, val, pend)
           /\ NewRound(trigger, cs, val, pend).trigger = trigger
           /\ NewRound(trigger, cs, val, pend).missing =
                Cardinality(MissingSlots(cs, val, pend))
<1>1. Slots(cs) \subseteq Components \X Fields
  BY DEF Slots
<1>2. MissingRefs(cs, val, pend) \in SUBSET (Components \X Fields)
  BY <1>1, PartsAreSlots
<1>3. /\ Cardinality(AvailableSlots(cs, val, pend)) \in Nat
      /\ Cardinality(MissingSlots(cs, val, pend)) \in Nat
  BY PartsAreSlots, SlotsAreFinite
<1> QED
  BY <1>2, <1>3 DEF NewRound, Rounds

\* A new round that create_round lets through appends a round that asks for
\* something, for just what is missing, and not for what the last one asked.
LEMMA RoundIsFair ==
    ASSUME rounds \in Seq(Rounds), NeverPester,
           NEW trigger \in {"manual", "automatic"},
           NEW st, NEW cs \in SUBSET Components, NEW val, NEW pend,
           CanFollowUp(st, cs, val, pend),
           AddRound(trigger, cs, val, pend)
    PROVE  /\ rounds' \in Seq(Rounds)
           /\ rounds' # <<>>
           /\ NeverPester'
           /\ lastAsk' \in Asks
           /\ link = "live" /\ link' = "live"
           /\ tokenAge' = 0
           /\ anchorAge' = 0
           /\ st # "completed"
<1> DEFINE new == NewRound(trigger, cs, val, pend)
<1>1. new \in Rounds /\ new.refs = MissingRefs(cs, val, pend)
                     /\ new.missing = Cardinality(MissingSlots(cs, val, pend))
  BY NewRoundIsTyped
<1>2. new.refs # {} /\ new.missing = Cardinality(new.refs)
  BY <1>1, MissingMeaning DEF CanFollowUp
<1>3. rounds # <<>> => rounds[Len(rounds)].refs # new.refs
  BY <1>1 DEF CanFollowUp
<1>4. rounds' = Append(rounds, new)
  BY DEF AddRound
<1> HIDE DEF new
<1>5. /\ rounds' \in Seq(Rounds)
      /\ Len(rounds') = Len(rounds) + 1
      /\ rounds'[Len(rounds')] = new
      /\ \A i \in 1..Len(rounds) : rounds'[i] = rounds[i]
  BY <1>1, <1>4, AppendProperties
<1>6. ASSUME NEW i \in DOMAIN rounds'
      PROVE  /\ rounds'[i].refs # {}
             /\ rounds'[i].missing = Cardinality(rounds'[i].refs)
             /\ i > 1 => rounds'[i].refs # rounds'[i - 1].refs
  <2>1. i \in 1..(Len(rounds) + 1) /\ Len(rounds) \in Nat /\ DOMAIN rounds = 1..Len(rounds)
    BY <1>5
  <2>2. CASE i \in 1..Len(rounds)
    <3>1. i > 1 => i - 1 \in 1..Len(rounds)
      BY <2>1, <2>2
    <3> QED
      BY <1>5, <2>1, <2>2, <3>1 DEF NeverPester
  <2>3. CASE i = Len(rounds) + 1
    <3>1. rounds'[i] = new
      BY <1>5, <2>3
    <3>2. ASSUME i > 1
          PROVE  rounds'[i - 1] = rounds[Len(rounds)] /\ rounds # <<>>
      <4>1. i - 1 = Len(rounds) /\ Len(rounds) \in 1..Len(rounds)
        BY <2>1, <2>3, <3>2
      <4> QED
        BY <1>5, <4>1
    <3> QED
      BY <1>2, <1>3, <3>1, <3>2
  <2> QED
    BY <2>1, <2>2, <2>3
<1>7. NeverPester'
  BY <1>6 DEF NeverPester
<1>8. MissingRefs(cs, val, pend) \in SUBSET (Components \X Fields)
  BY <1>1 DEF Rounds
<1>9. lastAsk' \in Asks /\ link' = "live" /\ tokenAge' = 0 /\ anchorAge' = 0
  BY <1>8 DEF AddRound, MintAndEmail, FollowUpEmail, Asks
<1>10. rounds' # <<>>
  BY <1>5
<1> QED
  BY <1>5, <1>7, <1>9, <1>10 DEF CanFollowUp

\* There are finitely many automatic rounds.
LEMMA AutomaticRoundsAreFinite ==
    ASSUME rounds \in Seq(Rounds)
    PROVE  IsFiniteSet(AutomaticRounds) /\ Cardinality(AutomaticRounds) \in Nat
<1>1. AutomaticRounds \in SUBSET (1..Len(rounds)) /\ Len(rounds) \in Nat
  BY DEF AutomaticRounds
<1>2. IsFiniteSet(1..Len(rounds))
  BY <1>1, FS_Interval
<1> QED
  BY <1>1, <1>2, FS_Subset, FS_CardinalityType

\* The automatic rounds of a longer list of rounds.
LEMMA AutomaticRoundsGrow ==
    ASSUME rounds \in Seq(Rounds),
           NEW new \in Rounds, rounds' = Append(rounds, new)
    PROVE  /\ new.trigger = "automatic" =>
                Cardinality(AutomaticRounds') = Cardinality(AutomaticRounds) + 1
           /\ new.trigger # "automatic" =>
                Cardinality(AutomaticRounds') = Cardinality(AutomaticRounds)
           /\ Cardinality(AutomaticRounds) \in Nat
<1>1. /\ Len(rounds') = Len(rounds) + 1
      /\ Len(rounds) \in Nat
      /\ DOMAIN rounds = 1..Len(rounds)
      /\ DOMAIN rounds' = 1..(Len(rounds) + 1)
      /\ rounds'[Len(rounds) + 1] = new
      /\ \A i \in 1..Len(rounds) : rounds'[i] = rounds[i]
  BY AppendProperties
<1>2. IsFiniteSet(AutomaticRounds) /\ Cardinality(AutomaticRounds) \in Nat
  BY AutomaticRoundsAreFinite
<1>3. Len(rounds) + 1 \notin AutomaticRounds
  BY <1>1 DEF AutomaticRounds
<1>4. CASE new.trigger = "automatic"
  <2>1. AutomaticRounds' = AutomaticRounds \cup {Len(rounds) + 1}
    BY <1>1, <1>4 DEF AutomaticRounds
  <2> QED
    BY <1>2, <1>3, <1>4, <2>1, FS_AddElement
<1>5. CASE new.trigger # "automatic"
  <2>1. AutomaticRounds' = AutomaticRounds
    BY <1>1, <1>5 DEF AutomaticRounds
  <2> QED
    BY <1>2, <1>5, <2>1
<1> QED
  BY <1>2, <1>4, <1>5
-----------------------------------------------------------------------------
(* Re-evaluation *)

AutomaticCapped == Cardinality(AutomaticRounds) >= MaxAutomaticRounds

\* reevaluate does one of three things: it completes the request, or it opens
\* an automatic round below the cap, or it leaves the request as it is and at
\* most calls for a human because the cap is used up.
LEMMA ReevaluateOutcomes ==
    ASSUME needsHuman \in BOOLEAN, NEW st, NEW cs, NEW val, NEW pend,
           Reevaluate(st, cs, val, pend)
    PROVE  /\ needsHuman' \in BOOLEAN
           /\ \/ /\ Complete(cs, val, pend) /\ Slots(cs) # {}
                 /\ status' = "completed"
                 /\ AskNothing
                 /\ needsHuman' = needsHuman
              \/ /\ CanFollowUp(st, cs, val, pend) /\ ~AutomaticCapped
                 /\ status' = st
                 /\ AddRound("automatic", cs, val, pend)
                 /\ needsHuman' = needsHuman
              \/ /\ status' = st
                 /\ AskNothing
                 /\ needsHuman' => needsHuman \/ (AutomaticCapped /\ CanFollowUp(st, cs, val, pend))
<1> DEFINE completes == Slots(cs) # {} /\ Complete(cs, val, pend)
           attempts  == Slots(cs) # {} /\ automatic /\ CanFollowUp(st, cs, val, pend)
<1>1. /\ status' = IF completes THEN "completed" ELSE st
      /\ IF attempts /\ ~AutomaticCapped THEN AddRound("automatic", cs, val, pend)
                                         ELSE AskNothing
      /\ needsHuman' = (needsHuman \/ (attempts /\ AutomaticCapped))
  BY DEF Reevaluate, AutomaticCapped
<1>2. needsHuman' \in BOOLEAN
  BY <1>1
<1>3. ~(completes /\ attempts)
  BY MissingMeaning DEF CanFollowUp
<1>4. CASE completes
  <2>1. needsHuman' = needsHuman
    BY <1>1, <1>3, <1>4
  <2> QED
    BY <1>1, <1>2, <1>3, <1>4, <2>1
<1>5. CASE attempts /\ ~AutomaticCapped
  <2>1. needsHuman' = needsHuman
    BY <1>1, <1>5
  <2> QED
    BY <1>1, <1>2, <1>3, <1>5, <2>1
<1>6. CASE ~completes /\ ~(attempts /\ ~AutomaticCapped)
  BY <1>1, <1>2, <1>6
<1> QED
  BY <1>4, <1>5, <1>6

\* The calls that end with reevaluate, in one form: the status st it starts
\* from and the data it reads are those the handler has just written.
Reviewing ==
    /\ \/ \E r \in Rows, c \in Components, resolution \in Resolutions :
             AcceptField(r, c, resolution)
       \/ \E r \in Rows : RejectField(r)
    /\ Reevaluate(status, comps', value', PendingProposals(rows'))
    /\ UNCHANGED <<reminders, automatic, submitted, snapshot>>

\* The calls that change the data and nothing of the request.  With no link
\* and no document they cannot touch a proposal.
DataCall ==
    /\ UNCHANGED requestVars
    /\ comps \subseteq comps'
    /\ (link = "none" /\ \A d \in Docs : docs[d] = "absent") => UNCHANGED <<docs, rows>>

\* The calls of the lifecycle, each with what it is allowed to do.
LEMMA CallKinds ==
    ASSUME Next
    PROVE  \/ Send \/ Resend \/ Revoke \/ FollowUp \/ Reviewing \/ DataCall
           \/ \E enabled \in BOOLEAN : SetAutomaticFollowUp(enabled)
           \/ Open \/ Submit \/ SubmitAgain
           \/ \E e \in Edits(comps \X SupplierFields) : Save(e)
           \/ Tick \/ Remind
<1>1. CASE CompanyNext
  BY <1>1 DEF CompanyNext, Accept, Reject, ReevaluateData, Reviewing, Retry, Update, Create,
              OtherAccepts, RetryExtraction, UpdateComponent, CreateComponent, AcceptElsewhere,
              DataCall
<1>2. CASE SupplierNext
  <2>1. ASSUME NEW d \in Docs, Upload(d) \/ Delete(d)
        PROVE  DataCall
    BY <2>1 DEF Upload, Delete, UploadDocument, DeleteDocument, LinkWorks, DataCall
  <2> QED
    BY <1>2, <2>1 DEF SupplierNext
<1> QED
  BY <1>1, <1>2 DEF Next

\* Rounds that do not change keep what is said of them.
LEMMA SameRounds ==
    ASSUME UNCHANGED rounds
    PROVE  /\ NeverPester => NeverPester'
           /\ AutomaticRounds' = AutomaticRounds
BY DEF NeverPester, AutomaticRounds

\* The types of the ages.
LEMMA AgesAreTyped == AgeCap \in Nat /\ 0 \in 0..AgeCap /\ 0 \in 0..LongestDelay
BY RequestLifecycleAssumption DEF AgeCap

\* The cap holds after a re-evaluation, and so does everything else that is
\* said of the rounds, the link and the flag.
LEMMA ReevaluateKeeps ==
    ASSUME TypeOK, NeverPester, AutomaticRoundsCapped, link # "none",
           NEW st \in Statuses \ {"draft"},
           NEW cs \in SUBSET Components, NEW val, NEW pend,
           Reevaluate(st, cs, val, pend)
    PROVE  /\ status' \in Statuses \ {"draft"}
           /\ link' \in {"live", "revoked"}
           /\ tokenAge' \in 0..AgeCap
           /\ anchorAge' \in 0..LongestDelay
           /\ rounds' \in Seq(Rounds)
           /\ lastAsk' \in Asks
           /\ needsHuman' \in BOOLEAN
           /\ NeverPester'
           /\ AutomaticRoundsCapped'
<1> USE DEF TypeOK
<1>1. MaxAutomaticRounds \in Nat
  BY RequestLifecycleAssumption
<1>2. "completed" \in Statuses \ {"draft"}
  BY DEF Statuses
<1>3. CASE status' \in {st, "completed"} /\ AskNothing /\ needsHuman' \in BOOLEAN
           /\ (needsHuman' => needsHuman \/ AutomaticCapped)
  <2>1. UNCHANGED <<link, tokenAge, anchorAge, rounds, lastAsk>>
    BY <1>3 DEF AskNothing
  <2>2. NeverPester' /\ AutomaticRounds' = AutomaticRounds
    BY <2>1, SameRounds
  <2>3. Cardinality(AutomaticRounds) \in Nat
    BY AutomaticRoundsAreFinite
  <2>4. AutomaticRoundsCapped'
    BY <1>1, <1>3, <2>2, <2>3 DEF AutomaticRoundsCapped, AutomaticCapped
  <2> QED
    BY <1>2, <1>3, <2>1, <2>2, <2>4
<1>4. CASE /\ CanFollowUp(st, cs, val, pend) /\ ~AutomaticCapped
           /\ status' = st
           /\ AddRound("automatic", cs, val, pend)
           /\ needsHuman' = needsHuman
  <2>1. /\ rounds' \in Seq(Rounds)
        /\ NeverPester'
        /\ lastAsk' \in Asks
        /\ link' = "live"
        /\ tokenAge' \in 0..AgeCap
        /\ anchorAge' \in 0..LongestDelay
    BY <1>4, RoundIsFair, AgesAreTyped
  <2>2. /\ Cardinality(AutomaticRounds') = Cardinality(AutomaticRounds) + 1
        /\ Cardinality(AutomaticRounds) \in Nat
    <3> DEFINE new == NewRound("automatic", cs, val, pend)
    <3>1. new \in Rounds /\ new.trigger = "automatic"
      BY NewRoundIsTyped
    <3>2. rounds' = Append(rounds, new)
      BY <1>4 DEF AddRound
    <3> HIDE DEF new
    <3> QED
      BY <3>1, <3>2, AutomaticRoundsGrow
  <2>3. AutomaticRoundsCapped'
    BY <1>1, <1>4, <2>2 DEF AutomaticRoundsCapped, AutomaticCapped
  <2> QED
    BY <1>4, <2>1, <2>3
<1> QED
  BY <1>3, <1>4, ReevaluateOutcomes
-----------------------------------------------------------------------------
(* The inductive invariant *)

\* A new request satisfies the invariant.
LEMMA LifecycleInitInv == Init => LifecycleInv
<1> SUFFICES ASSUME Init PROVE LifecycleInv
  OBVIOUS
<1>1. ReviewInv
  BY ReviewInitInv DEF Init
<1>2. rounds = <<>> /\ AutomaticRounds = {} /\ Cardinality({}) = 0
  BY FS_EmptySet DEF Init, AutomaticRounds
<1>3. TypeOK
  <2>1. rounds \in Seq(Rounds)
    BY <1>2
  <2>2. reminders \in 0..Len(ReminderSchedule)
    <3>1. Len(ReminderSchedule) \in Nat
      BY RequestLifecycleAssumption
    <3> QED
      BY <3>1 DEF Init
  <2>3. lastAsk \in Asks
    BY DEF Init, Asks
  <2> QED
    BY <1>1, <2>1, <2>2, <2>3, AgesAreTyped DEF Init, TypeOK, ReviewInv, Statuses
<1>4. DraftIsPrivate
  BY DEF Init, ReviewInit, DraftIsPrivate, LiveRows
<1>5. NeverPester
  BY <1>2 DEF NeverPester
<1>6. AutomaticRoundsCapped
  BY <1>2, RequestLifecycleAssumption DEF Init, AutomaticRoundsCapped
<1>7. SnapshotIsFirst
  <2>1. comps = {} /\ ~submitted /\ snapshot = NoSnapshot
    BY DEF Init, ReviewInit
  <2>2. Cardinality(Slots(comps)) \in Nat
    BY <2>1, SlotsAreFinite
  <2> QED
    BY <2>1, <2>2 DEF SnapshotIsFirst, NoSnapshot
<1> QED
  BY <1>1, <1>3, <1>4, <1>5, <1>6, <1>7 DEF LifecycleInv

\* What is said of the snapshot survives every call that keeps it.
LEMMA SnapshotKept ==
    ASSUME SnapshotIsFirst, UNCHANGED <<submitted, snapshot>>, comps \subseteq comps',
           comps' \in SUBSET Components, snapshot \in Nat \cup {NoSnapshot}
    PROVE  SnapshotIsFirst'
<1>1. Slots(comps) \in SUBSET Slots(comps')
  BY DEF Slots
<1>2. /\ Cardinality(Slots(comps)) <= Cardinality(Slots(comps'))
      /\ Cardinality(Slots(comps)) \in Nat
      /\ Cardinality(Slots(comps')) \in Nat
  BY <1>1, SlotsAreFinite
<1> QED
  BY <1>2 DEF SnapshotIsFirst, NoSnapshot

\* The supplier's calls need a link, and a review needs a proposal: neither is
\* possible in a draft.
LEMMA NotInDraft ==
    ASSUME LifecycleInv
    PROVE  /\ LinkWorks => status # "draft" /\ link # "none"
           /\ Reviewing => status # "draft" /\ link # "none"
<1>1. LinkWorks => link = "live"
  BY DEF LinkWorks
<1>2. ASSUME Reviewing PROVE LiveRows(rows) # {}
  BY <1>2 DEF Reviewing, AcceptField, RejectField, PendingRows
<1> QED
  BY <1>1, <1>2 DEF LifecycleInv, DraftIsPrivate

\* The invariant is kept by every call, by time and by the reminder job.
LEMMA LifecycleNextInv == LifecycleInv /\ [Next]_vars => LifecycleInv'
<1> SUFFICES ASSUME LifecycleInv, [Next]_vars
             PROVE  LifecycleInv'
  OBVIOUS
<1> USE DEF LifecycleInv
<1>1. ReviewInv' /\ ReviewTypeOK' /\ comps' \in SUBSET Components
  BY StepOfReview, ReviewNextInv DEF ReviewInv, ReviewTypeOK
<1>2. comps \in SUBSET Components /\ snapshot \in Nat \cup {NoSnapshot}
  BY DEF TypeOK, ReviewTypeOK
<1>3. CASE Send
  <2>1. UNCHANGED <<reviewVars, reminders, automatic, submitted, snapshot, rounds, needsHuman>>
    BY <1>3 DEF Send
  <2>2. /\ status = "draft" /\ status' = "sent" /\ link' = "live"
        /\ tokenAge' = 0 /\ anchorAge' = 0
        /\ lastAsk' = RequestEmail
    BY <1>3 DEF Send, MintAndEmail
  <2>3. lastAsk' \in Asks
    BY <2>2 DEF RequestEmail, Asks
  <2>4. TypeOK'
    BY <1>1, <2>1, <2>2, <2>3, AgesAreTyped DEF TypeOK, Statuses
  <2>5. DraftIsPrivate'
    BY <2>2 DEF DraftIsPrivate
  <2>6. SnapshotIsFirst'
    BY <1>1, <1>2, <2>1, SnapshotKept DEF reviewVars
  <2>7. NeverPester' /\ AutomaticRoundsCapped'
    BY <2>1, SameRounds DEF AutomaticRoundsCapped
  <2> QED
    BY <1>1, <2>4, <2>5, <2>6, <2>7
<1>4. CASE Resend \/ Remind
  <2>1. /\ UNCHANGED <<reviewVars, status, anchorAge, automatic, submitted, snapshot, rounds,
                       needsHuman>>
        /\ link' = "live" /\ tokenAge' = 0
        /\ reminders' \in 0..Len(ReminderSchedule)
    BY <1>4, RequestLifecycleAssumption
    DEF Resend, Remind, ReminderDue, MintAndEmail, TypeOK
  <2>2. status # "draft"
    BY <1>4 DEF Resend, Remind, ReminderDue, ActiveStatuses
  <2>3. lastAsk' \in Asks
    <3>1. MissingRefs(comps, value, PendingProposals(rows)) \in SUBSET (Components \X Fields)
      BY <1>2, PartsAreSlots DEF Slots
    <3> QED
      BY <1>4, <3>1 DEF Resend, Remind, MintAndEmail, RequestEmail, FollowUpEmail, Asks
  <2>4. TypeOK'
    BY <1>1, <2>1, <2>3, AgesAreTyped DEF TypeOK
  <2>5. DraftIsPrivate'
    BY <2>1, <2>2 DEF DraftIsPrivate
  <2>6. SnapshotIsFirst'
    BY <1>1, <1>2, <2>1, SnapshotKept DEF reviewVars
  <2>7. NeverPester' /\ AutomaticRoundsCapped'
    BY <2>1, SameRounds DEF AutomaticRoundsCapped
  <2> QED
    BY <1>1, <2>4, <2>5, <2>6, <2>7
<1>5. CASE Revoke
  <2>1. /\ UNCHANGED <<reviewVars, status, tokenAge, anchorAge, reminders, automatic, submitted,
                       snapshot, rounds, lastAsk, needsHuman>>
        /\ link = "live" /\ link' = "revoked"
    BY <1>5 DEF Revoke
  <2>2. TypeOK'
    BY <1>1, <2>1 DEF TypeOK
  <2>3. DraftIsPrivate'
    BY <2>1 DEF DraftIsPrivate
  <2>4. SnapshotIsFirst'
    BY <1>1, <1>2, <2>1, SnapshotKept DEF reviewVars
  <2>5. NeverPester' /\ AutomaticRoundsCapped'
    BY <2>1, SameRounds DEF AutomaticRoundsCapped
  <2> QED
    BY <1>1, <2>2, <2>3, <2>4, <2>5
<1>6. CASE FollowUp
  <2> DEFINE pend == PendingProposals(rows)
             new  == NewRound("manual", comps, value, pend)
  <2>1. /\ UNCHANGED <<reviewVars, status, reminders, automatic, submitted, snapshot,
                       needsHuman>>
        /\ CanFollowUp(status, comps, value, pend)
        /\ AddRound("manual", comps, value, pend)
    BY <1>6 DEF FollowUp
  <2>2. /\ rounds' \in Seq(Rounds)
        /\ NeverPester'
        /\ lastAsk' \in Asks
        /\ link = "live" /\ link' = "live"
        /\ tokenAge' = 0 /\ anchorAge' = 0
    BY <1>2, <2>1, RoundIsFair DEF TypeOK
  <2>3. TypeOK'
    BY <1>1, <2>1, <2>2, AgesAreTyped DEF TypeOK
  <2>4. DraftIsPrivate'
    BY <2>1, <2>2 DEF DraftIsPrivate
  <2>5. SnapshotIsFirst'
    BY <1>1, <1>2, <2>1, SnapshotKept DEF reviewVars
  <2>6. AutomaticRoundsCapped'
    <3>1. new \in Rounds /\ new.trigger # "automatic"
      BY <1>2, NewRoundIsTyped
    <3>2. rounds' = Append(rounds, new)
      BY <2>1 DEF AddRound
    <3> HIDE DEF new
    <3>3. Cardinality(AutomaticRounds') = Cardinality(AutomaticRounds)
      BY <3>1, <3>2, AutomaticRoundsGrow DEF TypeOK
    <3> QED
      BY <2>1, <3>3 DEF AutomaticRoundsCapped
  <2> QED
    BY <1>1, <2>2, <2>3, <2>4, <2>5, <2>6
<1>7. CASE Reviewing
  <2>1. /\ Reevaluate(status, comps', value', PendingProposals(rows'))
        /\ UNCHANGED <<reminders, automatic, submitted, snapshot>>
        /\ status # "draft" /\ link # "none"
    BY <1>7, NotInDraft DEF Reviewing
  <2>2. comps' = comps
    BY <1>7 DEF Reviewing, AcceptField, RejectField
  <2>3. /\ status' \in Statuses \ {"draft"}
        /\ link' \in {"live", "revoked"}
        /\ tokenAge' \in 0..AgeCap /\ anchorAge' \in 0..LongestDelay
        /\ rounds' \in Seq(Rounds)
        /\ lastAsk' \in Asks
        /\ needsHuman' \in BOOLEAN
        /\ NeverPester' /\ AutomaticRoundsCapped'
    BY <1>1, <2>1, ReevaluateKeeps DEF TypeOK
  <2>4. TypeOK'
    BY <1>1, <2>1, <2>3 DEF TypeOK
  <2>5. DraftIsPrivate'
    BY <2>3 DEF DraftIsPrivate
  <2>6. SnapshotIsFirst'
    BY <1>1, <1>2, <2>1, <2>2, SnapshotKept
  <2> QED
    BY <1>1, <2>3, <2>4, <2>5, <2>6
<1>8. CASE DataCall \/ UNCHANGED vars
  <2>1. UNCHANGED requestVars /\ comps \subseteq comps'
    BY <1>8 DEF DataCall, vars, reviewVars
  <2>2. TypeOK'
    BY <1>1, <2>1 DEF TypeOK, requestVars
  <2>3. DraftIsPrivate'
    BY <1>8, <2>1 DEF DraftIsPrivate, DataCall, LiveRows, requestVars, vars, reviewVars
  <2>4. SnapshotIsFirst'
    BY <1>1, <1>2, <2>1, SnapshotKept DEF requestVars
  <2>5. NeverPester' /\ AutomaticRoundsCapped'
    BY <2>1, SameRounds DEF AutomaticRoundsCapped, requestVars
  <2> QED
    BY <1>1, <2>2, <2>3, <2>4, <2>5
<1>9. CASE (\E enabled \in BOOLEAN : SetAutomaticFollowUp(enabled)) \/ Open \/ Tick
  <2>1. /\ UNCHANGED <<reviewVars, link, reminders, submitted, snapshot, rounds, lastAsk,
                       needsHuman>>
        /\ automatic' \in BOOLEAN
    BY <1>9 DEF SetAutomaticFollowUp, Open, Tick, TypeOK
  <2>2. tokenAge' \in 0..AgeCap /\ anchorAge' \in 0..LongestDelay
    BY <1>9, AgesAreTyped, RequestLifecycleAssumption
    DEF SetAutomaticFollowUp, Open, Tick, Older, TypeOK
  <2>3. status' \in Statuses /\ (status' = "draft" <=> status = "draft")
    BY <1>9 DEF SetAutomaticFollowUp, Open, Tick, TypeOK, Statuses
  <2>4. TypeOK'
    BY <1>1, <2>1, <2>2, <2>3 DEF TypeOK
  <2>5. DraftIsPrivate'
    BY <2>1, <2>3 DEF DraftIsPrivate, reviewVars
  <2>6. SnapshotIsFirst'
    BY <1>1, <1>2, <2>1, SnapshotKept DEF reviewVars
  <2>7. NeverPester' /\ AutomaticRoundsCapped'
    BY <2>1, SameRounds DEF AutomaticRoundsCapped
  <2> QED
    BY <1>1, <2>4, <2>5, <2>6, <2>7
<1>10. CASE \E e \in Edits(comps \X SupplierFields) : Save(e)
  <2>1. /\ UNCHANGED <<comps, docs, rows>>
        /\ UNCHANGED <<link, tokenAge, anchorAge, reminders, automatic, submitted, snapshot,
                       rounds, lastAsk, needsHuman>>
        /\ status' = "in_progress"
        /\ LinkWorks
    BY <1>10 DEF Save, SaveProgress
  <2>2. TypeOK'
    BY <1>1, <2>1 DEF TypeOK, Statuses
  <2>3. DraftIsPrivate'
    BY <2>1, NotInDraft DEF DraftIsPrivate
  <2>4. SnapshotIsFirst'
    BY <1>1, <1>2, <2>1, SnapshotKept
  <2>5. NeverPester' /\ AutomaticRoundsCapped'
    BY <2>1, SameRounds DEF AutomaticRoundsCapped
  <2> QED
    BY <1>1, <2>2, <2>3, <2>4, <2>5
<1>11. CASE Submit \/ SubmitAgain
  <2> DEFINE pend == PendingProposals(rows)
  <2>1. PICK st \in {"submitted", "completed"} : Reevaluate(st, comps, value, pend)
    BY <1>11 DEF Submit, SubmitAgain
  <2>2. UNCHANGED <<reviewVars, reminders, automatic>> /\ LinkWorks
    BY <1>11 DEF Submit, SubmitAgain
  <2>3. st \in Statuses \ {"draft"} /\ link # "none"
    BY <2>2, NotInDraft DEF Statuses
  <2>4. /\ status' \in Statuses \ {"draft"}
        /\ link' \in {"live", "revoked"}
        /\ tokenAge' \in 0..AgeCap /\ anchorAge' \in 0..LongestDelay
        /\ rounds' \in Seq(Rounds)
        /\ lastAsk' \in Asks
        /\ needsHuman' \in BOOLEAN
        /\ NeverPester' /\ AutomaticRoundsCapped'
    BY <1>2, <2>1, <2>3, ReevaluateKeeps
  <2>5. DraftIsPrivate'
    BY <2>4 DEF DraftIsPrivate
  <2>6. CASE UNCHANGED <<submitted, snapshot>>
    <3>1. SnapshotIsFirst'
      BY <1>1, <1>2, <2>2, <2>6, SnapshotKept DEF reviewVars
    <3>2. TypeOK'
      BY <1>1, <2>2, <2>4, <2>6 DEF TypeOK
    <3> QED
      BY <1>1, <2>4, <2>5, <3>1, <3>2
  <2>7. CASE /\ submitted' = TRUE
             /\ snapshot' = IF submitted THEN snapshot
                            ELSE Cardinality(AvailableSlots(comps, value, pend))
    <3> DEFINE available == AvailableSlots(comps, value, pend)
    <3>1. /\ Cardinality(available) \in Nat
          /\ Cardinality(available) <= Cardinality(Slots(comps))
      BY <1>2, PartsAreSlots, SlotsAreFinite
    <3>2. comps' = comps
      BY <2>2 DEF reviewVars
    <3> HIDE DEF available
    <3>3. snapshot' \in Nat /\ snapshot' <= Cardinality(Slots(comps))
      BY <1>2, <2>7, <3>1 DEF SnapshotIsFirst, available
    <3>4. SnapshotIsFirst'
      BY <2>7, <3>2, <3>3 DEF SnapshotIsFirst, NoSnapshot
    <3>5. TypeOK'
      BY <1>1, <2>2, <2>4, <2>7, <3>3 DEF TypeOK
    <3> QED
      BY <1>1, <2>4, <2>5, <3>4, <3>5
  <2> QED
    BY <1>11, <2>6, <2>7 DEF Submit, SubmitAgain
<1> QED
  BY <1>3, <1>4, <1>5, <1>6, <1>7, <1>8, <1>9, <1>10, <1>11, CallKinds

\* Every call keeps the invariant, so it always holds.
THEOREM LifecycleInvariant == Spec => []LifecycleInv
BY LifecycleInitInv, LifecycleNextInv, PTL DEF Spec

\* Type correctness of the lifecycle's state.
THEOREM LifecycleTypeCorrect == Spec => []TypeOK
<1>1. LifecycleInv => TypeOK
  BY DEF LifecycleInv
<1> QED
  BY <1>1, LifecycleInvariant, PTL

\* A draft has no link, email, round, document or proposal; everything else
\* has had a link.
THEOREM DraftsArePrivate == Spec => []DraftIsPrivate
<1>1. LifecycleInv => DraftIsPrivate
  BY DEF LifecycleInv
<1> QED
  BY <1>1, LifecycleInvariant, PTL

\* No round asked for nothing, for something under review, or for what the
\* round before it asked for.
THEOREM SupplierIsNeverPestered == Spec => []NeverPester
<1>1. LifecycleInv => NeverPester
  BY DEF LifecycleInv
<1> QED
  BY <1>1, LifecycleInvariant, PTL

\* The automatic loop stops at its cap and calls for a human only there.
THEOREM AutomaticLoopIsCapped == Spec => []AutomaticRoundsCapped
<1>1. LifecycleInv => AutomaticRoundsCapped
  BY DEF LifecycleInv
<1> QED
  BY <1>1, LifecycleInvariant, PTL

\* The recovery metric's starting point exists exactly from the first
\* submission and never exceeds what the request covers.
THEOREM SnapshotIsTaken == Spec => []SnapshotIsFirst
<1>1. LifecycleInv => SnapshotIsFirst
  BY DEF LifecycleInv
<1> QED
  BY <1>1, LifecycleInvariant, PTL
-----------------------------------------------------------------------------
(* The steps *)

\* Only a call that ends with reevaluate completes a request, and then what
\* the summary calls complete is complete on the data themselves.
THEOREM CompletionEarned == Spec => CompletionIsEarned
<1>1. ASSUME LifecycleInv, LifecycleInv', [Next]_vars, status # "completed",
             status' = "completed"
      PROVE  AllAnswered(comps', value', rows')
  <2> USE DEF LifecycleInv
  <2>1. Reviewing \/ Submit
    <3>1. Next
      BY <1>1 DEF vars, requestVars
    <3> QED
      BY <1>1, <3>1, CallKinds
      DEF Send, Resend, Revoke, FollowUp, SetAutomaticFollowUp, Open, SubmitAgain, Save,
          DataCall, requestVars, Tick, Remind
  <2>2. \E st \in Statuses \ {"completed"} :
           Reevaluate(st, comps', value', PendingProposals(rows'))
    <3>1. CASE Reviewing
      BY <1>1, <3>1 DEF Reviewing, TypeOK
    <3>2. CASE Submit
      <4>1. /\ Reevaluate("submitted", comps, value, PendingProposals(rows))
            /\ comps' = comps /\ value' = value /\ rows' = rows
        BY <3>2 DEF Submit, reviewVars
      <4> QED
        BY <4>1 DEF Statuses
    <3> QED
      BY <2>1, <3>1, <3>2
  <2> DEFINE pend == PendingProposals(rows')
  <2>3. Complete(comps', value', pend) /\ Slots(comps') # {}
    BY <1>1, <2>2, ReevaluateOutcomes DEF TypeOK
  <2>4. /\ \A s \in Slots(comps') : value'[s] # NoValue /\ PendingFor(pend, s) = {}
        /\ Unresolved(pend) = {}
    BY <2>3, CompleteMeaning
  <2>5. comps' # {}
    BY <2>3 DEF Slots
  <2>6. ASSUME NEW r \in PendingRows(rows') PROVE FALSE
    <3> DEFINE p == [comp |-> rows'[r].comp, field |-> rows'[r].field, value |-> rows'[r].value]
    <3>1. r \in LiveRows(rows')
      BY <2>6 DEF PendingRows
    <3>2. p \in pend
      BY <2>6 DEF PendingProposals
    <3>3. rows'[r].comp \in comps' \cup {NoComponent}
      BY <1>1, <3>1 DEF ReviewInv, LinksStayValid
    <3>4. rows'[r].field \in Fields
      BY <1>1, <3>1 DEF ReviewInv, ReviewTypeOK, LiveRows, RowRecords
    <3>5. CASE rows'[r].comp = NoComponent
      BY <2>4, <3>2, <3>5 DEF Unresolved
    <3>6. CASE rows'[r].comp \in comps'
      <4>1. <<rows'[r].comp, rows'[r].field>> \in Slots(comps')
        BY <3>4, <3>6 DEF Slots
      <4>2. p \in PendingFor(pend, <<rows'[r].comp, rows'[r].field>>)
        BY <3>2 DEF PendingFor
      <4> QED
        BY <2>4, <4>1, <4>2
    <3> QED
      BY <3>3, <3>5, <3>6
  <2> QED
    BY <2>4, <2>5, <2>6 DEF AllAnswered
<1>2. LifecycleInv /\ LifecycleInv' /\ [Next]_vars => [EarnsCompletion]_vars
  BY <1>1 DEF EarnsCompletion
<1> QED
  BY <1>2, LifecycleInvariant, PTL DEF Spec, CompletionIsEarned

\* A re-evaluation of a completed request, or of one whose link is not live,
\* asks nothing.
LEMMA ReevaluateAsksNothing ==
    ASSUME TypeOK, NEW st, NEW cs, NEW val, NEW pend,
           Reevaluate(st, cs, val, pend),
           st = "completed" \/ link # "live"
    PROVE  AskNothing /\ status' \in {st, "completed"}
<1>1. ~CanFollowUp(st, cs, val, pend)
  BY DEF CanFollowUp
<1> QED
  BY <1>1, ReevaluateOutcomes DEF TypeOK

\* Completion is final for the supplier and for the work, whatever the company
\* does to the data afterwards.
THEOREM CompletionFinal == Spec => CompletionIsFinal
<1>1. ASSUME LifecycleInv, Next, status = "completed"
      PROVE  /\ status' = "completed"
             /\ UNCHANGED <<rounds, lastAsk, reminders, submitted, snapshot>>
             /\ tokenAge' >= tokenAge
             /\ link' \in {link, "revoked"}
  <2>1. tokenAge \in Nat
    BY <1>1, AgesAreTyped DEF LifecycleInv, TypeOK
  <2>2. CASE Reviewing \/ SubmitAgain
    <3>1. \E cs, val, pend : Reevaluate(status, cs, val, pend)
      BY <2>2 DEF Reviewing, SubmitAgain
    <3>2. AskNothing /\ status' = "completed"
      BY <1>1, <3>1, ReevaluateAsksNothing DEF LifecycleInv
    <3> QED
      BY <2>1, <2>2, <3>2 DEF AskNothing, Reviewing, SubmitAgain
  <2>3. CASE Tick
    BY <1>1, <2>1, <2>3 DEF Tick, Older
  <2>4. CASE Revoke \/ DataCall \/ \E enabled \in BOOLEAN : SetAutomaticFollowUp(enabled)
    BY <1>1, <2>1, <2>4 DEF Revoke, DataCall, SetAutomaticFollowUp, requestVars
  <2>5. ~(Send \/ Resend \/ FollowUp \/ Open \/ Submit \/ Remind)
    BY <1>1 DEF Send, Resend, FollowUp, CanFollowUp, Open, Submit, Remind, ReminderDue,
                ActiveStatuses
  <2>6. ~ \E e \in Edits(comps \X SupplierFields) : Save(e)
    BY <1>1 DEF Save
  <2> QED
    BY <1>1, <2>2, <2>3, <2>4, <2>5, <2>6, CallKinds
<1>2. LifecycleInv /\ [Next]_vars => [KeepsCompletion]_vars
  BY <1>1 DEF KeepsCompletion
<1> QED
  BY <1>2, LifecycleInvariant, PTL DEF Spec, CompletionIsFinal

\* Only the company's resend brings a revoked link back.
THEOREM RevocationHolds == Spec => RevokedStaysDead
<1>1. ASSUME LifecycleInv, Next, link = "revoked", link' # "revoked"
      PROVE  Resend
  <2>1. status # "draft"
    BY <1>1 DEF LifecycleInv, DraftIsPrivate
  <2>2. ~Reviewing
    <3>1. ASSUME Reviewing PROVE \E cs, val, pend : Reevaluate(status, cs, val, pend)
      BY <3>1 DEF Reviewing
    <3>2. ASSUME NEW cs, NEW val, NEW pend, Reevaluate(status, cs, val, pend) PROVE FALSE
      BY <1>1, <3>2, ReevaluateAsksNothing DEF LifecycleInv, AskNothing
    <3> QED
      BY <3>1, <3>2
  <2>3. ~(Send \/ Revoke \/ FollowUp \/ Open \/ Submit \/ SubmitAgain \/ Tick \/ Remind)
    BY <1>1, <2>1 DEF Send, Revoke, FollowUp, CanFollowUp, Open, Submit, SubmitAgain, LinkWorks,
                      Tick, Remind, ReminderDue
  <2>4. ~(\/ DataCall
          \/ \E enabled \in BOOLEAN : SetAutomaticFollowUp(enabled)
          \/ \E e \in Edits(comps \X SupplierFields) : Save(e))
    BY <1>1 DEF DataCall, SetAutomaticFollowUp, Save, requestVars
  <2> QED
    BY <1>1, <2>2, <2>3, <2>4, CallKinds
<1>2. Resend => /\ lastAsk' = RequestEmail
                /\ status \in {"sent", "opened", "in_progress"}
                /\ UNCHANGED <<reviewVars, status, reminders, rounds>>
  BY DEF Resend, MintAndEmail
<1>3. LifecycleInv /\ [Next]_vars => [RevivedByResend]_vars
  BY <1>1, <1>2 DEF RevivedByResend
<1> QED
  BY <1>3, LifecycleInvariant, PTL DEF Spec, RevokedStaysDead

\* The snapshot of the first submission is never retaken.
THEOREM SnapshotKeptForever == Spec => SnapshotIsKept
<1>1. ASSUME LifecycleInv, Next, snapshot # NoSnapshot
      PROVE  snapshot' = snapshot
  <2>1. submitted
    BY <1>1 DEF LifecycleInv, SnapshotIsFirst
  <2> QED
    BY <1>1, <2>1, CallKinds
    DEF Send, Resend, Revoke, FollowUp, Reviewing, DataCall, SetAutomaticFollowUp, Open, Submit,
        SubmitAgain, Save, Tick, Remind, requestVars
<1>2. LifecycleInv /\ [Next]_vars => [snapshot # NoSnapshot => snapshot' = snapshot]_vars
  BY <1>1
<1> QED
  BY <1>2, LifecycleInvariant, PTL DEF Spec, SnapshotIsKept
-----------------------------------------------------------------------------
(* The abstract workflow *)

\* A round is one ask of the workflow.
LEMMA RoundIsAnAsk ==
    ASSUME TypeOK, NeverPester,
           NEW trigger \in {"manual", "automatic"},
           NEW st, NEW cs \in SUBSET Components, NEW val, NEW pend,
           CanFollowUp(st, cs, val, pend), AddRound(trigger, cs, val, pend),
           Phase = "open", Phase' = "open"
    PROVE  Workflow!WNext
<1> USE DEF TypeOK
<1> DEFINE new == NewRound(trigger, cs, val, pend)
           S   == MissingRefs(cs, val, pend)
<1>1. new \in Rounds /\ new.refs = S
  BY NewRoundIsTyped
<1>2. S \in SUBSET (Components \X Fields)
  BY <1>1 DEF Rounds
<1>3. S # {}
  BY MissingMeaning DEF CanFollowUp
<1>4. rounds' = Append(rounds, new) /\ link = "live" /\ link' = "live"
  BY DEF AddRound, MintAndEmail, CanFollowUp
<1>5. rounds # <<>> => rounds[Len(rounds)].refs # S
  BY DEF CanFollowUp
<1> HIDE DEF new, S
<1>6. /\ Len(rounds) \in Nat
      /\ DOMAIN rounds = 1..Len(rounds)
      /\ DOMAIN rounds' = 1..(Len(rounds) + 1)
      /\ rounds'[Len(rounds) + 1] = new
      /\ \A i \in 1..Len(rounds) : rounds'[i] = rounds[i]
  BY <1>1, <1>4, AppendProperties
<1>7. /\ AsksSoFar \in Seq(SUBSET (Components \X Fields))
      /\ Len(AsksSoFar) = Len(rounds)
      /\ \A i \in 1..Len(rounds) : AsksSoFar[i] = rounds[i].refs
  <2>1. \A i \in 1..Len(rounds) : rounds[i] \in Rounds
    BY <1>6
  <2>2. \A i \in 1..Len(rounds) : rounds[i].refs \in SUBSET (Components \X Fields)
    BY <2>1 DEF Rounds
  <2> QED
    BY <1>6, <2>2 DEF AsksSoFar
<1>8. AsksSoFar' = Append(AsksSoFar, S)
  <2> DEFINE longer == Append(AsksSoFar, S)
  <2>1. /\ longer \in Seq(SUBSET (Components \X Fields))
        /\ Len(longer) = Len(rounds) + 1
        /\ longer[Len(rounds) + 1] = S
        /\ \A i \in 1..Len(rounds) : longer[i] = AsksSoFar[i]
    BY <1>2, <1>7, AppendProperties
  <2> HIDE DEF longer
  <2>2. Len(rounds) \in Nat
    BY <1>6
  <2>3. ASSUME NEW i \in 1..(Len(rounds) + 1)
        PROVE  rounds'[i].refs = longer[i]
    <3>1. CASE i = Len(rounds) + 1
      BY <1>1, <1>6, <2>1, <3>1
    <3>2. CASE i # Len(rounds) + 1
      <4>1. i \in 1..Len(rounds)
        BY <2>2, <3>2
      <4> QED
        BY <1>6, <1>7, <2>1, <4>1
    <3> QED
      BY <3>1, <3>2
  <2>4. AsksSoFar' = [i \in 1..Len(longer) |-> longer[i]]
    BY <1>6, <2>1, <2>3 DEF AsksSoFar
  <2>5. longer = [i \in 1..Len(longer) |-> longer[i]]
    BY <2>1
  <2> QED
    BY <2>4, <2>5 DEF longer
<1>9. ~Workflow!Repeats(S)
  <2>1. ASSUME AsksSoFar # <<>> PROVE AsksSoFar[Len(AsksSoFar)] # S
    <3>1. Len(rounds) \in 1..Len(rounds) /\ rounds # <<>>
      BY <1>6, <1>7, <2>1
    <3> QED
      BY <1>5, <1>7, <3>1
  <2> QED
    BY <2>1 DEF Workflow!Repeats
<1>10. Workflow!Ask(S)
  BY <1>3, <1>4, <1>8, <1>9 DEF Workflow!Ask
<1> QED
  BY <1>2, <1>10 DEF Workflow!WNext

\* The request is one piece of work of module RequestWorkflow: whatever call,
\* day or reminder comes, what the supplier and the company were promised is
\* kept.
THEOREM LifecycleRefinesWorkflow == Spec => ImplementsWorkflow
<1>1. ASSUME Init PROVE Workflow!WInit
  <2>1. AsksSoFar = <<>>
    BY <1>1 DEF Init, AsksSoFar
  <2> QED
    BY <1>1, <2>1 DEF Init, Workflow!WInit, Phase
<1>2. ASSUME LifecycleInv, [Next]_vars
      PROVE  [Workflow!WNext]_(Workflow!wvars)
  <2> USE <1>2 DEF LifecycleInv
  <2> DEFINE Stutter == Phase' = Phase /\ link' = link /\ AsksSoFar' = AsksSoFar
  <2> SUFFICES Workflow!WNext \/ Stutter
    BY DEF Workflow!wvars
  <2>1. ASSUME UNCHANGED <<status, link, rounds>> PROVE Stutter
    BY <2>1 DEF Phase, AsksSoFar
  <2>2. ASSUME NEW st \in Statuses \ {"draft"},
               NEW cs \in SUBSET Components, NEW val, NEW pend,
               Reevaluate(st, cs, val, pend),
               status # "draft", st = "completed" <=> status = "completed"
        PROVE  Workflow!WNext \/ Stutter
    <3>1. CASE status = "completed"
      <4>1. AskNothing /\ status' = "completed"
        BY <2>2, <3>1, ReevaluateAsksNothing
      <4> QED
        BY <2>1, <3>1, <4>1 DEF AskNothing
    <3>2. CASE /\ status # "completed" /\ AskNothing /\ status' = "completed"
      <4>1. Phase = "open" /\ Phase' = "completed" /\ UNCHANGED <<link, AsksSoFar>>
        BY <2>2, <3>2 DEF Phase, AsksSoFar, AskNothing
      <4> QED
        BY <4>1 DEF Workflow!WNext, Workflow!Finish
    <3>3. CASE status # "completed" /\ AskNothing /\ status' = st
      BY <2>2, <3>3 DEF Phase, AsksSoFar, AskNothing
    <3>4. CASE /\ status # "completed" /\ status' = st
               /\ CanFollowUp(st, cs, val, pend) /\ AddRound("automatic", cs, val, pend)
      <4>1. Phase = "open" /\ Phase' = "open"
        BY <2>2, <3>4 DEF Phase
      <4> QED
        BY <3>4, <4>1, RoundIsAnAsk
    <3> QED
      BY <2>2, <3>1, <3>2, <3>3, <3>4, ReevaluateOutcomes DEF TypeOK
  <2>3. CASE Send
    <3>1. Phase = "draft" /\ Phase' = "open" /\ link' = "live" /\ UNCHANGED AsksSoFar
      BY <2>3 DEF Send, MintAndEmail, Phase, AsksSoFar
    <3> QED
      BY <3>1 DEF Workflow!WNext, Workflow!Start
  <2>4. CASE Resend
    <3>1. Phase = "open" /\ Phase' = "open" /\ link' = "live" /\ UNCHANGED AsksSoFar
      BY <2>4 DEF Resend, MintAndEmail, Phase, AsksSoFar
    <3> QED
      BY <3>1 DEF Workflow!WNext, Workflow!Reissue
  <2>5. CASE Revoke
    <3>1. link = "live" /\ link' = "revoked" /\ UNCHANGED <<Phase, AsksSoFar>>
      BY <2>5 DEF Revoke, Phase, AsksSoFar
    <3> QED
      BY <3>1 DEF Workflow!WNext, Workflow!Withdraw
  <2>6. CASE FollowUp
    <3>1. /\ CanFollowUp(status, comps, value, PendingProposals(rows))
          /\ AddRound("manual", comps, value, PendingProposals(rows))
          /\ UNCHANGED status
          /\ link = "live"
      BY <2>6 DEF FollowUp, CanFollowUp
    <3>2. status # "draft" /\ status # "completed" /\ comps \in SUBSET Components
      BY <3>1 DEF DraftIsPrivate, CanFollowUp, TypeOK, ReviewTypeOK
    <3>3. Phase = "open" /\ Phase' = "open"
      BY <3>1, <3>2 DEF Phase
    <3> QED
      BY <3>1, <3>2, <3>3, RoundIsAnAsk
  <2>7. CASE Reviewing
    <3>1. comps' \in SUBSET Components
      BY StepOfReview, ReviewNextInv DEF ReviewInv, ReviewTypeOK
    <3> QED
      BY <2>2, <2>7, <3>1, NotInDraft DEF Reviewing, TypeOK
  <2>8. CASE Submit \/ SubmitAgain
    <3>1. status # "draft" /\ comps \in SUBSET Components
      BY <2>8, NotInDraft DEF Submit, SubmitAgain, TypeOK, ReviewTypeOK
    <3>2. \/ Submit /\ status # "completed"
          \/ SubmitAgain /\ status = "completed"
      BY <2>8 DEF Submit, SubmitAgain
    <3> QED
      BY <2>2, <3>1, <3>2 DEF Submit, SubmitAgain, Statuses
  <2>9. CASE Remind
    <3>1. UNCHANGED <<status, rounds>> /\ link' = "live" /\ link # "revoked"
          /\ status \in ActiveStatuses
      BY <2>9 DEF Remind, ReminderDue, MintAndEmail
    <3>2. UNCHANGED link
      BY <3>1 DEF DraftIsPrivate, ActiveStatuses, TypeOK
    <3> QED
      BY <2>1, <3>1, <3>2
  <2>10. CASE Open \/ \E e \in Edits(comps \X SupplierFields) : Save(e)
    <3>1. UNCHANGED <<link, rounds>> /\ LinkWorks
          /\ status # "completed" /\ status' \in {"opened", "in_progress"}
      BY <2>10 DEF Open, Save
    <3>2. status # "draft"
      BY <3>1, NotInDraft
    <3> QED
      BY <3>1, <3>2 DEF Phase, AsksSoFar
  <2>11. CASE \/ DataCall \/ Tick \/ UNCHANGED vars
              \/ \E enabled \in BOOLEAN : SetAutomaticFollowUp(enabled)
    BY <2>1, <2>11 DEF DataCall, Tick, SetAutomaticFollowUp, vars, requestVars
  <2> QED
    BY <2>3, <2>4, <2>5, <2>6, <2>7, <2>8, <2>9, <2>10, <2>11, CallKinds
<1> QED
  BY <1>1, <1>2, LifecycleInvariant, PTL
  DEF Spec, ImplementsWorkflow, Workflow!WorkflowSpec
=============================================================================
