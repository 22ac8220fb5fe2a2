-------------------------- MODULE Summarize_proofs --------------------------
(***************************************************************************)
(* The counting loop of summarize computes the set definitions of module   *)
(* MissingInformation, for every number of components, fields and pending  *)
(* proposals and in every visiting order.                                  *)
(*                                                                         *)
(* The loop invariant is TallyCountsVisited with the types; what has been  *)
(* computed when the loops end, and hence the answer, follows from it.     *)
(***************************************************************************)
EXTENDS Summarize, MissingInformation_proofs

LoopInv ==
    /\ TypeOK
    /\ TallyCountsVisited
    /\ result # "none" => todo = {} /\ result = RollUp

\* The four set definitions part the slots.
LEMMA PartsOfSlots ==
    /\ \A o \in Outcomes : SlotsOf(o) \subseteq Slots(cs)
    /\ Slots(cs) = UNION {SlotsOf(o) : o \in Outcomes}
    /\ \A o, p \in Outcomes : o # p => SlotsOf(o) \cap SlotsOf(p) = {}
BY DEF Outcomes, SlotsOf, AvailableSlots, MissingSlots, ReviewSlots, ConflictSlots

\* The if/elif chain puts a slot where the set definitions put it.
LEMMA ClassifyMeaning ==
    ASSUME NEW s \in Slots(cs)
    PROVE  /\ Classify(s) \in Outcomes
           /\ \A o \in Outcomes : s \in SlotsOf(o) <=> Classify(s) = o
           /\ Classify(s) = "available" <=> s \notin MissingRefs(cs, val, pend)
<1> DEFINE conflicting == {p \in PendingFor(pend, s) :
                             val[s] # NoValue /\ ValuesDiffer(s[2], val[s], p.value)}
<1>1. /\ s \in SlotsOf("available") <=> PendingFor(pend, s) = {} /\ val[s] # NoValue
      /\ s \in SlotsOf("missing") <=> PendingFor(pend, s) = {} /\ val[s] = NoValue
      /\ s \in SlotsOf("conflict") <=> conflicting # {}
      /\ s \in SlotsOf("review_required") <=> PendingFor(pend, s) # {} /\ conflicting = {}
  BY DEF SlotsOf, AvailableSlots, MissingSlots, ReviewSlots, ConflictSlots
<1>2. Classify(s) = CASE conflicting # {} -> "conflict"
                      [] conflicting = {} /\ PendingFor(pend, s) # {} -> "review_required"
                      [] PendingFor(pend, s) = {} /\ val[s] # NoValue -> "available"
                      [] OTHER -> "missing"
  BY DEF Classify
<1>3. PendingFor(pend, s) = {} => conflicting = {}
  OBVIOUS
<1>4. s \notin MissingRefs(cs, val, pend) <=> s \in SlotsOf("available")
  BY DEF MissingRefs, SlotsOf
<1> HIDE DEF conflicting
<1>5. CASE conflicting # {}
  BY <1>1, <1>2, <1>3, <1>4, <1>5 DEF Outcomes
<1>6. CASE conflicting = {} /\ PendingFor(pend, s) # {}
  BY <1>1, <1>2, <1>4, <1>6 DEF Outcomes
<1>7. CASE conflicting = {} /\ PendingFor(pend, s) = {} /\ val[s] # NoValue
  BY <1>1, <1>2, <1>4, <1>7 DEF Outcomes
<1>8. CASE conflicting = {} /\ PendingFor(pend, s) = {} /\ val[s] = NoValue
  BY <1>1, <1>2, <1>4, <1>8 DEF Outcomes
<1> QED
  BY <1>5, <1>6, <1>7, <1>8

\* The input of a run never changes, and with it the set definitions.
LEMMA SameInput ==
    ASSUME UNCHANGED <<cs, val, pend>>
    PROVE  /\ \A o \in Outcomes : SlotsOf(o)' = SlotsOf(o)
           /\ MissingRefs(cs, val, pend)' = MissingRefs(cs, val, pend)
BY DEF Outcomes, SlotsOf, AvailableSlots, MissingSlots, ReviewSlots, ConflictSlots, MissingRefs,
       PendingFor, Slots

\* One more visited slot is counted once, under its own outcome.
LEMMA VisitCounts ==
    ASSUME TypeOK, TallyCountsVisited, NEW s \in todo, Visit(s)
    PROVE  TypeOK' /\ TallyCountsVisited'
<1>1. /\ s \in Slots(cs) /\ todo \subseteq Slots(cs) /\ cs \in SUBSET Components
      /\ tally \in [Outcomes -> Nat]
  BY DEF TypeOK
<1>2. /\ UNCHANGED <<cs, val, pend, result>>
      /\ todo' = todo \ {s}
      /\ tally' = [tally EXCEPT ![Classify(s)] = tally[Classify(s)] + 1]
      /\ refs' = IF Classify(s) = "available" THEN refs ELSE refs \cup {s}
  BY DEF Visit
<1>3. Classify(s) \in Outcomes
  BY <1>1, ClassifyMeaning
<1>4. ASSUME NEW o \in Outcomes
      PROVE  tally'[o] = Cardinality(SlotsOf(o)' \ todo')
  <2> DEFINE seen == SlotsOf(o) \ todo
  <2>1. IsFiniteSet(seen) /\ Cardinality(seen) \in Nat /\ tally[o] = Cardinality(seen)
    <3>1. seen \in SUBSET Slots(cs)
      BY PartsOfSlots
    <3> QED
      BY <1>1, <3>1, SlotsAreFinite DEF TallyCountsVisited
  <2>2. SlotsOf(o)' = SlotsOf(o)
    BY <1>2, SameInput
  <2>3. CASE Classify(s) = o
    <3>1. s \in SlotsOf(o) /\ s \notin seen
      BY <1>1, <2>3, ClassifyMeaning
    <3>2. SlotsOf(o)' \ todo' = seen \cup {s}
      BY <1>2, <2>2, <3>1
    <3>3. Cardinality(seen \cup {s}) = Cardinality(seen) + 1
      BY <2>1, <3>1, FS_AddElement
    <3>4. tally'[o] = tally[o] + 1
      BY <1>1, <1>2, <2>3
    <3> QED
      BY <2>1, <3>2, <3>3, <3>4
  <2>4. CASE Classify(s) # o
    <3>1. s \notin SlotsOf(o)
      BY <1>1, <2>4, ClassifyMeaning
    <3>2. SlotsOf(o)' \ todo' = seen
      BY <1>2, <2>2, <3>1
    <3>3. tally'[o] = tally[o]
      BY <1>1, <1>2, <1>3, <2>4
    <3> QED
      BY <2>1, <3>2, <3>3
  <2> QED
    BY <2>3, <2>4
<1>5. refs' = MissingRefs(cs, val, pend)' \ todo'
  <2>1. refs = MissingRefs(cs, val, pend) \ todo
    BY DEF TallyCountsVisited
  <2>2. Classify(s) = "available" <=> s \notin MissingRefs(cs, val, pend)
    BY <1>1, ClassifyMeaning
  <2> QED
    BY <1>2, <2>1, <2>2, SameInput
<1>6. TallyCountsVisited'
  BY <1>4, <1>5 DEF TallyCountsVisited
<1>7. tally' \in [Outcomes -> Nat]
  BY <1>1, <1>2, <1>3
<1>8. TypeOK'
  BY <1>1, <1>2, <1>7 DEF TypeOK, Slots
<1> QED
  BY <1>6, <1>8

\* Before the first slot nothing is counted.
LEMMA LoopInitInv == Init => LoopInv
<1> SUFFICES ASSUME Init PROVE LoopInv
  OBVIOUS
<1>1. todo = Slots(cs) /\ tally = [o \in Outcomes |-> 0] /\ refs = {} /\ result = "none"
  BY DEF Init
<1>2. \A o \in Outcomes : SlotsOf(o) \ todo = {}
  BY <1>1, PartsOfSlots
<1>3. MissingRefs(cs, val, pend) \ todo = {}
  BY <1>1 DEF MissingRefs
<1>4. TallyCountsVisited
  BY <1>1, <1>2, <1>3, FS_EmptySet DEF TallyCountsVisited
<1>5. TypeOK
  BY <1>1 DEF Init, TypeOK, Slots
<1> QED
  BY <1>1, <1>4, <1>5 DEF LoopInv

\* The invariant is kept by every turn of the loops and by the roll-up.
LEMMA LoopNextInv == LoopInv /\ [Next]_vars => LoopInv'
<1> SUFFICES ASSUME LoopInv, [Next]_vars PROVE LoopInv'
  OBVIOUS
<1> USE DEF LoopInv
<1>1. CASE \E s \in todo : Visit(s)
  <2>1. PICK s \in todo : Visit(s)
    BY <1>1
  <2>2. TypeOK' /\ TallyCountsVisited'
    BY <2>1, VisitCounts
  <2>3. result' = "none"
    BY <2>1 DEF Visit
  <2> QED
    BY <2>2, <2>3
<1>2. CASE Finish
  <2>1. todo' = {} /\ result' = RollUp /\ UNCHANGED <<cs, val, pend, todo, tally, refs>>
    BY <1>2 DEF Finish
  <2>2. RollUp' = RollUp
    BY <2>1 DEF RollUp, Unresolved
  <2>3. RollUp \in InformationStatuses
    BY DEF RollUp, InformationStatuses
  <2>4. TypeOK'
    BY <2>1, <2>3 DEF TypeOK, Slots
  <2>5. TallyCountsVisited'
    BY <2>1, SameInput DEF TallyCountsVisited
  <2> QED
    BY <2>1, <2>2, <2>4, <2>5
<1>3. CASE UNCHANGED vars
  <2>1. UNCHANGED <<cs, val, pend, todo, tally, refs, result>>
    BY <1>3 DEF vars
  <2>2. TypeOK'
    BY <2>1 DEF TypeOK, Slots
  <2>3. TallyCountsVisited'
    BY <2>1, SameInput DEF TallyCountsVisited
  <2>4. RollUp' = RollUp
    BY <2>1 DEF RollUp, Unresolved
  <2> QED
    BY <2>1, <2>2, <2>3, <2>4
<1> QED
  BY <1>1, <1>2, <1>3 DEF Next

\* A counter is positive at the end exactly when its part is not empty.
LEMMA CountersAtTheEnd ==
    ASSUME TypeOK, TallyCountsVisited, todo = {}, NEW o \in Outcomes
    PROVE  /\ tally[o] = Cardinality(SlotsOf(o))
           /\ tally[o] \in Nat
           /\ IsFiniteSet(SlotsOf(o))
           /\ tally[o] > 0 <=> SlotsOf(o) # {}
<1>1. SlotsOf(o) \in SUBSET Slots(cs) /\ cs \in SUBSET Components
  BY PartsOfSlots DEF TypeOK
<1>2. IsFiniteSet(SlotsOf(o)) /\ Cardinality(SlotsOf(o)) \in Nat
  BY <1>1, SlotsAreFinite
<1>3. tally[o] = Cardinality(SlotsOf(o))
  <2>1. SlotsOf(o) \ todo = SlotsOf(o)
    OBVIOUS
  <2> QED
    BY <2>1 DEF TallyCountsVisited
<1> QED
  BY <1>2, <1>3, FS_EmptySet

\* The priority chain on the counters is the definition on the sets.
LEMMA RollUpMeaning ==
    ASSUME TypeOK, TallyCountsVisited, todo = {}
    PROVE  RollUp = InformationStatus(cs, val, pend)
<1>1. /\ tally["conflict"] > 0 <=> ConflictSlots(cs, val, pend) # {}
      /\ tally["review_required"] > 0 <=> ReviewSlots(cs, val, pend) # {}
      /\ tally["missing"] > 0 <=> MissingSlots(cs, val, pend) # {}
  BY CountersAtTheEnd DEF Outcomes, SlotsOf
<1>2. /\ tally["conflict"] = 0 <=> ~(tally["conflict"] > 0)
      /\ tally["review_required"] = 0 <=> ~(tally["review_required"] > 0)
  BY CountersAtTheEnd DEF Outcomes
<1> QED
  BY <1>1, <1>2 DEF RollUp, InformationStatus

\* The cardinality of a union of disjoint sets.
LEMMA DisjointUnion ==
    ASSUME NEW S, IsFiniteSet(S), NEW T, IsFiniteSet(T), S \cap T = {}
    PROVE  /\ IsFiniteSet(S \cup T)
           /\ Cardinality(S \cup T) = Cardinality(S) + Cardinality(T)
<1>1. /\ IsFiniteSet(S \cup T)
      /\ Cardinality(S \cup T) = Cardinality(S) + Cardinality(T) - Cardinality(S \cap T)
  BY FS_Union
<1>2. Cardinality(S \cap T) = 0
  BY FS_EmptySet
<1>3. Cardinality(S) \in Nat /\ Cardinality(T) \in Nat
  BY FS_CardinalityType
<1> QED
  BY <1>1, <1>2, <1>3

\* The four counters add up to the number of requested slots.
LEMMA CountersAddUp ==
    ASSUME TypeOK, TallyCountsVisited, todo = {}
    PROVE  tally["available"] + tally["missing"] + tally["review_required"] + tally["conflict"]
             = Cardinality(cs) * Cardinality(Fields)
<1> DEFINE A == SlotsOf("available")
           M == SlotsOf("missing")
           R == SlotsOf("review_required")
           C == SlotsOf("conflict")
<1>1. /\ tally["available"] = Cardinality(A) /\ IsFiniteSet(A)
      /\ tally["missing"] = Cardinality(M) /\ IsFiniteSet(M)
      /\ tally["review_required"] = Cardinality(R) /\ IsFiniteSet(R)
      /\ tally["conflict"] = Cardinality(C) /\ IsFiniteSet(C)
  BY CountersAtTheEnd DEF Outcomes
<1>2. /\ Slots(cs) = ((A \cup M) \cup R) \cup C
      /\ A \cap M = {} /\ (A \cup M) \cap R = {} /\ ((A \cup M) \cup R) \cap C = {}
  BY PartsOfSlots DEF Outcomes
<1> HIDE DEF A, M, R, C
<1>3. /\ Cardinality(A) \in Nat /\ Cardinality(M) \in Nat
      /\ Cardinality(R) \in Nat /\ Cardinality(C) \in Nat
  BY <1>1, FS_CardinalityType
<1>4. IsFiniteSet(A \cup M) /\ Cardinality(A \cup M) = Cardinality(A) + Cardinality(M)
  BY <1>1, <1>2, DisjointUnion
<1>5. /\ IsFiniteSet((A \cup M) \cup R)
      /\ Cardinality((A \cup M) \cup R) = Cardinality(A \cup M) + Cardinality(R)
  BY <1>1, <1>2, <1>4, DisjointUnion
<1>6. Cardinality(Slots(cs)) = Cardinality((A \cup M) \cup R) + Cardinality(C)
  BY <1>1, <1>2, <1>5, DisjointUnion
<1>7. Cardinality(Slots(cs)) = Cardinality(cs) * Cardinality(Fields)
  <2>1. IsFiniteSet(cs) /\ IsFiniteSet(Fields)
    BY MissingInformationAssumption, FS_Subset DEF TypeOK
  <2> QED
    BY <2>1, FS_Product DEF Slots
<1> QED
  BY <1>1, <1>3, <1>4, <1>5, <1>6, <1>7

\* The loop invariant holds throughout a run.
THEOREM LoopInvariant == Spec => []LoopInv
BY LoopInitInv, LoopNextInv, PTL DEF Spec

\* Type correctness of the loop's state.
THEOREM LoopTypeCorrect == Spec => []TypeOK
<1>1. LoopInv => TypeOK
  BY DEF LoopInv
<1> QED
  BY <1>1, LoopInvariant, PTL

\* At every turn each counter is the number of visited slots of its outcome.
THEOREM CountersCount == Spec => []TallyCountsVisited
<1>1. LoopInv => TallyCountsVisited
  BY DEF LoopInv
<1> QED
  BY <1>1, LoopInvariant, PTL

\* What the service returns is the definition, and its counters add up.
THEOREM LoopComputesTheDefinition == Spec => []ResultIsTheDefinition
<1>1. LoopInv => ResultIsTheDefinition
  <2> SUFFICES ASSUME LoopInv, result # "none"
               PROVE  /\ result = InformationStatus(cs, val, pend)
                      /\ refs = MissingRefs(cs, val, pend)
                      /\ tally["available"] + tally["missing"] + tally["review_required"]
                            + tally["conflict"] = Cardinality(cs) * Cardinality(Fields)
    BY DEF ResultIsTheDefinition
  <2>1. TypeOK /\ TallyCountsVisited /\ todo = {} /\ result = RollUp
    BY DEF LoopInv
  <2>2. refs = MissingRefs(cs, val, pend)
    BY <2>1 DEF TallyCountsVisited
  <2> QED
    BY <2>1, <2>2, RollUpMeaning, CountersAddUp
<1> QED
  BY <1>1, LoopInvariant, PTL

\* An answer "complete" or "missing information" is true of the data.
THEOREM AnswersAreHonest == Spec => []AnswerIsHonest
<1>1. LoopInv => AnswerIsHonest
  <2> SUFFICES ASSUME LoopInv PROVE AnswerIsHonest
    OBVIOUS
  <2>1. ASSUME result # "none"
        PROVE  /\ result = InformationStatus(cs, val, pend)
               /\ refs = MissingRefs(cs, val, pend)
               /\ pend \subseteq Proposals
    BY <2>1, RollUpMeaning DEF LoopInv, TallyCountsVisited, TypeOK
  <2>2. ASSUME \A s \in Slots(cs) : PendingFor(pend, s) = {},
               Unresolved(pend) = {}, pend \subseteq Proposals,
               NEW p \in pend
        PROVE  p.comp \notin cs \cup {NoComponent}
    <3>1. p.comp # NoComponent
      BY <2>2 DEF Unresolved
    <3>2. ASSUME p.comp \in cs PROVE FALSE
      <4>1. <<p.comp, p.field>> \in Slots(cs)
        BY <2>2, <3>2 DEF Proposals, Slots
      <4>2. p \in PendingFor(pend, <<p.comp, p.field>>)
        BY DEF PendingFor
      <4> QED
        BY <2>2, <4>1, <4>2
    <3> QED
      BY <3>1, <3>2
  <2>3. CASE result = "complete"
    <3>1. Complete(cs, val, pend) /\ pend \subseteq Proposals
      BY <2>1, <2>3 DEF Complete
    <3>2. /\ \A s \in Slots(cs) : val[s] # NoValue /\ PendingFor(pend, s) = {}
          /\ Unresolved(pend) = {}
      BY <3>1, CompleteMeaning
    <3> QED
      BY <2>2, <2>3, <3>1, <3>2 DEF AnswerIsHonest
  <2>4. CASE result = "missing_information"
    <3>1. /\ InformationStatus(cs, val, pend) = "missing_information"
          /\ refs = MissingRefs(cs, val, pend)
          /\ pend \subseteq Proposals
      BY <2>1, <2>4
    <3>2. refs = MissingSlots(cs, val, pend) /\ refs # {}
      BY <3>1, MissingMeaning
    <3>3. /\ \A s \in Slots(cs) : PendingFor(pend, s) = {}
          /\ Unresolved(pend) = {}
      BY <3>1 DEF InformationStatus, ReviewSlots
    <3> QED
      BY <2>2, <2>4, <3>1, <3>2, <3>3 DEF AnswerIsHonest, MissingSlots
  <2> QED
    BY <2>3, <2>4 DEF AnswerIsHonest
<1> QED
  BY <1>1, LoopInvariant, PTL
=============================================================================
