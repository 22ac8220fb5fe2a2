--------------------- MODULE MissingInformation_proofs ---------------------
(***************************************************************************)
(* What the four answers of the missing-information service mean, for any  *)
(* components, fields, values and proposals.  The lifecycle's proofs use   *)
(* these two facts and never expand the classification itself.             *)
(***************************************************************************)
EXTENDS MissingInformation, FiniteSetTheorems, TLAPS

\* summarize answers "complete" exactly when every requested slot has a value
\* and no proposal for any of them, linked or not, is waiting.
THEOREM CompleteMeaning ==
    ASSUME NEW cs, NEW val, NEW pend
    PROVE  Complete(cs, val, pend) <=>
             /\ \A s \in Slots(cs) : val[s] # NoValue /\ PendingFor(pend, s) = {}
             /\ Unresolved(pend) = {}
<1>1. Complete(cs, val, pend) <=>
        /\ ConflictSlots(cs, val, pend) = {}
        /\ ReviewSlots(cs, val, pend) = {}
        /\ Unresolved(pend) = {}
        /\ MissingSlots(cs, val, pend) = {}
  BY DEF Complete, InformationStatus
<1>2. ASSUME ConflictSlots(cs, val, pend) = {}, ReviewSlots(cs, val, pend) = {},
             MissingSlots(cs, val, pend) = {}, NEW s \in Slots(cs)
      PROVE  val[s] # NoValue /\ PendingFor(pend, s) = {}
  BY <1>2 DEF ReviewSlots, MissingSlots
<1>3. ASSUME \A s \in Slots(cs) : val[s] # NoValue /\ PendingFor(pend, s) = {}
      PROVE  /\ ConflictSlots(cs, val, pend) = {}
             /\ ReviewSlots(cs, val, pend) = {}
             /\ MissingSlots(cs, val, pend) = {}
  BY <1>3 DEF ConflictSlots, ReviewSlots, MissingSlots
<1> QED
  BY <1>1, <1>2, <1>3

\* When the answer is "missing_information", what an email asks for is exactly
\* what nobody has filled in and nobody has proposed, and it is something.
THEOREM MissingMeaning ==
    ASSUME NEW cs, NEW val, NEW pend,
           InformationStatus(cs, val, pend) = "missing_information"
    PROVE  /\ MissingRefs(cs, val, pend) = MissingSlots(cs, val, pend)
           /\ MissingSlots(cs, val, pend) # {}
           /\ ~Complete(cs, val, pend)
<1>1. /\ ConflictSlots(cs, val, pend) = {}
      /\ ReviewSlots(cs, val, pend) = {}
      /\ MissingSlots(cs, val, pend) # {}
  BY DEF InformationStatus
<1>2. \A s \in Slots(cs) : PendingFor(pend, s) = {}
  BY <1>1 DEF ReviewSlots
<1>3. MissingRefs(cs, val, pend) = MissingSlots(cs, val, pend)
  BY <1>2 DEF MissingRefs, MissingSlots, AvailableSlots
<1> QED
  BY <1>1, <1>3 DEF Complete

\* The slots of a request are finitely many, and so is every part of them.
LEMMA SlotsAreFinite ==
    ASSUME NEW cs \in SUBSET Components, NEW S \in SUBSET Slots(cs)
    PROVE  /\ IsFiniteSet(S)
           /\ Cardinality(S) \in Nat
           /\ Cardinality(S) <= Cardinality(Slots(cs))
           /\ Cardinality(Slots(cs)) \in Nat
<1>1. IsFiniteSet(cs) /\ IsFiniteSet(Fields)
  BY MissingInformationAssumption, FS_Subset
<1>2. IsFiniteSet(Slots(cs))
  BY <1>1, FS_Product DEF Slots
<1> QED
  BY <1>2, FS_Subset, FS_CardinalityType

\* The parts of the classification are parts of the request's slots.
LEMMA PartsAreSlots ==
    ASSUME NEW cs, NEW val, NEW pend
    PROVE  /\ AvailableSlots(cs, val, pend) \subseteq Slots(cs)
           /\ MissingSlots(cs, val, pend) \subseteq Slots(cs)
           /\ MissingRefs(cs, val, pend) \subseteq Slots(cs)
BY DEF AvailableSlots, MissingSlots, MissingRefs
=============================================================================
