------------------------- MODULE MissingInformation -------------------------
(***************************************************************************)
(* What is still missing from a compliance request                         *)
(* (app/services/missing_information_service.py).                          *)
(*                                                                         *)
(* A request covers a set of packaging components; every component has the *)
(* same requested fields; a slot is a pair <<component, field>>.  The      *)
(* service classifies every slot from the value the component holds and    *)
(* from the extraction proposals nobody has reviewed yet.  Nothing here is *)
(* state: the operators take the components cs, the values val and the     *)
(* pending proposals pend as arguments, so that a module with variables    *)
(* can apply them before or after a step.                                  *)
(***************************************************************************)
EXTENDS Integers, FiniteSets

CONSTANTS
    Components,   \* the packaging components of the request's products
    Fields,       \* REQUESTED_FIELDS
    Values,       \* the non-empty values a field may hold or be proposed
    NoValue,      \* None, and "" in a text column
    NoComponent,  \* a proposal that was not linked to a component
    Same          \* Same[f]: the pairs <<current, extracted>> the code finds equal

ASSUME MissingInformationAssumption ==
    /\ IsFiniteSet(Components)
    /\ IsFiniteSet(Fields)
    /\ NoValue \notin Values
    /\ NoComponent \notin Components
    /\ Same \in [Fields -> SUBSET (Values \X Values)]

Valuations == [Components \X Fields -> Values \cup {NoValue}]

\* A pending proposal as this service reads it.
Proposals == [comp  : Components \cup {NoComponent},
              field : Fields,
              value : Values]

Slots(cs) == cs \X Fields

ValuesDiffer(f, current, extracted) == <<current, extracted>> \notin Same[f]

PendingFor(pend, s) == {p \in pend : p.comp = s[1] /\ p.field = s[2]}

Unresolved(pend) == {p \in pend : p.comp = NoComponent}

ConflictSlots(cs, val, pend) ==
    {s \in Slots(cs) :
        /\ val[s] # NoValue
        /\ \E p \in PendingFor(pend, s) : ValuesDiffer(s[2], val[s], p.value)}

ReviewSlots(cs, val, pend) ==
    {s \in Slots(cs) : PendingFor(pend, s) # {}} \ ConflictSlots(cs, val, pend)

AvailableSlots(cs, val, pend) ==
    {s \in Slots(cs) : PendingFor(pend, s) = {} /\ val[s] # NoValue}

MissingSlots(cs, val, pend) ==
    {s \in Slots(cs) : PendingFor(pend, s) = {} /\ val[s] = NoValue}

\* missing_field_refs: what a round snapshots and what its email lists.
MissingRefs(cs, val, pend) == Slots(cs) \ AvailableSlots(cs, val, pend)

InformationStatuses ==
    {"complete", "missing_information", "review_required", "conflict"}

InformationStatus(cs, val, pend) ==
    CASE ConflictSlots(cs, val, pend) # {} -> "conflict"
      [] /\ ConflictSlots(cs, val, pend) = {}
         /\ ReviewSlots(cs, val, pend) # {} \/ Unresolved(pend) # {} -> "review_required"
      [] /\ ConflictSlots(cs, val, pend) = {}
         /\ ReviewSlots(cs, val, pend) = {} /\ Unresolved(pend) = {}
         /\ MissingSlots(cs, val, pend) # {} -> "missing_information"
      [] OTHER -> "complete"

Complete(cs, val, pend) == InformationStatus(cs, val, pend) = "complete"
=============================================================================
