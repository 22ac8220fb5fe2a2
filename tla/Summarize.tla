------------------------------ MODULE Summarize ------------------------------
(***************************************************************************)
(* The loop of MissingInformationService.summarize, slot by slot, with its *)
(* four running counters, shown to compute the set definitions of module   *)
(* MissingInformation.  The input (components, values, pending proposals)  *)
(* is arbitrary and never changes during a run; slots are visited in any   *)
(* order, since the order in which SQLAlchemy loads the components is not  *)
(* specified.                                                              *)
(***************************************************************************)
EXTENDS MissingInformation

CONSTANT MaxPending  \* bound: pending proposals in the input

VARIABLES
    cs, val, pend,  \* the input
    todo,           \* slots the two nested loops have not reached
    tally,          \* available_count, missing_count, review_required_count, conflict_count
    refs,           \* the slots missing_field_refs lists
    result          \* the summary's status, "none" until the loops end

vars == <<cs, val, pend, todo, tally, refs, result>>

Outcomes == {"available", "missing", "review_required", "conflict"}

TypeOK ==
    /\ cs \subseteq Components
    /\ val \in Valuations
    /\ pend \subseteq Proposals
    /\ todo \subseteq Slots(cs)
    /\ tally \in [Outcomes -> Nat]
    /\ refs \subseteq Slots(cs)
    /\ result \in InformationStatuses \cup {"none"}

Init ==
    /\ cs \in SUBSET Components
    /\ val \in Valuations
    /\ pend \in SUBSET Proposals
    /\ Cardinality(pend) <= MaxPending
    /\ todo = Slots(cs)
    /\ tally = [o \in Outcomes |-> 0]
    /\ refs = {}
    /\ result = "none"

\* The if/elif chain of the inner loop body, for the slot s.
Classify(s) ==
    LET pendingForField == PendingFor(pend, s)
        conflicting == {p \in pendingForField :
                            val[s] # NoValue /\ ValuesDiffer(s[2], val[s], p.value)}
    IN  CASE conflicting # {}                              -> "conflict"
          [] conflicting = {} /\ pendingForField # {}      -> "review_required"
          [] pendingForField = {} /\ val[s] # NoValue      -> "available"
          [] OTHER                                         -> "missing"

\* Mutation: an unresolved proposal is listed as if it were a missing slot.
VisitListingUnresolved(s) ==
    /\ s \in todo
    /\ todo' = todo \ {s}
    /\ tally' = [tally EXCEPT ![Classify(s)] = @ + 1]
    /\ refs' = refs \cup {s} \cup {<<p.comp, p.field>> : p \in Unresolved(pend)}
    /\ UNCHANGED <<cs, val, pend, result>>

Visit(s) ==
    /\ s \in todo
    /\ todo' = todo \ {s}
    /\ tally' = [tally EXCEPT ![Classify(s)] = @ + 1]
    /\ refs' = IF Classify(s) = "available" THEN refs ELSE refs \cup {s}
    /\ UNCHANGED <<cs, val, pend, result>>

\* Mutation: missing information outranks a pending review.
RollUpMissingFirst ==
    CASE tally["conflict"] > 0 -> "conflict"
      [] tally["conflict"] = 0 /\ tally["missing"] > 0 -> "missing_information"
      [] /\ tally["conflict"] = 0 /\ tally["missing"] = 0
         /\ tally["review_required"] > 0 \/ Unresolved(pend) # {} -> "review_required"
      [] OTHER -> "complete"

\* Mutation: proposals without a component do not block completeness.
RollUpIgnoringUnresolved ==
    CASE tally["conflict"] > 0 -> "conflict"
      [] tally["conflict"] = 0 /\ tally["review_required"] > 0 -> "review_required"
      [] tally["conflict"] = 0 /\ tally["review_required"] = 0 /\ tally["missing"] > 0
            -> "missing_information"
      [] OTHER -> "complete"

\* The priority chain after the loops.
RollUp ==
    CASE tally["conflict"] > 0 -> "conflict"
      [] tally["conflict"] = 0 /\ (tally["review_required"] > 0 \/ Unresolved(pend) # {})
            -> "review_required"
      [] /\ tally["conflict"] = 0 /\ tally["review_required"] = 0 /\ Unresolved(pend) = {}
         /\ tally["missing"] > 0
            -> "missing_information"
      [] OTHER -> "complete"

Finish ==
    /\ todo = {}
    /\ result = "none"
    /\ result' = RollUp
    /\ UNCHANGED <<cs, val, pend, todo, tally, refs>>

Next == (\E s \in todo : Visit(s)) \/ Finish

Spec == Init /\ [][Next]_vars

-----------------------------------------------------------------------------
\* The slots of each outcome, by the set definitions.
SlotsOf(o) ==
    CASE o = "available"       -> AvailableSlots(cs, val, pend)
      [] o = "missing"         -> MissingSlots(cs, val, pend)
      [] o = "review_required" -> ReviewSlots(cs, val, pend)
      [] o = "conflict"        -> ConflictSlots(cs, val, pend)

\* At every point of the loops each counter is the number of slots of its
\* outcome already visited, and the list of missing references holds exactly
\* the visited slots that are not available.
TallyCountsVisited ==
    /\ \A o \in Outcomes : tally[o] = Cardinality(SlotsOf(o) \ todo)
    /\ refs = MissingRefs(cs, val, pend) \ todo

\* The status the priority chain returns is the status defined on sets, and
\* the four counters add up to total_requested.
ResultIsTheDefinition ==
    result # "none" =>
        /\ result = InformationStatus(cs, val, pend)
        /\ refs = MissingRefs(cs, val, pend)
        /\ tally["available"] + tally["missing"] + tally["review_required"]
              + tally["conflict"] = Cardinality(cs) * Cardinality(Fields)

\* The module doc's promise for the answer "complete": every requested field
\* has a value and no proposal for this request's components, linked or not,
\* still waits for a human; and the answer "missing information" means that no
\* proposal waits and something has no value.
AnswerIsHonest ==
    /\ result = "complete" =>
          /\ \A s \in Slots(cs) : val[s] # NoValue
          /\ \A p \in pend : p.comp \notin cs \cup {NoComponent}
    /\ result = "missing_information" =>
          /\ refs # {}
          /\ \A s \in refs : val[s] = NoValue
          /\ \A p \in pend : p.comp \notin cs \cup {NoComponent}
=============================================================================
