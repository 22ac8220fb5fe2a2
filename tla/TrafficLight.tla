---------------------------- MODULE TrafficLight ----------------------------
(***************************************************************************)
(* The traffic light of products and components, computed at every read    *)
(* from the tables of module ExtractionReview, beside the summary that     *)
(* decides whether their request is complete.  The two are written         *)
(* independently and shown side by side.  They do not read the same rows:  *)
(* the summary looks for the pending proposals of its request, the light   *)
(* for those of the whole company, and a product may be in several         *)
(* requests.  Of the other requests this module has which components they  *)
(* have proposals for.                                                     *)
(*                                                                         *)
(* Sources: app/services/status_calculation_service.py, and the caller     *)
(* that looks for pending proposals, app/api/v1/products.py.               *)
(***************************************************************************)
EXTENDS ExtractionReview

CONSTANTS
    Products,   \* the products of the request
    ProductOf,  \* the product of every component
    LightFields \* REQUIRED_PACKAGING_FIELDS

ASSUME TrafficLightAssumption ==
    /\ ProductOf \in [Components -> Products]
    /\ LightFields \subseteq Fields

\* The components that a pending proposal of another request is linked to.
VARIABLE elsewhere

lightVars == <<reviewVars, elsewhere>>

ComplianceStatuses == {"green", "orange", "red"}

\* product.packaging_components
ComponentsOf(p) == {c \in comps : ProductOf[c] = p}

\* Mutation: the light looks at the proposals of one request only.
PendingOfTheRequest == {rows[r].comp : r \in PendingRows(rows)} \ {NoComponent}

\* _pending_review_component_ids: of the whole company; proposals that are not
\* linked are left out.
PendingComponents == ({rows[r].comp : r \in PendingRows(rows)} \ {NoComponent}) \cup elsewhere

MissingFields(c) == {f \in LightFields : value[<<c, f>>] = NoValue}

\* calculate_component_status
ComponentStatus(c) ==
    IF c \in PendingComponents THEN "red" ELSE IF MissingFields(c) # {} THEN "orange" ELSE "green"

\* calculate_product_status
ProductStatus(p) ==
    LET statuses == {ComponentStatus(c) : c \in ComponentsOf(p)}
    IN  CASE statuses = {} -> "orange"
          [] "red" \in statuses -> "red"
          [] statuses = {"green"} -> "green"
          [] OTHER -> "orange"
-----------------------------------------------------------------------------
(* The other requests *)

\* _unambiguous_component_id, for another request: it covers all the
\* components of its products, so c is alone in its product.
ProposeElsewhere(c) ==
    /\ ComponentsOf(ProductOf[c]) = {c}
    /\ elsewhere' = elsewhere \cup {c}
    /\ UNCHANGED reviewVars

\* The last pending proposal for c is accepted, or it is rejected or deleted
\* with its document.
DecideElsewhere(c) ==
    /\ c \in elsewhere
    /\ elsewhere' = elsewhere \ {c}
    /\ \/ \E f \in Fields : \E v \in DOMAIN Stored[f] : AcceptElsewhere(c, f, v)
       \/ UNCHANGED reviewVars

LightInit == ReviewInit /\ elsewhere = {}

LightNext ==
    \/ ReviewNext /\ UNCHANGED elsewhere
    \/ \E c \in Components : ProposeElsewhere(c) \/ DecideElsewhere(c)

LightSpec == LightInit /\ [][LightNext]_lightVars
-----------------------------------------------------------------------------
(* Properties *)

Undecided == LET pend == PendingProposals(rows)
             IN  ReviewSlots(comps, value, pend) \cup ConflictSlots(comps, value, pend)

Missing == MissingSlots(comps, value, PendingProposals(rows))

CompleteNow == Complete(comps, value, PendingProposals(rows))

\* A component of p waits for the review of another request's proposal.
PendingElsewhere(p) == ComponentsOf(p) \cap elsewhere # {}

Settled(p) == ComponentsOf(p) = {} \/ ProductStatus(p) = "green"

\* status_calculation_service.py against missing_information_service.py: a
\* product is red exactly when the summary of the request finds a slot of it
\* that waits for a review, or another request does; a complete request has
\* only green products, but for those without components and those that
\* another request's proposals keep red; and when all are green, what keeps the
\* request from being complete is a proposal nobody linked or a field the light
\* leaves out.
LightTellsTheSummary ==
    /\ \A p \in Products :
          ProductStatus(p) = "red" <=>
             (\E s \in Undecided : ProductOf[s[1]] = p) \/ PendingElsewhere(p)
    /\ CompleteNow => \A p \in Products : Settled(p) \/ PendingElsewhere(p)
    /\ (\A p \in Products : Settled(p)) =>
          /\ Undecided = {}
          /\ \A s \in Missing : s[2] \notin LightFields
          /\ CompleteNow <=> Missing = {} /\ Unresolved(PendingProposals(rows)) = {}
=============================================================================
