------------------------- MODULE MCExtractionReview -------------------------
(* TLC instance of TrafficLight, which has the steps of ExtractionReview,  *)
(* reads its tables and adds what other requests have of the components.   *)
(* The field "packaging_type" is a text column only the company edits and  *)
(* that is never empty; "recycled" is a number the supplier may type.      *)
(* Three values serve both fields:                                         *)
(*   v1  "box"  / the number 10 as the database returns it ("10.0")        *)
(*   v2  "Box"  / "10", another spelling of the same                       *)
(*   v3  "bag"  / "approx. 10", not a number                               *)
EXTENDS TrafficLight, TLC

CONSTANTS packaging_type, recycled, v1, v2, v3, p1

MCSame == [f \in Fields |->
             {<<v, w>> \in Values \X Values : v = w \/ {v, w} = {v1, v2}}]

MCValid == (packaging_type :> {v1, v3}) @@ (recycled :> {v1})

\* A packaging type must be spelled as the enum spells it; a number is parsed
\* and read back in canonical form, any other text raises.
MCStored == (packaging_type :> [v \in {v1, v3} |-> v])
         @@ (recycled :> [v \in {v1, v2} |-> v1])

\* One product has all the components, the others none.
MCProductOf == [c \in Components |-> p1]

Symmetry == Permutations(Components) \cup Permutations(Docs) \cup Permutations(Rows)
=============================================================================
