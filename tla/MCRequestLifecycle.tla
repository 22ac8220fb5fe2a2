------------------------- MODULE MCRequestLifecycle -------------------------
(* TLC instances of RequestLifecycle.  The fields are "material" (text) and *)
(* "recycled" (a number); the supplier may type both.  v1 and v2 are        *)
(* different values, valid and applicable for both.                         *)
EXTENDS RequestLifecycle, TLC

CONSTANTS material, recycled

MCSame == [f \in Fields |-> {<<v, v>> : v \in Values}]

MCValid == [f \in Fields |-> Values]

MCStored == [f \in Fields |-> [v \in Values |-> v]]

Symmetry == Permutations(Components) \cup Permutations(Docs) \cup Permutations(Rows)
               \cup Permutations(Values)

NoSchedule == <<>>
OneReminder == <<1>>
TwoReminders == <<1, 2>>
=============================================================================
