----------------------------- MODULE MCSummarize -----------------------------
(* TLC instance of Summarize: two components with a text field and a       *)
(* numeric field; "10" and "10.0" are the same number, "a" and "A" the same *)
(* text.                                                                   *)
EXTENDS Summarize, TLC

CONSTANTS c1, c2, material, weight, v10, v100, v9

\* Three spellings of values: v10 and v100 ("10" and "10.0", or "Glass" and
\* "GLASS") are equal for the code, v9 differs from both.
Spellings(f) == {<<v, w>> \in Values \X Values : v = w \/ {v, w} = {v10, v100}}

MCSame == [f \in Fields |-> Spellings(f)]

\* Components and fields are interchangeable in every invariant.
Symmetry == Permutations(Components) \cup Permutations(Fields)
=============================================================================
