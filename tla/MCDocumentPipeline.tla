------------------------- MODULE MCDocumentPipeline -------------------------
(* Instance of DocumentPipeline for TLC. *)
EXTENDS DocumentPipeline, TLC

\* A PDF with text, a photo, a spreadsheet nobody can read, an infected PDF
\* and a file of another type.
ContentsDef ==
    {[kind |-> "pdf", readable |-> TRUE, infected |-> FALSE],
     [kind |-> "image", readable |-> FALSE, infected |-> FALSE],
     [kind |-> "sheet", readable |-> FALSE, infected |-> FALSE],
     [kind |-> "pdf", readable |-> TRUE, infected |-> TRUE],
     [kind |-> "other", readable |-> FALSE, infected |-> FALSE]}

Symmetry == Permutations(Calls)
=============================================================================
