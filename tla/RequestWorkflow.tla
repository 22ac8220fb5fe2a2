--------------------------- MODULE RequestWorkflow ---------------------------
(***************************************************************************)
(* What one compliance request promises to the company and to its          *)
(* supplier, whatever happens to its data: the abstract specification that *)
(* module RequestLifecycle implements.                                     *)
(*                                                                         *)
(*   - work starts once, and completion is final (RequestStatus docs);     *)
(*   - a link that the company revoked stays dead until the company        *)
(*     issues another, and no link is issued after completion;             *)
(*   - the supplier is asked for missing information only while the work   *)
(*     is open, through a live link, never for nothing and never twice in  *)
(*     a row for the same things (README "Never pester the supplier").     *)
(***************************************************************************)
EXTENDS Integers, Sequences

CONSTANT Askable  \* what a supplier can be asked for: the requested slots

VARIABLES
    phase,  \* of the work: "draft", "open", "completed"
    link,   \* of the supplier's link: "none", "live", "revoked"
    asks    \* what was asked after the initial request, oldest first

wvars == <<phase, link, asks>>

WInit ==
    /\ phase = "draft"
    /\ link = "none"
    /\ asks = <<>>

Start ==
    /\ phase = "draft"
    /\ phase' = "open"
    /\ link' = "live"
    /\ UNCHANGED asks

Reissue ==
    /\ phase = "open"
    /\ link' = "live"
    /\ UNCHANGED <<phase, asks>>

Withdraw ==
    /\ link = "live"
    /\ link' = "revoked"
    /\ UNCHANGED <<phase, asks>>

Repeats(S) == asks # <<>> /\ asks[Len(asks)] = S

Ask(S) ==
    /\ phase = "open"
    /\ link = "live"
    /\ S # {}
    /\ ~Repeats(S)
    /\ asks' = Append(asks, S)
    /\ UNCHANGED <<phase, link>>

Finish ==
    /\ phase = "open"
    /\ phase' = "completed"
    /\ UNCHANGED <<link, asks>>

WNext ==
    \/ Start
    \/ Reissue
    \/ Withdraw
    \/ \E S \in SUBSET Askable : Ask(S)
    \/ Finish

WorkflowSpec == WInit /\ [][WNext]_wvars
=============================================================================
