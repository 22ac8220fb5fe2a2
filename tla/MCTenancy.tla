----------------------------- MODULE MCTenancy -----------------------------
(* Instance of Tenancy for TLC. *)
EXTENDS Tenancy, TLC

CONSTANTS u1, u2, e1, e2

Genuine(s, e) ==
    [sub |-> s, email |-> e, key |-> TRUE, aud |-> TRUE, iss |-> TRUE, expired |-> FALSE]

\* Two accounts, the second of which was given the address of the first, a
\* token without address, one without subject, and one of every other defect.
TokensDef ==
    {Genuine(u1, e1), Genuine(u2, e2), Genuine(u2, e1), Genuine(u1, NoEmail),
     Genuine(None, e2)}
    \cup {[Genuine(u2, e2) EXCEPT !.key = FALSE], [Genuine(u2, e2) EXCEPT !.aud = FALSE],
          [Genuine(u2, e2) EXCEPT !.iss = FALSE], [Genuine(u2, e2) EXCEPT !.expired = TRUE]}

Symmetry == Permutations(Calls) \cup Permutations(Companies) \cup Permutations(Suppliers)
            \cup Permutations(Products)
=============================================================================
