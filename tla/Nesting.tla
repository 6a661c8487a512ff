------------------------------ MODULE Nesting ------------------------------
(***************************************************************************)
(* Recursion over nested data, as derive macros generate it: what is       *)
(* computed of a thing is made of what is computed of the things directly  *)
(* inside it.  It is a recursive function of the things that can be        *)
(* reached, so that it can be both evaluated and proved about.             *)
(***************************************************************************)
EXTENDS Naturals

CONSTANTS
  Inside(_),          \* the things directly inside one: a function from their places
  Join(_, _)          \* what is computed of a thing, from what is of those inside

\* How deep the types of blocks and states are nested.
NESTING == 6

\* What is reached from a thing in n steps.
Reached(x) ==
  LET at[n \in Nat] ==
        IF n = 0 THEN {x}
        ELSE UNION { { Inside(y)[i] : i \in DOMAIN Inside(y) } : y \in at[n - 1] }
  IN  at

Parts(x) == UNION { Reached(x)[n] : n \in 0 .. NESTING }

Fold(x) ==
  LET result[y \in Parts(x)] == Join(y, [i \in DOMAIN Inside(y) |-> result[Inside(y)[i]]])
  IN  result[x]

=============================================================================
