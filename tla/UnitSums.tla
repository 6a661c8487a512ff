------------------------------ MODULE UnitSums ------------------------------
(***************************************************************************)
(* Totals of integer amounts kept per key, as the counters of              *)
(* SmoothlyPoolV2 (totalBond, totalEB, smooths) keep them.                 *)
(*                                                                         *)
(* An amount f[k] is represented by the f[k] units <<k, 1>> .. <<k, f[k]>> *)
(* and a total is the number of units.  Counting needs no recursion, so    *)
(* the laws of totals follow from those of Cardinality and hold for every  *)
(* finite set of keys (module SmoothlyPool_proofs).                        *)
(***************************************************************************)
EXTENDS Integers, FiniteSets

Units(f) == UNION { {k} \X (1 .. f[k]) : k \in DOMAIN f }

Total(f) == Cardinality(Units(f))

=============================================================================
