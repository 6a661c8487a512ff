----------------------------- MODULE BondEscrow -----------------------------
(***************************************************************************)
(* What the pool promises about bonds, without a word on how it keeps its  *)
(* books.  `free' is the ETH that is nobody's bond.  A member brings its   *)
(* bond when it joins and takes one bond with it when it leaves, so that   *)
(* neither changes what is free; every other payment is made of free ETH,  *)
(* which never goes below zero.                                            *)
(***************************************************************************)
EXTENDS Integers

CONSTANT Member

VARIABLES members, free

evars == <<members, free>>

Init == members = {} /\ free = 0

Join(m) ==
  /\ m \notin members
  /\ members' = members \cup {m}
  /\ UNCHANGED free

Leave(m) ==
  /\ m \in members
  /\ members' = members \ {m}
  /\ UNCHANGED free

Deposit ==
  /\ free' \in Nat
  /\ free' > free
  /\ UNCHANGED members

Pay ==
  /\ free' \in Nat
  /\ free' < free
  /\ UNCHANGED members

Next ==
  \/ \E m \in Member : Join(m) \/ Leave(m)
  \/ Deposit
  \/ Pay

Spec == Init /\ [][Next]_evars

=============================================================================
