-------------------------------- MODULE SSZ --------------------------------
(***************************************************************************)
(* The library SSZ, and the part of BeaconOracle that it shares: the roots *)
(* of the beacon chain records a proof starts from, and the verification   *)
(* of a branch that the tests use as their own reference.                  *)
(***************************************************************************)
EXTENDS Merkle

\* Mutant: the pairs are taken from the end, over what was written before.
LevelBackwards(nodes, count) ==
  FoldLeft(LAMBDA acc, i : [acc EXCEPT ![i] = Hash(acc[2 * i - 1], acc[2 * i])],
           nodes, [n \in 1 .. count \div 2 |-> (count \div 2) + 1 - n])

\* One level, in place: the hash of the pair 2i - 1, 2i overwrites node i.
Level(nodes, count) ==
  LET after[i \in 0 .. count \div 2] ==
        IF i = 0 THEN nodes
        ELSE LET acc == after[i - 1]
             IN  [acc EXCEPT ![i] = Hash(acc[2 * i - 1], acc[2 * i])]
  IN  after[count \div 2]

HashTreeRoot(nodes) == Level(Level(Level(nodes, 8), 4), 2)[1]

\* The 48 bytes of a key in two chunks, the second padded with zeros.
PubkeyRoot(pubkey) == Hash(Chunk("pubkey", pubkey), Chunk("pubkey end", pubkey))

ValidatorFields(v) ==
  << PubkeyRoot(v.pubkey), Chunk("bytes32", v.withdrawalCredentials),
     Uint(v.effectiveBalance), Bool(v.slashed), Uint(v.activationEligibilityEpoch),
     Uint(v.activationEpoch), Uint(v.exitEpoch), Uint(v.withdrawableEpoch) >>

\* Mutant: the epoch of exit is taken for the epoch of withdrawal.
ValidatorHashTreeRootSwapped(v) ==
  HashTreeRoot([ValidatorFields(v) EXCEPT ![8] = Uint(v.exitEpoch)])

ValidatorHashTreeRoot(v) == HashTreeRoot(ValidatorFields(v))

\* A block header has five fields; the other leaves are zero.
HeaderFields(h) ==
  << Uint(h.slot), Uint(h.proposerIndex), Chunk("bytes32", h.parentRoot),
     Chunk("bytes32", h.stateRoot), Chunk("bytes32", h.bodyRoot), ZERO, ZERO, ZERO >>

BeaconHeaderHashTreeRoot(h) == HashTreeRoot(HeaderFields(h))

WithdrawalHashTreeRoot(w) ==
  Hash(Hash(Uint(w.index), Uint(w.validatorIndex)), Hash(Address(w.address), Uint(w.amount)))

\* The leaves of verifyFeeRecipient, in the order in which it has them.
Leaves(b) == <<Uint(b.proposer), Address(b.recipient)>>

\* Mutant: a branch that ends below the root is not refused.
VerifyProofUnfinished(proof, root, leaf, index) ==
  FoldLeft(LAMBDA at, item :
             [ node  |-> IF at.index % 2 = 1 THEN Hash(item, at.node) ELSE Hash(at.node, item),
               index |-> at.index \div 2 ],
           [node |-> leaf, index |-> index], proof).node = root

\* verifyProof shifts the index at every item of the proof and reverts unless 1
\* is left at the end; a zero on the way is still zero there.
VerifyProof(proof, root, leaf, index) ==
  LET at[i \in 0 .. Len(proof)] ==
        IF i = 0 THEN [node |-> leaf, index |-> index]
        ELSE LET s == at[i - 1]
             IN  [ node  |-> IF s.index % 2 = 1 THEN Hash(proof[i], s.node)
                             ELSE Hash(s.node, proof[i]),
                   index |-> s.index \div 2 ]
      end == at[Len(proof)]
  IN  end.index = 1 /\ end.node = root

=============================================================================
