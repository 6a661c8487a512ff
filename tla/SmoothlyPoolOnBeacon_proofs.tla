--------------------- MODULE SmoothlyPoolOnBeacon_proofs ---------------------
(***************************************************************************)
(* The evidence that the ring buffer of roots serves keeps its order, and  *)
(* an exit that it shows has happened or is still ahead.  The pool on a    *)
(* beacon chain takes only steps of module SmoothlyPool, so that the       *)
(* invariants of the latter carry over.                                    *)
(***************************************************************************)
EXTENDS SmoothlyPoolOnBeacon, SmoothlyPool_proofs

Slots == 0 .. HISTORY - 1

\* The inductive invariant: every root in the buffer was stored for a block that
\* is on the chain by now, with the parent that the block had.
ChainTypeOK ==
  /\ head \in BeaconBlock
  /\ roots \in [Slots -> [timestamp : Nat, parent : BeaconBlock]]

ChainOrder ==
  /\ head.timestamp = now
  /\ \A i \in Slots :
       /\ roots[i].timestamp <= now
       /\ roots[i].timestamp > 0 => roots[i].parent.timestamp < roots[i].timestamp
  /\ \A i, j \in Slots :
       roots[i].timestamp < roots[j].timestamp =>
         roots[i].timestamp <= roots[j].parent.timestamp

ChainInv == now \in Nat /\ ChainTypeOK /\ ChainOrder

\* Every timestamp has a place in the ring buffer.
LEMMA SlotOf ==
  ASSUME NEW ts \in Nat
  PROVE  ts % HISTORY \in Slots
<1>1. HISTORY \in Nat /\ HISTORY > 0
  BY BeaconAssumption
<1> QED BY <1>1 DEF Slots

\* The buffer begins in order.
LEMMA ChainInit == InitOnBeacon => ChainInv
<1> SUFFICES ASSUME InitOnBeacon PROVE ChainInv
  OBVIOUS
<1>1. now = DeployTime /\ DeployTime \in Nat \ {0}
  BY Constants DEF InitOnBeacon, Init
<1>2. PICK proposer \in ValidatorIndex \cup Others, recipient \in Recipients,
           records \in [ValidatorIndex -> BeaconRecords] :
        head = [timestamp |-> now, proposer |-> proposer, recipient |-> recipient,
                records |-> records]
  BY DEF InitOnBeacon
<1>3. head \in BeaconBlock /\ head.timestamp = now
  BY <1>1, <1>2 DEF BeaconBlock
<1>4. roots = [i \in Slots |-> [timestamp |-> 0, parent |-> head]]
  BY DEF InitOnBeacon, Slots
<1>5. ChainTypeOK
  BY <1>3, <1>4 DEF ChainTypeOK
<1>6. ChainOrder
  BY <1>1, <1>3, <1>4 DEF ChainOrder
<1> QED BY <1>1, <1>5, <1>6 DEF ChainInv

\* A new block comes after all others, so the entry it stores is the latest.
LEMMA ChainGrows == ChainInv /\ NewBlock => ChainInv'
<1> SUFFICES ASSUME ChainInv, NewBlock PROVE ChainInv'
  OBVIOUS
<1>1. now \in Nat /\ now' \in Nat /\ now < now'
  BY Constants DEF ChainInv, NewBlock, Tick
<1>2. PICK proposer \in ValidatorIndex \cup Others, recipient \in Recipients,
           records \in [ValidatorIndex -> BeaconRecords] :
        head' = [timestamp |-> now', proposer |-> proposer, recipient |-> recipient,
                 records |-> records]
  BY DEF NewBlock
<1>3. head' \in BeaconBlock /\ head'.timestamp = now'
  BY <1>1, <1>2 DEF BeaconBlock
<1> DEFINE n == now' % HISTORY
           entry == [timestamp |-> now', parent |-> head]
<1>4. /\ roots' = [roots EXCEPT ![n] = entry]
      /\ n \in Slots /\ head \in BeaconBlock /\ head.timestamp = now
  BY <1>1, SlotOf DEF NewBlock, ChainInv, ChainTypeOK, ChainOrder
<1> HIDE DEF n
<1>5. ChainTypeOK'
  BY <1>1, <1>3, <1>4 DEF ChainInv, ChainTypeOK
<1>6. \A i \in Slots :
        /\ roots[i].timestamp \in Nat /\ roots[i].timestamp <= now
        /\ roots[i].parent.timestamp \in Nat
  BY DEF ChainInv, ChainTypeOK, ChainOrder, BeaconBlock
<1>7. /\ roots'[n] = entry
      /\ \A i \in Slots \ {n} : roots'[i] = roots[i]
  BY <1>4 DEF ChainInv, ChainTypeOK
<1>8. ASSUME NEW i \in Slots
      PROVE  /\ roots'[i].timestamp <= now'
             /\ roots'[i].timestamp > 0 => roots'[i].parent.timestamp < roots'[i].timestamp
  <2>1. CASE i = n
    BY <1>1, <1>4, <1>7, <2>1
  <2>2. CASE i # n
    BY <1>1, <1>6, <1>7, <2>2 DEF ChainInv, ChainOrder
  <2> QED BY <2>1, <2>2
<1>9. ASSUME NEW i \in Slots, NEW j \in Slots, roots'[i].timestamp < roots'[j].timestamp
      PROVE  roots'[i].timestamp <= roots'[j].parent.timestamp
  <2>1. i # n
    <3> SUFFICES ASSUME i = n PROVE FALSE
      OBVIOUS
    <3>1. roots'[j].timestamp \in Nat /\ roots'[j].timestamp <= now'
      BY <1>1, <1>6, <1>7
    <3> QED BY <1>1, <1>7, <1>9, <3>1
  <2>2. roots'[i] = roots[i]
    BY <1>7, <2>1
  <2>3. CASE j = n
    BY <1>4, <1>6, <1>7, <2>2, <2>3
  <2>4. CASE j # n
    BY <1>7, <1>9, <2>2, <2>4 DEF ChainInv, ChainOrder
  <2> QED BY <2>3, <2>4
<1>10. ChainOrder'
  BY <1>3, <1>8, <1>9 DEF ChainOrder
<1> QED BY <1>1, <1>5, <1>10 DEF ChainInv

\* No transaction touches the chain or the time.
LEMMA TransactionsKeepChain ==
  ASSUME NextOnBeacon, ~NewBlock
  PROVE  UNCHANGED <<now, chain>>
<1>1. ASSUME NEW v, NEW recipient, LeavePool(v, recipient)
      PROVE  now' = now
  BY <1>1 DEF LeavePool
<1>2. CASE Unproven
  <2>1. UNCHANGED chain
    BY <1>2 DEF Unproven
  <2>2. now' = now
    BY <1>1, <1>2 DEF Unproven, Rebalance, Receive, DonateETH, Exit
  <2> QED BY <2>1, <2>2
<1>3. CASE \E v \in ValidatorIndex, ts \in DeployTime .. now :
             \/ \E value \in Deposits : RegisterOnBeacon(v, ts, value)
             \/ WithdrawOnBeacon(v, ts)
             \/ UpdateOnBeacon(v, ts)
             \/ \E sender \in Account : SlashOnBeacon(v, ts, sender)
  BY <1>1, <1>3 DEF RegisterOnBeacon, WithdrawOnBeacon, UpdateOnBeacon, SlashOnBeacon,
     Register, Withdraw, UpdateValidator, UpdateActive, SlashBadFeeRecipient
<1> QED BY <1>2, <1>3 DEF NextOnBeacon

\* A block enters the buffer after all that are in it; no transaction changes it.
LEMMA ChainNext == ChainInv /\ [NextOnBeacon]_<<vars, chain>> => ChainInv'
<1> SUFFICES ASSUME ChainInv, [NextOnBeacon]_<<vars, chain>> PROVE ChainInv'
  OBVIOUS
<1>1. CASE NewBlock
  BY <1>1, ChainGrows
<1>2. CASE UNCHANGED <<now, chain>>
  BY <1>2 DEF ChainInv, ChainTypeOK, ChainOrder, chain
<1> QED BY <1>1, <1>2, TransactionsKeepChain DEF vars

\* Every reachable buffer is well ordered.
THEOREM ChainInvariance == SpecOnBeacon => []ChainInv
BY ChainInit, ChainNext, PTL DEF SpecOnBeacon

\* A root found at a timestamp is that of an earlier block, and later timestamps
\* lead to later blocks, for any length of the buffer and any missed slots.
THEOREM EvidenceOrder == SpecOnBeacon => []EvidenceIsOrdered
<1>1. ASSUME ChainInv PROVE EvidenceIsOrdered
  <2> SUFFICES ASSUME NEW ts \in DeployTime .. now, NEW later \in DeployTime .. now,
                      Found(ts), Found(later)
               PROVE  /\ ParentBlock(ts).timestamp < ts
                      /\ ts < later => ts <= ParentBlock(later).timestamp
    BY DEF EvidenceIsOrdered
  <2>1. ts \in Nat /\ ts > 0 /\ later \in Nat
    BY <1>1, Constants DEF ChainInv
  <2> DEFINE i == ts % HISTORY
             j == later % HISTORY
  <2>2. i \in Slots /\ j \in Slots
    BY <2>1, SlotOf
  <2>3. roots[i].timestamp = ts /\ roots[j].timestamp = later
    BY DEF Found
  <2> HIDE DEF i, j
  <2>4. /\ roots[i].parent.timestamp < ts
        /\ ts < later => ts <= roots[j].parent.timestamp
    BY <1>1, <2>1, <2>2, <2>3 DEF ChainInv, ChainOrder
  <2> QED BY <2>4 DEF ParentBlock, i, j
<1> QED BY <1>1, ChainInvariance, PTL

\* A step of the pool with evidence from the chain is a step of the pool with
\* evidence from anywhere.
LEMMA PoolStep == ChainInv /\ [NextOnBeacon]_<<vars, chain>> => [Next]_vars
<1> SUFFICES ASSUME ChainInv, NextOnBeacon PROVE [Next]_vars
  BY DEF vars
<1>1. CASE NewBlock
  BY <1>1 DEF NewBlock, Next
<1>2. CASE Unproven
  BY <1>2 DEF Unproven, Next
<1>3. ASSUME NEW v \in ValidatorIndex, NEW ts \in DeployTime .. now
      PROVE  /\ ParentBlock(ts).records[v] \in BeaconRecords
             /\ ParentBlock(ts).recipient \in Account \cup {PoolAddress}
  <2>1. ts \in Nat
    BY <1>3, Constants DEF ChainInv
  <2>2. ts % HISTORY \in Slots
    BY <2>1, SlotOf
  <2>3. ParentBlock(ts) \in BeaconBlock
    BY <2>2 DEF ChainInv, ChainTypeOK, ParentBlock
  <2> QED BY <2>3, BeaconAssumption DEF BeaconBlock
<1>4. ASSUME NEW v \in ValidatorIndex, NEW ts \in DeployTime .. now,
             NEW value \in Deposits, RegisterOnBeacon(v, ts, value)
      PROVE  Next
  BY <1>3, <1>4 DEF RegisterOnBeacon, Next
<1>5. ASSUME NEW v \in ValidatorIndex, NEW ts \in DeployTime .. now, WithdrawOnBeacon(v, ts)
      PROVE  Next
  BY <1>5 DEF WithdrawOnBeacon, Next
<1>6. ASSUME NEW v \in ValidatorIndex, NEW ts \in DeployTime .. now, UpdateOnBeacon(v, ts)
      PROVE  Next
  BY <1>3, <1>6 DEF UpdateOnBeacon, Next
<1>7. ASSUME NEW v \in ValidatorIndex, NEW ts \in DeployTime .. now,
             NEW sender \in Account, SlashOnBeacon(v, ts, sender)
      PROVE  Next
  BY <1>3, <1>7 DEF SlashOnBeacon, Next
<1> QED BY <1>1, <1>2, <1>4, <1>5, <1>6, <1>7 DEF NextOnBeacon

\* So the invariants of module SmoothlyPool hold on the beacon chain.
LEMMA OnBeaconIsPool == SpecOnBeacon => Spec
<1>1. InitOnBeacon => Init
  BY DEF InitOnBeacon
<1> QED BY <1>1, PoolStep, ChainInvariance, PTL DEF SpecOnBeacon, Spec

\* The bonds, for one, are backed there as well.
THEOREM BondsAreBackedOnBeacon == SpecOnBeacon => []BondsBacked
BY OnBeaconIsPool, BondsAreBacked, PTL

-----------------------------------------------------------------------------
(* Exits.                                                                  *)

\* Where a block in the buffer and the head disagree on an exit, the block has
\* not heard of it.
ExitsAnnounced ==
  \A i \in Slots, v \in ValidatorIndex :
    LET old == roots[i].parent.records[v].exitEpoch
    IN  old # head.records[v].exitEpoch => old = FAR_FUTURE_EPOCH

\* At the start all blocks are one.
LEMMA ExitsInit == InitOnBeacon => ExitsAnnounced
BY DEF InitOnBeacon, ExitsAnnounced, Slots

\* An exit that the head calls for the first time is news to all that the buffer
\* has; one that some block in it has, the head keeps.
LEMMA ExitsNext ==
  ChainInv /\ ExitsAnnounced /\ [NextOnBeacon]_<<vars, chain>> => ExitsAnnounced'
<1> SUFFICES ASSUME ChainInv, ExitsAnnounced, [NextOnBeacon]_<<vars, chain>>
             PROVE  ExitsAnnounced'
  OBVIOUS
<1>1. CASE NewBlock
  <2> SUFFICES ASSUME NEW i \in Slots, NEW v \in ValidatorIndex,
                      roots'[i].parent.records[v].exitEpoch # head'.records[v].exitEpoch
               PROVE  roots'[i].parent.records[v].exitEpoch = FAR_FUTURE_EPOCH
    BY DEF ExitsAnnounced
  <2>1. PICK proposer \in ValidatorIndex \cup Others, recipient \in Recipients,
             records \in [ValidatorIndex -> BeaconRecords] :
          /\ \A u \in ValidatorIndex : Evolves(head.records[u], records[u], now')
          /\ head' = [timestamp |-> now', proposer |-> proposer, recipient |-> recipient,
                      records |-> records]
    BY <1>1 DEF NewBlock
  <2>2. head'.records[v].exitEpoch # head.records[v].exitEpoch =>
          head.records[v].exitEpoch = FAR_FUTURE_EPOCH
    BY <2>1 DEF Evolves
  <2>3. roots'[i] = roots[i] \/ roots'[i].parent = head
    BY <1>1 DEF NewBlock, ChainInv, ChainTypeOK
  <2>4. CASE roots'[i].parent = head
    BY <2>2, <2>4
  <2>5. CASE roots'[i] = roots[i]
    BY <2>2, <2>5 DEF ExitsAnnounced
  <2> QED BY <2>3, <2>4, <2>5
<1>2. CASE UNCHANGED <<now, chain>>
  BY <1>2 DEF ExitsAnnounced, chain
<1> QED BY <1>1, <1>2, TransactionsKeepChain DEF vars

\* Until the bound of the time no epoch reads as if it were not announced.
TimeBound == now \in DeployTime .. MaxTime

LEMMA TimeInit == InitOnBeacon => TimeBound
BY PoolAssumption, BeaconAssumption DEF InitOnBeacon, Init, TimeBound

\* Time only moves by blocks, and not beyond the bound.
LEMMA TimeNext == TimeBound /\ [NextOnBeacon]_<<vars, chain>> => TimeBound'
<1> SUFFICES ASSUME TimeBound, [NextOnBeacon]_<<vars, chain>> PROVE TimeBound'
  OBVIOUS
<1>1. CASE NewBlock
  BY <1>1, PoolAssumption DEF NewBlock, Tick, TimeBound
<1>2. CASE UNCHANGED <<now, chain>>
  BY <1>2 DEF TimeBound
<1> QED BY <1>1, <1>2, TransactionsKeepChain DEF vars

\* An update that shows a validator active leaves it in the pool.
LEMMA OnlyInactiveRemoved ==
  ASSUME TypeOK, TimeBound, NEW v \in ValidatorIndex, NEW record, UpdateValidator(v, record),
         validators'[v].start = 0
  PROVE  ~IsActiveValidator(record, now)
<1> SUFFICES ASSUME IsActiveValidator(record, now) PROVE FALSE
  OBVIOUS
<1>1. UpdateActive(v, record)
  BY DEF UpdateValidator
<1>2. validators'[v].start = now
  BY <1>1 DEF UpdateActive, TypeOK, Validator
<1> QED BY <1>2, PoolAssumption DEF TimeBound

\* Whoever updateValidator removes by an exit has exited, for any record of the
\* buffer that the caller picks and however many slots were missed.
THEOREM ExitEvidence == SpecOnBeacon => ExitEvidenceHolds
<1>1. ASSUME ChainInv, ExitsAnnounced, TimeBound, TypeOK,
             NEW v \in ValidatorIndex, NEW ts \in DeployTime .. now, UpdateOnBeacon(v, ts),
             validators'[v].start = 0,
             ParentBlock(ts).records[v].activationEpoch <= GetEpoch(now)
      PROVE  head.records[v].exitEpoch <= GetEpoch(now)
  <2> DEFINE i == ts % HISTORY
             record == roots[i].parent.records[v]
  <2>1. i \in Slots
    BY <1>1, SlotOf, PoolAssumption
  <2>2. ~IsActiveValidator(record, now)
    BY <1>1, OnlyInactiveRemoved DEF UpdateOnBeacon, ParentBlock
  <2>3. record \in BeaconRecords
    BY <1>1, <2>1 DEF ChainInv, ChainTypeOK, BeaconBlock
  <2>4. record.exitEpoch \in Nat /\ GetEpoch(now) \in Int /\ GetEpoch(now) < FAR_FUTURE_EPOCH
    BY <1>1, <2>3, PoolAssumption, OracleAssumption, BeaconAssumption
    DEF TimeBound, BeaconChainValidator, GetEpoch
  <2>5. record.exitEpoch <= GetEpoch(now)
    BY <1>1, <2>2, <2>4 DEF IsActiveValidator, ParentBlock
  <2>6. record.exitEpoch = head.records[v].exitEpoch
    <3>1. record.exitEpoch # FAR_FUTURE_EPOCH
      BY <2>4, <2>5, BeaconAssumption
    <3> QED BY <1>1, <2>1, <3>1 DEF ExitsAnnounced
  <2> QED BY <2>5, <2>6
<1>2. SpecOnBeacon => []TypeOK
  BY OnBeaconIsPool, TypeCorrect, PTL
<1>3. ChainInv /\ ExitsAnnounced /\ TimeBound /\ TypeOK =>
        \A v \in ValidatorIndex, ts \in DeployTime .. now :
          /\ UpdateOnBeacon(v, ts)
          /\ validators'[v].start = 0
          /\ ParentBlock(ts).records[v].activationEpoch <= GetEpoch(now)
          => head.records[v].exitEpoch <= GetEpoch(now)
  BY <1>1
<1> QED BY <1>2, <1>3, ChainInit, ChainNext, ExitsInit, ExitsNext, TimeInit, TimeNext, PTL
        DEF SpecOnBeacon, ExitEvidenceHolds

=============================================================================
