---------------------------- MODULE SmoothlyPool ----------------------------
(***************************************************************************)
(* The contract SmoothlyPoolV2: registration bonds, the smooths ledger     *)
(* and the payment of rewards.                                             *)
(*                                                                         *)
(* A step is one transaction, or the passing of time.  A transaction that  *)
(* reverts changes nothing and is no step: every `revert', every failed    *)
(* `require' and every checked subtraction that would underflow is a guard.*)
(* The facts that verifyValidator and verifyFeeRecipient let through (a    *)
(* record of the beacon state, a fee recipient of a block) are parameters  *)
(* of the actions and range here over everything the beacon chain could    *)
(* say.  A called account takes its ETH or refuses it; accounts that call  *)
(* back into the pool are not in this module.                              *)
(***************************************************************************)
EXTENDS BeaconOracle, UnitSums

CONSTANTS
  ValidatorIndex,     \* indices of beacon chain validators
  Account,            \* accounts that own validators or send transactions
  Payable,            \* those of them that accept ETH sent to them
  NoAccount,          \* address(0)
  PoolAddress,        \* address(this)
  BeaconRecords,      \* validator records the beacon chain may hold
  REBALANCE_PERIOD, BOND, BPS,
  Deposits,           \* bound: values of ETH one call may carry
  MaxBalance,         \* bound: ETH the pool holds when it still receives more
  DeployTime,         \* block.timestamp of the constructor
  MaxTime             \* bound: the last block.timestamp

ASSUME PoolAssumption ==
  /\ IsFiniteSet(ValidatorIndex)
  /\ Payable \subseteq Account
  /\ NoAccount \notin Account
  /\ PoolAddress \notin Account
  /\ BeaconRecords \subseteq BeaconChainValidator(Account)
  /\ REBALANCE_PERIOD \in Nat \ {0}
  /\ BOND \in Nat \ {0}
  /\ BPS \in Nat \ {0}
  /\ Deposits \subseteq Nat
  /\ MaxBalance \in Nat
  /\ DeployTime \in Nat \ {0}
  /\ DeployTime >= BEACON_GENESIS
  /\ MaxTime \in Nat

VARIABLES
  now,                \* block.timestamp of the current block
  validators,         \* mapping validators
  ledger,             \* lastRebalance, totalEB, smooths, pendingEB, pendingSmooths
  totalBond,
  balance             \* address(this).balance

vars == <<now, validators, ledger, totalBond, balance>>

Validator ==
  [ effectiveBalance : Nat,
    withdrawal       : Account \cup {NoAccount},
    bond             : Nat,
    start            : Nat,
    smooths          : Nat ]

Ledger ==
  [ lastRebalance : Nat, totalEB : Nat, smooths : Nat,
    pendingEB : Nat, pendingSmooths : Nat ]

\* What `delete validators[validatorIndex]' leaves behind.
NoValidator ==
  [effectiveBalance |-> 0, withdrawal |-> NoAccount, bond |-> 0,
   start |-> 0, smooths |-> 0]

Registered(v) == validators[v].start > 0

TotalETH == balance - totalBond

-----------------------------------------------------------------------------
(* The ledger arithmetic.                                                  *)

\* Mutant: the registrations of the period never reach totalEB.
RebalancedDropsPending(L, timestamp) ==
  LET ellapsed == timestamp - L.lastRebalance
  IN  IF ellapsed > REBALANCE_PERIOD
      THEN [L EXCEPT !.lastRebalance = timestamp,
                     !.smooths = @ + L.totalEB * ellapsed + L.pendingSmooths,
                     !.pendingEB = 0,
                     !.pendingSmooths = 0]
      ELSE L

\* _rebalance: settles the period when more than REBALANCE_PERIOD has passed.
Rebalanced(L, timestamp) ==
  LET ellapsed == timestamp - L.lastRebalance
  IN  IF ellapsed > REBALANCE_PERIOD
      THEN [ lastRebalance  |-> timestamp,
             totalEB        |-> L.totalEB + L.pendingEB,
             smooths        |-> L.smooths + L.totalEB * ellapsed
                                + L.pendingEB * (ellapsed - REBALANCE_PERIOD)
                                + L.pendingSmooths,
             pendingEB      |-> 0,
             pendingSmooths |-> 0 ]
      ELSE L

\* Mutant: a validator that joins is credited the whole period.
AllocatedWholePeriod(L, effectiveBalance, timestamp) ==
  [L EXCEPT !.pendingEB = @ + effectiveBalance,
            !.pendingSmooths = @ + effectiveBalance * REBALANCE_PERIOD]

\* _allocateSmooths: books a validator that joins within the period.
Allocated(L, effectiveBalance, timestamp) ==
  [L EXCEPT !.pendingEB = @ + effectiveBalance,
            !.pendingSmooths = @ + effectiveBalance
                * (REBALANCE_PERIOD - (timestamp - L.lastRebalance))]

\* Mutant: the smooths carried over by updateValidator are forgotten.
GetSharesOfPeriodOnly(L, val) == (L.lastRebalance - val.start) * val.effectiveBalance

\* _getShares: the smooths of a validator up to the last rebalance.
GetShares(L, val) ==
  (L.lastRebalance - val.start) * val.effectiveBalance + val.smooths

Pending(L, val) == val.start >= L.lastRebalance

\* The pending smooths _exit takes back from a validator of this period.
PendingShare(L, val) ==
  val.effectiveBalance * (REBALANCE_PERIOD - (val.start - L.lastRebalance))

\* The bookkeeping of _exit, and the condition that none of its checked
\* subtractions underflows.
Deallocated(L, val) ==
  IF Pending(L, val)
  THEN [L EXCEPT !.pendingEB = @ - val.effectiveBalance,
                 !.pendingSmooths = @ - PendingShare(L, val),
                 !.smooths = @ - val.smooths]
  ELSE [L EXCEPT !.totalEB = @ - val.effectiveBalance,
                 !.smooths = @ - GetShares(L, val)]

\* Mutant: the subtractions are unchecked.
CanDeallocateUnchecked(L, val) == TRUE

CanDeallocate(L, val) ==
  \/ /\ Pending(L, val)
     /\ L.pendingEB >= val.effectiveBalance
     /\ val.start - L.lastRebalance <= REBALANCE_PERIOD
     /\ L.pendingSmooths >= PendingShare(L, val)
     /\ L.smooths >= val.smooths
  \/ /\ ~Pending(L, val)
     /\ L.totalEB >= val.effectiveBalance
     /\ L.smooths >= GetShares(L, val)

\* Mutant: the modifier needsRebalance is missing.
CurrentWithoutRebalance == ledger

\* The ledger as every function sees it after the modifier needsRebalance.
Current == Rebalanced(ledger, now)

-----------------------------------------------------------------------------
Init ==
  /\ now = DeployTime
  /\ validators = [v \in ValidatorIndex |-> NoValidator]
  /\ ledger = [lastRebalance |-> DeployTime, totalEB |-> 0, smooths |-> 0,
               pendingEB |-> 0, pendingSmooths |-> 0]
  /\ totalBond = 0
  /\ balance = 0

\* The next block comes later, by however much.
Tick ==
  /\ now' \in now + 1 .. MaxTime
  /\ UNCHANGED <<validators, ledger, totalBond, balance>>

\* ETH arrives: a plain transfer, or the fees of a block that names the pool.
Receive(value) ==
  /\ balance + value <= MaxBalance
  /\ balance' = balance + value
  /\ UNCHANGED <<now, validators, ledger, totalBond>>

\* donateETH differs from receive in the event it emits only.
DonateETH(value) == Receive(value)

Register(v, record, value) ==
  /\ value = BOND
  /\ ~Registered(v)
  /\ HasWithdrawalAddress(record.withdrawalCredentials)
  /\ IsActiveValidator(record, now)
  /\ validators' = [validators EXCEPT ![v] =
       [ effectiveBalance |-> record.effectiveBalance,
         withdrawal       |-> WithdrawalToAddress(record.withdrawalCredentials),
         bond             |-> BOND,
         start            |-> now,
         smooths          |-> @.smooths ]]
  /\ ledger' = Allocated(Current, record.effectiveBalance, now)
  /\ totalBond' = totalBond + BOND
  /\ balance' = balance + value
  /\ UNCHANGED now

\* Mutants: dividing before scaling, rounding up, guarding against a zero
\* divisor by adding one.
PayoutUnscaled(share, smooths, eth) == (share \div smooths) * eth

PayoutRoundedUp(share, smooths, eth) == (share * eth + smooths - 1) \div smooths

PayoutPlusOne(share, smooths, eth) == (((share * BPS) \div (smooths + 1)) * eth) \div BPS

\* The share _withdraw pays out.
WithdrawShare(L, val) ==
  IF Pending(L, val) THEN val.smooths ELSE GetShares(L, val)

\* Its value in ETH: a fraction of the pool rounded down to 1/BPS, then down to
\* a whole amount.
Payout(share, smooths, eth) == (((share * BPS) \div smooths) * eth) \div BPS

\* withdraw for a block with timestamp `timestamp' and the pool as its fee
\* recipient.
Withdraw(v, timestamp) ==
  LET val   == validators[v]
      share == WithdrawShare(Current, val)
      eth   == Payout(share, Current.smooths, TotalETH)
  IN  /\ Registered(v)
      /\ timestamp >= val.start
      /\ TotalETH > 0
      /\ Current.smooths > 0
      /\ share <= Current.smooths
      /\ eth <= balance
      /\ val.withdrawal \in Payable
      /\ ledger' = [Current EXCEPT !.smooths = @ - share]
      /\ balance' = balance - eth
      /\ validators' = [validators EXCEPT ![v].start = Current.lastRebalance,
                                          ![v].smooths = 0]
      /\ UNCHANGED <<now, totalBond>>

\* Mutants: the bond is sent but totalBond keeps it; the fields of the validator
\* are reset without its smooths; the validator is not deleted at all.
LeavePoolKeepsTotalBond(v, recipient) ==
  LET val == validators[v]
  IN  /\ CanDeallocate(Current, val)
      /\ balance >= val.bond
      /\ recipient \in Payable
      /\ ledger' = Deallocated(Current, val)
      /\ balance' = balance - val.bond
      /\ validators' = [validators EXCEPT ![v] = NoValidator]
      /\ UNCHANGED <<now, totalBond>>

LeavePoolClearsStartOnly(v, recipient) ==
  LET val == validators[v]
  IN  /\ CanDeallocate(Current, val)
      /\ totalBond >= val.bond
      /\ balance >= val.bond
      /\ recipient \in Payable
      /\ ledger' = Deallocated(Current, val)
      /\ totalBond' = totalBond - val.bond
      /\ balance' = balance - val.bond
      /\ validators' = [validators EXCEPT ![v] = [NoValidator EXCEPT !.smooths = val.smooths]]
      /\ UNCHANGED now

LeavePoolPaysOnly(v, recipient) ==
  /\ CanDeallocate(Current, validators[v])
  /\ balance >= validators[v].bond
  /\ recipient \in Payable
  /\ ledger' = Deallocated(Current, validators[v])
  /\ balance' = balance - validators[v].bond
  /\ UNCHANGED <<now, validators, totalBond>>

\* _exit: takes the validator off the books, sends its bond to `recipient'
\* and deletes it.
LeavePool(v, recipient) ==
  LET val == validators[v]
  IN  /\ CanDeallocate(Current, val)
      /\ totalBond >= val.bond
      /\ balance >= val.bond
      /\ recipient \in Payable
      /\ ledger' = Deallocated(Current, val)
      /\ totalBond' = totalBond - val.bond
      /\ balance' = balance - val.bond
      /\ validators' = [validators EXCEPT ![v] = NoValidator]
      /\ UNCHANGED now

\* Mutants: the old effective balance stays in totalEB; the units earned so
\* far replace those carried over; they are not booked at all.
UpdateActiveKeepsTotalEB(v, record) ==
  LET val == validators[v]
  IN  /\ IsActiveValidator(record, now)
      /\ ~Pending(Current, val)
      /\ ledger' = Allocated(Current, record.effectiveBalance, now)
      /\ validators' = [validators EXCEPT
                          ![v].smooths = @ + (now - val.start) * val.effectiveBalance,
                          ![v].start = now,
                          ![v].effectiveBalance = record.effectiveBalance]
      /\ UNCHANGED <<now, totalBond, balance>>

UpdateActiveOverwritesSmooths(v, record) ==
  LET val == validators[v]
  IN  /\ IsActiveValidator(record, now)
      /\ ~Pending(Current, val)
      /\ Current.totalEB >= val.effectiveBalance
      /\ ledger' = Allocated([Current EXCEPT !.totalEB = @ - val.effectiveBalance],
                             record.effectiveBalance, now)
      /\ validators' = [validators EXCEPT
                          ![v].smooths = (now - val.start) * val.effectiveBalance,
                          ![v].start = now,
                          ![v].effectiveBalance = record.effectiveBalance]
      /\ UNCHANGED <<now, totalBond, balance>>

UpdateActiveWithoutShare(v, record) ==
  LET val == validators[v]
  IN  /\ IsActiveValidator(record, now)
      /\ ~Pending(Current, val)
      /\ Current.totalEB >= val.effectiveBalance
      /\ ledger' = Allocated([Current EXCEPT !.totalEB = @ - val.effectiveBalance],
                             record.effectiveBalance, now)
      /\ validators' = [validators EXCEPT
                          ![v].start = now,
                          ![v].effectiveBalance = record.effectiveBalance]
      /\ UNCHANGED <<now, totalBond, balance>>

\* updateValidator for a validator that is active: books the units earned so
\* far and starts again with the new effective balance.
UpdateActive(v, record) ==
  LET val   == validators[v]
      share == (now - val.start) * val.effectiveBalance
  IN  /\ IsActiveValidator(record, now)
      /\ ~Pending(Current, val)
      /\ Current.totalEB >= val.effectiveBalance
      /\ ledger' = Allocated([Current EXCEPT !.totalEB = @ - val.effectiveBalance],
                             record.effectiveBalance, now)
      /\ validators' = [validators EXCEPT
                          ![v].smooths = @ + share,
                          ![v].start = now,
                          ![v].effectiveBalance = record.effectiveBalance]
      /\ UNCHANGED <<now, totalBond, balance>>

UpdateValidator(v, record) ==
  /\ Registered(v)
  /\ \/ UpdateActive(v, record)
     \/ /\ ~IsActiveValidator(record, now)
        /\ LeavePool(v, validators[v].withdrawal)

\* slashBadFeeRecipient for a block proposed by v that paid `feeRecipient'.
SlashBadFeeRecipient(v, feeRecipient, sender) ==
  /\ Registered(v)
  /\ feeRecipient # PoolAddress
  /\ LeavePool(v, sender)

Exit(v, sender) ==
  /\ sender = validators[v].withdrawal
  /\ LeavePool(v, sender)

Rebalance ==
  /\ ledger' = Current
  /\ UNCHANGED <<now, validators, totalBond, balance>>

Next ==
  \/ Tick
  \/ Rebalance
  \/ \E value \in Deposits : Receive(value) \/ DonateETH(value)
  \/ \E v \in ValidatorIndex :
       \/ \E record \in BeaconRecords, value \in Deposits : Register(v, record, value)
       \/ \E timestamp \in DeployTime .. now : Withdraw(v, timestamp)
       \/ \E record \in BeaconRecords : UpdateValidator(v, record)
       \/ \E feeRecipient \in Account \cup {PoolAddress}, sender \in Account :
            SlashBadFeeRecipient(v, feeRecipient, sender)
       \/ \E sender \in Account : Exit(v, sender)

Spec == Init /\ [][Next]_vars

-----------------------------------------------------------------------------
(* Properties.                                                             *)

\* The state has the types of the contract's storage: all amounts are unsigned.
TypeOK ==
  /\ now \in Nat
  /\ validators \in [ValidatorIndex -> Validator]
  /\ ledger \in Ledger
  /\ totalBond \in Nat
  /\ balance \in Nat

\* A slot that is free is blank.  register does not write `smooths', so whatever
\* an earlier registration of the same validator left there would be paid again.
VacantIsBlank ==
  \A v \in ValidatorIndex : ~Registered(v) => validators[v] = NoValidator

\* Each registered validator has its whole bond in the contract: totalBond is
\* the sum of the bonds of the registered validators, whatever mixture of
\* registrations, slashings, exits and withdrawals happened, and the ETH to
\* distribute (totalETH) never reaches into it.
Bonds(V) == [v \in ValidatorIndex |-> V[v].bond]

BondsBacked ==
  /\ totalBond = Total(Bonds(validators))
  /\ \A v \in ValidatorIndex : validators[v].bond = IF Registered(v) THEN BOND ELSE 0
  /\ totalBond <= balance

\* The effective balance of every registered validator is counted once, in
\* totalEB or in pendingEB, and nobody else's is counted: joining, updating,
\* leaving by any door and settling a period keep the two counters together
\* equal to the sum, also when _exit takes a validator out of the wrong one.
Balances(V) == [v \in ValidatorIndex |-> V[v].effectiveBalance]

EBConserved == ledger.totalEB + ledger.pendingEB = Total(Balances(validators))

\* The smooths validator `val' has a right to at the last rebalance.
Claim(L, val) ==
  val.smooths + (IF Pending(L, val) THEN 0
                 ELSE (L.lastRebalance - val.start) * val.effectiveBalance)

Claims(L, V) == [v \in ValidatorIndex |-> Claim(L, V[v])]

\* The part of the current period that `val' was not yet in the pool, weighted.
Lead(L, val) ==
  IF Pending(L, val) THEN (val.start - L.lastRebalance) * val.effectiveBalance ELSE 0

Leads(L, V) == [v \in ValidatorIndex |-> Lead(L, V[v])]

\* No smooths without an owner: every unit of the pool-wide counter belongs
\* to some registered validator.  A unit left behind by an exit or a
\* withdrawal would dilute the rewards of all others for ever.
NoOrphanSmooths == ledger.smooths <= Total(Claims(ledger, validators))

\* What the next rebalance will add for the validators of this period never
\* exceeds what they will then claim.
PendingCovered ==
  ledger.pendingSmooths + Total(Leads(ledger, validators))
    <= REBALANCE_PERIOD * ledger.pendingEB

\* totalEB covers every validator that _exit and updateValidator take out of
\* it (those that started before the last rebalance), so that neither of
\* them ever reverts on that subtraction.
SettledBalances(L, V) ==
  [v \in ValidatorIndex |-> IF Pending(L, V[v]) THEN 0 ELSE V[v].effectiveBalance]

SettledCovered == Total(SettledBalances(ledger, validators)) <= ledger.totalEB

\* A validator starts within the period that the ledger is in, and not in the
\* future: the checked subtractions REBALANCE_PERIOD - (start - lastRebalance)
\* of _exit and REBALANCE_PERIOD - ellapsed of _allocateSmooths cannot revert.
StartInPeriod ==
  /\ ledger.lastRebalance \in DeployTime .. now
  /\ \A v \in ValidatorIndex :
       /\ validators[v].start <= now
       /\ validators[v].start <= ledger.lastRebalance + REBALANCE_PERIOD

\* By how much the validators can claim more smooths than the ledger holds
\* and will hold after the next rebalance.
Drift ==
  (Total(Claims(ledger, validators)) - ledger.smooths)
    + (REBALANCE_PERIOD * ledger.pendingEB - ledger.pendingSmooths
       - Total(Leads(ledger, validators)))

After(a, b) == IF a > b THEN a - b ELSE 0

\* The weighted time a step credits twice when it moves the start of a
\* validator: the time since the last rebalance that updateValidator books,
\* or the time before its registration that withdraw returns to it.
Recredited(v) ==
  IF /\ Registered(v) /\ Registered(v)'
     /\ validators'[v].start # validators[v].start
  THEN validators[v].effectiveBalance
         * (After(validators'[v].start, ledger'.lastRebalance)
            + After(validators[v].start, ledger'.lastRebalance))
  ELSE 0

\* The exact error of the ledger: no step changes the difference between what
\* is claimed and what is held, except updateValidator later than the block of
\* a rebalance and withdraw by a validator that joined in the period, and
\* these by exactly the time they credit twice.  In particular the error never
\* shrinks again.
DriftIsRecredit ==
  [][Drift' = Drift + Total([v \in ValidatorIndex |-> Recredited(v)])]_vars

\* No transaction of anybody lowers the ETH behind a unit of smooths, once
\* the period is settled: a withdrawal takes at most its pro rata share, so
\* the order in which validators withdraw does not hurt the later ones.
RateNeverDrops ==
  [][(balance' - totalBond') * Current.smooths >= TotalETH * ledger'.smooths]_vars

IsWithdrawal ==
  /\ ledger'.smooths < Current.smooths
  /\ totalBond' = totalBond
  /\ validators' # validators

\* The pool owes no more than rounding: a withdrawal pays its pro rata share
\* of the pool, short by less than one unit of ETH and one part in BPS.
PayoutAccurate ==
  [][IsWithdrawal =>
       LET share == Current.smooths - ledger'.smooths
           eth   == balance - balance'
       IN  share * TotalETH * BPS
             < Current.smooths * ((eth + 1) * BPS + TotalETH)]_vars

\* Whoever withdraws the last smooths empties the pool down to the bonds: no
\* dust stays behind (asserted by the tests after the last withdrawal).
LastWithdrawalDrains ==
  [][IsWithdrawal /\ ledger'.smooths = 0 => balance' = totalBond']_vars

\* What a validator can claim once the period is settled never shrinks, except
\* by its own withdrawal, which is the one that changes its record: no
\* settlement, and no update, exit, slashing or withdrawal of anybody else,
\* costs a registered validator smooths.
ClaimsKept ==
  [][\A v \in ValidatorIndex :
       Registered(v) /\ Registered(v)' =>
         \/ Claim(Current', validators'[v]) >= Claim(Current, validators[v])
         \/ IsWithdrawal /\ validators'[v] # validators[v]]_vars

\* The pool is an escrow of bonds: seen as the set of registered validators and
\* the ETH that is nobody's bond, every transaction is a join, a leave, a deposit
\* or a payment out of that ETH.
RegisteredSet == { v \in ValidatorIndex : Registered(v) }

FreeETH == balance - BOND * Cardinality(RegisteredSet)

Escrow == INSTANCE BondEscrow
            WITH Member <- ValidatorIndex, members <- RegisteredSet, free <- FreeETH

EscrowSpec == Escrow!Spec

-----------------------------------------------------------------------------
(* What the documentation says and the code does not do.                   *)

\* "Validator can exit any time" (src/src/SmoothlyPoolV2.sol:196): the owner of
\* a registered validator can exit it, if his account takes the bond.
ExitAnyTime ==
  \A v \in ValidatorIndex :
    Registered(v) /\ validators[v].withdrawal \in Payable =>
      ENABLED Exit(v, validators[v].withdrawal)

\* "smooths = SUM(USER_SHARE for all users)" (src/README.md:212).
SmoothsAreTheSumOfShares == ledger.smooths = Total(Claims(ledger, validators))

\* "Time in the pool: Starts from the validator's registration time and resets
\* upon claiming rewards" (src/README.md:186): the time a validator is credited
\* for is not credited again, so its start never moves back.
StartNeverRewinds ==
  [][\A v \in ValidatorIndex :
       Registered(v) /\ Registered(v)' => validators'[v].start >= validators[v].start]_vars

=============================================================================
