# SmoothlyPoolV2 in TLA+

A model of the contracts under `src/src/`, a pool in which beacon chain validators
share the fees of their blocks, and of the tools that make the proofs the contracts ask for. The modules are
checked with TLC on small instances, and every safety property that these checks confirm is also proved
with TLAPS, for every set of validators, every input, every block and every choice of the constants. Only a
liveness property is left to TLC alone.

## The system

| part | state | operations | depends on |
|---|---|---|---|
| `SmoothlyPoolV2.sol` | `validators` (effective balance, withdrawal account, bond, start, smooths); `lastRebalance`, `totalEB`, `smooths`, `pendingEB`, `pendingSmooths`; `totalBond`; its ETH | `register`, `withdraw`, `updateValidator`, `slashBadFeeRecipient`, `exit`, `rebalance`, `receive`, `donateETH` | oracle (internal calls), the accounts it pays (external calls) |
| `BeaconOracle.sol` | none | `verifyValidator`, `verifyFeeRecipient`, `getParentBlockRoot`, activity, credentials, record roots | Merkle, EIP-4788 |
| `libraries/Merkle.sol` | none of its own | roots of single and multi-proofs, helper indices, `log2` | Arrays, HashMap, sha256 |
| `libraries/Arrays.sol` | HashMap: transient storage | array functions, quicksort; set, get, contains | the virtual machine |
| `libraries/SSZ.sol` | none | record roots, branch verification; used by the tests | sha256 |
| `proofs/index.ts` | none | builds proofs off chain | a beacon node |
| `consensus_types` (Rust) | none | structs of blocks and states, their conversion from JSON | `ssz_rs`, `serde_json` |
| `prover` (Rust) | one request | downloads the block of a slot, prints the proof of its proposer and fee recipient | a beacon node, `consensus_types` |
| `dbg` (Rust) | none | composes generalized indices (the rest is commented out) | a beacon node |
| `integration-tests` (Rust) | none | a copy of the block types and a test of `ssz_rs` | `ssz_rs` |

**How the books work.** A validator joins with a bond and the effective balance (EB) that a
proved record shows. It earns *smooths*: EB times seconds. Every function first calls
`_rebalance` (modifier `needsRebalance`); if more than `REBALANCE_PERIOD` has passed it adds
the smooths of the elapsed time to `smooths` and sets `lastRebalance`. A validator that
joined within the period is *pending* (`start >= lastRebalance`): it is counted in
`pendingEB`, and `pendingSmooths` holds its part of the first `REBALANCE_PERIOD` seconds.
Anyone else is *settled* and counted in `totalEB`. A validator's claim is kept nowhere: it is
recomputed from its `start`, its EB and the smooths that updates carried over. So two accounts of
the same quantity, a global counter and the claims of all validators, have to agree
without ever being compared. That is where most of the properties aim.

**What is hard.** Order and timing of transactions by several owners across rebalances
(which functions settle, when, and where `start` lies at that moment); checked subtractions
that turn a bookkeeping error into a transaction that reverts for ever; rounding; evidence
that is late by one block and valid for a day; transient storage that outlives a
call; payments to accounts that may refuse them. Nothing in the contracts runs by
itself: there are no timers, and time passes between transactions.

**How a proof comes about.** The prover asks a beacon node for a block, converts the JSON into
its structs and lets `ssz_rs` derive a tree from them; the hashes next to two paths in that tree are
printed, and somebody submits them to `slashBadFeeRecipient`, which hashes them up to the root that
EIP-4788 gives. The order of the fields, the limits of the lists and the layout of leaves are
written down several times, in three languages; they are right only if all of them meet in the same
root. The request may fail or hang, and the node may serve a block of another fork than the one the
structs are written for.

## Modules

| module | models | 
|---|---|
| `BeaconOracle` | epochs, activity and withdrawal credentials: what the pool computes from a proved record |
| `UnitSums` | sums over all validators, as the number of units (no recursion, so that laws of sums can be proved) |
| `SmoothlyPool` | the pool: one action per external function; `_rebalance`, `_allocateSmooths`, `_getShares` as operators on the ledger; `_exit` as `LeavePool`, shared by the three ways out |
| `BondEscrow` | abstract: a set of members, one bond each, and free ETH |
| `SmoothlyPoolOnBeacon` | the pool with evidence from a chain of blocks through the ring buffer of EIP-4788 |
| `Nesting` | recursion over nested data, as derive macros generate it: what is computed of a thing is joined from what is computed of those directly inside it |
| `SimpleSerialize` | the types of SSZ as data: their values, what JSON converts to them, their trees, generalized indices and multi-proofs (the part that `ssz_rs` and `serde_json` play), as instances of `Nesting` |
| `ConsensusTypes`, `ConsensusState` | the crate `consensus_types`: each struct is the sequence of its fields |
| `BlockProofs` | blocks that differ in proposer and fee recipient, and the two paths the prover proves |
| `Prover` | the program `prover`: a request, its timeout, what becomes of the answer; a beacon node with blocks of three forks, of any content, whose answer may also lack the block or be no JSON |
| `FeeRecipientProofs` | `verifyFeeRecipient` over transactions of several calls, with transient storage, for any blocks, trees of them, and indices and hashes that the caller gives |
| `Libraries` | the properties of the library functions and of what they have to do with the Rust types; a behaviour is the choice of an input |
| `Merkle`, `SSZ`, `Arrays`, `Words`, `ProofTool` | the algorithms: proofs over a free hash constructor, record roots, arrays and quicksort, 256-bit words as sets of bit positions, the helper indices of the off-chain tool, the indices of `dbg` |
| `BlankValues` | values for TLC: blank blocks and states in which the fields that matter are set |
| `MC...` | instances for TLC; `MCFeeRecipientProofs` takes the trees and proofs of `BlockProofs`, and other indices with hashes of the same trees; `MCLibraries` runs it beside `Libraries` |
| `SmoothlyPool_proofs`, `SmoothlyPoolOnBeacon_proofs`, `Merkle_proofs`, `Nesting_proofs`, `SimpleSerialize_proofs`, `Libraries_proofs`, `FeeRecipientProofs_proofs`, `Prover_proofs` | theorems |

`SmoothlyPool` EXTENDS `BeaconOracle` and `UnitSums`; `SmoothlyPoolOnBeacon` EXTENDS it;
`Merkle` EXTENDS `Arrays` and `Words`; `ProofTool` and `SSZ` EXTEND `Merkle`.
On `SSZ` stand, in a row, `SimpleSerialize` and `ConsensusTypes`, then `ConsensusState` and `BlockProofs`;
`Prover` EXTENDS `BlockProofs`, and `Libraries` both `ConsensusState` and `ProofTool`. `FeeRecipientProofs` EXTENDS
`SSZ` and takes the trees and the requests of callers as constants; `MCFeeRecipientProofs` gives it trees of
`BlockProofs`. So the proofs that the prover prints from the Rust types are verified by `CalculateMultiMerkleRoot` of the Solidity library. All
recursion is in recursive functions, about which something can be proved; the only `RECURSIVE` operator makes the
blank values of `BlankValues`, with which nothing is proved.

**From code to model.** A transaction that reverts is no step: each `revert`, `require` and
checked subtraction is a guard. `needsRebalance` is the operator `Current`, the ledger as a
function body sees it. In `SmoothlyPool` the record and the fee recipient that a proof
shows are parameters over everything the chain could say (a proof may be a day
old, so any recent record is possible); `SmoothlyPoolOnBeacon` restricts them to what the
blocks in the buffer say. For a record that is justified: a single proof at the index that `verifyValidator`
computes leads to the root from nothing but the record (`SingleProofIsExact`, `VerifyProofAgrees`,
`RootsAgree`). For proposer and fee recipient it is an assumption about the callers: the calls of
`withdraw` and `slashBadFeeRecipient` in `SmoothlyPoolOnBeacon` bring the proofs that the
prover makes, each in a transaction of its own. Such a proof, if it is accepted, shows the values of the block
(`FieldsAreProvenTheorem`); what other indices and further calls of a transaction bring through is the
subject of `FeeRecipientProofs`, and more than that (see `proof_same_index` and `proof_two_calls`).
In `SmoothlyPool`, where any proposer and recipient may be shown, nothing depends on it.
A called account takes ETH (`Payable`) or refuses it.
A call of `verifyFeeRecipient` is judged against the root of some block; the pool function around it may still revert
(`completes` of `Judge`), and then as after a refusal nothing stays in transient storage. A call at a
timestamp without a root reverts before it touches anything, and is no step.
In `Prover`, an `unwrap` that fails is a panic and ends the run, as does an error that `main` returns: `from_str` panics
on a text that is no JSON (`main.rs:42`), `from_json` on an answer without `data` or `message` (`main.rs:43`), both
whatever the block, and on a missing key of a struct.
A value is passed through part by part, by `Nesting`: a pair of a type and a value is a thing, the pairs of its
fields or items are inside it. The same recursion gives the values of a type (`Fits`), the JSON a node serves (`Served`),
what `from_json` makes of JSON (`Converts`, `Converted`) and the roots (`TreeRoot`).
The trees of `SimpleSerialize` go down to the fields of containers; the data of a list, of a vector or of
a long byte string is one node, since no proof of the project leads into it but that of a validator,
which `GeneralizedIndex` covers. The node of a list holds the logarithm of its limit (all limits are powers of
two), on which the depth of the tree depends, so a list with another limit has another root. A node's own type differs from
the crate's where it can: a payload has at most 16 withdrawals.
Operators marked *Mutant* are plausible errors; they are used nowhere, and each
shows that a property can fail: putting one in the place of the definition that follows
it makes the property it was written for fail.

**Preconditions.** Nothing restricts the generalized indices, the hashes or the values that a caller gives to
`verifyFeeRecipient`; only the number of the indices is checked, there as in the code. That a proof is exact is
claimed for indices that differ, are in the tree, and of which none lies above another (`MultiProofIsExact`,
`AreSeparate`), and for the first proof that a transaction has accepted; the indices of `proposer_index` and
`fee_recipient` are such (`FieldIndices`, which no contract knows). Validator indices are below 2^40.
The off-chain tool gets indices below 2^53, which JavaScript has exactly; its xor takes the lower 32 bits as a
signed number, and the model has `XorLimit` in the place of 2^31, which TLC's numbers cannot reach.

## Runs

### The pool

| run | shows |
|---|---|
| `pool_core` | two interchangeable validators of one owner, over two rebalances: all books agree; see below |
| `beacon` | one validator, blocks with missed slots: roots keep their order (`EvidenceIsOrdered`); who is removed for an exit has exited, however old the record shown (`ExitEvidenceHolds`) |

`pool_core` checks
- `BondsBacked`: each bond is there, `totalETH` never reaches into the bonds; `EscrowSpec`: the
  pool implements `BondEscrow`;
- `EBConserved`, `SettledCovered`: every EB counted once, in the right counter;
- `NoOrphanSmooths`, `PendingCovered`: no smooths without an owner, now or after the next settlement;
- `StartInPeriod`, `VacantIsBlank`, `TypeOK`: no subtraction underflows, no slot hands
  anything down to the next validator in it;
- `DriftIsRecredit`: the difference between claims and the counter grows by exactly the time that
  two known steps credit twice (below), and by nothing else;
- `RateNeverDrops`, `PayoutAccurate`, `LastWithdrawalDrains`: no step lowers the ETH behind a unit,
  payments are short by rounding only, the last one leaves no dust;
- `ClaimsKept`: nobody's action costs somebody else smooths; only a withdrawal that changes a validator's
  own record takes its claim.

*Bounds.* `REBALANCE_PERIOD = 2` and times 1 to 7 allow two settlements, with registrations at both ends
and inside of a period and settlements both on time (3 units) and late. Two validators are enough for one to
act on the share of the other. EBs 1 and 2, a record that has exited and one with BLS credentials make
updates in both directions and all guards happen. `BOND = 2` and deposits of 2 and 3 include a wrong
bond. `BPS = 10` is small enough for both roundings to matter. `MaxBalance` and `MaxTime` bound what is unbounded in the
code; the proofs do not depend on them. In `beacon` the buffer has 3 entries and times go to 6, so
that it wraps around and entries survive missed slots. A record changes as the beacon chain lets it: the activation (at 3)
and the exit (at 5) are announced once, ahead of time, and read `FAR_FUTURE_EPOCH` before;
both may also be announced in the first block, or never.

### The algorithms

| run | shows | bounds |
|---|---|---|
| `libraries`, words and arrays | `log2`, `toLittleEndian` and `concatGindices` agree with their definitions; quicksort and `difference` do what they say | 256-bit words with one or two one bits or a block of them, around every boundary of 32 bits and every eighth position; all arrays of four numbers up to length 6 (sorting), 4 and 2 (difference) |
| `libraries`, records and blocks | roots hashed in place are those of the tree, different records differ; the literal indices of the contracts are the paths of the Rust types (`IndicesArePaths`), and `dbg` composes the same (`DebugToolAgrees`); Solidity and Rust give a record one root (`RootsAgree`), and a block, its header and its header with the state have one root, as have a payload and its header (`ViewsShareRoot`) | two values a field; lists of a block with no item and with one |
| `libraries`, proofs | proofs of 1 to 3 nodes lead to the root, nothing else does; `verifyProof` of SSZ agrees; the helper indices are those needed, and the tool lists the same in the same order as long as its 32-bit xor can hold the indices, and no longer (`ToolAgrees`) | correct proofs: tree of 8 leaves, all antichains, with leaves at different depths, where a key has to wait for its sibling; all others: tree of 4 leaves, every choice of leaves and proof from its nodes, all lengths; `XorLimit = 8`, so that leaves of the larger tree lie beyond it |
| `libraries`, calls | the first proof that a transaction gets accepted is exact, and an exact one is accepted (`FirstProofIsExact`); what a transaction left behind lets a wrong proof through only of the block it was accepted for (`RightOrMet`) | up to two calls in a transaction, any number of transactions; two proposers, two recipients; the prover's requests, and the indices in the other order, one alone, one twice, and a node together with the root |
| `prover` | every run ends (`EveryRunEnds`); a printed proof is accepted if and only if the block is of the fork of the types (`PrintedIsAccepted`); a panic means an answer without the block or a missing key, never a block of the fork (`OnlyIncompletePanics`) | blocks of the fork, the one before (no blob gas), one after (one more list) and with a slashing under other names, full of withdrawals; a timeout of three units, so that each answer comes early, late or too late; answers with the block, without `message`, without `data`, and no JSON |

### Where the code does something else than a text says

Each run checks one sentence of the repository and ends in a counterexample.

| run | sentence | what happens |
|---|---|---|
| `exit_any_time` | "Validator can exit any time" (`SmoothlyPoolV2.sol:196`) | after a withdrawal `start = lastRebalance`, which `_exit` takes for a pending validator; it reverts until the next rebalance |
| `smooths_sum` | "smooths = SUM(USER_SHARE for all users)" (`README.md:212`) | an update later than the block of a rebalance credits time that `smooths` does not hold |
| `start_rewinds` | time starts at registration and resets on claiming (`README.md:186`) | a withdrawal in the period of the registration moves `start` back before it |
| `claim_before_joining` | a member "will have to propose a block" (`README.md:66`) | the root at a timestamp is that of the parent block, which may precede the registration |
| `slash_before_joining` | evidence "that the validator violated the protocol" (`README.md:287`) | blocks from before the registration count |
| `register_exited` | "included and active in the beacon chain" (`SmoothlyPoolV2.sol:70`) | an old record of a validator that has exited since |
| `proof_two_calls` | "Calculates multi-merkle root" (`Merkle.sol:32`) | the second call in a transaction returns the root of the first: a right proof of another block is refused, and any values are accepted of the first block (`RightOrMet` says that they are of no other) |
| `proof_same_index` | "If verifies, we can use the values" (`BeaconOracle.sol:46`) | only the number of the indices is checked: with the index of the fee recipient twice, the second value overwrites the first, which is never verified |

Seen while modelling, and too plain for a run: a slashing sends the whole bond to the caller,
where `README.md:297` returns the rest to the pool; a withdrawal may be backed by any block since
`start` that is still in the buffer, where `README.md:153` asks for the latest; a validator that
has left the beacon chain cannot be removed while its owner's account refuses the bond
(`SmoothlyPoolV2.sol:134` says that anyone can); `updateValidator` compares the epochs of the record it is
shown with the present, so a record from before the activation was announced removes a validator that is active by now
(`SmoothlyPoolV2.sol:131` speaks of an update). The prover prints a proof of a block of a later fork
without an error, though no contract accepts it (`PrintedIsAccepted`); and since `AttesterSlashings`
has two signed headers like `ProposerSlashings` (`beacon_block.rs:36`), blocks with slashings are read
only if the node names their parts so.

`DriftIsRecredit` relates `smooths_sum` and `start_rewinds` to the rest: the two steps they
show are the only ones that put claims and counter apart.

### Fairness and liveness

Of the contracts, none: every step is a transaction that somebody may or may not send;
neither the contract nor the chain obliges anyone. Deadlock is checked: `rebalance` can
always be called.

In `Prover` time passes (`WF(Tick)`) and the timer of the client fires when it is due (`WF(TimeOut)`): the
runtime of the program polls the request and the timer, and the timeout set on the client
(`main.rs:30-31`) covers the request from the connection to the end of the text. Nothing is assumed of the
node, which may stay silent for ever, or of the person who starts the program. That is enough for `EveryRunEnds`; it fails
when the timeout ends with the arrival of the status.

## Proofs

Assumptions: `OracleAssumption`, `PoolAssumption` and `BeaconAssumption` give the constants of the pool
their types (finite set of validators; positive period, bond and deployment time not before the genesis of
the beacon chain). `DeBruijnAssumption` says of the table of `log2` that it inverts the multiplication, for the
32 words that occur. `XorAssumption` says that the xor of JavaScript has an even, positive limit.
`LibrariesAssumption` gives the inputs their types (words of 256 bits, generalized indices of 64 bits, records with
the fields of the code, blocks with any values of the types of a state and a body, trees of hashes, and claims about
nodes of which none lies above another). `FeeRecipientAssumption`
says of a block that its tree has its proposer and its recipient at the indices of the two fields, and of a request only
that it has a sequence of numbers and a sequence of hashes.
`ProverAssumption` says of the node's blocks that each is a value of the type of its fork (`Fits`), with the proposer and
the recipient it is named for, and that one of fork *slashing* has a slashing; and that the timeout is positive. TLC
evaluates all of them in the runs.

- **`SmoothlyPool_proofs`**: the total of a function of amounts is the number of its units; first come how it changes
  when one amount changes, monotonicity, sums and scaling. The inductive invariant `Inv` is `TypeOK`, `VacantIsBlank`, `BondsBacked` and
  `Books(ledger, validators)`; `Books` holds `EBConserved`, `NoOrphanSmooths`, `PendingCovered`,
  `SettledCovered` and `StartInPeriod` for *any* ledger and validators. None of these is inductive alone: that
  exits cannot take smooths that are not there needs `PendingCovered`; this needs the start to lie in
  the period; that settling keeps `NoOrphanSmooths` needs both and `EBConserved`. As `Books` is about any
  ledger, a transaction is followed in the code's two moves: `SettledBooks` takes the ledger to
  `Current`, and then `BooksOfOneValidator` says what the body has to do to the counters when it
  changes one validator. One lemma per action follows, then `Invariance`, and each
  invariant as a theorem. `EscrowStep` maps each action to one of `BondEscrow` (`PoolImplementsEscrow`):
  by `BondsAreLocked` the ETH that is nobody's bond is `balance - totalBond`.
  The action properties stand on top of `Inv`. Each of the transactions that change a
  validator is summed up once, against `Current`, the settled ledger its body sees (`RegisterEffect`, `LeaveEffect`,
  `WithdrawEffect`, `UpdateActiveEffect`); all others change no validator (`QuietEffect`), and
  `StepKinds` splits `Next` into these. `PayoutRate` is the arithmetic of the two divisions of a payment,
  and gives `PayoutAccurate`, `LastWithdrawalDrains` and `RateNeverDrops`. `ClaimsKept` follows since a later
  settlement never lowers a claim (`ClaimGrows`), by which settling early or late makes no one poorer.
  For `DriftIsRecredit`, `SettlementKeepsDrift` shows that settling makes no error of its own (from
  `TotalsAfterRebalance`, shared with `SettledBooks`), and `DriftOfOneValidator` reduces the rest
  to the one validator of the transaction.
- **`SmoothlyPoolOnBeacon_proofs`**: `ChainInv` says that the entries of the ring buffer are in the
  order of the chain; from it `EvidenceOrder`, for any buffer length. Every step there is one of the pool
  (`PoolStep`, a lemma), so the theorems of the pool hold there as well (`BondsAreBackedOnBeacon` is one instance).
  `ExitEvidence` needs two more invariants: where a block of the buffer and the head disagree on an exit, the
  block has not heard of it (`ExitsAnnounced`), and no time reads as `FAR_FUTURE_EPOCH` (`TimeBound`).

- **`Merkle_proofs`**, recursion and words. The installed provers cannot instantiate an induction rule that takes an operator,
  so induction goes over sets (`Induction`: a set with 0 and with every successor is all of `Nat`) or from a least
  counterexample (`WFMin` of the library), and `Recursion` gives a recursive function of naturals its equation. On these stand the halving of `log2`
  and the reversal of bytes, the bits of numbers (`Bits` and `Value` are inverse), the composition of indices, `difference`,
  and the quicksort in place. The sort is followed as rearrangements: `Rearranged` (some
  permutation leads from one array to the other), kept by each swap; `Parted`, what one round leaves to the left and right of the
  pivot; `Splits`, that both parts then rearrange within themselves. A repeated item does not matter in any of them.
  Proofs: paths and branches climb to the root; a single proof is a fold along the path, and since the hash
  is free it leads to the root only from the node and branch of the tree (`SingleProofExact`). `HelpersAreMissing` characterises the helper
  indices. `calculateMultiMerkleRoot` is followed round by round: `Kept` holds of the map (what is in it is the
  hash of the given values or of two children in it) and `Queued` of the keys. `RoundsSuffice`: the queue empties before its
  capacity is used up. `Completed` and `KnownAreComputed`: the map then holds exactly the closure of the given nodes.
  `MapIsExact` follows from the root downwards, by freeness of the hash, and with it `MultiProofExact`: on an
  empty map, nothing but the nodes and missing siblings of the tree leads to its root.
- **`Nesting_proofs`**: `FoldEquation`, the equation of the recursion over nested data, for whatever is computed. Since there is
  no rule of induction for an operator, the recursive function is built in steps: `Reached` by number of steps, then the
  function on all things that can be reached, by how deep they are nested; `ResultsAgree` says that it
  does not matter from where a thing was reached. It holds for all that is nested no deeper than `NESTING`, and
- **`SimpleSerialize_proofs`** shows that the types of blocks and states are (`BlocksNest`, `StatesNest`). From it
  follow the roots of values kind by kind, that a struct is a complete tree above the roots of its fields
  (`ContainerRoot`), that the tree of a struct goes on below its fields (`PlaceEquation`), and
  the fields of the structs by number and name. `ServedReturns` is the round trip through JSON: `from_json`
  neither refuses nor changes a value that a node serves, by induction over how deep its type is nested.
- **`Libraries_proofs`**: the properties of `Libraries` for all inputs, as invariants. `InputsFit` is the invariant they need:
  the chosen input is one of its kind, and the other variables are defaults of their types. For records,
  `LevelHashesPairs` says what a loop that overwrites its own array leaves, and `TreeAboveNodes` that rounds of it are the levels of the tree;
  different records differ in the tree since the hash is free. For the tools, `FilteredItems` and
  `FirstOnlyItems` are about the filters of JavaScript, and the order is compared by counting the smaller items; `ToolBranchSame` and
  `ToolMissesLarge` are the two sides of the limit of the xor (beyond it, the sibling of the index itself is never listed); for `dbg`,
  `FloorValue` is the filling of all places below the highest bit, `ComposedStep` one product.
  What relates the contracts to the Rust types: `PathsTheorem` follows a path name by name (`FieldStep`), up to the
  validator, whose index may be any word below 2^40; `RootsAgreeTheorem` puts the loops in place beside the tree of
  the struct of the same name; for `ViewsTheorem` a struct whose field is replaced by the root of that field
  has the same roots of fields, so the same root, whatever the state and the body hold.
- **`FeeRecipientProofs_proofs`**: for any number of calls, and any indices and hashes. On an empty map
  `MultiProofExact` decides the verdict if the two indices are apart from each other (`FirstCall`). `RootStays` is about
  any indices, also one twice, zero or one above the other: the loop changes nothing that it finds (`LoopKeeps`), the
  helper indices never have the root (`HelpersOfAny`) and a leaf is no hash, so a call that leads to the root of a block
  leaves this root in the map, and has found no other. Hence the invariant `MetIsRoot`: the map is empty until a proof is accepted,
  and holds from then on the root of the one block that proofs were accepted of. It gives `FirstProofIsExactTheorem` and
  `RightOrMetTheorem`; with the two fields at `FieldIndices`, the first proof accepted there is of the proposer and
  the recipient of the block (`FieldsAreProvenTheorem`).
- **`Prover_proofs`**: the tree of a block along the two paths of the proof is a tree in the sense of `MultiProofExact`, with
  `PathMissing` as the hashes that the proof needs. So the contract accepts a printed proof exactly if the hashes of the
  tree that the program built are those of the tree of the chain (`BranchAccepted`). For a block of the fork the two trees are one, since
  `ServedReturns` says that the program works on the very value; the body of a later fork has one more
  field, and another hash next to the path (`NewerDiffers`). An answer without the block has nothing to convert
  (`NullIsNoBlock`). That a block of the fork before and a slashing do not convert is the absence of a key (`OlderFails`, `SlashingFails`). The inductive invariant `OutcomeInv` says of
  an outcome from which blocks it can come, and what was printed then; it gives `OnlyIncompletePanics` and `PrintedIsAccepted`
  for all blocks a node may serve, not only the blank ones of the run.

All invariants and action properties of all passing runs are proved, and the refinement of `pool_core`.
Only model-checked: `EveryRunEnds` of `prover`, since liveness under fairness and ENABLED are out of the prover's
reach. The runs that expect a violation stay with TLC: a counterexample needs no proof.

## Not modelled

- Accounts that call back into the pool while they are paid (`_exit` sends before it deletes).
- Overflow of 256-bit products: amounts stay far below it with the ETH there is.
- Gas, events, the text of errors, and view functions for the outside.
- Real sha256: the hash is a free constructor.
- The network part of the proof tool, and the main function of `dbg`, all of which but the making of a
  client is commented out (`dbg/src/main.rs:48-167`); so nothing calls `concat_generalized_indices` either, which is modelled since
  it is code to compose the indices that the contracts have as numbers. Nothing calls `get_bits` (`types.rs:142`) or constructs a `Transaction2`.
- `integration-tests`: its block types are those of `consensus_types`, a test proves three paths with
  `ssz_rs` and verifies them with `ssz_rs`; the calls of the contract are commented out.
- The text of hexadecimal and decimal strings: JSON has numbers, bytes of a length, arrays and objects.
- The chain before the pool is deployed.

## Plan

1. Done: the pool, the escrow, the algorithms, the evidence, invariants proved; the Rust types, the
   prover and how its proofs meet the contracts.
2. Done: proofs of the action properties of the pool.
3. Done: proofs of the algorithms, without bounds on words, arrays and trees, and of `verifyFeeRecipient`.
4. Done: the safety of the prover and the relation of the contracts to the Rust types, for any blocks and states.
5. How long a block can be used again. (Two validators in `SmoothlyPoolOnBeacon` are beyond TLC in reasonable
   time; its theorems are for any number of validators.)
