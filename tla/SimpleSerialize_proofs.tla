------------------------ MODULE SimpleSerialize_proofs ------------------------
(***************************************************************************)
(* What goes through a value part by part, and the trees of containers.    *)
(***************************************************************************)
EXTENDS ConsensusState, Merkle_proofs

FormsAre == INSTANCE Nesting_proofs WITH Inside <- InsideValue, Join <- FitsFrom

RootsAre == INSTANCE Nesting_proofs WITH Inside <- InsideValue, Join <- RootFrom

AnswersAre == INSTANCE Nesting_proofs WITH Inside <- InsideValue, Join <- ServedFrom

ConversionsAre == INSTANCE Nesting_proofs WITH Inside <- InsideJson, Join <- ConvertsFrom

ResultsAre == INSTANCE Nesting_proofs WITH Inside <- InsideJson, Join <- ConvertedFrom

-----------------------------------------------------------------------------
(* How deep a type is nested, whatever is in a value or in JSON.           *)

NestsIn(type, n) ==
  /\ \A v : RootsAre!Nests(<<type, v>>, n)
  /\ \A json : ResultsAre!Nests(<<type, json>>, n)

\* The recursions are those of the modules they are proved in.
LEMMA SameFolds ==
  ASSUME NEW x
  PROVE  /\ RootsAre!Fold(x) = Roots!Fold(x)
         /\ AnswersAre!Fold(x) = Answers!Fold(x)
         /\ FormsAre!Fold(x) = Forms!Fold(x)
         /\ ConversionsAre!Fold(x) = Conversions!Fold(x)
         /\ ResultsAre!Fold(x) = Results!Fold(x)
BY DEF RootsAre!Fold, Roots!Fold, RootsAre!Parts, Roots!Parts, RootsAre!Reached, Roots!Reached,
  RootsAre!NESTING, Roots!NESTING, Answers!Fold, Answers!Parts, Answers!Reached, Answers!NESTING,
  AnswersAre!Fold, AnswersAre!Parts, AnswersAre!Reached, AnswersAre!NESTING,
  FormsAre!Fold, FormsAre!Parts, FormsAre!Reached, FormsAre!NESTING,
  Forms!Fold, Forms!Parts, Forms!Reached, Forms!NESTING,
  Conversions!Fold, Conversions!Parts, Conversions!Reached, Conversions!NESTING,
  ConversionsAre!Fold, ConversionsAre!Parts, ConversionsAre!Reached, ConversionsAre!NESTING,
  Results!Fold, Results!Parts, Results!Reached, Results!NESTING,
  ResultsAre!Fold, ResultsAre!Parts, ResultsAre!Reached, ResultsAre!NESTING

\* How deep something is nested does not depend on what is computed of it.
LEMMA SameNests ==
  ASSUME NEW x, NEW n
  PROVE  /\ RootsAre!Nests(x, n) <=> AnswersAre!Nests(x, n)
         /\ RootsAre!Nests(x, n) <=> FormsAre!Nests(x, n)
         /\ ResultsAre!Nests(x, n) <=> ConversionsAre!Nests(x, n)
BY DEF RootsAre!Nests, RootsAre!Reached, AnswersAre!Nests, AnswersAre!Reached,
  FormsAre!Nests, FormsAre!Reached, ResultsAre!Nests, ResultsAre!Reached,
  ConversionsAre!Nests, ConversionsAre!Reached

\* What is computed of a value or of JSON is made of what is computed of the parts.
LEMMA ValueEquations ==
  ASSUME NEW type, NestsIn(type, 6), NEW v
  PROVE  LET x == <<type, v>>
             inside == InsideValue(x)
         IN  /\ TreeRoot(type, v) = RootFrom(x, [i \in DOMAIN inside |-> Roots!Fold(inside[i])])
             /\ Served(type, v) = ServedFrom(x, [i \in DOMAIN inside |-> Answers!Fold(inside[i])])
             /\ Fits(type, v) = FitsFrom(x, [i \in DOMAIN inside |-> Forms!Fold(inside[i])])
<1> DEFINE x == <<type, v>>
           inside == InsideValue(x)
<1>1. RootsAre!Nests(x, 6) /\ AnswersAre!Nests(x, 6) /\ FormsAre!Nests(x, 6)
  BY SameNests DEF NestsIn
<1>2. RootsAre!NESTING = 6 /\ AnswersAre!NESTING = 6 /\ FormsAre!NESTING = 6
  BY DEF RootsAre!NESTING, AnswersAre!NESTING, FormsAre!NESTING
<1> HIDE DEF x
<1>3. RootsAre!Fold(x) = RootFrom(x, [i \in DOMAIN inside |-> RootsAre!Fold(inside[i])])
  BY <1>1, <1>2, RootsAre!FoldEquation
<1>4. AnswersAre!Fold(x) = ServedFrom(x, [i \in DOMAIN inside |-> AnswersAre!Fold(inside[i])])
  BY <1>1, <1>2, AnswersAre!FoldEquation
<1>5. FormsAre!Fold(x) = FitsFrom(x, [i \in DOMAIN inside |-> FormsAre!Fold(inside[i])])
  BY <1>1, <1>2, FormsAre!FoldEquation
<1>6. TreeRoot(type, v) = Roots!Fold(x) /\ Served(type, v) = Answers!Fold(x)
      /\ Fits(type, v) = Forms!Fold(x)
  BY DEF TreeRoot, Served, Fits, x
<1>7. Roots!Fold(x) = RootFrom(x, [i \in DOMAIN inside |-> Roots!Fold(inside[i])])
  BY <1>3, SameFolds
<1>8. Answers!Fold(x) = ServedFrom(x, [i \in DOMAIN inside |-> Answers!Fold(inside[i])])
  BY <1>4, SameFolds
<1>9. Forms!Fold(x) = FitsFrom(x, [i \in DOMAIN inside |-> Forms!Fold(inside[i])])
  BY <1>5, SameFolds
<1> QED
  BY <1>6, <1>7, <1>8, <1>9 DEF x

\* What from_json makes of JSON is made of what it makes of the parts.
LEMMA JsonEquations ==
  ASSUME NEW type, NestsIn(type, 6), NEW json
  PROVE  LET x == <<type, json>>
             inside == InsideJson(x)
         IN  /\ Converts(type, json)
                  = ConvertsFrom(x, [i \in DOMAIN inside |-> Conversions!Fold(inside[i])])
             /\ Converted(type, json)
                  = ConvertedFrom(x, [i \in DOMAIN inside |-> Results!Fold(inside[i])])
<1> DEFINE x == <<type, json>>
           inside == InsideJson(x)
<1>1. ConversionsAre!Nests(x, 6) /\ ResultsAre!Nests(x, 6)
  BY SameNests DEF NestsIn
<1>2. ConversionsAre!NESTING = 6 /\ ResultsAre!NESTING = 6
  BY DEF ConversionsAre!NESTING, ResultsAre!NESTING
<1> HIDE DEF x
<1>3. ConversionsAre!Fold(x)
        = ConvertsFrom(x, [i \in DOMAIN inside |-> ConversionsAre!Fold(inside[i])])
  BY <1>1, <1>2, ConversionsAre!FoldEquation
<1>4. ResultsAre!Fold(x) = ConvertedFrom(x, [i \in DOMAIN inside |-> ResultsAre!Fold(inside[i])])
  BY <1>1, <1>2, ResultsAre!FoldEquation
<1>5. Converts(type, json) = Conversions!Fold(x) /\ Converted(type, json) = Results!Fold(x)
  BY DEF Converts, Converted, x
<1>6. Conversions!Fold(x)
        = ConvertsFrom(x, [i \in DOMAIN inside |-> Conversions!Fold(inside[i])])
  BY <1>3, SameFolds
<1>7. Results!Fold(x) = ConvertedFrom(x, [i \in DOMAIN inside |-> Results!Fold(inside[i])])
  BY <1>4, SameFolds
<1> QED
  BY <1>5, <1>6, <1>7 DEF x

\* Types without parts, and types of parts.
Basic(type) == type.kind \in {"unsigned", "boolean", "byteVector", "byteList"}

\* A type without parts is not nested at all.
LEMMA BasicNests ==
  ASSUME NEW type, Basic(type)
  PROVE  NestsIn(type, 0)
<1>1. ASSUME NEW v
      PROVE  RootsAre!Nests(<<type, v>>, 0)
  <2>1. DOMAIN InsideValue(<<type, v>>) = {}
    BY DEF InsideValue, Basic
  <2> QED
    BY <2>1, RootsAre!NestsNothing
<1>2. ASSUME NEW json
      PROVE  ResultsAre!Nests(<<type, json>>, 0)
  <2>1. DOMAIN InsideJson(<<type, json>>) = {}
    BY DEF InsideJson, Basic
  <2> QED
    BY <2>1, ResultsAre!NestsNothing
<1> QED
  BY <1>1, <1>2 DEF NestsIn

\* A list nests a step deeper than its items.
LEMMA ListNests ==
  ASSUME NEW type, type.kind \in {"vector", "list"}, NEW n \in Nat
  PROVE  NestsIn(type, n + 1) <=> NestsIn(type.element, n)
<1>1. ASSUME NestsIn(type.element, n)
      PROVE  NestsIn(type, n + 1)
  <2>1. ASSUME NEW v
        PROVE  RootsAre!Nests(<<type, v>>, n + 1)
    <3>1. InsideValue(<<type, v>>) = [i \in DOMAIN v |-> <<type.element, v[i]>>]
      BY DEF InsideValue
    <3>2. \A i \in DOMAIN InsideValue(<<type, v>>) : RootsAre!Nests(InsideValue(<<type, v>>)[i], n)
      BY <1>1, <3>1 DEF NestsIn
    <3> QED
      BY <3>2, RootsAre!NestsInside
  <2>2. ASSUME NEW json
        PROVE  ResultsAre!Nests(<<type, json>>, n + 1)
    <3>1. \/ InsideJson(<<type, json>>) = [i \in DOMAIN json.items |-> <<type.element, json.items[i]>>]
          \/ InsideJson(<<type, json>>) = <<>>
      BY DEF InsideJson
    <3>2. \A i \in DOMAIN InsideJson(<<type, json>>) : ResultsAre!Nests(InsideJson(<<type, json>>)[i], n)
      BY <1>1, <3>1 DEF NestsIn
    <3> QED
      BY <3>2, ResultsAre!NestsInside
  <2> QED
    BY <2>1, <2>2 DEF NestsIn
<1>2. ASSUME NestsIn(type, n + 1)
      PROVE  NestsIn(type.element, n)
  <2>1. ASSUME NEW w
        PROVE  RootsAre!Nests(<<type.element, w>>, n)
    <3> DEFINE v == <<w>>
    <3>1. InsideValue(<<type, v>>) = [i \in DOMAIN v |-> <<type.element, v[i]>>]
      BY DEF InsideValue
    <3>2. 1 \in DOMAIN InsideValue(<<type, v>>) /\ InsideValue(<<type, v>>)[1] = <<type.element, w>>
      BY <3>1
    <3>3. RootsAre!Nests(<<type, v>>, n + 1)
      BY <1>2 DEF NestsIn
    <3> QED
      BY <3>2, <3>3, RootsAre!NestsInside
  <2>2. ASSUME NEW w
        PROVE  ResultsAre!Nests(<<type.element, w>>, n)
    <3> DEFINE json == [kind |-> "array", items |-> <<w>>]
    <3>1. InsideJson(<<type, json>>) = [i \in DOMAIN json.items |-> <<type.element, json.items[i]>>]
      BY DEF InsideJson
    <3>2. 1 \in DOMAIN InsideJson(<<type, json>>) /\ InsideJson(<<type, json>>)[1] = <<type.element, w>>
      BY <3>1
    <3>3. ResultsAre!Nests(<<type, json>>, n + 1)
      BY <1>2 DEF NestsIn
    <3> QED
      BY <3>2, <3>3, ResultsAre!NestsInside
  <2> QED
    BY <2>1, <2>2 DEF NestsIn
<1> QED
  BY <1>1, <1>2

\* A struct nests a step deeper than its fields.
LEMMA ContainerNests ==
  ASSUME NEW type, type.kind = "container", NEW n \in Nat
  PROVE  NestsIn(type, n + 1) <=> \A name \in Names(type) : NestsIn(FieldType(type, name), n)
<1>1. \A v : InsideValue(<<type, v>>)
               = [name \in Names(type) |-> <<FieldType(type, name), v[name]>>]
  BY DEF InsideValue
<1>2. \A json : InsideJson(<<type, json>>)
                  = [name \in Names(type) |-> <<FieldType(type, name), Member(json, name)>>]
  BY DEF InsideJson
<1>3. ASSUME \A name \in Names(type) : NestsIn(FieldType(type, name), n)
      PROVE  NestsIn(type, n + 1)
  <2>1. ASSUME NEW v
        PROVE  RootsAre!Nests(<<type, v>>, n + 1)
    <3>1. ASSUME NEW i \in DOMAIN InsideValue(<<type, v>>)
          PROVE  RootsAre!Nests(InsideValue(<<type, v>>)[i], n)
      <4>1. i \in Names(type) /\ InsideValue(<<type, v>>)[i] = <<FieldType(type, i), v[i]>>
        BY <1>1
      <4>2. NestsIn(FieldType(type, i), n)
        BY <1>3, <4>1
      <4> QED
        BY <4>1, <4>2 DEF NestsIn
    <3> QED
      BY <3>1, RootsAre!NestsInside
  <2>2. ASSUME NEW json
        PROVE  ResultsAre!Nests(<<type, json>>, n + 1)
    <3>1. ASSUME NEW i \in DOMAIN InsideJson(<<type, json>>)
          PROVE  ResultsAre!Nests(InsideJson(<<type, json>>)[i], n)
      <4>1. i \in Names(type) /\ InsideJson(<<type, json>>)[i] = <<FieldType(type, i), Member(json, i)>>
        BY <1>2
      <4>2. NestsIn(FieldType(type, i), n)
        BY <1>3, <4>1
      <4> QED
        BY <4>1, <4>2 DEF NestsIn
    <3> QED
      BY <3>1, ResultsAre!NestsInside
  <2> QED
    BY <2>1, <2>2 DEF NestsIn
<1>4. ASSUME NestsIn(type, n + 1), NEW name \in Names(type)
      PROVE  NestsIn(FieldType(type, name), n)
  <2>1. ASSUME NEW w
        PROVE  RootsAre!Nests(<<FieldType(type, name), w>>, n)
    <3> DEFINE v == [m \in {name} |-> w]
    <3>1. name \in DOMAIN InsideValue(<<type, v>>)
          /\ InsideValue(<<type, v>>)[name] = <<FieldType(type, name), w>>
      BY <1>1
    <3>2. RootsAre!Nests(<<type, v>>, n + 1)
      BY <1>4 DEF NestsIn
    <3> QED
      BY <3>1, <3>2, RootsAre!NestsInside
  <2>2. ASSUME NEW w
        PROVE  ResultsAre!Nests(<<FieldType(type, name), w>>, n)
    <3> DEFINE json == [kind |-> "object", members |-> [m \in {name} |-> w]]
    <3>1. Member(json, name) = w
      BY DEF Member
    <3>2. name \in DOMAIN InsideJson(<<type, json>>)
          /\ InsideJson(<<type, json>>)[name] = <<FieldType(type, name), w>>
      BY <1>2, <3>1
    <3>3. ResultsAre!Nests(<<type, json>>, n + 1)
      BY <1>4 DEF NestsIn
    <3> QED
      BY <3>2, <3>3, ResultsAre!NestsInside
  <2> QED
    BY <2>1, <2>2 DEF NestsIn
<1> QED
  BY <1>3, <1>4

\* A bound may be raised.
LEMMA NestsInMore ==
  ASSUME NEW type, NEW m \in Nat, NEW n \in Nat, m <= n, NestsIn(type, m)
  PROVE  NestsIn(type, n)
BY RootsAre!NestsAtMostMore, ResultsAre!NestsAtMostMore DEF NestsIn

\* The type of a field is that of one of the places.
LEMMA FieldTypes ==
  ASSUME NEW type, NEW name \in Names(type)
  PROVE  \E i \in DOMAIN type.fields :
           type.fields[i][1] = name /\ FieldNumber(type, name) = i /\ FieldType(type, name) = type.fields[i][2]
<1>1. \E i \in DOMAIN type.fields : type.fields[i][1] = name
  BY DEF Names
<1> QED
  BY <1>1 DEF FieldType, FieldNumber

\* A struct whose fields nest at most n steps.
LEMMA StructNests ==
  ASSUME NEW fields, NEW n \in Nat, \A i \in DOMAIN fields : NestsIn(fields[i][2], n)
  PROVE  NestsIn(Container(fields), n + 1)
<1>1. Container(fields).kind = "container" /\ Container(fields).fields = fields
  BY DEF Container
<1>2. \A name \in Names(Container(fields)) : NestsIn(FieldType(Container(fields), name), n)
  BY <1>1, FieldTypes
<1> QED
  BY <1>1, <1>2, ContainerNests

\* No name is that of two fields.
DistinctNames(type) ==
  \A i, j \in DOMAIN type.fields : type.fields[i][1] = type.fields[j][1] => i = j

\* A field is found by its name.
LEMMA FieldsByName ==
  ASSUME NEW type, DistinctNames(type), NEW i \in DOMAIN type.fields,
         NEW name, NEW inner, type.fields[i] = <<name, inner>>
  PROVE  name \in Names(type) /\ FieldNumber(type, name) = i /\ FieldType(type, name) = inner
<1>1. type.fields[i][1] = name /\ type.fields[i][2] = inner
  OBVIOUS
<1>2. name \in Names(type)
  BY <1>1 DEF Names
<1>3. PICK j \in DOMAIN type.fields :
        type.fields[j][1] = name /\ FieldNumber(type, name) = j /\ FieldType(type, name) = type.fields[j][2]
  BY <1>2, FieldTypes
<1>4. j = i
  BY <1>1, <1>3 DEF DistinctNames
<1> QED
  BY <1>1, <1>2, <1>3, <1>4

-----------------------------------------------------------------------------
(* How deep the types of blocks and states are nested.                     *)

\* Numbers, booleans and bytes have no parts.
LEMMA BasicTypes ==
  /\ NestsIn(U64, 0) /\ NestsIn(U256, 0) /\ NestsIn(Unsigned(8), 0) /\ NestsIn(Boolean, 0)
  /\ \A n : NestsIn(ByteVector(n), 0)
  /\ \A limit : NestsIn(ByteList(limit), 0) /\ NestsIn(Bitlist(limit), 0)
BY BasicNests DEF Basic, U64, U256, Unsigned, Boolean, ByteVector, ByteList, Bitlist

\* Nor have the names that types.rs gives to bytes.
LEMMA BasicNames ==
  /\ NestsIn(Bytes32, 0) /\ NestsIn(Bytes48, 0) /\ NestsIn(ExecutionAddress, 0)
  /\ NestsIn(BLSSignature, 0) /\ NestsIn(Transaction, 0) /\ \A n : NestsIn(Bitvector(n), 0)
BY BasicTypes DEF Bytes32, Bytes48, ExecutionAddress, BLSSignature, Transaction, Bitvector

\* A list or a vector is nested once more than its items.
LEMMA ListTypes ==
  ASSUME NEW type, NEW n \in Nat, NestsIn(type, n), NEW limit
  PROVE  NestsIn(List(type, limit), n + 1) /\ NestsIn(Vector(type, limit), n + 1)
BY ListNests DEF List, Vector

\* The fields of a payload and of its header: all but two are the same.
LEMMA PayloadFields ==
  /\ ExecutionPayload.kind = "container" /\ ExecutionPayloadHeader.kind = "container"
  /\ DOMAIN ExecutionPayload.fields = 1 .. 17 /\ Len(ExecutionPayload.fields) = 17
  /\ DOMAIN ExecutionPayloadHeader.fields = 1 .. 17 /\ Len(ExecutionPayloadHeader.fields) = 17
  /\ ExecutionPayload.fields[14] = <<"transactions", List(Transaction, MAX_TRANSACTIONS_PER_PAYLOAD)>>
  /\ ExecutionPayload.fields[15] = <<"withdrawals", List(Withdrawal, MAX_WITHDRAWALS_PER_PAYLOAD)>>
  /\ ExecutionPayloadHeader.fields[14] = <<"transactions_root", Bytes32>>
  /\ ExecutionPayloadHeader.fields[15] = <<"withdrawals_root", Bytes32>>
  /\ \A i \in (1 .. 17) \ {14, 15} :
       /\ ExecutionPayload.fields[i] = ExecutionPayloadHeader.fields[i]
       /\ NestsIn(ExecutionPayload.fields[i][2], 0)
<1>1. /\ ExecutionPayload.kind = "container" /\ ExecutionPayloadHeader.kind = "container"
      /\ DOMAIN ExecutionPayload.fields = 1 .. 17 /\ Len(ExecutionPayload.fields) = 17
      /\ DOMAIN ExecutionPayloadHeader.fields = 1 .. 17 /\ Len(ExecutionPayloadHeader.fields) = 17
  BY DEF ExecutionPayload, ExecutionPayloadHeader, Container, PayloadStart, BlobGas
<1>2. /\ ExecutionPayload.fields[14] = <<"transactions", List(Transaction, MAX_TRANSACTIONS_PER_PAYLOAD)>>
      /\ ExecutionPayload.fields[15] = <<"withdrawals", List(Withdrawal, MAX_WITHDRAWALS_PER_PAYLOAD)>>
      /\ ExecutionPayloadHeader.fields[14] = <<"transactions_root", Bytes32>>
      /\ ExecutionPayloadHeader.fields[15] = <<"withdrawals_root", Bytes32>>
  BY DEF ExecutionPayload, ExecutionPayloadHeader, Container, PayloadStart, BlobGas
<1>3. ASSUME NEW i \in (1 .. 17) \ {14, 15}
      PROVE  /\ ExecutionPayload.fields[i] = ExecutionPayloadHeader.fields[i]
             /\ NestsIn(ExecutionPayload.fields[i][2], 0)
  <2>1. ExecutionPayload.fields[i] = ExecutionPayloadHeader.fields[i]
    BY DEF ExecutionPayload, ExecutionPayloadHeader, Container, PayloadStart, BlobGas
  <2>2. ExecutionPayload.fields[i][2]
          \in {Bytes32, ExecutionAddress, ByteVector(BYTES_PER_LOGS_BLOOM), U64,
              ByteList(MAX_EXTRA_DATA_BYTES), U256}
    BY DEF ExecutionPayload, Container, PayloadStart, BlobGas
  <2> QED
    BY <2>1, <2>2, BasicTypes, BasicNames
<1> QED
  BY <1>1, <1>2, <1>3

\* Structs without a struct in them.
LEMMA FlatTypes ==
  /\ NestsIn(BeaconBlockHeader, 1) /\ NestsIn(Eth1Data, 1) /\ NestsIn(Checkpoint, 1)
  /\ NestsIn(VoluntaryExit, 1) /\ NestsIn(DepositData, 1) /\ NestsIn(SyncAggregate, 1)
  /\ NestsIn(Withdrawal, 1) /\ NestsIn(BLSToExecutionChange, 1)
  /\ NestsIn(ExecutionPayloadHeader, 1) /\ NestsIn(Fork, 1) /\ NestsIn(HistoricalSummary, 1)
  /\ NestsIn(Validator, 1)
<1> USE BasicTypes, BasicNames
<1>0. \A fields : (\A i \in DOMAIN fields : NestsIn(fields[i][2], 0)) => NestsIn(Container(fields), 1)
  BY StructNests, 0 + 1 = 1
<1>1. NestsIn(BeaconBlockHeader, 1)
  BY <1>0 DEF BeaconBlockHeader
<1>2. NestsIn(Eth1Data, 1)
  BY <1>0 DEF Eth1Data
<1>3. NestsIn(Checkpoint, 1)
  BY <1>0 DEF Checkpoint
<1>4. NestsIn(VoluntaryExit, 1)
  BY <1>0 DEF VoluntaryExit
<1>5. NestsIn(DepositData, 1)
  BY <1>0 DEF DepositData
<1>6. NestsIn(SyncAggregate, 1)
  BY <1>0 DEF SyncAggregate
<1>7. NestsIn(Withdrawal, 1)
  BY <1>0 DEF Withdrawal
<1>8. NestsIn(BLSToExecutionChange, 1)
  BY <1>0 DEF BLSToExecutionChange
<1>9. NestsIn(ExecutionPayloadHeader, 1)
  <2>1. \A i \in DOMAIN ExecutionPayloadHeader.fields : NestsIn(ExecutionPayloadHeader.fields[i][2], 0)
    BY PayloadFields
  <2>2. ExecutionPayloadHeader = Container(ExecutionPayloadHeader.fields)
    BY DEF ExecutionPayloadHeader, Container
  <2> QED
    BY <1>0, <2>1, <2>2
<1>10. NestsIn(Fork, 1)
  BY <1>0 DEF Fork
<1>11. NestsIn(HistoricalSummary, 1)
  BY <1>0 DEF HistoricalSummary
<1>12. NestsIn(Validator, 1)
  BY <1>0 DEF Validator
<1> QED
  BY <1>1, <1>2, <1>3, <1>4, <1>5, <1>6, <1>7, <1>8, <1>9, <1>10, <1>11, <1>12

\* The lists and structs that a body holds.
LEMMA PartsOfBodies ==
  /\ NestsIn(List(ProposerSlashings, MAX_PROPOSER_SLASHINGS), 4)
  /\ NestsIn(List(AttesterSlashings, MAX_ATTESTER_SLASHINGS), 4)
  /\ NestsIn(List(Attestation, MAX_ATTESTATIONS), 4)
  /\ NestsIn(List(Deposit, MAX_DEPOSITS), 4)
  /\ NestsIn(List(SignedVoluntaryExit, MAX_VOLUNTARY_EXITS), 4)
  /\ NestsIn(SyncAggregate, 4) /\ NestsIn(ExecutionPayload, 4) /\ NestsIn(Eth1Data, 4)
  /\ NestsIn(List(SignedBLSToExecutionChange, MAX_BLS_TO_EXECUTION_CHANGES), 4)
  /\ NestsIn(List(Bytes48, MAX_BLOB_COMMITMENTS_PER_BLOCK), 4)
  /\ NestsIn(BLSSignature, 4) /\ NestsIn(Bytes32, 4)
  /\ NestsIn(SignedBeaconBlockHeader, 2) /\ NestsIn(ProposerSlashings, 3)
  /\ NestsIn(List(DepositData, MAX_DEPOSITS), 4)
<1>0. /\ 0 + 1 = 1 /\ 1 + 1 = 2 /\ 2 + 1 = 3 /\ 3 + 1 = 4
      /\ 0 \in Nat /\ 1 \in Nat /\ 2 \in Nat /\ 3 \in Nat /\ 4 \in Nat
  OBVIOUS
<1> DEFINE Struct(fields, n) == \A i \in DOMAIN fields : NestsIn(fields[i][2], n)
<1>1. /\ \A fields : Struct(fields, 1) => NestsIn(Container(fields), 2)
      /\ \A fields : Struct(fields, 2) => NestsIn(Container(fields), 3)
      /\ \A fields : Struct(fields, 3) => NestsIn(Container(fields), 4)
  BY ONLY StructNests, <1>0
<1>2. \A type, limit : /\ NestsIn(type, 3) => NestsIn(List(type, limit), 4)
                       /\ NestsIn(type, 2) => NestsIn(List(type, limit), 3)
                       /\ NestsIn(type, 1) => NestsIn(List(type, limit), 2)
                       /\ NestsIn(type, 0) => NestsIn(List(type, limit), 1) /\ NestsIn(Vector(type, limit), 1)
  BY ONLY ListTypes, <1>0
<1>3. \A type : /\ NestsIn(type, 0) => NestsIn(type, 1)
                /\ NestsIn(type, 1) => NestsIn(type, 2)
                /\ NestsIn(type, 2) => NestsIn(type, 3)
                /\ NestsIn(type, 3) => NestsIn(type, 4)
  BY ONLY NestsInMore, <1>0, 0 <= 1, 1 <= 2, 2 <= 3, 3 <= 4
<1>4. NestsIn(SignedBeaconBlockHeader, 2)
  BY <1>1, <1>3, FlatTypes, BasicNames DEF SignedBeaconBlockHeader
<1>5. NestsIn(ProposerSlashings, 3) /\ NestsIn(AttesterSlashings, 3)
  BY <1>1, <1>4 DEF ProposerSlashings, AttesterSlashings
<1>6. NestsIn(AttestationData, 2)
  BY <1>1, <1>3, FlatTypes, BasicNames, BasicTypes DEF AttestationData
<1>7. NestsIn(Attestation, 3)
  BY <1>1, <1>3, <1>6, BasicNames, BasicTypes DEF Attestation
<1>8. NestsIn(Deposit, 2)
  BY <1>1, <1>2, FlatTypes, BasicNames DEF Deposit
<1>9. NestsIn(SignedVoluntaryExit, 2)
  BY <1>1, <1>3, FlatTypes, BasicNames DEF SignedVoluntaryExit
<1>10. NestsIn(SignedBLSToExecutionChange, 2)
  BY <1>1, <1>3, FlatTypes, BasicNames DEF SignedBLSToExecutionChange
<1>11. NestsIn(ExecutionPayload, 4)
  <2>1. NestsIn(List(Transaction, MAX_TRANSACTIONS_PER_PAYLOAD), 2)
        /\ NestsIn(List(Withdrawal, MAX_WITHDRAWALS_PER_PAYLOAD), 2)
    BY <1>2, <1>3, FlatTypes, BasicNames
  <2>2. Struct(ExecutionPayload.fields, 2)
    BY <1>3, <2>1, PayloadFields
  <2>3. ExecutionPayload = Container(ExecutionPayload.fields)
    BY DEF ExecutionPayload, Container
  <2> HIDE DEF Struct
  <2>4. NestsIn(Container(ExecutionPayload.fields), 3)
    BY <1>1, <2>2
  <2> QED
    BY <1>3, <2>3, <2>4
<1> HIDE DEF Struct
<1> QED
  BY <1>2, <1>3, <1>4, <1>5, <1>7, <1>8, <1>9, <1>10, <1>11, FlatTypes, BasicNames

\* A block is nested six deep at most, and so is all that the proofs are about.
LEMMA BlocksNest ==
  /\ NestsIn(BeaconBlockBody, 5) /\ NestsIn(BeaconBlock, 6)
  /\ NestsIn(ExecutionPayload, 6) /\ NestsIn(BeaconBlockBody, 6) /\ NestsIn(BeaconBlockHeader, 6)
<1>1. \A fields : (\A i \in DOMAIN fields : NestsIn(fields[i][2], 4)) => NestsIn(Container(fields), 5)
  BY ONLY StructNests, 4 \in Nat, 4 + 1 = 5
<1>2. \A fields : (\A i \in DOMAIN fields : NestsIn(fields[i][2], 5)) => NestsIn(Container(fields), 6)
  BY ONLY StructNests, 5 \in Nat, 5 + 1 = 6
<1>3. NestsIn(BeaconBlockBody, 5)
  BY <1>1, PartsOfBodies DEF BeaconBlockBody
<1>4. NestsIn(U64, 5) /\ NestsIn(Bytes32, 5)
  BY NestsInMore, BasicTypes, BasicNames
<1>5. NestsIn(BeaconBlock, 6)
  BY <1>2, <1>3, <1>4 DEF BeaconBlock
<1>6. NestsIn(ExecutionPayload, 6) /\ NestsIn(BeaconBlockBody, 6) /\ NestsIn(BeaconBlockHeader, 6)
  BY <1>3, NestsInMore, PartsOfBodies, FlatTypes
<1> QED
  BY <1>3, <1>5, <1>6

\* So is a state, and a block with the state in it.
LEMMA StatesNest ==
  NestsIn(BeaconState, 3) /\ NestsIn(BeaconState, 6) /\ NestsIn(BeaconBlockState, 6)
<1>1. /\ \A fields : (\A i \in DOMAIN fields : NestsIn(fields[i][2], 1)) => NestsIn(Container(fields), 2)
      /\ \A fields : (\A i \in DOMAIN fields : NestsIn(fields[i][2], 2)) => NestsIn(Container(fields), 3)
      /\ \A fields : (\A i \in DOMAIN fields : NestsIn(fields[i][2], 3)) => NestsIn(Container(fields), 4)
  BY ONLY StructNests, 1 \in Nat, 2 \in Nat, 3 \in Nat, 1 + 1 = 2, 2 + 1 = 3, 3 + 1 = 4
<1>2. \A type, limit : /\ NestsIn(type, 1) => NestsIn(List(type, limit), 2)
                       /\ NestsIn(type, 0) => NestsIn(List(type, limit), 1) /\ NestsIn(Vector(type, limit), 1)
  BY ONLY ListTypes, 0 \in Nat, 1 \in Nat, 0 + 1 = 1, 1 + 1 = 2
<1>3. \A type : /\ NestsIn(type, 0) => NestsIn(type, 1)
                /\ NestsIn(type, 1) => NestsIn(type, 2)
                /\ NestsIn(type, 2) => NestsIn(type, 3)
  BY ONLY NestsInMore, 0 \in Nat, 1 \in Nat, 2 \in Nat, 3 \in Nat, 0 <= 1, 1 <= 2, 2 <= 3
<1>4. NestsIn(SyncCommittee, 2)
  BY <1>1, <1>2, <1>3, BasicNames DEF SyncCommittee
<1>5. \A type : NestsIn(type, 1) => NestsIn(PerValidator(type), 2)
  BY <1>2 DEF PerValidator
<1>6. /\ NestsIn(U64, 1) /\ NestsIn(U64, 2) /\ NestsIn(Bytes32, 2) /\ NestsIn(Unsigned(8), 1)
      /\ \A n : NestsIn(Vector(Bytes32, n), 2) /\ NestsIn(Vector(U64, n), 2) /\ NestsIn(Bitvector(n), 2)
      /\ \A limit : NestsIn(List(Bytes32, limit), 2) /\ NestsIn(List(Eth1Data, limit), 2)
                     /\ NestsIn(List(HistoricalSummary, limit), 2)
  BY <1>2, <1>3, BasicTypes, BasicNames, FlatTypes
<1>7. /\ NestsIn(PerValidator(U64), 2) /\ NestsIn(PerValidator(Validator), 2)
      /\ NestsIn(PerValidator(Unsigned(8)), 2)
  BY <1>5, <1>6, FlatTypes
<1>8. /\ NestsIn(Fork, 2) /\ NestsIn(BeaconBlockHeader, 2) /\ NestsIn(Eth1Data, 2)
      /\ NestsIn(Checkpoint, 2) /\ NestsIn(ExecutionPayloadHeader, 2)
  BY <1>3, FlatTypes
<1>9. NestsIn(BeaconState, 3)
  <2> DEFINE types == {U64, Bytes32, PerValidator(U64), PerValidator(Validator),
                       PerValidator(Unsigned(8)), Fork, BeaconBlockHeader, Eth1Data, Checkpoint,
                       ExecutionPayloadHeader, SyncCommittee,
                       Vector(Bytes32, SLOTS_PER_HISTORICAL_ROOT),
                       Vector(Bytes32, EPOCHS_PER_HISTORICAL_VECTOR),
                       Vector(U64, EPOCHS_PER_SLASHINGS_VECTOR),
                       Bitvector(JUSTIFICATION_BITS_LENGTH), List(Bytes32, HISTORICAL_ROOTS_LIMIT),
                       List(Eth1Data, MAX_ETH1_DATA_VOTES),
                       List(HistoricalSummary, HISTORICAL_ROOTS_LIMIT)}
  <2>1. \A t \in types : NestsIn(t, 2)
    BY <1>4, <1>6, <1>7, <1>8
  <2>2. \A i \in DOMAIN BeaconState.fields : BeaconState.fields[i][2] \in types
    BY ONLY SMTT(30) DEF BeaconState, Container
  <2>3. BeaconState = Container(BeaconState.fields)
    BY DEF BeaconState, Container
  <2> HIDE DEF types
  <2> QED
    BY <1>1, <2>1, <2>2, <2>3
<1>10. NestsIn(U64, 3) /\ NestsIn(Bytes32, 3)
  BY <1>3, <1>6
<1>11. NestsIn(BeaconBlockState, 4)
  BY <1>1, <1>9, <1>10 DEF BeaconBlockState
<1> QED
  BY <1>9, <1>11, NestsInMore

-----------------------------------------------------------------------------
(* What is computed of values and of JSON, kind by kind.                   *)

\* The roots of numbers, booleans and short bytes are chunks.
LEMMA BasicRoots ==
  ASSUME NEW type, NestsIn(type, 6), NEW v
  PROVE  /\ type.kind = "unsigned" => TreeRoot(type, v) = Uint(v)
         /\ type.kind = "boolean" => TreeRoot(type, v) = Bool(v)
         /\ type.kind = "byteVector" => TreeRoot(type, v) = BytesRoot(type.length, v)
<1> DEFINE x == <<type, v>>
           inside == [i \in DOMAIN InsideValue(x) |-> Roots!Fold(InsideValue(x)[i])]
<1>1. TreeRoot(type, v) = RootFrom(x, inside)
  BY ValueEquations
<1> HIDE DEF inside
<1> QED
  BY <1>1 DEF RootFrom

\* The root of a list is the hash of its data and its length.
LEMMA ListRoot ==
  ASSUME NEW type, NestsIn(type, 6), type.kind = "list", NEW v
  PROVE  \E data : TreeRoot(type, v) = Hash(Chunk("data", data), Uint(Len(v)))
<1> DEFINE x == <<type, v>>
           inside == [i \in DOMAIN InsideValue(x) |-> Roots!Fold(InsideValue(x)[i])]
<1>1. TreeRoot(type, v) = RootFrom(x, inside)
  BY ValueEquations
<1> HIDE DEF inside
<1>2. TreeRoot(type, v) = Hash(Chunk("data", <<Max(type.limit), inside>>), Uint(Len(v)))
  BY <1>1 DEF RootFrom
<1> QED
  BY <1>2

\* The root of a struct is the top of the tree above the roots of its fields.
LEMMA ContainerRoot ==
  ASSUME NEW type, NestsIn(type, 6), type.kind = "container", NEW v
  PROVE  TreeRoot(type, v) = Merkleized(Len(type.fields), FieldRoots(type, v))[1]
<1> DEFINE x == <<type, v>>
           inside == [i \in DOMAIN InsideValue(x) |-> Roots!Fold(InsideValue(x)[i])]
           chunks == [i \in DOMAIN type.fields |-> inside[type.fields[i][1]]]
<1>1. TreeRoot(type, v) = RootFrom(x, inside)
  BY ValueEquations
<1>2. InsideValue(x) = [name \in Names(type) |-> <<FieldType(type, name), v[name]>>]
  BY DEF InsideValue
<1>3. ASSUME NEW i \in DOMAIN type.fields
      PROVE  chunks[i] = FieldRoots(type, v)[i]
  <2> DEFINE name == type.fields[i][1]
  <2>1. name \in Names(type)
    BY DEF Names
  <2>2. inside[name] = Roots!Fold(<<FieldType(type, name), v[name]>>)
    BY <1>2, <2>1
  <2>3. chunks[i] = inside[name]
    BY ONLY <1>3
  <2> QED
    BY <2>2, <2>3 DEF FieldRoots, TreeRoot
<1>4. DOMAIN FieldRoots(type, v) = DOMAIN type.fields
      /\ FieldRoots(type, v) = [i \in DOMAIN type.fields |-> FieldRoots(type, v)[i]]
  BY DEF FieldRoots
<1>5. chunks = FieldRoots(type, v)
  <2> HIDE DEF inside
  <2> QED
    BY <1>3, <1>4
<1>6. RootFrom(x, inside) = Merkleized(Len(type.fields), chunks)[1]
  <2> HIDE DEF inside
  <2> QED
    BY DEF RootFrom
<1> QED
  BY <1>1, <1>5, <1>6

-----------------------------------------------------------------------------
(* The tree of a container.                                                *)

\* The depths of the trees above as many fields as the structs have.
LEMMA DepthsFor ==
  /\ DepthFor(2) = 1 /\ DepthFor(4) = 2 /\ DepthFor(5) = 3 /\ DepthFor(8) = 3
  /\ DepthFor(12) = 4 /\ DepthFor(13) = 4 /\ DepthFor(17) = 5 /\ DepthFor(28) = 5
  /\ 2^1 = 2 /\ 2^2 = 4 /\ 2^3 = 8 /\ 2^4 = 16 /\ 2^5 = 32
<1>1. 2^0 = 1 /\ 2^1 = 2 /\ 2^2 = 4 /\ 2^3 = 8 /\ 2^4 = 16 /\ 2^5 = 32 /\ 2^6 = 64
  OBVIOUS
<1>2. /\ DepthFor(2) = 1 /\ DepthFor(4) = 2 /\ DepthFor(5) = 3 /\ DepthFor(8) = 3 /\ DepthFor(12) = 4
      /\ DepthFor(13) = 4 /\ DepthFor(17) = 5 /\ DepthFor(28) = 5
  BY <1>1 DEF DepthFor
<1> QED
  BY <1>1, <1>2

\* Node k of a tree with so many leaves, of which the first n are chunks.
Node(node, first, n, chunks, k) ==
  IF k < first THEN Hash(node[2 * k], node[2 * k + 1])
  ELSE IF k - first < n THEN chunks[k - first + 1] ELSE ZERO

\* Every node is the hash of those below it, down to the chunks.
LEMMA MerkleizedNodes ==
  ASSUME NEW n \in Nat, NEW chunks, NEW first \in Nat, first > 0, first = 2^DepthFor(n)
  PROVE  LET m == Merkleized(n, chunks)
         IN  \A k \in 1 .. 2 * first - 1 : m[k] = Node(m, first, n, chunks, k)
<1> DEFINE top == 2 * first - 1
           A(j, g) == g = [k \in top + 1 - j .. top |-> Node(g, first, n, chunks, k)]
           S == { j \in Nat : j <= top => \E g : A(j, g) }
<1>1. 0 \in S
  <2> DEFINE g == [k \in top + 1 - 0 .. top |-> ZERO]
  <2>1. \A k : k \notin top + 1 - 0 .. top
    OBVIOUS
  <2>2. A(0, g)
    BY <2>1
  <2> HIDE DEF A
  <2> QED
    BY <2>2
<1>2. ASSUME NEW j \in Nat, j \in S
      PROVE  j + 1 \in S
  <2> SUFFICES ASSUME j + 1 <= top PROVE \E g : A(j + 1, g)
    OBVIOUS
  <2>1. PICK g : A(j, g)
    BY <1>2
  <2> DEFINE low == top - j
             h == [k \in low .. top |-> IF k = low THEN Node(g, first, n, chunks, k) ELSE g[k]]
  <2>2. low \in Nat /\ low > 0 /\ top + 1 - (j + 1) = low /\ top + 1 - j = low + 1 /\ top \in Nat
    OBVIOUS
  <2>3. ASSUME NEW k \in low .. top
        PROVE  h[k] = Node(h, first, n, chunks, k)
    <3>1. h[k] = Node(g, first, n, chunks, k)
      <4>1. CASE k = low
        BY <4>1
      <4>2. CASE k # low
        <5>1. k \in low + 1 .. top
          BY <2>2, <4>2
        <5>2. g[k] = Node(g, first, n, chunks, k)
          BY <2>1, <2>2, <5>1
        <5> QED
          BY <4>2, <5>2
      <4> QED
        BY <4>1, <4>2
    <3>2. ASSUME k < first
          PROVE  h[2 * k] = g[2 * k] /\ h[2 * k + 1] = g[2 * k + 1]
      <4>1. /\ 2 * k \in low .. top /\ 2 * k # low
            /\ 2 * k + 1 \in low .. top /\ 2 * k + 1 # low
        BY <2>2, <3>2
      <4> QED
        BY <4>1
    <3> HIDE DEF h
    <3> QED
      BY <3>1, <3>2 DEF Node
  <2>4. h = [k \in low .. top |-> h[k]]
    OBVIOUS
  <2> HIDE DEF h
  <2>5. A(j + 1, h)
    BY <2>2, <2>3, <2>4
  <2> HIDE DEF A
  <2> QED
    BY <2>5
<1>3. Nat \subseteq S
  <2> HIDE DEF S
  <2> QED
    BY <1>1, <1>2, Induction
<1>4. top \in Nat /\ top + 1 - top = 1
  OBVIOUS
<1>5. \E g : g = [k \in 1 .. top |-> Node(g, first, n, chunks, k)]
  <2>0. top \in S
    <3> HIDE DEF top, S
    <3> QED
      BY <1>3, <1>4
  <2>1. PICK g : A(top, g)
    <3> HIDE DEF A
    <3> QED
      BY <1>4, <2>0
  <2> QED
    BY <1>4, <2>1
<1> DEFINE m == CHOOSE g : g = [k \in 1 .. top |-> Node(g, first, n, chunks, k)]
<1>6. m = [k \in 1 .. top |-> Node(m, first, n, chunks, k)]
  <2> HIDE DEF top
  <2> QED
    BY <1>5
<1>7. Merkleized(n, chunks) = m
  BY DEF Merkleized, Node
<1> HIDE DEF m
<1> QED
  BY <1>6, <1>7

\* Where a child of a node is.
PlaceBelow(up, k) ==
  LET first == 2^DepthFor(Len(up.type.fields))
      field == up.type.fields[up.node - first + 1]
  IN  IF up.node < first
      THEN [type |-> up.type, value |-> up.value, node |-> (2 * up.node) + (k % 2)]
      ELSE [type |-> field[2], value |-> up.value[field[1]], node |-> 2 + (k % 2)]

\* The recursion that finds a node of a tree goes down from its parent.
LEMMA PlaceEquation ==
  ASSUME NEW type, NEW v
  PROVE  /\ Place(type, v)[1] = [type |-> type, value |-> v, node |-> 1]
         /\ \A k \in Nat : k > 1 =>
              Place(type, v)[k] = PlaceBelow(Place(type, v)[k \div 2], k)
<1> DEFINE root == [type |-> type, value |-> v, node |-> 1]
           At(g, k) == IF k <= 1 THEN root ELSE PlaceBelow(g[k \div 2], k)
           A(n, g) == g = [k \in 0 .. n |-> At(g, k)]
           S == { n \in Nat : \E g : A(n, g) }
<1> HIDE DEF root
<1>0. \A k \in Nat : k > 1 => k \div 2 \in Nat /\ k \div 2 < k /\ k \div 2 <= k
  OBVIOUS
<1>1. 0 \in S
  <2>1. A(0, [k \in 0 .. 0 |-> root])
    OBVIOUS
  <2> QED
    BY <2>1
<1>2. ASSUME NEW n \in Nat, n \in S
      PROVE  n + 1 \in S
  <2>1. PICK g : A(n, g)
    BY <1>2
  <2> DEFINE h == [k \in 0 .. n + 1 |-> IF k = n + 1 THEN At(g, k) ELSE g[k]]
  <2>2. ASSUME NEW k \in 0 .. n + 1
        PROVE  h[k] = At(h, k)
    <3>1. h[k] = At(g, k)
      <4>1. CASE k = n + 1
        BY <4>1
      <4>2. CASE k # n + 1
        <5>1. k \in 0 .. n /\ h[k] = g[k]
          BY <4>2
        <5> QED
          BY <2>1, <5>1
      <4> QED
        BY <4>1, <4>2
    <3>2. k > 1 => h[k \div 2] = g[k \div 2]
      <4>1. k > 1 => k \div 2 \in 0 .. n + 1 /\ k \div 2 # n + 1
        BY <1>0
      <4> QED
        BY <4>1
    <3> HIDE DEF h
    <3> QED
      BY <3>1, <3>2
  <2>3. h = [k \in 0 .. n + 1 |-> h[k]]
    OBVIOUS
  <2> HIDE DEF h
  <2>4. A(n + 1, h)
    BY <2>2, <2>3
  <2> HIDE DEF A
  <2> QED
    BY <2>4
<1>3. Nat \subseteq S
  <2> HIDE DEF S
  <2> QED
    BY <1>1, <1>2, Induction
<1> DEFINE G(n) == CHOOSE g : A(n, g)
           f == [k \in Nat |-> G(k)[k]]
<1>4. \A n \in Nat : A(n, G(n))
  <2> TAKE n \in Nat
  <2>1. \E g : A(n, g)
    BY <1>3
  <2> HIDE DEF A
  <2> QED
    BY <2>1
<1> HIDE DEF G
<1>5. \A k \in Nat : \A n \in Nat : k <= n => G(n)[k] = G(k)[k]
  <2> DEFINE U == { k \in Nat : \A n \in Nat : k <= n => G(n)[k] = G(k)[k] }
  <2>1. ASSUME NEW k \in Nat, \A j \in Nat : j < k => j \in U
        PROVE  k \in U
    <3>1. ASSUME NEW n \in Nat, k <= n
          PROVE  G(n)[k] = IF k <= 1 THEN root ELSE PlaceBelow(G(k \div 2)[k \div 2], k)
      <4>1. A(n, G(n)) /\ k \in 0 .. n
        BY <1>4, <3>1
      <4>2. G(n)[k] = At(G(n), k)
        BY <4>1
      <4>3. k > 1 => G(n)[k \div 2] = G(k \div 2)[k \div 2]
        <5> SUFFICES ASSUME k > 1 PROVE G(n)[k \div 2] = G(k \div 2)[k \div 2]
          OBVIOUS
        <5>1. k \div 2 \in Nat /\ k \div 2 < k /\ k \div 2 <= n
          BY <1>0, <3>1
        <5>2. k \div 2 \in U
          BY <2>1, <5>1
        <5> QED
          BY <5>1, <5>2
      <4> QED
        BY <4>2, <4>3
    <3> QED
      BY <3>1
  <2>2. Nat \subseteq U
    <3> HIDE DEF U
    <3> QED
      BY <2>1, StrongInduction
  <2> QED
    BY <2>2
<1>6. ASSUME NEW k \in Nat
      PROVE  f[k] = At(f, k)
  <2>1. A(k, G(k)) /\ k \in 0 .. k
    BY <1>4
  <2>2. G(k)[k] = At(G(k), k)
    BY <2>1
  <2>3. k > 1 => G(k)[k \div 2] = G(k \div 2)[k \div 2] /\ k \div 2 \in Nat
    BY <1>0, <1>5
  <2> QED
    BY <2>2, <2>3
<1>7. f = [k \in Nat |-> At(f, k)]
  <2>1. f = [k \in Nat |-> f[k]]
    OBVIOUS
  <2> HIDE DEF f
  <2> QED
    BY <1>6, <2>1
<1> HIDE DEF f
<1> DEFINE at == CHOOSE g : g = [k \in Nat |-> At(g, k)]
<1>8. at = [k \in Nat |-> At(at, k)]
  BY <1>7
<1>9. Place(type, v) = at
  BY DEF Place, PlaceBelow, root
<1> HIDE DEF at
<1>10. at[1] = root
  BY <1>8
<1>11. ASSUME NEW k \in Nat, k > 1
       PROVE  at[k] = PlaceBelow(at[k \div 2], k)
  <2>1. at[k] = At(at, k) /\ ~(k <= 1)
    BY <1>8, <1>11
  <2> QED
    BY <2>1
<1> QED
  BY <1>9, <1>10, <1>11 DEF root

\* Place p is of a container with so many fields, in a tree with so many leaves.
IsPlace(p, type, v, node, n, first) ==
  /\ p = [type |-> type, value |-> v, node |-> node]
  /\ type.kind = "container" /\ NestsIn(type, 6)
  /\ n = Len(type.fields) /\ n \in Nat
  /\ first = 2^DepthFor(n) /\ first \in Nat /\ first > 1
  /\ node \in 1 .. 2 * first - 1

\* Below a node that is not a leaf are its two children.
LEMMA NodeAbove ==
  ASSUME NEW type, NEW v, NEW k \in Nat, k > 0,
         NEW inner, NEW w, NEW node, NEW n, NEW first,
         IsPlace(Place(type, v)[k], inner, w, node, n, first), node < first
  PROVE  /\ IsPlace(Place(type, v)[2 * k], inner, w, 2 * node, n, first)
         /\ IsPlace(Place(type, v)[2 * k + 1], inner, w, 2 * node + 1, n, first)
         /\ NodeAt(type, v, k) = Hash(NodeAt(type, v, 2 * k), NodeAt(type, v, 2 * k + 1))
<1>0. /\ 2 * k \in Nat /\ 2 * k > 1 /\ (2 * k) \div 2 = k /\ (2 * k) % 2 = 0
      /\ 2 * k + 1 \in Nat /\ 2 * k + 1 > 1 /\ (2 * k + 1) \div 2 = k /\ (2 * k + 1) % 2 = 1
  OBVIOUS
<1>1. /\ Place(type, v)[2 * k] = PlaceBelow(Place(type, v)[k], 2 * k)
      /\ Place(type, v)[2 * k + 1] = PlaceBelow(Place(type, v)[k], 2 * k + 1)
  <2>1. \A j \in Nat : j > 1 => Place(type, v)[j] = PlaceBelow(Place(type, v)[j \div 2], j)
    BY ONLY PlaceEquation
  <2>2. /\ Place(type, v)[2 * k] = PlaceBelow(Place(type, v)[(2 * k) \div 2], 2 * k)
        /\ Place(type, v)[2 * k + 1] = PlaceBelow(Place(type, v)[(2 * k + 1) \div 2], 2 * k + 1)
    BY ONLY <1>0, <2>1
  <2> QED
    BY ONLY <1>0, <2>2
<1>2. /\ node \in Nat /\ node > 0 /\ n \in Nat /\ first \in Nat /\ first > 1
      /\ Place(type, v)[k] = [type |-> inner, value |-> w, node |-> node]
      /\ n = Len(inner.fields) /\ first = 2^DepthFor(n)
  BY DEF IsPlace
<1>3. /\ Place(type, v)[2 * k] = [type |-> inner, value |-> w, node |-> 2 * node]
      /\ Place(type, v)[2 * k + 1] = [type |-> inner, value |-> w, node |-> 2 * node + 1]
  BY <1>0, <1>1, <1>2 DEF PlaceBelow
<1>4. 2 * node \in 1 .. 2 * first - 1 /\ 2 * node + 1 \in 1 .. 2 * first - 1
  BY <1>2
<1> DEFINE m == Merkleized(n, FieldRoots(inner, w))
<1>5. m[node] = Hash(m[2 * node], m[2 * node + 1])
  <2>1. node \in 1 .. 2 * first - 1
    BY <1>2
  <2> QED
    BY <1>2, <2>1, MerkleizedNodes DEF Node
<1>6. /\ NodeAt(type, v, k) = m[node]
      /\ NodeAt(type, v, 2 * k) = m[2 * node]
      /\ NodeAt(type, v, 2 * k + 1) = m[2 * node + 1]
  BY <1>2, <1>3 DEF NodeAt
<1> QED
  BY <1>3, <1>4, <1>5, <1>6 DEF IsPlace

\* A leaf is that of field i.
IsLeaf(i, node, n, first) == i \in 1 .. n /\ node = first + i - 1

IsField(type, i, name, inner) ==
  type.fields[i] = <<name, inner>> /\ FieldType(type, name) = inner

\* It is the root of this field.
LEMMA LeafNode ==
  ASSUME NEW type, NEW v, NEW k \in Nat, k > 0,
         NEW outer, NEW w, NEW node, NEW n, NEW first,
         IsPlace(Place(type, v)[k], outer, w, node, n, first),
         NEW i, IsLeaf(i, node, n, first), NEW name, NEW inner, IsField(outer, i, name, inner)
  PROVE  NodeAt(type, v, k) = TreeRoot(inner, w[name])
<1> USE DEF IsLeaf, IsField
<1>1. /\ node \in Nat /\ node > 0 /\ n \in Nat /\ first \in Nat /\ first > 1 /\ i \in Nat
      /\ Place(type, v)[k] = [type |-> outer, value |-> w, node |-> node]
      /\ n = Len(outer.fields) /\ first = 2^DepthFor(n) /\ node \in 1 .. 2 * first - 1
  BY DEF IsPlace
<1> DEFINE m == Merkleized(n, FieldRoots(outer, w))
<1>2. m[node] = FieldRoots(outer, w)[i]
  <2>1. ~(node < first) /\ node - first < n /\ node - first + 1 = i
    BY <1>1, SMTT(30)
  <2>2. m[node] = Node(m, first, n, FieldRoots(outer, w), node)
    BY <1>1, MerkleizedNodes
  <2> HIDE DEF m
  <2> QED
    BY <2>1, <2>2 DEF Node
<1>3. NodeAt(type, v, k) = m[node]
  BY <1>1 DEF NodeAt
<1>4. i \in DOMAIN outer.fields
  BY <1>1
<1> QED
  BY <1>2, <1>3, <1>4 DEF FieldRoots

\* A leaf behind the last field is zero.
LEMMA EmptyNode ==
  ASSUME NEW type, NEW v, NEW k \in Nat, k > 0,
         NEW outer, NEW w, NEW node, NEW n, NEW first,
         IsPlace(Place(type, v)[k], outer, w, node, n, first), node >= first + n
  PROVE  NodeAt(type, v, k) = ZERO
<1>1. /\ node \in Nat /\ node > 0 /\ n \in Nat /\ first \in Nat /\ first > 1
      /\ Place(type, v)[k] = [type |-> outer, value |-> w, node |-> node]
      /\ n = Len(outer.fields) /\ first = 2^DepthFor(n) /\ node \in 1 .. 2 * first - 1
  BY DEF IsPlace
<1> DEFINE m == Merkleized(n, FieldRoots(outer, w))
<1>2. m[node] = ZERO
  <2>1. ~(node < first) /\ ~(node - first < n)
    BY <1>1
  <2>2. m[node] = Node(m, first, n, FieldRoots(outer, w), node)
    BY <1>1, MerkleizedNodes
  <2> HIDE DEF m
  <2> QED
    BY <2>1, <2>2 DEF Node
<1>3. NodeAt(type, v, k) = m[node]
  BY <1>1 DEF NodeAt
<1> QED
  BY <1>2, <1>3

\* A container with so many fields, in a tree with so many leaves.
IsStruct(type, n, first) ==
  /\ type.kind = "container" /\ NestsIn(type, 6)
  /\ n = Len(type.fields) /\ n \in Nat
  /\ first = 2^DepthFor(n) /\ first \in Nat /\ first > 1

\* The root of a container is the first node of its tree.
LEMMA RootNode ==
  ASSUME NEW type, NEW v, NEW n, NEW first, IsStruct(type, n, first)
  PROVE  /\ IsPlace(Place(type, v)[1], type, v, 1, n, first)
         /\ NodeAt(type, v, 1) = TreeRoot(type, v)
<1>1. Place(type, v)[1] = [type |-> type, value |-> v, node |-> 1]
  BY PlaceEquation
<1>2. NodeAt(type, v, 1) = Merkleized(n, FieldRoots(type, v))[1]
  BY <1>1 DEF NodeAt, IsStruct
<1>3. TreeRoot(type, v) = Merkleized(n, FieldRoots(type, v))[1]
  BY ContainerRoot DEF IsStruct
<1> QED
  BY <1>1, <1>2, <1>3 DEF IsPlace, IsStruct

\* A leaf that is the root of a container goes on with the tree of that one.
LEMMA FieldBelow ==
  ASSUME NEW type, NEW v, NEW k \in Nat, k > 0,
         NEW outer, NEW w, NEW node, NEW n, NEW first,
         IsPlace(Place(type, v)[k], outer, w, node, n, first),
         NEW i, IsLeaf(i, node, n, first),
         NEW name, NEW inner, IsField(outer, i, name, inner), NEW m, NEW low, IsStruct(inner, m, low)
  PROVE  /\ IsPlace(Place(type, v)[2 * k], inner, w[name], 2, m, low)
         /\ IsPlace(Place(type, v)[2 * k + 1], inner, w[name], 3, m, low)
         /\ NodeAt(type, v, k) = Hash(NodeAt(type, v, 2 * k), NodeAt(type, v, 2 * k + 1))
<1>0. /\ 2 * k \in Nat /\ 2 * k > 1 /\ (2 * k) \div 2 = k /\ (2 * k) % 2 = 0
      /\ 2 * k + 1 \in Nat /\ 2 * k + 1 > 1 /\ (2 * k + 1) \div 2 = k /\ (2 * k + 1) % 2 = 1
  OBVIOUS
<1>1. /\ Place(type, v)[2 * k] = PlaceBelow(Place(type, v)[k], 2 * k)
      /\ Place(type, v)[2 * k + 1] = PlaceBelow(Place(type, v)[k], 2 * k + 1)
  <2>1. \A j \in Nat : j > 1 => Place(type, v)[j] = PlaceBelow(Place(type, v)[j \div 2], j)
    BY ONLY PlaceEquation
  <2>2. /\ Place(type, v)[2 * k] = PlaceBelow(Place(type, v)[(2 * k) \div 2], 2 * k)
        /\ Place(type, v)[2 * k + 1] = PlaceBelow(Place(type, v)[(2 * k + 1) \div 2], 2 * k + 1)
    BY ONLY <1>0, <2>1
  <2> QED
    BY ONLY <1>0, <2>2
<1>2. /\ node \in Nat /\ node > 0 /\ n \in Nat /\ first \in Nat /\ first > 1 /\ i \in Nat
      /\ Place(type, v)[k] = [type |-> outer, value |-> w, node |-> node]
      /\ n = Len(outer.fields) /\ first = 2^DepthFor(n)
      /\ ~(node < first) /\ node - first + 1 = i
  BY SMTT(30) DEF IsPlace, IsLeaf
<1>3. /\ Place(type, v)[2 * k] = [type |-> inner, value |-> w[name], node |-> 2]
      /\ Place(type, v)[2 * k + 1] = [type |-> inner, value |-> w[name], node |-> 3]
  <2> DEFINE up == [type |-> outer, value |-> w, node |-> node]
             field == outer.fields[node - first + 1]
  <2>1. field[1] = name /\ field[2] = inner
    <3>1. node - first + 1 = i
      BY ONLY <1>2
    <3>2. field = <<name, inner>>
      BY ONLY <3>1, IsField(outer, i, name, inner) DEF IsField
    <3> QED
      BY ONLY <3>2
  <2> HIDE DEF field
  <2>2. \A j : PlaceBelow(up, j) = [type |-> field[2], value |-> w[field[1]], node |-> 2 + (j % 2)]
    BY <1>2 DEF PlaceBelow, field
  <2>3. \A j : PlaceBelow(up, j) = [type |-> inner, value |-> w[name], node |-> 2 + (j % 2)]
    BY ONLY <2>1, <2>2
  <2>4. Place(type, v)[k] = up
    BY <1>2
  <2> HIDE DEF up
  <2> QED
    BY ONLY <1>0, <1>1, <2>3, <2>4
<1>4. /\ m \in Nat /\ low \in Nat /\ low > 1 /\ m = Len(inner.fields) /\ low = 2^DepthFor(m)
      /\ 1 \in 1 .. 2 * low - 1 /\ 2 \in 1 .. 2 * low - 1 /\ 3 \in 1 .. 2 * low - 1
  BY DEF IsStruct
<1> DEFINE tree == Merkleized(m, FieldRoots(inner, w[name]))
<1>5. tree[1] = Hash(tree[2], tree[3])
  <2>1. tree[1] = Node(tree, low, m, FieldRoots(inner, w[name]), 1)
    BY <1>4, MerkleizedNodes
  <2> HIDE DEF tree
  <2> QED
    BY <1>4, <2>1 DEF Node
<1>6. /\ NodeAt(type, v, 2 * k) = tree[2]
      /\ NodeAt(type, v, 2 * k + 1) = tree[3]
  BY <1>3, <1>4 DEF NodeAt
<1>7. NodeAt(type, v, k) = TreeRoot(inner, w[name])
  BY LeafNode
<1>8. TreeRoot(inner, w[name]) = tree[1]
  BY <1>4, ContainerRoot DEF IsStruct
<1>9. inner.kind = "container" /\ NestsIn(inner, 6)
  BY DEF IsStruct
<1> QED
  BY <1>3, <1>4, <1>5, <1>6, <1>7, <1>8, <1>9 DEF IsPlace

\* The number of fields of a container tells the size of its tree.
LEMMA StructIs ==
  ASSUME NEW type, type.kind = "container", NestsIn(type, 6)
  PROVE  /\ Len(type.fields) = 5 => IsStruct(type, 5, 8)
         /\ Len(type.fields) = 12 => IsStruct(type, 12, 16)
         /\ Len(type.fields) = 13 => IsStruct(type, 13, 16)
<1>1. /\ 5 \in Nat /\ 12 \in Nat /\ 13 \in Nat
      /\ 8 \in Nat /\ 8 > 1 /\ 16 \in Nat /\ 16 > 1
  OBVIOUS
<1>2. 2^DepthFor(5) = 8 /\ 2^DepthFor(12) = 16 /\ 2^DepthFor(13) = 16
  BY ONLY DepthsFor
<1> QED
  BY <1>1, <1>2 DEF IsStruct

\* Containers of which the fields have the same roots.
Alike(s, v, t, w) ==
  /\ s.kind = "container" /\ t.kind = "container" /\ NestsIn(s, 6) /\ NestsIn(t, 6)
  /\ DOMAIN s.fields = DOMAIN t.fields /\ Len(s.fields) = Len(t.fields)
  /\ \A i \in DOMAIN s.fields : FieldRoots(s, v)[i] = FieldRoots(t, w)[i]

\* They have the same root.
LEMMA SameRoots ==
  ASSUME NEW s, NEW t, NEW v, NEW w, Alike(s, v, t, w)
  PROVE  TreeRoot(s, v) = TreeRoot(t, w)
<1> USE DEF Alike
<1>1. /\ DOMAIN FieldRoots(s, v) = DOMAIN s.fields /\ DOMAIN FieldRoots(t, w) = DOMAIN s.fields
      /\ FieldRoots(s, v) = [i \in DOMAIN s.fields |-> FieldRoots(s, v)[i]]
      /\ FieldRoots(t, w) = [i \in DOMAIN s.fields |-> FieldRoots(t, w)[i]]
  BY DEF FieldRoots
<1>2. FieldRoots(s, v) = FieldRoots(t, w)
  BY <1>1
<1> QED
  BY <1>2, ContainerRoot

\* The root of a field that is found by its name.
LEMMA RootOfField ==
  ASSUME NEW type, DistinctNames(type), NEW i \in DOMAIN type.fields,
         NEW name, NEW inner, type.fields[i] = <<name, inner>>, NEW v
  PROVE  FieldRoots(type, v)[i] = TreeRoot(inner, v[name])
<1>1. FieldType(type, name) = inner
  BY FieldsByName
<1>2. FieldRoots(type, v)[i] = TreeRoot(FieldType(type, type.fields[i][1]), v[type.fields[i][1]])
  BY DEF FieldRoots
<1>3. type.fields[i][1] = name
  OBVIOUS
<1> QED
  BY <1>1, <1>2, <1>3

\* The roots of the trees of four and of eight leaves.
LEMMA SmallTrees ==
  ASSUME NEW chunks
  PROVE  /\ \A n \in {5, 8} :
              LET c(i) == IF i <= n THEN chunks[i] ELSE ZERO
              IN  Merkleized(n, chunks)[1]
                    = Hash(Hash(Hash(c(1), c(2)), Hash(c(3), c(4))), Hash(Hash(c(5), c(6)), Hash(c(7), c(8))))
         /\ Merkleized(4, chunks)[1] = Hash(Hash(chunks[1], chunks[2]), Hash(chunks[3], chunks[4]))
<1>1. ASSUME NEW n \in {5, 8}, DepthFor(n) = 3
      PROVE  LET c(i) == IF i <= n THEN chunks[i] ELSE ZERO
             IN  Merkleized(n, chunks)[1]
                   = Hash(Hash(Hash(c(1), c(2)), Hash(c(3), c(4))), Hash(Hash(c(5), c(6)), Hash(c(7), c(8))))
  <2> DEFINE m == Merkleized(n, chunks)
             c(i) == IF i <= n THEN chunks[i] ELSE ZERO
  <2>1. n \in Nat /\ 8 \in Nat /\ 8 > 0 /\ 8 = 2^DepthFor(n)
    BY <1>1, DepthsFor
  <2>2. \A k \in 1 .. 2 * 8 - 1 : m[k] = Node(m, 8, n, chunks, k)
    BY <2>1, MerkleizedNodes
  <2> HIDE DEF m
  <2>3. /\ m[1] = Hash(m[2], m[3]) /\ m[2] = Hash(m[4], m[5]) /\ m[3] = Hash(m[6], m[7])
        /\ m[4] = Hash(m[8], m[9]) /\ m[5] = Hash(m[10], m[11])
        /\ m[6] = Hash(m[12], m[13]) /\ m[7] = Hash(m[14], m[15])
    BY <2>2 DEF Node
  <2>4. ASSUME NEW i \in 1 .. 8
        PROVE  m[i + 7] = c(i)
    <3>1. i + 7 \in 1 .. 2 * 8 - 1 /\ ~(i + 7 < 8) /\ (i + 7) - 8 + 1 = i
          /\ ((i + 7) - 8 < n <=> i <= n)
      BY <1>1
    <3>2. m[i + 7] = Node(m, 8, n, chunks, i + 7)
      BY <2>2, <3>1
    <3> QED
      BY <3>1, <3>2 DEF Node
  <2>5. /\ m[8] = c(1) /\ m[9] = c(2) /\ m[10] = c(3) /\ m[11] = c(4)
        /\ m[12] = c(5) /\ m[13] = c(6) /\ m[14] = c(7) /\ m[15] = c(8)
    <3> HIDE DEF c
    <3>1. /\ m[1 + 7] = c(1) /\ m[2 + 7] = c(2) /\ m[3 + 7] = c(3) /\ m[4 + 7] = c(4)
          /\ m[5 + 7] = c(5) /\ m[6 + 7] = c(6) /\ m[7 + 7] = c(7) /\ m[8 + 7] = c(8)
      BY <2>4
    <3> QED
      BY <3>1
  <2> HIDE DEF c
  <2>6. m[1] = Hash(Hash(Hash(c(1), c(2)), Hash(c(3), c(4))), Hash(Hash(c(5), c(6)), Hash(c(7), c(8))))
    BY <2>3, <2>5
  <2> QED
    BY <2>6 DEF m, c
<1>2. ASSUME NEW n \in {5, 8}
      PROVE  DepthFor(n) = 3
  BY DepthsFor
<1>3. Merkleized(4, chunks)[1] = Hash(Hash(chunks[1], chunks[2]), Hash(chunks[3], chunks[4]))
  <2> DEFINE m == Merkleized(4, chunks)
  <2>1. 4 \in Nat /\ 4 > 0 /\ 4 = 2^DepthFor(4)
    <3>1. 4 = 2^DepthFor(4)
      BY ONLY DepthsFor
    <3> QED
      BY <3>1
  <2>2. \A k \in 1 .. 2 * 4 - 1 : m[k] = Node(m, 4, 4, chunks, k)
    BY <2>1, MerkleizedNodes
  <2> HIDE DEF m
  <2>3. /\ m[1] = Hash(m[2], m[3]) /\ m[2] = Hash(m[4], m[5]) /\ m[3] = Hash(m[6], m[7])
        /\ m[4] = chunks[4 - 4 + 1] /\ m[5] = chunks[5 - 4 + 1]
        /\ m[6] = chunks[6 - 4 + 1] /\ m[7] = chunks[7 - 4 + 1]
    BY <2>2 DEF Node
  <2>4. m[4] = chunks[1] /\ m[5] = chunks[2] /\ m[6] = chunks[3] /\ m[7] = chunks[4]
    BY <2>3
  <2> QED
    BY <2>3, <2>4 DEF m
<1> QED
  BY <1>1, <1>2, <1>3

-----------------------------------------------------------------------------
(* Generalized indices.                                                    *)

\* The node to which the next item of a path leads.
IndexBelow(up, item) ==
  LET i == FieldNumber(up.type, item)
  IN  IF up.type.kind = "container"
      THEN [ type  |-> up.type.fields[i][2],
             index |-> Below(up.index, Bits[2^DepthFor(Len(up.type.fields)) + i - 1]) ]
      ELSE [ type  |-> up.type.element,
             index |-> Below(up.index, {Max(up.type.limit) + 1} \cup item) ]

\* A path is followed item by item.
LEMMA PathFollowed ==
  ASSUME NEW type, NEW path, Len(path) \in Nat
  PROVE  \E at :
           /\ at[0] = [type |-> type, index |-> {0}]
           /\ \A n \in 1 .. Len(path) : at[n] = IndexBelow(at[n - 1], path[n])
           /\ GeneralizedIndex(type, path) = at[Len(path)].index
<1> DEFINE root == [type |-> type, index |-> {0}]
           At(g, n) == IF n = 0 THEN root ELSE IndexBelow(g[n - 1], path[n])
           A(k, g) == g = [n \in 0 .. k |-> At(g, n)]
           S == { k \in Nat : \E g : A(k, g) }
<1> HIDE DEF root
<1>1. 0 \in S
  <2>1. A(0, [n \in 0 .. 0 |-> root])
    OBVIOUS
  <2> QED
    BY <2>1
<1>2. ASSUME NEW k \in Nat, k \in S
      PROVE  k + 1 \in S
  <2>1. PICK g : A(k, g)
    BY <1>2
  <2> DEFINE h == [n \in 0 .. k + 1 |-> IF n = k + 1 THEN At(g, n) ELSE g[n]]
  <2>2. ASSUME NEW n \in 0 .. k + 1
        PROVE  h[n] = At(h, n)
    <3>1. h[n] = At(g, n)
      <4>1. CASE n = k + 1
        BY <4>1
      <4>2. CASE n # k + 1
        <5>1. n \in 0 .. k /\ h[n] = g[n]
          BY <4>2
        <5> QED
          BY <2>1, <5>1
      <4> QED
        BY <4>1, <4>2
    <3>2. n # 0 => h[n - 1] = g[n - 1]
      OBVIOUS
    <3> HIDE DEF h
    <3> QED
      BY <3>1, <3>2
  <2>3. h = [n \in 0 .. k + 1 |-> h[n]]
    OBVIOUS
  <2> HIDE DEF h
  <2>4. A(k + 1, h)
    BY <2>2, <2>3
  <2> HIDE DEF A
  <2> QED
    BY <2>4
<1>3. Nat \subseteq S
  <2> HIDE DEF S
  <2> QED
    BY <1>1, <1>2, Induction
<1> DEFINE at == CHOOSE g : A(Len(path), g)
<1>4. A(Len(path), at)
  <2>1. \E g : A(Len(path), g)
    BY <1>3
  <2> HIDE DEF A
  <2> QED
    BY <2>1
<1>5. GeneralizedIndex(type, path) = at[Len(path)].index
  BY DEF GeneralizedIndex, IndexBelow, root
<1> HIDE DEF at
<1>6. at[0] = root
  BY <1>4
<1>7. ASSUME NEW n \in 1 .. Len(path)
      PROVE  at[n] = IndexBelow(at[n - 1], path[n])
  <2>1. n \in 0 .. Len(path) /\ n # 0
    OBVIOUS
  <2> QED
    BY <1>4, <2>1
<1> QED
  BY <1>5, <1>6, <1>7 DEF root

\* An item of a path leads from one type to another, down by a word.
AtPlace(type, index) == [type |-> type, index |-> index]

LeadsTo(type, item, inner, word, top) ==
  /\ type.kind = "container"
  /\ type.fields[FieldNumber(type, item)][2] = inner
  /\ Bits[2^DepthFor(Len(type.fields)) + FieldNumber(type, item) - 1] = word
  /\ Max(word) = top

\* One name of a path leads to the index below that of its struct.
LEMMA FieldStep ==
  ASSUME NEW type, NEW item, NEW inner, NEW word, NEW top, LeadsTo(type, item, inner, word, top),
         NEW index
  PROVE  IndexBelow(AtPlace(type, index), item)
           = AtPlace(inner, { j + top : j \in index } \cup (word \ {top}))
BY DEF LeadsTo, AtPlace, IndexBelow, Below

\* The highest bits of the literals.
LEMMA LiteralTops ==
  /\ Max({0, 3}) = 3 /\ Max({2, 3}) = 3 /\ Max({0, 3, 4}) = 4 /\ Max({0, 1, 3}) = 3
  /\ Max({0, 1, 3, 5}) = 5 /\ Max({0, 5}) = 5 /\ Max({0, 3, 5}) = 5 /\ Max({40}) = 40
<1>1. ASSUME NEW S, NEW top, top \in S, \A i \in S : i \in Int /\ top >= i
      PROVE  Max(S) = top
  <2>1. \A x \in S : (\A y \in S : x >= y) => x = top
    BY <1>1
  <2>2. \E x \in S : \A y \in S : x >= y
    BY <1>1
  <2> QED
    BY <2>1, <2>2 DEF Max
<1> QED
  BY <1>1

\* The fields on the paths.
LEMMA PathFields ==
  /\ BeaconBlock.kind = "container" /\ Len(BeaconBlock.fields) = 5
  /\ FieldNumber(BeaconBlock, "proposer_index") = 2 /\ BeaconBlock.fields[2][2] = U64
  /\ FieldNumber(BeaconBlock, "body") = 5 /\ BeaconBlock.fields[5][2] = BeaconBlockBody
  /\ BeaconBlockBody.kind = "container" /\ Len(BeaconBlockBody.fields) = 12
  /\ FieldNumber(BeaconBlockBody, "execution_payload") = 10
  /\ BeaconBlockBody.fields[10][2] = ExecutionPayload
  /\ ExecutionPayload.kind = "container" /\ Len(ExecutionPayload.fields) = 17
  /\ FieldNumber(ExecutionPayload, "fee_recipient") = 2
  /\ ExecutionPayload.fields[2][2] = ExecutionAddress
  /\ FieldNumber(ExecutionPayload, "timestamp") = 10
  /\ ExecutionPayload.fields[10][2] = U64
  /\ BeaconBlockState.kind = "container" /\ Len(BeaconBlockState.fields) = 5
  /\ FieldNumber(BeaconBlockState, "beacon_state") = 4 /\ BeaconBlockState.fields[4][2] = BeaconState
  /\ BeaconState.kind = "container" /\ Len(BeaconState.fields) = 28
  /\ FieldNumber(BeaconState, "validators") = 12
  /\ BeaconState.fields[12][2] = List(Validator, {40})
<1>1. /\ BeaconBlock.kind = "container" /\ Len(BeaconBlock.fields) = 5
      /\ FieldNumber(BeaconBlock, "proposer_index") = 2 /\ BeaconBlock.fields[2][2] = U64
      /\ FieldNumber(BeaconBlock, "body") = 5 /\ BeaconBlock.fields[5][2] = BeaconBlockBody
  BY DEF BeaconBlock, Container, FieldNumber
<1>2. /\ BeaconBlockBody.kind = "container" /\ Len(BeaconBlockBody.fields) = 12
      /\ FieldNumber(BeaconBlockBody, "execution_payload") = 10
      /\ BeaconBlockBody.fields[10][2] = ExecutionPayload
  BY DEF BeaconBlockBody, Container, FieldNumber
<1>3. /\ ExecutionPayload.kind = "container" /\ Len(ExecutionPayload.fields) = 17
      /\ ExecutionPayload.fields[2][2] = ExecutionAddress
      /\ ExecutionPayload.fields[10][2] = U64
  BY DEF ExecutionPayload, Container, PayloadStart, BlobGas
<1>4. FieldNumber(ExecutionPayload, "fee_recipient") = 2 /\ FieldNumber(ExecutionPayload, "timestamp") = 10
  BY DEF ExecutionPayload, Container, PayloadStart, BlobGas, FieldNumber
<1>5. /\ BeaconBlockState.kind = "container" /\ Len(BeaconBlockState.fields) = 5
      /\ FieldNumber(BeaconBlockState, "beacon_state") = 4 /\ BeaconBlockState.fields[4][2] = BeaconState
  BY DEF BeaconBlockState, Container, FieldNumber
<1>6. /\ BeaconState.kind = "container" /\ Len(BeaconState.fields) = 28
      /\ BeaconState.fields[12][2] = List(Validator, {40})
  BY DEF BeaconState, Container, PerValidator, VALIDATOR_REGISTRY_LIMIT
<1>7. FieldNumber(BeaconState, "validators") = 12
  BY DEF BeaconState, Container, FieldNumber
<1> QED
  BY <1>1, <1>2, <1>3, <1>4, <1>5, <1>6, <1>7

\* The generalized indices of the fields of a block that are verified.
LEMMA BlockPaths ==
  /\ GeneralizedIndex(BeaconBlock, <<"proposer_index">>) = {0, 3}
  /\ GeneralizedIndex(BeaconBlock, <<"body", "execution_payload", "fee_recipient">>)
       = {0, 5, 8, 11, 12}
  /\ GeneralizedIndex(BeaconBlock, <<"body", "execution_payload", "timestamp">>)
       = {0, 3, 5, 8, 11, 12}
<1>1. IndexBelow(AtPlace(BeaconBlock, {0}), "proposer_index") = AtPlace(U64, {0, 3})
  <2>0. LeadsTo(BeaconBlock, "proposer_index", U64, {0, 3}, 3)
    <3>1. /\ BeaconBlock.kind = "container" /\ FieldNumber(BeaconBlock, "proposer_index") = 2
          /\ BeaconBlock.fields[2][2] = U64 /\ 2^DepthFor(Len(BeaconBlock.fields)) = 8
      BY ONLY PathFields, DepthsFor
    <3>2. 8 + 2 - 1 = 9 /\ Bits[9] = {0, 3} /\ Max({0, 3}) = 3
      BY LiteralIndices, LiteralTops
    <3> QED
      BY ONLY <3>1, <3>2 DEF LeadsTo
  <2>1. IndexBelow(AtPlace(BeaconBlock, {0}), "proposer_index")
          = AtPlace(U64, { j + 3 : j \in {0} } \cup ({0, 3} \ {3}))
    BY ONLY <2>0, FieldStep
  <2>2. { j + 3 : j \in {0} } \cup ({0, 3} \ {3}) = {0, 3}
    OBVIOUS
  <2> QED
    BY ONLY <2>1, <2>2
<1>2. IndexBelow(AtPlace(BeaconBlock, {0}), "body") = AtPlace(BeaconBlockBody, {2, 3})
  <2>0. LeadsTo(BeaconBlock, "body", BeaconBlockBody, {2, 3}, 3)
    <3>1. /\ BeaconBlock.kind = "container" /\ FieldNumber(BeaconBlock, "body") = 5
          /\ BeaconBlock.fields[5][2] = BeaconBlockBody /\ 2^DepthFor(Len(BeaconBlock.fields)) = 8
      BY ONLY PathFields, DepthsFor
    <3>2. 8 + 5 - 1 = 12 /\ Bits[12] = {2, 3} /\ Max({2, 3}) = 3
      BY LiteralIndices, LiteralTops
    <3> QED
      BY ONLY <3>1, <3>2 DEF LeadsTo
  <2>1. IndexBelow(AtPlace(BeaconBlock, {0}), "body")
          = AtPlace(BeaconBlockBody, { j + 3 : j \in {0} } \cup ({2, 3} \ {3}))
    BY ONLY <2>0, FieldStep
  <2>2. { j + 3 : j \in {0} } \cup ({2, 3} \ {3}) = {2, 3}
    OBVIOUS
  <2> QED
    BY ONLY <2>1, <2>2
<1>3. IndexBelow(AtPlace(BeaconBlockBody, {2, 3}), "execution_payload") = AtPlace(ExecutionPayload, {0, 3, 6, 7})
  <2>0. LeadsTo(BeaconBlockBody, "execution_payload", ExecutionPayload, {0, 3, 4}, 4)
    <3>1. /\ BeaconBlockBody.kind = "container" /\ FieldNumber(BeaconBlockBody, "execution_payload") = 10
          /\ BeaconBlockBody.fields[10][2] = ExecutionPayload /\ 2^DepthFor(Len(BeaconBlockBody.fields)) = 16
      BY ONLY PathFields, DepthsFor
    <3>2. 16 + 10 - 1 = 25 /\ Bits[25] = {0, 3, 4} /\ Max({0, 3, 4}) = 4
      BY LiteralIndices, LiteralTops
    <3> QED
      BY ONLY <3>1, <3>2 DEF LeadsTo
  <2>1. IndexBelow(AtPlace(BeaconBlockBody, {2, 3}), "execution_payload")
          = AtPlace(ExecutionPayload, { j + 4 : j \in {2, 3} } \cup ({0, 3, 4} \ {4}))
    BY ONLY <2>0, FieldStep
  <2>2. { j + 4 : j \in {2, 3} } \cup ({0, 3, 4} \ {4}) = {0, 3, 6, 7}
    OBVIOUS
  <2> QED
    BY ONLY <2>1, <2>2
<1>4. IndexBelow(AtPlace(ExecutionPayload, {0, 3, 6, 7}), "fee_recipient")
        = AtPlace(ExecutionAddress, {0, 5, 8, 11, 12})
  <2>0. LeadsTo(ExecutionPayload, "fee_recipient", ExecutionAddress, {0, 5}, 5)
    <3>1. /\ ExecutionPayload.kind = "container" /\ FieldNumber(ExecutionPayload, "fee_recipient") = 2
          /\ ExecutionPayload.fields[2][2] = ExecutionAddress /\ 2^DepthFor(Len(ExecutionPayload.fields)) = 32
      BY ONLY PathFields, DepthsFor
    <3>2. 32 + 2 - 1 = 33 /\ Bits[33] = {0, 5} /\ Max({0, 5}) = 5
      BY LiteralIndices, LiteralTops
    <3> QED
      BY ONLY <3>1, <3>2 DEF LeadsTo
  <2>1. IndexBelow(AtPlace(ExecutionPayload, {0, 3, 6, 7}), "fee_recipient")
          = AtPlace(ExecutionAddress, { j + 5 : j \in {0, 3, 6, 7} } \cup ({0, 5} \ {5}))
    BY ONLY <2>0, FieldStep
  <2>2. { j + 5 : j \in {0, 3, 6, 7} } \cup ({0, 5} \ {5}) = {0, 5, 8, 11, 12}
    OBVIOUS
  <2> QED
    BY ONLY <2>1, <2>2
<1>5. IndexBelow(AtPlace(ExecutionPayload, {0, 3, 6, 7}), "timestamp") = AtPlace(U64, {0, 3, 5, 8, 11, 12})
  <2>0. LeadsTo(ExecutionPayload, "timestamp", U64, {0, 3, 5}, 5)
    <3>1. /\ ExecutionPayload.kind = "container" /\ FieldNumber(ExecutionPayload, "timestamp") = 10
          /\ ExecutionPayload.fields[10][2] = U64 /\ 2^DepthFor(Len(ExecutionPayload.fields)) = 32
      BY ONLY PathFields, DepthsFor
    <3>2. 32 + 10 - 1 = 41 /\ Bits[41] = {0, 3, 5} /\ Max({0, 3, 5}) = 5
      BY LiteralIndices, LiteralTops
    <3> QED
      BY ONLY <3>1, <3>2 DEF LeadsTo
  <2>1. IndexBelow(AtPlace(ExecutionPayload, {0, 3, 6, 7}), "timestamp")
          = AtPlace(U64, { j + 5 : j \in {0, 3, 6, 7} } \cup ({0, 3, 5} \ {5}))
    BY ONLY <2>0, FieldStep
  <2>2. { j + 5 : j \in {0, 3, 6, 7} } \cup ({0, 3, 5} \ {5}) = {0, 3, 5, 8, 11, 12}
    OBVIOUS
  <2> QED
    BY ONLY <2>1, <2>2
<1>6. GeneralizedIndex(BeaconBlock, <<"proposer_index">>) = {0, 3}
  <2> DEFINE path == <<"proposer_index">>
  <2>1. Len(path) = 1 /\ path[1] = "proposer_index" /\ 1 \in Nat /\ 1 \in 1 .. 1 /\ 1 - 1 = 0
    OBVIOUS
  <2> HIDE DEF path
  <2>2. PICK at : /\ at[0] = AtPlace(BeaconBlock, {0})
                  /\ \A n \in 1 .. Len(path) : at[n] = IndexBelow(at[n - 1], path[n])
                  /\ GeneralizedIndex(BeaconBlock, path) = at[Len(path)].index
    BY ONLY PathFollowed, <2>1 DEF AtPlace
  <2>3. at[1] = IndexBelow(at[0], path[1])
    BY ONLY <2>1, <2>2
  <2>4. at[1] = AtPlace(U64, {0, 3})
    BY ONLY <1>1, <2>1, <2>2, <2>3
  <2> QED
    BY ONLY <2>1, <2>2, <2>4 DEF path, AtPlace
<1>7. ASSUME NEW name, NEW inner, NEW index,
             IndexBelow(AtPlace(ExecutionPayload, {0, 3, 6, 7}), name) = AtPlace(inner, index)
      PROVE  GeneralizedIndex(BeaconBlock, <<"body", "execution_payload", name>>) = index
  <2> DEFINE path == <<"body", "execution_payload", name>>
  <2>1. /\ Len(path) = 3 /\ path[1] = "body" /\ path[2] = "execution_payload" /\ path[3] = name
        /\ 3 \in Nat /\ 1 \in 1 .. 3 /\ 2 \in 1 .. 3 /\ 3 \in 1 .. 3
        /\ 1 - 1 = 0 /\ 2 - 1 = 1 /\ 3 - 1 = 2
    OBVIOUS
  <2> HIDE DEF path
  <2>2. PICK at : /\ at[0] = AtPlace(BeaconBlock, {0})
                  /\ \A n \in 1 .. Len(path) : at[n] = IndexBelow(at[n - 1], path[n])
                  /\ GeneralizedIndex(BeaconBlock, path) = at[Len(path)].index
    BY ONLY PathFollowed, <2>1 DEF AtPlace
  <2>3. /\ at[1] = IndexBelow(at[0], path[1]) /\ at[2] = IndexBelow(at[1], path[2])
        /\ at[3] = IndexBelow(at[2], path[3])
    BY ONLY <2>1, <2>2
  <2>4. at[3] = AtPlace(inner, index)
    BY ONLY <1>2, <1>3, <1>7, <2>1, <2>2, <2>3
  <2> QED
    BY ONLY <2>1, <2>2, <2>4 DEF path, AtPlace
<1> QED
  BY ONLY <1>4, <1>5, <1>6, <1>7

\* The generalized index of a validator in the state of a block.
LEMMA ValidatorPath ==
  ASSUME NEW v, \A i \in v : i \in 0 .. 39
  PROVE  GeneralizedIndex(BeaconBlockState, <<"beacon_state", "validators", v>>)
           = {41, 42, 44, 46, 47, 49} \cup v
<1>1. IndexBelow(AtPlace(BeaconBlockState, {0}), "beacon_state") = AtPlace(BeaconState, {0, 1, 3})
  <2>0. LeadsTo(BeaconBlockState, "beacon_state", BeaconState, {0, 1, 3}, 3)
    <3>1. /\ BeaconBlockState.kind = "container" /\ FieldNumber(BeaconBlockState, "beacon_state") = 4
          /\ BeaconBlockState.fields[4][2] = BeaconState /\ 2^DepthFor(Len(BeaconBlockState.fields)) = 8
      BY ONLY PathFields, DepthsFor
    <3>2. 8 + 4 - 1 = 11 /\ Bits[11] = {0, 1, 3} /\ Max({0, 1, 3}) = 3
      BY LiteralIndices, LiteralTops
    <3> QED
      BY ONLY <3>1, <3>2 DEF LeadsTo
  <2>1. IndexBelow(AtPlace(BeaconBlockState, {0}), "beacon_state")
          = AtPlace(BeaconState, { j + 3 : j \in {0} } \cup ({0, 1, 3} \ {3}))
    BY ONLY <2>0, FieldStep
  <2>2. { j + 3 : j \in {0} } \cup ({0, 1, 3} \ {3}) = {0, 1, 3}
    OBVIOUS
  <2> QED
    BY ONLY <2>1, <2>2
<1>2. IndexBelow(AtPlace(BeaconState, {0, 1, 3}), "validators")
        = AtPlace(List(Validator, {40}), {0, 1, 3, 5, 6, 8})
  <2>0. LeadsTo(BeaconState, "validators", List(Validator, {40}), {0, 1, 3, 5}, 5)
    <3>1. /\ BeaconState.kind = "container" /\ FieldNumber(BeaconState, "validators") = 12
          /\ BeaconState.fields[12][2] = List(Validator, {40}) /\ 2^DepthFor(Len(BeaconState.fields)) = 32
      BY ONLY PathFields, DepthsFor
    <3>2. 32 + 12 - 1 = 43 /\ Bits[43] = {0, 1, 3, 5} /\ Max({0, 1, 3, 5}) = 5
      BY LiteralIndices, LiteralTops
    <3> QED
      BY ONLY <3>1, <3>2 DEF LeadsTo
  <2>1. IndexBelow(AtPlace(BeaconState, {0, 1, 3}), "validators")
          = AtPlace(List(Validator, {40}), { j + 5 : j \in {0, 1, 3} } \cup ({0, 1, 3, 5} \ {5}))
    BY ONLY <2>0, FieldStep
  <2>2. { j + 5 : j \in {0, 1, 3} } \cup ({0, 1, 3, 5} \ {5}) = {0, 1, 3, 5, 6, 8}
    OBVIOUS
  <2> QED
    BY ONLY <2>1, <2>2
<1>3. IndexBelow(AtPlace(List(Validator, {40}), {0, 1, 3, 5, 6, 8}), v)
        = AtPlace(Validator, {41, 42, 44, 46, 47, 49} \cup v)
  <2> DEFINE c == {41} \cup v
  <2>1. Max(c) = 41
    <3>1. 41 \in c /\ \A i \in c : i \in Int /\ 41 >= i
      OBVIOUS
    <3> HIDE DEF c
    <3>2. \A x \in c : (\A y \in c : x >= y) => x = 41
      BY <3>1
    <3>3. \E x \in c : \A y \in c : x >= y
      BY <3>1
    <3> QED
      BY <3>2, <3>3 DEF Max
  <2>2. {Max(List(Validator, {40}).limit) + 1} \cup v = c
    BY LiteralTops DEF List
  <2>3. /\ List(Validator, {40}).kind # "container"
        /\ List(Validator, {40}).element = Validator
    BY DEF List
  <2>4. IndexBelow(AtPlace(List(Validator, {40}), {0, 1, 3, 5, 6, 8}), v)
          = AtPlace(Validator, Below({0, 1, 3, 5, 6, 8}, c))
    <3> DEFINE type == List(Validator, {40})
    <3>1. /\ type.kind # "container" /\ type.element = Validator
          /\ {Max(type.limit) + 1} \cup v = c
      BY ONLY <2>2, <2>3
    <3> HIDE DEF type, c
    <3>2. \A index : IndexBelow(AtPlace(type, index), v) = AtPlace(Validator, Below(index, c))
      BY <3>1 DEF IndexBelow, AtPlace
    <3> QED
      BY ONLY <3>2 DEF type
  <2>5. Below({0, 1, 3, 5, 6, 8}, c) = { i + 41 : i \in {0, 1, 3, 5, 6, 8} } \cup (c \ {41})
    BY <2>1 DEF Below
  <2>6. { i + 41 : i \in {0, 1, 3, 5, 6, 8} } \cup (c \ {41}) = {41, 42, 44, 46, 47, 49} \cup v
    <3>1. { i + 41 : i \in {0, 1, 3, 5, 6, 8} } = {41, 42, 44, 46, 47, 49}
      OBVIOUS
    <3>2. c \ {41} = v
      OBVIOUS
    <3> QED
      BY ONLY <3>1, <3>2
  <2> QED
    BY ONLY <2>4, <2>5, <2>6
<1>4. GeneralizedIndex(BeaconBlockState, <<"beacon_state", "validators", v>>)
        = {41, 42, 44, 46, 47, 49} \cup v
  <2> DEFINE path == <<"beacon_state", "validators", v>>
             index == {41, 42, 44, 46, 47, 49} \cup v
  <2>1. /\ Len(path) = 3 /\ path[1] = "beacon_state" /\ path[2] = "validators" /\ path[3] = v
        /\ 3 \in Nat /\ 1 \in 1 .. 3 /\ 2 \in 1 .. 3 /\ 3 \in 1 .. 3
        /\ 1 - 1 = 0 /\ 2 - 1 = 1 /\ 3 - 1 = 2
    OBVIOUS
  <2> HIDE DEF path, index
  <2>2. PICK at : /\ at[0] = AtPlace(BeaconBlockState, {0})
                  /\ \A n \in 1 .. Len(path) : at[n] = IndexBelow(at[n - 1], path[n])
                  /\ GeneralizedIndex(BeaconBlockState, path) = at[Len(path)].index
    BY ONLY PathFollowed, <2>1 DEF AtPlace
  <2>3. /\ at[1] = IndexBelow(at[0], path[1]) /\ at[2] = IndexBelow(at[1], path[2])
        /\ at[3] = IndexBelow(at[2], path[3])
    BY ONLY <2>1, <2>2
  <2>4. at[3] = AtPlace(Validator, index)
    BY ONLY <1>1, <1>2, <1>3, <2>1, <2>2, <2>3 DEF index
  <2> QED
    BY ONLY <2>1, <2>2, <2>4 DEF path, AtPlace, index
<1> QED
  BY <1>4

\* Descending lists a set in the order in which the contract uses its nodes.
LEMMA DescendingOrder ==
  ASSUME NEW h \in Seq(Nat), \A i, j \in 1 .. Len(h) : i < j => h[i] > h[j]
  PROVE  Descending(ToSet(h)) = h
<1> DEFINE n == Len(h)
           S == ToSet(h)
           B(i) == { d \in S : d > h[i] }
           f(i) == [j \in 1 .. i |-> h[j]]
<1>1. /\ n \in Nat /\ DOMAIN h = 1 .. n /\ S = { h[j] : j \in 1 .. n }
      /\ \A j \in 1 .. n : h[j] \in Nat
      /\ h = [j \in 1 .. n |-> h[j]]
  BY DEF ToSet
<1>2. \A j, k \in 1 .. n : j < k => h[j] > h[k]
  OBVIOUS
<1> HIDE DEF n, S
<1>3. \A j, k \in 1 .. n : h[j] = h[k] => j = k
  <2> SUFFICES ASSUME NEW j \in 1 .. n, NEW k \in 1 .. n, h[j] = h[k], j # k
               PROVE  FALSE
    OBVIOUS
  <2>1. j < k \/ k < j
    BY <1>1
  <2>2. h[j] > h[k] \/ h[k] > h[j]
    BY <1>2, <2>1
  <2> QED
    BY <1>1, <2>2
<1>4. ASSUME NEW m \in Nat, m <= n, NEW A, A = { h[j] : j \in 1 .. m }
      PROVE  Cardinality(A) = m
  <2> DEFINE I == 1 .. m
  <2>1. IsFiniteSet(I) /\ Cardinality(I) = m
    BY <1>4, FS_Interval
  <2>2. \A j \in I : j \in 1 .. n
    BY <1>1, <1>4
  <2>3. f(m) \in [I -> A] /\ \A j \in I : f(m)[j] = h[j]
    BY <1>4
  <2>4. f(m) \in Bijection(I, A)
    <3> HIDE DEF f, I
    <3>1. \A j, k \in I : f(m)[j] = f(m)[k] => j = k
      BY <1>3, <2>2, <2>3
    <3>2. \A a \in A : \E j \in I : f(m)[j] = a
      BY <1>4, <2>3 DEF I
    <3> QED
      BY <2>3, <3>1, <3>2 DEF Bijection, Injection, IsInjective, Surjection
  <2>5. ExistsBijection(I, A)
    BY <2>4 DEF ExistsBijection
  <2> HIDE DEF I
  <2> QED
    BY <2>1, <2>5, FS_Bijection
<1>5. Cardinality(S) = n
  BY <1>1, <1>4
<1>6. ASSUME NEW i \in 1 .. n
      PROVE  Cardinality(B(i)) = i - 1
  <2>1. i - 1 \in Nat /\ i - 1 <= n /\ i \in Nat
    BY <1>1
  <2>2. B(i) = { h[j] : j \in 1 .. i - 1 }
    <3>1. ASSUME NEW d \in B(i)
          PROVE  \E j \in 1 .. i - 1 : d = h[j]
      <4>1. PICK j \in 1 .. n : d = h[j]
        BY <1>1
      <4>2. h[j] > h[i] /\ h[j] \in Nat /\ h[i] \in Nat
        BY <1>1, <4>1
      <4>3. ~(i < j) /\ i # j
        BY <1>2, <4>2
      <4> QED
        BY <1>1, <4>1, <4>3
    <3>2. ASSUME NEW j \in 1 .. i - 1
          PROVE  h[j] \in B(i)
      <4>1. j \in 1 .. n /\ j < i
        BY <1>1
      <4> QED
        BY <1>1, <1>2, <4>1
    <3> HIDE DEF B
    <3> QED
      BY <3>1, <3>2 DEF B
  <2> HIDE DEF B
  <2> QED
    BY <1>4, <2>1, <2>2
<1>7. ASSUME NEW i \in 1 .. n
      PROVE  (CHOOSE k \in S : Cardinality({ j \in S : j > k }) = i - 1) = h[i]
  <2> DEFINE Larger(k) == Cardinality({ j \in S : j > k })
  <2>1. h[i] \in S /\ Larger(h[i]) = i - 1
    BY <1>1, <1>6
  <2>2. ASSUME NEW k \in S, Larger(k) = i - 1
        PROVE  k = h[i]
    <3>1. PICK j \in 1 .. n : k = h[j]
      BY <1>1
    <3>2. j - 1 = i - 1
      BY <1>6, <2>2, <3>1
    <3> QED
      BY <1>1, <3>1, <3>2
  <2> HIDE DEF Larger
  <2>3. (CHOOSE k \in S : Larger(k) = i - 1) = h[i]
    BY <2>1, <2>2
  <2> QED
    BY <2>3 DEF Larger
<1>8. Descending(S) = [i \in 1 .. n |-> h[i]]
  BY <1>5, <1>7 DEF Descending
<1> QED
  BY <1>1, <1>8 DEF S

-----------------------------------------------------------------------------
(* Answers of a beacon node.                                               *)

\* What a value of a type with parts is, what it is served as, and what becomes
\* of an answer, all made of the same of its parts.
LEMMA ContainerFits ==
  ASSUME NEW type, type.kind = "container", NestsIn(type, 6), NEW v
  PROVE  Fits(type, v) <=> /\ v = [name \in Names(type) |-> v[name]]
                           /\ \A name \in Names(type) : Fits(FieldType(type, name), v[name])
<1> DEFINE x == <<type, v>>
           inside == [i \in DOMAIN InsideValue(x) |-> Forms!Fold(InsideValue(x)[i])]
<1>1. Fits(type, v) = FitsFrom(x, inside)
  BY ValueEquations
<1>2. InsideValue(x) = [name \in Names(type) |-> <<FieldType(type, name), v[name]>>]
  BY DEF InsideValue
<1>3. /\ DOMAIN inside = Names(type)
      /\ \A name \in Names(type) : inside[name] = Fits(FieldType(type, name), v[name])
  BY <1>2 DEF Fits
<1> HIDE DEF inside
<1>4. FitsFrom(x, inside)
        <=> (\A i \in DOMAIN inside : inside[i]) /\ v = [name \in Names(type) |-> v[name]]
  BY DEF FitsFrom
<1> QED
  BY <1>1, <1>3, <1>4

\* A struct is served as an object, with its fields as members.
LEMMA ContainerServed ==
  ASSUME NEW type, type.kind = "container", NestsIn(type, 6), NEW v
  PROVE  /\ Served(type, v).kind = "object"
         /\ Served(type, v).members = [name \in Names(type) |-> Served(FieldType(type, name), v[name])]
<1> DEFINE x == <<type, v>>
           inside == [i \in DOMAIN InsideValue(x) |-> Answers!Fold(InsideValue(x)[i])]
<1>1. Served(type, v) = ServedFrom(x, inside)
  BY ValueEquations
<1>2. InsideValue(x) = [name \in Names(type) |-> <<FieldType(type, name), v[name]>>]
  BY DEF InsideValue
<1>3. inside = [name \in Names(type) |-> Served(FieldType(type, name), v[name])]
  BY <1>2 DEF Served
<1> HIDE DEF inside
<1>4. ServedFrom(x, inside) = [kind |-> "object", members |-> inside]
  BY DEF ServedFrom
<1> QED
  BY <1>1, <1>3, <1>4

\* An object converts to a struct if the member of each field converts.
LEMMA ContainerConverts ==
  ASSUME NEW type, type.kind = "container", NestsIn(type, 6), NEW json
  PROVE  /\ Converts(type, json)
              <=> \A name \in Names(type) : Converts(FieldType(type, name), Member(json, name))
         /\ Converted(type, json)
              = [name \in Names(type) |-> Converted(FieldType(type, name), Member(json, name))]
<1> DEFINE x == <<type, json>>
           inside == [i \in DOMAIN InsideJson(x) |-> Conversions!Fold(InsideJson(x)[i])]
           results == [i \in DOMAIN InsideJson(x) |-> Results!Fold(InsideJson(x)[i])]
<1>1. Converts(type, json) = ConvertsFrom(x, inside) /\ Converted(type, json) = ConvertedFrom(x, results)
  BY JsonEquations
<1>2. InsideJson(x) = [name \in Names(type) |-> <<FieldType(type, name), Member(json, name)>>]
  BY DEF InsideJson
<1>3. inside = [name \in Names(type) |-> Converts(FieldType(type, name), Member(json, name))]
  BY <1>2 DEF Converts
<1>4. results = [name \in Names(type) |-> Converted(FieldType(type, name), Member(json, name))]
  BY <1>2 DEF Converted
<1> HIDE DEF inside, results
<1>5. ConvertsFrom(x, inside) <=> \A i \in DOMAIN inside : inside[i]
  BY DEF ConvertsFrom
<1>6. ConvertedFrom(x, results) = results
  BY DEF ConvertedFrom
<1> QED
  BY <1>1, <1>3, <1>4, <1>5, <1>6

\* The items of a list or vector are of its type, and not too many.
LEMMA ListFits ==
  ASSUME NEW type, type.kind \in {"vector", "list"}, NestsIn(type, 6), NEW v, Fits(type, v)
  PROVE  /\ v = [i \in DOMAIN v |-> v[i]]
         /\ \A i \in DOMAIN v : Fits(type.element, v[i])
         /\ type.kind = "list" => DOMAIN v = 1 .. Len(v) /\ Len(v) \in Nat /\ AtMost(Len(v), type.limit)
<1> DEFINE x == <<type, v>>
           inside == [i \in DOMAIN InsideValue(x) |-> Forms!Fold(InsideValue(x)[i])]
<1>1. FitsFrom(x, inside)
  BY ValueEquations
<1>2. InsideValue(x) = [i \in DOMAIN v |-> <<type.element, v[i]>>]
  BY DEF InsideValue
<1>3. DOMAIN inside = DOMAIN v /\ \A i \in DOMAIN v : inside[i] = Fits(type.element, v[i])
  BY <1>2 DEF Fits
<1> HIDE DEF inside
<1>4. /\ \A i \in DOMAIN inside : inside[i]
      /\ type.kind = "vector" => v = [i \in DOMAIN v |-> v[i]]
      /\ type.kind = "list" => v = [i \in 1 .. Len(v) |-> v[i]] /\ Len(v) \in Nat /\ AtMost(Len(v), type.limit)
  BY <1>1 DEF FitsFrom
<1>5. type.kind = "list" => DOMAIN v = 1 .. Len(v)
  BY <1>4
<1> QED
  BY <1>3, <1>4, <1>5

\* A list or a vector is served as an array of its items.
LEMMA ListServed ==
  ASSUME NEW type, type.kind \in {"vector", "list"}, NestsIn(type, 6), NEW v
  PROVE  /\ Served(type, v).kind = "array"
         /\ Served(type, v).items = [i \in DOMAIN v |-> Served(type.element, v[i])]
         /\ Served(type, v).length = IF type.kind = "vector" THEN type.length ELSE Len(v)
<1> DEFINE x == <<type, v>>
           inside == [i \in DOMAIN InsideValue(x) |-> Answers!Fold(InsideValue(x)[i])]
<1>1. Served(type, v) = ServedFrom(x, inside)
  BY ValueEquations
<1>2. InsideValue(x) = [i \in DOMAIN v |-> <<type.element, v[i]>>]
  BY DEF InsideValue
<1>3. inside = [i \in DOMAIN v |-> Served(type.element, v[i])]
  BY <1>2 DEF Served
<1> HIDE DEF inside
<1>4. ServedFrom(x, inside)
        = [ kind |-> "array", items |-> inside,
            length |-> IF type.kind = "vector" THEN type.length ELSE Len(v) ]
  BY DEF ServedFrom
<1> QED
  BY <1>1, <1>3, <1>4

\* An array converts if each item does and there are not too many.
LEMMA ListConverts ==
  ASSUME NEW type, type.kind \in {"vector", "list"}, NestsIn(type, 6), NEW json
  PROVE  /\ Converts(type, json) => json.kind = "array"
         /\ json.kind = "array" =>
              /\ Converts(type, json)
                   <=> /\ ItemsFit(type, json.length)
                       /\ \A i \in DOMAIN json.items : Converts(type.element, json.items[i])
              /\ Converted(type, json)
                   = [i \in DOMAIN json.items |-> Converted(type.element, json.items[i])]
<1> DEFINE x == <<type, json>>
           inside == [i \in DOMAIN InsideJson(x) |-> Conversions!Fold(InsideJson(x)[i])]
           results == [i \in DOMAIN InsideJson(x) |-> Results!Fold(InsideJson(x)[i])]
<1>1. Converts(type, json) = ConvertsFrom(x, inside) /\ Converted(type, json) = ConvertedFrom(x, results)
  BY JsonEquations
<1>2. json.kind = "array" =>
        InsideJson(x) = [i \in DOMAIN json.items |-> <<type.element, json.items[i]>>]
  BY DEF InsideJson
<1>3. json.kind = "array" =>
        inside = [i \in DOMAIN json.items |-> Converts(type.element, json.items[i])]
  BY <1>2 DEF Converts
<1>4. json.kind = "array" =>
        results = [i \in DOMAIN json.items |-> Converted(type.element, json.items[i])]
  BY <1>2 DEF Converted
<1> HIDE DEF inside, results
<1>5. ConvertsFrom(x, inside)
        <=> json.kind = "array" /\ ItemsFit(type, json.length) /\ \A i \in DOMAIN inside : inside[i]
  BY DEF ConvertsFrom
<1>6. ConvertedFrom(x, results) = results
  BY DEF ConvertedFrom
<1> QED
  BY <1>1, <1>3, <1>4, <1>5, <1>6

\* What has no parts comes back as it is, and is not null.
LEMMA BasicReturns ==
  ASSUME NEW type, Basic(type), NEW v
  PROVE  /\ Fits(type, v) => Converts(type, Served(type, v)) /\ Converted(type, Served(type, v)) = v
         /\ ~Converts(type, Null)
<1>0. NestsIn(type, 6)
  BY BasicNests, NestsInMore, 0 \in Nat, 6 \in Nat, 0 <= 6
<1> DEFINE json == Served(type, v)
<1>1. PICK inside : Served(type, v) = ServedFrom(<<type, v>>, inside)
  BY <1>0, ValueEquations
<1>2. PICK forms : Fits(type, v) = FitsFrom(<<type, v>>, forms)
  BY <1>0, ValueEquations
<1>3. ASSUME NEW j
      PROVE  \E converts, results : Converts(type, j) = ConvertsFrom(<<type, j>>, converts)
                                    /\ Converted(type, j) = ConvertedFrom(<<type, j>>, results)
  BY <1>0, JsonEquations
<1>4. PICK converts, results : Converts(type, json) = ConvertsFrom(<<type, json>>, converts)
                               /\ Converted(type, json) = ConvertedFrom(<<type, json>>, results)
  BY <1>3
<1>5. PICK nulls, ignored : Converts(type, Null) = ConvertsFrom(<<type, Null>>, nulls)
                            /\ Converted(type, Null) = ConvertedFrom(<<type, Null>>, ignored)
  BY <1>3
<1> HIDE DEF json
<1>6. json = ServedFrom(<<type, v>>, inside)
  BY <1>1 DEF json
<1>7. ~Converts(type, Null)
  BY <1>5 DEF ConvertsFrom, Null, Basic
<1>8. ASSUME Fits(type, v)
      PROVE  Converts(type, json) /\ Converted(type, json) = v
  <2>1. CASE type.kind = "unsigned"
    BY <1>2, <1>4, <1>6, <1>8, <2>1 DEF FitsFrom, ServedFrom, ConvertsFrom, ConvertedFrom
  <2>2. CASE type.kind = "boolean"
    BY <1>2, <1>4, <1>6, <1>8, <2>2 DEF FitsFrom, ServedFrom, ConvertsFrom, ConvertedFrom
  <2>3. CASE type.kind = "byteVector"
    BY <1>2, <1>4, <1>6, <1>8, <2>3 DEF FitsFrom, ServedFrom, ConvertsFrom, ConvertedFrom
  <2>4. CASE type.kind = "byteList"
    <3>1. /\ v = [length |-> v.length, bytes |-> v.bytes]
          /\ v.length >= type.least /\ AtMost(v.length, type.limit)
      BY <1>2, <1>8, <2>4 DEF FitsFrom
    <3>2. json = [kind |-> "hex", length |-> v.length, bytes |-> v.bytes]
      BY <1>6, <2>4 DEF ServedFrom
    <3>3. Converts(type, json)
            <=> json.kind = "hex" /\ json.length >= type.least /\ AtMost(json.length, type.limit)
      BY <1>4, <2>4 DEF ConvertsFrom
    <3>4. Converted(type, json) = [length |-> json.length, bytes |-> json.bytes]
      BY <1>4, <2>4 DEF ConvertedFrom
    <3> QED
      BY <3>1, <3>2, <3>3, <3>4
  <2> QED
    BY <2>1, <2>2, <2>3, <2>4 DEF Basic
<1> QED
  BY <1>7, <1>8 DEF json

\* Every value of a type is served in JSON that is converted to the same value.
Returns(type) ==
  \A v : Fits(type, v) => Converts(type, Served(type, v)) /\ Converted(type, Served(type, v)) = v

\* A struct returns from JSON if each of its fields does.
LEMMA ContainerReturns ==
  ASSUME NEW type, type.kind = "container", NestsIn(type, 6),
         \A name \in Names(type) : Returns(FieldType(type, name))
  PROVE  Returns(type)
<1> SUFFICES ASSUME NEW v, Fits(type, v)
             PROVE  Converts(type, Served(type, v)) /\ Converted(type, Served(type, v)) = v
  BY DEF Returns
<1> DEFINE json == Served(type, v)
<1>1. /\ v = [name \in Names(type) |-> v[name]]
      /\ \A name \in Names(type) : Fits(FieldType(type, name), v[name])
  BY ContainerFits
<1>2. /\ json.kind = "object"
      /\ json.members = [name \in Names(type) |-> Served(FieldType(type, name), v[name])]
  BY ContainerServed
<1> HIDE DEF json
<1>3. \A name \in Names(type) : Member(json, name) = Served(FieldType(type, name), v[name])
  BY <1>2 DEF Member
<1>4. \A name \in Names(type) :
        /\ Converts(FieldType(type, name), Member(json, name))
        /\ Converted(FieldType(type, name), Member(json, name)) = v[name]
  BY <1>1, <1>3 DEF Returns
<1>5. /\ Converts(type, json)
           <=> \A name \in Names(type) : Converts(FieldType(type, name), Member(json, name))
      /\ Converted(type, json)
           = [name \in Names(type) |-> Converted(FieldType(type, name), Member(json, name))]
  BY ContainerConverts
<1>6. Converted(type, json) = [name \in Names(type) |-> v[name]]
  BY <1>4, <1>5
<1> QED
  BY <1>1, <1>4, <1>5, <1>6 DEF json

\* A list returns from JSON if its items do.
LEMMA ListReturns ==
  ASSUME NEW type, type.kind \in {"vector", "list"}, NestsIn(type, 6),
         NEW v, Fits(type, v), v # <<>> => Returns(type.element)
  PROVE  Converts(type, Served(type, v)) /\ Converted(type, Served(type, v)) = v
<1> DEFINE json == Served(type, v)
<1>1. /\ v = [i \in DOMAIN v |-> v[i]]
      /\ \A i \in DOMAIN v : Fits(type.element, v[i])
      /\ type.kind = "list" => DOMAIN v = 1 .. Len(v) /\ Len(v) \in Nat /\ AtMost(Len(v), type.limit)
  BY ListFits
<1>2. /\ json.kind = "array"
      /\ json.items = [i \in DOMAIN v |-> Served(type.element, v[i])]
      /\ json.length = IF type.kind = "vector" THEN type.length ELSE Len(v)
  BY ListServed
<1> HIDE DEF json
<1>3. /\ Converts(type, json)
           <=> /\ ItemsFit(type, json.length)
               /\ \A i \in DOMAIN json.items : Converts(type.element, json.items[i])
      /\ Converted(type, json)
           = [i \in DOMAIN json.items |-> Converted(type.element, json.items[i])]
  BY <1>2, ListConverts
<1>4. \A i \in DOMAIN v :
        /\ Converts(type.element, json.items[i])
        /\ Converted(type.element, json.items[i]) = v[i]
  <2> SUFFICES ASSUME NEW i \in DOMAIN v
               PROVE  /\ Converts(type.element, json.items[i])
                      /\ Converted(type.element, json.items[i]) = v[i]
    OBVIOUS
  <2>1. v # <<>>
    OBVIOUS
  <2>2. json.items[i] = Served(type.element, v[i])
    BY <1>2
  <2> QED
    BY <1>1, <2>1, <2>2 DEF Returns
<1>5. ItemsFit(type, json.length)
  BY <1>1, <1>2 DEF ItemsFit
<1>6. Converted(type, json) = [i \in DOMAIN v |-> v[i]]
  BY <1>2, <1>3, <1>4
<1> QED
  BY <1>1, <1>2, <1>3, <1>4, <1>5, <1>6 DEF json

\* Only the kinds that are listed have values.
LEMMA FitsKinds ==
  ASSUME NEW type, NestsIn(type, 6), NEW v, Fits(type, v)
  PROVE  Basic(type) \/ type.kind \in {"vector", "list"} \/ type.kind = "container"
<1>1. PICK forms : Fits(type, v) = FitsFrom(<<type, v>>, forms)
  BY ValueEquations
<1> QED
  BY <1>1 DEF FitsFrom, Basic

\* from_json and from_string neither refuse nor change a value that a node serves,
\* whatever is in it, for every type that is nested no deeper than blocks are
\* (types.rs:56, beacon_block.rs:402).
LEMMA ServedReturns == \A type : NestsIn(type, 6) => Returns(type)
<1> DEFINE S == { n \in Nat : n <= 6 => \A type : NestsIn(type, n) => Returns(type) }
<1>1. ASSUME NEW n \in Nat, n <= 6, NEW type, NestsIn(type, n),
             n = 0 \/ \A t : NestsIn(t, n - 1) => Returns(t)
      PROVE  Returns(type)
  <2>1. NestsIn(type, 6)
    BY <1>1, NestsInMore, 6 \in Nat
  <2>2. n # 0 => n - 1 \in Nat /\ (n - 1) + 1 = n
    BY <1>1
  <2>3. CASE Basic(type)
    BY <2>3, BasicReturns DEF Returns
  <2>4. CASE type.kind = "container"
    <3>1. ASSUME NEW name \in Names(type)
          PROVE  Returns(FieldType(type, name))
      <4>1. n # 0
        <5> SUFFICES ASSUME n = 0 PROVE FALSE
          OBVIOUS
        <5>1. RootsAre!Nests(<<type, 0>>, 0)
          BY <1>1 DEF NestsIn
        <5>2. DOMAIN InsideValue(<<type, 0>>) = {}
          BY <5>1, RootsAre!NestsNothing
        <5> QED
          BY <2>4, <5>2 DEF InsideValue
      <4>2. NestsIn(type, (n - 1) + 1)
        BY <1>1, <2>2, <4>1
      <4>3. NestsIn(FieldType(type, name), n - 1)
        BY ONLY <2>2, <2>4, <4>1, <4>2, <3>1, ContainerNests
      <4> QED
        BY <1>1, <4>1, <4>3
    <3> QED
      BY <2>1, <2>4, <3>1, ContainerReturns
  <2>5. CASE type.kind \in {"vector", "list"}
    <3>1. ASSUME NEW v, Fits(type, v), v # <<>>
          PROVE  Returns(type.element)
      <4>1. n # 0
        <5> SUFFICES ASSUME n = 0 PROVE FALSE
          OBVIOUS
        <5>1. RootsAre!Nests(<<type, <<0>>>>, 0)
          BY <1>1 DEF NestsIn
        <5>2. DOMAIN InsideValue(<<type, <<0>>>>) = {}
          BY <5>1, RootsAre!NestsNothing
        <5>3. InsideValue(<<type, <<0>>>>) = [i \in DOMAIN <<0>> |-> <<type.element, <<0>>[i]>>]
          BY <2>5 DEF InsideValue
        <5>4. 1 \in DOMAIN <<0>>
          OBVIOUS
        <5> QED
          BY <5>2, <5>3, <5>4
      <4>2. NestsIn(type, (n - 1) + 1)
        BY <1>1, <2>2, <4>1
      <4>3. NestsIn(type.element, n - 1)
        BY ONLY <2>2, <2>5, <4>1, <4>2, ListNests
      <4> QED
        BY <1>1, <4>1, <4>3
    <3> QED
      BY <2>1, <2>5, <3>1, ListReturns DEF Returns
  <2>6. CASE ~(Basic(type) \/ type.kind \in {"vector", "list"} \/ type.kind = "container")
    BY <2>1, <2>6, FitsKinds DEF Returns
  <2> QED
    BY <2>3, <2>4, <2>5, <2>6
<1>2. 0 \in S
  BY <1>1
<1>3. ASSUME NEW n \in Nat, n \in S
      PROVE  n + 1 \in S
  <2> SUFFICES ASSUME n + 1 <= 6, NEW type, NestsIn(type, n + 1)
               PROVE  Returns(type)
    OBVIOUS
  <2>1. n + 1 \in Nat /\ (n + 1) - 1 = n /\ n <= 6
    OBVIOUS
  <2>2. \A t : NestsIn(t, (n + 1) - 1) => Returns(t)
    BY <1>3, <2>1
  <2> QED
    BY <1>1, <2>1, <2>2
<1>4. Nat \subseteq S
  <2> HIDE DEF S
  <2> QED
    BY <1>2, <1>3, Induction
<1> QED
  BY <1>4, 6 \in Nat, 6 <= 6

=============================================================================
