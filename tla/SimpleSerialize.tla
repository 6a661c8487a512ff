-------------------------- MODULE SimpleSerialize --------------------------
(***************************************************************************)
(* The types of SSZ that the Rust crates derive from their structs, the    *)
(* conversion of JSON into them, and what the library ssz_rs computes from *)
(* them: hash tree roots, generalized indices and multi-proofs.            *)
(*                                                                         *)
(* A type is a record.  A value of it is a number, a bool, a sequence or a *)
(* record of the fields; 32 bytes are a chunk of a tree already, so that a *)
(* root can be the value of a field.  The data of lists, of vectors and of *)
(* long byte strings is one node: no path leads into it but those of       *)
(* GeneralizedIndex.  A vector is the sequence of the items it repeats to  *)
(* its length.  Limits may exceed TLC's numbers and are words.             *)
(***************************************************************************)
EXTENDS SSZ

Unsigned(bits) == [kind |-> "unsigned", bits |-> bits]

Boolean == [kind |-> "boolean"]

ByteVector(n) == [kind |-> "byteVector", length |-> n]

ByteList(limit) == [kind |-> "byteList", least |-> 0, limit |-> limit]

\* Bits are read from the bytes they are packed into; a list of bits ends with
\* a one bit more, and so has a first byte.
Bitvector(n) == ByteVector((n + 7) \div 8)

Bitlist(limit) == [kind |-> "byteList", least |-> 1, limit |-> {0} \cup Shr(3, limit)]

Vector(element, n) == [kind |-> "vector", element |-> element, length |-> n]

List(element, limit) == [kind |-> "list", element |-> element, limit |-> limit]

\* A struct: the sequence of its fields, each a name and a type.
Container(fields) == [kind |-> "container", fields |-> fields]

Names(type) == { type.fields[i][1] : i \in DOMAIN type.fields }

FieldNumber(type, name) == CHOOSE i \in DOMAIN type.fields : type.fields[i][1] = name

FieldType(type, name) == type.fields[FieldNumber(type, name)][2]

-----------------------------------------------------------------------------
(* Values.  What goes through a value part by part is a recursion over     *)
(* pairs of a type and a value.                                            *)

\* The parts of a value with their types.
InsideValue(x) ==
  LET type == x[1]
      v    == x[2]
  IN  CASE type.kind = "container"         -> [n \in Names(type) |-> <<FieldType(type, n), v[n]>>]
        [] type.kind \in {"vector", "list"} -> [i \in DOMAIN v |-> <<type.element, v[i]>>]
        [] OTHER                            -> <<>>

\* As many as a limit allows, which may be a word too long for a number.
AtMost(n, limit) == Max(limit) > 30 \/ n <= Value(limit)

\* The values of a type.
FitsFrom(x, inside) ==
  LET type == x[1]
      v    == x[2]
  IN  /\ \A i \in DOMAIN inside : inside[i]
      /\ CASE type.kind = "unsigned"   -> v \in Nat /\ (type.bits > 30 \/ v < 2^type.bits)
           [] type.kind = "boolean"    -> v \in BOOLEAN
           [] type.kind = "byteVector" -> type.length = 32 => v # Reverted
           [] type.kind = "byteList"   ->
                /\ v = [length |-> v.length, bytes |-> v.bytes]
                /\ v.length \in Nat /\ v.length >= type.least /\ AtMost(v.length, type.limit)
           [] type.kind = "vector"     -> v = [i \in DOMAIN v |-> v[i]]
           [] type.kind = "list"       ->
                v = [i \in 1 .. Len(v) |-> v[i]] /\ Len(v) \in Nat /\ AtMost(Len(v), type.limit)
           [] type.kind = "container"  -> v = [n \in Names(type) |-> v[n]]
           [] OTHER                   -> FALSE

Forms == INSTANCE Nesting WITH Inside <- InsideValue, Join <- FitsFrom

Fits(type, v) == Forms!Fold(<<type, v>>)

-----------------------------------------------------------------------------
(* JSON.  What is not there reads as null.                                 *)

Null == [kind |-> "null"]

Member(json, name) ==
  IF json.kind = "object" /\ name \in DOMAIN json.members THEN json.members[name] ELSE Null

\* The parts that from_json asks for: of an object the fields it knows, whatever
\* else is in it.
InsideJson(x) ==
  LET type == x[1]
      json == x[2]
  IN  CASE type.kind = "container" ->
             [n \in Names(type) |-> <<FieldType(type, n), Member(json, n)>>]
        [] type.kind \in {"vector", "list"} /\ json.kind = "array" ->
             [i \in DOMAIN json.items |-> <<type.element, json.items[i]>>]
        [] OTHER -> <<>>

\* Mutant: a list has to be shorter than its limit.
ItemsFitBelow(type, length) ==
  IF type.kind = "vector" THEN length = type.length
  ELSE Max(type.limit) > 30 \/ length < Value(type.limit)

ItemsFit(type, length) ==
  IF type.kind = "vector" THEN length = type.length ELSE AtMost(length, type.limit)

ConvertsFrom(x, inside) ==
  LET type == x[1]
      json == x[2]
  IN  CASE type.kind = "unsigned"   ->
             json.kind = "decimal" /\ (type.bits > 30 \/ json.number < 2^type.bits)
        [] type.kind = "boolean"    -> json.kind = "bool"
        [] type.kind = "byteVector" -> json.kind = "hex" /\ json.length = type.length
        [] type.kind = "byteList"   ->
             json.kind = "hex" /\ json.length >= type.least /\ AtMost(json.length, type.limit)
        [] type.kind \in {"vector", "list"} ->
             /\ json.kind = "array" /\ ItemsFit(type, json.length)
             /\ \A i \in DOMAIN inside : inside[i]
        [] type.kind = "container"  -> \A n \in DOMAIN inside : inside[n]

ConvertedFrom(x, inside) ==
  LET type == x[1]
      json == x[2]
  IN  CASE type.kind = "unsigned"   -> json.number
        [] type.kind = "boolean"    -> json.bool
        [] type.kind = "byteVector" -> json.bytes
        [] type.kind = "byteList"   -> [length |-> json.length, bytes |-> json.bytes]
        [] OTHER                    -> inside

ServedFrom(x, inside) ==
  LET type == x[1]
      v    == x[2]
  IN  CASE type.kind = "unsigned"   -> [kind |-> "decimal", number |-> v]
        [] type.kind = "boolean"    -> [kind |-> "bool", bool |-> v]
        [] type.kind = "byteVector" -> [kind |-> "hex", length |-> type.length, bytes |-> v]
        [] type.kind = "byteList"   -> [kind |-> "hex", length |-> v.length, bytes |-> v.bytes]
        [] type.kind \in {"vector", "list"} ->
             [ kind   |-> "array", items |-> inside,
               length |-> IF type.kind = "vector" THEN type.length ELSE Len(v) ]
        [] type.kind = "container"  -> [kind |-> "object", members |-> inside]

Conversions == INSTANCE Nesting WITH Inside <- InsideJson, Join <- ConvertsFrom

Results == INSTANCE Nesting WITH Inside <- InsideJson, Join <- ConvertedFrom

Answers == INSTANCE Nesting WITH Inside <- InsideValue, Join <- ServedFrom

\* from_json and from_string return: an unwrap on the way panics otherwise.
Converts(type, json) == Conversions!Fold(<<type, json>>)

Converted(type, json) == Results!Fold(<<type, json>>)

\* The JSON in which a beacon node serves a value.
Served(type, v) == Answers!Fold(<<type, v>>)

-----------------------------------------------------------------------------
(* Trees.                                                                  *)

\* The depth of the smallest tree that holds so many leaves.
DepthFor(leaves) == CHOOSE d \in 0 .. 6 : 2^d < 2 * leaves /\ leaves <= 2^d

\* That tree above n chunks, filled up with zeros: a function from its nodes.
Merkleized(n, chunks) ==
  LET start == 2^DepthFor(n)
      node[k \in 1 .. 2 * start - 1] ==
        IF k < start THEN Hash(node[2 * k], node[2 * k + 1])
        ELSE IF k - start < n THEN chunks[k - start + 1] ELSE ZERO
  IN  node

BytesRoot(length, v) ==
  CASE length = 32 -> v
    [] length = 20 -> Address(v)
    [] length = 48 -> PubkeyRoot(v)
    [] OTHER       -> Chunk("bytes", <<length, v>>)

\* The leaves of the tree of a container are the roots of its fields.  The tree of
\* the data of a list is as high as its limit asks for: limits are powers of two.
RootFrom(x, inside) ==
  LET type == x[1]
      v    == x[2]
  IN  CASE type.kind = "unsigned"   -> Uint(v)
        [] type.kind = "boolean"    -> Bool(v)
        [] type.kind = "byteVector" -> BytesRoot(type.length, v)
        [] type.kind = "byteList"   -> Hash(Chunk("data", <<Max(type.limit), v.bytes>>), Uint(v.length))
        [] type.kind = "vector"     -> Chunk("data", inside)
        [] type.kind = "list"       -> Hash(Chunk("data", <<Max(type.limit), inside>>), Uint(Len(v)))
        [] type.kind = "container"  ->
             Merkleized(Len(type.fields),
                        [i \in DOMAIN type.fields |-> inside[type.fields[i][1]]])[1]

Roots == INSTANCE Nesting WITH Inside <- InsideValue, Join <- RootFrom

TreeRoot(type, v) == Roots!Fold(<<type, v>>)

FieldRoots(type, v) ==
  [ i \in DOMAIN type.fields |->
      LET name == type.fields[i][1] IN TreeRoot(FieldType(type, name), v[name]) ]

\* Where the nodes of the tree of a container are, which goes on below its fields:
\* the innermost container around a node, and the node in the tree of that one.
Place(type, v) ==
  LET at[k \in Nat] ==
        IF k <= 1 THEN [type |-> type, value |-> v, node |-> 1]
        ELSE LET up    == at[k \div 2]
                 start == 2^DepthFor(Len(up.type.fields))
                 field == up.type.fields[up.node - start + 1]
             IN  IF up.node < start
                 THEN [type |-> up.type, value |-> up.value, node |-> (2 * up.node) + (k % 2)]
                 ELSE [type |-> field[2], value |-> up.value[field[1]], node |-> 2 + (k % 2)]
  IN  at

NodeAt(type, v, k) ==
  LET place == Place(type, v)[k]
  IN  Merkleized(Len(place.type.fields), FieldRoots(place.type, place.value))[place.node]

\* Node b of the tree below node a, both as words.
Below(a, b) == { i + Max(b) : i \in a } \cup (b \ {Max(b)})

\* A path names fields, and items of lists by words; below a list are its data
\* and its length.
GeneralizedIndex(type, path) ==
  LET at[n \in 0 .. Len(path)] ==
        IF n = 0 THEN [type |-> type, index |-> {0}]
        ELSE LET up == at[n - 1]
                 i  == FieldNumber(up.type, path[n])
             IN  IF up.type.kind = "container"
                 THEN [ type  |-> up.type.fields[i][2],
                        index |-> Below(up.index, Bits[2^DepthFor(Len(up.type.fields)) + i - 1]) ]
                 ELSE [ type  |-> up.type.element,
                        index |-> Below(up.index, {Max(up.type.limit) + 1} \cup path[n]) ]
  IN  at[Len(path)].index

Descending(S) ==
  [i \in 1 .. Cardinality(S) |-> CHOOSE k \in S : Cardinality({ j \in S : j > k }) = i - 1]

\* The nodes at the ends of paths, and the hashes from which and them the root
\* can be computed.
MultiProve(type, v, paths) ==
  LET indices == [i \in DOMAIN paths |-> Value(GeneralizedIndex(type, paths[i]))]
      helpers == Descending(MissingSiblings(ToSet(indices)))
  IN  [ indices |-> indices,
        branch  |-> [i \in DOMAIN helpers |-> NodeAt(type, v, helpers[i])] ]

=============================================================================
