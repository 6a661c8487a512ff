------------------------------- MODULE Arrays -------------------------------
(***************************************************************************)
(* The libraries Arrays and HashMap: arrays of numbers in memory, with     *)
(* the quicksort that works in place, and the map in transient storage.    *)
(***************************************************************************)
EXTENDS Integers, Sequences, SequencesExt

Concat(arr1, arr2) == arr1 \o arr2

Push(arr, item) == Append(arr, item)

Pop(arr) == Front(arr)

\* Mutant: the search for a duplicate starts at the item itself.
DifferenceOffByOne(arr1, arr2) ==
  FoldLeftDomain(LAMBDA tmp, i :
    IF \/ arr1[i] \in ToSet(arr2)
       \/ \E y \in i .. Len(arr1) : arr1[y] = arr1[i]
    THEN tmp ELSE Push(tmp, arr1[i]),
    <<>>, arr1)

\* Keeps the last occurrence of every item of arr1 that is not in arr2.
Difference(arr1, arr2) ==
  LET tmp[i \in 0 .. Len(arr1)] ==
        IF i = 0 THEN <<>>
        ELSE IF \/ arr1[i] \in ToSet(arr2)
                \/ \E y \in i + 1 .. Len(arr1) : arr1[y] = arr1[i]
             THEN tmp[i - 1] ELSE Push(tmp[i - 1], arr1[i])
  IN  tmp[Len(arr1)]

\* No item of an array is repeated.
Distinct(s) == \A i, j \in DOMAIN s : s[i] = s[j] => i = j

Swap(arr, i, j) == [arr EXCEPT ![i] = arr[j], ![j] = arr[i]]

\* _reverse, the only order the arrays are sorted by.
Precedes(x, y) == x > y

\* Mutant: the pivot stays where it was.
PartitionedKeepsPivot(arr, begin, end) ==
  FoldLeft(LAMBDA s, it :
             IF Precedes(s.arr[it], arr[begin])
             THEN [arr |-> Swap(s.arr, s.pos + 1, it), pos |-> s.pos + 1]
             ELSE s,
           [arr |-> arr, pos |-> begin],
           [n \in 1 .. end - begin - 1 |-> begin + n])

\* The body of the loop of _quickSort: an item that precedes the pivot moves to
\* the left part, which ends at `pos'.
Scanned(s, it, pivot) ==
  IF Precedes(s.arr[it], pivot)
  THEN [arr |-> Swap(s.arr, s.pos + 1, it), pos |-> s.pos + 1]
  ELSE s

\* The loop over the segment begin .. end - 1, whose first item is the pivot and
\* ends up between the parts, at `pos'.
Partitioned(arr, begin, end) ==
  LET loop[n \in 0 .. end - begin - 1] ==
        IF n = 0 THEN [arr |-> arr, pos |-> begin]
        ELSE Scanned(loop[n - 1], begin + n, arr[begin])
      last == loop[end - begin - 1]
  IN  [arr |-> Swap(last.arr, begin, last.pos), pos |-> last.pos]

\* A segment of an array: from begin to before end.
Segment ==
  { s \in [arr : Seq(Nat), begin : Nat, end : Nat] :
      1 <= s.begin /\ s.begin <= s.end /\ s.end <= Len(s.arr) + 1 }

\* _quickSort of segments of up to n + 1 items.
QuickSort[n \in Nat] ==
  [ s \in Segment |->
      IF n = 0 \/ s.end - s.begin < 2
      THEN s.arr
      ELSE LET part == Partitioned(s.arr, s.begin, s.end)
               left == QuickSort[n - 1][[arr |-> part.arr, begin |-> s.begin, end |-> part.pos]]
           IN  QuickSort[n - 1][[arr |-> left, begin |-> part.pos + 1, end |-> s.end]] ]

SortReverse(arr) == QuickSort[Len(arr)][[arr |-> arr, begin |-> 1, end |-> Len(arr) + 1]]

-----------------------------------------------------------------------------
(* HashMap: a key that was set has a value, any other key reads as zero.   *)

EmptyMap == <<>>

Set(map, key, value) ==
  [k \in DOMAIN map \cup {key} |-> IF k = key THEN value ELSE map[k]]

Get(map, key, zero) == IF key \in DOMAIN map THEN map[key] ELSE zero

HasKey(map, key) == key \in DOMAIN map

=============================================================================
