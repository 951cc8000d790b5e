------------------------ MODULE SlidingWindowProofs -------------------------
(***************************************************************************)
(* Proofs about the ring of STFBufferedReader: with any even size from 4   *)
(* on, any number of iterators, any trace and any run of skipped items,    *)
(* the items keep their numbers, an iterator that looks back less than the *)
(* window sees its item, increments and seeks miss none, and the last item *)
(* is known as such.                                                       *)
(*                                                                         *)
(* The inductive invariant speaks of the slots by their age, the distance  *)
(* behind tail_: slot p holds the item whose number is the newest one less *)
(* the age of p, from some number lo on; a sound iterator is at the slot   *)
(* of its number up to whole turns of the ring.  That a ring which has not *)
(* met the end has its tail at one of two slots is what keeps an iterator  *)
(* from reaching the newest item before the ring is filled.                *)
(*                                                                         *)
(* That a stream has ended is at_eof here and not last_item_read_, which   *)
(* stays set when a jump goes back; so the invariant is one of the indexed *)
(* reader (SpecAll) as well, wherever a jump fills the ring anew.          *)
(***************************************************************************)
EXTENDS IndexedReader, FiniteSetTheorems, WellFoundedInduction, TLAPS

\* The items up to r that are not skipped, and their number.
UpTo(r) == {s \in Unskipped : s <= r}
Num(r) == Cardinality(UpTo(r))

\* The items behind a position, up to r.
AheadUpTo(pos, r) == {s \in Ahead(pos) : s <= r}

Half == Size \div 2

\* The number of the newest item, and how many items a slot is behind it.
Last == buf[tail].index
Behind(p, t) == IF p <= t THEN t - p ELSE t - p + Size
Age(p) == Behind(p, tail)

\* x is a multiple of Size.
Multiple(x) == x % Size = 0

Stream ==
    /\ raw_read = stream_pos
    /\ num_skipped = stream_pos - Num(stream_pos)
    /\ at_eof => last_item_read
    /\ at_eof => stream_pos = length
    /\ ~only_user_mode => skipped = {}

\* The slots hold the items from number lo on.
Filled(lo) ==
    \A p \in Slots :
        /\ buf[p].index # 0 => buf[p].index = Last - Age(p) /\ lo <= Last - Age(p)
        /\ lo <= Last - Age(p) /\ Age(p) < Size - 1 => buf[p].index = Last - Age(p)

\* head_ is the oldest slot, or the trace fits into the ring.
Head(lo) == Age(head) = Size - 1 \/ (at_eof /\ buf[head].index <= lo)

\* A sound iterator is at the slot of its number, if the number is still in the
\* ring, and a ring apart from that slot if not.
Placed(i, lo) ==
    i.sound /\ ~i.end =>
        /\ i.index \in lo..Last
        /\ Multiple(Last - i.index - tail + i.loc)
        /\ i.index = Last => at_eof

Holds(lo) == Filled(lo) /\ Head(lo) /\ \A i \in Iterators : Placed(it[i], lo)

Empty ==
    /\ tail = 0
    /\ \A p \in Slots : buf[p] = ResetItem
    /\ \A i \in Iterators : it[i].sound => it[i].end

Ring ==
    /\ Last = Num(stream_pos)
    /\ \E lo \in 1..Last : Holds(lo)
    /\ at_eof \/ tail \in {Size - 1, Half - 1}

IteratorRecords == [index : Nat, loc : Slots, end : BOOLEAN, sound : BOOLEAN]

\* TypeOK but for the iterators.
WindowType ==
    /\ length \in Lengths
    /\ only_user_mode \in BOOLEAN
    /\ skipped \subseteq Items
    /\ at_eof \in BOOLEAN
    /\ stream_pos \in 0..length
    /\ raw_read \in Nat
    /\ num_skipped \in Nat
    /\ buf \in [Slots -> ItemRecords]
    /\ head \in Slots
    /\ tail \in Slots
    /\ buffered \in BOOLEAN
    /\ buffer_is_empty \in BOOLEAN
    /\ last_item_read \in BOOLEAN

Inv ==
    /\ TypeOK
    /\ Stream
    /\ NumbersCountItems
    /\ IF buffer_is_empty THEN Empty ELSE Ring
    /\ ~buffered => buffer_is_empty

-----------------------------------------------------------------------------
(* Arithmetic of the ring. *)

LEMMA SizeFacts == /\ Size \in Nat /\ Size >= 4
                   /\ Half \in Nat /\ Size = Half + Half /\ Half >= 2
BY WindowAssumption, SMT DEF Half

LEMMA Remainder ==
    ASSUME NEW x \in Int
    PROVE  /\ (x % Size) \in Slots
           /\ x \in 0..(Size - 1) => x % Size = x
           /\ x \in (0 - Size)..(0 - 1) => x % Size = x + Size
           /\ x \in Size..(2 * Size - 1) => x % Size = x - Size
BY WindowAssumption, SMT DEF Slots

LEMMA WrapDiff ==
    ASSUME NEW p \in Slots, NEW t \in Slots
    PROVE  (p - t) % Size = IF p >= t THEN p - t ELSE p - t + Size
<1> DEFINE x == p - t
<1>1. x \in Int /\ (p >= t => x \in 0..(Size - 1)) /\ (p < t => x \in (0 - Size)..(0 - 1))
    BY SizeFacts DEF Slots
<1>2. p \in Int /\ t \in Int
    BY DEF Slots
<1> HIDE DEF x
<1>3. (p >= t => x % Size = x) /\ (p < t => x % Size = x + Size)
    BY <1>1, Remainder
<1> QED
    BY <1>2, <1>3 DEF x

LEMMA WrapSum ==
    ASSUME NEW t \in Slots, NEW n \in 0..Size
    PROVE  /\ t + n < Size => (t + n) % Size = t + n
           /\ t + n >= Size => (t + n) % Size = t + n - Size
           /\ ((t + n) % Size) \in Slots
<1> DEFINE x == t + n
<1>1. x \in Int /\ (x < Size => x \in 0..(Size - 1)) /\ (x >= Size => x \in Size..(2 * Size - 1))
    BY SizeFacts DEF Slots
<1> HIDE DEF x
<1>2. (x < Size => x % Size = x) /\ (x >= Size => x % Size = x - Size) /\ (x % Size) \in Slots
    BY <1>1, Remainder
<1>3. t \in Int /\ n \in Int /\ Size \in Int
    BY SizeFacts DEF Slots
<1> QED
    BY <1>2, <1>3 DEF x

LEMMA Multiples ==
    /\ Multiple(0)
    /\ \A x \in Int : Multiple(x) => Multiple(x + Size)
    /\ \A x \in Int : Multiple(x) => Multiple(x - Size)
    /\ \A x \in Int : Multiple(x) /\ 0 - Size < x /\ x < Size => x = 0
<1>1. Multiple(0)
    BY WindowAssumption, SMT DEF Multiple
<1>2. ASSUME NEW x \in Int, Multiple(x) PROVE Multiple(x + Size)
    BY <1>2, WindowAssumption, SMT DEF Multiple
<1>3. ASSUME NEW x \in Int, Multiple(x) PROVE Multiple(x - Size)
    <2> DEFINE y == x - Size
    <2>1. y \in Int /\ x = y + Size
        BY WindowAssumption
    <2>2. PICK q \in Int : x = q * Size
        <3>1. (x \div Size) \in Int /\ x = Size * (x \div Size) + (x % Size)
            BY WindowAssumption, SMT
        <3>2. x = (x \div Size) * Size
            BY <1>3, <3>1, WindowAssumption, SMT DEF Multiple
        <3> QED
            BY <3>1, <3>2, Zenon
    <2>3. y = (q - 1) * Size
        BY <2>2, WindowAssumption, SMT
    <2>4. \A k \in Int : (k * Size) % Size = 0
        BY WindowAssumption, SMT
    <2>5. q - 1 \in Int
        OBVIOUS
    <2> QED
        BY <2>3, <2>4, <2>5, Zenon DEF Multiple
<1>4. ASSUME NEW x \in Int, Multiple(x), 0 - Size < x, x < Size PROVE x = 0
    BY <1>4, WindowAssumption, SMT DEF Multiple
<1> QED
    BY <1>1, <1>2, <1>3, <1>4

-----------------------------------------------------------------------------
(* Counting the items that are not skipped. *)

LEMMA TraceFacts ==
    ASSUME TypeOK
    PROVE  /\ length \in Nat /\ Unskipped \in SUBSET (1..length)
           /\ \A s \in Unskipped : s \in Nat /\ 1 <= s /\ s <= length
           /\ IsFiniteSet(Unskipped) /\ Cardinality(Unskipped) \in Nat
<1>1. length \in Nat
    BY WindowAssumption DEF TypeOK
<1>2. Unskipped \in SUBSET (1..length)
    BY DEF Unskipped, Items
<1>3. IsFiniteSet(1..length)
    BY <1>1, FS_Interval
<1>4. IsFiniteSet(Unskipped)
    BY <1>2, <1>3, FS_Subset
<1>5. Cardinality(Unskipped) \in Nat
    BY <1>4, FS_CardinalityType
<1>6. \A s \in 1..length : s \in Nat /\ 1 <= s /\ s <= length
    BY <1>1
<1> QED
    BY <1>1, <1>2, <1>4, <1>5, <1>6

LEMMA NumFacts ==
    ASSUME TypeOK, NEW r \in Nat
    PROVE  /\ IsFiniteSet(UpTo(r)) /\ Num(r) \in Nat /\ Num(r) <= r
           /\ length <= r => Num(r) = Cardinality(Unskipped)
<1>1. length \in Nat /\ Unskipped \in SUBSET (1..length) /\ IsFiniteSet(Unskipped)
    BY TraceFacts
<1>2. UpTo(r) \in SUBSET Unskipped
    BY DEF UpTo
<1>3. IsFiniteSet(UpTo(r))
    BY <1>1, <1>2, FS_Subset
<1>4. Num(r) \in Nat
    BY <1>3, FS_CardinalityType DEF Num
<1>5. UpTo(r) \in SUBSET (1..r)
    <2> SUFFICES ASSUME NEW s \in UpTo(r) PROVE s \in 1..r
        OBVIOUS
    <2>1. s \in Unskipped /\ s <= r
        BY DEF UpTo
    <2>2. s \in Nat /\ 1 <= s
        BY <2>1, TraceFacts
    <2> QED
        BY <2>1, <2>2
<1>6. IsFiniteSet(1..r) /\ Cardinality(1..r) = r
    BY FS_Interval
<1>7. Num(r) <= r
    BY <1>5, <1>6, FS_Subset DEF Num
<1>8. ASSUME length <= r PROVE UpTo(r) = Unskipped
    <2>1. ASSUME NEW s \in Unskipped PROVE s <= r
        <3>1. s \in Nat /\ s <= length /\ length \in Nat
            BY TraceFacts
        <3> QED
            BY <1>8, <3>1
    <2> QED
        BY <2>1, Zenon DEF UpTo
<1>9. length <= r => Num(r) = Cardinality(Unskipped)
    BY <1>8 DEF Num
<1> QED
    BY <1>3, <1>4, <1>7, <1>9

LEMMA NumStep ==
    ASSUME TypeOK, NEW r \in Nat
    PROVE  Num(r + 1) = IF r + 1 \in Unskipped THEN Num(r) + 1 ELSE Num(r)
<1>1. IsFiniteSet(UpTo(r))
    BY NumFacts
<1>2. Unskipped \in SUBSET Nat
    BY TraceFacts
<1>3. r + 1 \notin UpTo(r)
    BY DEF UpTo
<1>4. CASE r + 1 \in Unskipped
    <2>1. \A s \in Unskipped : s <= r + 1 <=> s <= r \/ s = r + 1
        BY <1>2
    <2>2. UpTo(r + 1) = UpTo(r) \cup {r + 1}
        BY <1>4, <2>1, Zenon DEF UpTo
    <2>3. Cardinality(UpTo(r + 1)) = Cardinality(UpTo(r)) + 1
        BY <1>1, <1>3, <2>2, FS_AddElement
    <2> QED
        BY <1>4, <2>3 DEF Num
<1>5. CASE r + 1 \notin Unskipped
    <2>1. \A s \in Unskipped : s <= r + 1 <=> s <= r
        <3> SUFFICES ASSUME NEW s \in Unskipped PROVE s <= r + 1 <=> s <= r
            OBVIOUS
        <3>1. s \in Nat /\ s # r + 1
            BY <1>2, <1>5
        <3> QED
            BY <3>1
    <2>2. UpTo(r + 1) = UpTo(r)
        BY <2>1, Zenon DEF UpTo
    <2> QED
        BY <1>5, <2>2 DEF Num
<1> QED
    BY <1>4, <1>5

\* The items from a position on up to another one, none of them skipped.
LEMMA NumBetween ==
    ASSUME TypeOK, NEW pos \in Nat, NEW r \in Nat, pos <= r
    PROVE  /\ Num(pos) <= Num(r)
           /\ Cardinality(AheadUpTo(pos, r)) = Num(r) - Num(pos)
<1>1. IsFiniteSet(UpTo(pos)) /\ IsFiniteSet(UpTo(r)) /\ Num(pos) \in Nat /\ Num(r) \in Nat
    BY NumFacts
<1>2. Unskipped \in SUBSET Nat
    BY TraceFacts
<1>3. /\ UpTo(r) = UpTo(pos) \cup AheadUpTo(pos, r)
      /\ UpTo(pos) \cap AheadUpTo(pos, r) = {}
      /\ AheadUpTo(pos, r) \in SUBSET UpTo(r)
    <2>1. \A s \in Unskipped : (s <= pos => s <= r) /\ (s <= pos <=> ~(s > pos))
        BY <1>2
    <2> QED
        BY <2>1, Zenon DEF UpTo, Ahead, AheadUpTo
<1>4. IsFiniteSet(AheadUpTo(pos, r))
    BY <1>1, <1>3, FS_Subset
<1>5. Cardinality(AheadUpTo(pos, r)) \in Nat
    BY <1>4, FS_CardinalityType
<1>6. Cardinality(UpTo(r)) =
          Cardinality(UpTo(pos)) + Cardinality(AheadUpTo(pos, r))
            - Cardinality(UpTo(pos) \cap AheadUpTo(pos, r))
    <2>1. Cardinality(UpTo(pos) \cup AheadUpTo(pos, r)) =
              Cardinality(UpTo(pos)) + Cardinality(AheadUpTo(pos, r))
                - Cardinality(UpTo(pos) \cap AheadUpTo(pos, r))
        BY <1>1, <1>4, FS_Union
    <2> QED
        BY <1>3, <2>1, Zenon
<1>7. Cardinality(UpTo(pos) \cap AheadUpTo(pos, r)) = 0
    BY <1>3, FS_EmptySet, Zenon
<1> QED
    BY <1>1, <1>5, <1>6, <1>7 DEF Num

LEMMA AheadFacts ==
    ASSUME TypeOK, NEW pos \in 0..length
    PROVE  /\ Cardinality(Ahead(pos)) \in Nat /\ Num(pos) \in Nat /\ pos \in Nat
           /\ Num(length) = Cardinality(Unskipped)
           /\ Num(pos) + Cardinality(Ahead(pos)) = Num(length)
<1>1. length \in Nat /\ pos \in Nat /\ pos <= length /\ Unskipped \in SUBSET (1..length)
    BY TraceFacts
<1>2. Ahead(pos) = AheadUpTo(pos, length)
    <2>1. \A s \in Unskipped : s <= length
        BY TraceFacts
    <2> QED
        BY <2>1, Zenon DEF AheadUpTo, Ahead
<1>3. Cardinality(Ahead(pos)) = Num(length) - Num(pos) /\ Num(pos) <= Num(length)
    BY <1>1, <1>2, NumBetween
<1>4. Num(length) \in Nat /\ Num(length) = Cardinality(Unskipped)
    BY <1>1, NumFacts
<1>5. Num(pos) \in Nat
    BY <1>1, NumFacts
<1> QED
    BY <1>1, <1>3, <1>4, <1>5

\* A set of natural numbers has a least element.
LEMMA SmallerInRelation ==
    ASSUME NEW R, NEW T \in SUBSET Nat, T # {},
           \A x, y \in Nat : y < x => <<y, x>> \in R, IsWellFoundedOn(R, Nat)
    PROVE  \E x \in T : \A y \in T : x <= y
<1>1. PICK x \in T : \A y \in T : ~(<<y, x>> \in R)
    BY WFMin
<1>2. \A y \in T : ~(y < x)
    BY <1>1, Zenon
<1>3. \A y \in T : x <= y
    BY <1>2, SMT
<1> QED
    BY <1>3

LEMMA LeastElement ==
    ASSUME NEW T \in SUBSET Nat, T # {}
    PROVE  \E x \in T : \A y \in T : x <= y
<1>1. \E R : IsWellFoundedOn(R, Nat) /\ \A x, y \in Nat : y < x => <<y, x>> \in R
    <2>1. \A x, y \in Nat : y < x => <<y, x>> \in OpToRel(<, Nat)
        BY DEF OpToRel
    <2> QED
        BY NatLessThanWellFounded, <2>1, Zenon
<1> QED
    BY <1>1, SmallerInRelation

\* The n-th item ahead exists, and is n items on.
LEMMA NthAheadFacts ==
    ASSUME TypeOK, NEW pos \in 0..length, NEW n \in 1..Cardinality(Ahead(pos))
    PROVE  /\ NthAhead(pos, n) \in Unskipped
           /\ NthAhead(pos, n) \in (pos + 1)..length
           /\ Num(NthAhead(pos, n)) = Num(pos) + n
<1>1. /\ length \in Nat /\ pos \in Nat /\ Num(pos) \in Nat /\ n \in Nat \ {0}
      /\ Num(pos) + n <= Num(length)
    <2>1. length \in Nat
        BY TraceFacts
    <2>2. /\ Cardinality(Ahead(pos)) \in Nat /\ Num(pos) \in Nat /\ pos \in Nat
          /\ Num(pos) + Cardinality(Ahead(pos)) = Num(length)
        BY AheadFacts
    <2> QED
        BY <2>1, <2>2
<1>2. PICK r \in Nat : /\ Num(pos) + n <= Num(r)
                       /\ \A q \in Nat : Num(pos) + n <= Num(q) => r <= q
    <2> DEFINE T == {r \in Nat : Num(pos) + n <= Num(r)}
    <2>1. T \in SUBSET Nat /\ T # {}
        BY <1>1
    <2>2. \E r \in T : \A q \in T : r <= q
        <3> HIDE DEF T
        <3> QED
            BY <2>1, LeastElement
    <2> QED
        BY <2>2
<1>3. Num(r) \in Nat
    BY NumFacts
<1>4. pos < r
    <2>1. r <= pos => Num(r) <= Num(pos)
        BY <1>1, NumBetween
    <2> QED
        BY <1>1, <1>2, <1>3, <2>1
<1>5. r - 1 \in Nat /\ r - 1 + 1 = r
    BY <1>1, <1>4
<1>6. Num(r - 1) \in Nat
    BY <1>5, NumFacts
<1>7. Num(r - 1) < Num(pos) + n
    <2>1. ~(r <= r - 1)
        OBVIOUS
    <2>2. ~(Num(pos) + n <= Num(r - 1))
        BY <1>2, <1>5, <2>1
    <2> QED
        BY <1>1, <1>6, <2>2
<1>8. Num(r) = IF r \in Unskipped THEN Num(r - 1) + 1 ELSE Num(r - 1)
    <2>1. Num(r - 1 + 1) = IF r - 1 + 1 \in Unskipped THEN Num(r - 1) + 1 ELSE Num(r - 1)
        BY <1>5, NumStep
    <2> QED
        BY <1>5, <2>1, Zenon
<1>9. r \in Unskipped /\ Num(r) = Num(pos) + n
    BY <1>1, <1>2, <1>3, <1>6, <1>7, <1>8
<1>10. Cardinality(AheadUpTo(pos, r)) = n
    <2>1. Cardinality(AheadUpTo(pos, r)) = Num(r) - Num(pos)
        BY <1>1, <1>4, NumBetween
    <2> QED
        BY <1>1, <1>9, <2>1
<1>11. r \in Ahead(pos)
    BY <1>4, <1>9 DEF Ahead
<1> DEFINE m == NthAhead(pos, n)
<1>12. m \in Ahead(pos) /\ Cardinality(AheadUpTo(pos, m)) = n
    BY <1>10, <1>11, Zenon DEF NthAhead, AheadUpTo
<1> HIDE DEF m
<1>13. m \in Unskipped /\ m > pos /\ m \in 1..length
    BY <1>12, TraceFacts DEF Ahead
<1>14. m \in Nat /\ pos <= m /\ m \in (pos + 1)..length
    BY <1>1, <1>13
<1>15. Num(m) = Num(pos) + n
    <2>1. Cardinality(AheadUpTo(pos, m)) = Num(m) - Num(pos)
        BY <1>1, <1>14, NumBetween
    <2>2. Num(m) \in Nat
        BY <1>14, NumFacts
    <2> QED
        BY <1>1, <1>12, <2>1, <2>2
<1> QED
    BY <1>13, <1>14, <1>15 DEF m

LEMMA NothingSkipped ==
    ASSUME TypeOK, skipped = {}, NEW r \in 0..length
    PROVE  Num(r) = r /\ Unskipped = Items
<1>1. length \in Nat /\ r \in Nat
    BY TraceFacts
<1>2. Unskipped = 1..length /\ Unskipped = Items
    BY DEF Unskipped, Items
<1>3. UpTo(r) = 1..r
    BY <1>1, <1>2 DEF UpTo
<1>4. Cardinality(1..r) = r
    BY <1>1, FS_Interval
<1> QED
    BY <1>2, <1>3, <1>4 DEF Num

-----------------------------------------------------------------------------
(* Reading items. *)

LEMMA TypeSplit == TypeOK <=> WindowType /\ it \in [Iterators -> IteratorRecords]
BY DEF TypeOK, WindowType, IteratorRecords

LEMMA DeliveredFacts ==
    ASSUME TypeOK, NEW pos \in 0..length, NEW n \in Nat \ {0}
    PROVE  /\ Delivered(pos, n) \in 0..n
           /\ Delivered(pos, n) <= Cardinality(Ahead(pos))
           /\ Delivered(pos, n) < n => Delivered(pos, n) = Cardinality(Ahead(pos))
           /\ pos = length => Delivered(pos, n) = 0
<1>1. Cardinality(Ahead(pos)) \in Nat
    BY AheadFacts
<1>2. pos = length => Cardinality(Ahead(pos)) = 0
    <2>1. /\ Num(pos) \in Nat
          /\ Num(pos) + Cardinality(Ahead(pos)) = Num(length)
        BY AheadFacts
    <2> QED
        BY <1>1, <2>1
<1> QED
    BY <1>1, <1>2 DEF Delivered

LEMMA NewItemFacts ==
    ASSUME TypeOK, NEW pos \in 0..length, num_skipped = pos - Num(pos),
           NEW k \in 1..Cardinality(Ahead(pos))
    PROVE  LET item == NewItem(pos, pos, k)
           IN  /\ item \in ItemRecords
               /\ item.index = Num(pos) + k
               /\ item.at \in Unskipped
               /\ Num(item.at) = Num(pos) + k
<1> DEFINE m == NthAhead(pos, k)
<1>1. m \in Unskipped /\ m \in (pos + 1)..length /\ Num(m) = Num(pos) + k
    BY NthAheadFacts
<1>2. Num(pos) \in Nat /\ pos \in Nat /\ length \in Nat /\ k \in Nat
    BY AheadFacts, TraceFacts
<1> HIDE DEF m
<1>3. pos - num_skipped + k = Num(pos) + k /\ Num(pos) + k \in Int /\ m \in 0..length
    BY <1>1, <1>2
<1>4. NewItem(pos, pos, k) = [index |-> Num(pos) + k, at |-> m]
    BY <1>3 DEF NewItem, m
<1> QED
    BY <1>1, <1>3, <1>4 DEF ItemRecords

LEMMA Reading ==
    ASSUME TypeOK, UNCHANGED trace, NEW pos \in 0..length, num_skipped = pos - Num(pos),
           NEW n \in Nat \ {0}, ReadItems(pos, pos, n)
    PROVE  /\ stream_pos' \in 0..length /\ raw_read' = stream_pos'
           /\ num_skipped' = stream_pos' - Num(stream_pos') /\ num_skipped' \in Nat
           /\ Num(stream_pos') = Num(pos) + Delivered(pos, n)
           /\ at_eof' \in BOOLEAN /\ last_item_read' \in BOOLEAN
           /\ at_eof' => last_item_read'
           /\ at_eof' <=> Delivered(pos, n) < n
           /\ at_eof' => stream_pos' = length
<1> DEFINE got == Delivered(pos, n)
           m == IF got = n THEN NthAhead(pos, n) ELSE length
<1>1. /\ stream_pos' = pos + (m - pos) /\ raw_read' = pos + (m - pos)
      /\ num_skipped' = num_skipped + (m - pos) - got
    BY DEF ReadItems
<1>2. at_eof' = (got < n) /\ last_item_read' = (last_item_read \/ got < n)
    BY DEF ReadItems
<1>3. /\ pos \in Nat /\ length \in Nat /\ pos <= length
      /\ Cardinality(Ahead(pos)) \in Nat /\ Num(pos) \in Nat
      /\ Num(pos) + Cardinality(Ahead(pos)) = Num(length)
    BY AheadFacts, TraceFacts
<1>4. /\ got \in 0..n /\ got <= Cardinality(Ahead(pos))
      /\ got < n => got = Cardinality(Ahead(pos))
      /\ pos = length => got = 0
    BY DeliveredFacts
<1>5. m \in pos..length /\ Num(m) = Num(pos) + got /\ (got < n => m = length)
    <2>1. CASE got = n
        <3>1. n \in 1..Cardinality(Ahead(pos))
            BY <1>3, <1>4, <2>1
        <3>2. NthAhead(pos, n) \in (pos + 1)..length /\ Num(NthAhead(pos, n)) = Num(pos) + n
            BY <3>1, NthAheadFacts
        <3>3. m = NthAhead(pos, n)
            BY <2>1
        <3>4. ~(got < n)
            BY <2>1
        <3> HIDE DEF m, got
        <3> QED
            BY <1>3, <2>1, <3>2, <3>3, <3>4
    <2>2. CASE got # n
        <3>1. m = length /\ got < n
            BY <1>4, <2>2
        <3> HIDE DEF m, got
        <3> QED
            BY <1>3, <1>4, <3>1
    <2> QED
        BY <2>1, <2>2
<1> HIDE DEF m, got
<1>6. stream_pos' = m /\ raw_read' = m
    BY <1>1, <1>3, <1>5
<1>7. Num(m) \in Nat /\ Num(m) <= m
    BY <1>3, <1>5, NumFacts
<1>8. num_skipped' = m - Num(m) /\ m - Num(m) \in Nat
    BY <1>1, <1>3, <1>4, <1>5, <1>7
<1>9. /\ at_eof' \in BOOLEAN /\ last_item_read' \in BOOLEAN
      /\ at_eof' => last_item_read'
      /\ at_eof' <=> got < n
    <2> DEFINE short == got < n
    <2>1. short \in BOOLEAN /\ last_item_read \in BOOLEAN
        BY DEF TypeOK
    <2>2. at_eof' = short /\ last_item_read' = (last_item_read \/ short)
        BY <1>2
    <2> HIDE DEF short
    <2>3. /\ at_eof' \in BOOLEAN /\ last_item_read' \in BOOLEAN
          /\ at_eof' => last_item_read'
          /\ at_eof' <=> short
        BY <2>1, <2>2, Zenon
    <2> QED
        BY <2>3 DEF short
<1>10. at_eof' => m = length
    BY <1>5, <1>9, Zenon
<1>11. stream_pos' \in 0..length
    BY <1>3, <1>5, <1>6
<1> QED
    BY <1>5, <1>6, <1>8, <1>9, <1>10, <1>11 DEF got

\* Num and NumbersCountItems of the next state.
LEMMA NumNext ==
    ASSUME UNCHANGED trace
    PROVE  /\ Unskipped' = Unskipped /\ (Num(stream_pos))' = Num(stream_pos')
           /\ (\A p \in Slots :
                  buf'[p].index # 0 =>
                      buf'[p].at \in Unskipped /\ buf'[p].index = Num(buf'[p].at))
              => NumbersCountItems'
<1>1. Unskipped' = Unskipped
    BY DEF trace, Unskipped, Items
<1>2. (Num(stream_pos))' = Num(stream_pos')
    BY <1>1 DEF Num, UpTo
<1> QED
    BY <1>1, <1>2 DEF NumbersCountItems, Num, UpTo

-----------------------------------------------------------------------------
(* Filling half of the ring. *)

LEMMA BehindFacts ==
    ASSUME NEW p \in Slots, NEW t \in Slots
    PROVE  Behind(p, t) \in Slots /\ (Behind(p, t) = 0 <=> p = t)
BY SizeFacts DEF Behind, Slots

\* How far the slots are behind a tail that has moved on.
LEMMA BehindMoves ==
    ASSUME NEW p \in Slots, NEW t \in Slots, NEW n \in 0..Half
    PROVE  LET t2 == (t + n) % Size
               k  == (p - t) % Size
           IN  /\ t2 \in Slots /\ k \in Slots
               /\ k \in 1..n => Behind(p, t2) = n - k
               /\ k \notin 1..n => Behind(p, t2) = Behind(p, t) + n
               /\ k = n + 1 => Behind(p, t2) = Size - 1
<1> DEFINE t2 == (t + n) % Size
           k == (p - t) % Size
<1>1. n \in 0..Size
    BY SizeFacts
<1>2. /\ t + n < Size => t2 = t + n
      /\ t + n >= Size => t2 = t + n - Size
      /\ t2 \in Slots
    BY <1>1, WrapSum
<1>3. (p >= t => k = p - t) /\ (p < t => k = p - t + Size)
    <2>1. k = IF p >= t THEN p - t ELSE p - t + Size
        BY WrapDiff
    <2>2. p >= t <=> ~(p < t)
        BY DEF Slots
    <2> HIDE DEF k
    <2> QED
        BY <2>1, <2>2, Zenon
<1>4. k \in Slots
    BY <1>3, SizeFacts DEF Slots
<1> HIDE DEF t2, k
<1>5. k \in 1..n => Behind(p, t2) = n - k
    BY <1>2, <1>3, SizeFacts DEF Behind, Slots
<1>6. k \notin 1..n => Behind(p, t2) = Behind(p, t) + n
    BY <1>2, <1>3, SizeFacts DEF Behind, Slots
<1>7. k = n + 1 => Behind(p, t2) = Size - 1
    BY <1>2, <1>3, SizeFacts DEF Behind, Slots
<1> QED
    BY <1>2, <1>4, <1>5, <1>6, <1>7 DEF t2, k

LEMMA BehindShifts ==
    ASSUME NEW p \in Slots, NEW t \in Slots, NEW n \in 0..Half
    PROVE  Behind((p + n) % Size, (t + n) % Size) = Behind(p, t)
<1> DEFINE t2 == (t + n) % Size
           p2 == (p + n) % Size
<1>1. n \in 0..Size
    BY SizeFacts
<1>2. /\ t + n < Size => t2 = t + n
      /\ t + n >= Size => t2 = t + n - Size
      /\ p + n < Size => p2 = p + n
      /\ p + n >= Size => p2 = p + n - Size
    BY <1>1, WrapSum
<1> HIDE DEF t2, p2
<1>3. Behind(p2, t2) = Behind(p, t)
    BY <1>2, SizeFacts DEF Behind, Slots
<1> QED
    BY <1>3 DEF t2, p2

\* What fillHalfBuffer_ does to the slots: n new items, one slot reset if the
\* trace ends, the others kept.
LEMMA FillFacts ==
    ASSUME TypeOK, Stream, Last = Num(stream_pos), UNCHANGED trace, FillHalfBuffer,
           NEW n, n = Delivered(stream_pos, Half)
    PROVE  /\ n \in 0..Half
           /\ at_eof => n = 0
           /\ tail' = (tail + n) % Size /\ tail' \in Slots
           /\ head' = (head + n) % Size /\ head' \in Slots
           /\ \A p \in Slots :
                 \/ /\ (Age(p))' \in 0..(n - 1)
                    /\ buf'[p] \in ItemRecords
                    /\ buf'[p].index = Last + n - (Age(p))'
                    /\ buf'[p].at \in Unskipped
                    /\ buf'[p].index = Num(buf'[p].at)
                 \/ /\ n < Half
                    /\ (Age(p))' = Size - 1
                    /\ buf'[p] = ResetItem
                 \/ /\ (Age(p))' = Age(p) + n
                    /\ buf'[p] = buf[p]
<1>1. Half \in Nat \ {0} /\ stream_pos \in 0..length /\ tail \in Slots /\ head \in Slots
    BY SizeFacts DEF TypeOK
<1>2. /\ n \in 0..Half /\ n <= Cardinality(Ahead(stream_pos))
      /\ stream_pos = length => n = 0
    BY <1>1, DeliveredFacts
<1>3. at_eof => n = 0
    BY <1>2 DEF Stream
<1>4. /\ tail' = (tail + n) % Size
      /\ head' = (head + n) % Size
      /\ buf' = [p \in Slots |->
                    LET k == (p - tail) % Size
                    IN  IF k \in 1..n THEN NewItem(stream_pos, raw_read, k)
                        ELSE IF k = n + 1 /\ n < Half THEN ResetItem
                        ELSE buf[p]]
    BY Zenon DEF FillHalfBuffer, MovedHead, Half
<1>5. tail' \in Slots /\ head' \in Slots
    <2>1. n \in 0..Size
        BY <1>2, SizeFacts
    <2> QED
        BY <1>1, <1>4, <2>1, WrapSum
<1>6. ASSUME NEW p \in Slots
      PROVE  \/ /\ (Age(p))' \in 0..(n - 1)
                /\ buf'[p] \in ItemRecords
                /\ buf'[p].index = Last + n - (Age(p))'
                /\ buf'[p].at \in Unskipped
                /\ buf'[p].index = Num(buf'[p].at)
             \/ /\ n < Half
                /\ (Age(p))' = Size - 1
                /\ buf'[p] = ResetItem
             \/ /\ (Age(p))' = Age(p) + n
                /\ buf'[p] = buf[p]
    <2> DEFINE k == (p - tail) % Size
    <2>1. /\ k \in Slots
          /\ k \in 1..n => Behind(p, tail') = n - k
          /\ k \notin 1..n => Behind(p, tail') = Behind(p, tail) + n
          /\ k = n + 1 => Behind(p, tail') = Size - 1
        BY <1>1, <1>2, <1>4, BehindMoves
    <2>2. buf'[p] = IF k \in 1..n THEN NewItem(stream_pos, raw_read, k)
                    ELSE IF k = n + 1 /\ n < Half THEN ResetItem
                    ELSE buf[p]
        BY <1>4, Zenon
    <2>3. (Age(p))' = Behind(p, tail') /\ Age(p) = Behind(p, tail)
        BY DEF Age, Behind
    <2> HIDE DEF k
    <2>4. CASE k \in 1..n
        <3>1. buf'[p] = NewItem(stream_pos, stream_pos, k)
            BY <2>2, <2>4 DEF Stream
        <3>2. k \in 1..Cardinality(Ahead(stream_pos))
            <4>1. Cardinality(Ahead(stream_pos)) \in Nat
                BY <1>1, AheadFacts
            <4> QED
                BY <1>2, <2>4, <4>1
        <3>3. num_skipped = stream_pos - Num(stream_pos)
            BY DEF Stream
        <3>4. /\ buf'[p] \in ItemRecords
              /\ buf'[p].index = Num(stream_pos) + k
              /\ buf'[p].at \in Unskipped
              /\ Num(buf'[p].at) = Num(stream_pos) + k
            BY <1>1, <3>1, <3>2, <3>3, NewItemFacts
        <3>5. (Age(p))' = n - k /\ Num(stream_pos) \in Nat
            BY <1>1, <2>1, <2>3, <2>4, AheadFacts
        <3>6. (Age(p))' \in 0..(n - 1) /\ Num(stream_pos) + k = Last + n - (Age(p))'
            BY <1>2, <2>4, <3>5
        <3> QED
            BY <3>4, <3>6
    <2>5. CASE k \notin 1..n /\ k = n + 1 /\ n < Half
        BY <2>1, <2>2, <2>3, <2>5, Zenon
    <2>6. CASE k \notin 1..n /\ ~(k = n + 1 /\ n < Half)
        BY <2>1, <2>2, <2>3, <2>6, Zenon
    <2> QED
        BY <2>4, <2>5, <2>6
<1> QED
    BY <1>2, <1>3, <1>4, <1>5, <1>6

LEMMA FillWindow ==
    ASSUME TypeOK, Stream, NumbersCountItems, Last = Num(stream_pos), UNCHANGED trace,
           FillHalfBuffer
    PROVE  WindowType' /\ Stream' /\ NumbersCountItems'
<1> DEFINE n == Delivered(stream_pos, Half)
<1>1. /\ tail' \in Slots /\ head' \in Slots
      /\ \A p \in Slots :
            \/ /\ buf'[p] \in ItemRecords
               /\ buf'[p].at \in Unskipped
               /\ buf'[p].index = Num(buf'[p].at)
            \/ buf'[p] = ResetItem
            \/ buf'[p] = buf[p]
    BY FillFacts, Zenon
<1>2. /\ Half \in Nat \ {0} /\ stream_pos \in 0..length /\ length \in Nat
      /\ num_skipped = stream_pos - Num(stream_pos)
      /\ at_eof => stream_pos = length
    BY SizeFacts, TraceFacts DEF TypeOK, Stream
<1>3. ReadItems(stream_pos, stream_pos, Half)
    BY DEF FillHalfBuffer, Stream, Half
<1>4. /\ stream_pos' \in 0..length /\ raw_read' = stream_pos'
      /\ num_skipped' = stream_pos' - Num(stream_pos') /\ num_skipped' \in Nat
      /\ at_eof' \in BOOLEAN /\ last_item_read' \in BOOLEAN
      /\ at_eof' => last_item_read'
      /\ at_eof' => stream_pos' = length
    BY <1>2, <1>3, Reading
<1>5. length' = length /\ only_user_mode' = only_user_mode /\ skipped' = skipped
    BY DEF trace
<1>6. buf' \in [Slots -> ItemRecords]
    <2>1. buf' = [p \in Slots |-> buf'[p]]
        BY DEF FillHalfBuffer
    <2>2. ASSUME NEW p \in Slots PROVE buf'[p] \in ItemRecords
        <3>1. ResetItem \in ItemRecords
            BY <1>2 DEF ResetItem, ItemRecords
        <3>2. buf[p] \in ItemRecords
            BY DEF TypeOK
        <3> QED
            BY <1>1, <3>1, <3>2, Zenon
    <2> QED
        BY <2>1, <2>2, Zenon
<1>7. buffered' = buffered /\ buffer_is_empty' = buffer_is_empty
    BY DEF FillHalfBuffer
<1>8. WindowType'
    <2>1. raw_read' \in Nat
        BY <1>2, <1>4
    <2>2. ItemRecords' = ItemRecords /\ Slots' = Slots /\ Items' = Items
        BY <1>5 DEF ItemRecords, Slots, Items
    <2>3. /\ length \in Lengths /\ only_user_mode \in BOOLEAN /\ skipped \subseteq Items
          /\ buffered \in BOOLEAN /\ buffer_is_empty \in BOOLEAN
        BY DEF TypeOK
    <2> QED
        BY <1>1, <1>4, <1>5, <1>6, <1>7, <2>1, <2>2, <2>3, Zenon DEF WindowType
<1>9. Stream'
    <2>1. (Num(stream_pos))' = Num(stream_pos')
        BY NumNext
    <2>2. ~only_user_mode => skipped = {}
        BY DEF Stream
    <2> QED
        BY <1>4, <1>5, <2>1, <2>2, Zenon DEF Stream
<1>10. NumbersCountItems'
    <2> SUFFICES ASSUME NEW p \in Slots, buf'[p].index # 0
                 PROVE  buf'[p].at \in Unskipped /\ buf'[p].index = Num(buf'[p].at)
        BY NumNext, Zenon
    <2>1. buf'[p] # ResetItem
        BY DEF ResetItem
    <2>2. buf[p].index # 0 => buf[p].at \in Unskipped /\ buf[p].index = Num(buf[p].at)
        BY DEF NumbersCountItems, Num, UpTo
    <2> QED
        BY <1>1, <2>1, <2>2, Zenon
<1> QED
    BY <1>8, <1>9, <1>10

LEMMA FillRing ==
    ASSUME TypeOK, Stream, NumbersCountItems, Last = Num(stream_pos), UNCHANGED trace,
           FillHalfBuffer, NEW lo \in 1..Last, Filled(lo), Head(lo),
           at_eof \/ tail \in {Size - 1, Half - 1},
           NEW n, n = Delivered(stream_pos, Half)
    PROVE  /\ n \in 0..Half /\ (at_eof' <=> n < Half)
           /\ Last' = Last + n /\ Last' = (Num(stream_pos))' /\ Last \in Nat
           /\ Filled(lo)' /\ Head(lo)'
           /\ at_eof' \/ tail' \in {Size - 1, Half - 1}
           /\ \A r \in IteratorRecords : Placed(r, lo) => Placed(r, lo)'
<1>1. /\ n \in 0..Half
      /\ at_eof => n = 0
      /\ tail' = (tail + n) % Size /\ tail' \in Slots
      /\ head' = (head + n) % Size /\ head' \in Slots
    BY FillFacts, Zenon
<1>2. \A p \in Slots :
                 \/ /\ (Age(p))' \in 0..(n - 1)
                    /\ buf'[p] \in ItemRecords
                    /\ buf'[p].index = Last + n - (Age(p))'
                 \/ /\ n < Half
                    /\ (Age(p))' = Size - 1
                    /\ buf'[p] = ResetItem
                 \/ /\ (Age(p))' = Age(p) + n
                    /\ buf'[p] = buf[p]
    BY FillFacts, Zenon
<1>3. /\ Half \in Nat \ {0} /\ Half \in Nat /\ Half >= 2 /\ Size \in Nat /\ Size = Half + Half
      /\ stream_pos \in 0..length /\ stream_pos \in Nat
      /\ tail \in Slots /\ head \in Slots /\ length \in Nat
      /\ num_skipped = stream_pos - Num(stream_pos)
      /\ at_eof => stream_pos = length
    BY SizeFacts, TraceFacts DEF TypeOK, Stream
<1>4. ReadItems(stream_pos, stream_pos, Half)
    BY DEF FillHalfBuffer, Stream, Half
<1>5. Num(stream_pos') = Num(stream_pos) + n
    <2>1. Num(stream_pos') = Num(stream_pos) + Delivered(stream_pos, Half)
        BY <1>3, <1>4, Reading
    <2> QED
        BY <2>1, Zenon
<1>6. at_eof' <=> n < Half
    <2>1. at_eof' <=> Delivered(stream_pos, Half) < Half
        BY <1>3, <1>4, Reading
    <2> QED
        BY <2>1, Zenon
<1>7. Last \in Nat
    BY <1>3, NumFacts
<1>8. \A p \in Slots : Age(p) \in Slots /\ (Age(p))' \in Slots
    <2>1. ASSUME NEW p \in Slots PROVE Age(p) \in Slots /\ (Age(p))' \in Slots
        <3>1. Behind(p, tail) \in Slots /\ Behind(p, tail') \in Slots
            BY <1>1, <1>3, BehindFacts
        <3>2. (Age(p))' = Behind(p, tail') /\ Age(p) = Behind(p, tail)
            BY DEF Age, Behind
        <3> QED
            BY <3>1, <3>2
    <2> QED
        BY <2>1
<1>9. \A p \in Slots : buf[p] \in ItemRecords /\ buf[p].index \in Int
    BY DEF TypeOK, ItemRecords
<1>10. /\ tail + n < Size => tail' = tail + n
       /\ tail + n >= Size => tail' = tail + n - Size
    <2>1. n \in 0..Size
        BY <1>1, <1>3
    <2> QED
        BY <1>1, <1>3, <2>1, WrapSum
<1>11. Last' = Last + n
    <2>1. Last' = buf'[tail'].index /\ Last = buf[tail].index
        BY DEF Last
    <2> SUFFICES ASSUME NEW p \in Slots, p = tail' PROVE buf'[p].index = Last + n
        BY <1>1, <2>1, Zenon
    <2>2. (Age(p))' = 0
        BY <1>1 DEF Age, Behind, Slots
    <2>3. Age(p) \in Slots
        BY <1>8
    <2>4. CASE /\ (Age(p))' \in 0..(n - 1)
               /\ buf'[p].index = Last + n - (Age(p))'
        BY <1>1, <1>7, <2>2, <2>4
    <2>5. CASE (Age(p))' = Size - 1
        BY <1>3, <2>2, <2>5
    <2>6. CASE (Age(p))' = Age(p) + n /\ buf'[p] = buf[p]
        <3>1. n = 0
            BY <1>1, <2>2, <2>3, <2>6 DEF Slots
        <3>2. p = tail
            BY <1>3, <1>10, <3>1 DEF Slots
        <3>3. buf[p].index = Last
            BY <3>2 DEF Last
        <3> QED
            BY <1>7, <2>6, <3>1, <3>3
    <2> QED
        BY <1>2, <2>4, <2>5, <2>6, Zenon
<1>12. Last' = (Num(stream_pos))'
    <2>1. (Num(stream_pos))' = Num(stream_pos')
        BY NumNext
    <2> QED
        BY <1>5, <1>11, <2>1
<1>13. Filled(lo)'
    <2> SUFFICES ASSUME NEW p \in Slots
                 PROVE /\ buf'[p].index # 0 => buf'[p].index = Last' - (Age(p))'
                                               /\ lo <= Last' - (Age(p))'
                       /\ lo <= Last' - (Age(p))' /\ (Age(p))' < Size - 1
                            => buf'[p].index = Last' - (Age(p))'
        BY Zenon DEF Filled
    <2>1. Age(p) \in Slots /\ (Age(p))' \in Slots
        BY <1>8
    <2>2. CASE /\ (Age(p))' \in 0..(n - 1)
               /\ buf'[p].index = Last + n - (Age(p))'
        BY <1>1, <1>7, <1>11, <2>1, <2>2
    <2>3. CASE (Age(p))' = Size - 1 /\ buf'[p] = ResetItem
        BY <1>3, <2>3 DEF ResetItem
    <2>4. CASE (Age(p))' = Age(p) + n /\ buf'[p] = buf[p]
        <3>1. /\ buf[p].index # 0 => buf[p].index = Last - Age(p) /\ lo <= Last - Age(p)
              /\ lo <= Last - Age(p) /\ Age(p) < Size - 1 => buf[p].index = Last - Age(p)
            BY DEF Filled
        <3>2. Last' - (Age(p))' = Last - Age(p) /\ ((Age(p))' < Size - 1 => Age(p) < Size - 1)
            BY <1>1, <1>3, <1>7, <1>11, <2>1, <2>4 DEF Slots
        <3> QED
            BY <2>4, <3>1, <3>2, Zenon
    <2> QED
        BY <1>2, <2>2, <2>3, <2>4, Zenon
<1>14. Head(lo)'
    <2>1. (Age(head))' = Behind(head', tail') /\ Age(head) = Behind(head, tail)
        BY DEF Age, Behind
    <2>2. CASE Age(head) = Size - 1
        <3>1. Behind(head', tail') = Behind(head, tail)
            <4>1. /\ n \in 0..Half /\ head \in Slots /\ tail \in Slots
                  /\ head' = (head + n) % Size /\ tail' = (tail + n) % Size
                BY <1>1, <1>3
            <4>2. Behind((head + n) % Size, (tail + n) % Size) = Behind(head, tail)
                BY <4>1, BehindShifts
            <4> QED
                BY <4>1, <4>2, Zenon
        <3> QED
            BY <2>1, <2>2, <3>1, Zenon DEF Head
    <2>3. CASE at_eof /\ buf[head].index <= lo
        <3>1. n = 0
            BY <1>1, <2>3
        <3>2. head' = head /\ at_eof'
            <4>1. n \in 0..Size
                BY <1>1, <1>3
            <4>2. head + n < Size => (head + n) % Size = head + n
                BY <1>3, <4>1, WrapSum
            <4>3. head' = head
                BY <1>1, <1>3, <3>1, <4>2 DEF Slots
            <4>4. n < Half
                BY <1>3, <3>1
            <4> QED
                BY <1>6, <4>3, <4>4, Zenon
        <3>3. buf'[head] = ResetItem \/ buf'[head] = buf[head]
            <4> SUFFICES ASSUME NEW p \in Slots, p = head
                         PROVE buf'[p] = ResetItem \/ buf'[p] = buf[p]
                BY <1>3, Zenon
            <4>1. ~((Age(p))' \in 0..(n - 1))
                <5>1. 0..(n - 1) = {}
                    BY <3>1
                <5> QED
                    BY <5>1, Zenon
            <4> QED
                BY <1>2, <4>1, Zenon
        <3>4. buf'[head].index <= lo
            <4>1. ResetItem.index <= lo
                BY <1>7 DEF ResetItem
            <4> QED
                BY <2>3, <3>3, <4>1, Zenon
        <3> QED
            BY <3>2, <3>4, Zenon DEF Head
    <2> QED
        BY <2>2, <2>3, Zenon DEF Head
<1>15. at_eof' \/ tail' \in {Size - 1, Half - 1}
    <2> SUFFICES ASSUME ~at_eof' PROVE tail' \in {Size - 1, Half - 1}
        OBVIOUS
    <2>1. ~at_eof /\ ~(n < Half)
        <3>1. ~(n < Half)
            BY <1>6, Zenon
        <3>2. n # 0
            BY <1>3, <3>1
        <3> QED
            BY <1>1, <3>1, <3>2, Zenon
    <2>2. n = Half /\ tail \in {Size - 1, Half - 1}
        BY <1>1, <1>3, <2>1
    <2> QED
        BY <1>3, <1>10, <2>2 DEF Slots
<1>16. ASSUME NEW r \in IteratorRecords, Placed(r, lo) PROVE Placed(r, lo)'
    <2> SUFFICES ASSUME r.sound, ~r.end
                 PROVE  /\ r.index \in lo..Last'
                        /\ Multiple(Last' - r.index - tail' + r.loc)
                        /\ r.index = Last' => at_eof'
        BY Zenon DEF Placed, Multiple
    <2>1. /\ r.index \in lo..Last
          /\ Multiple(Last - r.index - tail + r.loc)
        BY <1>16, Zenon DEF Placed
    <2>2. r.index \in Nat /\ r.loc \in Int /\ tail \in Int /\ tail' \in Int
        BY <1>1, <1>3 DEF IteratorRecords, Slots
    <2>3. r.index \in lo..Last'
        BY <1>1, <1>7, <1>11, <2>1
    <2>4. Multiple(Last' - r.index - tail' + r.loc)
        <3> DEFINE x == Last - r.index - tail + r.loc
        <3>1. x \in Int
            BY <1>7, <2>2
        <3>2. Last' - r.index - tail' + r.loc \in {x, x + Size}
            BY <1>1, <1>3, <1>7, <1>10, <1>11, <2>2
        <3>3. Multiple(x) /\ Multiple(x + Size)
            <4> HIDE DEF x
            <4>1. Multiple(x)
                BY <2>1 DEF x
            <4> QED
                BY <3>1, <4>1, Multiples
        <3> HIDE DEF x
        <3> QED
            BY <3>2, <3>3, Zenon
    <2>5. r.index = Last' => at_eof'
        <3>1. r.index = Last' => n < Half
            BY <1>1, <1>3, <1>7, <1>11, <2>1, <2>2
        <3> QED
            BY <1>6, <3>1, Zenon
    <2> QED
        BY <2>3, <2>4, <2>5
<1> QED
    BY <1>1, <1>6, <1>7, <1>11, <1>12, <1>13, <1>14, <1>15, <1>16, Zenon

-----------------------------------------------------------------------------
(* Filling the ring from its first slot. *)

LEMMA InitSlots ==
    ASSUME TypeOK, UNCHANGED trace, NEW pos \in 0..length, num_skipped = pos - Num(pos),
           InitItemBuffer(pos, pos), NEW n, n = Delivered(pos, Size)
    PROVE  /\ n \in 0..Size /\ Num(pos) \in Nat /\ pos \in Nat
           /\ \A p \in Slots :
                 /\ p < n => /\ buf'[p] \in ItemRecords
                             /\ buf'[p].index = Num(pos) + p + 1
                             /\ buf'[p].at \in Unskipped
                             /\ buf'[p].index = Num(buf'[p].at)
                 /\ ~(p < n) => buf'[p] = ResetItem
<1>1. /\ Size \in Nat \ {0} /\ pos \in Nat /\ Num(pos) \in Nat
      /\ Cardinality(Ahead(pos)) \in Nat
    BY SizeFacts, AheadFacts
<1>2. n \in 0..Size /\ n <= Cardinality(Ahead(pos))
    BY <1>1, DeliveredFacts
<1>3. ASSUME NEW p \in Slots
      PROVE  buf'[p] = IF p < n THEN NewItem(pos, pos, p + 1) ELSE ResetItem
    BY <1>3, Zenon DEF InitItemBuffer
<1>4. ASSUME NEW p \in Slots, p < n
      PROVE  /\ buf'[p] \in ItemRecords
             /\ buf'[p].index = Num(pos) + p + 1
             /\ buf'[p].at \in Unskipped
             /\ buf'[p].index = Num(buf'[p].at)
    <2> DEFINE k == p + 1
    <2>1. buf'[p] = NewItem(pos, pos, k)
        BY <1>3, <1>4, Zenon
    <2>2. k \in 1..Cardinality(Ahead(pos)) /\ p \in Nat
        BY <1>1, <1>2, <1>4 DEF Slots
    <2>3. Num(pos) + k = Num(pos) + p + 1
        BY <1>1, <2>2
    <2> HIDE DEF k
    <2>4. LET item == NewItem(pos, pos, k)
          IN  /\ item \in ItemRecords
              /\ item.index = Num(pos) + k
              /\ item.at \in Unskipped
              /\ Num(item.at) = Num(pos) + k
        BY <2>2, NewItemFacts
    <2> QED
        BY <2>1, <2>3, <2>4, Zenon
<1>5. ASSUME NEW p \in Slots, ~(p < n) PROVE buf'[p] = ResetItem
    BY <1>3, <1>5, Zenon
<1> QED
    BY <1>1, <1>2, <1>4, <1>5, Zenon

LEMMA InitWindow ==
    ASSUME TypeOK, ~only_user_mode => skipped = {}, UNCHANGED trace,
           NEW pos \in 0..length, num_skipped = pos - Num(pos),
           InitItemBuffer(pos, pos)
    PROVE  WindowType' /\ Stream' /\ NumbersCountItems' /\ buffered'
<1> DEFINE n == Delivered(pos, Size)
<1>1. /\ n \in 0..Size /\ Num(pos) \in Nat /\ pos \in Nat
      /\ \A p \in Slots : \/ /\ buf'[p] \in ItemRecords
                             /\ buf'[p].at \in Unskipped
                             /\ buf'[p].index = Num(buf'[p].at)
                          \/ buf'[p] = ResetItem
    BY InitSlots, Zenon
<1>2. Size \in Nat \ {0} /\ length \in Nat
    BY SizeFacts, TraceFacts
<1>3. ReadItems(pos, pos, Size)
    BY DEF InitItemBuffer
<1>4. /\ stream_pos' \in 0..length /\ raw_read' = stream_pos'
      /\ num_skipped' = stream_pos' - Num(stream_pos') /\ num_skipped' \in Nat
      /\ at_eof' \in BOOLEAN /\ last_item_read' \in BOOLEAN
      /\ at_eof' => last_item_read'
      /\ at_eof' => stream_pos' = length
    BY <1>2, <1>3, Reading
<1>5. length' = length /\ only_user_mode' = only_user_mode /\ skipped' = skipped
    BY DEF trace
<1>6. buf' \in [Slots -> ItemRecords]
    <2>1. buf' = [p \in Slots |-> buf'[p]]
        BY DEF InitItemBuffer
    <2>2. ASSUME NEW p \in Slots PROVE buf'[p] \in ItemRecords
        <3>1. ResetItem \in ItemRecords
            BY <1>2 DEF ResetItem, ItemRecords
        <3> QED
            BY <1>1, <3>1, Zenon
    <2> QED
        BY <2>1, <2>2, Zenon
<1>7. buffered' = TRUE /\ buffer_is_empty' \in BOOLEAN
    BY Zenon DEF InitItemBuffer
<1>8. head' \in Slots /\ tail' \in Slots
    <2>1. head' = 0 /\ tail' = IF n = 0 THEN 0 ELSE n - 1
        BY DEF InitItemBuffer
    <2> HIDE DEF n
    <2> QED
        BY <1>1, <1>2, <2>1 DEF Slots
<1>9. WindowType'
    <2>1. raw_read' \in Nat
        BY <1>2, <1>4
    <2>2. ItemRecords' = ItemRecords /\ Slots' = Slots /\ Items' = Items
        BY <1>5 DEF ItemRecords, Slots, Items
    <2>3. length \in Lengths /\ only_user_mode \in BOOLEAN /\ skipped \subseteq Items
        BY DEF TypeOK
    <2> QED
        BY <1>4, <1>5, <1>6, <1>7, <1>8, <2>1, <2>2, <2>3, Zenon DEF WindowType
<1>10. Stream'
    <2>1. (Num(stream_pos))' = Num(stream_pos')
        BY NumNext
    <2> QED
        BY <1>4, <1>5, <2>1, Zenon DEF Stream
<1>11. NumbersCountItems'
    <2> SUFFICES ASSUME NEW p \in Slots, buf'[p].index # 0
                 PROVE  buf'[p].at \in Unskipped /\ buf'[p].index = Num(buf'[p].at)
        BY NumNext, Zenon
    <2>1. buf'[p] # ResetItem
        BY DEF ResetItem
    <2> QED
        BY <1>1, <2>1, Zenon
<1> QED
    BY <1>7, <1>9, <1>10, <1>11

LEMMA InitRing ==
    ASSUME TypeOK, UNCHANGED trace, NEW pos \in 0..length, num_skipped = pos - Num(pos),
           InitItemBuffer(pos, pos),
           NEW n, n = Delivered(pos, Size), NEW lo, lo = Num(pos) + 1
    PROVE  /\ n \in 0..Size /\ lo \in Nat \ {0} /\ (buffer_is_empty' <=> n = 0)
           /\ at_eof' <=> n < Size
           /\ n = 0 => tail' = 0 /\ \A p \in Slots : buf'[p] = ResetItem
           /\ n # 0 => /\ Last' = (Num(stream_pos))' /\ Last' = lo + n - 1
                       /\ Filled(lo)' /\ Head(lo)'
                       /\ at_eof' \/ tail' \in {Size - 1, Half - 1}
                       /\ buf'[0].index = lo
                       /\ \A r \in IteratorRecords :
                             r.index = lo /\ r.loc = 0 => Placed(r, lo)'
<1>1. /\ n \in 0..Size /\ Num(pos) \in Nat /\ pos \in Nat
      /\ \A p \in Slots : /\ p < n => buf'[p].index = Num(pos) + p + 1
                          /\ ~(p < n) => buf'[p] = ResetItem
    BY InitSlots, Zenon
<1>2. Size \in Nat \ {0} /\ Size \in Nat /\ Size >= 4 /\ length \in Nat
    BY SizeFacts, TraceFacts
<1>3. lo \in Nat \ {0} /\ 0 \in Slots
    BY <1>1, <1>2 DEF Slots
<1>4. /\ head' = 0 /\ (n = 0 => tail' = 0) /\ (n # 0 => tail' = n - 1)
    BY Zenon DEF InitItemBuffer
<1>5. buffer_is_empty' <=> n = 0
    BY Zenon DEF InitItemBuffer
<1>6. /\ Num(stream_pos') = Num(pos) + n
      /\ at_eof' <=> n < Size
    <2>1. ReadItems(pos, pos, Size)
        BY DEF InitItemBuffer
    <2>2. /\ Num(stream_pos') = Num(pos) + Delivered(pos, Size)
          /\ at_eof' <=> Delivered(pos, Size) < Size
        BY <1>2, <2>1, Reading
    <2> QED
        BY <2>2, Zenon
<1>7. n = 0 => \A p \in Slots : buf'[p] = ResetItem
    <2> SUFFICES ASSUME n = 0, NEW p \in Slots PROVE buf'[p] = ResetItem
        OBVIOUS
    <2>1. ~(p < n)
        BY DEF Slots
    <2> QED
        BY <1>1, <2>1, Zenon
<1>8. ASSUME n # 0
      PROVE  /\ Last' = (Num(stream_pos))' /\ Last' = lo + n - 1
             /\ Filled(lo)' /\ Head(lo)'
             /\ at_eof' \/ tail' \in {Size - 1, Half - 1}
             /\ buf'[0].index = lo
             /\ \A r \in IteratorRecords :
                   r.index = lo /\ r.loc = 0 => Placed(r, lo)'
    <2>1. tail' = n - 1 /\ n \in 1..Size /\ tail' \in Slots /\ tail' < n
        BY <1>1, <1>2, <1>4, <1>8 DEF Slots
    <2>2. Last' = lo + n - 1
        <3>1. buf'[tail'].index = Num(pos) + tail' + 1
            BY <1>1, <2>1, Zenon
        <3> QED
            BY <1>1, <2>1, <3>1 DEF Last
    <2>3. Last' = (Num(stream_pos))'
        <3>1. (Num(stream_pos))' = Num(stream_pos')
            BY NumNext
        <3> QED
            BY <1>1, <1>6, <2>2, <3>1
    <2>4. buf'[0].index = lo
        <3>1. 0 < n
            BY <2>1
        <3>2. buf'[0].index = Num(pos) + 0 + 1
            BY <1>1, <1>3, <3>1, Zenon
        <3> QED
            BY <1>1, <3>2
    <2>5. ASSUME NEW p \in Slots
          PROVE  /\ p <= n - 1 => (Age(p))' = n - 1 - p
                 /\ ~(p <= n - 1) => (Age(p))' = n - 1 - p + Size
        <3>1. (Age(p))' = Behind(p, n - 1)
            BY <2>1 DEF Age, Behind
        <3> QED
            BY <3>1, Zenon DEF Behind
    <2>6. Filled(lo)'
        <3> SUFFICES ASSUME NEW p \in Slots
                     PROVE  /\ buf'[p].index # 0 => buf'[p].index = Last' - (Age(p))'
                                                    /\ lo <= Last' - (Age(p))'
                            /\ lo <= Last' - (Age(p))' /\ (Age(p))' < Size - 1
                                 => buf'[p].index = Last' - (Age(p))'
            BY Zenon DEF Filled
        <3>1. CASE p < n
            <4>1. buf'[p].index = Num(pos) + p + 1
                BY <1>1, <3>1, Zenon
            <4>2. (Age(p))' = n - 1 - p
                BY <2>1, <2>5, <3>1 DEF Slots
            <4>3. buf'[p].index = Last' - (Age(p))' /\ lo <= Last' - (Age(p))'
                BY <1>1, <2>1, <2>2, <4>1, <4>2 DEF Slots
            <4> QED
                BY <4>3, Zenon
        <3>2. CASE ~(p < n)
            <4>1. buf'[p].index = 0
                <5>1. buf'[p] = ResetItem
                    BY <1>1, <3>2, Zenon
                <5> QED
                    BY <5>1 DEF ResetItem
            <4>2. (Age(p))' = n - 1 - p + Size
                BY <2>1, <2>5, <3>2 DEF Slots
            <4>3. ~(lo <= Last' - (Age(p))')
                BY <1>1, <1>2, <2>1, <2>2, <4>2 DEF Slots
            <4> QED
                BY <4>1, <4>3, Zenon
        <3> QED
            BY <3>1, <3>2
    <2>7. Head(lo)'
        <3>1. CASE n = Size
            <4>1. (Age(head))' = Behind(0, n - 1)
                BY <1>4, <2>1 DEF Age, Behind
            <4>2. Behind(0, n - 1) = Size - 1
                BY <1>2, <3>1 DEF Behind
            <4> QED
                BY <4>1, <4>2, Zenon DEF Head
        <3>2. CASE n # Size
            <4>1. n < Size
                BY <1>2, <2>1, <3>2
            <4>2. at_eof'
                BY <1>6, <4>1, Zenon
            <4>3. buf'[head'].index <= lo
                BY <1>1, <1>4, <2>4
            <4> QED
                BY <4>2, <4>3, Zenon DEF Head
        <3> QED
            BY <3>1, <3>2
    <2>8. at_eof' \/ tail' \in {Size - 1, Half - 1}
        <3> SUFFICES ASSUME ~at_eof' PROVE tail' = Size - 1
            BY Zenon
        <3>1. ~(n < Size)
            BY <1>6, Zenon
        <3> QED
            BY <1>2, <2>1, <3>1
    <2>9. ASSUME NEW r \in IteratorRecords, r.index = lo, r.loc = 0 PROVE Placed(r, lo)'
        <3>1. r.index \in lo..Last'
            BY <1>1, <1>3, <2>1, <2>2, <2>9
        <3>2. Last' - r.index - tail' + r.loc = 0
            BY <1>1, <2>1, <2>2, <2>9
        <3>3. r.index = Last' => at_eof'
            <4>1. r.index = Last' => n < Size
                BY <1>1, <1>2, <2>1, <2>2, <2>9
            <4> QED
                BY <1>6, <4>1, Zenon
        <3>4. Multiple(Last' - r.index - tail' + r.loc)
            BY <3>2, Multiples, Zenon
        <3> QED
            BY <3>1, <3>3, <3>4, Zenon DEF Placed, Multiple
    <2> QED
        BY <2>2, <2>3, <2>4, <2>6, <2>7, <2>8, <2>9, Zenon
<1> QED
    BY <1>1, <1>3, <1>4, <1>5, <1>6, <1>7, <1>8, Zenon

-----------------------------------------------------------------------------
(* The inductive invariant. *)

LEMMA TypeNext ==
    ASSUME WindowType', it' \in [Iterators -> IteratorRecords]
    PROVE  TypeOK'
BY Zenon DEF TypeOK, WindowType, IteratorRecords, ItemRecords, Slots, Items

LEMMA InitInv == Init => Inv
<1> SUFFICES ASSUME Init PROVE Inv
    OBVIOUS
<1> USE DEF Init
<1>1. length \in Nat /\ length \in Lengths
    BY WindowAssumption
<1>2. skipped \in SUBSET Items /\ (~only_user_mode => skipped = {})
    BY Zenon DEF SkippedBetween
<1>3. 0 \in Slots /\ Size \in Nat
    BY SizeFacts DEF Slots
<1>4. ResetItem \in ItemRecords /\ ResetItem.index = 0
    BY <1>1 DEF ResetItem, ItemRecords
<1>5. WindowType
    <2>1. buf \in [Slots -> ItemRecords]
        BY <1>4, Zenon
    <2>2. 0 \in 0..length /\ 0 \in Nat
        BY <1>1
    <2> QED
        BY <1>1, <1>2, <1>3, <2>1, <2>2, Zenon DEF WindowType
<1>6. it \in [Iterators -> IteratorRecords]
    <2>1. NoIterator \in IteratorRecords
        BY <1>3 DEF NoIterator, IteratorRecords
    <2> QED
        BY <2>1, Zenon
<1>7. TypeOK
    BY <1>5, <1>6, TypeSplit
<1>8. Stream
    <2>1. Num(0) = 0
        <3>1. Num(0) \in Nat /\ Num(0) <= 0
            BY <1>7, NumFacts
        <3> QED
            BY <3>1
    <2>2. num_skipped = stream_pos - Num(stream_pos)
        BY <2>1
    <2> QED
        BY <1>2, <2>2, Zenon DEF Stream
<1>9. NumbersCountItems
    <2>1. \A p \in Slots : buf[p].index = 0
        BY <1>4, Zenon
    <2> QED
        BY <2>1, Zenon DEF NumbersCountItems
<1>10. Empty
    <2>1. \A i \in Iterators : it[i] = NoIterator
        BY Zenon
    <2>2. ~NoIterator.sound
        BY DEF NoIterator
    <2> QED
        BY <2>1, <2>2, Zenon DEF Empty
<1> QED
    BY <1>7, <1>8, <1>9, <1>10, Zenon DEF Inv

\* The ring is filled from its first slot, and one iterator starts there.
LEMMA RefillKeeps ==
    ASSUME Inv, UNCHANGED trace, NEW pos \in 0..length, num_skipped = pos - Num(pos),
           InitItemBuffer(pos, pos), NEW i \in Iterators,
           it' \in [Iterators -> {FirstIterator} \cup IteratorRecords], it'[i] = FirstIterator,
           \A j \in Iterators \ {i} : it'[j] \in IteratorRecords
                                        /\ (it'[j].sound => it'[j].end)
    PROVE  Inv'
<1> SUFFICES ASSUME NEW n, n = Delivered(pos, Size), NEW lo, lo = Num(pos) + 1
             PROVE  Inv'
    OBVIOUS
<1>1. TypeOK /\ (~only_user_mode => skipped = {})
    BY Zenon DEF Inv, Stream
<1>2. WindowType' /\ Stream' /\ NumbersCountItems' /\ buffered'
    BY <1>1, InitWindow
<1>3. /\ n \in 0..Size /\ lo \in Nat \ {0} /\ (buffer_is_empty' <=> n = 0)
      /\ n = 0 => tail' = 0 /\ \A p \in Slots : buf'[p] = ResetItem
      /\ n # 0 => /\ Last' = (Num(stream_pos))' /\ Last' = lo + n - 1
                  /\ Filled(lo)' /\ Head(lo)'
                  /\ at_eof' \/ tail' \in {Size - 1, Half - 1}
                  /\ buf'[0].index = lo
                  /\ \A r \in IteratorRecords :
                        r.index = lo /\ r.loc = 0 => Placed(r, lo)'
    BY <1>1, InitRing
<1>4. 0 \in Slots
    BY SizeFacts DEF Slots
<1>5. /\ FirstIterator.index = buf'[0].index /\ FirstIterator.loc = 0
      /\ FirstIterator.end = buffer_is_empty'
    BY DEF FirstIterator
<1>6. FirstIterator \in IteratorRecords
    <2>1. buf'[0].index \in Nat
        <3>1. CASE n = 0
            <4>1. buf'[0] = ResetItem
                BY <1>3, <1>4, <3>1, Zenon
            <4> QED
                BY <4>1 DEF ResetItem
        <3>2. CASE n # 0
            BY <1>3, <3>2
        <3> QED
            BY <3>1, <3>2
    <2>2. buffer_is_empty' \in BOOLEAN
        BY <1>2, Zenon DEF WindowType
    <2> QED
        BY <1>4, <2>1, <2>2, Zenon DEF FirstIterator, IteratorRecords
<1>7. it' \in [Iterators -> IteratorRecords]
    BY <1>6, Zenon
<1>8. TypeOK'
    BY <1>2, <1>7, TypeNext
<1>9. CASE n = 0
    <2>1. FirstIterator.end
        BY <1>3, <1>5, <1>9, Zenon
    <2>2. \A j \in Iterators : it'[j].sound => it'[j].end
        BY <2>1, Zenon
    <2>3. Empty'
        BY <1>3, <1>9, <2>2, Zenon DEF Empty, Slots, ResetItem
    <2> QED
        BY <1>2, <1>3, <1>8, <1>9, <2>3, Zenon DEF Inv
<1>10. CASE n # 0
    <2>1. \A r \in IteratorRecords : r.index = lo /\ r.loc = 0 => Placed(r, lo)'
        BY <1>3, <1>10, Zenon
    <2>2. ASSUME NEW j \in Iterators PROVE Placed(it[j], lo)'
        <3>1. CASE j = i
            <4>1. it'[i] \in IteratorRecords /\ it'[i].index = lo /\ it'[i].loc = 0
                BY <1>3, <1>5, <1>6, <1>10, Zenon
            <4> QED
                BY <2>1, <3>1, <4>1, Zenon DEF Placed
        <3>2. CASE j # i
            <4>1. it'[j].sound => it'[j].end
                BY <3>2, Zenon
            <4> QED
                BY <4>1, Zenon DEF Placed
        <3> QED
            BY <3>1, <3>2
    <2>3. lo \in 1..Last'
        BY <1>3, <1>10
    <2>4. Holds(lo)'
        BY <1>3, <1>10, <2>2, Zenon DEF Holds
    <2>5. Ring'
        <3>1. Last' = (Num(stream_pos))'
            BY <1>3, <1>10, Zenon
        <3>2. \E l \in 1..Last' : Holds(l)'
            BY <2>3, <2>4, Zenon
        <3>3. at_eof' \/ tail' \in {Size - 1, Half - 1}
            BY <1>3, <1>10, Zenon
        <3> QED
            BY <3>1, <3>2, <3>3, Zenon DEF Ring
    <2> QED
        BY <1>2, <1>3, <1>8, <1>10, <2>5, Zenon DEF Inv
<1> QED
    BY <1>3, <1>9, <1>10, Zenon

\* Nothing but the iterators changes.
LEMMA SameWindow ==
    ASSUME Inv, UNCHANGED <<trace, window>>
    PROVE  /\ WindowType' /\ Stream' /\ NumbersCountItems' /\ (~buffered' => buffer_is_empty')
           /\ tail' = tail /\ buf' = buf /\ buffer_is_empty' = buffer_is_empty
           /\ at_eof' = at_eof
           /\ Last' = Last /\ (Num(stream_pos))' = Num(stream_pos)
           /\ \A lo : /\ Filled(lo) => Filled(lo)'
                      /\ Head(lo) => Head(lo)'
                      /\ \A r : Placed(r, lo) => Placed(r, lo)'
<1> USE DEF trace, window, reading, ring
<1>1. WindowType'
    <2>1. WindowType
        BY TypeSplit DEF Inv
    <2> QED
        BY <2>1, Zenon DEF WindowType, ItemRecords, Slots, Items
<1>2. (Num(stream_pos))' = Num(stream_pos)
    BY Zenon DEF Num, UpTo, Unskipped, Items
<1>3. Stream'
    BY <1>2, Zenon DEF Stream, Inv
<1>4. NumbersCountItems'
    BY Zenon DEF Inv, NumbersCountItems, Slots, Unskipped, Items
<1>5. Last' = Last /\ tail' = tail /\ buf' = buf /\ at_eof' = at_eof
    BY DEF Last
<1>6. ASSUME NEW lo
      PROVE  /\ Filled(lo) => Filled(lo)'
             /\ Head(lo) => Head(lo)'
             /\ \A r : Placed(r, lo) => Placed(r, lo)'
    <2>1. Filled(lo) => Filled(lo)'
        BY Zenon DEF Filled, Age, Behind, Last, Slots
    <2>2. Head(lo) => Head(lo)'
        BY Zenon DEF Head, Age, Behind
    <2>3. \A r : Placed(r, lo) => Placed(r, lo)'
        BY Zenon DEF Placed, Multiple, Last
    <2> QED
        BY <2>1, <2>2, <2>3
<1>7. buffer_is_empty' = buffer_is_empty /\ (~buffered' => buffer_is_empty')
    BY Zenon DEF Inv
<1> QED
    BY <1>1, <1>2, <1>3, <1>4, <1>5, <1>6, <1>7, Zenon

\* If the window stays as it is, what holds of the iterators is enough.
LEMMA SameWindowKeeps ==
    ASSUME Inv, UNCHANGED <<trace, window>>, it' \in [Iterators -> IteratorRecords],
           \A j \in Iterators :
              /\ buffer_is_empty /\ it'[j].sound => it'[j].end
              /\ \A lo \in 1..Last : ~buffer_is_empty /\ Holds(lo) => Placed(it'[j], lo)
    PROVE  Inv'
<1>1. /\ WindowType' /\ Stream' /\ NumbersCountItems' /\ (~buffered' => buffer_is_empty')
      /\ tail' = tail /\ buf' = buf /\ buffer_is_empty' = buffer_is_empty
      /\ at_eof' = at_eof
      /\ Last' = Last /\ (Num(stream_pos))' = Num(stream_pos)
    BY SameWindow, Zenon
<1>2. TypeOK'
    BY <1>1, TypeNext
<1>3. CASE buffer_is_empty
    <2>1. Empty
        BY <1>3, Zenon DEF Inv
    <2>2. Empty'
        BY <1>1, <1>3, <2>1, Zenon DEF Empty, Slots, ResetItem
    <2> QED
        BY <1>1, <1>2, <1>3, <2>2, Zenon DEF Inv
<1>4. CASE ~buffer_is_empty
    <2>1. Ring
        BY <1>4, Zenon DEF Inv
    <2>2. PICK lo \in 1..Last : Holds(lo)
        BY <2>1, Zenon DEF Ring
    <2>3. Filled(lo)' /\ Head(lo)'
        <3>1. Filled(lo) /\ Head(lo)
            BY <2>2, Zenon DEF Holds
        <3> QED
            BY <3>1, SameWindow, Zenon
    <2>4. ASSUME NEW j \in Iterators PROVE Placed(it[j], lo)'
        <3>1. Placed(it'[j], lo)
            BY <1>4, <2>2, Zenon
        <3> QED
            BY <1>1, <3>1, Zenon DEF Placed, Multiple
    <2>5. Holds(lo)'
        BY <2>3, <2>4, Zenon DEF Holds
    <2>6. Ring'
        <3>1. at_eof' \/ tail' \in {Size - 1, Half - 1}
            BY <1>1, <2>1, Zenon DEF Ring
        <3>2. Last' = (Num(stream_pos))'
            BY <1>1, <2>1, Zenon DEF Ring
        <3>3. \E l \in 1..Last' : Holds(l)'
            BY <1>1, <2>5, Zenon
        <3> QED
            BY <3>1, <3>2, <3>3, Zenon DEF Ring
    <2> QED
        BY <1>1, <1>2, <1>4, <2>6, Zenon DEF Inv
<1> QED
    BY <1>3, <1>4

LEMMA IndexFacts ==
    ASSUME TypeOK, NumbersCountItems, NEW p \in Slots
    PROVE  buf[p].index \in Nat /\ buf[p] \in ItemRecords
<1>1. buf[p] \in ItemRecords
    BY DEF TypeOK
<1>2. buf[p].index # 0 => buf[p].at \in Unskipped /\ buf[p].index = Num(buf[p].at)
    BY Zenon DEF NumbersCountItems, Num, UpTo
<1>3. CASE buf[p].index = 0
    BY <1>1, <1>3
<1>4. CASE buf[p].index # 0
    <2>1. buf[p].at \in Nat
        BY <1>2, <1>4, TraceFacts
    <2> QED
        BY <1>1, <1>2, <1>4, <2>1, NumFacts
<1> QED
    BY <1>3, <1>4

LEMMA BeginFirstKeeps == ASSUME Inv, NEW i \in Iterators, BeginFirst(i) PROVE Inv'
<1>1. /\ TypeOK /\ raw_read = stream_pos /\ num_skipped = stream_pos - Num(stream_pos)
      /\ at_eof => stream_pos = length
      /\ stream_pos \in 0..length
    BY Zenon DEF Inv, Stream, TypeOK
<1>2. Empty
    BY Zenon DEF Inv, BeginFirst
<1>3. InitItemBuffer(stream_pos, stream_pos) /\ it' = [it EXCEPT ![i] = FirstIterator]
    BY <1>1, Zenon DEF BeginFirst
<1>4. it \in [Iterators -> IteratorRecords]
    BY <1>1, TypeSplit
<1>5. /\ it' \in [Iterators -> {FirstIterator} \cup IteratorRecords]
      /\ it'[i] = FirstIterator
      /\ \A j \in Iterators \ {i} : it'[j] = it[j]
    BY <1>3, <1>4, Zenon
<1>6. \A j \in Iterators \ {i} : it'[j] \in IteratorRecords /\ (it'[j].sound => it'[j].end)
    BY <1>2, <1>4, <1>5, Zenon DEF Empty
<1>7. UNCHANGED trace
    BY Zenon DEF BeginFirst
<1> QED
    BY <1>1, <1>3, <1>5, <1>6, <1>7, RefillKeeps

LEMMA BeginAgainKeeps == ASSUME Inv, NEW i \in Iterators, BeginAgain(i) PROVE Inv'
<1> DEFINE r == [index |-> buf[head].index, loc |-> 0, end |-> buffer_is_empty,
                 sound |-> head = 0 /\ buf[0].index # 0]
<1>1. TypeOK /\ NumbersCountItems /\ head \in Slots /\ tail \in Slots /\ buffer_is_empty \in BOOLEAN
    BY Zenon DEF Inv, TypeOK
<1>2. it' = [it EXCEPT ![i] = r] /\ UNCHANGED <<trace, window>>
    BY Zenon DEF BeginAgain
<1>3. 0 \in Slots /\ Size \in Nat /\ Size >= 4 /\ Half \in Nat /\ Half >= 2
    BY SizeFacts DEF Slots
<1>4. /\ r.index = buf[head].index /\ r.loc = 0 /\ r.end = buffer_is_empty
      /\ r.sound <=> head = 0 /\ buf[0].index # 0
      /\ r \in IteratorRecords
    <2>1. buf[head].index \in Nat
        BY <1>1, IndexFacts
    <2>2. (head = 0 /\ buf[0].index # 0) \in BOOLEAN
        OBVIOUS
    <2> QED
        BY <1>1, <1>3, <2>1, <2>2, Zenon DEF IteratorRecords
<1> HIDE DEF r
<1>5. it \in [Iterators -> IteratorRecords]
    BY <1>1, TypeSplit
<1>6. /\ it' \in [Iterators -> IteratorRecords] /\ it'[i] = r
      /\ \A j \in Iterators \ {i} : it'[j] = it[j]
    BY <1>2, <1>4, <1>5, Zenon
<1>7. ASSUME NEW lo \in 1..Last, ~buffer_is_empty, Holds(lo) PROVE Placed(r, lo)
    <2> SUFFICES ASSUME r.sound
                 PROVE  /\ r.index \in lo..Last
                        /\ Multiple(Last - r.index - tail + r.loc)
                        /\ r.index = Last => at_eof
        BY Zenon DEF Placed
    <2>1. r.index = buf[0].index /\ buf[0].index # 0 /\ buf[0].index \in Nat
        BY <1>1, <1>4, IndexFacts
    <2>2. Age(0) = tail
        BY <1>1, <1>3 DEF Age, Behind, Slots
    <2>3. buf[0].index = Last - tail /\ lo <= Last - tail
        BY <1>3, <1>7, <2>1, <2>2, Zenon DEF Holds, Filled
    <2>4. Last \in Nat /\ tail \in Nat
        BY <1>1, IndexFacts DEF Last, Slots
    <2>5. r.index \in lo..Last
        BY <2>1, <2>3, <2>4
    <2>6. Last - r.index - tail + r.loc = 0
        BY <1>4, <2>1, <2>3, <2>4
    <2>7. r.index = Last => at_eof
        <3>1. r.index = Last => tail = 0
            BY <2>1, <2>3, <2>4
        <3>2. tail \notin {Size - 1, Half - 1} => at_eof
            BY <1>7, Zenon DEF Inv, Ring
        <3>3. tail = 0 => tail \notin {Size - 1, Half - 1}
            BY <1>3
        <3> QED
            BY <3>1, <3>2, <3>3, Zenon
    <2> QED
        BY <2>5, <2>6, <2>7, Multiples, Zenon
<1>8. ASSUME NEW j \in Iterators
      PROVE  /\ buffer_is_empty /\ it'[j].sound => it'[j].end
             /\ \A lo \in 1..Last : ~buffer_is_empty /\ Holds(lo) => Placed(it'[j], lo)
    <2>1. CASE j = i
        BY <1>4, <1>6, <1>7, <2>1, Zenon
    <2>2. CASE j # i
        <3>1. it'[j] = it[j]
            BY <1>6, <2>2, Zenon
        <3>2. buffer_is_empty /\ it[j].sound => it[j].end
            BY Zenon DEF Inv, Empty
        <3> QED
            BY <3>1, <3>2, Zenon DEF Holds
    <2> QED
        BY <2>1, <2>2
<1> QED
    BY <1>2, <1>6, <1>8, SameWindowKeeps

LEMMA CopyKeeps ==
    ASSUME Inv, NEW i \in Iterators, NEW j \in Iterators, Copy(i, j) PROVE Inv'
<1>1. it' = [it EXCEPT ![j] = it[i]] /\ UNCHANGED <<trace, window>>
    BY Zenon DEF Copy
<1>2. it \in [Iterators -> IteratorRecords]
    BY TypeSplit DEF Inv
<1>3. it' \in [Iterators -> IteratorRecords] /\ \A k \in Iterators : it'[k] \in {it[k], it[i]}
    BY <1>1, <1>2, Zenon
<1>4. ASSUME NEW k \in Iterators
      PROVE  /\ buffer_is_empty /\ it[k].sound => it[k].end
             /\ \A lo \in 1..Last : ~buffer_is_empty /\ Holds(lo) => Placed(it[k], lo)
    BY Zenon DEF Inv, Empty, Holds
<1>5. ASSUME NEW k \in Iterators
      PROVE  /\ buffer_is_empty /\ it'[k].sound => it'[k].end
             /\ \A lo \in 1..Last : ~buffer_is_empty /\ Holds(lo) => Placed(it'[k], lo)
    BY <1>3, <1>4, Zenon
<1> QED
    BY <1>1, <1>3, <1>5, SameWindowKeeps

LEMMA StutterKeeps == ASSUME Inv, UNCHANGED <<trace, window, it>> PROVE Inv'
<1>1. it \in [Iterators -> IteratorRecords] /\ it' = it
    BY TypeSplit DEF Inv
<1>2. ASSUME NEW k \in Iterators
      PROVE  /\ buffer_is_empty /\ it'[k].sound => it'[k].end
             /\ \A lo \in 1..Last : ~buffer_is_empty /\ Holds(lo) => Placed(it'[k], lo)
    BY <1>1, Zenon DEF Inv, Empty, Holds
<1>3. it' \in [Iterators -> IteratorRecords]
    BY <1>1, Zenon
<1> QED
    BY <1>2, <1>3, SameWindowKeeps

\* The window in front of an iterator that moves on.
LEMMA IncrementWindow ==
    ASSUME Inv, NEW i \in Iterators, Increment(i), ~buffer_is_empty, NEW lo \in 1..Last, Holds(lo)
    PROVE  /\ WindowType' /\ Stream' /\ NumbersCountItems' /\ (~buffered' => buffer_is_empty')
           /\ ~buffer_is_empty'
           /\ Last \in Nat /\ Last' \in Nat /\ Last <= Last'
           /\ Last' = (Num(stream_pos))' /\ Filled(lo)' /\ Head(lo)'
           /\ at_eof' \/ tail' \in {Size - 1, Half - 1}
           /\ \A r \in IteratorRecords : Placed(r, lo) => Placed(r, lo)'
           /\ it[i].index + 1 = Last' /\ it[i].index <= Last /\ it[i].loc # tail'
                /\ it[i].sound /\ ~it[i].end => at_eof'
<1>1. /\ TypeOK /\ Stream /\ NumbersCountItems /\ Last = Num(stream_pos) /\ UNCHANGED trace
      /\ Filled(lo) /\ Head(lo) /\ \A j \in Iterators : Placed(it[j], lo)
      /\ at_eof \/ tail \in {Size - 1, Half - 1}
      /\ ~buffered => buffer_is_empty
    BY Zenon DEF Inv, Ring, Holds, Increment
<1>2. /\ tail \in Slots /\ it \in [Iterators -> IteratorRecords]
      /\ it[i] \in IteratorRecords /\ it[i].index \in Nat /\ it[i].loc \in Slots
    <2>1. it \in [Iterators -> IteratorRecords] /\ tail \in Slots
        BY <1>1, TypeSplit DEF WindowType
    <2> QED
        BY <2>1 DEF IteratorRecords
<1>3. Last \in Nat
    BY <1>1, <1>2, IndexFacts DEF Last
<1>4. CASE MustFill(i)
    <2>1. FillHalfBuffer
        BY <1>4, Zenon DEF Increment
    <2> SUFFICES ASSUME NEW n, n = Delivered(stream_pos, Half) PROVE
           /\ WindowType' /\ Stream' /\ NumbersCountItems' /\ (~buffered' => buffer_is_empty')
           /\ ~buffer_is_empty'
           /\ Last' \in Nat /\ Last <= Last'
           /\ Last' = (Num(stream_pos))' /\ Filled(lo)' /\ Head(lo)'
           /\ at_eof' \/ tail' \in {Size - 1, Half - 1}
           /\ \A r \in IteratorRecords : Placed(r, lo) => Placed(r, lo)'
           /\ it[i].index + 1 = Last' /\ it[i].index <= Last => at_eof'
        BY <1>3, Zenon
    <2>2. WindowType' /\ Stream' /\ NumbersCountItems'
        BY <1>1, <2>1, FillWindow
    <2>3. /\ n \in 0..Half /\ (at_eof' <=> n < Half)
          /\ Last' = Last + n /\ Last' = (Num(stream_pos))'
          /\ Filled(lo)' /\ Head(lo)'
          /\ at_eof' \/ tail' \in {Size - 1, Half - 1}
          /\ \A r \in IteratorRecords : Placed(r, lo) => Placed(r, lo)'
        BY <1>1, <2>1, FillRing
    <2>4. Half \in Nat /\ Half >= 2
        BY SizeFacts
    <2>5. Last' \in Nat /\ Last <= Last'
        BY <1>3, <2>3
    <2>6. it[i].index + 1 = Last' /\ it[i].index <= Last => n < Half
        BY <1>2, <1>3, <2>3, <2>4
    <2>7. ~buffer_is_empty' /\ (~buffered' => buffer_is_empty')
        BY <1>1, <2>1, Zenon DEF FillHalfBuffer
    <2> QED
        BY <2>2, <2>3, <2>5, <2>6, <2>7, Zenon
<1>5. CASE ~MustFill(i)
    <2>1. UNCHANGED <<trace, window>>
        BY <1>1, <1>5, Zenon DEF Increment
    <2>2. /\ WindowType' /\ Stream' /\ NumbersCountItems' /\ (~buffered' => buffer_is_empty')
          /\ tail' = tail /\ buffer_is_empty' = buffer_is_empty
          /\ at_eof' = at_eof
          /\ Last' = Last /\ (Num(stream_pos))' = Num(stream_pos)
          /\ Filled(lo)' /\ Head(lo)'
          /\ \A r : Placed(r, lo) => Placed(r, lo)'
        BY <1>1, <2>1, SameWindow
    <2>3. ASSUME it[i].index + 1 = Last', it[i].sound, ~it[i].end
          PROVE  at_eof'
        <3>1. Multiple(Last - it[i].index - tail + it[i].loc)
            BY <1>1, <2>3, Zenon DEF Placed
        <3> DEFINE x == 1 - tail + it[i].loc
        <3>2. Last - it[i].index - tail + it[i].loc = x
            BY <1>2, <1>3, <2>2, <2>3 DEF Slots
        <3>3. Multiple(x)
            BY <3>1, <3>2, Zenon
        <3>4. x \in Int /\ Size \in Int /\ x - Size \in Int
            BY <1>2, SizeFacts DEF Slots
        <3>5. x # 0
            <4>1. it[i].loc # tail - 1
                BY <1>5, Zenon DEF MustFill
            <4>2. it[i].loc \in Int /\ tail \in Int
                BY <1>2 DEF Slots
            <4> QED
                BY <4>1, <4>2
        <3>6. tail = 0
            <4>1. 0 - Size < x /\ x <= Size /\ (x = Size => tail = 0)
                BY <1>2, SizeFacts DEF Slots
            <4> HIDE DEF x
            <4>2. x < Size => x = 0
                BY <3>3, <3>4, <4>1, Multiples
            <4> QED
                BY <3>4, <3>5, <4>1, <4>2
        <3>7. tail \notin {Size - 1, Half - 1}
            BY <3>6, SizeFacts
        <3> QED
            BY <1>1, <2>2, <3>7, Zenon
    <2>4. Last' \in Nat /\ Last <= Last'
        BY <1>3, <2>2
    <2>5. Last' = (Num(stream_pos))'
        BY <1>1, <2>2, Zenon
    <2>6. at_eof' \/ tail' \in {Size - 1, Half - 1}
        BY <1>1, <2>2, Zenon
    <2> QED
        BY <1>3, <2>2, <2>3, <2>4, <2>5, <2>6, Zenon
<1> QED
    BY <1>4, <1>5

\* What becomes of an iterator that moves on.
LEMMA IncrementIterator ==
    ASSUME TypeOK, NEW i \in Iterators, Increment(i), tail' \in Slots
    PROVE  /\ it' \in [Iterators -> IteratorRecords]
           /\ \A j \in Iterators \ {i} : it'[j] = it[j]
           /\ it'[i].sound = it[i].sound
           /\ it[i].loc = tail' => it'[i].end
           /\ it[i].loc # tail' => /\ it'[i].end = it[i].end
                                   /\ it'[i].index = it[i].index + 1
                                   /\ it'[i].loc \in {it[i].loc + 1, it[i].loc + 1 - Size}
                                   /\ it'[i].loc \in Slots
<1>1. it \in [Iterators -> IteratorRecords] /\ it[i] \in IteratorRecords
    BY TypeSplit
<1>2. /\ it[i].index \in Nat /\ it[i].loc \in Slots /\ it[i].end \in BOOLEAN
      /\ it[i].sound \in BOOLEAN
    BY <1>1 DEF IteratorRecords
<1>3. it[i].index + 1 \in Nat
    BY <1>2
<1>4. /\ ((it[i].loc + 1) % Size) \in Slots
      /\ (it[i].loc + 1) % Size \in {it[i].loc + 1, it[i].loc + 1 - Size}
    <2>1. 1 \in 0..Size /\ it[i].loc \in Int /\ Size \in Int
        BY <1>2, SizeFacts DEF Slots
    <2>2. /\ it[i].loc + 1 < Size => (it[i].loc + 1) % Size = it[i].loc + 1
          /\ it[i].loc + 1 >= Size => (it[i].loc + 1) % Size = it[i].loc + 1 - Size
          /\ ((it[i].loc + 1) % Size) \in Slots
        BY <1>2, <2>1, WrapSum
    <2>3. it[i].loc + 1 < Size \/ it[i].loc + 1 >= Size
        BY <2>1
    <2> QED
        BY <2>2, <2>3, Zenon
<1>5. CASE it[i].loc = tail'
    <2>1. it' = [it EXCEPT ![i].end = TRUE]
        BY <1>5, Zenon DEF Increment
    <2>2. it'[i] = [it[i] EXCEPT !.end = TRUE] /\ \A j \in Iterators \ {i} : it'[j] = it[j]
        BY <1>1, <2>1
    <2>3. it'[i].end = TRUE /\ it'[i].sound = it[i].sound /\ it'[i] \in IteratorRecords
        BY <1>1, <2>2 DEF IteratorRecords
    <2>4. it' \in [Iterators -> IteratorRecords]
        BY <1>1, <2>1 DEF IteratorRecords
    <2> QED
        BY <1>5, <2>2, <2>3, <2>4, Zenon
<1>6. CASE it[i].loc # tail'
    <2>1. it' = [it EXCEPT ![i].index = @ + 1, ![i].loc = (@ + 1) % Size]
        BY <1>6, Zenon DEF Increment
    <2> DEFINE loc2 == (it[i].loc + 1) % Size
    <2>2. /\ it'[i] = [it[i] EXCEPT !.index = it[i].index + 1, !.loc = loc2]
          /\ \A j \in Iterators \ {i} : it'[j] = it[j]
        <3>1. it' = [it EXCEPT ![i] = [it[i] EXCEPT !.index = it[i].index + 1, !.loc = loc2]]
            BY <1>1, <2>1, Zenon
        <3> QED
            BY <1>1, <3>1, Zenon
    <2> HIDE DEF loc2
    <2>3. loc2 \in Slots /\ loc2 \in {it[i].loc + 1, it[i].loc + 1 - Size}
        BY <1>4 DEF loc2
    <2>4. /\ it'[i].end = it[i].end /\ it'[i].sound = it[i].sound
          /\ it'[i].index = it[i].index + 1 /\ it'[i].loc = loc2
          /\ it'[i] \in IteratorRecords
        BY <1>1, <1>3, <2>2, <2>3 DEF IteratorRecords
    <2>5. it' \in [Iterators -> IteratorRecords]
        <3>1. DOMAIN it' = Iterators /\ it' = [j \in Iterators |-> it'[j]]
            BY <1>1, <2>1
        <3>2. \A j \in Iterators : it'[j] \in IteratorRecords
            BY <1>1, <2>2, <2>4, Zenon
        <3> QED
            BY <3>1, <3>2, Zenon
    <2> QED
        BY <1>6, <2>2, <2>3, <2>4, <2>5, Zenon
<1> QED
    BY <1>5, <1>6

LEMMA IncrementKeeps == ASSUME Inv, NEW i \in Iterators, Increment(i) PROVE Inv'
<1>1. /\ TypeOK /\ it \in [Iterators -> IteratorRecords] /\ it[i] \in IteratorRecords
      /\ it[i].index \in Nat /\ it[i].loc \in Slots /\ ~it[i].end
    <2>1. TypeOK /\ it \in [Iterators -> IteratorRecords]
        BY TypeSplit DEF Inv
    <2>2. ~it[i].end
        BY Zenon DEF Increment, InWindow
    <2> QED
        BY <2>1, <2>2 DEF IteratorRecords
<1>2. CASE buffer_is_empty
    <2>1. Empty
        BY <1>2, Zenon DEF Inv
    <2>2. ~MustFill(i)
        <3>1. tail = 0
            BY <2>1 DEF Empty
        <3>2. it[i].loc # 0 - 1
            BY <1>1 DEF Slots
        <3> QED
            BY <3>1, <3>2 DEF MustFill
    <2>3. UNCHANGED <<trace, window>>
        BY <2>2, Zenon DEF Increment
    <2>4. tail' \in Slots
        BY <2>3 DEF window, ring, Inv, TypeOK
    <2>5. /\ it' \in [Iterators -> IteratorRecords]
          /\ \A j \in Iterators \ {i} : it'[j] = it[j]
          /\ it'[i].sound = it[i].sound
        BY <1>1, <2>4, IncrementIterator, Zenon
    <2>6. ASSUME NEW j \in Iterators
          PROVE  /\ buffer_is_empty /\ it'[j].sound => it'[j].end
                 /\ \A lo \in 1..Last : ~buffer_is_empty /\ Holds(lo) => Placed(it'[j], lo)
        <3>1. it[j].sound => it[j].end
            BY <2>1, Zenon DEF Empty
        <3> QED
            BY <1>1, <1>2, <2>5, <3>1, Zenon
    <2> QED
        BY <2>3, <2>5, <2>6, SameWindowKeeps
<1>3. CASE ~buffer_is_empty
    <2>1. PICK lo \in 1..Last : Holds(lo)
        BY <1>3, Zenon DEF Inv, Ring
    <2>2. /\ WindowType' /\ Stream' /\ NumbersCountItems' /\ (~buffered' => buffer_is_empty')
          /\ ~buffer_is_empty'
          /\ Last \in Nat /\ Last' \in Nat /\ Last <= Last'
          /\ Last' = (Num(stream_pos))' /\ Filled(lo)' /\ Head(lo)'
          /\ at_eof' \/ tail' \in {Size - 1, Half - 1}
          /\ \A r \in IteratorRecords : Placed(r, lo) => Placed(r, lo)'
          /\ it[i].index + 1 = Last' /\ it[i].index <= Last /\ it[i].loc # tail'
               /\ it[i].sound /\ ~it[i].end => at_eof'
        BY <1>3, <2>1, IncrementWindow
    <2>3. tail' \in Slots
        BY <2>2, Zenon DEF WindowType, Slots
    <2>4. /\ it' \in [Iterators -> IteratorRecords]
          /\ \A j \in Iterators \ {i} : it'[j] = it[j]
          /\ it'[i].sound = it[i].sound
          /\ it[i].loc = tail' => it'[i].end
          /\ it[i].loc # tail' => /\ it'[i].end = it[i].end
                                  /\ it'[i].index = it[i].index + 1
                                  /\ it'[i].loc \in {it[i].loc + 1, it[i].loc + 1 - Size}
                                  /\ it'[i].loc \in Slots
        BY <1>1, <2>3, IncrementIterator
    <2>5. ASSUME NEW j \in Iterators PROVE Placed(it[j], lo)
        BY <2>1, Zenon DEF Holds
    <2>6. ASSUME it[i].sound, it[i].loc # tail' PROVE Placed(it[i], lo)'
        <3>1. it[i].index \in lo..Last
            BY <1>1, <2>5, <2>6, Zenon DEF Placed
        <3>2. Multiple(Last' - it[i].index - tail' + it[i].loc)
            <4> SUFFICES ASSUME NEW r \in IteratorRecords, r = it[i]
                         PROVE  Multiple(Last' - r.index - tail' + r.loc)
                BY <1>1, Zenon
            <4>1. Placed(r, lo)'
                BY <2>2, <2>5, Zenon
            <4>2. r.sound /\ ~r.end
                BY <1>1, <2>6
            <4> QED
                BY <4>1, <4>2, Zenon DEF Placed, Multiple
        <3>3. /\ Last' \in Int /\ tail' \in Int /\ it[i].index \in Int /\ it[i].loc \in Int
              /\ lo \in Int /\ Size \in Int
            BY <1>1, <2>2, <2>3, SizeFacts DEF Slots
        <3>4. it[i].index # Last'
            <4> SUFFICES ASSUME it[i].index = Last' PROVE FALSE
                OBVIOUS
            <4> DEFINE x == it[i].loc - tail'
            <4>1. x = Last' - it[i].index - tail' + it[i].loc
                BY <3>3
            <4>2. x \in Int /\ 0 - Size < x /\ x < Size
                BY <1>1, <2>3, SizeFacts DEF Slots
            <4>3. x # 0
                BY <2>6, <3>3
            <4> HIDE DEF x
            <4>4. Multiple(x)
                BY <3>2, <4>1, Zenon
            <4> QED
                BY <4>2, <4>3, <4>4, Multiples
        <3>5. it[i].index + 1 \in lo..Last'
            BY <2>2, <3>1, <3>3, <3>4
        <3>6. /\ it'[i].index = it[i].index + 1
              /\ it'[i].loc \in {it[i].loc + 1, it[i].loc + 1 - Size}
            BY <2>4, <2>6
        <3>7. Multiple(Last' - it'[i].index - tail' + it'[i].loc)
            <4> DEFINE x == Last' - it[i].index - tail' + it[i].loc
            <4>1. x \in Int
                BY <3>3
            <4>2. Last' - it'[i].index - tail' + it'[i].loc \in {x, x - Size}
                BY <3>3, <3>6
            <4> HIDE DEF x
            <4>3. Multiple(x)
                BY <3>2 DEF x
            <4>4. Multiple(x - Size)
                BY <4>1, <4>3, Multiples
            <4> QED
                BY <4>2, <4>3, <4>4, Zenon
        <3>8. it'[i].index = Last' => at_eof'
            <4>1. it[i].index <= Last
                BY <2>2, <3>1, <3>3
            <4>2. it'[i].index = Last' => it[i].index + 1 = Last'
                BY <3>6
            <4> QED
                BY <1>1, <2>2, <2>6, <4>1, <4>2, Zenon
        <3>9. it'[i].index \in lo..Last'
            BY <3>5, <3>6
        <3> QED
            BY <3>7, <3>8, <3>9, Zenon DEF Placed, Multiple
    <2>7. ASSUME NEW j \in Iterators PROVE Placed(it[j], lo)'
        <3>1. CASE j # i
            <4>1. it'[j] = it[j] /\ it[j] \in IteratorRecords
                BY <1>1, <2>4, <3>1, Zenon
            <4> SUFFICES ASSUME NEW r \in IteratorRecords, r = it[j], it'[j] = r
                         PROVE  Placed(it[j], lo)'
                BY <4>1, Zenon
            <4>2. Placed(r, lo)'
                BY <2>2, <2>5, Zenon
            <4> QED
                BY <4>2, Zenon DEF Placed, Multiple
        <3>2. CASE j = i
            <4>1. CASE it[i].loc = tail' \/ ~it[i].sound
                BY <2>4, <3>2, <4>1, Zenon DEF Placed
            <4>2. CASE it[i].loc # tail' /\ it[i].sound
                BY <2>6, <3>2, <4>2, Zenon
            <4> QED
                BY <4>1, <4>2
        <3> QED
            BY <3>1, <3>2
    <2>8. Holds(lo)'
        BY <2>2, <2>7, Zenon DEF Holds
    <2>9. Ring'
        <3>1. lo \in 1..Last'
            BY <2>2
        <3>2. \E l \in 1..Last' : Holds(l)'
            BY <2>8, <3>1, Zenon
        <3> QED
            BY <2>2, <3>2, Zenon DEF Ring
    <2>10. TypeOK'
        BY <2>2, <2>4, TypeNext
    <2> QED
        BY <2>2, <2>9, <2>10, Zenon DEF Inv
<1> QED
    BY <1>2, <1>3

LEMMA SeekStart ==
    ASSUME Inv, NEW i \in Iterators, NEW n \in 1..MaxSeek, SeekAway(i, n),
           NEW skip, skip = IF at_eof THEN 0 ELSE n - NumBuffered(i),
           NEW pos, pos = stream_pos + skip
    PROVE  /\ skip \in Nat /\ pos \in 0..length
           /\ InitItemBuffer(pos, pos)
           /\ num_skipped = pos - Num(pos)
           /\ at_eof => pos = length
           /\ skipped = {}
<1>1. /\ TypeOK /\ raw_read = stream_pos /\ num_skipped = stream_pos - Num(stream_pos)
      /\ at_eof => stream_pos = length
      /\ stream_pos \in 0..length
      /\ ~only_user_mode => skipped = {}
    BY Zenon DEF Inv, Stream, TypeOK
<1>2. skipped = {}
    BY <1>1, Zenon DEF SeekAway, SeekStarts
<1>3. skip \in Nat
    <2>1. tail \in Slots /\ it[i].loc \in Slots
        BY <1>1 DEF TypeOK
    <2>2. n > NumBuffered(i)
        BY Zenon DEF SeekAway, SeekStarts
    <2>3. n \in Nat /\ NumBuffered(i) \in Int
        <3>1. MaxSeek \in Nat
            BY WindowAssumption
        <3> QED
            BY <2>1, <3>1, SizeFacts DEF NumBuffered, Slots
    <2> QED
        BY <2>2, <2>3
<1>4. pos <= length /\ InitItemBuffer(pos, pos)
    <2>1. /\ stream_pos + skip <= length
          /\ InitItemBuffer(stream_pos + skip, raw_read + skip)
        BY Zenon DEF SeekAway
    <2> QED
        BY <1>1, <2>1
<1>5. length \in Nat
    BY <1>1, TraceFacts
<1>6. pos \in 0..length
    BY <1>1, <1>3, <1>4, <1>5
<1>7. num_skipped = pos - Num(pos)
    <2>1. Num(stream_pos) = stream_pos /\ Num(pos) = pos
        BY <1>1, <1>2, <1>6, NothingSkipped
    <2> QED
        BY <1>1, <1>3, <1>5, <2>1
<1>8. at_eof => pos = length
    BY <1>1, <1>3, <1>4, <1>5
<1> QED
    BY <1>1, <1>2, <1>3, <1>4, <1>6, <1>7, <1>8, Zenon

\* The ring is filled anew and one iterator goes on in it.
LEMMA RestartKeeps ==
    ASSUME Inv, UNCHANGED trace, NEW pos \in 0..length, num_skipped = pos - Num(pos),
           InitItemBuffer(pos, pos), NEW i \in Iterators, Restart(i)
    PROVE  Inv' /\ it'[i] = FirstIterator
<1>1. it \in [Iterators -> IteratorRecords]
    BY TypeSplit DEF Inv
<1>2. it' = [j \in Iterators |-> IF j = i THEN FirstIterator
                                 ELSE [it[j] EXCEPT !.sound = FALSE]]
    BY Zenon DEF Restart
<1>3. ASSUME NEW j \in Iterators \ {i}
      PROVE  it'[j] \in IteratorRecords /\ ~it'[j].sound
    <2>1. it'[j] = [it[j] EXCEPT !.sound = FALSE] /\ it[j] \in IteratorRecords
        BY <1>1, <1>2, Zenon
    <2> QED
        BY <2>1 DEF IteratorRecords
<1>4. it'[i] = FirstIterator
    BY <1>2, Zenon
<1>5. it' \in [Iterators -> {FirstIterator} \cup IteratorRecords]
    <2>1. it' = [j \in Iterators |-> it'[j]]
        BY <1>2
    <2>2. \A j \in Iterators : it'[j] \in {FirstIterator} \cup IteratorRecords
        BY <1>3, <1>4, Zenon
    <2> QED
        BY <2>1, <2>2, Zenon
<1> QED
    BY <1>3, <1>4, <1>5, RefillKeeps

LEMMA SeekAwayKeeps ==
    ASSUME Inv, NEW i \in Iterators, NEW n \in 1..MaxSeek, SeekAway(i, n) PROVE Inv'
<1> SUFFICES ASSUME NEW skip, skip = IF at_eof THEN 0 ELSE n - NumBuffered(i),
                    NEW pos, pos = stream_pos + skip
             PROVE Inv'
    OBVIOUS
<1>1. pos \in 0..length /\ InitItemBuffer(pos, pos) /\ num_skipped = pos - Num(pos)
    BY SeekStart
<1>2. UNCHANGED trace /\ Restart(i)
    BY Zenon DEF SeekAway
<1> QED
    BY <1>1, <1>2, RestartKeeps

LEMMA NextInv == Inv /\ [Next]_vars => Inv'
<1> SUFFICES ASSUME Inv, [Next]_vars PROVE Inv'
    OBVIOUS
<1>1. ASSUME NEW i \in Iterators, BeginFirst(i) PROVE Inv'
    BY <1>1, BeginFirstKeeps
<1>2. ASSUME NEW i \in Iterators, BeginAgain(i) PROVE Inv'
    BY <1>2, BeginAgainKeeps
<1>3. ASSUME NEW i \in Iterators, Increment(i) PROVE Inv'
    BY <1>3, IncrementKeeps
<1>4. ASSUME NEW i \in Iterators, NEW j \in Iterators, Copy(i, j) PROVE Inv'
    BY <1>4, CopyKeeps
<1>5. ASSUME NEW i \in Iterators, NEW n \in 1..MaxSeek, SeekAway(i, n) PROVE Inv'
    BY <1>5, SeekAwayKeeps
<1>6. ASSUME NEW i \in Iterators, NEW n \in 1..MaxSeek, SeekRefused(i, n) PROVE Inv'
    <2>1. UNCHANGED <<trace, window, it>>
        BY <1>6, Zenon DEF SeekRefused
    <2> QED
        BY <2>1, StutterKeeps
<1>7. ASSUME UNCHANGED vars PROVE Inv'
    <2>1. UNCHANGED <<trace, window, it>>
        BY <1>7, Zenon DEF vars
    <2> QED
        BY <2>1, StutterKeeps
<1> QED
    BY <1>1, <1>2, <1>3, <1>4, <1>5, <1>6, <1>7, Zenon DEF Next

LEMMA Invariance == Spec => []Inv
BY InitInv, NextInv, PTL DEF Spec

-----------------------------------------------------------------------------
(* What the invariant says of the iterators. *)

\* The slot of a recent iterator is as far behind the tail as its number is
\* behind the number of the newest item.
LEMMA RecentFacts ==
    ASSUME Inv, NEW i \in Iterators, Recent(i)
    PROVE  /\ ~buffer_is_empty /\ ~it[i].end /\ it[i].sound
           /\ it[i].index \in Nat \ {0} /\ it[i].loc \in Slots /\ tail \in Slots
           /\ Last \in Nat /\ Last = Num(stream_pos)
           /\ Age(it[i].loc) = Last - it[i].index
           /\ Last - it[i].index \in 0..(Size - 2)
           /\ it[i].index = Last => at_eof
           /\ buf[it[i].loc].index = it[i].index
           /\ InWindow(i)
           /\ \E lo \in 1..Last : Holds(lo)
<1>1. /\ TypeOK /\ NumbersCountItems /\ it[i].sound /\ ~it[i].end
      /\ it[i].index > Last - (Size - 1)
    BY Zenon DEF Inv, Recent, Last
<1>2. /\ it[i].index \in Nat /\ it[i].loc \in Slots /\ tail \in Slots /\ head \in Slots
    BY <1>1 DEF TypeOK
<1>3. ~buffer_is_empty /\ Ring
    BY <1>1, Zenon DEF Inv, Empty
<1>4. Last = Num(stream_pos)
    BY <1>3, Zenon DEF Ring
<1>5. PICK lo \in 1..Last : Holds(lo)
    BY <1>3, Zenon DEF Ring
<1>6. /\ it[i].index \in lo..Last
      /\ Multiple(Last - it[i].index - tail + it[i].loc)
      /\ it[i].index = Last => at_eof
    BY <1>1, <1>5, Zenon DEF Holds, Placed
<1>7. Last \in Nat
    BY <1>1, <1>2, IndexFacts DEF Last
<1>8. Size \in Nat /\ Size >= 4 /\ lo \in Nat \ {0}
    BY <1>5, <1>7, SizeFacts
<1>9. Last - it[i].index \in 0..(Size - 2)
    BY <1>1, <1>2, <1>6, <1>7, <1>8
<1>10. /\ it[i].loc <= tail => Age(it[i].loc) = tail - it[i].loc
       /\ ~(it[i].loc <= tail) => Age(it[i].loc) = tail - it[i].loc + Size
       /\ Age(it[i].loc) \in Slots
    <2>1. Behind(it[i].loc, tail) \in Slots
        BY <1>2, BehindFacts
    <2> QED
        BY <2>1, Zenon DEF Age, Behind
<1>11. Age(it[i].loc) = Last - it[i].index
    <2> DEFINE x == Last - it[i].index - tail + it[i].loc
               y == Last - it[i].index - Age(it[i].loc)
    <2>1. x \in Int /\ x - Size \in Int /\ y \in {x, x - Size}
        BY <1>2, <1>7, <1>8, <1>10 DEF Slots
    <2>2. y \in Int /\ 0 - Size < y /\ y < Size
        BY <1>2, <1>7, <1>8, <1>9, <1>10 DEF Slots
    <2>3. Multiple(x)
        BY <1>6, Zenon
    <2>4. y = 0
        <3> HIDE DEF x, y
        <3>1. Multiple(x - Size)
            BY <2>1, <2>3, Multiples
        <3>2. Multiple(y)
            BY <2>1, <2>3, <3>1, Zenon
        <3> QED
            BY <2>2, <3>2, Multiples
    <2> QED
        BY <1>2, <1>7, <1>10, <2>4 DEF Slots
<1>12. buf[it[i].loc].index = it[i].index
    <2>1. lo <= Last - Age(it[i].loc) /\ Age(it[i].loc) < Size - 1
        BY <1>2, <1>6, <1>7, <1>8, <1>9, <1>11
    <2>2. buf[it[i].loc].index = Last - Age(it[i].loc)
        BY <1>2, <1>5, <2>1, Zenon DEF Holds, Filled
    <2> QED
        BY <1>2, <1>7, <1>11, <2>2
<1>13. buf[head].index <= it[i].index
    <2>1. buf[head].index \in Nat
        BY <1>1, <1>2, IndexFacts
    <2>2. CASE Age(head) = Size - 1
        <3>1. buf[head].index # 0 => buf[head].index = Last - Age(head)
            BY <1>2, <1>5, Zenon DEF Holds, Filled
        <3> QED
            BY <1>2, <1>7, <1>8, <1>9, <2>1, <2>2, <3>1
    <2>3. CASE buf[head].index <= lo
        BY <1>2, <1>6, <1>7, <1>8, <2>1, <2>3
    <2> QED
        BY <1>5, <2>2, <2>3, Zenon DEF Holds, Head
<1>14. it[i].index <= buf[tail].index
    BY <1>2, <1>6, <1>7 DEF Last
<1>15. InWindow(i)
    <2>1. it[i].index >= buf[head].index
        <3>1. buf[head].index \in Nat
            BY <1>1, <1>2, IndexFacts
        <3> QED
            BY <1>2, <1>13, <3>1
    <2> QED
        BY <1>1, <1>14, <2>1, Zenon DEF InWindow
<1>16. it[i].index \in Nat \ {0}
    BY <1>2, <1>6, <1>7, <1>8
<1> QED
    BY <1>1, <1>2, <1>3, <1>4, <1>5, <1>6, <1>7, <1>9, <1>11, <1>12, <1>15, <1>16, Zenon

LEMMA LooksBack == Inv => LookingBackIsSafe
<1> SUFFICES ASSUME Inv, NEW i \in Iterators, Recent(i)
             PROVE  InWindow(i) /\ buf[it[i].loc].index = it[i].index
    BY Zenon DEF LookingBackIsSafe
<1> QED
    BY RecentFacts, Zenon

LEMMA LooksBackNext == Inv' => LookingBackIsSafe'
BY LooksBack, PTL

LEMMA KnowsTheEnd == Inv => LastItemIsKnown
<1> SUFFICES ASSUME Inv, NEW i \in Iterators, Recent(i)
             PROVE  (last_item_read /\ it[i].loc = tail) <=> it[i].index = Cardinality(Unskipped)
    BY Zenon DEF LastItemIsKnown
<1>1. /\ it[i].index \in Nat /\ it[i].loc \in Slots /\ tail \in Slots
      /\ Last \in Nat /\ Last = Num(stream_pos)
      /\ Age(it[i].loc) = Last - it[i].index
      /\ Last - it[i].index \in 0..(Size - 2)
      /\ it[i].index = Last => at_eof
    BY RecentFacts
<1>2. /\ TypeOK /\ stream_pos \in 0..length
      /\ (at_eof => stream_pos = length) /\ (at_eof => last_item_read)
    BY Zenon DEF Inv, Stream, TypeOK
<1>3. /\ Cardinality(Ahead(stream_pos)) \in Nat /\ Num(length) = Cardinality(Unskipped)
      /\ Num(stream_pos) + Cardinality(Ahead(stream_pos)) = Num(length)
    BY <1>2, AheadFacts
<1>4. Age(it[i].loc) = 0 <=> it[i].loc = tail
    <2>1. Behind(it[i].loc, tail) = 0 <=> it[i].loc = tail
        BY <1>1, BehindFacts
    <2> QED
        BY <2>1, Zenon DEF Age
<1>5. ASSUME it[i].loc = tail PROVE it[i].index = Cardinality(Unskipped)
    <2>1. it[i].index = Last
        BY <1>1, <1>4, <1>5
    <2>2. stream_pos = length
        BY <1>1, <1>2, <2>1, Zenon
    <2> QED
        BY <1>1, <1>3, <2>1, <2>2
<1>6. ASSUME it[i].index = Cardinality(Unskipped) PROVE last_item_read /\ it[i].loc = tail
    <2>1. it[i].index = Last
        BY <1>1, <1>3, <1>6
    <2>2. Age(it[i].loc) = 0
        BY <1>1, <2>1
    <2> QED
        BY <1>1, <1>2, <1>4, <2>1, <2>2, Zenon
<1> QED
    BY <1>5, <1>6, Zenon

\* An increment of a recent iterator, in one step.
LEMMA IncrementVisits ==
    ASSUME Inv, Inv', NEW i \in Iterators, Recent(i), Increment(i)
    PROVE  IF it'[i].end THEN it[i].index = Cardinality(Unskipped)
           ELSE buf'[it'[i].loc].index = it[i].index + 1
<1>1. /\ ~buffer_is_empty /\ ~it[i].end /\ it[i].sound
      /\ it[i].index \in Nat \ {0} /\ it[i].loc \in Slots /\ tail \in Slots
      /\ Last \in Nat
      /\ Age(it[i].loc) = Last - it[i].index
      /\ Last - it[i].index \in 0..(Size - 2)
      /\ it[i].index = Last => at_eof
    BY RecentFacts
<1>2. PICK lo \in 1..Last : Holds(lo)
    BY RecentFacts
<1>3. /\ Last' \in Nat /\ Last <= Last'
      /\ \A r \in IteratorRecords : Placed(r, lo) => Placed(r, lo)'
    BY <1>1, <1>2, IncrementWindow, Zenon
<1>4. TypeOK /\ tail' \in Slots /\ Size \in Nat /\ Size = Half + Half /\ Half \in Nat /\ Half >= 2
    <2>1. tail' \in Slots
        BY Zenon DEF Inv, TypeOK, Slots
    <2> QED
        BY <2>1, SizeFacts DEF Inv
<1>5. /\ it'[i].sound = it[i].sound
      /\ it[i].loc = tail' => it'[i].end
      /\ it[i].loc # tail' => /\ it'[i].end = it[i].end
                              /\ it'[i].index = it[i].index + 1
                              /\ it'[i].loc \in Slots
    BY <1>4, IncrementIterator, Zenon
<1>6. /\ MustFill(i) => Last' - Last \in 0..Half /\ Last - it[i].index \in {1, Size - 1}
      /\ ~MustFill(i) => Last' = Last /\ tail' = tail
    <2>1. CASE MustFill(i)
        <3>1. FillHalfBuffer
            BY <2>1, Zenon DEF Increment
        <3> SUFFICES ASSUME NEW n, n = Delivered(stream_pos, Half)
                     PROVE  Last' - Last \in 0..Half /\ Last - it[i].index \in {1, Size - 1}
            BY <2>1, Zenon
        <3>2. /\ TypeOK /\ Stream /\ NumbersCountItems /\ Last = Num(stream_pos)
              /\ UNCHANGED trace /\ Filled(lo) /\ Head(lo)
              /\ at_eof \/ tail \in {Size - 1, Half - 1}
            BY <1>1, <1>2, Zenon DEF Inv, Ring, Holds, Increment
        <3>3. n \in 0..Half /\ Last' = Last + n
            BY <3>1, <3>2, FillRing
        <3>4. it[i].loc = tail - 1
            BY <2>1, Zenon DEF MustFill
        <3>5. Age(it[i].loc) = 1
            BY <1>1, <3>4 DEF Age, Behind, Slots
        <3> QED
            BY <1>1, <1>4, <3>3, <3>5
    <2>2. CASE ~MustFill(i)
        <3>1. UNCHANGED window
            BY <2>2, Zenon DEF Increment
        <3> QED
            BY <2>2, <3>1, Zenon DEF window, ring, Last
    <2> QED
        BY <2>1, <2>2
<1>7. CASE it[i].loc = tail'
    <2>1. it[i].index = Last /\ ~MustFill(i)
        <3>1. CASE MustFill(i)
            <4> SUFFICES ASSUME NEW r \in IteratorRecords, r = it[i] PROVE FALSE
                BY <1>4, TypeSplit, Zenon
            <4>1. Placed(r, lo)
                BY <1>2, Zenon DEF Holds
            <4>2. Multiple(Last' - r.index - tail' + r.loc)
                BY <1>1, <1>3, <4>1, Zenon DEF Placed, Multiple
            <4> DEFINE x == Last' - r.index
            <4>3. Last' - r.index - tail' + r.loc = x
                BY <1>1, <1>3, <1>4, <1>7 DEF Slots
            <4>4. it[i].loc = tail - 1 /\ Last - it[i].index = 1
                <5>1. it[i].loc = tail - 1
                    BY <3>1, Zenon DEF MustFill
                <5>2. Age(it[i].loc) = 1
                    BY <1>1, <5>1 DEF Age, Behind, Slots
                <5> QED
                    BY <1>1, <5>1, <5>2
            <4>5. x \in Int /\ 0 < x /\ x < Size
                BY <1>1, <1>3, <1>4, <1>6, <3>1, <4>4
            <4>6. Multiple(x)
                BY <4>2, <4>3, Zenon
            <4> HIDE DEF x
            <4> QED
                BY <1>4, <4>5, <4>6, Multiples
        <3>2. CASE ~MustFill(i)
            <4>1. it[i].loc = tail
                BY <1>6, <1>7, <3>2
            <4>2. Age(it[i].loc) = 0
                BY <1>1, <4>1 DEF Age, Behind, Slots
            <4> QED
                BY <1>1, <3>2, <4>2
        <3> QED
            BY <3>1, <3>2
    <2>2. at_eof /\ it[i].loc = tail
        BY <1>1, <1>6, <1>7, <2>1
    <2>3. last_item_read
        BY <2>2, Zenon DEF Inv, Stream
    <2>4. it[i].index = Cardinality(Unskipped)
        BY <2>2, <2>3, KnowsTheEnd, Zenon DEF LastItemIsKnown
    <2> QED
        BY <1>5, <1>7, <2>4, Zenon
<1>8. CASE it[i].loc # tail'
    <2>1. /\ ~it'[i].end /\ it'[i].sound /\ it'[i].index = it[i].index + 1
        BY <1>1, <1>5, <1>8, Zenon
    <2>2. it'[i].index > Last' - (Size - 1)
        <3>1. CASE MustFill(i)
            <4>1. it[i].loc = tail - 1
                BY <3>1, Zenon DEF MustFill
            <4>2. Age(it[i].loc) = 1
                BY <1>1, <4>1 DEF Age, Behind, Slots
            <4> QED
                BY <1>1, <1>3, <1>4, <1>6, <2>1, <3>1, <4>2
        <3>2. CASE ~MustFill(i)
            BY <1>1, <1>4, <1>6, <2>1, <3>2
        <3> QED
            BY <3>1, <3>2
    <2>3. Recent(i)'
        BY <2>1, <2>2, Zenon DEF Recent, Last
    <2>4. buf'[it'[i].loc].index = it'[i].index
        BY <2>3, LooksBackNext, Zenon DEF LookingBackIsSafe
    <2> QED
        BY <2>1, <2>4, Zenon
<1> QED
    BY <1>7, <1>8

\* A ring filled anew where nothing is skipped starts with the item behind the
\* stream's position.
LEMMA FreshStart ==
    ASSUME TypeOK, skipped = {}, UNCHANGED trace, NEW pos \in 0..length,
           num_skipped = pos - Num(pos), InitItemBuffer(pos, pos)
    PROVE  /\ buffer_is_empty' <=> pos = length
           /\ pos # length => buf'[0].at = pos + 1
<1> SUFFICES ASSUME NEW k, k = Delivered(pos, Size)
             PROVE  /\ buffer_is_empty' <=> pos = length
                    /\ pos # length => buf'[0].at = pos + 1
    OBVIOUS
<1>1. Size \in Nat \ {0} /\ length \in Nat /\ pos \in Nat /\ 0 \in Slots
    BY SizeFacts, TraceFacts DEF Slots
<1>2. /\ k \in 0..Size /\ (buffer_is_empty' <=> k = 0)
      /\ k # 0 => buf'[0].index = Num(pos) + 1
    BY InitRing
<1>3. Num(pos) = pos /\ Num(length) = length
    <2>1. length \in 0..length
        BY <1>1
    <2> QED
        BY <2>1, NothingSkipped
<1>4. k = 0 <=> pos = length
    <2>1. /\ Cardinality(Ahead(pos)) \in Nat
          /\ Num(pos) + Cardinality(Ahead(pos)) = Num(length)
        BY AheadFacts
    <2>2. /\ Delivered(pos, Size) < Size => Delivered(pos, Size) = Cardinality(Ahead(pos))
          /\ pos = length => Delivered(pos, Size) = 0
        BY <1>1, DeliveredFacts
    <2> QED
        BY <1>1, <1>3, <2>1, <2>2
<1>5. ASSUME k # 0 PROVE buf'[0].at = pos + 1
    <2>1. \A p \in Slots : p < k => buf'[p].at \in Unskipped
                                    /\ buf'[p].index = Num(buf'[p].at)
        BY InitSlots, Zenon
    <2>2. 0 < k
        BY <1>1, <1>2, <1>5
    <2>3. buf'[0].at \in Unskipped /\ buf'[0].index = Num(buf'[0].at)
        BY <1>1, <2>1, <2>2, Zenon
    <2>4. buf'[0].at \in 0..length
        BY <1>1, <2>3, TraceFacts
    <2>5. Num(buf'[0].at) = buf'[0].at
        BY <2>4, NothingSkipped
    <2> QED
        BY <1>2, <1>3, <1>5, <2>3, <2>5
<1> QED
    BY <1>2, <1>4, <1>5, Zenon

\* A seek away from a recent iterator, in one step.
LEMMA SeekLands ==
    ASSUME Inv, Inv', NEW i \in Iterators, NEW n \in 1..MaxSeek, Recent(i), SeekAway(i, n)
    PROVE  LandsAhead(i, n)
<1>1. /\ it[i].index \in Nat \ {0} /\ it[i].loc \in Slots /\ tail \in Slots
      /\ Last \in Nat /\ Last = Num(stream_pos)
      /\ Age(it[i].loc) = Last - it[i].index
      /\ Last - it[i].index \in 0..(Size - 2)
      /\ buf[it[i].loc].index = it[i].index
    BY RecentFacts
<1> SUFFICES ASSUME NEW skip, skip = IF at_eof THEN 0 ELSE n - NumBuffered(i),
                    NEW pos, pos = stream_pos + skip
             PROVE  LandsAhead(i, n)
    OBVIOUS
<1>2. /\ pos \in 0..length /\ InitItemBuffer(pos, pos)
      /\ num_skipped = pos - Num(pos) /\ (at_eof => pos = length)
      /\ skipped = {} /\ skip \in Nat
    BY SeekStart
<1>3. /\ TypeOK /\ NumbersCountItems /\ UNCHANGED trace /\ stream_pos \in 0..length
      /\ (at_eof => stream_pos = length)
    BY Zenon DEF Inv, Stream, TypeOK, SeekAway
<1>4. /\ Size \in Nat /\ Size >= 4 /\ length \in Nat /\ MaxSeek \in Nat /\ n \in Nat
    BY <1>3, SizeFacts, TraceFacts, WindowAssumption
<1>5. Num(stream_pos) = stream_pos /\ Num(pos) = pos /\ Num(length) = length
    <2>1. length \in 0..length
        BY <1>4
    <2> QED
        BY <1>2, <1>3, <2>1, NothingSkipped
<1>6. buf[it[i].loc].at = it[i].index
    <2>1. /\ buf[it[i].loc].at \in Unskipped
          /\ it[i].index = Num(buf[it[i].loc].at)
        BY <1>1, <1>3 DEF NumbersCountItems, Num, UpTo
    <2>2. buf[it[i].loc].at \in 0..length
        BY <1>3, <1>4, <2>1, TraceFacts
    <2>3. Num(buf[it[i].loc].at) = buf[it[i].loc].at
        BY <1>2, <1>3, <2>2, NothingSkipped
    <2> QED
        BY <2>1, <2>3
<1>7. NumBuffered(i) = Last - it[i].index + 1 /\ n > NumBuffered(i)
    <2>1. it[i].loc <= tail + 1 /\ n > NumBuffered(i)
        BY Zenon DEF SeekAway, SeekStarts
    <2>2. it[i].loc <= tail
        <3>1. it[i].loc = tail + 1 => Age(it[i].loc) = Size - 1
            BY <1>1, <1>4 DEF Age, Behind, Slots
        <3> QED
            BY <1>1, <1>4, <2>1, <3>1 DEF Slots
    <2>3. Age(it[i].loc) = tail - it[i].loc
        BY <2>2, Zenon DEF Age, Behind
    <2>4. NumBuffered(i) = tail - it[i].loc + 1
        BY DEF NumBuffered
    <2> QED
        BY <1>1, <2>1, <2>3, <2>4 DEF Slots
<1>8. /\ buffer_is_empty' <=> pos = length
      /\ pos # length => buf'[0].at = pos + 1
    BY <1>2, <1>3, FreshStart
<1>9. it'[i] = FirstIterator
    <2>1. it' = [j \in Iterators |-> IF j = i THEN FirstIterator
                                     ELSE [it[j] EXCEPT !.sound = FALSE]]
        BY Zenon DEF SeekAway, Restart
    <2> QED
        BY <2>1, Zenon
<1>10. it'[i].end = buffer_is_empty' /\ it'[i].loc = 0
    BY <1>9 DEF FirstIterator
<1>11. CASE pos = length
    <2>1. it[i].index + n > length
        <3>1. CASE at_eof
            <4>1. Last = length
                BY <1>1, <1>3, <1>5, <3>1
            <4> QED
                BY <1>1, <1>4, <1>7, <4>1
        <3>2. CASE ~at_eof
            <4>1. skip = n - NumBuffered(i)
                BY <3>2
            <4> QED
                BY <1>1, <1>3, <1>4, <1>5, <1>7, <1>11, <4>1
        <3> QED
            BY <3>1, <3>2
    <2>2. it'[i].end
        BY <1>8, <1>10, <1>11, Zenon
    <2> QED
        BY <1>6, <2>1, <2>2, Zenon DEF LandsAhead
<1>12. CASE pos # length
    <2>1. ~it'[i].end
        BY <1>8, <1>10, <1>12, Zenon
    <2>2. skip = n - NumBuffered(i)
        <3>1. ~at_eof
            BY <1>2, <1>12, Zenon
        <3> QED
            BY <3>1
    <2>3. pos + 1 = it[i].index + n
        BY <1>1, <1>3, <1>4, <1>5, <1>7, <2>2
    <2>4. buf'[it'[i].loc].at = buf[it[i].loc].at + n
        BY <1>6, <1>8, <1>10, <1>12, <2>3
    <2> QED
        BY <2>1, <2>4, Zenon DEF LandsAhead
<1> QED
    BY <1>11, <1>12

-----------------------------------------------------------------------------
(* Jumps.  A stream that seeks by the entry's offset is taken to the right     *)
(* place when every marker has an entry.                                       *)

Straight == ~Plain \/ Granularity = 1

\* What the scan has entered so far.
Entries ==
    /\ scanned \in 0..length
    /\ last_index \in Int /\ last_index < scanned
    /\ \A e \in index_map : /\ e.index \in Nat /\ e.index < scanned
                            /\ Granularity = 1 => e.offset = e.index
    /\ \A k \in Nat : k < scanned /\ Selected(k) => \E e \in index_map : e.index = k
    /\ Granularity = 1 => cur_offset = scanned
    /\ scan_done => stop_reading \/ scanned = length

\* A caller that waits is the only one, so that the scan is not stopped.
Request ==
    Waiting => /\ ~only_user_mode /\ ~stop_reading
               /\ request.index \in 0..(length + 1)
               /\ request.by \in Iterators

JumpInv == length \in Lengths /\ Entries /\ Request

\* findNearestEntry() finds an entry, and the index asked for is among the
\* markers between it and the next one.
EntryIsNearest ==
    Waiting /\ Found(request.index) =>
        LET e == NearestEntry(request.index)
        IN  /\ e \in index_map
            /\ e.index <= request.index
            /\ request.index < length => request.index < e.index + Granularity

LEMMA SelectedBefore ==
    ASSUME NEW x \in Nat
    PROVE  Selected(0) /\ \E k \in 0..x : Selected(k) /\ x < k + Granularity
<1>1. Granularity \in Nat \ {0}
    BY IndexerAssumption
<1> DEFINE q == x \div Granularity
           k == Granularity * q
<1>2. q \in Nat /\ x = Granularity * q + (x % Granularity)
      /\ x % Granularity \in 0..(Granularity - 1)
    BY <1>1, SMT
<1> HIDE DEF q
<1>3. k \in Nat
    BY <1>1, <1>2, SMT
<1>4. k % Granularity = 0 /\ 0 % Granularity = 0
    BY <1>1, <1>2, SMT
<1>5. x = k + (x % Granularity)
    BY <1>2
<1> HIDE DEF k
<1>6. k \in 0..x /\ x < k + Granularity
    BY <1>1, <1>2, <1>3, <1>5
<1> QED
    BY <1>4, <1>6, Zenon DEF Selected

LEMMA EveryMarkerSelected ==
    ASSUME Granularity = 1, NEW k \in Nat PROVE Selected(k)
<1>1. k % 1 = 0
    BY SMT
<1> QED
    BY <1>1, Zenon DEF Selected

\* A set of naturals with an upper bound in it or above it has a greatest one.
LEMMA GreatestUpTo ==
    ASSUME NEW S \in SUBSET Nat, S # {}, NEW x \in Nat, \A s \in S : s <= x
    PROVE  \E m \in S : \A s \in S : s <= m
<1> DEFINE T == {m \in Nat : \A s \in S : s <= m}
<1>1. T \in SUBSET Nat /\ x \in T
    OBVIOUS
<1>2. PICK m \in T : \A y \in T : m <= y
    <2> HIDE DEF T
    <2> QED
        BY <1>1, LeastElement
<1>3. m \in Nat /\ \A s \in S : s <= m
    BY <1>2
<1>4. m \in S
    <2> SUFFICES ASSUME m \notin S PROVE FALSE
        OBVIOUS
    <2>1. \A s \in S : s < m /\ s \in Nat
        BY <1>3
    <2>2. m # 0
        <3>1. PICK s \in S : s < m /\ s \in Nat
            BY <2>1
        <3> QED
            BY <3>1
    <2>3. m - 1 \in Nat /\ \A s \in S : s <= m - 1
        BY <1>3, <2>1, <2>2
    <2>4. m - 1 \in T
        BY <2>3
    <2>5. m <= m - 1
        BY <1>2, <2>4
    <2> QED
        BY <1>3, <2>5
<1> QED
    BY <1>3, <1>4

\* findNearestEntryUnsafe_ on the entries of a prefix of the trace.
LEMMA NearestFacts ==
    ASSUME JumpInv, Waiting, Found(request.index),
           NEW x, x = request.index, NEW e, e = NearestEntry(x)
    PROVE  /\ x \in Nat /\ e \in index_map /\ e.index \in Nat /\ e.index <= x
           /\ x < length => x < e.index + Granularity
<1>1. /\ length \in Nat /\ length # 0 /\ x \in Nat /\ Granularity \in Nat
    <2>1. length \in Nat \ {0}
        BY WindowAssumption DEF JumpInv
    <2>2. x \in 0..(length + 1)
        BY Zenon DEF JumpInv, Request
    <2> QED
        BY <2>1, <2>2, IndexerAssumption
<1>2. /\ scanned \in 0..length /\ last_index \in Int /\ last_index < scanned
      /\ \A f \in index_map : f.index \in Nat /\ f.index < scanned
      /\ \A k \in Nat : k < scanned /\ Selected(k) => \E f \in index_map : f.index = k
    BY Zenon DEF JumpInv, Entries
<1>3. x < scanned \/ scanned = length
    <2>1. last_index >= x \/ scan_done
        BY Zenon DEF Found
    <2>2. scan_done => scanned = length
        BY Zenon DEF JumpInv, Entries, Request
    <2>3. last_index >= x => x < scanned
        BY <1>1, <1>2
    <2> QED
        BY <2>1, <2>2, <2>3, Zenon
<1>4. \E f \in index_map : f.index <= x /\ (x < length => x < f.index + Granularity)
    <2>1. CASE x < scanned
        <3>1. PICK k \in 0..x : Selected(k) /\ x < k + Granularity
            BY <1>1, SelectedBefore
        <3>2. k \in Nat /\ k < scanned /\ k <= x
            BY <1>1, <1>2, <2>1
        <3>3. PICK f \in index_map : f.index = k
            BY <1>2, <3>1, <3>2, Zenon
        <3> QED
            BY <3>1, <3>2, <3>3, Zenon
    <2>2. CASE ~(x < scanned)
        <3>1. scanned = length /\ ~(x < length) /\ 0 < scanned
            BY <1>1, <1>3, <2>2
        <3>2. PICK f \in index_map : f.index = 0
            BY <1>1, <1>2, <3>1, SelectedBefore
        <3>3. f.index <= x
            BY <1>1, <3>2
        <3> QED
            BY <3>1, <3>3, Zenon
    <2> QED
        BY <2>1, <2>2
<1> DEFINE S == {f.index : f \in {g \in index_map : g.index <= x}}
<1>5. S \in SUBSET Nat /\ S # {} /\ \A s \in S : s <= x
    BY <1>2, <1>4
<1>6. \E m \in S : \A s \in S : s <= m
    <2> HIDE DEF S
    <2> QED
        BY <1>1, <1>5, GreatestUpTo
<1>7. \E f \in index_map : /\ f.index <= x
                           /\ \A g \in index_map : g.index <= x => g.index <= f.index
    BY <1>6, Zenon
<1>8. /\ e \in index_map /\ e.index <= x
      /\ \A g \in index_map : g.index <= x => g.index <= e.index
    BY <1>7, Zenon DEF NearestEntry
<1>9. x < length => x < e.index + Granularity
    <2>1. PICK f \in index_map : f.index <= x /\ (x < length => x < f.index + Granularity)
        BY <1>4
    <2>2. f.index <= e.index /\ f.index \in Nat /\ e.index \in Nat
        BY <1>2, <1>8, <2>1, Zenon
    <2> QED
        BY <1>1, <2>1, <2>2
<1> QED
    BY <1>1, <1>2, <1>8, <1>9, Zenon

LEMMA JumpInit == InitAll => JumpInv
<1> SUFFICES ASSUME InitAll PROVE JumpInv
    OBVIOUS
<1>1. length \in Lengths /\ length \in Nat
    BY WindowAssumption DEF InitAll, Init
<1>2. /\ index_map = {} /\ last_index = -1 /\ cur_offset = 0 /\ scanned = 0
      /\ scan_done = FALSE /\ request = NoRequest
    BY DEF InitAll, InitIndexer
<1>3. Entries
    BY <1>1, <1>2 DEF Entries
<1>4. ~Waiting
    BY <1>2 DEF Waiting, NoRequest
<1> QED
    BY <1>1, <1>3, <1>4, Zenon DEF JumpInv, Request

LEMMA NextKeepsTrace == [Next]_vars => UNCHANGED trace
BY Zenon DEF Next, vars, trace, BeginFirst, BeginAgain, Copy, Increment, SeekAway, SeekRefused

LEMMA ScanKeepsEntries ==
    ASSUME length \in Nat, Entries, UNCHANGED trace, ScanMarker(length) PROVE Entries'
<1>1. length' = length /\ scanned \in Nat /\ scanned < length /\ scanned' = scanned + 1
    BY DEF trace, Entries, ScanMarker, HasNext
<1>2. scanned' \in 0..length' /\ scanned < scanned'
    BY <1>1
<1>3. UNCHANGED <<scan_done, stop_reading>> /\ (scan_done => stop_reading)
    <2>1. scan_done => stop_reading \/ scanned = length
        BY Zenon DEF Entries
    <2>2. scanned # length
        BY <1>1
    <2> QED
        BY <2>1, <2>2, Zenon DEF ScanMarker
<1>4. \A k \in Nat : k < scanned' <=> k < scanned \/ k = scanned
    BY <1>1
<1>5. CASE Selected(scanned)
    <2> DEFINE new == [index |-> scanned, offset |-> cur_offset]
    <2>1. /\ index_map' = index_map \cup {new} /\ last_index' = scanned
          /\ cur_offset' = scanned'
        BY <1>1, <1>5 DEF ScanMarker
    <2>2. last_index' \in Int /\ last_index' < scanned'
        BY <1>1, <1>2, <2>1
    <2>3. new.index = scanned /\ new.offset = cur_offset
        OBVIOUS
    <2> HIDE DEF new
    <2>4. \A e \in index_map' : e.index \in Nat /\ e.index < scanned'
        <3> SUFFICES ASSUME NEW e \in index_map' PROVE e.index \in Nat /\ e.index < scanned'
            OBVIOUS
        <3>1. CASE e \in index_map
            <4>1. e.index \in Nat /\ e.index < scanned
                BY <3>1, Zenon DEF Entries
            <4> QED
                BY <1>1, <4>1
        <3>2. CASE e = new
            BY <1>1, <1>2, <2>3, <3>2
        <3> QED
            BY <2>1, <3>1, <3>2
    <2>5. Granularity = 1 => \A e \in index_map' : e.offset = e.index
        <3> SUFFICES ASSUME Granularity = 1, NEW e \in index_map' PROVE e.offset = e.index
            OBVIOUS
        <3>1. cur_offset = scanned /\ \A f \in index_map : f.offset = f.index
            BY Zenon DEF Entries
        <3> QED
            BY <2>1, <2>3, <3>1
    <2>6. \A k \in Nat : k < scanned' /\ Selected(k) => \E e \in index_map' : e.index = k
        <3> SUFFICES ASSUME NEW k \in Nat, k < scanned', Selected(k)
                     PROVE  \E e \in index_map' : e.index = k
            OBVIOUS
        <3>1. CASE k < scanned
            <4>1. \E e \in index_map : e.index = k
                BY <3>1, Zenon DEF Entries
            <4> QED
                BY <2>1, <4>1
        <3>2. CASE k = scanned
            BY <2>1, <2>3, <3>2
        <3> QED
            BY <1>4, <3>1, <3>2
    <2> QED
        BY <1>2, <1>3, <2>1, <2>2, <2>4, <2>5, <2>6, Zenon DEF Entries
<1>6. CASE ~Selected(scanned)
    <2>1. UNCHANGED <<index_map, last_index, cur_offset>>
        BY <1>6, Zenon DEF ScanMarker
    <2>2. last_index \in Int /\ last_index < scanned'
        <3>1. last_index \in Int /\ last_index < scanned
            BY Zenon DEF Entries
        <3> QED
            BY <1>1, <3>1
    <2>3. \A e \in index_map : e.index \in Nat /\ e.index < scanned'
        <3> SUFFICES ASSUME NEW e \in index_map PROVE e.index \in Nat /\ e.index < scanned'
            OBVIOUS
        <3>1. e.index \in Nat /\ e.index < scanned
            BY Zenon DEF Entries
        <3> QED
            BY <1>1, <3>1
    <2>4. \A k \in Nat : k < scanned' /\ Selected(k) => \E e \in index_map : e.index = k
        BY <1>4, <1>6, Zenon DEF Entries
    <2>5. Granularity # 1
        BY <1>1, <1>6, EveryMarkerSelected
    <2> QED
        BY <1>2, <1>3, <2>1, <2>2, <2>3, <2>4, <2>5, Zenon DEF Entries
<1> QED
    BY <1>5, <1>6

LEMMA IndexerKeeps == ASSUME JumpInv, Indexer PROVE JumpInv'
<1>1. UNCHANGED trace /\ length \in Nat /\ UNCHANGED request /\ length' = length
    BY WindowAssumption DEF JumpInv, Indexer, vars, trace
<1>2. Entries'
    <2>1. CASE ScanMarker(length)
        BY <1>1, <2>1, ScanKeepsEntries, Zenon DEF JumpInv
    <2>2. CASE ScanEnds(length)
        <3>1. UNCHANGED <<index_map, last_index, cur_offset, scanned, stop_reading>>
            BY <2>2, Zenon DEF ScanEnds
        <3>2. stop_reading \/ scanned = length
            <4>1. scanned \in 0..length /\ (stop_reading \/ ~(scanned < length))
                BY <2>2, Zenon DEF ScanEnds, HasNext, JumpInv, Entries
            <4>2. ~(scanned < length) => scanned = length
                BY <1>1, <4>1
            <4> QED
                BY <4>1, <4>2, Zenon
        <3> QED
            BY <1>1, <3>1, <3>2, Zenon DEF JumpInv, Entries
    <2>3. CASE JoinScan
        BY <1>1, <2>3, Zenon DEF JumpInv, Entries, JoinScan, index
    <2> QED
        BY <2>1, <2>2, <2>3, Zenon DEF Indexer, Scan
<1>3. stop_reading' = stop_reading
    BY Zenon DEF Indexer, Scan, ScanMarker, ScanEnds, JoinScan
<1>4. UNCHANGED only_user_mode
    BY <1>1, Zenon DEF trace
<1> QED
    BY <1>1, <1>2, <1>3, <1>4, Zenon DEF JumpInv, Request, Waiting

LEMMA CallerKeeps ==
    ASSUME JumpInv, UNCHANGED trace, UNCHANGED indexer,
           UNCHANGED request \/ request' = NoRequest
                \/ \E i \in Iterators, x \in 0..(length + 1) :
                      /\ request' = [by |-> i, index |-> x]
                      /\ ~only_user_mode /\ ~stop_reading
    PROVE  JumpInv'
<1>1. /\ length' = length /\ only_user_mode' = only_user_mode
      /\ UNCHANGED <<index_map, last_index, cur_offset, scanned, scan_done, stop_reading>>
    BY Zenon DEF trace, indexer, index
<1>2. length' \in Lengths /\ Entries'
    BY <1>1, Zenon DEF JumpInv, Entries
<1>3. CASE UNCHANGED request
    BY <1>1, <1>2, <1>3, Zenon DEF JumpInv, Request, Waiting
<1>4. CASE request' = NoRequest
    <2>1. ~Waiting'
        BY <1>4 DEF Waiting, NoRequest
    <2> QED
        BY <1>2, <2>1, Zenon DEF JumpInv, Request
<1>5. ASSUME NEW i \in Iterators, NEW x \in 0..(length + 1),
             request' = [by |-> i, index |-> x], ~only_user_mode, ~stop_reading
      PROVE  JumpInv'
    <2>1. request'.by = i /\ request'.index = x
        BY <1>5
    <2> QED
        BY <1>1, <1>2, <1>5, <2>1, Zenon DEF JumpInv, Request
<1> QED
    BY <1>3, <1>4, <1>5, Zenon

LEMMA JumpNext == JumpInv /\ [NextAll]_all => JumpInv'
<1> SUFFICES ASSUME JumpInv, [NextAll]_all PROVE JumpInv'
    OBVIOUS
<1>1. CASE Indexer
    BY <1>1, IndexerKeeps
<1>2. CASE JumpEnds
    BY <1>2, CallerKeeps, Zenon DEF JumpEnds, trace
<1>3. CASE JumpRefused
    BY <1>3, CallerKeeps, Zenon DEF JumpRefused
<1>4. CASE Next /\ UNCHANGED <<indexer, request>>
    <2>1. UNCHANGED trace
        BY <1>4, NextKeepsTrace
    <2>2. UNCHANGED indexer /\ UNCHANGED request
        BY <1>4, Zenon
    <2> QED
        BY <2>1, <2>2, CallerKeeps
<1>5. ASSUME NEW i \in Iterators, NEW x \in 0..(length + 1), JumpBegins(i, x), ~stop_reading
      PROVE  JumpInv'
    <2>1. UNCHANGED vars /\ UNCHANGED indexer /\ ~only_user_mode
          /\ request' = [by |-> i, index |-> x]
        BY <1>5, Zenon DEF JumpBegins
    <2>2. UNCHANGED trace
        BY <2>1, Zenon DEF vars
    <2> QED
        BY <1>5, <2>1, <2>2, CallerKeeps, Zenon
<1>6. CASE Destroy /\ ~Waiting
    <2>1. /\ UNCHANGED vars /\ UNCHANGED index /\ UNCHANGED <<cur_offset, scanned, request>>
          /\ stop_reading' = TRUE
        BY <1>6, Zenon DEF Destroy, StopScan
    <2>2. UNCHANGED length /\ UNCHANGED <<index_map, last_index, scan_done>>
        BY <2>1, Zenon DEF vars, trace, index
    <2>3. ~Waiting'
        BY <1>6, <2>1, Zenon DEF Waiting
    <2> QED
        BY <2>1, <2>2, <2>3, Zenon DEF JumpInv, Entries, Request
<1>7. CASE UNCHANGED all
    <2>1. UNCHANGED vars /\ UNCHANGED indexer /\ UNCHANGED request
        BY <1>7, Zenon DEF all
    <2>2. UNCHANGED trace
        BY <2>1, Zenon DEF vars
    <2> QED
        BY <2>1, <2>2, CallerKeeps
<1> QED
    BY <1>1, <1>2, <1>3, <1>4, <1>5, <1>6, <1>7, Zenon DEF NextAll, Caller

\* Where jumpToIndex() takes the stream.
LEMMA JumpStart ==
    ASSUME Inv, JumpInv, Straight, JumpEnds, NEW x, x = request.index
    PROVE  /\ x \in 0..length /\ InitItemBuffer(x, x) /\ num_skipped = x - Num(x)
           /\ skipped = {} /\ request.by \in Iterators /\ Restart(request.by)
           /\ UNCHANGED trace
<1>1. /\ Waiting /\ Found(request.index) /\ Restart(request.by) /\ UNCHANGED trace
      /\ Target(NearestEntry(x), x) <= length
      /\ InitItemBuffer(Target(NearestEntry(x), x), x)
    BY Zenon DEF JumpEnds, CountAfter
<1>2. x \in Nat /\ NearestEntry(x) \in index_map /\ NearestEntry(x).index \in Nat
    BY <1>1, NearestFacts
<1>3. Target(NearestEntry(x), x) = x
    <2>1. CASE ~Plain
        BY <2>1, Zenon DEF Target
    <2>2. CASE Granularity = 1
        <3>1. NearestEntry(x).offset = NearestEntry(x).index
            BY <1>2, <2>2, Zenon DEF JumpInv, Entries
        <3> QED
            BY <1>2, <3>1 DEF Target
    <2> QED
        BY <2>1, <2>2 DEF Straight
<1>4. TypeOK /\ length \in Nat /\ stream_pos \in 0..length
    BY TraceFacts DEF Inv, TypeOK
<1>5. x \in 0..length /\ InitItemBuffer(x, x)
    <2>1. x <= length /\ InitItemBuffer(x, x)
        BY <1>1, <1>3, Zenon
    <2> QED
        BY <1>2, <1>4, <2>1
<1>6. ~only_user_mode /\ request.by \in Iterators
    BY <1>1, Zenon DEF JumpInv, Request
<1>7. skipped = {} /\ num_skipped = stream_pos - Num(stream_pos)
    BY <1>6, Zenon DEF Inv, Stream
<1>8. num_skipped = x - Num(x)
    <2>1. Num(stream_pos) = stream_pos /\ Num(x) = x
        BY <1>4, <1>5, <1>7, NothingSkipped
    <2> QED
        BY <1>2, <1>4, <1>7, <2>1
<1> QED
    BY <1>1, <1>5, <1>6, <1>7, <1>8

\* The invariant of the window with jumps.
LEMMA NextAllInv == ASSUME Inv, JumpInv, Straight, [NextAll]_all PROVE Inv'
<1>1. CASE JumpEnds
    <2> SUFFICES ASSUME NEW x, x = request.index PROVE Inv'
        OBVIOUS
    <2>1. /\ x \in 0..length /\ InitItemBuffer(x, x) /\ num_skipped = x - Num(x)
          /\ request.by \in Iterators /\ Restart(request.by) /\ UNCHANGED trace
        BY <1>1, JumpStart
    <2> QED
        BY <2>1, RestartKeeps
<1>2. CASE Next
    BY <1>2, NextInv
<1>3. CASE UNCHANGED <<trace, window, it>>
    BY <1>3, StutterKeeps
<1> QED
    BY <1>1, <1>2, <1>3, Zenon
       DEF NextAll, Caller, JumpBegins, Destroy, Indexer, JumpRefused, all, vars

LEMMA JumpEndsLands ==
    ASSUME Inv, JumpInv, Straight, [NextAll]_all, Waiting, ~Waiting', ~failed',
           NEW i, i = it'[request.by]
    PROVE  IF request.index = length THEN i.end
           ELSE ~i.end /\ buf'[i.loc].at = request.index + 1
<1>1. JumpEnds
    <2>1. UNCHANGED request => FALSE
        BY Zenon DEF Waiting
    <2>2. JumpRefused => FALSE
        BY Zenon DEF JumpRefused
    <2> QED
        BY <2>1, <2>2, Zenon DEF NextAll, Indexer, all
<1> SUFFICES ASSUME NEW x, x = request.index
             PROVE  IF x = length THEN i.end ELSE ~i.end /\ buf'[i.loc].at = x + 1
    OBVIOUS
<1>2. /\ x \in 0..length /\ InitItemBuffer(x, x) /\ num_skipped = x - Num(x)
      /\ skipped = {} /\ request.by \in Iterators /\ Restart(request.by) /\ UNCHANGED trace
    BY <1>1, JumpStart
<1>3. i.end = buffer_is_empty' /\ i.loc = 0
    <2>1. i = FirstIterator
        BY <1>2, RestartKeeps
    <2> QED
        BY <2>1 DEF FirstIterator
<1>4. (buffer_is_empty' <=> x = length) /\ (x # length => buf'[0].at = x + 1)
    BY <1>2, FreshStart DEF Inv
<1> QED
    BY <1>3, <1>4, Zenon

LEMMA JumpInvariance == SpecAll => []JumpInv
BY JumpInit, JumpNext, PTL DEF SpecAll

LEMMA WindowInvariance == ASSUME Straight PROVE SpecAll => []Inv
<1>1. InitAll => Inv
    BY InitInv DEF InitAll
<1>2. Inv /\ JumpInv /\ [NextAll]_all => Inv'
    BY NextAllInv
<1> QED
    BY <1>1, <1>2, JumpInvariance, PTL DEF SpecAll

-----------------------------------------------------------------------------
(* The theorems. *)

\* The variables keep their types: no number in the ring or in an iterator is
\* negative, and head_, tail_ and the iterators stay inside the ring, however
\* often fillHalfBuffer_ moves it on.
THEOREM TypesHold == Spec => []TypeOK
<1>1. Inv => TypeOK
    BY Zenon DEF Inv
<1> QED
    BY <1>1, Invariance, PTL

\* readNext_ and initItemBuffer_ number the items by the difference of two
\* counters, and that is their place among the items not skipped, after any
\* sequence of increments, skips and seeks.
THEOREM NumbersAreRight == Spec => []NumbersCountItems
<1>1. Inv => NumbersCountItems
    BY Zenon DEF Inv
<1> QED
    BY <1>1, Invariance, PTL

\* An iterator that looks back less than the window passes validateItemIndex_
\* and sees its own item, for any number of iterators, any trace and any ring
\* of an even size from 4 on.
THEOREM WindowIsSafe == Spec => []LookingBackIsSafe
BY LooksBack, Invariance, PTL

\* isLastItem_ is true of an iterator at the last item of the trace and of no
\* other one.
THEOREM EndIsKnown == Spec => []LastItemIsKnown
BY KnowsTheEnd, Invariance, PTL

\* moveToNextItem_ takes an iterator to the next item not skipped, or behind the
\* last one, whether or not it fills half of the ring on its way.
THEOREM NothingIsMissed == Spec => VisitsEveryItem
<1>1. ASSUME Inv, Inv', [Next]_vars
      PROVE  [\A i \in Iterators :
                 Recent(i) /\ Increment(i) =>
                     IF it'[i].end THEN it[i].index = Cardinality(Unskipped)
                     ELSE buf'[it'[i].loc].index = it[i].index + 1]_vars
    BY <1>1, IncrementVisits, Zenon
<1>2. Spec => [][Next]_vars
    BY PTL DEF Spec
<1> QED
    BY <1>1, <1>2, Invariance, PTL DEF VisitsEveryItem

\* seek() past the ring takes an iterator where n increments would have taken
\* it, over any distance.
THEOREM SeeksAreIncrements == Spec => SeekIsIncrements
<1>1. ASSUME Inv, Inv', [Next]_vars
      PROVE  [\A i \in Iterators, n \in 1..MaxSeek :
                 Recent(i) /\ SeekAway(i, n) => LandsAhead(i, n)]_vars
    BY <1>1, SeekLands, Zenon
<1>2. Spec => [][Next]_vars
    BY PTL DEF Spec
<1> QED
    BY <1>1, <1>2, Invariance, PTL DEF SeekIsIncrements

\* findNearestEntry() finds an entry whatever the scan has come to when it wakes
\* up, and the marker asked for lies between that entry and the next one.
THEOREM LookupsAreRight == SpecAll => []EntryIsNearest
<1>1. JumpInv => EntryIsNearest
    BY NearestFacts, Zenon DEF EntryIsNearest
<1> QED
    BY <1>1, JumpInvariance, PTL

\* jumpToIndex() takes its iterator to the item asked for, or behind the last
\* one, in a compressed trace, or with an entry for every marker.
THEOREM JumpsAreRight == ASSUME Straight PROVE SpecAll => JumpLands
<1>1. ASSUME Inv, JumpInv, [NextAll]_all
      PROVE  [Waiting /\ ~Waiting' /\ ~failed' =>
                 LET i == it'[request.by]
                 IN  IF request.index = length THEN i.end
                     ELSE ~i.end /\ buf'[i.loc].at = request.index + 1]_all
    BY <1>1, JumpEndsLands, Zenon
<1>2. SpecAll => [][NextAll]_all
    BY PTL DEF SpecAll
<1> QED
    BY <1>1, <1>2, JumpInvariance, WindowInvariance, PTL DEF JumpLands

\* Under the same condition the window of an indexed reader keeps what it
\* promises without jumps: numbers, looking back and the end.
THEOREM JumpsKeepTheWindow ==
    ASSUME Straight
    PROVE  SpecAll => [](NumbersCountItems /\ LookingBackIsSafe /\ LastItemIsKnown)
<1>1. Inv => NumbersCountItems /\ LookingBackIsSafe /\ LastItemIsKnown
    BY LooksBack, KnowsTheEnd, Zenon DEF Inv
<1> QED
    BY <1>1, WindowInvariance, PTL
=============================================================================
