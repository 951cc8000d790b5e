--------------------------- MODULE PteReaderProofs ---------------------------
(***************************************************************************)
(* The page table reader translates as the machine did, for any number of  *)
(* instructions, tables, frames, levels and events.  The argument: what is *)
(* known of the mode, SATP and the entries recorded last, at the index of  *)
(* the instruction under way, is what the machine has (ModesOK, SatpsOK,   *)
(* PagesOK); so the walk of the reader agrees with the machine's, level by *)
(* level, when the instruction ends; and versions entered later have later *)
(* indices, which change no translation of an earlier one (PastStands).    *)
(***************************************************************************)
EXTENDS PteReader, WellFoundedInduction, SequenceTheorems, TLAPS

-----------------------------------------------------------------------------
(* Natural numbers. *)

\* A set of natural numbers has a least element.
LEMMA SmallerInRelation ==
    ASSUME NEW R, NEW T \in SUBSET Nat, T # {},
           \A x, y \in Nat : y < x => <<y, x>> \in R, IsWellFoundedOn(R, Nat)
    PROVE  \E x \in T : \A y \in T : x <= y
<1>1. PICK x \in T : \A y \in T : ~(<<y, x>> \in R)
    BY WFMin
<1>2. \A y \in T : ~(y < x)
    BY <1>1, Zenon
<1>3. \A y \in T : x <= y
    BY <1>2, SMT
<1> QED
    BY <1>3

LEMMA LeastElement ==
    ASSUME NEW T \in SUBSET Nat, T # {}
    PROVE  \E x \in T : \A y \in T : x <= y
<1>1. \E R : IsWellFoundedOn(R, Nat) /\ \A x, y \in Nat : y < x => <<y, x>> \in R
    <2>1. \A x, y \in Nat : y < x => <<y, x>> \in OpToRel(<, Nat)
        BY DEF OpToRel
    <2> QED
        BY NatLessThanWellFounded, <2>1, Zenon
<1> QED
    BY <1>1, SmallerInRelation

\* A bounded one has a greatest element, too.
LEMMA GreatestElement ==
    ASSUME NEW n \in Nat, NEW T \in SUBSET (0..n), T # {}
    PROVE  \E x \in T : \A y \in T : y <= x
<1> DEFINE D == {d \in Nat : n - d \in T}
<1>1. D \in SUBSET Nat /\ D # {}
    <2>1. PICK x \in T : TRUE
        OBVIOUS
    <2>2. n - x \in Nat /\ n - (n - x) = x
        BY <2>1
    <2> QED
        BY <2>1, <2>2
<1>2. PICK d \in D : \A e \in D : d <= e
    <2> HIDE DEF D
    <2> QED
        BY <1>1, LeastElement
<1>3. ASSUME NEW y \in T PROVE y <= n - d
    <2>1. y \in 0..n /\ n - y \in Nat /\ n - (n - y) = y
        OBVIOUS
    <2>2. n - y \in D
        BY <2>1
    <2>3. d <= n - y /\ d \in Nat
        BY <1>2, <2>2
    <2> QED
        BY <2>1, <2>3
<1>4. n - d \in T
    BY <1>2
<1> QED
    BY <1>3, <1>4

\* Induction, with the numbers that are good as a set.
LEMMA Induction ==
    ASSUME NEW n \in Nat, NEW S, 0 \in S, \A l \in 1..n : l - 1 \in S => l \in S
    PROVE  \A l \in 0..n : l \in S
<1> DEFINE T == {l \in 0..n : l \notin S}
<1>1. SUFFICES ASSUME T # {} PROVE FALSE
    OBVIOUS
<1>2. PICK l \in T : \A k \in T : l <= k
    <2>1. T \in SUBSET Nat
        OBVIOUS
    <2> HIDE DEF T
    <2> QED
        BY <1>1, <2>1, LeastElement
<1>3. l \in 1..n /\ l - 1 \in 0..n /\ ~(l <= l - 1)
    BY <1>2
<1>4. l - 1 \notin T
    BY <1>2, <1>3
<1> QED
    BY <1>2, <1>3, <1>4

\* f[l] is what l steps of G make of a.
Iterated(f, V, a, G, n) ==
    f \in [0..n -> V] /\ f[0] = a /\ \A l \in 1..n : f[l] = G[f[l - 1]]

\* A function can be defined by repeating a step.
LEMMA Iterates ==
    ASSUME NEW V, NEW a \in V, NEW G \in [V -> V], NEW n \in Nat
    PROVE  \E f : Iterated(f, V, a, G, n)
<1> USE DEF Iterated
<1> DEFINE S == {k \in Nat : \E f : Iterated(f, V, a, G, k)}
<1>1. 0 \in S
    <2> DEFINE f == [l \in 0..0 |-> a]
    <2>1. f \in [0..0 -> V] /\ f[0] = a /\ 1..0 = {}
        OBVIOUS
    <2>2. Iterated(f, V, a, G, 0)
        BY <2>1
    <2> QED
        BY <2>2
<1>2. ASSUME NEW k \in 1..n, k - 1 \in S PROVE k \in S
    <2>1. PICK g : Iterated(g, V, a, G, k - 1)
        BY <1>2
    <2> DEFINE f == [l \in 0..k |-> IF l = k THEN G[g[k - 1]] ELSE g[l]]
    <2>2. k \in Nat /\ k - 1 \in Nat /\ k # 0
        OBVIOUS
    <2>3. g[k - 1] \in V
        BY <2>1, <2>2
    <2>4. f \in [0..k -> V]
        <3>1. ASSUME NEW l \in 0..k, l # k PROVE g[l] \in V
            <4>1. l \in 0..(k - 1)
                BY <2>2, <3>1
            <4> QED
                BY <2>1, <4>1
        <3> QED
            BY <2>3, <3>1
    <2>5. f[0] = a
        BY <2>1, <2>2
    <2>6. ASSUME NEW l \in 1..k PROVE f[l] = G[f[l - 1]]
        <3>1. l - 1 \in 0..k /\ l - 1 # k /\ l \in 0..k
            BY <2>2
        <3>2. f[l - 1] = g[l - 1]
            BY <3>1
        <3>3. CASE l = k
            BY <3>1, <3>2, <3>3
        <3>4. CASE l # k
            <4>1. l \in 1..(k - 1)
                BY <2>2, <3>4
            <4> QED
                BY <2>1, <3>1, <3>2, <3>4, <4>1
        <3> QED
            BY <3>3, <3>4
    <2>7. Iterated(f, V, a, G, k)
        <3> HIDE DEF f
        <3> QED
            BY <2>4, <2>5, <2>6
    <2> QED
        BY <2>2, <2>7
<1>3. n \in S
    <2>1. n \in 0..n
        OBVIOUS
    <2> HIDE DEF S
    <2> QED
        BY <1>1, <1>2, <2>1, Induction
<1> QED
    BY <1>3

-----------------------------------------------------------------------------
(* Walks. *)

\* What the levels of a walk with the entries e arrive at.
WalkSteps(d, e) ==
    \A l \in 0..Levels, t \in Tables :
        d[l][t] = IF l = 0 \/ t \notin DOMAIN e THEN Failed
                  ELSE IF e[t].leaf THEN e[t].to ELSE d[l - 1][e[t].to]

\* A walk takes these steps, if the entries stay within the tables.
LEMMA WalkTakesSteps ==
    ASSUME NEW e, \A t \in DOMAIN e : t \in Tables /\ (~e[t].leaf => e[t].to \in Tables),
           NEW root \in Tables
    PROVE  \E d : WalkSteps(d, e) /\ Walk(e, root) = d[Levels][root]
<1> DEFINE Results == {e[t].to : t \in DOMAIN e} \cup {Failed}
           Levelfuls == [Tables -> Results]
           Step(p) == [t \in Tables |-> IF t \notin DOMAIN e THEN Failed
                                        ELSE IF e[t].leaf THEN e[t].to ELSE p[e[t].to]]
           Up == [p \in Levelfuls |-> Step(p)]
           none == [t \in Tables |-> Failed]
           body(f) == [l \in 0..Levels |->
                         [t \in Tables |-> IF l = 0 \/ t \notin DOMAIN e THEN Failed
                                           ELSE IF e[t].leaf THEN e[t].to
                                           ELSE f[l - 1][e[t].to]]]
<1>1. none \in Levelfuls /\ Up \in [Levelfuls -> Levelfuls]
    <2>1. none \in Levelfuls
        OBVIOUS
    <2>2. ASSUME NEW p \in Levelfuls PROVE Step(p) \in Levelfuls
        OBVIOUS
    <2> QED
        BY <2>1, <2>2
<1>2. PICK f : Iterated(f, Levelfuls, none, Up, Levels)
    <2>1. Levels \in Nat
        BY PageTableAssumption
    <2> HIDE DEF Levelfuls, Up, none
    <2> QED
        BY <1>1, <2>1, Iterates, Zenon
<1>3. f = body(f)
    <2>1. ASSUME NEW l \in 0..Levels
          PROVE  f[l] = [t \in Tables |-> IF l = 0 \/ t \notin DOMAIN e THEN Failed
                                          ELSE IF e[t].leaf THEN e[t].to
                                          ELSE f[l - 1][e[t].to]]
        <3>1. CASE l = 0
            <4>1. f[l] = none
                BY <1>2, <3>1 DEF Iterated
            <4> QED
                BY <3>1, <4>1, Zenon
        <3>2. CASE l # 0
            <4>1. l \in 1..Levels /\ l - 1 \in 0..Levels
                BY <3>2, PageTableAssumption
            <4>2. f[l - 1] \in Levelfuls
                BY <1>2, <4>1 DEF Iterated
            <4>3. f[l] = Step(f[l - 1])
                <5>1. f[l] = Up[f[l - 1]]
                    BY <1>2, <4>1 DEF Iterated
                <5> HIDE DEF Levelfuls
                <5> QED
                    BY <4>2, <5>1
            <4> QED
                BY <3>2, <4>3, Zenon
        <3> QED
            BY <3>1, <3>2
    <2>2. f = [l \in 0..Levels |-> f[l]]
        BY <1>2 DEF Iterated
    <2> QED
        BY <2>1, <2>2, Zenon
<1>4. PICK d : d = body(d) /\ Walk(e, root) = d[Levels][root]
    <2> DEFINE down == CHOOSE g : g = body(g)
    <2>1. down = body(down)
        BY <1>3, Zenon
    <2>2. Walk(e, root) = down[Levels][root]
        BY Zenon DEF Walk
    <2> QED
        BY <2>1, <2>2, Zenon
<1>5. WalkSteps(d, e)
    <2>1. \A l \in 0..Levels, t \in Tables :
              body(d)[l][t] = IF l = 0 \/ t \notin DOMAIN e THEN Failed
                              ELSE IF e[t].leaf THEN e[t].to ELSE d[l - 1][e[t].to]
        BY Zenon
    <2> HIDE DEF body
    <2> QED
        BY <1>4, <2>1, Zenon DEF WalkSteps
<1> QED
    BY <1>4, <1>5

\* The tables that a walk in memory comes through.
WalkedSteps(w) ==
    \A l \in 0..Levels, t \in Tables :
        w[l][t] = IF l = 0 THEN {}
                  ELSE IF memory[t].leaf THEN {t} ELSE {t} \cup w[l - 1][memory[t].to]

MemoryOK == memory \in [Tables -> Entries]

\* An entry of memory is a leaf or names a table.
LEMMA EntryKinds ==
    ASSUME NEW x \in Entries
    PROVE  x.leaf \in BOOLEAN /\ (~x.leaf => x.to \in Tables) /\ x # NoEntry
<1>1. CASE x \in [leaf : {TRUE}, to : Frames]
    <2>1. x.leaf = TRUE /\ x.to \in Frames
        BY <1>1
    <2>2. x # NoEntry
        <3>1. NoEntry.to = None
            BY DEF NoEntry
        <3> QED
            BY <2>1, <3>1, PteAssumption, Zenon
    <2> QED
        BY <2>1, <2>2
<1>2. CASE x \in [leaf : {FALSE}, to : Tables \ Roots]
    <2>1. x.leaf = FALSE /\ x.to \in Tables
        BY <1>2
    <2>2. NoEntry.leaf = TRUE
        BY DEF NoEntry
    <2> QED
        BY <2>1, <2>2
<1> QED
    BY <1>1, <1>2 DEF Entries

\* The walk of the machine takes these steps.
LEMMA MachineTakesSteps ==
    ASSUME MemoryOK, satp \in Tables
    PROVE  \E w : WalkedSteps(w) /\ Walked = w[Levels][satp]
<1> DEFINE Sets == [Tables -> SUBSET Tables]
           Step(p) == [t \in Tables |-> IF memory[t].leaf THEN {t} ELSE {t} \cup p[memory[t].to]]
           Up == [p \in Sets |-> Step(p)]
           none == [t \in Tables |-> {}]
           body(f) == [l \in 0..Levels |->
                         [t \in Tables |-> IF l = 0 THEN {}
                                           ELSE IF memory[t].leaf THEN {t}
                                           ELSE {t} \cup f[l - 1][memory[t].to]]]
<1>1. none \in Sets /\ Up \in [Sets -> Sets]
    <2>1. none \in Sets
        OBVIOUS
    <2>2. ASSUME NEW p \in Sets PROVE Step(p) \in Sets
        <3>1. \A t \in Tables : memory[t] \in Entries
            BY DEF MemoryOK
        <3>2. \A t \in Tables : ~memory[t].leaf => memory[t].to \in Tables
            BY <3>1, EntryKinds
        <3> QED
            BY <3>2
    <2> QED
        BY <2>1, <2>2
<1>2. PICK f : Iterated(f, Sets, none, Up, Levels)
    <2>1. Levels \in Nat
        BY PageTableAssumption
    <2> HIDE DEF Sets, Up, none
    <2> QED
        BY <1>1, <2>1, Iterates, Zenon
<1>3. f = body(f)
    <2>1. ASSUME NEW l \in 0..Levels
          PROVE  f[l] = [t \in Tables |-> IF l = 0 THEN {}
                                          ELSE IF memory[t].leaf THEN {t}
                                          ELSE {t} \cup f[l - 1][memory[t].to]]
        <3>1. CASE l = 0
            <4>1. f[l] = none
                BY <1>2, <3>1 DEF Iterated
            <4> QED
                BY <3>1, <4>1, Zenon
        <3>2. CASE l # 0
            <4>1. l \in 1..Levels /\ l - 1 \in 0..Levels
                BY <3>2, PageTableAssumption
            <4>2. f[l - 1] \in Sets
                BY <1>2, <4>1 DEF Iterated
            <4>3. f[l] = Step(f[l - 1])
                <5>1. f[l] = Up[f[l - 1]]
                    BY <1>2, <4>1 DEF Iterated
                <5> HIDE DEF Sets
                <5> QED
                    BY <4>2, <5>1
            <4> QED
                BY <3>2, <4>3, Zenon
        <3> QED
            BY <3>1, <3>2
    <2>2. f = [l \in 0..Levels |-> f[l]]
        BY <1>2 DEF Iterated
    <2> QED
        BY <2>1, <2>2, Zenon
<1>4. PICK w : w = body(w) /\ Walked = w[Levels][satp]
    <2> DEFINE down == CHOOSE g : g = body(g)
    <2>1. down = body(down)
        BY <1>3, Zenon
    <2>2. Walked = down[Levels][satp]
        BY Zenon DEF Walked
    <2> QED
        BY <2>1, <2>2, Zenon
<1>5. WalkedSteps(w)
    <2>1. \A l \in 0..Levels, t \in Tables :
              body(w)[l][t] = IF l = 0 THEN {}
                              ELSE IF memory[t].leaf THEN {t}
                              ELSE {t} \cup w[l - 1][memory[t].to]
        BY Zenon
    <2> HIDE DEF body
    <2> QED
        BY <1>4, <2>1, Zenon DEF WalkedSteps
<1> QED
    BY <1>4, <1>5

\* It comes through tables only.
LEMMA TablesAreWalked ==
    ASSUME MemoryOK, satp \in Tables
    PROVE  Walked \subseteq Tables
<1>1. PICK w : WalkedSteps(w) /\ Walked = w[Levels][satp]
    BY MachineTakesSteps
<1> DEFINE S == {l \in Nat : \A t \in Tables : w[l][t] \subseteq Tables}
<1>2. Levels \in Nat
    BY PageTableAssumption
<1>3. 0 \in S
    <2>1. 0 \in 0..Levels
        BY <1>2
    <2>2. \A t \in Tables : w[0][t] = {}
        BY <1>1, <2>1, Zenon DEF WalkedSteps
    <2> QED
        BY <2>2
<1>4. ASSUME NEW l \in 1..Levels, l - 1 \in S PROVE l \in S
    <2>1. l \in Nat /\ l \in 0..Levels /\ l # 0
        BY <1>2
    <2>2. ASSUME NEW t \in Tables PROVE w[l][t] \subseteq Tables
        <3>1. memory[t] \in Entries
            BY DEF MemoryOK
        <3>2. ~memory[t].leaf => w[l - 1][memory[t].to] \subseteq Tables
            BY <1>4, <3>1, EntryKinds
        <3>3. w[l][t] = IF memory[t].leaf THEN {t} ELSE {t} \cup w[l - 1][memory[t].to]
            BY <1>1, <2>1 DEF WalkedSteps
        <3> QED
            BY <3>2, <3>3
    <2> QED
        BY <2>1, <2>2
<1>5. Levels \in S
    <2>1. Levels \in 0..Levels
        BY <1>2
    <2> HIDE DEF S
    <2> QED
        BY <1>2, <1>3, <1>4, <2>1, Induction
<1> QED
    BY <1>1, <1>5

\* A walk with entries that are those of memory wherever the machine walks ends
\* where the machine's does.
LEMMA WalkAgrees ==
    ASSUME MemoryOK, satp \in Tables,
           NEW e, \A t \in DOMAIN e : t \in Tables /\ (~e[t].leaf => e[t].to \in Tables),
           \A t \in Walked : t \in DOMAIN e /\ e[t] = memory[t],
           NEW u \in Walked, memory[u].leaf
    PROVE  Walk(e, satp) = memory[u].to
<1>1. PICK w : WalkedSteps(w) /\ Walked = w[Levels][satp]
    BY MachineTakesSteps
<1>2. PICK d : WalkSteps(d, e) /\ Walk(e, satp) = d[Levels][satp]
    BY WalkTakesSteps
<1> DEFINE Same(t) == t \in DOMAIN e /\ e[t] = memory[t]
           S == {l \in Nat : \A t \in Tables :
                    (\A v \in w[l][t] : Same(v)) =>
                        \A v \in w[l][t] : memory[v].leaf => d[l][t] = memory[v].to}
<1>3. Levels \in Nat
    BY PageTableAssumption
<1>4. 0 \in S
    <2>1. 0 \in 0..Levels
        BY <1>3
    <2>2. \A t \in Tables : w[0][t] = {}
        BY <1>1, <2>1, Zenon DEF WalkedSteps
    <2> QED
        BY <2>2
<1>5. ASSUME NEW l \in 1..Levels, l - 1 \in S PROVE l \in S
    <2>1. l \in Nat /\ l \in 0..Levels /\ l # 0
        BY <1>3
    <2>2. ASSUME NEW t \in Tables, \A v \in w[l][t] : Same(v),
                 NEW v \in w[l][t], memory[v].leaf
          PROVE  d[l][t] = memory[v].to
        <3>1. memory[t] \in Entries
            BY DEF MemoryOK
        <3>2. w[l][t] = IF memory[t].leaf THEN {t} ELSE {t} \cup w[l - 1][memory[t].to]
            BY <1>1, <2>1 DEF WalkedSteps
        <3>3. t \in w[l][t]
            BY <3>2
        <3>4. d[l][t] = IF memory[t].leaf THEN memory[t].to ELSE d[l - 1][memory[t].to]
            BY <1>2, <2>1, <2>2, <3>3 DEF WalkSteps
        <3>5. CASE memory[t].leaf
            BY <3>2, <3>4, <3>5
        <3>6. CASE ~memory[t].leaf
            <4>1. memory[t].to \in Tables
                BY <3>1, <3>6, EntryKinds
            <4>2. v \in w[l - 1][memory[t].to]
                BY <2>2, <3>2, <3>6
            <4>3. \A x \in w[l - 1][memory[t].to] : Same(x)
                BY <2>2, <3>2, <3>6
            <4>4. d[l - 1][memory[t].to] = memory[v].to
                BY <1>5, <2>2, <4>1, <4>2, <4>3
            <4> QED
                BY <3>4, <3>6, <4>4
        <3> QED
            BY <3>5, <3>6
    <2> QED
        BY <2>1, <2>2
<1>6. Levels \in S
    <2>1. Levels \in 0..Levels
        BY <1>3
    <2> HIDE DEF S
    <2> QED
        BY <1>3, <1>4, <1>5, <2>1, Induction
<1> QED
    BY <1>1, <1>2, <1>6

-----------------------------------------------------------------------------
(* Versions. *)

\* The last version at or before an index is what is known there.
LEMMA LatestIs ==
    ASSUME NEW f, DOMAIN f \in SUBSET Nat, NEW i \in Nat, NEW k \in DOMAIN f, k <= i,
           \A j \in DOMAIN f : j <= i => j <= k
    PROVE  Known(f, i) /\ Latest(f, i) = f[k]
<1> DEFINE B == Before(f, i)
           last(x) == x \in B /\ \A j \in B : j <= x
           c == CHOOSE x \in B : \A j \in B : j <= x
<1>1. B \subseteq Nat /\ last(k)
    BY DEF Before
<1>2. last(c)
    BY <1>1, Zenon
<1>3. c = k
    <2>1. c <= k /\ k <= c /\ c \in Nat /\ k \in Nat
        BY <1>1, <1>2
    <2> HIDE DEF c, B
    <2> QED
        BY <2>1
<1>4. Latest(f, i) = f[c]
    BY DEF Latest
<1> QED
    BY <1>1, <1>3, <1>4 DEF Known

\* What is known is one of the versions.
LEMMA LatestExists ==
    ASSUME NEW f, DOMAIN f \in SUBSET Nat, NEW i \in Nat, Known(f, i)
    PROVE  \E k \in DOMAIN f : k <= i /\ Latest(f, i) = f[k]
<1>1. Before(f, i) \in SUBSET (0..i) /\ Before(f, i) # {}
    BY DEF Before, Known
<1>2. PICK k \in Before(f, i) : \A j \in Before(f, i) : j <= k
    BY <1>1, GreatestElement
<1>3. k \in DOMAIN f /\ k <= i /\ \A j \in DOMAIN f : j <= i => j <= k
    BY <1>2 DEF Before
<1> QED
    BY <1>3, LatestIs

\* The versions at or before i are the same in f and g.
SameUpTo(f, g, i) ==
    /\ Before(f, i) = Before(g, i)
    /\ \A j \in Before(f, i) : f[j] = g[j]

LEMMA LatestIsSame ==
    ASSUME NEW f, NEW g, DOMAIN f \in SUBSET Nat, NEW i \in Nat, SameUpTo(f, g, i)
    PROVE  /\ Known(f, i) <=> Known(g, i)
           /\ Known(f, i) => Latest(f, i) = Latest(g, i)
<1>1. Known(f, i) <=> Known(g, i)
    BY DEF Known, SameUpTo
<1>2. ASSUME Known(f, i) PROVE Latest(f, i) = Latest(g, i)
    <2>1. Before(f, i) \in SUBSET (0..i) /\ Before(f, i) # {}
        BY <1>2 DEF Before, Known
    <2>2. PICK k \in Before(f, i) : \A j \in Before(f, i) : j <= k
        BY <2>1, GreatestElement
    <2>3. (CHOOSE x \in Before(f, i) : \A j \in Before(f, i) : j <= x) \in Before(f, i)
        BY <2>2, Zenon
    <2> QED
        BY <2>3, Zenon DEF Latest, SameUpTo
<1> QED
    BY <1>1, <1>2

LEMMA SameIsSame ==
    ASSUME NEW f, NEW i
    PROVE  SameUpTo(f, f, i)
BY DEF SameUpTo

\* A new version changes nothing before it.
LEMMA WithLater ==
    ASSUME NEW f, DOMAIN f \in SUBSET Nat, NEW i \in Nat, NEW k \in Nat, k > i, NEW v
    PROVE  SameUpTo(f, With(f, k, v), i)
<1>1. \A j : j \in Before(f, i) <=> j \in Before(With(f, k, v), i)
    BY DEF Before, With
<1>2. \A j \in Before(f, i) : f[j] = With(f, k, v)[j]
    BY DEF Before, With
<1> QED
    BY <1>1, <1>2, Zenon DEF SameUpTo

\* It is what is known from it on, if it is the last.
LEMMA WithLast ==
    ASSUME NEW f, DOMAIN f \in SUBSET Nat, NEW k \in Nat, NEW i \in Nat, k <= i, NEW v,
           \A j \in DOMAIN f : j <= k
    PROVE  Known(With(f, k, v), i) /\ Latest(With(f, k, v), i) = v
<1> DEFINE g == With(f, k, v)
<1>1. DOMAIN g = DOMAIN f \cup {k} /\ g[k] = v
    BY DEF With
<1>2. DOMAIN g \in SUBSET Nat /\ k \in DOMAIN g /\ \A j \in DOMAIN g : j <= i => j <= k
    BY <1>1
<1>3. Known(g, i) /\ Latest(g, i) = g[k]
    <2> HIDE DEF g
    <2> QED
        BY <1>2, LatestIs
<1> QED
    BY <1>1, <1>3, Zenon

\* Behind the last version nothing changes.
LEMMA NothingLater ==
    ASSUME NEW f, NEW n \in Nat, DOMAIN f \subseteq 0..n,
           NEW i \in Nat, n <= i, NEW j \in Nat, n <= j
    PROVE  /\ Known(f, i) <=> Known(f, j)
           /\ Latest(f, i) = Latest(f, j)
<1>1. Before(f, i) = Before(f, j)
    <2>1. \A k : k \in Before(f, i) <=> k \in Before(f, j)
        BY DEF Before
    <2> QED
        BY <2>1, Zenon
<1> QED
    BY <1>1, Zenon DEF Known, Latest

LEMMA WithShape ==
    ASSUME NEW f, NEW k, NEW v
    PROVE  /\ DOMAIN With(f, k, v) = DOMAIN f \cup {k}
           /\ With(f, k, v)[k] = v
           /\ \A j \in DOMAIN f : j # k => With(f, k, v)[j] = f[j]
BY DEF With

-----------------------------------------------------------------------------
(* Translation. *)

\* It depends on the versions up to its index alone.
LEMMA TranslateIsSame ==
    ASSUME NEW i \in Nat, NEW m, NEW m2, NEW s, NEW s2, NEW p, NEW p2,
           DOMAIN m \in SUBSET Nat, Known(m, i), SameUpTo(m, m2, i),
           DOMAIN s \in SUBSET Nat, SameUpTo(s, s2, i), \A j \in DOMAIN s : s[j] \in Satps,
           \A r \in Roots, t \in Tables :
               DOMAIN p[r][t] \in SUBSET Nat /\ SameUpTo(p[r][t], p2[r][t], i)
    PROVE  Translate(m, s, p, i) = Translate(m2, s2, p2, i)
<1>1. Latest(m, i) = Latest(m2, i)
    BY LatestIsSame
<1>2. /\ Known(s, i) <=> Known(s2, i)
      /\ Known(s, i) => Latest(s, i) = Latest(s2, i)
    BY LatestIsSame
<1>3. Known(s, i) => Latest(s, i) \in Satps
    BY LatestExists
<1>4. ASSUME NEW r \in Roots PROVE EntriesAt(p[r], i) = EntriesAt(p2[r], i)
    <2>1. \A t \in Tables : /\ Known(p[r][t], i) <=> Known(p2[r][t], i)
                            /\ Known(p[r][t], i) => Latest(p[r][t], i) = Latest(p2[r][t], i)
        BY LatestIsSame
    <2> DEFINE D == {u \in Tables : Known(p[r][u], i)}
               D2 == {u \in Tables : Known(p2[r][u], i)}
    <2>2. D = D2
        BY <2>1, Zenon
    <2>3. [t \in D |-> Latest(p[r][t], i)] = [t \in D2 |-> Latest(p2[r][t], i)]
        BY <2>1, <2>2, Zenon
    <2> QED
        BY <2>3, Zenon DEF EntriesAt
<1>5. ASSUME Known(s, i), Latest(s, i) # Bare
      PROVE  Walk(EntriesAt(p[Latest(s, i)], i), Latest(s, i))
                 = Walk(EntriesAt(p2[Latest(s, i)], i), Latest(s, i))
    <2>1. Latest(s, i) \in Roots
        BY <1>3, <1>5 DEF Satps
    <2> QED
        BY <1>4, <2>1, Zenon
<1> QED
    BY <1>1, <1>2, <1>5, Zenon DEF Translate

-----------------------------------------------------------------------------
(* The inductive invariant. *)

\* The records the thread has read of the instruction that is under way are
\* those up to stage.
StageTypes ==
    /\ insts_read \in 0..MaxInsts
    /\ stage \in {"none", "state", "dest", "walk", "event"}
    /\ stage # "none" => insts_read < MaxInsts
    /\ last_valid_insts \in 0..insts_read
    /\ thread \in {"running", "ended", "joined"}
    /\ done_reading \in BOOLEAN /\ stop_reading \in BOOLEAN
    /\ done_reading => thread # "running"
    /\ request \in 0..(MaxInsts + 1)

MachineTypes ==
    /\ mode \in Modes /\ next_mode \in Modes
    /\ satp \in Satps /\ next_satp \in Satps
    /\ MemoryOK
    /\ addressed \in Seq(Frames \cup {VA, None}) /\ Len(addressed) = insts_read

\* The mode is known: as long as the trace has not said how it begins, if that
\* is machine mode.
ModesOK ==
    /\ 0 \in DOMAIN modes
    /\ DOMAIN modes \subseteq 0..(insts_read + (IF stage = "event" THEN 2 ELSE 1))
    /\ \A i \in DOMAIN modes : modes[i] \in Modes
    /\ insts_read = 0 => DOMAIN modes = {0} /\ next_mode = mode
    /\ insts_read > 0 \/ stage = "event" \/ mode = "machine" =>
           /\ Latest(modes, insts_read + 1) = mode
           /\ Latest(modes, insts_read + 2) = next_mode

\* SATP is known from the first record on.
SatpsOK ==
    /\ DOMAIN satps \subseteq 0..(insts_read + (IF stage \in {"none", "state"} THEN 1 ELSE 2))
    /\ \A i \in DOMAIN satps : satps[i] \in Satps
    /\ insts_read = 0 /\ stage = "none" => DOMAIN satps = {} /\ next_satp = satp
    /\ insts_read > 0 \/ stage # "none" =>
           /\ 0 \in DOMAIN satps
           /\ Latest(satps, insts_read + 1) = satp
           /\ Latest(satps, insts_read + 2) = next_satp

\* The page tables hold what has been recorded, as of the current instruction.
PagesOK ==
    /\ DOMAIN pages = Roots /\ DOMAIN recorded = Roots
    /\ \A s \in Roots, t \in Tables :
           /\ DOMAIN pages[s][t] \subseteq
                  1..(insts_read + (IF stage \in {"walk", "event"} THEN 1 ELSE 0))
           /\ \A i \in DOMAIN pages[s][t] : pages[s][t][i] \in Entries
           /\ recorded[s][t] # NoEntry =>
                  /\ Known(pages[s][t], insts_read + 1)
                  /\ Latest(pages[s][t], insts_read + 1) = recorded[s][t]

\* An instruction read is translated as the machine did.
Translated ==
    \A i \in 1..insts_read :
        addressed[i] # None => Translate(modes, satps, pages, i) = addressed[i]

\* An answer is about an instruction that has been read, or the last thing said.
Answered ==
    /\ answer.index \in Nat
    /\ answer.index # 0 => answer.index <= insts_read \/ done_reading
    /\ AnswersStand

Inv ==
    /\ StageTypes
    /\ MachineTypes
    /\ ModesOK
    /\ SatpsOK
    /\ PagesOK
    /\ Translated
    /\ Answered

-----------------------------------------------------------------------------
(* What the steps have in common. *)

LEMMA Ranks ==
    /\ Rank("none") = 1 /\ Rank("state") = 2 /\ Rank("dest") = 3
    /\ Rank("walk") = 4 /\ Rank("event") = 5
<1> DEFINE D == {1, 2, 3, 4, 5}
<1>1. DOMAIN Stages = D
    BY DEF Stages
<1>2. /\ Stages[1] = "none" /\ Stages[2] = "state" /\ Stages[3] = "dest"
      /\ Stages[4] = "walk" /\ Stages[5] = "event"
    BY DEF Stages
<1>3. ASSUME NEW n \in D PROVE Rank(Stages[n]) = n
    <2>1. Rank(Stages[n]) \in D /\ Stages[Rank(Stages[n])] = Stages[n]
        BY <1>1, Zenon DEF Rank
    <2> QED
        BY <1>2, <1>3, <2>1
<1> QED
    BY <1>2, <1>3

\* The next record belongs behind the last.
LEMMA ReadsInOrder ==
    ASSUME StageTypes, NEW s \in {"state", "dest", "walk", "event"}, Reads(s)
    PROVE  /\ thread = "running" /\ ~done_reading
           /\ insts_read < MaxInsts
           /\ stage' = s /\ stage # s /\ stage # "event"
           /\ s = "state" => stage = "none"
           /\ s = "dest" => stage \in {"none", "state"}
           /\ s = "walk" => stage \in {"none", "state", "dest"}
           /\ s # "state" => insts_read > 0 \/ stage # "none"
<1>1. Rank(stage) < Rank(s) /\ stage' = s /\ thread = "running" /\ insts_read < MaxInsts
    BY DEF Reads
<1>2. stage # s /\ stage # "event"
    BY <1>1, Ranks DEF StageTypes
<1>3. /\ s = "state" => stage = "none"
      /\ s = "dest" => stage \in {"none", "state"}
      /\ s = "walk" => stage \in {"none", "state", "dest"}
    BY <1>1, Ranks DEF StageTypes
<1>4. s # "state" => insts_read > 0 \/ stage # "none"
    <2>1. insts_read \in 0..MaxInsts
        BY DEF StageTypes
    <2>2. insts_read = 0 /\ stage = "none" => s = "state"
        BY DEF Reads
    <2> QED
        BY <2>1, <2>2, PteAssumption
<1> QED
    BY <1>1, <1>2, <1>3, <1>4 DEF StageTypes

\* Versions are of natural numbers.
LEMMA Indices ==
    ASSUME Inv
    PROVE  /\ insts_read \in Nat
           /\ DOMAIN modes \in SUBSET Nat /\ DOMAIN satps \in SUBSET Nat
           /\ \A s \in Roots, t \in Tables : DOMAIN pages[s][t] \in SUBSET Nat
           /\ \A i \in Nat : Known(modes, i)
<1>1. insts_read \in Nat
    BY PteAssumption DEF Inv, StageTypes
<1>2. DOMAIN modes \in SUBSET Nat /\ 0 \in DOMAIN modes
    BY <1>1 DEF Inv, ModesOK
<1>3. DOMAIN satps \in SUBSET Nat
    BY <1>1 DEF Inv, SatpsOK
<1>4. \A s \in Roots, t \in Tables : DOMAIN pages[s][t] \in SUBSET Nat
    BY <1>1 DEF Inv, PagesOK
<1>5. ASSUME NEW i \in Nat PROVE Known(modes, i)
    BY <1>2 DEF Known, Before
<1> QED
    BY <1>1, <1>2, <1>3, <1>4, <1>5

\* New versions behind the instructions read change no translation of theirs.
LEMMA PastStands ==
    ASSUME Inv, NEW m, NEW s, NEW p, NEW i \in Nat,
           SameUpTo(modes, m, i), SameUpTo(satps, s, i),
           \A r \in Roots, t \in Tables : SameUpTo(pages[r][t], p[r][t], i)
    PROVE  Translate(m, s, p, i) = Translate(modes, satps, pages, i)
<1>1. \A j \in DOMAIN satps : satps[j] \in Satps
    BY DEF Inv, SatpsOK
<1>2. Known(modes, i)
    BY Indices
<1> QED
    BY <1>1, <1>2, Indices, TranslateIsSame

\* So a record of the instruction under way leaves answers as they are.
LEMMA AnswersKept ==
    ASSUME Inv, ~done_reading, insts_read' = insts_read,
           UNCHANGED <<done_reading, answer, addressed>>,
           \A i \in 1..insts_read :
               /\ SameUpTo(modes, modes', i)
               /\ SameUpTo(satps, satps', i)
               /\ \A r \in Roots, t \in Tables : SameUpTo(pages[r][t], pages'[r][t], i)
    PROVE  Translated' /\ Answered'
<1>1. insts_read \in Nat
    BY Indices
<1>2. ASSUME NEW i \in 1..insts_read
      PROVE  Translate(modes', satps', pages', i) = Translate(modes, satps, pages, i)
    <2>1. i \in Nat
        BY <1>1
    <2> QED
        BY <2>1, PastStands
<1>3. Translated'
    BY <1>2 DEF Inv, Translated
<1>4. Answered'
    <2>1. SUFFICES ASSUME answer.index # 0
          PROVE  answer.to = Translate(modes', satps', pages', answer.index)
        BY DEF Inv, Answered, AnswersStand
    <2>2. answer.index \in 1..insts_read
        BY <1>1, <2>1 DEF Inv, Answered
    <2>3. answer.to = Translate(modes, satps, pages, answer.index)
        BY <2>1 DEF Inv, Answered, AnswersStand
    <2> QED
        BY <1>2, <2>2, <2>3
<1> QED
    BY <1>3, <1>4

-----------------------------------------------------------------------------
(* The steps. *)

LEMMA SatpStateKeeps ==
    ASSUME Inv, ReadSatpState
    PROVE  Inv'
<1> USE DEF Inv
<1>1. /\ insts_read = 0 /\ satps' = WithNew(satps, 0, satp)
      /\ UNCHANGED <<modes, pages, last_valid_insts, done_reading, thread, insts_read>>
      /\ UNCHANGED <<stop_reading, request, answer>>
      /\ UNCHANGED <<mode, next_mode, satp, next_satp, memory, recorded, addressed, events>>
    BY DEF ReadSatpState, FromLastOn, caller, machine
<1>2. ~done_reading /\ insts_read < MaxInsts /\ stage' = "state" /\ stage = "none"
    BY ReadsInOrder DEF ReadSatpState
<1>3. DOMAIN satps = {} /\ next_satp = satp
    BY <1>1, <1>2 DEF SatpsOK
<1>4. satps' = With(satps, 0, satp)
    BY <1>1, <1>3 DEF WithNew
<1>5. StageTypes' /\ MachineTypes'
    BY <1>1, <1>2 DEF StageTypes, MachineTypes, MemoryOK
<1>6. ModesOK'
    BY <1>1, <1>2 DEF ModesOK
<1>7. SatpsOK'
    <2>1. DOMAIN satps' = {0} /\ satps'[0] = satp
        BY <1>3, <1>4 DEF With
    <2>2. Latest(satps', 1) = satp /\ Latest(satps', 2) = satp
        BY <1>3, <1>4, WithLast
    <2>3. DOMAIN satps' \subseteq 0..(insts_read' + (IF stage' \in {"none", "state"} THEN 1 ELSE 2))
        BY <1>1, <1>2, <2>1
    <2>4. \A i \in DOMAIN satps' : satps'[i] \in Satps
        BY <2>1 DEF MachineTypes
    <2>5. insts_read' + 1 = 1 /\ insts_read' + 2 = 2
        BY <1>1
    <2> QED
        BY <1>1, <1>2, <1>3, <2>1, <2>2, <2>3, <2>4, <2>5 DEF SatpsOK
<1>8. PagesOK'
    <2>1. (IF stage' \in {"walk", "event"} THEN 1 ELSE 0) = 0
        BY <1>2
    <2>2. (IF stage \in {"walk", "event"} THEN 1 ELSE 0) = 0
        BY <1>2
    <2> QED
        BY <1>1, <2>1, <2>2, Zenon DEF PagesOK
<1>9. Translated' /\ Answered'
    BY <1>1, <1>2, AnswersKept
<1> QED
    BY <1>5, <1>6, <1>7, <1>8, <1>9

LEMMA SatpDestKeeps ==
    ASSUME Inv, NEW s \in Satps, ReadSatpDest(s)
    PROVE  Inv'
<1> USE DEF Inv
<1>1. /\ next_satp' = s /\ satps' = WithNew(satps, insts_read + 2, s)
      /\ UNCHANGED <<modes, pages, last_valid_insts, done_reading, thread, insts_read>>
      /\ UNCHANGED <<stop_reading, request, answer>>
      /\ UNCHANGED <<mode, next_mode, satp, memory, recorded, addressed>>
    BY DEF ReadSatpDest, FromNextOn, caller
<1>2. /\ ~done_reading /\ insts_read < MaxInsts /\ stage' = "dest"
      /\ stage \in {"none", "state"} /\ (insts_read > 0 \/ stage # "none")
    BY ReadsInOrder DEF ReadSatpDest
<1>3. /\ insts_read \in Nat /\ insts_read + 1 \in Nat /\ insts_read + 2 \in Nat
      /\ insts_read + 2 > insts_read + 1 /\ insts_read + 2 <= insts_read + 2
      /\ \A i \in 1..insts_read : i \in Nat /\ insts_read + 2 > i
    BY Indices
<1>4. DOMAIN satps \subseteq 0..(insts_read + 1)
    BY <1>2 DEF SatpsOK
<1>5. satps' = With(satps, insts_read + 2, s)
    <2>1. insts_read + 2 \notin DOMAIN satps
        BY <1>3, <1>4
    <2> QED
        BY <1>1, <2>1 DEF WithNew
<1>6. StageTypes' /\ MachineTypes'
    BY <1>1, <1>2 DEF StageTypes, MachineTypes, MemoryOK
<1>7. ModesOK'
    <2>1. stage' # "event" /\ stage # "event"
        BY <1>2
    <2> QED
        BY <1>1, <2>1, Zenon DEF ModesOK
<1>8. SatpsOK'
    <2>1. /\ DOMAIN satps' = DOMAIN satps \cup {insts_read + 2}
          /\ satps'[insts_read + 2] = s
          /\ \A j \in DOMAIN satps : j # insts_read + 2 => satps'[j] = satps[j]
        BY <1>5 DEF With
    <2>2. \A i \in DOMAIN satps' : satps'[i] \in Satps
        BY <2>1, Zenon DEF SatpsOK
    <2>3. DOMAIN satps' \subseteq 0..(insts_read + 2)
        BY <1>3, <1>4, <2>1
    <2>4. (IF stage' \in {"none", "state"} THEN 1 ELSE 2) = 2
        BY <1>2
    <2>5. Latest(satps', insts_read + 1) = satp
        <3>1. SameUpTo(satps, satps', insts_read + 1)
            BY <1>3, <1>5, Indices, WithLater, Zenon
        <3>2. Known(satps, insts_read + 1) /\ Latest(satps, insts_read + 1) = satp
            BY <1>2, <1>3 DEF SatpsOK, Known, Before
        <3> QED
            BY <1>3, <3>1, <3>2, Indices, LatestIsSame
    <2>6. Latest(satps', insts_read + 2) = s
        <3>1. \A j \in DOMAIN satps : j <= insts_read + 2
            BY <1>3, <1>4
        <3> QED
            BY <1>3, <1>5, <3>1, Indices, WithLast, Zenon
    <2>7. 0 \in DOMAIN satps'
        BY <1>2, <2>1 DEF SatpsOK
    <2> QED
        BY <1>1, <1>2, <2>2, <2>3, <2>4, <2>5, <2>6, <2>7 DEF SatpsOK
<1>9. PagesOK'
    <2>1. stage' \notin {"walk", "event"} /\ stage \notin {"walk", "event"}
        BY <1>2
    <2> QED
        BY <1>1, <2>1, Zenon DEF PagesOK
<1>10. Translated' /\ Answered'
    <2>1. \A i \in 1..insts_read : SameUpTo(satps, satps', i)
        BY <1>3, <1>5, Indices, WithLater, Zenon
    <2>2. \A i \in 1..insts_read : SameUpTo(modes, modes', i)
        BY <1>1, SameIsSame
    <2>3. \A i \in 1..insts_read, r \in Roots, t \in Tables :
              SameUpTo(pages[r][t], pages'[r][t], i)
        BY <1>1, SameIsSame
    <2> QED
        BY <1>1, <1>2, <2>1, <2>2, <2>3, AnswersKept
<1> QED
    BY <1>6, <1>7, <1>8, <1>9, <1>10

LEMMA FirstModeKeeps ==
    ASSUME Inv, ReadFirstMode
    PROVE  Inv'
<1> USE DEF Inv
<1>1. /\ insts_read = 0 /\ modes' = With(modes, 0, mode)
      /\ UNCHANGED <<satps, pages, last_valid_insts, done_reading, thread, insts_read>>
      /\ UNCHANGED <<stop_reading, request, answer>>
      /\ UNCHANGED <<mode, next_mode, satp, next_satp, memory, recorded, addressed, events>>
    BY DEF ReadFirstMode, caller, machine
<1>2. ~done_reading /\ insts_read < MaxInsts /\ stage' = "event" /\ stage # "none"
    BY <1>1, ReadsInOrder DEF ReadFirstMode
<1>3. DOMAIN modes = {0} /\ next_mode = mode
    BY <1>1 DEF ModesOK
<1>4. StageTypes' /\ MachineTypes'
    BY <1>1, <1>2 DEF StageTypes, MachineTypes, MemoryOK
<1>5. ModesOK'
    <2>1. DOMAIN modes' = {0} /\ modes'[0] = mode
        BY <1>1, <1>3 DEF With
    <2>2. Latest(modes', 1) = mode /\ Latest(modes', 2) = mode
        BY <1>1, <1>3, WithLast
    <2>3. DOMAIN modes' \subseteq 0..(insts_read' + (IF stage' = "event" THEN 2 ELSE 1))
        BY <1>1, <1>2, <2>1
    <2>4. insts_read' + 1 = 1 /\ insts_read' + 2 = 2
        BY <1>1
    <2>5. \A i \in DOMAIN modes' : modes'[i] \in Modes
        BY <2>1 DEF MachineTypes
    <2> QED
        BY <1>1, <1>3, <2>1, <2>2, <2>3, <2>4, <2>5 DEF ModesOK
<1>6. SatpsOK'
    <2>1. (IF stage' \in {"none", "state"} THEN 1 ELSE 2) = 2
        BY <1>2
    <2>2. DOMAIN satps \subseteq 0..(insts_read + 2)
        BY <1>1 DEF SatpsOK
    <2> QED
        BY <1>1, <1>2, <2>1, <2>2 DEF SatpsOK
<1>7. PagesOK'
    <2>1. (IF stage' \in {"walk", "event"} THEN 1 ELSE 0) = 1
        BY <1>2
    <2>2. \A r \in Roots, t \in Tables : DOMAIN pages[r][t] \subseteq 1..(insts_read + 1)
        BY <1>1 DEF PagesOK
    <2> QED
        BY <1>1, <2>1, <2>2, Zenon DEF PagesOK
<1>8. Translated' /\ Answered'
    BY <1>1, <1>2, AnswersKept
<1> QED
    BY <1>4, <1>5, <1>6, <1>7, <1>8

LEMMA ModeChangeKeeps ==
    ASSUME Inv, NEW m \in Modes, ReadModeChange(m)
    PROVE  Inv'
<1> USE DEF Inv
<1>1. /\ insts_read > 0 /\ next_mode' = m /\ modes' = With(modes, insts_read + 2, m)
      /\ UNCHANGED <<satps, pages, last_valid_insts, done_reading, thread, insts_read>>
      /\ UNCHANGED <<stop_reading, request, answer>>
      /\ UNCHANGED <<mode, satp, next_satp, memory, recorded, addressed>>
    BY DEF ReadModeChange, FromNextOn, caller
<1>2. ~done_reading /\ insts_read < MaxInsts /\ stage' = "event" /\ stage # "event"
    BY ReadsInOrder DEF ReadModeChange
<1>3. /\ insts_read \in Nat /\ insts_read + 1 \in Nat /\ insts_read + 2 \in Nat
      /\ insts_read + 2 > insts_read + 1 /\ insts_read + 2 <= insts_read + 2
      /\ \A i \in 1..insts_read : i \in Nat /\ insts_read + 2 > i
    BY Indices
<1>4. DOMAIN modes \subseteq 0..(insts_read + 1)
    BY <1>2 DEF ModesOK
<1>5. StageTypes' /\ MachineTypes'
    BY <1>1, <1>2 DEF StageTypes, MachineTypes, MemoryOK
<1>6. ModesOK'
    <2>1. /\ DOMAIN modes' = DOMAIN modes \cup {insts_read + 2}
          /\ modes'[insts_read + 2] = m
          /\ \A j \in DOMAIN modes : j # insts_read + 2 => modes'[j] = modes[j]
        BY <1>1 DEF With
    <2>2. \A i \in DOMAIN modes' : modes'[i] \in Modes
        BY <2>1, Zenon DEF ModesOK
    <2>3. DOMAIN modes' \subseteq 0..(insts_read + 2)
        BY <1>3, <1>4, <2>1
    <2>4. (IF stage' = "event" THEN 2 ELSE 1) = 2
        BY <1>2
    <2>5. Latest(modes', insts_read + 1) = mode
        <3>1. SameUpTo(modes, modes', insts_read + 1)
            BY <1>1, <1>3, Indices, WithLater, Zenon
        <3>2. Known(modes, insts_read + 1) /\ Latest(modes, insts_read + 1) = mode
            BY <1>1, <1>3, Indices DEF ModesOK
        <3> QED
            BY <1>3, <3>1, <3>2, Indices, LatestIsSame
    <2>6. Latest(modes', insts_read + 2) = m
        <3>1. \A j \in DOMAIN modes : j <= insts_read + 2
            BY <1>3, <1>4
        <3> QED
            BY <1>1, <1>3, <3>1, Indices, WithLast, Zenon
    <2>7. 0 \in DOMAIN modes'
        BY <2>1 DEF ModesOK
    <2> QED
        BY <1>1, <1>2, <2>2, <2>3, <2>4, <2>5, <2>6, <2>7 DEF ModesOK
<1>7. SatpsOK'
    <2>1. (IF stage' \in {"none", "state"} THEN 1 ELSE 2) = 2
        BY <1>2
    <2>2. DOMAIN satps \subseteq 0..(insts_read + 2)
        BY <1>3 DEF SatpsOK
    <2> QED
        BY <1>1, <1>2, <2>1, <2>2 DEF SatpsOK
<1>8. PagesOK'
    <2>1. (IF stage' \in {"walk", "event"} THEN 1 ELSE 0) = 1
        BY <1>2
    <2>2. \A r \in Roots, t \in Tables : DOMAIN pages[r][t] \subseteq 1..(insts_read + 1)
        BY <1>3 DEF PagesOK
    <2> QED
        BY <1>1, <2>1, <2>2, Zenon DEF PagesOK
<1>9. Translated' /\ Answered'
    <2>1. \A i \in 1..insts_read : SameUpTo(modes, modes', i)
        BY <1>1, <1>3, Indices, WithLater, Zenon
    <2>2. \A i \in 1..insts_read : SameUpTo(satps, satps', i)
        BY <1>1, SameIsSame
    <2>3. \A i \in 1..insts_read, r \in Roots, t \in Tables :
              SameUpTo(pages[r][t], pages'[r][t], i)
        BY <1>1, SameIsSame
    <2> QED
        BY <1>1, <1>2, <2>1, <2>2, <2>3, AnswersKept
<1> QED
    BY <1>5, <1>6, <1>7, <1>8, <1>9

\* The walk is entered under the SATP value that the machine has.
LEMMA WalkIsEntered ==
    ASSUME Inv, ReadPageTableWalk
    PROVE  /\ satp \in Roots /\ Walked \subseteq Tables
           /\ Consistent(pages[satp], insts_read + 1, [t \in Walked |-> memory[t]])
           /\ pages' = [pages EXCEPT ![satp] =
                            UpdatePages(@, insts_read + 1, [t \in Walked |-> memory[t]])]
           /\ last_valid_insts' = insts_read
           /\ UNCHANGED thread
<1> USE DEF Inv
<1> DEFINE C == insts_read + 1
           walk == [t \in Walked |-> memory[t]]
           Valid == /\ Known(satps, C)
                    /\ Latest(satps, C) # Bare
                    /\ Consistent(pages[Latest(satps, C)], C, walk)
<1>1. Reads("walk") /\ Translating
    BY DEF ReadPageTableWalk
<1>2. stage \in {"none", "state", "dest"} /\ (insts_read > 0 \/ stage # "none")
    BY <1>1, ReadsInOrder
<1>3. satp \in Roots /\ satp # Bare
    BY <1>1 DEF Translating, MachineTypes, Satps
<1>4. insts_read \in Nat /\ C \in Nat
    BY Indices
<1>5. Known(satps, C) /\ Latest(satps, C) = satp
    <2>1. 0 \in DOMAIN satps /\ Latest(satps, C) = satp
        BY <1>2 DEF SatpsOK
    <2> QED
        BY <1>4, <2>1 DEF Known, Before
<1>6. Walked \subseteq Tables
    BY <1>3, PageTableAssumption, TablesAreWalked DEF MachineTypes
<1>7. Consistent(pages[satp], C, walk)
    <2>1. DOMAIN walk = Walked
        OBVIOUS
    <2>2. ASSUME NEW t \in Walked, DOMAIN pages[satp][t] # {}
          PROVE  Known(pages[satp][t], C) /\ C \notin DOMAIN pages[satp][t]
        <3>1. stage \notin {"walk", "event"}
            BY <1>2
        <3>2. DOMAIN pages[satp][t] \subseteq 1..(insts_read + 0)
            BY <1>3, <1>6, <3>1, Zenon DEF PagesOK
        <3> QED
            BY <1>4, <2>2, <3>2 DEF Known, Before
    <2> QED
        BY <2>1, <2>2, Zenon DEF Consistent
<1>8. Valid
    BY <1>3, <1>5, <1>7
<1>9. IF Valid
      THEN /\ pages' = [pages EXCEPT ![Latest(satps, C)] = UpdatePages(@, C, walk)]
           /\ last_valid_insts' = insts_read
           /\ UNCHANGED thread
      ELSE /\ thread' = "dead"
           /\ UNCHANGED <<pages, last_valid_insts>>
    BY Zenon DEF ReadPageTableWalk, Current, AllBefore
<1> HIDE DEF Valid
<1>10. /\ pages' = [pages EXCEPT ![Latest(satps, C)] = UpdatePages(@, C, walk)]
       /\ last_valid_insts' = insts_read
       /\ UNCHANGED thread
    BY <1>8, <1>9, Zenon
<1>11. pages' = [pages EXCEPT ![satp] = UpdatePages(@, C, walk)]
    BY <1>5, <1>10, Zenon
<1> QED
    BY <1>3, <1>6, <1>7, <1>10, <1>11, Zenon

\* An entry of a walk is what is known of its table then.
LEMMA EntryIsKnown ==
    ASSUME NEW f, NEW n \in Nat, DOMAIN f \subseteq 1..n, NEW x, NEW g,
           g = IF Changed(f, n + 1, x) THEN With(f, n + 1, x) ELSE f
    PROVE  /\ DOMAIN g \subseteq 1..(n + 1)
           /\ Known(g, n + 1) /\ Latest(g, n + 1) = x
           /\ \A i \in DOMAIN g : (i \in DOMAIN f /\ g[i] = f[i]) \/ g[i] = x
           /\ \A i \in 1..n : SameUpTo(f, g, i)
<1>1. DOMAIN f \in SUBSET Nat /\ n + 1 \in Nat
    OBVIOUS
<1>2. CASE Changed(f, n + 1, x)
    <2>1. g = With(f, n + 1, x)
        BY <1>2
    <2>2. Known(g, n + 1) /\ Latest(g, n + 1) = x
        <3>1. \A j \in DOMAIN f : j <= n + 1
            OBVIOUS
        <3> QED
            BY <1>1, <2>1, <3>1, WithLast
    <2>3. ASSUME NEW i \in 1..n PROVE SameUpTo(f, g, i)
        <3>1. i \in Nat /\ n + 1 > i
            OBVIOUS
        <3> QED
            BY <1>1, <2>1, <3>1, WithLater, Zenon
    <2>4. DOMAIN g = DOMAIN f \cup {n + 1}
        BY <2>1 DEF With
    <2>5. \A i \in DOMAIN g : (i \in DOMAIN f /\ g[i] = f[i]) \/ g[i] = x
        BY <2>1 DEF With
    <2>6. DOMAIN g \subseteq 1..(n + 1)
        BY <2>4
    <2> QED
        BY <2>2, <2>3, <2>5, <2>6
<1>3. CASE ~Changed(f, n + 1, x)
    <2>1. g = f
        BY <1>3
    <2>2. Known(f, n + 1) /\ Latest(f, n + 1) = x
        BY <1>3 DEF Changed
    <2>3. \A i \in 1..n : SameUpTo(f, g, i)
        BY <2>1, SameIsSame
    <2> QED
        BY <2>1, <2>2, <2>3
<1> QED
    BY <1>2, <1>3

LEMMA WalkKeeps ==
    ASSUME Inv, ReadPageTableWalk
    PROVE  Inv'
<1> USE DEF Inv
<1> DEFINE walk == [t \in Walked |-> memory[t]]
<1>1. /\ recorded' = [recorded EXCEPT ![satp] =
                          [t \in Tables |-> IF t \in Walked THEN memory[t] ELSE @[t]]]
      /\ UNCHANGED <<modes, satps, done_reading, insts_read>>
      /\ UNCHANGED <<stop_reading, request, answer>>
      /\ UNCHANGED <<mode, next_mode, satp, next_satp, memory, addressed, events>>
    BY DEF ReadPageTableWalk, caller
<1>2. /\ satp \in Roots /\ Walked \subseteq Tables
      /\ pages' = [pages EXCEPT ![satp] = UpdatePages(@, insts_read + 1, walk)]
      /\ last_valid_insts' = insts_read
      /\ UNCHANGED thread
    BY WalkIsEntered
<1>3. /\ ~done_reading /\ insts_read < MaxInsts /\ stage' = "walk"
      /\ stage \in {"none", "state", "dest"} /\ (insts_read > 0 \/ stage # "none")
    BY ReadsInOrder DEF ReadPageTableWalk
<1>4. insts_read \in Nat
    BY Indices
<1>5. StageTypes' /\ MachineTypes'
    BY <1>1, <1>2, <1>3 DEF StageTypes, MachineTypes, MemoryOK
<1>6. ModesOK'
    <2>1. stage' # "event" /\ stage # "event"
        BY <1>3
    <2> QED
        BY <1>1, <2>1, Zenon DEF ModesOK
<1>7. SatpsOK'
    <2>1. (IF stage' \in {"none", "state"} THEN 1 ELSE 2) = 2
        BY <1>3
    <2>2. DOMAIN satps \subseteq 0..(insts_read + 2)
        BY <1>4 DEF SatpsOK
    <2> QED
        BY <1>1, <1>3, <2>1, <2>2 DEF SatpsOK
<1>8. ASSUME NEW r \in Roots, NEW t \in Tables
      PROVE  \/ pages'[r][t] = pages[r][t] /\ recorded'[r][t] = recorded[r][t]
             \/ /\ recorded'[r][t] = memory[t]
                /\ pages'[r][t] = IF Changed(pages[r][t], insts_read + 1, memory[t])
                                  THEN With(pages[r][t], insts_read + 1, memory[t])
                                  ELSE pages[r][t]
    <2>1. DOMAIN pages = Roots /\ DOMAIN recorded = Roots
        BY DEF PagesOK
    <2>2. CASE r # satp
        BY <1>1, <1>2, <2>1, <2>2
    <2>3. CASE r = satp
        <3>1. pages'[r] = UpdatePages(pages[r], insts_read + 1, walk)
            BY <1>2, <2>1, <2>3
        <3>2. DOMAIN walk = Walked /\ (t \in Walked => walk[t] = memory[t])
            OBVIOUS
        <3>3. pages'[r][t] = IF t \in Walked /\ Changed(pages[r][t], insts_read + 1, walk[t])
                             THEN With(pages[r][t], insts_read + 1, walk[t]) ELSE pages[r][t]
            <4> HIDE DEF walk
            <4> QED
                BY <3>1, <3>2, Zenon DEF UpdatePages
        <3>4. recorded'[r] = [u \in Tables |-> IF u \in Walked THEN memory[u] ELSE recorded[r][u]]
            BY <1>1, <2>1, <2>3
        <3>5. recorded'[r][t] = IF t \in Walked THEN memory[t] ELSE recorded[r][t]
            BY <3>4
        <3> QED
            BY <3>2, <3>3, <3>5, Zenon
    <2> QED
        BY <2>2, <2>3
<1>9. ASSUME NEW r \in Roots, NEW t \in Tables
      PROVE  /\ DOMAIN pages'[r][t] \subseteq 1..(insts_read + 1)
             /\ \A i \in DOMAIN pages'[r][t] : pages'[r][t][i] \in Entries
             /\ recorded'[r][t] # NoEntry =>
                   /\ Known(pages'[r][t], insts_read + 1)
                   /\ Latest(pages'[r][t], insts_read + 1) = recorded'[r][t]
             /\ \A i \in 1..insts_read : SameUpTo(pages[r][t], pages'[r][t], i)
    <2>1. DOMAIN pages[r][t] \subseteq 1..insts_read
        <3>1. stage \notin {"walk", "event"}
            BY <1>3
        <3>2. DOMAIN pages[r][t] \subseteq 1..(insts_read + 0)
            BY <3>1, Zenon DEF PagesOK
        <3> QED
            BY <1>4, <3>2
    <2>2. \A i \in DOMAIN pages[r][t] : pages[r][t][i] \in Entries
        BY DEF PagesOK
    <2>3. CASE pages'[r][t] = pages[r][t] /\ recorded'[r][t] = recorded[r][t]
        <3>1. DOMAIN pages'[r][t] \subseteq 1..(insts_read + 1)
            BY <1>4, <2>1, <2>3
        <3>2. \A i \in 1..insts_read : SameUpTo(pages[r][t], pages'[r][t], i)
            BY <2>3, SameIsSame
        <3> QED
            BY <2>2, <2>3, <3>1, <3>2, Zenon DEF PagesOK
    <2>4. CASE /\ recorded'[r][t] = memory[t]
               /\ pages'[r][t] = IF Changed(pages[r][t], insts_read + 1, memory[t])
                                 THEN With(pages[r][t], insts_read + 1, memory[t])
                                 ELSE pages[r][t]
        <3> DEFINE f == pages[r][t]
                   g == pages'[r][t]
        <3>1. /\ DOMAIN g \subseteq 1..(insts_read + 1)
              /\ Known(g, insts_read + 1) /\ Latest(g, insts_read + 1) = memory[t]
              /\ \A i \in DOMAIN g : (i \in DOMAIN f /\ g[i] = f[i]) \/ g[i] = memory[t]
              /\ \A i \in 1..insts_read : SameUpTo(f, g, i)
            BY <1>4, <2>1, <2>4, EntryIsKnown
        <3>2. memory[t] \in Entries
            BY DEF MachineTypes, MemoryOK
        <3>3. \A i \in DOMAIN g : g[i] \in Entries
            BY <2>2, <3>1, <3>2, Zenon
        <3> QED
            BY <2>4, <3>1, <3>3, Zenon
    <2> QED
        BY <1>8, <2>3, <2>4
<1>10. PagesOK'
    <2>1. DOMAIN pages' = Roots /\ DOMAIN recorded' = Roots
        BY <1>1, <1>2 DEF PagesOK
    <2>2. stage' \in {"walk", "event"} /\ insts_read' = insts_read
        BY <1>1, <1>3
    <2> QED
        BY <1>9, <2>1, <2>2, Zenon DEF PagesOK
<1>11. Translated' /\ Answered'
    <2>1. \A i \in 1..insts_read : SameUpTo(modes, modes', i) /\ SameUpTo(satps, satps', i)
        BY <1>1, SameIsSame
    <2> QED
        BY <1>1, <1>3, <1>9, <2>1, AnswersKept
<1> QED
    BY <1>5, <1>6, <1>7, <1>10, <1>11

\* The reader translates the instruction that ends as the machine does.
LEMMA CurrentIsTranslated ==
    ASSUME Inv, insts_read = 0 => stage = "event" \/ (stage # "none" /\ mode = "machine"),
           Accessible
    PROVE  Translate(modes, satps, pages, insts_read + 1) = Address
<1> USE DEF Inv
<1> DEFINE C == insts_read + 1
<1>1. insts_read \in Nat /\ C \in Nat
    BY Indices
<1>2. insts_read > 0 \/ insts_read = 0
    BY <1>1
<1>3. Latest(modes, C) = mode
    BY <1>2 DEF ModesOK
<1>4. Known(satps, C) /\ Latest(satps, C) = satp
    <2>1. insts_read > 0 \/ stage # "none"
        BY <1>2, Zenon
    <2>2. 0 \in DOMAIN satps /\ Latest(satps, C) = satp
        BY <2>1 DEF SatpsOK
    <2> QED
        BY <1>1, <2>2 DEF Known, Before
<1>5. CASE mode = "machine"
    BY <1>3, <1>5, Zenon DEF Translate, Address, Translating
<1>6. CASE mode # "machine" /\ satp = Bare
    BY <1>3, <1>4, <1>6, Zenon DEF Translate, Address, Translating
<1>7. CASE mode # "machine" /\ satp # Bare
    <2>1. Translating /\ satp \in Roots /\ satp \in Tables
        BY <1>7, PageTableAssumption DEF Translating, MachineTypes, Satps
    <2> DEFINE e == EntriesAt(pages[satp], C)
               u == CHOOSE t \in Walked : memory[t].leaf
    <2>2. u \in Walked /\ memory[u].leaf
        BY <2>1, Zenon DEF Accessible, Mapped
    <2>3. Address = memory[u].to
        BY <2>1, Zenon DEF Address
    <2>4. Translate(modes, satps, pages, C) = Walk(e, satp)
        BY <1>3, <1>4, <1>7, Zenon DEF Translate
    <2>5. /\ DOMAIN e = {t \in Tables : Known(pages[satp][t], C)}
          /\ \A t \in DOMAIN e : e[t] = Latest(pages[satp][t], C)
        BY Zenon DEF EntriesAt
    <2>6. ASSUME NEW t \in DOMAIN e
          PROVE  t \in Tables /\ (~e[t].leaf => e[t].to \in Tables)
        <3>1. t \in Tables /\ Known(pages[satp][t], C) /\ e[t] = Latest(pages[satp][t], C)
            BY <2>5, <2>6, Zenon
        <3>2. DOMAIN pages[satp][t] \in SUBSET Nat
            BY <2>1, <3>1, Indices
        <3>3. e[t] \in Entries
            BY <1>1, <2>1, <3>1, <3>2, LatestExists DEF PagesOK
        <3> QED
            BY <3>1, <3>3, EntryKinds
    <2>7. ASSUME NEW t \in Walked
          PROVE  t \in DOMAIN e /\ e[t] = memory[t]
        <3>1. t \in Tables /\ memory[t] \in Entries
            BY <2>1, TablesAreWalked DEF MachineTypes, MemoryOK
        <3>2. recorded[satp][t] = memory[t] /\ memory[t] # NoEntry
            BY <2>1, <3>1, EntryKinds, Zenon DEF Accessible
        <3>3. Known(pages[satp][t], C) /\ Latest(pages[satp][t], C) = memory[t]
            BY <2>1, <3>1, <3>2, Zenon DEF PagesOK
        <3> QED
            BY <2>5, <3>1, <3>3, Zenon
    <2>8. Walk(e, satp) = memory[u].to
        <3> HIDE DEF e, u
        <3>1. MemoryOK
            BY DEF MachineTypes
        <3> QED
            BY <2>1, <2>2, <2>6, <2>7, <3>1, WalkAgrees
    <2> QED
        BY <2>3, <2>4, <2>8, Zenon
<1> QED
    BY <1>5, <1>6, <1>7

LEMMA OpcodeKeeps ==
    ASSUME Inv, ReadOpcode
    PROVE  Inv'
<1> USE DEF Inv
<1>1. /\ thread = "running" /\ insts_read < MaxInsts
      /\ insts_read = 0 => stage = "event" \/ (stage # "none" /\ mode = "machine")
      /\ insts_read' = insts_read + 1 /\ stage' = "none"
      /\ last_valid_insts' = IF (insts_read + 1) % Interval = 0 THEN insts_read + 1
                             ELSE last_valid_insts
      /\ mode' = next_mode /\ satp' = next_satp
      /\ addressed' = Append(addressed, IF Accessible THEN Address ELSE None)
      /\ UNCHANGED <<modes, satps, pages, done_reading, thread>>
      /\ UNCHANGED <<stop_reading, request, answer>>
      /\ UNCHANGED <<next_mode, next_satp, memory, recorded, events>>
    BY DEF ReadOpcode, Current, page_table, caller
<1>2. /\ insts_read \in Nat /\ insts_read + 1 \in Nat /\ insts_read + 2 \in Nat
      /\ insts_read + 3 \in Nat
    BY Indices
<1>3. insts_read > 0 \/ insts_read = 0
    BY <1>2
<1>4. insts_read' > 0 /\ insts_read' # 0 /\ insts_read' + 1 = insts_read + 2
      /\ insts_read' + 2 = insts_read + 3
    BY <1>1, <1>2
<1>5. StageTypes'
    <2>1. insts_read' \in 0..MaxInsts
        BY <1>1, <1>2, PteAssumption
    <2>2. last_valid_insts' \in 0..insts_read'
        <3>1. last_valid_insts \in 0..insts_read
            BY DEF StageTypes
        <3>2. insts_read + 1 \in 0..insts_read' /\ last_valid_insts \in 0..insts_read'
            BY <1>1, <1>2, <3>1
        <3> QED
            BY <1>1, <3>2, Zenon
    <2> QED
        BY <1>1, <2>1, <2>2 DEF StageTypes
<1>6. Address \in Frames \cup {VA} \/ ~Accessible
    <2>1. CASE ~Translating
        BY <2>1 DEF Address
    <2>2. CASE Translating /\ Accessible
        <3> DEFINE u == CHOOSE t \in Walked : memory[t].leaf
        <3>1. u \in Walked /\ memory[u].leaf
            BY <2>2, Zenon DEF Accessible, Mapped
        <3>2. Address = memory[u].to
            BY <2>2, Zenon DEF Address
        <3>3. satp \in Tables
            BY <2>2, PageTableAssumption DEF Translating, MachineTypes, Satps
        <3>4. u \in Tables
            BY <3>1, <3>3, TablesAreWalked DEF MachineTypes
        <3>5. memory[u] \in Entries
            BY <3>4 DEF MachineTypes, MemoryOK
        <3>6. memory[u].to \in Frames
            <4> HIDE DEF u
            <4> QED
                BY <3>1, <3>5 DEF Entries
        <3> QED
            BY <3>2, <3>6
    <2> QED
        BY <2>1, <2>2
<1>7. /\ addressed' \in Seq(Frames \cup {VA, None}) /\ Len(addressed') = insts_read'
      /\ \A i \in 1..insts_read : addressed'[i] = addressed[i]
      /\ addressed'[insts_read'] = IF Accessible THEN Address ELSE None
    <2> DEFINE x == IF Accessible THEN Address ELSE None
    <2>1. x \in Frames \cup {VA, None}
        BY <1>6
    <2>2. addressed \in Seq(Frames \cup {VA, None}) /\ Len(addressed) = insts_read
        BY DEF MachineTypes
    <2>3. addressed' = Append(addressed, x)
        BY <1>1, Zenon
    <2> HIDE DEF x
    <2>4. /\ addressed' \in Seq(Frames \cup {VA, None}) /\ Len(addressed') = insts_read'
          /\ \A i \in 1..insts_read : addressed'[i] = addressed[i]
          /\ addressed'[insts_read'] = x
        BY <1>1, <1>2, <2>1, <2>2, <2>3
    <2> QED
        BY <2>4, Zenon DEF x
<1>8. MachineTypes'
    BY <1>1, <1>7 DEF MachineTypes, MemoryOK
<1>9. ModesOK'
    <2>1. DOMAIN modes \subseteq 0..(insts_read + 2)
        BY <1>2 DEF ModesOK
    <2>2. Latest(modes, insts_read + 2) = next_mode
        BY <1>1, <1>3 DEF ModesOK
    <2>3. Latest(modes, insts_read + 3) = next_mode
        BY <1>2, <2>1, <2>2, NothingLater
    <2>4. DOMAIN modes' \subseteq 0..(insts_read' + (IF stage' = "event" THEN 2 ELSE 1))
        BY <1>1, <1>2, <2>1
    <2>5. 0 \in DOMAIN modes' /\ \A i \in DOMAIN modes' : modes'[i] \in Modes
        BY <1>1 DEF ModesOK
    <2> QED
        BY <1>1, <1>4, <2>2, <2>3, <2>4, <2>5, Zenon DEF ModesOK
<1>10. SatpsOK'
    <2>1. DOMAIN satps \subseteq 0..(insts_read + 2)
        BY <1>2 DEF SatpsOK
    <2>2. insts_read > 0 \/ stage # "none"
        BY <1>1, <1>3, Zenon
    <2>3. 0 \in DOMAIN satps /\ Latest(satps, insts_read + 2) = next_satp
        BY <2>2, Zenon DEF SatpsOK
    <2>4. Latest(satps, insts_read + 3) = next_satp
        BY <1>2, <2>1, <2>3, NothingLater
    <2>5. DOMAIN satps' \subseteq 0..(insts_read' + (IF stage' \in {"none", "state"} THEN 1 ELSE 2))
        BY <1>1, <1>2, <2>1
    <2>6. \A i \in DOMAIN satps' : satps'[i] \in Satps
        BY <1>1 DEF SatpsOK
    <2> QED
        BY <1>1, <1>4, <2>3, <2>4, <2>5, <2>6, Zenon DEF SatpsOK
<1>11. PagesOK'
    <2>1. stage' \notin {"walk", "event"} /\ DOMAIN pages' = Roots /\ DOMAIN recorded' = Roots
        BY <1>1 DEF PagesOK
    <2>2. ASSUME NEW r \in Roots, NEW t \in Tables
          PROVE  /\ DOMAIN pages'[r][t] \subseteq 1..(insts_read' + 0)
                 /\ \A i \in DOMAIN pages'[r][t] : pages'[r][t][i] \in Entries
                 /\ recorded'[r][t] # NoEntry =>
                        /\ Known(pages'[r][t], insts_read' + 1)
                        /\ Latest(pages'[r][t], insts_read' + 1) = recorded'[r][t]
        <3>1. DOMAIN pages[r][t] \subseteq 1..(insts_read + 1)
            BY <1>2 DEF PagesOK
        <3>2. DOMAIN pages[r][t] \subseteq 0..(insts_read + 1) /\ insts_read + 1 <= insts_read + 2
            BY <1>2, <3>1
        <3>3. /\ Known(pages[r][t], insts_read + 1) <=> Known(pages[r][t], insts_read + 2)
              /\ Latest(pages[r][t], insts_read + 1) = Latest(pages[r][t], insts_read + 2)
            BY <1>2, <3>2, NothingLater
        <3>4. 1..(insts_read' + 0) = 1..(insts_read + 1)
            BY <1>1, <1>2
        <3>5. recorded[r][t] # NoEntry =>
                  /\ Known(pages[r][t], insts_read + 1)
                  /\ Latest(pages[r][t], insts_read + 1) = recorded[r][t]
            BY Zenon DEF PagesOK
        <3>6. \A i \in DOMAIN pages[r][t] : pages[r][t][i] \in Entries
            BY Zenon DEF PagesOK
        <3> QED
            BY <1>1, <1>4, <3>1, <3>3, <3>4, <3>5, <3>6, Zenon
    <2> QED
        BY <2>1, <2>2, Zenon DEF PagesOK
<1>12. Translated'
    <2>1. ASSUME NEW i \in 1..insts_read', addressed'[i] # None
          PROVE  Translate(modes, satps, pages, i) = addressed'[i]
        <3>1. CASE i \in 1..insts_read
            BY <1>7, <2>1, <3>1 DEF Translated
        <3>2. CASE i \notin 1..insts_read
            <4>1. i = insts_read + 1 /\ i = insts_read'
                BY <1>1, <1>2, <2>1, <3>2
            <4>2. Accessible /\ addressed'[i] = Address
                BY <1>7, <2>1, <4>1, Zenon
            <4>3. Translate(modes, satps, pages, insts_read + 1) = Address
                BY <1>1, <4>2, CurrentIsTranslated
            <4> QED
                BY <4>1, <4>2, <4>3, Zenon
        <3> QED
            BY <3>1, <3>2
    <2> QED
        BY <1>1, <2>1, Zenon DEF Translated
<1>13. Answered'
    <2>1. AnswersStand'
        BY <1>1, Zenon DEF Answered, AnswersStand
    <2>2. answer.index \in Nat /\ (answer.index # 0 => answer.index <= insts_read \/ done_reading)
        BY DEF Answered
    <2>3. answer.index # 0 => answer.index <= insts_read'
        <3>1. ~done_reading
            BY <1>1 DEF StageTypes
        <3> QED
            BY <1>1, <1>2, <2>2, <3>1
    <2> QED
        BY <1>1, <2>1, <2>2, <2>3, Zenon DEF Answered
<1> QED
    BY <1>5, <1>8, <1>9, <1>10, <1>11, <1>12, <1>13

\* What the thread has read and what the machine has done, but for its memory.
history == <<modes, satps, pages, insts_read, stage, mode, next_mode, satp, next_satp,
             recorded, addressed>>

LEMMA HistoryKept ==
    ASSUME Inv, UNCHANGED history, MemoryOK'
    PROVE  MachineTypes' /\ ModesOK' /\ SatpsOK' /\ PagesOK' /\ Translated'
<1> USE DEF Inv, history
<1>1. MachineTypes'
    BY DEF MachineTypes
<1>2. ModesOK' /\ SatpsOK'
    BY Zenon DEF ModesOK, SatpsOK
<1>3. PagesOK'
    BY Zenon DEF PagesOK
<1>4. Translated'
    BY Zenon DEF Translated
<1> QED
    BY <1>1, <1>2, <1>3, <1>4

LEMMA StoreKeeps ==
    ASSUME Inv, NEW t \in Tables, NEW entry \in Entries, Store(t, entry)
    PROVE  Inv'
<1> USE DEF Inv
<1>1. /\ memory' = [memory EXCEPT ![t] = entry]
      /\ UNCHANGED history
      /\ UNCHANGED <<last_valid_insts, done_reading, thread, stop_reading, request, answer>>
    BY DEF Store, history, page_table, caller
<1>2. MemoryOK'
    BY <1>1 DEF MachineTypes, MemoryOK
<1>3. StageTypes'
    BY <1>1 DEF StageTypes, history
<1>4. Answered'
    BY <1>1, Zenon DEF Answered, AnswersStand, history
<1> QED
    BY <1>1, <1>2, <1>3, <1>4, HistoryKept

LEMMA EndKeeps ==
    ASSUME Inv, ThreadEnds \/ Join
    PROVE  Inv'
<1> USE DEF Inv
<1>1. /\ UNCHANGED history /\ UNCHANGED <<memory, answer>>
      /\ UNCHANGED <<last_valid_insts, stop_reading, request>>
    BY DEF ThreadEnds, Join, history, page_table, caller, machine
<1>2. MemoryOK'
    BY <1>1 DEF MachineTypes, MemoryOK
<1>3. /\ done_reading' \in BOOLEAN /\ (done_reading => done_reading')
      /\ thread' \in {"ended", "joined"}
    BY DEF ThreadEnds, Join, StageTypes
<1>4. StageTypes'
    BY <1>1, <1>3 DEF StageTypes, history
<1>5. Answered'
    <2>1. AnswersStand'
        BY <1>1, Zenon DEF Answered, AnswersStand, history
    <2>2. insts_read' = insts_read
        BY <1>1 DEF history
    <2> QED
        BY <1>1, <1>3, <2>1, <2>2, Zenon DEF Answered
<1> QED
    BY <1>1, <1>2, <1>4, <1>5, HistoryKept

LEMMA CallKeeps ==
    ASSUME Inv, Stop \/ \E index \in 1..(MaxInsts + 1) : CallTranslate(index)
    PROVE  Inv'
<1> USE DEF Inv
<1>1. /\ UNCHANGED history /\ UNCHANGED <<memory, last_valid_insts, done_reading, thread>>
      /\ answer' = NoAnswer
    BY DEF Stop, CallTranslate, history, page_table, machine
<1>2. request' \in 0..(MaxInsts + 1) /\ stop_reading' \in BOOLEAN
    <2>1. CASE Stop
        BY <2>1 DEF Stop, StageTypes
    <2>2. ASSUME NEW index \in 1..(MaxInsts + 1), CallTranslate(index)
          PROVE  request' \in 0..(MaxInsts + 1) /\ stop_reading' \in BOOLEAN
        <3>1. request' = index /\ stop_reading' = stop_reading
            BY <2>2 DEF CallTranslate
        <3>2. index \in 0..(MaxInsts + 1)
            BY PteAssumption
        <3>3. stop_reading \in BOOLEAN
            BY DEF StageTypes
        <3> QED
            BY <3>1, <3>2, <3>3, Zenon
    <2> QED
        BY <2>1, <2>2
<1>3. MemoryOK'
    BY <1>1 DEF MachineTypes, MemoryOK
<1>4. StageTypes'
    BY <1>1, <1>2 DEF StageTypes, history
<1>5. Answered'
    BY <1>1 DEF Answered, AnswersStand, NoAnswer
<1> QED
    BY <1>1, <1>3, <1>4, <1>5, HistoryKept

LEMMA ReturnKeeps ==
    ASSUME Inv, TranslateReturns
    PROVE  Inv'
<1> USE DEF Inv
<1>1. /\ UNCHANGED history
      /\ UNCHANGED <<memory, last_valid_insts, done_reading, thread, stop_reading>>
      /\ answer' = [index |-> request, to |-> Translate(modes, satps, pages, request)]
      /\ request # 0 /\ Ready(request) /\ request' = 0
    BY DEF TranslateReturns, history, page_table, machine
<1>2. MemoryOK'
    BY <1>1 DEF MachineTypes, MemoryOK
<1>3. StageTypes'
    <2>1. request' \in 0..(MaxInsts + 1)
        BY <1>1, PteAssumption
    <2> QED
        BY <1>1, <2>1 DEF StageTypes, history
<1>4. Answered'
    <2>1. answer'.index = request /\ answer'.to = Translate(modes, satps, pages, request)
        BY <1>1
    <2>2. AnswersStand'
        BY <1>1, <2>1, Zenon DEF AnswersStand, history
    <2>3. request \in Nat
        BY PteAssumption DEF StageTypes
    <2>4. request <= insts_read \/ done_reading
        BY <1>1, <2>3, Indices DEF Ready, StageTypes
    <2> QED
        BY <1>1, <2>1, <2>2, <2>3, <2>4, Zenon DEF Answered, history
<1> QED
    BY <1>1, <1>2, <1>3, <1>4, HistoryKept

-----------------------------------------------------------------------------
(* The theorems. *)

LEMMA InitEstablishesInv ==
    ASSUME Init
    PROVE  Inv
<1> USE DEF Init
<1>1. StageTypes
    <2>1. 0 \in 0..MaxInsts /\ 0 \in 0..0 /\ 0 \in 0..(MaxInsts + 1)
        BY PteAssumption
    <2>2. insts_read = 0 /\ last_valid_insts = 0 /\ request = 0
        OBVIOUS
    <2>3. stage = "none" /\ thread = "running" /\ done_reading = FALSE /\ stop_reading = FALSE
        OBVIOUS
    <2> QED
        BY <2>1, <2>2, <2>3, Zenon DEF StageTypes
<1>2. MachineTypes
    BY DEF MachineTypes, MemoryOK
<1>3. ModesOK
    <2>1. DOMAIN modes = {0} /\ modes[0] = "machine" /\ insts_read = 0 /\ next_mode = mode
          /\ stage = "none"
        OBVIOUS
    <2>2. Latest(modes, 1) = "machine" /\ Latest(modes, 2) = "machine"
        BY <2>1, LatestIs
    <2>3. DOMAIN modes \subseteq 0..(insts_read + (IF stage = "event" THEN 2 ELSE 1))
        BY <2>1
    <2>4. insts_read + 1 = 1 /\ insts_read + 2 = 2 /\ ~(insts_read > 0)
        BY <2>1
    <2>5. \A i \in DOMAIN modes : modes[i] \in Modes
        BY <2>1 DEF Modes
    <2>6. insts_read > 0 \/ stage = "event" \/ mode = "machine" => mode = "machine"
        BY <2>1, <2>4
    <2> QED
        BY <2>1, <2>2, <2>3, <2>4, <2>5, <2>6, Zenon DEF ModesOK
<1>4. SatpsOK
    BY DEF SatpsOK, NoVersions
<1>5. PagesOK
    <2>1. /\ \A s \in Roots, t \in Tables : DOMAIN pages[s][t] = {}
          /\ \A s \in Roots, t \in Tables : recorded[s][t] = NoEntry
          /\ DOMAIN pages = Roots /\ DOMAIN recorded = Roots
        BY DEF NoVersions
    <2> QED
        BY <2>1, Zenon DEF PagesOK
<1>6. Translated /\ Answered
    BY DEF Translated, Answered, AnswersStand, NoAnswer
<1> QED
    BY <1>1, <1>2, <1>3, <1>4, <1>5, <1>6 DEF Inv

LEMMA StepKeepsInv ==
    ASSUME Inv, [Next]_vars
    PROVE  Inv'
<1>1. CASE ReadRecord
    <2>1. CASE ReadSatpState
        BY <2>1, SatpStateKeeps
    <2>2. CASE ReadPageTableWalk
        BY <2>2, WalkKeeps
    <2>3. CASE ReadFirstMode
        BY <2>3, FirstModeKeeps
    <2>4. CASE ReadOpcode
        BY <2>4, OpcodeKeeps
    <2>5. ASSUME NEW s \in Satps, ReadSatpDest(s) PROVE Inv'
        BY <2>5, SatpDestKeeps
    <2>6. ASSUME NEW m \in Modes, ReadModeChange(m) PROVE Inv'
        BY <2>6, ModeChangeKeeps
    <2> QED
        BY <1>1, <2>1, <2>2, <2>3, <2>4, <2>5, <2>6 DEF ReadRecord
<1>2. CASE ThreadEnds \/ Join
    BY <1>2, EndKeeps
<1>3. ASSUME NEW t \in Tables, NEW entry \in Entries, Store(t, entry) PROVE Inv'
    BY <1>3, StoreKeeps
<1>4. CASE Stop \/ \E index \in 1..(MaxInsts + 1) : CallTranslate(index)
    BY <1>4, CallKeeps
<1>5. CASE TranslateReturns
    BY <1>5, ReturnKeeps
<1>6. CASE UNCHANGED vars
    <2>1. /\ UNCHANGED history
          /\ UNCHANGED <<memory, last_valid_insts, done_reading, thread, stop_reading,
                         request, answer>>
        BY <1>6 DEF vars, history, page_table, caller, machine
    <2>2. MemoryOK'
        BY <2>1 DEF Inv, MachineTypes, MemoryOK
    <2>3. StageTypes'
        BY <2>1 DEF Inv, StageTypes, history
    <2>4. Answered'
        BY <2>1, Zenon DEF Inv, Answered, AnswersStand, history
    <2> QED
        BY <2>1, <2>2, <2>3, <2>4, HistoryKept DEF Inv
<1> QED
    BY <1>1, <1>2, <1>3, <1>4, <1>5, <1>6 DEF Next, Thread

\* The inductive invariant holds of every behaviour.
LEMMA Invariance == Spec => []Inv
<1>1. Init => Inv
    BY InitEstablishesInv
<1>2. Inv /\ [Next]_vars => Inv'
    BY StepKeepsInv
<1> QED
    BY <1>1, <1>2, PTL DEF Spec

\* The versions, the machine and the thread keep their types, for any number of
\* instructions, tables, frames, levels and events.
THEOREM TypesHold == Spec => []TypeOK
<1>1. ASSUME Inv PROVE TypeOK
    <2> USE <1>1 DEF Inv
    <2>1. insts_read \in Nat /\ MaxInsts \in Nat
        BY Indices, PteAssumption
    <2>2. AreVersions(modes, Modes)
        <3>1. DOMAIN modes \subseteq 0..(MaxInsts + 1)
            <4>1. CASE stage = "event"
                BY <2>1, <4>1 DEF ModesOK, StageTypes
            <4>2. CASE stage # "event"
                BY <2>1, <4>2 DEF ModesOK, StageTypes
            <4> QED
                BY <4>1, <4>2
        <3> QED
            BY <3>1 DEF AreVersions, ModesOK
    <2>3. AreVersions(satps, Satps)
        <3>1. DOMAIN satps \subseteq 0..(MaxInsts + 1)
            <4>1. CASE stage = "none" \/ stage = "state"
                BY <2>1, <4>1 DEF SatpsOK, StageTypes
            <4>2. CASE stage # "none" /\ stage # "state"
                BY <2>1, <4>2 DEF SatpsOK, StageTypes
            <4> QED
                BY <4>1, <4>2
        <3> QED
            BY <3>1 DEF AreVersions, SatpsOK
    <2>4. ASSUME NEW s \in Roots, NEW t \in Tables
          PROVE  AreVersions(pages[s][t], Entries)
        <3>1. DOMAIN pages[s][t] \subseteq 1..(insts_read + 1) /\ insts_read + 1 <= MaxInsts + 1
            BY <2>1 DEF PagesOK, StageTypes
        <3>2. DOMAIN pages[s][t] \subseteq 0..(MaxInsts + 1)
            BY <2>1, <3>1
        <3> QED
            BY <3>2 DEF AreVersions, PagesOK
    <2>5. memory \in [Tables -> Entries] /\ Len(addressed) = insts_read
        BY DEF MachineTypes, MemoryOK
    <2> QED
        BY <2>2, <2>3, <2>4, <2>5 DEF TypeOK, StageTypes
<1> QED
    BY <1>1, Invariance, PTL

\* Whatever the machine does to its page tables, SATP and mode, and however far
\* the thread is ahead, translate() gives the address that the machine used.
THEOREM TranslationsAreTrue == Spec => []AnswersAreTrue
<1>1. ASSUME Inv PROVE AnswersAreTrue
    <2>1. 0 \notin 1..insts_read
        BY <1>1, Indices
    <2> QED
        BY <1>1, <2>1, Zenon DEF Inv, Answered, AnswersStand, Translated, AnswersAreTrue
<1> QED
    BY <1>1, Invariance, PTL

\* No record read after translate() has returned changes what it would return.
THEOREM TranslationsStand == Spec => []AnswersStand
<1>1. Inv => AnswersStand
    BY DEF Inv, Answered
<1> QED
    BY <1>1, Invariance, PTL

\* No walk of a machine fails an assertion of STFPageTable::update(), which would
\* end the process.
THEOREM NoAssertionFails == Spec => [](thread # "dead")
<1>1. Inv => thread # "dead"
    BY DEF Inv, StageTypes
<1> QED
    BY <1>1, Invariance, PTL

=============================================================================
