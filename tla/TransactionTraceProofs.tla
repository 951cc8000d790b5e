---------------------- MODULE TransactionTraceProofs -----------------------
(***************************************************************************)
(* A closed trace with transactions can be read without the process that   *)
(* wrote it, for every set of clocks, settings, payloads and dependencies, *)
(* and any number of traces, flushes and processes.                        *)
(*                                                                         *)
(* The invariant IInv follows a header from the setters to the file: the   *)
(* flags of the writer and the blocks they stand for, in their order; the  *)
(* clocks that wait, and those that are written, which the registry knows; *)
(* and the transactions, which come behind a finished header and use       *)
(* clocks it tells.                                                        *)
(***************************************************************************)
EXTENDS TransactionTrace, FiniteSetTheorems, WellFoundedInduction, TLAPS

-----------------------------------------------------------------------------
(* Sequences of whatever they hold. *)

IsSeq(s) == s \in Seq(ToSet(s))

LEMMA SeqFacts ==
    ASSUME NEW s, IsSeq(s)
    PROVE  /\ Len(s) \in Nat /\ DOMAIN s = 1 .. Len(s)
           /\ s = [i \in 1 .. Len(s) |-> s[i]]
           /\ \A x : x \in ToSet(s) <=> \E i \in 1 .. Len(s) : x = s[i]
<1> DEFINE S == ToSet(s)
<1>1. s \in Seq(S)
    BY DEF IsSeq
<1>2. Len(s) \in Nat /\ DOMAIN s = 1 .. Len(s) /\ s = [i \in 1 .. Len(s) |-> s[i]]
    <2> HIDE DEF S
    <2> QED BY <1>1
<1>3. \A x : x \in ToSet(s) <=> \E i \in DOMAIN s : x = s[i]
    BY DEF ToSet
<1> QED BY <1>2, <1>3

LEMMA SeqOfIsSeq ==
    ASSUME NEW S, NEW s \in Seq(S)
    PROVE  IsSeq(s)
<1>1. /\ Len(s) \in Nat /\ DOMAIN s = 1 .. Len(s) /\ s = [i \in 1 .. Len(s) |-> s[i]]
    OBVIOUS
<1>2. \A i \in 1 .. Len(s) : s[i] \in ToSet(s)
    BY <1>1, Zenon DEF ToSet
<1> DEFINE T == ToSet(s)
<1> HIDE DEF T
<1>3. \A i \in 1 .. Len(s) : s[i] \in T
    BY <1>2 DEF T
<1>4. s \in [1 .. Len(s) -> T]
    BY <1>1, <1>3
<1>5. s \in Seq(T)
    BY <1>1, <1>4
<1>6. s \in Seq(ToSet(s))
    BY <1>5 DEF T
<1> QED
    BY <1>6 DEF IsSeq

LEMMA FunctionIsSeq ==
    ASSUME NEW n \in Nat, NEW s, DOMAIN s = 1 .. n, s = [i \in 1 .. n |-> s[i]]
    PROVE  IsSeq(s) /\ Len(s) = n
<1> DEFINE T == ToSet(s)
<1>1. \A i \in 1 .. n : s[i] \in T
    BY DEF ToSet
<1> HIDE DEF T
<1>2. s \in [1 .. n -> T]
    BY <1>1
<1>3. s \in Seq(T) /\ Len(s) = n
    BY <1>2
<1> QED BY <1>3 DEF T, IsSeq

LEMMA ConcatFacts ==
    ASSUME NEW s, NEW t, IsSeq(s), IsSeq(t)
    PROVE  /\ IsSeq(s \o t) /\ Len(s \o t) = Len(s) + Len(t)
           /\ \A i \in 1 .. Len(s) : (s \o t)[i] = s[i]
           /\ \A i \in 1 .. Len(t) : (s \o t)[Len(s) + i] = t[i]
           /\ ToSet(s \o t) = ToSet(s) \cup ToSet(t)
<1> DEFINE S == ToSet(s) \cup ToSet(t)
           u == s \o t
<1>1. s \in Seq(S) /\ t \in Seq(S)
    <2>1. s \in Seq(ToSet(s)) /\ t \in Seq(ToSet(t))
        BY DEF IsSeq
    <2> DEFINE A == ToSet(s)
               B == ToSet(t)
    <2> HIDE DEF A, B
    <2>2. s \in Seq(A) /\ t \in Seq(B)
        BY <2>1 DEF A, B
    <2>3. s \in Seq(A \cup B) /\ t \in Seq(A \cup B)
        BY <2>2
    <2> QED BY <2>3 DEF A, B
<1>2. /\ u \in Seq(S) /\ Len(u) = Len(s) + Len(t) /\ Len(s) \in Nat /\ Len(t) \in Nat
      /\ \A i \in 1 .. Len(s) : u[i] = s[i]
      /\ \A i \in 1 .. Len(t) : u[Len(s) + i] = t[i]
    <2> HIDE DEF S
    <2> QED BY <1>1
<1>3. IsSeq(u)
    <2> HIDE DEF S, u
    <2> QED BY <1>2, SeqOfIsSeq
<1> HIDE DEF u
<1>4. ASSUME NEW x PROVE x \in ToSet(u) <=> x \in ToSet(s) \/ x \in ToSet(t)
    <2>1. x \in ToSet(u) <=> \E i \in 1 .. Len(u) : x = u[i]
        BY <1>3, SeqFacts
    <2>2. x \in ToSet(s) <=> \E i \in 1 .. Len(s) : x = s[i]
        BY SeqFacts
    <2>3. x \in ToSet(t) <=> \E i \in 1 .. Len(t) : x = t[i]
        BY SeqFacts
    <2>4. (\E i \in 1 .. Len(s) : x = s[i]) => \E i \in 1 .. Len(u) : x = u[i]
        BY <1>2
    <2>5. (\E i \in 1 .. Len(t) : x = t[i]) => \E i \in 1 .. Len(u) : x = u[i]
        <3>1. ASSUME NEW i \in 1 .. Len(t), x = t[i] PROVE \E j \in 1 .. Len(u) : x = u[j]
            <4>1. Len(s) + i \in 1 .. Len(u) /\ u[Len(s) + i] = x
                BY <1>2, <3>1
            <4> QED BY <4>1
        <3> QED BY <3>1
    <2>6. ASSUME NEW i \in 1 .. Len(u), x = u[i]
          PROVE  (\E j \in 1 .. Len(s) : x = s[j]) \/ (\E j \in 1 .. Len(t) : x = t[j])
        <3>1. CASE i <= Len(s)
            <4>1. i \in 1 .. Len(s) /\ x = s[i]
                BY <1>2, <2>6, <3>1
            <4> QED BY <4>1
        <3>2. CASE ~(i <= Len(s))
            <4>1. i - Len(s) \in 1 .. Len(t) /\ Len(s) + (i - Len(s)) = i
                BY <1>2, <2>6, <3>2
            <4>2. x = t[i - Len(s)]
                BY <1>2, <2>6, <4>1
            <4> QED BY <4>1, <4>2
        <3> QED BY <3>1, <3>2
    <2> QED BY <2>1, <2>2, <2>3, <2>4, <2>5, <2>6
<1>5. ToSet(u) = ToSet(s) \cup ToSet(t)
    BY <1>4
<1> QED BY <1>2, <1>3, <1>5 DEF u

LEMMA OneElement ==
    ASSUME NEW x
    PROVE  IsSeq(<<x>>) /\ Len(<<x>>) = 1 /\ <<x>>[1] = x /\ ToSet(<<x>>) = {x}
<1>1. <<x>> \in Seq({x}) /\ Len(<<x>>) = 1 /\ <<x>>[1] = x
    OBVIOUS
<1>2. IsSeq(<<x>>)
    <2> DEFINE s == <<x>>
    <2>1. s \in Seq({x})
        BY <1>1
    <2> HIDE DEF s
    <2>2. IsSeq(s)
        BY <2>1, SeqOfIsSeq
    <2> QED BY <2>2 DEF s
<1>3. ToSet(<<x>>) = {x}
    BY <1>1 DEF ToSet
<1> QED BY <1>1, <1>2, <1>3

LEMMA AppendFacts ==
    ASSUME NEW s, NEW x, IsSeq(s)
    PROVE  /\ IsSeq(Append(s, x)) /\ Len(Append(s, x)) = Len(s) + 1
           /\ \A i \in 1 .. Len(s) : Append(s, x)[i] = s[i]
           /\ Append(s, x)[Len(s) + 1] = x
           /\ ToSet(Append(s, x)) = ToSet(s) \cup {x}
<1> DEFINE t == <<x>>
<1>1. IsSeq(t) /\ Len(t) = 1 /\ t[1] = x /\ ToSet(t) = {x}
    BY OneElement
<1>2. Append(s, x) = s \o t
    <2> DEFINE S == ToSet(s) \cup {x}
    <2>1. s \in Seq(ToSet(s))
        BY DEF IsSeq
    <2>2. s \in Seq(S) /\ x \in S
        <3> DEFINE A == ToSet(s)
        <3> HIDE DEF A
        <3>1. s \in Seq(A)
            BY <2>1 DEF A
        <3>2. s \in Seq(A \cup {x})
            BY <3>1
        <3> QED BY <3>2 DEF A
    <2> HIDE DEF S
    <2> QED BY <2>2
<1> HIDE DEF t
<1>3. Len(s) \in Nat /\ 1 \in 1 .. Len(t)
    BY <1>1, SeqFacts
<1>4. /\ IsSeq(s \o t) /\ Len(s \o t) = Len(s) + Len(t)
      /\ \A i \in 1 .. Len(s) : (s \o t)[i] = s[i]
      /\ \A i \in 1 .. Len(t) : (s \o t)[Len(s) + i] = t[i]
      /\ ToSet(s \o t) = ToSet(s) \cup ToSet(t)
    BY <1>1, ConcatFacts
<1>5. (s \o t)[Len(s) + 1] = x
    BY <1>1, <1>3, <1>4
<1> QED BY <1>1, <1>2, <1>4, <1>5, Zenon

LEMMA NothingIsSeq == IsSeq(<<>>) /\ Len(<<>>) = 0 /\ ToSet(<<>>) = {}
<1>1. <<>> \in Seq({}) /\ Len(<<>>) = 0 /\ DOMAIN <<>> = {}
    OBVIOUS
<1>2. ToSet(<<>>) = {}
    BY <1>1 DEF ToSet
<1> QED BY <1>1, <1>2 DEF IsSeq

-----------------------------------------------------------------------------
(* The registry of clocks. *)

\* A clock that a registry knows by its name, and no other.
Named(reg, clock) == NameOf(reg, clock[1]) = {clock[2]}
RegistryInv(reg) == IsSeq(reg) /\ \A clock \in ToSet(reg) : Named(reg, clock)

\* What is known stays known.
Grown(reg, reg2) == \A id : NameOf(reg, id) # {} => NameOf(reg2, id) = NameOf(reg, id)

LEMMA GrownKeepsNames ==
    ASSUME NEW reg, NEW reg2, Grown(reg, reg2), NEW clock, Named(reg, clock)
    PROVE  Named(reg2, clock)
<1>1. NameOf(reg, clock[1]) # {}
    BY DEF Named
<1> QED BY <1>1 DEF Grown, Named

LEMMA GrownIsTransitive ==
    ASSUME NEW a, NEW b, NEW c, Grown(a, b), Grown(b, c)
    PROVE  Grown(a, c)
BY Zenon DEF Grown

LEMMA NameIn ==
    ASSUME NEW reg, NEW id, NEW name
    PROVE  name \in NameOf(reg, id) <=> \E c \in ToSet(reg) : c[1] = id /\ c[2] = name
BY Zenon DEF NameOf

\* Registering a clock: nothing known before changes, and the clock is known.
LEMMA RegisterFacts ==
    ASSUME NEW reg, RegistryInv(reg), NEW clock, MayRegister(reg, clock)
    PROVE  /\ RegistryInv(RegisterClock(reg, clock))
           /\ Grown(reg, RegisterClock(reg, clock))
           /\ Named(RegisterClock(reg, clock), clock)
           /\ ToSet(RegisterClock(reg, clock)) \subseteq ToSet(reg) \cup {clock}
<1>1. CASE NameOf(reg, clock[1]) # {}
    <2>1. RegisterClock(reg, clock) = reg
        BY <1>1, Zenon DEF RegisterClock
    <2>2. Named(reg, clock)
        BY <1>1, Zenon DEF MayRegister, Named
    <2>3. Grown(reg, reg)
        BY DEF Grown
    <2> QED BY <2>1, <2>2, <2>3, Zenon
<1>2. CASE NameOf(reg, clock[1]) = {}
    <2> DEFINE reg2 == Append(reg, clock)
    <2>1. RegisterClock(reg, clock) = reg2
        BY <1>2, Zenon DEF RegisterClock
    <2>2. IsSeq(reg2) /\ ToSet(reg2) = ToSet(reg) \cup {clock}
        BY AppendFacts DEF RegistryInv
    <2> HIDE DEF reg2
    <2>3. ASSUME NEW id, id # clock[1] PROVE NameOf(reg2, id) = NameOf(reg, id)
        <3>1. ASSUME NEW name
              PROVE  name \in NameOf(reg2, id) <=> name \in NameOf(reg, id)
            <4>1. name \in NameOf(reg2, id) <=> \E c \in ToSet(reg2) : c[1] = id /\ c[2] = name
                BY NameIn
            <4>2. name \in NameOf(reg, id) <=> \E c \in ToSet(reg) : c[1] = id /\ c[2] = name
                BY NameIn
            <4> QED BY <2>2, <2>3, <4>1, <4>2
        <3> QED BY <3>1, Zenon DEF NameOf
    <2>4. NameOf(reg2, clock[1]) = {clock[2]}
        <3>1. ASSUME NEW name
              PROVE  name \in NameOf(reg2, clock[1]) <=> name = clock[2]
            <4>1. name \notin NameOf(reg, clock[1])
                BY <1>2, Zenon
            <4>2. /\ name \in NameOf(reg2, clock[1])
                         <=> \E c \in ToSet(reg2) : c[1] = clock[1] /\ c[2] = name
                  /\ name \in NameOf(reg, clock[1])
                         <=> \E c \in ToSet(reg) : c[1] = clock[1] /\ c[2] = name
                BY NameIn
            <4> QED BY <2>2, <4>1, <4>2
        <3> QED BY <3>1, Zenon
    <2>5. Grown(reg, reg2)
        BY <1>2, <2>3, Zenon DEF Grown
    <2>6. Named(reg2, clock)
        BY <2>4 DEF Named
    <2>7. \A c \in ToSet(reg2) : Named(reg2, c)
        <3>1. ASSUME NEW c \in ToSet(reg) PROVE Named(reg2, c)
            <4>1. Named(reg, c)
                BY DEF RegistryInv
            <4> QED BY <2>5, <4>1, GrownKeepsNames
        <3> QED BY <2>2, <2>6, <3>1, Zenon
    <2> QED BY <2>1, <2>2, <2>5, <2>6, <2>7, Zenon DEF RegistryInv
<1> QED BY <1>1, <1>2

-----------------------------------------------------------------------------
(* What a reader's process knows of a header (Registered). *)

\* The steps of readHeader_.
Reads(f, reg, header, n) ==
    f = [k \in 0 .. n |-> IF k = 0 THEN [ok |-> TRUE, registry |-> reg]
                          ELSE Taken(f[k - 1], header[k])]

-----------------------------------------------------------------------------
(* Induction over natural numbers. *)

\* A set of natural numbers has a least element.
LEMMA SmallerInRelation ==
    ASSUME NEW R, NEW T \in SUBSET Nat, T # {},
           \A x, y \in Nat : y < x => <<y, x>> \in R, IsWellFoundedOn(R, Nat)
    PROVE  \E x \in T : \A y \in T : x <= y
<1>1. PICK x \in T : \A y \in T : ~(<<y, x>> \in R)
    BY WFMin
<1>2. \A y \in T : ~(y < x)
    BY <1>1, Zenon
<1>3. \A y \in T : x <= y
    BY <1>2, SMT
<1> QED
    BY <1>3

LEMMA LeastElement ==
    ASSUME NEW T \in SUBSET Nat, T # {}
    PROVE  \E x \in T : \A y \in T : x <= y
<1>1. \E R : IsWellFoundedOn(R, Nat) /\ \A x, y \in Nat : y < x => <<y, x>> \in R
    <2>1. \A x, y \in Nat : y < x => <<y, x>> \in OpToRel(<, Nat)
        BY DEF OpToRel
    <2> QED
        BY NatLessThanWellFounded, <2>1, Zenon
<1> QED
    BY <1>1, SmallerInRelation

\* A bounded one has a greatest element, too.
LEMMA GreatestElement ==
    ASSUME NEW n \in Nat, NEW T \in SUBSET (0..n), T # {}
    PROVE  \E x \in T : \A y \in T : y <= x
<1> DEFINE D == {d \in Nat : n - d \in T}
<1>1. D \in SUBSET Nat /\ D # {}
    <2>1. PICK x \in T : TRUE
        OBVIOUS
    <2>2. n - x \in Nat /\ n - (n - x) = x
        BY <2>1
    <2> QED
        BY <2>1, <2>2
<1>2. PICK d \in D : \A e \in D : d <= e
    <2> HIDE DEF D
    <2> QED
        BY <1>1, LeastElement
<1>3. ASSUME NEW y \in T PROVE y <= n - d
    <2>1. y \in 0..n /\ n - y \in Nat /\ n - (n - y) = y
        OBVIOUS
    <2>2. n - y \in D
        BY <2>1
    <2>3. d <= n - y /\ d \in Nat
        BY <1>2, <2>2
    <2> QED
        BY <2>1, <2>3
<1>4. n - d \in T
    BY <1>2
<1> QED
    BY <1>3, <1>4

\* Induction, with the numbers that are good as a set.
LEMMA Induction ==
    ASSUME NEW n \in Nat, NEW S, 0 \in S, \A l \in 1..n : l - 1 \in S => l \in S
    PROVE  \A l \in 0..n : l \in S
<1> DEFINE T == {l \in 0..n : l \notin S}
<1>1. SUFFICES ASSUME T # {} PROVE FALSE
    OBVIOUS
<1>2. PICK l \in T : \A k \in T : l <= k
    <2>1. T \in SUBSET Nat
        OBVIOUS
    <2> HIDE DEF T
    <2> QED
        BY <1>1, <2>1, LeastElement
<1>3. l \in 1..n /\ l - 1 \in 0..n /\ ~(l <= l - 1)
    BY <1>2
<1>4. l - 1 \notin T
    BY <1>2, <1>3
<1> QED
    BY <1>2, <1>3, <1>4

LEMMA ReadsExist ==
    ASSUME NEW reg, NEW header, NEW n \in Nat
    PROVE  \E f : Reads(f, reg, header, n)
<1> DEFINE S == {k \in Nat : \E f : Reads(f, reg, header, k)}
           base == [ok |-> TRUE, registry |-> reg]
<1>1. 0 \in S
    <2> DEFINE f == [k \in 0 .. 0 |-> base]
    <2>1. f = [k \in 0 .. 0 |-> IF k = 0 THEN base ELSE Taken(f[k - 1], header[k])]
        <3>1. ASSUME NEW k \in 0 .. 0
              PROVE  base = IF k = 0 THEN base ELSE Taken(f[k - 1], header[k])
            BY SMT
        <3> QED BY <3>1, Zenon
    <2>2. Reads(f, reg, header, 0)
        BY <2>1 DEF Reads
    <2> QED BY <2>2
<1>2. ASSUME NEW k \in 1 .. n, k - 1 \in S PROVE k \in S
    <2>1. PICK g : Reads(g, reg, header, k - 1)
        BY <1>2
    <2> DEFINE f == [i \in 0 .. k |-> IF i = k THEN Taken(g[k - 1], header[k]) ELSE g[i]]
    <2>2. k \in Nat /\ k - 1 \in Nat /\ k # 0
        OBVIOUS
    <2>3. \A i \in 0 .. (k - 1) : g[i] = IF i = 0 THEN base ELSE Taken(g[i - 1], header[i])
        BY <2>1, Zenon DEF Reads
    <2> HIDE DEF base
    <2>4. ASSUME NEW i \in 0 .. k
          PROVE  f[i] = IF i = 0 THEN base ELSE Taken(f[i - 1], header[i])
        <3>1. CASE i = 0
            <4>1. 0 \in 0 .. (k - 1) /\ i # k /\ f[i] = g[0]
                BY <2>2, <3>1
            <4>2. g[0] = base
                BY <2>3, <4>1, Zenon
            <4> QED BY <3>1, <4>1, <4>2, Zenon
        <3>2. CASE i # 0 /\ i # k
            <4>1. i \in 0 .. (k - 1) /\ i - 1 \in 0 .. k /\ i - 1 # k
                BY <2>2, <3>2
            <4>2. f[i] = g[i] /\ f[i - 1] = g[i - 1]
                BY <3>2, <4>1, Zenon
            <4>3. g[i] = Taken(g[i - 1], header[i])
                BY <2>3, <3>2, <4>1, Zenon
            <4> QED BY <3>2, <4>2, <4>3, Zenon
        <3>3. CASE i # 0 /\ i = k
            <4>1. k - 1 \in 0 .. k /\ k - 1 # k
                BY <2>2
            <4>2. f[k - 1] = g[k - 1]
                BY <4>1, Zenon
            <4>3. f[i] = Taken(g[k - 1], header[k])
                BY <3>3, Zenon
            <4> QED BY <3>3, <4>2, <4>3, Zenon
        <3> QED BY <3>1, <3>2, <3>3
    <2>5. f = [i \in 0 .. k |-> IF i = 0 THEN base ELSE Taken(f[i - 1], header[i])]
        <3>1. f = [i \in 0 .. k |-> f[i]]
            BY Zenon
        <3> HIDE DEF f
        <3> QED BY <2>4, <3>1, Zenon
    <2>6. Reads(f, reg, header, k)
        <3> HIDE DEF f
        <3> QED BY <2>5, Zenon DEF Reads, base
    <2> HIDE DEF f
    <2> QED BY <2>2, <2>6, Zenon
<1> HIDE DEF S
<1>3. \A k \in 0 .. n : k \in S
    BY <1>1, <1>2, Induction
<1>4. n \in S
    BY <1>3
<1> QED BY <1>4 DEF S

LEMMA RegisteredReads ==
    ASSUME NEW reg, NEW header, Len(header) \in Nat
    PROVE  \E f : Reads(f, reg, header, Len(header)) /\ Registered(reg, header) = f[Len(header)]
<1> DEFINE body(g) == [k \in 0 .. Len(header) |->
                           IF k = 0 THEN [ok |-> TRUE, registry |-> reg]
                           ELSE Taken(g[k - 1], header[k])]
           upto == CHOOSE g : g = body(g)
<1>1. PICK f : f = body(f)
    <2>1. \E f : Reads(f, reg, header, Len(header))
        BY ReadsExist
    <2> QED BY <2>1, Zenon DEF Reads
<1>2. upto = body(upto)
    BY <1>1, Zenon
<1>3. Registered(reg, header) = upto[Len(header)]
    BY Zenon DEF Registered
<1>4. Reads(upto, reg, header, Len(header))
    BY <1>2, Zenon DEF Reads
<1> QED BY <1>3, <1>4, Zenon

\* A registry that has read a header, even one it refuses, knows what it knew.
Sound(acc, reg) ==
    /\ acc = [ok |-> acc.ok, registry |-> acc.registry]
    /\ RegistryInv(acc.registry) /\ Grown(reg, acc.registry)

LEMMA TakenFacts ==
    ASSUME NEW acc, NEW reg, NEW rec, Sound(acc, reg)
    PROVE  /\ Sound(Taken(acc, rec), reg)
           /\ acc.ok /\ rec.rec = "CLOCK_ID" /\ MayRegister(acc.registry, rec.value)
                => /\ Taken(acc, rec).ok = acc.ok
                   /\ Named(Taken(acc, rec).registry, rec.value)
                   /\ ToSet(Taken(acc, rec).registry)
                          \subseteq ToSet(acc.registry) \cup {rec.value}
           /\ Grown(acc.registry, Taken(acc, rec).registry)
           /\ rec.rec # "CLOCK_ID" => Taken(acc, rec) = acc
<1>1. CASE ~acc.ok \/ rec.rec # "CLOCK_ID"
    <2>1. Taken(acc, rec) = acc
        BY <1>1, Zenon DEF Taken
    <2>2. Grown(acc.registry, acc.registry)
        BY DEF Grown
    <2> QED BY <1>1, <2>1, <2>2, Zenon
<1>2. CASE ~(~acc.ok \/ rec.rec # "CLOCK_ID") /\ MayRegister(acc.registry, rec.value)
    <2> DEFINE reg2 == RegisterClock(acc.registry, rec.value)
    <2>1. Taken(acc, rec) = [acc EXCEPT !.registry = reg2]
        BY <1>2, Zenon DEF Taken
    <2>2. /\ RegistryInv(reg2) /\ Grown(acc.registry, reg2) /\ Named(reg2, rec.value)
          /\ ToSet(reg2) \subseteq ToSet(acc.registry) \cup {rec.value}
        BY <1>2, RegisterFacts DEF Sound
    <2> HIDE DEF reg2
    <2>3. /\ Taken(acc, rec).registry = reg2 /\ Taken(acc, rec).ok = acc.ok
          /\ Taken(acc, rec) = [ok |-> acc.ok, registry |-> reg2]
        <3>1. acc = [ok |-> acc.ok, registry |-> acc.registry]
            BY DEF Sound
        <3> QED BY <2>1, <3>1
    <2>4. Grown(reg, reg2)
        BY <2>2, GrownIsTransitive DEF Sound
    <2>5. Sound(Taken(acc, rec), reg)
        BY <2>2, <2>3, <2>4, Zenon DEF Sound
    <2> QED BY <1>2, <2>2, <2>3, <2>5, Zenon
<1>3. CASE ~(~acc.ok \/ rec.rec # "CLOCK_ID") /\ ~MayRegister(acc.registry, rec.value)
    <2>1. Taken(acc, rec) = [acc EXCEPT !.ok = FALSE]
        BY <1>3, Zenon DEF Taken
    <2>2. /\ Taken(acc, rec).registry = acc.registry
          /\ Taken(acc, rec) = [ok |-> FALSE, registry |-> acc.registry]
          /\ Taken(acc, rec).ok = FALSE
        <3>1. acc = [ok |-> acc.ok, registry |-> acc.registry]
            BY DEF Sound
        <3> QED BY <2>1, <3>1
    <2>3. Grown(acc.registry, acc.registry)
        BY DEF Grown
    <2> QED BY <1>3, <2>2, <2>3, Zenon DEF Sound
<1> QED BY <1>1, <1>2, <1>3

HeaderClocks(header) == {header[i].value : i \in At(header, "CLOCK_ID")}

LEMMA HeaderClock ==
    ASSUME NEW header, NEW i \in 1 .. Len(header), header[i].rec = "CLOCK_ID"
    PROVE  header[i].value \in HeaderClocks(header)
<1>1. i \in At(header, "CLOCK_ID")
    BY DEF At
<1> QED BY <1>1, Zenon DEF HeaderClocks

LEMMA NothingRegistered == RegistryInv(<<>>)
BY NothingIsSeq, Zenon DEF RegistryInv

LEMMA RegisteredSound ==
    ASSUME NEW reg, RegistryInv(reg), NEW header, Len(header) \in Nat
    PROVE  Sound(Registered(reg, header), reg)
<1>1. PICK n : n = Len(header)
    OBVIOUS
<1>2. PICK f : Reads(f, reg, header, n) /\ Registered(reg, header) = f[n]
    BY <1>1, RegisteredReads
<1>3. \A k \in 0 .. n : f[k] = IF k = 0 THEN [ok |-> TRUE, registry |-> reg]
                               ELSE Taken(f[k - 1], header[k])
    BY <1>2, Zenon DEF Reads
<1> DEFINE S == {k \in 0 .. n : Sound(f[k], reg)}
<1>4. 0 \in S
    <2>1. 0 \in 0 .. n /\ f[0] = [ok |-> TRUE, registry |-> reg]
        <3>1. 0 \in 0 .. n
            BY <1>1
        <3> QED BY <1>3, <3>1, Zenon
    <2>2. Grown(reg, reg)
        BY DEF Grown
    <2>3. Sound(f[0], reg)
        BY <2>1, <2>2 DEF Sound
    <2> QED BY <2>1, <2>3, Zenon
<1>5. ASSUME NEW k \in 1 .. n, k - 1 \in S PROVE k \in S
    <2>1. k \in 0 .. n /\ k # 0
        BY <1>1
    <2>2. f[k] = Taken(f[k - 1], header[k])
        BY <1>3, <2>1, Zenon
    <2>3. Sound(f[k], reg)
        BY <1>5, <2>2, TakenFacts
    <2> QED BY <2>1, <2>3, Zenon
<1> HIDE DEF S
<1>6. \A k \in 0 .. n : k \in S
    BY <1>1, <1>4, <1>5, Induction
<1>7. n \in S
    BY <1>1, <1>6
<1> QED BY <1>2, <1>7 DEF S

\* A process that knows no clock reads a header whose clocks another registry has,
\* and knows them then.
LEMMA RegisteredAll ==
    ASSUME NEW R, RegistryInv(R), NEW header, Len(header) \in Nat,
           \A clock \in HeaderClocks(header) : Named(R, clock)
    PROVE  /\ Registered(<<>>, header).ok
           /\ \A clock \in HeaderClocks(header) : Named(Registered(<<>>, header).registry, clock)
<1>1. PICK n : n = Len(header)
    OBVIOUS
<1>2. PICK f : Reads(f, <<>>, header, n) /\ Registered(<<>>, header) = f[n]
    BY <1>1, RegisteredReads
<1>3. \A k \in 0 .. n : f[k] = IF k = 0 THEN [ok |-> TRUE, registry |-> <<>>]
                               ELSE Taken(f[k - 1], header[k])
    BY <1>2, Zenon DEF Reads
<1> DEFINE Upto(k) == \A i \in 1 .. k : header[i].rec = "CLOCK_ID"
                          => Named(f[k].registry, header[i].value)
           Good(k) == /\ Sound(f[k], <<>>) /\ f[k].ok
                      /\ ToSet(f[k].registry) \subseteq HeaderClocks(header) /\ Upto(k)
           S == {k \in 0 .. n : Good(k)}
<1>4. 0 \in S
    <2>1. 0 \in 0 .. n /\ f[0] = [ok |-> TRUE, registry |-> <<>>]
        BY <1>1, <1>3
    <2>2. Grown(<<>>, <<>>)
        BY DEF Grown
    <2>3. Sound(f[0], <<>>)
        BY <2>1, <2>2, NothingRegistered DEF Sound
    <2>4. f[0].ok /\ ToSet(f[0].registry) \subseteq HeaderClocks(header)
        BY <2>1, NothingIsSeq
    <2>5. Upto(0)
        OBVIOUS
    <2> QED BY <2>1, <2>3, <2>4, <2>5, Zenon
<1>5. ASSUME NEW k \in 1 .. n, k - 1 \in S PROVE k \in S
    <2>1. k \in 0 .. n /\ k # 0 /\ \A i \in 1 .. k : i = k \/ i \in 1 .. (k - 1)
        BY <1>1
    <2> DEFINE acc == f[k - 1]
               rec == header[k]
    <2>2. f[k] = Taken(acc, rec)
        BY <1>3, <2>1, Zenon
    <2>3. Good(k - 1)
        BY <1>5, Zenon
    <2>4. Sound(acc, <<>>) /\ acc.ok /\ ToSet(acc.registry) \subseteq HeaderClocks(header)
        BY <2>3, Zenon
    <2>5. \A i \in 1 .. (k - 1) : header[i].rec = "CLOCK_ID"
              => Named(acc.registry, header[i].value)
        BY <2>3, Zenon
    <2> HIDE DEF acc, Good, Upto
    <2>6. CASE rec.rec # "CLOCK_ID"
        <3>1. f[k] = acc
            BY <2>2, <2>4, <2>6, TakenFacts
        <3>2. Upto(k)
            BY <2>1, <2>5, <2>6, <3>1, Zenon DEF Upto
        <3> QED BY <2>1, <2>4, <3>1, <3>2, Zenon DEF Good
    <2>7. CASE rec.rec = "CLOCK_ID"
        <3>1. rec.value \in HeaderClocks(header)
            BY <1>1, <2>7, HeaderClock
        <3>2. MayRegister(acc.registry, rec.value)
            <4>1. ASSUME NEW name \in NameOf(acc.registry, rec.value[1])
                  PROVE  name = rec.value[2]
                <5>1. PICK c \in ToSet(acc.registry) : c[1] = rec.value[1] /\ c[2] = name
                    BY NameIn
                <5>2. Named(R, c) /\ Named(R, rec.value)
                    BY <2>4, <3>1, <5>1, Zenon
                <5>3. NameOf(R, c[1]) = {c[2]} /\ NameOf(R, rec.value[1]) = {rec.value[2]}
                    BY <5>2 DEF Named
                <5>4. {c[2]} = {rec.value[2]}
                    BY <5>1, <5>3, Zenon
                <5>5. c[2] \in {rec.value[2]}
                    BY <5>4, Zenon
                <5> QED BY <5>1, <5>5, Zenon
            <4> QED BY <4>1, Zenon DEF MayRegister
        <3>3. /\ Sound(f[k], <<>>) /\ f[k].ok = acc.ok /\ Named(f[k].registry, rec.value)
              /\ ToSet(f[k].registry) \subseteq ToSet(acc.registry) \cup {rec.value}
              /\ Grown(acc.registry, f[k].registry)
            <4>1. /\ Sound(Taken(acc, rec), <<>>)
                  /\ acc.ok /\ rec.rec = "CLOCK_ID" /\ MayRegister(acc.registry, rec.value)
                         => /\ Taken(acc, rec).ok = acc.ok
                            /\ Named(Taken(acc, rec).registry, rec.value)
                            /\ ToSet(Taken(acc, rec).registry)
                                   \subseteq ToSet(acc.registry) \cup {rec.value}
                  /\ Grown(acc.registry, Taken(acc, rec).registry)
                <5> HIDE DEF rec
                <5> QED BY <2>4, TakenFacts
            <4> HIDE DEF rec
            <4> QED BY <2>2, <2>4, <2>7, <3>2, <4>1, Zenon
        <3>4. \A i \in 1 .. (k - 1) : header[i].rec = "CLOCK_ID"
                  => Named(f[k].registry, header[i].value)
            BY <2>5, <3>3, GrownKeepsNames, Zenon
        <3>5. Upto(k)
            BY <2>1, <3>3, <3>4, Zenon DEF Upto
        <3>6. f[k].ok /\ ToSet(f[k].registry) \subseteq HeaderClocks(header)
            BY <2>4, <3>1, <3>3, Zenon
        <3> QED BY <2>1, <3>3, <3>5, <3>6, Zenon DEF Good
    <2> QED BY <2>6, <2>7
<1> HIDE DEF S
<1>6. \A k \in 0 .. n : k \in S
    BY <1>1, <1>4, <1>5, Induction
<1>7. n \in S
    BY <1>1, <1>6
<1>8. f[n].ok /\ Upto(n)
    BY <1>7 DEF S
<1>9. ASSUME NEW clock \in HeaderClocks(header) PROVE Named(f[n].registry, clock)
    <2>1. PICK i \in At(header, "CLOCK_ID") : clock = header[i].value
        BY Zenon DEF HeaderClocks
    <2>2. i \in 1 .. n /\ header[i].rec = "CLOCK_ID"
        BY <1>1, <2>1, Zenon DEF At
    <2> QED BY <1>8, <2>1, <2>2, Zenon
<1> QED BY <1>2, <1>8, <1>9, Zenon

-----------------------------------------------------------------------------
(* The invariant.  Its parts are stated of what a writer consists of, and  *)
(* of the registry of its process.                                         *)

HasParts(w) ==
    /\ DOMAIN w = {"stage", "pending", "written", "trace", "deps"}
    /\ DOMAIN w.trace = {"header", "body", "closed", "clocks", "txns", "ends"}
    /\ w.trace.closed = FALSE

TypesOK(stage, pending, written, header, clocks, txns) ==
    /\ stage \in {"closed", "header", "body"}
    /\ pending = [s \in Settings |-> pending[s]] /\ \A s \in Settings : IsSeq(pending[s])
    /\ written \subseteq Settings
    /\ IsSeq(header) /\ IsSeq(clocks) /\ IsSeq(txns)

\* The blocks of the header and the flags: a flag is up if its block is there,
\* but for the clocks, whose flag a trace may have from the one before; and the
\* protocol comes behind what has to be in front of it.
BlocksOK(pending, written, header) ==
    /\ \A i \in 1 .. Len(header) : header[i].rec \in Known
    /\ \A s \in Settings \ {"CLOCK_ID"} : s \in written <=> At(header, s) # {}
    /\ Len(pending["TRACE_INFO_FEATURE"]) <= 1
    /\ "TRACE_INFO_FEATURE" \in written
           => \E i \in 1 .. Len(header) : At(header, "TRACE_INFO_FEATURE") = {i}
    /\ "PROTOCOL_ID" \in written => {"TRACE_INFO", "TRACE_INFO_FEATURE"} \subseteq written

\* The registry knows the clocks of the header and those that will get there.  A
\* trace with a protocol has its clocks declared in time among these.
ClocksOK(pending, written, header, clocks, reg) ==
    /\ \A clock \in ToSet(pending["CLOCK_ID"]) : Named(reg, clock)
    /\ \A clock \in HeaderClocks(header) : Named(reg, clock)
    /\ "CLOCK_ID" \notin written => ToSet(clocks) \subseteq ToSet(pending["CLOCK_ID"])
    /\ "PROTOCOL_ID" \in written /\ "CLOCK_ID" \in written
           => ToSet(clocks) \subseteq HeaderClocks(header)

\* Transactions come behind a header that has ended, told the protocol and the
\* clocks, and use clocks that were declared in time.
DepsKnown(deps, clocks) ==
    IsSeq(deps) /\ \A k \in 1 .. Len(deps) : deps[k].clock \in Declared(clocks)
StageOK(stage, written, header, clocks, txns, deps) ==
    /\ stage = "closed" => header = <<>>
    /\ stage = "body" => "CLOCK_ID" \in written /\ Ends(header)
    /\ txns # <<>> => stage = "body" /\ HasProtocol(header)
    /\ stage # "body" => deps = <<>>
    /\ HasProtocol(header) => DepsKnown(deps, clocks)
    /\ \A k \in 1 .. Len(txns) : UsedClocks(txns[k]) \subseteq Declared(clocks)

WriterInv(w, reg) ==
    /\ HasParts(w)
    /\ TypesOK(w.stage, w.pending, w.written, w.trace.header, w.trace.clocks, w.trace.txns)
    /\ BlocksOK(w.pending, w.written, w.trace.header)
    /\ ClocksOK(w.pending, w.written, w.trace.header, w.trace.clocks, reg)
    /\ StageOK(w.stage, w.written, w.trace.header, w.trace.clocks, w.trace.txns, w.deps)

ReaderInv(r, from, traces) ==
    r.stage = "open" => from \in 1 .. Len(traces) /\ IsValid(traces[from].header)

Stands(trace) ==
    LET read == Registered(<<>>, trace.header)
    IN  /\ read.ok /\ IsValid(trace.header) /\ HasProtocol(trace.header)
        /\ \A k \in 1 .. Len(trace.txns) : \A id \in UsedClocks(trace.txns[k]) :
               NameOf(read.registry, id) = NameMeant(trace, id)
DiskInv(traces) ==
    /\ IsSeq(traces)
    /\ \A t \in 1 .. Len(traces) : IsSeq(traces[t].header)
    /\ \A t \in 1 .. Len(traces) :
           traces[t].closed /\ traces[t].txns # <<>> => Stands(traces[t])

IInv ==
    /\ RegistryInv(registry) /\ WriterInv(writer, registry)
    /\ ReaderInv(reader, source, disk) /\ DiskInv(disk)

-----------------------------------------------------------------------------
(* Headers. *)

LEMMA HasProtocolAt ==
    ASSUME NEW header PROVE HasProtocol(header) <=> At(header, "PROTOCOL_ID") # {}
BY Zenon DEF HasProtocol, At

\* A header that grows by records of one kind.
LEMMA HeaderGrows ==
    ASSUME NEW header, NEW more, IsSeq(header), IsSeq(more), NEW s,
           \A i \in 1 .. Len(more) : more[i].rec = s
    PROVE  /\ \A t : t # s => At(header \o more, t) = At(header, t)
           /\ At(header \o more, s)
                  = At(header, s) \cup (Len(header) + 1) .. (Len(header) + Len(more))
           /\ HeaderClocks(header) \subseteq HeaderClocks(header \o more)
           /\ HeaderClocks(header \o more) \subseteq HeaderClocks(header)
                  \cup (IF s = "CLOCK_ID" THEN {more[i].value : i \in 1 .. Len(more)} ELSE {})
           /\ s = "CLOCK_ID"
                  => {more[i].value : i \in 1 .. Len(more)} \subseteq HeaderClocks(header \o more)
<1>1. PICK u : u = header \o more
    OBVIOUS
<1>2. PICK n, m : n = Len(header) /\ m = Len(more)
    OBVIOUS
<1>3. /\ n \in Nat /\ m \in Nat /\ Len(u) = n + m
      /\ \A i \in 1 .. n : u[i] = header[i]
      /\ \A i \in 1 .. m : u[n + i] = more[i]
    BY <1>1, <1>2, SeqFacts, ConcatFacts
<1>4. \A i \in 1 .. (n + m) : i \in 1 .. n \/ (i - n \in 1 .. m /\ n + (i - n) = i)
    BY <1>3
<1>5. \A i \in (n + 1) .. (n + m) :
          i \in 1 .. (n + m) /\ i \notin 1 .. n /\ i - n \in 1 .. m /\ n + (i - n) = i
    BY <1>3
<1>6. \A i \in 1 .. n : i \in 1 .. (n + m) /\ i \notin (n + 1) .. (n + m)
    BY <1>3
<1>7. \A i \in 1 .. m : n + i \in (n + 1) .. (n + m) /\ n + i \in 1 .. (n + m)
    BY <1>3
<1>8. ASSUME NEW i \in (n + 1) .. (n + m) PROVE u[i].rec = s
    <2>1. PICK j \in 1 .. m : n + j = i
        BY <1>5
    <2>2. u[i] = more[j] /\ more[j].rec = s
        BY <1>2, <1>3, <2>1, Zenon
    <2> QED BY <2>2
<1>9. ASSUME NEW t, NEW i
      PROVE  i \in At(u, t) <=> (i \in 1 .. n /\ header[i].rec = t)
                                \/ (i \in (n + 1) .. (n + m) /\ t = s)
    <2>1. i \in At(u, t) <=> i \in 1 .. (n + m) /\ u[i].rec = t
        BY <1>3 DEF At
    <2>2. CASE i \in 1 .. n
        BY <1>3, <1>6, <2>1, <2>2, Zenon
    <2>3. CASE i \notin 1 .. n
        <3>1. i \in 1 .. (n + m) <=> i \in (n + 1) .. (n + m)
            BY <1>3, <2>3
        <3> QED BY <1>8, <2>1, <2>3, <3>1, Zenon
    <2> QED BY <2>2, <2>3
<1>10. ASSUME NEW t, NEW i PROVE i \in At(header, t) <=> i \in 1 .. n /\ header[i].rec = t
    BY <1>2 DEF At
<1>11. \A t : t # s => At(u, t) = At(header, t)
    <2>1. ASSUME NEW t, t # s, NEW i PROVE i \in At(u, t) <=> i \in At(header, t)
        BY <1>9, <1>10, <2>1, Zenon
    <2>2. ASSUME NEW t, t # s PROVE At(u, t) = At(header, t)
        <3>1. \A i : i \in At(u, t) <=> i \in At(header, t)
            BY <2>1, <2>2
        <3> QED BY <3>1, Zenon
    <2> QED BY <2>2
<1>12. At(u, s) = At(header, s) \cup (n + 1) .. (n + m)
    <2>1. ASSUME NEW i PROVE i \in At(u, s) <=> i \in At(header, s) \/ i \in (n + 1) .. (n + m)
        BY <1>9, <1>10, Zenon
    <2> QED BY <2>1, Zenon
<1>13. HeaderClocks(header) \subseteq HeaderClocks(u)
    <2>1. ASSUME NEW x \in HeaderClocks(header) PROVE x \in HeaderClocks(u)
        <3>1. PICK i \in At(header, "CLOCK_ID") : x = header[i].value
            BY Zenon DEF HeaderClocks
        <3>2. i \in At(u, "CLOCK_ID") /\ u[i] = header[i]
            BY <1>3, <1>9, <1>10, <3>1, Zenon
        <3> QED BY <3>1, <3>2, Zenon DEF HeaderClocks
    <2> QED BY <2>1, Zenon
<1> DEFINE new == {more[i].value : i \in 1 .. m}
<1>14. ASSUME NEW x \in HeaderClocks(u)
       PROVE  x \in HeaderClocks(header) \/ (s = "CLOCK_ID" /\ x \in new)
    <2>1. PICK i \in At(u, "CLOCK_ID") : x = u[i].value
        BY Zenon DEF HeaderClocks
    <2>2. CASE i \in 1 .. n
        <3>1. i \in At(header, "CLOCK_ID") /\ u[i] = header[i]
            BY <1>3, <1>6, <1>9, <1>10, <2>1, <2>2, Zenon
        <3> QED BY <2>1, <3>1, Zenon DEF HeaderClocks
    <2>3. CASE i \in (n + 1) .. (n + m) /\ s = "CLOCK_ID"
        <3>1. i - n \in 1 .. m /\ u[i] = more[i - n]
            BY <1>3, <1>5, <2>3, Zenon
        <3> QED BY <2>1, <2>3, <3>1, Zenon
    <2> QED BY <1>9, <2>1, <2>2, <2>3, Zenon
<1>15. s = "CLOCK_ID" => new \subseteq HeaderClocks(u)
    <2>1. ASSUME s = "CLOCK_ID", NEW i \in 1 .. m PROVE more[i].value \in HeaderClocks(u)
        <3>1. n + i \in At(u, "CLOCK_ID") /\ u[n + i] = more[i]
            BY <1>3, <1>7, <1>9, <2>1, Zenon
        <3> QED BY <3>1, Zenon DEF HeaderClocks
    <2> QED BY <2>1, Zenon
<1>16. HeaderClocks(u) \subseteq HeaderClocks(header) \cup (IF s = "CLOCK_ID" THEN new ELSE {})
    BY <1>14, Zenon
<1> HIDE DEF new
<1> QED BY <1>1, <1>2, <1>11, <1>12, <1>13, <1>15, <1>16, Zenon DEF new

-----------------------------------------------------------------------------
(* What the steps do to a writer. *)

LEMMA MoreClocksDeclared ==
    ASSUME NEW clocks, NEW clocks2, ToSet(clocks) \subseteq ToSet(clocks2)
    PROVE  Declared(clocks) \subseteq Declared(clocks2)
BY Zenon DEF Declared

LEMMA NoDeps == ASSUME NEW clocks PROVE DepsKnown(<<>>, clocks)
<1>1. IsSeq(<<>>) /\ Len(<<>>) = 0
    BY NothingIsSeq
<1> QED BY <1>1 DEF DepsKnown

LEMMA MoreClocksKnown ==
    ASSUME NEW clocks, NEW clocks2, Declared(clocks) \subseteq Declared(clocks2),
           NEW deps, DepsKnown(deps, clocks)
    PROVE  DepsKnown(deps, clocks2)
BY Zenon DEF DepsKnown

\* Clocks are declared by a writer, which the registry knows.
LEMMA WithClocksKeeps ==
    ASSUME NEW w, NEW reg, WriterInv(w, reg), NEW more, IsSeq(more),
           \A clock \in ToSet(more) : Named(reg, clock)
    PROVE  WriterInv(WithClocks(w, more), reg)
<1> DEFINE pending == [w.pending EXCEPT !["CLOCK_ID"] = @ \o more]
           clocks  == IF "CLOCK_ID" \in w.written THEN w.trace.clocks ELSE w.trace.clocks \o more
           v == [w EXCEPT !.pending = pending, !.trace.clocks = clocks]
<1>1. HasParts(w) /\ "CLOCK_ID" \in Settings /\ "TRACE_INFO_FEATURE" \in Settings
    BY DEF WriterInv, Settings
<1>2. WithClocks(w, more) = v
    BY <1>1, Zenon DEF WithClocks, HasParts
<1>3. /\ HasParts(v) /\ v.stage = w.stage /\ v.pending = pending
      /\ v.written = w.written /\ v.deps = w.deps /\ v.trace.header = w.trace.header
      /\ v.trace.clocks = clocks /\ v.trace.txns = w.trace.txns
    <2>1. PICK p, c, u : p = pending /\ c = clocks /\ u = v
        OBVIOUS
    <2>2. u = [w EXCEPT !.pending = p, !.trace.clocks = c]
        BY <2>1
    <2>3. /\ HasParts(u) /\ u.stage = w.stage /\ u.pending = p
          /\ u.written = w.written /\ u.deps = w.deps /\ u.trace.header = w.trace.header
          /\ u.trace.clocks = c /\ u.trace.txns = w.trace.txns
        BY <1>1, <2>2 DEF HasParts
    <2> HIDE DEF v, pending, clocks
    <2> QED BY <2>1, <2>3
<1>4. TypesOK(w.stage, w.pending, w.written, w.trace.header, w.trace.clocks, w.trace.txns)
    BY DEF WriterInv
<1>5. /\ \A s \in Settings : s # "CLOCK_ID" => pending[s] = w.pending[s]
      /\ pending["CLOCK_ID"] = w.pending["CLOCK_ID"] \o more
      /\ pending = [s \in Settings |-> pending[s]]
    <2>1. w.pending = [s \in Settings |-> w.pending[s]]
        BY <1>4 DEF TypesOK
    <2> DEFINE p == w.pending
    <2> HIDE DEF p
    <2>2. p = [s \in Settings |-> p[s]]
        BY <2>1 DEF p
    <2>3. DOMAIN p = Settings
        BY <2>2
    <2> DEFINE q == [p EXCEPT !["CLOCK_ID"] = @ \o more]
    <2>4. /\ \A s \in Settings : s # "CLOCK_ID" => q[s] = p[s]
          /\ q["CLOCK_ID"] = p["CLOCK_ID"] \o more
          /\ q = [s \in Settings |-> q[s]]
        BY <1>1, <2>2, <2>3
    <2>5. pending = q
        BY DEF p
    <2> QED BY <2>4, <2>5, Zenon DEF p
<1>6. /\ IsSeq(pending["CLOCK_ID"])
      /\ ToSet(pending["CLOCK_ID"]) = ToSet(w.pending["CLOCK_ID"]) \cup ToSet(more)
    BY <1>1, <1>4, <1>5, ConcatFacts DEF TypesOK
<1>7. /\ IsSeq(clocks) /\ ToSet(w.trace.clocks) \subseteq ToSet(clocks)
      /\ "CLOCK_ID" \notin w.written => ToSet(clocks) = ToSet(w.trace.clocks) \cup ToSet(more)
    <2>1. IsSeq(w.trace.clocks)
        BY <1>4 DEF TypesOK
    <2>2. /\ IsSeq(w.trace.clocks \o more)
          /\ ToSet(w.trace.clocks \o more) = ToSet(w.trace.clocks) \cup ToSet(more)
        BY <2>1, ConcatFacts
    <2>3. CASE "CLOCK_ID" \in w.written
        BY <2>1, <2>3, Zenon
    <2>4. CASE "CLOCK_ID" \notin w.written
        BY <2>2, <2>4, Zenon
    <2> QED BY <2>3, <2>4
<1>8. "CLOCK_ID" \in w.written => clocks = w.trace.clocks
    BY Zenon
<1> HIDE DEF v, pending, clocks
<1>9. TypesOK(v.stage, v.pending, v.written, v.trace.header, v.trace.clocks, v.trace.txns)
    <2>1. \A s \in Settings : IsSeq(pending[s])
        BY <1>4, <1>5, <1>6, Zenon DEF TypesOK
    <2>2. TypesOK(w.stage, pending, w.written, w.trace.header, clocks, w.trace.txns)
        BY <1>4, <1>5, <1>7, <2>1, Zenon DEF TypesOK
    <2> QED BY <1>3, <2>2, Zenon
<1>10. BlocksOK(v.pending, v.written, v.trace.header)
    <2>1. pending["TRACE_INFO_FEATURE"] = w.pending["TRACE_INFO_FEATURE"]
        BY <1>1, <1>5
    <2>2. BlocksOK(pending, w.written, w.trace.header)
        BY <2>1, Zenon DEF WriterInv, BlocksOK
    <2> QED BY <1>3, <2>2, Zenon
<1>11. ClocksOK(v.pending, v.written, v.trace.header, v.trace.clocks, reg)
    <2>1. ClocksOK(w.pending, w.written, w.trace.header, w.trace.clocks, reg)
        BY DEF WriterInv
    <2>2. \A clock \in ToSet(pending["CLOCK_ID"]) : Named(reg, clock)
        BY <1>6, <2>1, Zenon DEF ClocksOK
    <2>3. "CLOCK_ID" \notin w.written => ToSet(clocks) \subseteq ToSet(pending["CLOCK_ID"])
        <3>1. "CLOCK_ID" \notin w.written
                  => ToSet(w.trace.clocks) \subseteq ToSet(w.pending["CLOCK_ID"])
            BY <2>1, Zenon DEF ClocksOK
        <3> QED BY <1>6, <1>7, <3>1
    <2>4. "PROTOCOL_ID" \in w.written /\ "CLOCK_ID" \in w.written
              => ToSet(clocks) \subseteq HeaderClocks(w.trace.header)
        BY <1>8, <2>1, Zenon DEF ClocksOK
    <2>5. ClocksOK(pending, w.written, w.trace.header, clocks, reg)
        BY <2>1, <2>2, <2>3, <2>4, Zenon DEF ClocksOK
    <2> QED BY <1>3, <2>5, Zenon
<1>12. StageOK(v.stage, v.written, v.trace.header, v.trace.clocks, v.trace.txns, v.deps)
    <2>1. StageOK(w.stage, w.written, w.trace.header, w.trace.clocks, w.trace.txns, w.deps)
        BY DEF WriterInv
    <2>2. Declared(w.trace.clocks) \subseteq Declared(clocks)
        BY <1>7, MoreClocksDeclared
    <2>3. StageOK(w.stage, w.written, w.trace.header, clocks, w.trace.txns, w.deps)
        BY <2>1, <2>2, MoreClocksKnown, Zenon DEF StageOK
    <2> QED BY <1>3, <2>3, Zenon
<1> QED BY <1>2, <1>3, <1>9, <1>10, <1>11, <1>12, Zenon DEF WriterInv

\* A block of the header is written, or one that cannot be stops the flush.
Works(work, reg) ==
    /\ DOMAIN work = {"ok", "writer"}
    /\ WriterInv(work.writer, reg) /\ work.writer.stage = "header"

LEMMA EmitKeeps ==
    ASSUME NEW w, NEW reg, WriterInv(w, reg), w.stage = "header", NEW s \in Settings,
           s \notin w.written, Needs(s) \subseteq w.written, Forbids(s) \cap w.written = {},
           w.pending[s] # <<>>
    PROVE  /\ WriterInv(Emit(w, s), reg) /\ Emit(w, s).stage = "header"
           /\ Emit(w, s).written = w.written \cup {s}
<1> DEFINE p == w.pending[s]
           more == [k \in 1 .. Len(p) |-> Header(s, p[k])]
           v == Emit(w, s)
<1>1. HasParts(w)
    BY DEF WriterInv
<1>2. TypesOK(w.stage, w.pending, w.written, w.trace.header, w.trace.clocks, w.trace.txns)
    BY DEF WriterInv
<1>3. IsSeq(p) /\ IsSeq(w.trace.header)
    BY <1>2 DEF TypesOK
<1>4. PICK n : n = Len(p)
    OBVIOUS
<1>5. n \in Nat /\ \A x : x \in ToSet(p) <=> \E i \in 1 .. n : x = p[i]
    BY <1>3, <1>4, SeqFacts
<1>6. /\ IsSeq(more) /\ Len(more) = n
      /\ \A i \in 1 .. n : more[i].rec = s /\ more[i].value = p[i]
    <2> HIDE DEF p
    <2> DEFINE m == [k \in 1 .. n |-> Header(s, p[k])]
    <2>1. more = m
        BY <1>4
    <2>2. DOMAIN m = 1 .. n /\ m = [k \in 1 .. n |-> m[k]]
        BY Zenon
    <2>3. \A i \in 1 .. n : m[i].rec = s /\ m[i].value = p[i]
        BY DEF Header
    <2> HIDE DEF m
    <2>4. IsSeq(m) /\ Len(m) = n
        BY <1>5, <2>2, FunctionIsSeq
    <2> HIDE DEF more
    <2> QED BY <2>1, <2>3, <2>4, Zenon
<1>7. PICK header : header = w.trace.header \o more
    OBVIOUS
<1>8. /\ HasParts(v) /\ v.stage = w.stage /\ v.pending = w.pending
      /\ v.written = w.written \cup {s} /\ v.deps = w.deps /\ v.trace.header = header
      /\ v.trace.clocks = w.trace.clocks /\ v.trace.txns = w.trace.txns
    <2>1. v = [w EXCEPT !.written = @ \cup {s}, !.trace.header = @ \o more]
        BY Zenon DEF Emit
    <2> HIDE DEF v, more
    <2> QED BY <1>1, <1>7, <2>1 DEF HasParts
<1> HIDE DEF v, more
<1>9. /\ IsSeq(header) /\ Len(header) = Len(w.trace.header) + n
      /\ \A i \in 1 .. Len(w.trace.header) : header[i] = w.trace.header[i]
      /\ \A i \in 1 .. n : header[Len(w.trace.header) + i] = more[i]
    <2>1. IsSeq(more)
        BY <1>6
    <2>2. /\ IsSeq(w.trace.header \o more)
          /\ Len(w.trace.header \o more) = Len(w.trace.header) + Len(more)
          /\ \A i \in 1 .. Len(w.trace.header) : (w.trace.header \o more)[i] = w.trace.header[i]
          /\ \A i \in 1 .. Len(more) : (w.trace.header \o more)[Len(w.trace.header) + i] = more[i]
        <3>1. PICK h : h = w.trace.header
            OBVIOUS
        <3>2. IsSeq(h)
            BY <1>3, <3>1
        <3>3. /\ IsSeq(h \o more) /\ Len(h \o more) = Len(h) + Len(more)
              /\ \A i \in 1 .. Len(h) : (h \o more)[i] = h[i]
              /\ \A i \in 1 .. Len(more) : (h \o more)[Len(h) + i] = more[i]
            BY <2>1, <3>2, ConcatFacts
        <3> QED BY <3>1, <3>3
    <2>3. Len(more) = n
        BY <1>6
    <2> QED BY <1>7, <2>2, <2>3, Zenon
<1>10. /\ \A t : t # s => At(header, t) = At(w.trace.header, t)
       /\ At(header, s) = At(w.trace.header, s)
              \cup (Len(w.trace.header) + 1) .. (Len(w.trace.header) + n)
       /\ HeaderClocks(w.trace.header) \subseteq HeaderClocks(header)
       /\ HeaderClocks(header) \subseteq HeaderClocks(w.trace.header)
              \cup (IF s = "CLOCK_ID" THEN {more[i].value : i \in 1 .. n} ELSE {})
       /\ s = "CLOCK_ID" => {more[i].value : i \in 1 .. n} \subseteq HeaderClocks(header)
    <2>1. Len(more) = n
        BY <1>6
    <2>2. IsSeq(more) /\ \A i \in 1 .. Len(more) : more[i].rec = s
        BY <1>6, <2>1, Zenon
    <2>3. LET u == w.trace.header \o more
          IN  /\ \A t : t # s => At(u, t) = At(w.trace.header, t)
              /\ At(u, s) = At(w.trace.header, s)
                     \cup (Len(w.trace.header) + 1) .. (Len(w.trace.header) + Len(more))
              /\ HeaderClocks(w.trace.header) \subseteq HeaderClocks(u)
              /\ HeaderClocks(u) \subseteq HeaderClocks(w.trace.header)
                     \cup (IF s = "CLOCK_ID" THEN {more[i].value : i \in 1 .. Len(more)} ELSE {})
              /\ s = "CLOCK_ID" => {more[i].value : i \in 1 .. Len(more)} \subseteq HeaderClocks(u)
        BY <1>3, <2>2, HeaderGrows, Zenon
    <2> QED BY <1>7, <2>1, <2>3, Zenon
<1>11. {more[i].value : i \in 1 .. n} = ToSet(p)
    <2> HIDE DEF p
    <2>1. ASSUME NEW x PROVE x \in {more[i].value : i \in 1 .. n} <=> x \in ToSet(p)
        <3>1. x \in ToSet(p) <=> \E i \in 1 .. n : x = p[i]
            BY <1>5
        <3>2. x \in {more[i].value : i \in 1 .. n} <=> \E i \in 1 .. n : x = more[i].value
            OBVIOUS
        <3> QED BY <1>6, <3>1, <3>2, Zenon
    <2> QED BY <2>1, Zenon
<1>12. n # 0
    <2> HIDE DEF p
    <2>1. p # <<>>
        BY DEF p
    <2> QED BY <1>3, <1>4, <2>1, SeqFacts
<1>13. TypesOK(v.stage, v.pending, v.written, v.trace.header, v.trace.clocks, v.trace.txns)
    BY <1>2, <1>8, <1>9, Zenon DEF TypesOK
<1>14. BlocksOK(w.pending, w.written, w.trace.header)
    BY DEF WriterInv
<1>15. PICK len : len = Len(w.trace.header)
    OBVIOUS
<1>16. len \in Nat
    BY <1>3, <1>15, SeqFacts
<1>17. (len + 1) .. (len + n) # {}
    <2>1. len + 1 \in (len + 1) .. (len + n)
        BY <1>5, <1>12, <1>16
    <2> QED BY <2>1, Zenon
<1>18. BlocksOK(v.pending, v.written, v.trace.header)
    <2>1. \A i \in 1 .. Len(header) : header[i].rec \in Known
        <3>1. ASSUME NEW i \in 1 .. Len(header) PROVE header[i].rec \in Known
            <4>1. CASE i \in 1 .. len
                BY <1>9, <1>14, <1>15, <4>1, Zenon DEF BlocksOK
            <4>2. CASE i \notin 1 .. len
                <5>1. i - len \in 1 .. n /\ len + (i - len) = i
                    BY <1>5, <1>9, <1>15, <1>16, <4>2
                <5>2. header[i] = more[i - len]
                    BY <1>9, <1>15, <5>1
                <5>3. header[i].rec = s
                    BY <1>6, <5>1, <5>2, Zenon
                <5> QED BY <5>3 DEF Known
            <4> QED BY <4>1, <4>2
        <3> QED BY <3>1
    <2>2. \A t \in Settings \ {"CLOCK_ID"} : t \in w.written \cup {s} <=> At(header, t) # {}
        BY <1>10, <1>14, <1>15, <1>17, Zenon DEF BlocksOK
    <2>3. Len(w.pending["TRACE_INFO_FEATURE"]) <= 1
        BY <1>14 DEF BlocksOK
    <2>4. ASSUME "TRACE_INFO_FEATURE" \in w.written \cup {s}
          PROVE  \E i \in 1 .. Len(header) : At(header, "TRACE_INFO_FEATURE") = {i}
        <3>1. CASE s # "TRACE_INFO_FEATURE"
            <4>1. PICK i \in 1 .. len : At(w.trace.header, "TRACE_INFO_FEATURE") = {i}
                BY <1>14, <1>15, <2>4, <3>1, Zenon DEF BlocksOK
            <4>2. i \in 1 .. Len(header)
                BY <1>5, <1>9, <1>15, <1>16
            <4>3. At(header, "TRACE_INFO_FEATURE") = {i}
                BY <1>10, <3>1, <4>1, Zenon
            <4> QED BY <4>2, <4>3
        <3>2. CASE s = "TRACE_INFO_FEATURE"
            <4>1. At(w.trace.header, s) = {}
                BY <1>14, <3>2, Zenon DEF BlocksOK
            <4>2. n = 1
                <5>1. Len(w.pending["TRACE_INFO_FEATURE"]) = n
                    BY <1>4, <3>2, Zenon
                <5> QED BY <1>5, <1>12, <2>3, <5>1
            <4>3. (len + 1) .. (len + n) = {len + 1} /\ len + 1 \in 1 .. Len(header)
                BY <1>9, <1>15, <1>16, <4>2
            <4>4. At(header, s) = {len + 1}
                BY <1>10, <1>15, <4>1, <4>3, Zenon
            <4> QED BY <3>2, <4>3, <4>4, Zenon
        <3> QED BY <3>1, <3>2
    <2>5. ASSUME "PROTOCOL_ID" \in w.written \cup {s}
          PROVE  {"TRACE_INFO", "TRACE_INFO_FEATURE"} \subseteq w.written \cup {s}
        <3>1. CASE "PROTOCOL_ID" \in w.written
            BY <1>14, <3>1, Zenon DEF BlocksOK
        <3>2. CASE s = "PROTOCOL_ID"
            <4>1. Needs(s) = {"TRACE_INFO", "TRACE_INFO_FEATURE"}
                BY <3>2 DEF Needs
            <4> QED BY <4>1, Zenon
        <3> QED BY <2>5, <3>1, <3>2, Zenon
    <2> HIDE DEF p
    <2> QED BY <1>8, <2>1, <2>2, <2>3, <2>4, <2>5, Zenon DEF BlocksOK
<1>19. ClocksOK(w.pending, w.written, w.trace.header, w.trace.clocks, reg)
    BY DEF WriterInv
<1>20. ClocksOK(v.pending, v.written, v.trace.header, v.trace.clocks, reg)
    <2>1. ASSUME NEW clock \in HeaderClocks(header) PROVE Named(reg, clock)
        <3>1. CASE clock \in HeaderClocks(w.trace.header)
            BY <1>19, <3>1, Zenon DEF ClocksOK
        <3>2. CASE clock \notin HeaderClocks(w.trace.header)
            <4>1. s = "CLOCK_ID" /\ clock \in {more[i].value : i \in 1 .. n}
                BY <1>10, <3>2, Zenon
            <4>2. clock \in ToSet(w.pending["CLOCK_ID"])
                BY <1>11, <4>1, Zenon
            <4> QED BY <1>19, <4>2, Zenon DEF ClocksOK
        <3> QED BY <3>1, <3>2
    <2>2. "CLOCK_ID" \notin w.written \cup {s}
              => ToSet(w.trace.clocks) \subseteq ToSet(w.pending["CLOCK_ID"])
        BY <1>19, Zenon DEF ClocksOK
    <2>3. ASSUME "PROTOCOL_ID" \in w.written \cup {s}, "CLOCK_ID" \in w.written \cup {s}
          PROVE  ToSet(w.trace.clocks) \subseteq HeaderClocks(header)
        <3>1. CASE s = "CLOCK_ID"
            <4>1. ToSet(w.trace.clocks) \subseteq ToSet(w.pending["CLOCK_ID"])
                BY <1>19, <3>1, Zenon DEF ClocksOK
            <4>2. ToSet(w.pending["CLOCK_ID"]) \subseteq HeaderClocks(header)
                BY <1>10, <1>11, <3>1, Zenon
            <4> QED BY <4>1, <4>2, Zenon
        <3>2. CASE s = "PROTOCOL_ID"
            <4>1. Forbids(s) = {"CLOCK_ID"}
                BY <3>2 DEF Forbids
            <4>2. "CLOCK_ID" \notin w.written \cup {s}
                BY <3>2, <4>1
            <4> QED BY <2>3, <4>2
        <3>3. CASE s # "CLOCK_ID" /\ s # "PROTOCOL_ID"
            BY <1>10, <1>19, <2>3, <3>3, Zenon DEF ClocksOK
        <3> QED BY <3>1, <3>2, <3>3
    <2> HIDE DEF p
    <2> QED BY <1>8, <1>19, <2>1, <2>2, <2>3, Zenon DEF ClocksOK
<1>21. StageOK(v.stage, v.written, v.trace.header, v.trace.clocks, v.trace.txns, v.deps)
    <2>1. StageOK(w.stage, w.written, w.trace.header, w.trace.clocks, w.trace.txns, w.deps)
        BY DEF WriterInv
    <2>2. w.trace.txns = <<>>
        BY <2>1, Zenon DEF StageOK
    <2>3. v.stage # "closed" /\ v.stage # "body" /\ v.trace.txns = <<>>
        BY <1>8, <2>2
    <2>4. v.deps = <<>>
        BY <1>8, <2>1, <2>3, Zenon DEF StageOK
    <2>5. DepsKnown(v.deps, v.trace.clocks)
        BY <2>4, NoDeps, Zenon
    <2> QED BY <1>8, <2>1, <2>3, <2>4, <2>5, Zenon DEF StageOK
<1> QED BY <1>8, <1>13, <1>18, <1>20, <1>21, Zenon DEF WriterInv, v

LEMMA BlockKeeps ==
    ASSUME NEW work, NEW reg, Works(work, reg), NEW s \in Settings
    PROVE  /\ Works(Block(work, s), reg)
           /\ Block(work, s).ok /\ s = "CLOCK_ID" => s \in Block(work, s).writer.written
<1> DEFINE w == work.writer
           due == s \notin w.written /\ (w.pending[s] # <<>> \/ s = "CLOCK_ID")
           may == /\ Needs(s) \subseteq w.written /\ Forbids(s) \cap w.written = {}
                  /\ w.pending[s] # <<>>
<1>1. Block(work, s) = IF ~work.ok \/ ~due THEN work
                       ELSE IF may THEN [work EXCEPT !.writer = Emit(w, s)]
                       ELSE [work EXCEPT !.ok = FALSE]
    BY Zenon DEF Block
<1>2. CASE ~work.ok \/ ~due
    <2>1. Block(work, s) = work
        BY <1>1, <1>2, Zenon
    <2>2. work.ok /\ s = "CLOCK_ID" => s \in w.written
        BY <1>2, Zenon
    <2> QED BY <2>1, <2>2, Zenon
<1>3. CASE ~(~work.ok \/ ~due) /\ may
    <2>1. PICK v : v = Emit(w, s)
        OBVIOUS
    <2>2. WriterInv(v, reg) /\ v.stage = "header" /\ v.written = w.written \cup {s}
        BY <1>3, <2>1, EmitKeeps DEF Works
    <2>3. Block(work, s) = [work EXCEPT !.writer = v]
        BY <1>1, <1>3, <2>1, Zenon
    <2>4. DOMAIN Block(work, s) = {"ok", "writer"} /\ Block(work, s).writer = v
        BY <2>3 DEF Works
    <2> QED BY <2>2, <2>4, Zenon DEF Works
<1>4. CASE ~(~work.ok \/ ~due) /\ ~may
    <2>1. Block(work, s) = [work EXCEPT !.ok = FALSE]
        BY <1>1, <1>4, Zenon
    <2>2. /\ DOMAIN Block(work, s) = {"ok", "writer"} /\ Block(work, s).writer = w
          /\ Block(work, s).ok = FALSE
        BY <2>1 DEF Works
    <2> QED BY <2>2, Zenon DEF Works
<1> QED BY <1>2, <1>3, <1>4

\* A flush keeps the invariant, wherever it throws; one that does not throw has
\* written the clocks.
LEMMA FlushKeeps ==
    ASSUME NEW w, NEW reg, WriterInv(w, reg), w.stage = "header"
    PROVE  /\ WriterInv(Flush(w).writer, reg) /\ Flush(w).writer.stage = "header"
           /\ Flush(w).ok => "CLOCK_ID" \in Flush(w).writer.written
<1> DEFINE start == [ok |-> TRUE, writer |-> w]
<1>1. Works(start, reg)
    BY DEF Works
<1> HIDE DEF start
<1>2. /\ "COMMENT" \in Settings /\ "TRACE_INFO" \in Settings /\ "TRACE_INFO_FEATURE" \in Settings
      /\ "PROTOCOL_ID" \in Settings /\ "CLOCK_ID" \in Settings
    BY DEF Settings
<1>3. PICK a : a = Block(start, "COMMENT")
    OBVIOUS
<1>4. PICK b : b = Block(a, "TRACE_INFO")
    OBVIOUS
<1>5. PICK c : c = Block(b, "TRACE_INFO_FEATURE")
    OBVIOUS
<1>6. PICK d : d = Block(c, "PROTOCOL_ID")
    OBVIOUS
<1>7. PICK e : e = Block(d, "CLOCK_ID")
    OBVIOUS
<1>8. Flush(w) = e
    BY <1>3, <1>4, <1>5, <1>6, <1>7, Zenon DEF Flush, start
<1>9. Works(a, reg)
    BY <1>1, <1>2, <1>3, BlockKeeps
<1>10. Works(b, reg)
    BY <1>2, <1>4, <1>9, BlockKeeps
<1>11. Works(c, reg)
    BY <1>2, <1>5, <1>10, BlockKeeps
<1>12. Works(d, reg)
    BY <1>2, <1>6, <1>11, BlockKeeps
<1>13. Works(e, reg) /\ (e.ok => "CLOCK_ID" \in e.writer.written)
    BY <1>2, <1>7, <1>12, BlockKeeps
<1> QED BY <1>8, <1>13, Zenon DEF Works

LEMMA EndsFacts ==
    ASSUME NEW header, IsSeq(header), NEW rec, rec.rec = "END_HEADER"
    PROVE  Ends(Append(header, rec))
<1>1. PICK n, u : n = Len(header) /\ u = Append(header, rec)
    OBVIOUS
<1>2. IsSeq(u) /\ Len(u) = n + 1 /\ u[n + 1] = rec /\ n \in Nat
    BY <1>1, AppendFacts, SeqFacts
<1>3. u # <<>>
    <2>1. Len(u) # 0
        BY <1>2
    <2> QED BY <2>1, NothingIsSeq
<1> QED BY <1>1, <1>2, <1>3 DEF Ends

LEMMA AppendIsConcat ==
    ASSUME NEW s, IsSeq(s), NEW x
    PROVE  Append(s, x) = s \o <<x>>
<1> DEFINE A == ToSet(s)
<1>1. s \in Seq(A)
    BY DEF IsSeq
<1> HIDE DEF A
<1>2. s \in Seq(A \cup {x}) /\ x \in A \cup {x}
    BY <1>1
<1> DEFINE S == A \cup {x}
<1> HIDE DEF S
<1>3. s \in Seq(S) /\ x \in S
    BY <1>2 DEF S
<1> QED BY <1>3

\* The header ends behind all its blocks.
LEMMA EndKeeps ==
    ASSUME NEW w, NEW reg, WriterInv(w, reg), w.stage = "header", "CLOCK_ID" \in w.written
    PROVE  WriterInv([w EXCEPT !.stage = "body",
                               !.trace.header = Append(@, Header("END_HEADER", 0))], reg)
<1> DEFINE rec  == Header("END_HEADER", 0)
           more == <<rec>>
           v == [w EXCEPT !.stage = "body", !.trace.header = Append(@, Header("END_HEADER", 0))]
<1>1. HasParts(w)
    BY DEF WriterInv
<1>2. TypesOK(w.stage, w.pending, w.written, w.trace.header, w.trace.clocks, w.trace.txns)
    BY DEF WriterInv
<1>3. PICK old, header : old = w.trace.header /\ header = Append(old, rec)
    OBVIOUS
<1>4. IsSeq(old) /\ rec.rec = "END_HEADER"
    BY <1>2, <1>3 DEF TypesOK, Header
<1>5. /\ HasParts(v) /\ v.stage = "body" /\ v.pending = w.pending
      /\ v.written = w.written /\ v.deps = w.deps /\ v.trace.header = header
      /\ v.trace.clocks = w.trace.clocks /\ v.trace.txns = w.trace.txns
    BY <1>1, <1>3 DEF HasParts
<1> HIDE DEF v, rec
<1>6. /\ IsSeq(more) /\ Len(more) = 1 /\ more[1] = rec
      /\ IsSeq(header) /\ Len(header) = Len(old) + 1 /\ header[Len(old) + 1] = rec
      /\ \A i \in 1 .. Len(old) : header[i] = old[i]
      /\ header = old \o more /\ Len(old) \in Nat
    BY <1>3, <1>4, OneElement, AppendFacts, AppendIsConcat, SeqFacts
<1>7. \A i \in 1 .. Len(more) : more[i].rec = "END_HEADER"
    BY <1>4, <1>6
<1> HIDE DEF more
<1>8. /\ \A t : t # "END_HEADER" => At(header, t) = At(old, t)
      /\ HeaderClocks(old) \subseteq HeaderClocks(header)
      /\ HeaderClocks(header) \subseteq HeaderClocks(old)
    <2>1. PICK s : s = "END_HEADER"
        OBVIOUS
    <2>2. IsSeq(old) /\ IsSeq(more) /\ \A i \in 1 .. Len(more) : more[i].rec = s
        BY <1>4, <1>6, <1>7, <2>1, Zenon
    <2>3. s # "CLOCK_ID"
        BY <2>1
    <2>4. LET u == old \o more
          IN  /\ \A t : t # s => At(u, t) = At(old, t)
              /\ At(u, s) = At(old, s) \cup (Len(old) + 1) .. (Len(old) + Len(more))
              /\ HeaderClocks(old) \subseteq HeaderClocks(u)
              /\ HeaderClocks(u) \subseteq HeaderClocks(old)
                     \cup (IF s = "CLOCK_ID" THEN {more[i].value : i \in 1 .. Len(more)} ELSE {})
              /\ s = "CLOCK_ID" => {more[i].value : i \in 1 .. Len(more)} \subseteq HeaderClocks(u)
        BY <2>2, HeaderGrows, Zenon
    <2> QED BY <1>6, <2>1, <2>3, <2>4, Zenon
<1>9. Ends(header)
    BY <1>3, <1>4, EndsFacts
<1>10. TypesOK(v.stage, v.pending, v.written, v.trace.header, v.trace.clocks, v.trace.txns)
    <2>1. TypesOK("body", w.pending, w.written, header, w.trace.clocks, w.trace.txns)
        BY <1>2, <1>6, Zenon DEF TypesOK
    <2> QED BY <1>5, <2>1, Zenon
<1>11. BlocksOK(v.pending, v.written, v.trace.header)
    <2>1. BlocksOK(w.pending, w.written, old)
        BY <1>3 DEF WriterInv
    <2>2. \A i \in 1 .. Len(header) : i \in 1 .. Len(old) \/ i = Len(old) + 1
        BY <1>6
    <2>3. rec.rec \in Known
        BY <1>4 DEF Known
    <2>4. \A i \in 1 .. Len(header) : header[i].rec \in Known
        BY <1>6, <2>1, <2>2, <2>3, Zenon DEF BlocksOK
    <2>5. \A i \in 1 .. Len(old) : i \in 1 .. Len(header)
        BY <1>6
    <2>6. \A s \in Settings : s # "END_HEADER"
        BY DEF Settings
    <2>7. \A s \in Settings \ {"CLOCK_ID"} : s \in w.written <=> At(header, s) # {}
        BY <1>8, <2>1, <2>6, Zenon DEF BlocksOK
    <2>8. "TRACE_INFO_FEATURE" \in w.written
              => \E i \in 1 .. Len(header) : At(header, "TRACE_INFO_FEATURE") = {i}
        BY <1>8, <2>1, <2>5, Zenon DEF BlocksOK
    <2>9. BlocksOK(w.pending, w.written, header)
        BY <2>1, <2>4, <2>7, <2>8, Zenon DEF BlocksOK
    <2> QED BY <1>5, <2>9, Zenon
<1>12. ClocksOK(v.pending, v.written, v.trace.header, v.trace.clocks, reg)
    <2>1. ClocksOK(w.pending, w.written, old, w.trace.clocks, reg)
        BY <1>3 DEF WriterInv
    <2>2. ClocksOK(w.pending, w.written, header, w.trace.clocks, reg)
        BY <1>8, <2>1, Zenon DEF ClocksOK
    <2> QED BY <1>5, <2>2, Zenon
<1>13. StageOK(v.stage, v.written, v.trace.header, v.trace.clocks, v.trace.txns, v.deps)
    <2>1. StageOK("header", w.written, old, w.trace.clocks, w.trace.txns, w.deps)
        BY <1>3 DEF WriterInv
    <2>2. w.trace.txns = <<>> /\ w.deps = <<>> /\ DepsKnown(w.deps, w.trace.clocks)
        BY <2>1, NoDeps, Zenon DEF StageOK
    <2>3. StageOK("body", w.written, header, w.trace.clocks, w.trace.txns, w.deps)
        BY <1>9, <2>1, <2>2, Zenon DEF StageOK
    <2> QED BY <1>5, <2>3, Zenon
<1>14. WriterInv(v, reg)
    BY <1>5, <1>10, <1>11, <1>12, <1>13, Zenon DEF WriterInv
<1> QED BY <1>14 DEF v

\* Settings that wait to be written are replaced.
LEMMA SettingsKeep ==
    ASSUME NEW w, NEW reg, WriterInv(w, reg), NEW p, p = [s \in Settings |-> p[s]],
           \A s \in Settings : IsSeq(p[s]), Len(p["TRACE_INFO_FEATURE"]) <= 1,
           p["CLOCK_ID"] = w.pending["CLOCK_ID"]
    PROVE  WriterInv([w EXCEPT !.pending = p], reg)
<1> DEFINE v == [w EXCEPT !.pending = p]
<1>1. HasParts(w)
    BY DEF WriterInv
<1>2. /\ HasParts(v) /\ v.stage = w.stage /\ v.pending = p
      /\ v.written = w.written /\ v.deps = w.deps /\ v.trace = w.trace
    BY <1>1 DEF HasParts
<1> HIDE DEF v
<1>3. TypesOK(v.stage, v.pending, v.written, v.trace.header, v.trace.clocks, v.trace.txns)
    <2>1. TypesOK(w.stage, p, w.written, w.trace.header, w.trace.clocks, w.trace.txns)
        BY Zenon DEF WriterInv, TypesOK
    <2> QED BY <1>2, <2>1, Zenon
<1>4. BlocksOK(v.pending, v.written, v.trace.header)
    <2>1. BlocksOK(p, w.written, w.trace.header)
        BY Zenon DEF WriterInv, BlocksOK
    <2> QED BY <1>2, <2>1, Zenon
<1>5. ClocksOK(v.pending, v.written, v.trace.header, v.trace.clocks, reg)
    <2>1. ClocksOK(p, w.written, w.trace.header, w.trace.clocks, reg)
        BY Zenon DEF WriterInv, ClocksOK
    <2> QED BY <1>2, <2>1, Zenon
<1>6. StageOK(v.stage, v.written, v.trace.header, v.trace.clocks, v.trace.txns, v.deps)
    <2>1. StageOK(w.stage, w.written, w.trace.header, w.trace.clocks, w.trace.txns, w.deps)
        BY DEF WriterInv
    <2> QED BY <1>2, <2>1, Zenon
<1> QED BY <1>2, <1>3, <1>4, <1>5, <1>6, Zenon DEF WriterInv, v

LEMMA SetUpKeeps ==
    ASSUME NEW w, NEW reg, WriterInv(w, reg), NEW settings,
           settings \subseteq Settings \ {"CLOCK_ID"}
    PROVE  WriterInv([w EXCEPT !.pending = [s \in Settings |->
                                   IF s \in settings THEN Setting(s) ELSE @[s]]], reg)
<1> DEFINE p == [s \in Settings |-> IF s \in settings THEN Setting(s) ELSE w.pending[s]]
<1>1. "CLOCK_ID" \in Settings /\ "TRACE_INFO_FEATURE" \in Settings
    BY DEF Settings
<1>2. TypesOK(w.stage, w.pending, w.written, w.trace.header, w.trace.clocks, w.trace.txns)
    BY DEF WriterInv
<1>3. \A s : IsSeq(Setting(s)) /\ Len(Setting(s)) = 1
    BY OneElement, Zenon DEF Setting
<1>4. \A s \in Settings : p[s] = Setting(s) \/ p[s] = w.pending[s]
    BY Zenon
<1>5. \A s \in Settings : IsSeq(p[s])
    BY <1>2, <1>3, <1>4, Zenon DEF TypesOK
<1>6. p["CLOCK_ID"] = w.pending["CLOCK_ID"]
    <2>1. "CLOCK_ID" \notin settings
        BY Zenon
    <2> QED BY <1>1, <2>1, Zenon
<1>7. p = [s \in Settings |-> p[s]]
    BY Zenon
<1>8. Len(p["TRACE_INFO_FEATURE"]) <= 1
    <2>1. Len(w.pending["TRACE_INFO_FEATURE"]) <= 1
        BY DEF WriterInv, BlocksOK
    <2>2. CASE p["TRACE_INFO_FEATURE"] = w.pending["TRACE_INFO_FEATURE"]
        BY <2>1, <2>2, Zenon
    <2>3. CASE p["TRACE_INFO_FEATURE"] = Setting("TRACE_INFO_FEATURE")
        <3>1. Len(p["TRACE_INFO_FEATURE"]) = 1
            BY <1>3, <2>3, Zenon
        <3> HIDE DEF p
        <3> QED BY <3>1
    <2> QED BY <1>1, <1>4, <2>2, <2>3, Zenon
<1>9. [w EXCEPT !.pending = [s \in Settings |-> IF s \in settings THEN Setting(s) ELSE @[s]]]
          = [w EXCEPT !.pending = p]
    BY Zenon
<1> HIDE DEF p
<1>10. WriterInv([w EXCEPT !.pending = p], reg)
    BY <1>5, <1>6, <1>7, <1>8, SettingsKeep
<1> QED BY <1>9, <1>10, Zenon

LEMMA AtIsFinite ==
    ASSUME NEW header, IsSeq(header), NEW s
    PROVE  IsFiniteSet(At(header, s)) /\ Cardinality(At(header, s)) \in Nat
<1>1. PICK n : n = Len(header)
    OBVIOUS
<1>2. n \in Nat
    BY <1>1, SeqFacts
<1>3. IsFiniteSet(1 .. n)
    BY <1>2, FS_Interval
<1>4. At(header, s) \subseteq 1 .. n
    BY <1>1, Zenon DEF At
<1>5. IsFiniteSet(At(header, s))
    BY <1>3, <1>4, FS_Subset
<1> QED BY <1>5, FS_CardinalityType

LEMMA CopiedKeeps ==
    ASSUME NEW w, NEW reg, WriterInv(w, reg), NEW header, IsSeq(header), IsValid(header)
    PROVE  WriterInv(Copied(w, header), reg)
<1> DEFINE p == [s \in Settings |-> IF s = "CLOCK_ID" \/ At(header, s) = {} THEN w.pending[s]
                                    ELSE Values(header, s)]
<1>1. "CLOCK_ID" \in Settings /\ "TRACE_INFO_FEATURE" \in Settings
    BY DEF Settings
<1>2. TypesOK(w.stage, w.pending, w.written, w.trace.header, w.trace.clocks, w.trace.txns)
    BY DEF WriterInv
<1>3. ASSUME NEW s
      PROVE  IsSeq(Values(header, s)) /\ Len(Values(header, s)) = Cardinality(At(header, s))
    <2>1. PICK n : n = Cardinality(At(header, s))
        OBVIOUS
    <2>2. n \in Nat
        BY <2>1, AtIsFinite
    <2> DEFINE u == Values(header, s)
    <2>3. u = [k \in 1 .. n |-> header[Nth(At(header, s), k)].value]
        BY <2>1, Zenon DEF Values
    <2> HIDE DEF u
    <2>4. DOMAIN u = 1 .. n /\ u = [k \in 1 .. n |-> u[k]]
        BY <2>3, Zenon
    <2>5. IsSeq(u) /\ Len(u) = n
        BY <2>2, <2>4, FunctionIsSeq
    <2> QED BY <2>1, <2>5 DEF u
<1>4. \A s \in Settings : p[s] = Values(header, s) \/ p[s] = w.pending[s]
    BY Zenon
<1>5. \A s \in Settings : IsSeq(p[s])
    BY <1>2, <1>3, <1>4, Zenon DEF TypesOK
<1>6. p["CLOCK_ID"] = w.pending["CLOCK_ID"]
    BY <1>1, Zenon
<1>7. p = [s \in Settings |-> p[s]]
    BY Zenon
<1>8. Len(p["TRACE_INFO_FEATURE"]) <= 1
    <2>1. Len(w.pending["TRACE_INFO_FEATURE"]) <= 1
        BY DEF WriterInv, BlocksOK
    <2>2. CASE p["TRACE_INFO_FEATURE"] = w.pending["TRACE_INFO_FEATURE"]
        BY <2>1, <2>2, Zenon
    <2>3. CASE p["TRACE_INFO_FEATURE"] = Values(header, "TRACE_INFO_FEATURE")
        <3>1. Cardinality(At(header, "TRACE_INFO_FEATURE")) = 1
            BY DEF IsValid
        <3>2. Len(p["TRACE_INFO_FEATURE"]) = 1
            BY <1>3, <2>3, <3>1, Zenon
        <3> HIDE DEF p
        <3> QED BY <3>2
    <2> QED BY <1>1, <1>4, <2>2, <2>3, Zenon
<1>9. Copied(w, header) = [w EXCEPT !.pending = p]
    BY Zenon DEF Copied
<1> HIDE DEF p
<1>10. WriterInv([w EXCEPT !.pending = p], reg)
    BY <1>5, <1>6, <1>7, <1>8, SettingsKeep
<1> QED BY <1>9, <1>10, Zenon

\* A registry that grows knows the clocks of the writer all the same.
LEMMA RegistryMayGrow ==
    ASSUME NEW w, NEW reg, NEW reg2, WriterInv(w, reg), Grown(reg, reg2)
    PROVE  WriterInv(w, reg2)
BY GrownKeepsNames, Zenon DEF WriterInv, ClocksOK

\* A writer without a file, new or used before.
IsNew(v, clocks, written) ==
    /\ HasParts(v) /\ v.stage = "closed" /\ v.written = written /\ v.deps = <<>>
    /\ v.trace.header = <<>> /\ v.trace.clocks = <<>> /\ v.trace.txns = <<>>
    /\ v.pending = [s \in Settings |-> IF s = "CLOCK_ID" THEN clocks ELSE <<>>]

LEMMA NewWriterInv ==
    ASSUME NEW reg, NEW clocks, NEW written, IsSeq(clocks), written \subseteq {"CLOCK_ID"},
           \A clock \in ToSet(clocks) : Named(reg, clock), NEW v, IsNew(v, clocks, written)
    PROVE  WriterInv(v, reg)
<1> DEFINE p == [s \in Settings |-> IF s = "CLOCK_ID" THEN clocks ELSE <<>>]
<1>1. "CLOCK_ID" \in Settings /\ "TRACE_INFO_FEATURE" \in Settings
    BY DEF Settings
<1>2. /\ HasParts(v) /\ v.stage = "closed" /\ v.written = written /\ v.deps = <<>>
      /\ v.trace.header = <<>> /\ v.trace.clocks = <<>> /\ v.trace.txns = <<>>
    BY Zenon DEF IsNew
<1>3. v.pending = p
    BY Zenon DEF IsNew
<1>4. /\ IsSeq(<<>>) /\ Len(<<>>) = 0 /\ ToSet(<<>>) = {}
      /\ \A s : At(<<>>, s) = {} /\ HeaderClocks(<<>>) = {} /\ ~HasProtocol(<<>>)
    <2>1. IsSeq(<<>>) /\ Len(<<>>) = 0 /\ ToSet(<<>>) = {}
        BY NothingIsSeq
    <2>2. 1 .. Len(<<>>) = {}
        BY <2>1
    <2>3. \A s : At(<<>>, s) = {}
        BY <2>2, Zenon DEF At
    <2>4. HeaderClocks(<<>>) = {}
        BY <2>3, Zenon DEF HeaderClocks
    <2>5. ~HasProtocol(<<>>)
        BY <2>2, Zenon DEF HasProtocol
    <2> QED BY <2>1, <2>3, <2>4, <2>5
<1>5. /\ p = [s \in Settings |-> p[s]] /\ \A s \in Settings : IsSeq(p[s])
      /\ p["CLOCK_ID"] = clocks /\ Len(p["TRACE_INFO_FEATURE"]) <= 1
    <2>1. p["TRACE_INFO_FEATURE"] = <<>>
        BY <1>1
    <2>2. Len(p["TRACE_INFO_FEATURE"]) <= 1
        BY <2>1
    <2>3. \A s \in Settings : p[s] = clocks \/ p[s] = <<>>
        BY Zenon
    <2>4. \A s \in Settings : IsSeq(p[s])
        BY <1>4, <2>3, Zenon
    <2>5. p = [s \in Settings |-> p[s]]
        BY Zenon
    <2> QED BY <1>1, <2>2, <2>4, <2>5, Zenon
<1> HIDE DEF p
<1>6. TypesOK("closed", p, written, <<>>, <<>>, <<>>)
    <2>1. written \subseteq Settings
        BY <1>1, Zenon
    <2> QED BY <1>4, <1>5, <2>1, Zenon DEF TypesOK
<1>7. BlocksOK(p, written, <<>>)
    <2>1. "TRACE_INFO_FEATURE" \notin written /\ "PROTOCOL_ID" \notin written
        OBVIOUS
    <2>2. \A s \in Settings \ {"CLOCK_ID"} : s \notin written
        BY Zenon
    <2>3. \A i \in 1 .. Len(<<>>) : <<>>[i].rec \in Known
        BY <1>4
    <2> QED BY <1>4, <1>5, <2>1, <2>2, <2>3, Zenon DEF BlocksOK
<1>8. ClocksOK(p, written, <<>>, <<>>, reg)
    <2>1. \A clock \in ToSet(p["CLOCK_ID"]) : Named(reg, clock)
        BY <1>5, Zenon
    <2> QED BY <1>4, <2>1, Zenon DEF ClocksOK
<1>9. StageOK("closed", written, <<>>, <<>>, <<>>, <<>>)
    <2>1. "closed" # "body" /\ \A k \in 1 .. Len(<<>>) : FALSE
        OBVIOUS
    <2> QED BY <1>4, <2>1, Zenon DEF StageOK
<1> QED BY <1>2, <1>3, <1>6, <1>7, <1>8, <1>9, Zenon DEF WriterInv

LEMMA FreshWriterInv ==
    ASSUME NEW reg PROVE WriterInv(NewWriter, reg)
<1>1. IsSeq(<<>>) /\ ToSet(<<>>) = {}
    BY NothingIsSeq
<1>2. IsNew(NewWriter, <<>>, {})
    <2>1. /\ HasParts(NewWriter) /\ NewWriter.stage = "closed" /\ NewWriter.written = {}
          /\ NewWriter.deps = <<>> /\ NewWriter.trace.header = <<>>
          /\ NewWriter.trace.clocks = <<>> /\ NewWriter.trace.txns = <<>>
        BY DEF NewWriter, NewTrace, HasParts
    <2>2. NewWriter.pending = [s \in Settings |-> <<>>]
        BY Zenon DEF NewWriter
    <2>3. [s \in Settings |-> <<>>] = [s \in Settings |-> IF s = "CLOCK_ID" THEN <<>> ELSE <<>>]
        BY Zenon
    <2> QED BY <2>1, <2>2, <2>3, Zenon DEF IsNew
<1> QED BY <1>1, <1>2, NewWriterInv, Zenon

LEMMA UsedWriterInv ==
    ASSUME NEW reg, NEW clocks, NEW written, IsSeq(clocks), written \subseteq {"CLOCK_ID"},
           \A clock \in ToSet(clocks) : Named(reg, clock)
    PROVE  WriterInv([NewWriter EXCEPT !.pending["CLOCK_ID"] = clocks, !.written = written], reg)
<1> DEFINE v == [NewWriter EXCEPT !.pending["CLOCK_ID"] = clocks, !.written = written]
<1>1. "CLOCK_ID" \in Settings
    BY DEF Settings
<1>2. /\ HasParts(v) /\ v.stage = "closed" /\ v.written = written /\ v.deps = <<>>
      /\ v.trace.header = <<>> /\ v.trace.clocks = <<>> /\ v.trace.txns = <<>>
    BY DEF NewWriter, NewTrace, HasParts
<1>3. v.pending = [s \in Settings |-> IF s = "CLOCK_ID" THEN clocks ELSE <<>>]
    BY <1>1 DEF NewWriter
<1> HIDE DEF v
<1>4. IsNew(v, clocks, written)
    BY <1>2, <1>3, Zenon DEF IsNew
<1> QED BY <1>4, NewWriterInv DEF v

LEMMA OpenKeeps ==
    ASSUME NEW w, NEW reg, WriterInv(w, reg), w.stage = "closed"
    PROVE  WriterInv([w EXCEPT !.stage = "header", !.trace.header =
                                   <<Header("IDENTIFIER", 0), Header("VERSION", 0)>>], reg)
<1> DEFINE a == Header("IDENTIFIER", 0)
           b == Header("VERSION", 0)
           v == [w EXCEPT !.stage = "header", !.trace.header = <<a, b>>]
<1>1. HasParts(w)
    BY DEF WriterInv
<1>2. PICK header : header = <<a, b>>
    OBVIOUS
<1>3. /\ HasParts(v) /\ v.stage = "header" /\ v.pending = w.pending
      /\ v.written = w.written /\ v.deps = w.deps /\ v.trace.header = header
      /\ v.trace.clocks = w.trace.clocks /\ v.trace.txns = w.trace.txns
    BY <1>1, <1>2 DEF HasParts
<1>4. a.rec = "IDENTIFIER" /\ b.rec = "VERSION"
    BY DEF Header
<1> HIDE DEF v, a, b
<1>5. IsSeq(header) /\ Len(header) = 2 /\ header[1] = a /\ header[2] = b
    <2>1. header \in Seq({a, b}) /\ Len(header) = 2 /\ header[1] = a /\ header[2] = b
        BY <1>2
    <2> QED BY <2>1, SeqOfIsSeq
<1>6. \A i \in 1 .. Len(header) : header[i].rec = "IDENTIFIER" \/ header[i].rec = "VERSION"
    <2>1. \A i \in 1 .. Len(header) : i = 1 \/ i = 2
        BY <1>5
    <2> QED BY <1>4, <1>5, <2>1, Zenon
<1>7. \A s \in Settings : s # "IDENTIFIER" /\ s # "VERSION" /\ At(header, s) = {}
    <2>1. \A s \in Settings : s # "IDENTIFIER" /\ s # "VERSION"
        BY DEF Settings
    <2> QED BY <1>6, <2>1, Zenon DEF At
<1>8. "CLOCK_ID" \in Settings /\ "PROTOCOL_ID" \in Settings /\ "TRACE_INFO_FEATURE" \in Settings
    BY DEF Settings
<1>9. HeaderClocks(header) = {} /\ ~HasProtocol(header)
    BY <1>7, <1>8, HasProtocolAt, Zenon DEF HeaderClocks
<1>10. w.trace.header = <<>> /\ w.trace.txns = <<>> /\ w.deps = <<>>
    <2>1. StageOK("closed", w.written, w.trace.header, w.trace.clocks, w.trace.txns, w.deps)
        BY DEF WriterInv
    <2>2. "closed" # "body"
        OBVIOUS
    <2> QED BY <2>1, <2>2, Zenon DEF StageOK
<1>11. BlocksOK(w.pending, w.written, w.trace.header)
    BY DEF WriterInv
<1>12. \A s \in Settings \ {"CLOCK_ID"} : s \notin w.written
    <2>1. 1 .. Len(<<>>) = {}
        BY NothingIsSeq
    <2>2. \A s : At(<<>>, s) = {}
        BY <2>1, Zenon DEF At
    <2> QED BY <1>10, <1>11, <2>2, Zenon DEF BlocksOK
<1>13. "TRACE_INFO_FEATURE" \notin w.written /\ "PROTOCOL_ID" \notin w.written
    BY <1>8, <1>12
<1>14. TypesOK(v.stage, v.pending, v.written, v.trace.header, v.trace.clocks, v.trace.txns)
    <2>1. TypesOK("header", w.pending, w.written, header, w.trace.clocks, w.trace.txns)
        BY <1>5, Zenon DEF WriterInv, TypesOK
    <2> QED BY <1>3, <2>1, Zenon
<1>15. BlocksOK(v.pending, v.written, v.trace.header)
    <2>1. "IDENTIFIER" \in Known /\ "VERSION" \in Known
        BY DEF Known
    <2>2. BlocksOK(w.pending, w.written, header)
        BY <1>6, <1>7, <1>11, <1>12, <1>13, <2>1, Zenon DEF BlocksOK
    <2> QED BY <1>3, <2>2, Zenon
<1>16. ClocksOK(v.pending, v.written, v.trace.header, v.trace.clocks, reg)
    <2>1. ClocksOK(w.pending, w.written, w.trace.header, w.trace.clocks, reg)
        BY DEF WriterInv
    <2>2. ClocksOK(w.pending, w.written, header, w.trace.clocks, reg)
        BY <1>9, <1>13, <2>1, Zenon DEF ClocksOK
    <2> QED BY <1>3, <2>2, Zenon
<1>17. StageOK(v.stage, v.written, v.trace.header, v.trace.clocks, v.trace.txns, v.deps)
    <2>1. StageOK(w.stage, w.written, w.trace.header, w.trace.clocks, w.trace.txns, w.deps)
        BY DEF WriterInv
    <2>2. "header" # "closed" /\ "header" # "body"
        OBVIOUS
    <2>3. StageOK("header", w.written, header, w.trace.clocks, w.trace.txns, w.deps)
        BY <1>9, <1>10, <2>1, <2>2, Zenon DEF StageOK
    <2> QED BY <1>3, <2>3, Zenon
<1>18. WriterInv(v, reg)
    BY <1>3, <1>14, <1>15, <1>16, <1>17, Zenon DEF WriterInv
<1> QED BY <1>18 DEF v, a, b

\* Behind the header, a writer only gets more transactions and dependencies, which
\* use the clocks it has.
LEMMA BodyKeeps ==
    ASSUME NEW w, NEW reg, WriterInv(w, reg), w.stage = "body", NEW v, HasParts(v),
           v.stage = w.stage, v.pending = w.pending, v.written = w.written,
           v.trace.header = w.trace.header, v.trace.clocks = w.trace.clocks,
           IsSeq(v.trace.txns), v.trace.txns # <<>> => HasProtocol(w.trace.header),
           HasProtocol(w.trace.header) => DepsKnown(v.deps, w.trace.clocks),
           \A k \in 1 .. Len(v.trace.txns) :
               UsedClocks(v.trace.txns[k]) \subseteq Declared(w.trace.clocks)
    PROVE  WriterInv(v, reg)
<1>1. TypesOK(w.stage, w.pending, w.written, w.trace.header, w.trace.clocks, v.trace.txns)
    BY Zenon DEF WriterInv, TypesOK
<1>2. BlocksOK(v.pending, v.written, v.trace.header)
    BY Zenon DEF WriterInv
<1>3. ClocksOK(v.pending, v.written, v.trace.header, v.trace.clocks, reg)
    BY Zenon DEF WriterInv
<1>4. StageOK(v.stage, v.written, v.trace.header, v.trace.clocks, v.trace.txns, v.deps)
    <2>1. StageOK(w.stage, w.written, w.trace.header, w.trace.clocks, w.trace.txns, w.deps)
        BY DEF WriterInv
    <2>2. StageOK("body", w.written, w.trace.header, w.trace.clocks, v.trace.txns, v.deps)
        BY <2>1, Zenon DEF StageOK
    <2> QED BY <2>2, Zenon
<1> QED BY <1>1, <1>2, <1>3, <1>4, Zenon DEF WriterInv

LEMMA ClocksOfUsed ==
    ASSUME NEW clocks, NEW txn, NEW deps, txn.clock \in Declared(clocks),
           \A k \in 1 .. Len(deps) : deps[k].clock \in Declared(clocks)
    PROVE  UsedClocks(WithDeps(txn, deps)) \subseteq Declared(clocks)
<1>1. WithDeps(txn, deps).txn = txn /\ WithDeps(txn, deps).deps = deps
    BY DEF WithDeps
<1>2. UsedClocks(WithDeps(txn, deps)) = ClocksOf(txn, deps)
    BY <1>1, Zenon DEF UsedClocks
<1> QED BY <1>2, Zenon DEF ClocksOf

LEMMA WrittenKeeps ==
    ASSUME NEW w, NEW reg, WriterInv(w, reg), w.stage = "body",
           NEW front, HasParts(front), front.stage = w.stage, front.pending = w.pending,
           front.written = w.written, front.trace.header = w.trace.header,
           front.trace.clocks = w.trace.clocks, front.trace.txns = w.trace.txns,
           NEW txn, txn.clock \in Declared(w.trace.clocks),
           HasProtocol(w.trace.header)
               => \A k \in 1 .. Len(front.deps) : front.deps[k].clock \in Declared(w.trace.clocks)
    PROVE  WriterInv(Written(front, txn), reg) /\ Written(front, txn).stage = "body"
<1> DEFINE v == Written(front, txn)
<1>1. HasParts(front)
    OBVIOUS
<1>2. IsSeq(w.trace.txns)
    BY DEF WriterInv, TypesOK
<1>3. StageOK("body", w.written, w.trace.header, w.trace.clocks, w.trace.txns, w.deps)
    BY DEF WriterInv
<1>4. CASE HasProtocol(w.trace.header)
    <2>1. PICK body, entry : /\ body = front.trace.body \o TransactionCells(txn)
                             /\ entry = WithDeps(txn, front.deps)
        OBVIOUS
    <2>2. PICK txns, none, ends : /\ txns = Append(front.trace.txns, entry) /\ none = <<>>
                                  /\ ends = Append(front.trace.ends, Len(body))
        OBVIOUS
    <2>3. v = [front EXCEPT !.trace.body = body, !.trace.txns = txns, !.trace.ends = ends,
                            !.deps = none]
        BY <1>4, <2>1, <2>2, Zenon DEF Written
    <2> HIDE DEF v
    <2>4. /\ HasParts(v) /\ v.stage = w.stage /\ v.pending = w.pending
          /\ v.written = w.written /\ v.deps = none /\ v.trace.header = w.trace.header
          /\ v.trace.clocks = w.trace.clocks /\ v.trace.txns = txns
        BY <1>1, <2>3 DEF HasParts
    <2>5. DepsKnown(v.deps, w.trace.clocks)
        BY <2>2, <2>4, NoDeps, Zenon
    <2>6. UsedClocks(entry) \subseteq Declared(w.trace.clocks)
        BY <1>4, <2>1, ClocksOfUsed, Zenon
    <2>7. /\ IsSeq(txns)
          /\ \A k \in 1 .. Len(txns) :
                 \/ txns[k] = entry
                 \/ k \in 1 .. Len(w.trace.txns) /\ txns[k] = w.trace.txns[k]
        <3>1. PICK old, n : old = w.trace.txns /\ n = Len(old)
            OBVIOUS
        <3>2. /\ IsSeq(txns) /\ Len(txns) = n + 1 /\ txns[n + 1] = entry /\ n \in Nat
              /\ \A k \in 1 .. n : txns[k] = old[k]
            BY <1>2, <2>2, <3>1, AppendFacts, SeqFacts
        <3>3. \A k \in 1 .. Len(txns) : k = n + 1 \/ k \in 1 .. n
            BY <3>2
        <3> QED BY <3>1, <3>2, <3>3, Zenon
    <2>8. \A k \in 1 .. Len(txns) : UsedClocks(txns[k]) \subseteq Declared(w.trace.clocks)
        BY <1>3, <2>6, <2>7, Zenon DEF StageOK
    <2>9. WriterInv(v, reg)
        BY <1>4, <2>4, <2>5, <2>7, <2>8, BodyKeeps, Zenon
    <2> QED BY <2>4, <2>9, Zenon DEF v
<1>5. CASE ~HasProtocol(w.trace.header)
    <2>1. PICK body : body = front.trace.body \o TransactionHead(txn)
        OBVIOUS
    <2>2. v = [front EXCEPT !.trace.body = body]
        BY <1>5, <2>1, Zenon DEF Written
    <2> HIDE DEF v
    <2>3. /\ HasParts(v) /\ v.stage = w.stage /\ v.pending = w.pending
          /\ v.written = w.written /\ v.trace.header = w.trace.header
          /\ v.trace.clocks = w.trace.clocks /\ v.trace.txns = w.trace.txns
        BY <1>1, <2>2 DEF HasParts
    <2>4. WriterInv(v, reg)
        BY <1>2, <1>3, <1>5, <2>3, BodyKeeps, Zenon DEF StageOK
    <2> QED BY <2>3, <2>4, Zenon DEF v
<1> QED BY <1>4, <1>5

LEMMA DependencyKeeps ==
    ASSUME NEW w, NEW reg, WriterInv(w, reg), w.stage = "body", NEW dep,
           dep.clock \in Declared(w.trace.clocks)
    PROVE  WriterInv(WithDependency(w, dep), reg)
<1> DEFINE v == WithDependency(w, dep)
<1>1. HasParts(w) /\ IsSeq(w.trace.txns)
    BY DEF WriterInv, TypesOK
<1>2. StageOK("body", w.written, w.trace.header, w.trace.clocks, w.trace.txns, w.deps)
    BY DEF WriterInv
<1>3. PICK old : old = w.deps
    OBVIOUS
<1>4. PICK body, deps : body = w.trace.body \o DependencyCells(dep) /\ deps = Append(old, dep)
    OBVIOUS
<1>5. v = [w EXCEPT !.trace.body = body, !.deps = deps]
    BY <1>3, <1>4, Zenon DEF WithDependency
<1> HIDE DEF v
<1>6. /\ HasParts(v) /\ v.stage = w.stage /\ v.pending = w.pending
      /\ v.written = w.written /\ v.deps = deps /\ v.trace.header = w.trace.header
      /\ v.trace.clocks = w.trace.clocks /\ v.trace.txns = w.trace.txns
    BY <1>1, <1>5 DEF HasParts
<1>7. ASSUME HasProtocol(w.trace.header) PROVE DepsKnown(deps, w.trace.clocks)
    <2>1. DepsKnown(old, w.trace.clocks)
        BY <1>2, <1>3, <1>7, Zenon DEF StageOK
    <2>2. PICK n : n = Len(old)
        OBVIOUS
    <2>3. /\ IsSeq(deps) /\ Len(deps) = n + 1 /\ deps[n + 1] = dep /\ n \in Nat
          /\ \A k \in 1 .. n : deps[k] = old[k]
        BY <1>4, <2>1, <2>2, AppendFacts, SeqFacts DEF DepsKnown
    <2>4. \A k \in 1 .. Len(deps) : k = n + 1 \/ k \in 1 .. n
        BY <2>3
    <2> QED BY <2>1, <2>2, <2>3, <2>4, Zenon DEF DepsKnown
<1>8. WriterInv(v, reg)
    BY <1>1, <1>2, <1>6, <1>7, BodyKeeps, Zenon DEF StageOK
<1> QED BY <1>8 DEF v

\* Cells alone change nothing.
LEMMA CellsKeep ==
    ASSUME NEW w, NEW reg, WriterInv(w, reg), w.stage = "body", NEW body
    PROVE  /\ WriterInv([w EXCEPT !.trace.body = body], reg)
           /\ [w EXCEPT !.trace.body = body].stage = "body"
<1> DEFINE v == [w EXCEPT !.trace.body = body]
<1>1. HasParts(w) /\ IsSeq(w.trace.txns)
    BY DEF WriterInv, TypesOK
<1>2. /\ HasParts(v) /\ v.stage = w.stage /\ v.pending = w.pending
      /\ v.written = w.written /\ v.deps = w.deps /\ v.trace.header = w.trace.header
      /\ v.trace.clocks = w.trace.clocks /\ v.trace.txns = w.trace.txns
    BY <1>1 DEF HasParts
<1> HIDE DEF v
<1>3. StageOK("body", w.written, w.trace.header, w.trace.clocks, w.trace.txns, w.deps)
    BY DEF WriterInv
<1>4. WriterInv(v, reg)
    BY <1>1, <1>2, <1>3, BodyKeeps, Zenon DEF StageOK
<1> QED BY <1>2, <1>4 DEF v

LEMMA CopiedItemKeeps ==
    ASSUME NEW w, NEW reg, WriterInv(w, reg), w.stage = "body", NEW item,
           ClocksOf(item.txn, item.deps) \subseteq Declared(w.trace.clocks)
    PROVE  WriterInv(CopiedItem(w, item), reg)
<1> DEFINE behind == IF HasProtocol(w.trace.header)
                     THEN FlattenSeq([k \in 1 .. Len(item.deps) |-> DependencyCells(item.deps[k])])
                     ELSE <<>>
           before == FlattenSeq([k \in 1 .. item.comments |-> CommentCells])
           front  == [w EXCEPT !.trace.body = @ \o before, !.deps = item.deps]
<1>1. CopiedItem(w, item) = [Written(front, item.txn) EXCEPT !.trace.body = @ \o behind]
    BY Zenon DEF CopiedItem
<1>2. PICK body, deps : body = w.trace.body \o before /\ deps = item.deps
    OBVIOUS
<1>3. front = [w EXCEPT !.trace.body = body, !.deps = deps]
    BY <1>2, Zenon
<1> HIDE DEF behind, before, front
<1>4. /\ HasParts(front) /\ front.stage = w.stage /\ front.pending = w.pending
      /\ front.written = w.written /\ front.trace.header = w.trace.header
      /\ front.trace.clocks = w.trace.clocks /\ front.trace.txns = w.trace.txns
      /\ front.deps = deps
    <2>1. HasParts(w)
        BY DEF WriterInv
    <2> QED BY <1>3, <2>1 DEF HasParts
<1>5. /\ item.txn.clock \in Declared(w.trace.clocks)
      /\ \A k \in 1 .. Len(item.deps) : item.deps[k].clock \in Declared(w.trace.clocks)
    BY Zenon DEF ClocksOf
<1>6. WriterInv(Written(front, item.txn), reg) /\ Written(front, item.txn).stage = "body"
    <2>1. \A k \in 1 .. Len(front.deps) : front.deps[k].clock \in Declared(w.trace.clocks)
        BY <1>2, <1>4, <1>5, Zenon
    <2>2. PICK f, txn : f = front /\ txn = item.txn
        OBVIOUS
    <2>3. WriterInv(Written(f, txn), reg) /\ Written(f, txn).stage = "body"
        BY <1>4, <1>5, <2>1, <2>2, WrittenKeeps
    <2> QED BY <2>2, <2>3
<1>7. PICK v : v = Written(front, item.txn)
    OBVIOUS
<1>8. PICK cells : cells = v.trace.body \o behind
    OBVIOUS
<1>9. WriterInv([v EXCEPT !.trace.body = cells], reg)
    BY <1>6, <1>7, CellsKeep
<1> QED BY <1>1, <1>7, <1>8, <1>9, Zenon

-----------------------------------------------------------------------------
(* What a writer leaves. *)

LEMMA ClosedStands ==
    ASSUME NEW w, NEW reg, RegistryInv(reg), WriterInv(w, reg), w.trace.txns # <<>>,
           NEW trace, trace.header = w.trace.header, trace.clocks = w.trace.clocks,
           trace.txns = w.trace.txns
    PROVE  Stands(trace)
<1> DEFINE read == Registered(<<>>, trace.header)
<1>1. PICK header, clocks : header = w.trace.header /\ clocks = w.trace.clocks
    OBVIOUS
<1>2. IsSeq(header) /\ Len(header) \in Nat
    BY <1>1, SeqFacts DEF WriterInv, TypesOK
<1>3. BlocksOK(w.pending, w.written, header)
    BY <1>1 DEF WriterInv
<1>4. ClocksOK(w.pending, w.written, header, clocks, reg)
    BY <1>1 DEF WriterInv
<1>5. StageOK(w.stage, w.written, header, clocks, w.trace.txns, w.deps)
    BY <1>1 DEF WriterInv
<1>6. w.stage = "body" /\ HasProtocol(header) /\ "CLOCK_ID" \in w.written /\ Ends(header)
    BY <1>5, Zenon DEF StageOK
<1>7. /\ "PROTOCOL_ID" \in Settings \ {"CLOCK_ID"} /\ "TRACE_INFO" \in Settings \ {"CLOCK_ID"}
      /\ "TRACE_INFO_FEATURE" \in Settings \ {"CLOCK_ID"}
    BY DEF Settings
<1>8. "PROTOCOL_ID" \in w.written
    BY <1>3, <1>6, <1>7, HasProtocolAt, Zenon DEF BlocksOK
<1>9. "TRACE_INFO" \in w.written /\ "TRACE_INFO_FEATURE" \in w.written
    BY <1>3, <1>8, Zenon DEF BlocksOK
<1>10. IsValid(header)
    <2>1. At(header, "TRACE_INFO") # {}
        BY <1>3, <1>7, <1>9, Zenon DEF BlocksOK
    <2>2. PICK i : At(header, "TRACE_INFO_FEATURE") = {i}
        BY <1>3, <1>9, Zenon DEF BlocksOK
    <2>3. Cardinality({i}) = 1
        BY FS_Singleton, Zenon
    <2>4. Cardinality(At(header, "TRACE_INFO_FEATURE")) = 1
        BY <2>2, <2>3, Zenon
    <2> QED BY <1>3, <1>6, <2>1, <2>4, Zenon DEF IsValid, BlocksOK
<1>11. /\ Registered(<<>>, header).ok
       /\ \A clock \in HeaderClocks(header) : Named(Registered(<<>>, header).registry, clock)
    BY <1>2, <1>4, RegisteredAll, Zenon DEF ClocksOK
<1>12. PICK reg2 : reg2 = Registered(<<>>, header).registry
    OBVIOUS
<1>13. \A clock \in ToSet(clocks) : Named(reg2, clock)
    BY <1>4, <1>6, <1>8, <1>11, <1>12, Zenon DEF ClocksOK
<1>14. ASSUME NEW id \in Declared(clocks) PROVE NameOf(reg2, id) = NameOf(clocks, id)
    <2>1. PICK clock \in ToSet(clocks) : id = clock[1]
        BY Zenon DEF Declared
    <2>2. NameOf(reg2, id) = {clock[2]}
        BY <1>13, <2>1, Zenon DEF Named
    <2>3. ASSUME NEW name PROVE name \in NameOf(clocks, id) <=> name = clock[2]
        <3>1. name \in NameOf(clocks, id) <=> \E c \in ToSet(clocks) : c[1] = id /\ c[2] = name
            BY NameIn
        <3>2. ASSUME NEW c \in ToSet(clocks), c[1] = id, c[2] = name PROVE name = clock[2]
            <4>1. NameOf(reg2, id) = {c[2]}
                BY <1>13, <3>2, Zenon DEF Named
            <4>2. c[2] \in {clock[2]}
                BY <2>2, <4>1, Zenon
            <4> QED BY <3>2, <4>2, Zenon
        <3> QED BY <2>1, <3>1, <3>2, Zenon
    <2> QED BY <2>2, <2>3, Zenon
<1>15. \A k \in 1 .. Len(w.trace.txns) : UsedClocks(w.trace.txns[k]) \subseteq Declared(clocks)
    BY <1>5, Zenon DEF StageOK
<1>16. \A k \in 1 .. Len(trace.txns) : \A id \in UsedClocks(trace.txns[k]) :
           NameOf(reg2, id) = NameMeant(trace, id)
    <2>1. trace.txns = w.trace.txns /\ trace.clocks = clocks
        BY <1>1
    <2> QED BY <1>14, <1>15, <2>1, Zenon DEF NameMeant
<1>17. trace.header = header
    BY <1>1
<1> QED BY <1>6, <1>10, <1>11, <1>12, <1>16, <1>17, Zenon DEF Stands

LEMMA StoredKeeps ==
    ASSUME DiskInv(disk), NEW trace, IsSeq(trace.header),
           trace.closed /\ trace.txns # <<>> => Stands(trace)
    PROVE  /\ DiskInv(Stored(trace))
           /\ \A r, from : ReaderInv(r, from, disk) => ReaderInv(r, from, Stored(trace))
<1>1. PICK d : d = disk
    OBVIOUS
<1>2. IsSeq(d)
    BY <1>1, Zenon DEF DiskInv
<1>3. Stored(trace) = d \/ Stored(trace) = Append(d, trace)
    BY <1>1, Zenon DEF Stored
<1>4. CASE Stored(trace) = d
    BY <1>1, <1>4, Zenon
<1>5. CASE Stored(trace) = Append(d, trace)
    <2>1. PICK n, u : n = Len(d) /\ u = Append(d, trace)
        OBVIOUS
    <2>2. /\ IsSeq(u) /\ Len(u) = n + 1 /\ u[n + 1] = trace /\ n \in Nat
          /\ \A k \in 1 .. n : u[k] = d[k]
        BY <1>2, <2>1, AppendFacts, SeqFacts
    <2>3. /\ \A k \in 1 .. Len(u) : k = n + 1 \/ k \in 1 .. n
          /\ \A k \in 1 .. n : k \in 1 .. Len(u)
        BY <2>2
    <2>4. DiskInv(u)
        <3>1. DiskInv(d)
            BY <1>1
        <3>2. ASSUME NEW k \in 1 .. Len(u)
              PROVE  /\ IsSeq(u[k].header)
                     /\ u[k].closed /\ u[k].txns # <<>> => Stands(u[k])
            <4>1. CASE k = n + 1
                BY <2>2, <4>1, Zenon
            <4>2. CASE k \in 1 .. n
                BY <2>1, <2>2, <3>1, <4>2, Zenon DEF DiskInv
            <4> QED BY <2>3, <4>1, <4>2, Zenon
        <3> QED BY <2>2, <3>2, Zenon DEF DiskInv
    <2>5. ASSUME NEW r, NEW from, ReaderInv(r, from, d) PROVE ReaderInv(r, from, u)
        BY <2>1, <2>2, <2>3, <2>5, Zenon DEF ReaderInv
    <2> QED BY <1>1, <1>5, <2>1, <2>4, <2>5, Zenon
<1> QED BY <1>3, <1>4, <1>5

-----------------------------------------------------------------------------
(* Every step keeps the invariant. *)

LEMMA InitInv == Init => IInv
<1> SUFFICES ASSUME Init PROVE IInv
    OBVIOUS
<1>1. RegistryInv(registry)
    BY NothingRegistered DEF Init
<1>2. WriterInv(writer, registry)
    BY FreshWriterInv DEF Init
<1>3. ReaderInv(reader, source, disk)
    <2>1. reader.stage = "closed"
        BY DEF Init, NewReader
    <2> QED BY <2>1 DEF ReaderInv
<1>4. DiskInv(disk)
    <2>1. disk = <<>> /\ 1 .. Len(<<>>) = {}
        BY NothingIsSeq DEF Init
    <2> QED BY <2>1, NothingIsSeq, Zenon DEF DiskInv
<1> QED BY <1>1, <1>2, <1>3, <1>4 DEF IInv

\* A step of the writer alone.
LEMMA WriterSteps ==
    ASSUME IInv, UNCHANGED <<registry, reader, source, disk>>, WriterInv(writer', registry)
    PROVE  IInv'
BY Zenon DEF IInv

LEMMA AddClockKeeps ==
    ASSUME IInv, NEW clock, AddClock(clock) PROVE IInv'
<1>1. PICK reg : reg = RegisterClock(registry, clock)
    OBVIOUS
<1>2. RegistryInv(reg) /\ Grown(registry, reg) /\ Named(reg, clock)
    BY <1>1, RegisterFacts DEF AddClock, IInv
<1>3. WriterInv(writer, reg)
    BY <1>2, RegistryMayGrow DEF IInv
<1> DEFINE more == <<clock>>
<1>4. IsSeq(more) /\ ToSet(more) = {clock}
    BY OneElement
<1>5. WriterInv(WithClocks(writer, <<clock>>), reg)
    <2> HIDE DEF more
    <2>1. \A c \in ToSet(more) : Named(reg, c)
        BY <1>2, <1>4, Zenon
    <2>2. WriterInv(WithClocks(writer, more), reg)
        BY <1>3, <1>4, <2>1, WithClocksKeeps
    <2> QED BY <2>2 DEF more
<1>6. /\ registry' = reg /\ writer' = WithClocks(writer, <<clock>>)
      /\ UNCHANGED <<reader, source, disk>>
    <2> HIDE DEF more
    <2> QED BY <1>1 DEF AddClock
<1> QED BY <1>2, <1>5, <1>6, Zenon DEF IInv

LEMMA FinalizeKeeps ==
    ASSUME IInv, FinalizeHeader PROVE IInv'
<1> DEFINE done == IF AllWritten(writer) THEN [ok |-> TRUE, writer |-> writer] ELSE Flush(writer)
<1>1. /\ writer.stage = "header" /\ UNCHANGED <<registry, reader, source, disk>>
      /\ writer' = IF ~done.ok THEN done.writer
                   ELSE [done.writer EXCEPT !.stage = "body",
                                            !.trace.header = Append(@, Header("END_HEADER", 0))]
    BY Zenon DEF FinalizeHeader
<1>2. WriterInv(writer, registry)
    BY DEF IInv
<1>3. PICK v : v = done.writer
    OBVIOUS
<1>4. WriterInv(v, registry) /\ v.stage = "header" /\ (done.ok => "CLOCK_ID" \in v.written)
    <2>1. CASE AllWritten(writer)
        <3>1. v = writer
            BY <1>3, <2>1
        <3>2. "CLOCK_ID" \in writer.written
            BY <2>1 DEF AllWritten, Settings
        <3> QED BY <1>1, <1>2, <3>1, <3>2, Zenon
    <2>2. CASE ~AllWritten(writer)
        <3>1. done = Flush(writer)
            BY <2>2, Zenon
        <3> QED BY <1>1, <1>2, <1>3, <3>1, FlushKeeps, Zenon
    <2> QED BY <2>1, <2>2
<1> HIDE DEF done
<1>5. CASE ~done.ok
    <2>1. writer' = v
        BY <1>1, <1>3, <1>5, Zenon
    <2> QED BY <1>1, <1>4, <2>1, WriterSteps, Zenon
<1>6. CASE done.ok
    <2>1. writer' = [v EXCEPT !.stage = "body", !.trace.header = Append(@, Header("END_HEADER", 0))]
        BY <1>1, <1>3, <1>6, Zenon
    <2>2. WriterInv([v EXCEPT !.stage = "body",
                              !.trace.header = Append(@, Header("END_HEADER", 0))], registry)
        BY <1>4, <1>6, EndKeeps
    <2> QED BY <1>1, <2>1, <2>2, WriterSteps, Zenon
<1> QED BY <1>5, <1>6

LEMMA CloseKeeps ==
    ASSUME IInv, NEW again \in BOOLEAN, WriterClose(again) PROVE IInv'
<1> DEFINE trace == [writer.trace EXCEPT !.closed = TRUE]
<1>1. /\ disk' = Stored(trace) /\ UNCHANGED <<registry, reader, source>>
      /\ writer' = IF ~again THEN NewWriter
                   ELSE [NewWriter EXCEPT !.pending["CLOCK_ID"] = writer.pending["CLOCK_ID"],
                                          !.written = writer.written \cap {"CLOCK_ID"}]
    BY DEF WriterClose
<1>2. WriterInv(writer, registry) /\ RegistryInv(registry) /\ DiskInv(disk)
    BY DEF IInv
<1>3. /\ trace.header = writer.trace.header /\ trace.clocks = writer.trace.clocks
      /\ trace.txns = writer.trace.txns
    BY <1>2 DEF WriterInv, HasParts
<1> HIDE DEF trace
<1>4. IsSeq(trace.header)
    BY <1>2, <1>3, Zenon DEF WriterInv, TypesOK
<1>5. trace.closed /\ trace.txns # <<>> => Stands(trace)
    BY <1>2, <1>3, ClosedStands, Zenon
<1>6. DiskInv(disk') /\ ReaderInv(reader', source', disk')
    BY <1>1, <1>2, <1>4, <1>5, StoredKeeps, Zenon DEF IInv
<1>7. WriterInv(writer', registry)
    <2>1. CASE ~again
        BY <1>1, <2>1, FreshWriterInv, Zenon
    <2>2. CASE again
        <3>1. PICK clocks, written : /\ clocks = writer.pending["CLOCK_ID"]
                                     /\ written = writer.written \cap {"CLOCK_ID"}
            OBVIOUS
        <3>2. IsSeq(clocks)
            <4>1. "CLOCK_ID" \in Settings
                BY DEF Settings
            <4> QED BY <1>2, <3>1, <4>1, Zenon DEF WriterInv, TypesOK
        <3>3. \A clock \in ToSet(clocks) : Named(registry, clock)
            BY <1>2, <3>1, Zenon DEF WriterInv, ClocksOK
        <3>4. written \subseteq {"CLOCK_ID"}
            BY <3>1
        <3>5. writer' = [NewWriter EXCEPT !.pending["CLOCK_ID"] = clocks, !.written = written]
            BY <1>1, <2>2, <3>1, Zenon
        <3> QED BY <3>2, <3>3, <3>4, <3>5, UsedWriterInv, Zenon
    <2> QED BY <2>1, <2>2
<1> QED BY <1>1, <1>2, <1>6, <1>7, Zenon DEF IInv

LEMMA RestartKeeps ==
    ASSUME IInv, Restart PROVE IInv'
<1>1. PICK records \in 0 .. Len(writer.trace.header),
           cells \in Kept(writer.trace) .. Len(writer.trace.body) :
               disk' = Stored(CutAt(writer.trace, records, cells))
    BY Zenon DEF Restart
<1>2. registry' = <<>> /\ writer' = NewWriter /\ reader' = NewReader
    BY DEF Restart
<1>3. PICK old, trace : old = writer.trace /\ trace = CutAt(old, records, cells)
    OBVIOUS
<1>4. IsSeq(old.header) /\ DOMAIN old = {"header", "body", "closed", "clocks", "txns", "ends"}
      /\ old.closed = FALSE
    BY <1>3, Zenon DEF IInv, WriterInv, TypesOK, HasParts
<1>5. trace.header = SubSeq(old.header, 1, records) /\ trace.closed = FALSE
    BY <1>3, <1>4 DEF CutAt
<1>6. IsSeq(trace.header)
    <2>1. PICK header, S : header = old.header /\ S = ToSet(header)
        OBVIOUS
    <2>2. header \in Seq(S)
        BY <1>4, <2>1, Zenon DEF IsSeq
    <2>3. records \in 0 .. Len(header)
        BY <1>3, <2>1
    <2>4. SubSeq(header, 1, records) \in Seq(S)
        BY <2>2, <2>3
    <2> QED BY <1>5, <2>1, <2>4, SeqOfIsSeq
<1>7. DiskInv(disk')
    BY <1>1, <1>3, <1>5, <1>6, StoredKeeps, Zenon DEF IInv
<1>8. ReaderInv(reader', source', disk')
    <2>1. NewReader.stage = "closed"
        BY DEF NewReader
    <2>2. reader'.stage # "open"
        BY <1>2, <2>1
    <2> QED BY <2>2 DEF ReaderInv
<1>9. RegistryInv(registry') /\ WriterInv(writer', registry')
    BY <1>2, NothingRegistered, FreshWriterInv, Zenon
<1> QED BY <1>7, <1>8, <1>9, Zenon DEF IInv

\* A header a process can read was stored as a sequence.
LEMMA CopyKeeps ==
    ASSUME IInv, CopyHeader PROVE IInv'
<1>1. PICK clocks \in DumpClocks(registry) :
          writer' = WithClocks(Copied(writer, disk[source].header), clocks)
    BY Zenon DEF CopyHeader
<1>2. reader.stage = "open" /\ UNCHANGED <<registry, reader, source, disk>>
    BY DEF CopyHeader
<1>3. PICK header : header = disk[source].header
    OBVIOUS
<1>4. IsSeq(header) /\ IsValid(header)
    BY <1>2, <1>3, Zenon DEF IInv, ReaderInv, DiskInv
<1>5. PICK w : w = Copied(writer, header)
    OBVIOUS
<1>6. WriterInv(w, registry)
    BY <1>4, <1>5, CopiedKeeps DEF IInv
<1>7. PICK n : n = Len(registry)
    OBVIOUS
<1>8. n \in Nat
    BY <1>7, SeqFacts DEF IInv, RegistryInv
<1>9. clocks \in [1 .. n -> ToSet(registry)] /\ ToSet(clocks) = ToSet(registry)
    BY <1>1, <1>7, Zenon DEF DumpClocks, IsDump
<1>10. IsSeq(clocks)
    <2>1. DOMAIN clocks = 1 .. n /\ clocks = [i \in 1 .. n |-> clocks[i]]
        BY <1>9, Zenon
    <2> QED BY <1>8, <2>1, FunctionIsSeq
<1>11. \A clock \in ToSet(clocks) : Named(registry, clock)
    BY <1>9, Zenon DEF IInv, RegistryInv
<1>12. WriterInv(WithClocks(w, clocks), registry)
    BY <1>6, <1>10, <1>11, WithClocksKeeps
<1> QED BY <1>1, <1>2, <1>3, <1>5, <1>12, WriterSteps, Zenon

LEMMA ReaderOpenKeeps ==
    ASSUME IInv, NEW t \in 1 .. Len(disk), ReaderOpen(t) PROVE IInv'
<1>1. PICK header, read : header = disk[t].header /\ read = Registered(registry, header)
    OBVIOUS
<1>2. /\ registry' = read.registry /\ source' = t /\ UNCHANGED <<writer, disk>>
      /\ reader' = [NewReader EXCEPT !.stage = IF read.ok /\ IsValid(header)
                                                THEN "open" ELSE "refused"]
    BY <1>1, Zenon DEF ReaderOpen
<1>3. IsSeq(header) /\ Len(header) \in Nat
    <2>1. IsSeq(header)
        BY <1>1, Zenon DEF IInv, DiskInv
    <2> QED BY <2>1, SeqFacts
<1>4. Sound(read, registry)
    BY <1>1, <1>3, RegisteredSound DEF IInv
<1>5. RegistryInv(registry') /\ WriterInv(writer', registry')
    <2>1. RegistryInv(read.registry) /\ WriterInv(writer, read.registry)
        BY <1>4, RegistryMayGrow, Zenon DEF Sound, IInv
    <2> QED BY <1>2, <2>1, Zenon
<1>6. ReaderInv(reader', source', disk')
    <2>1. reader'.stage = IF read.ok /\ IsValid(header) THEN "open" ELSE "refused"
        BY <1>2 DEF NewReader
    <2>2. reader'.stage = "open" => IsValid(header)
        <3>1. "refused" # "open"
            OBVIOUS
        <3> QED BY <2>1, <3>1, Zenon
    <2> QED BY <1>1, <1>2, <2>2, Zenon DEF ReaderInv
<1> QED BY <1>2, <1>5, <1>6, Zenon DEF IInv

LEMMA NextInv == IInv /\ [Next]_vars => IInv'
<1> SUFFICES ASSUME IInv, [Next]_vars PROVE IInv'
    OBVIOUS
<1>1. WriterInv(writer, registry)
    BY DEF IInv
<1>2. ASSUME NEW settings \in Setups, SetUp(settings) PROVE IInv'
    <2>1. settings \subseteq Settings \ {"CLOCK_ID"}
        BY SetupsAreSettings DEF SetupsAssumption
    <2>2. WriterInv([writer EXCEPT !.pending = [s \in Settings |->
                        IF s \in settings THEN Setting(s) ELSE @[s]]], registry)
        BY <1>1, <2>1, SetUpKeeps
    <2> QED BY <1>2, <2>2, WriterSteps, Zenon DEF SetUp
<1>3. ASSUME NEW clock \in Clocks, AddClock(clock) PROVE IInv'
    BY <1>3, AddClockKeeps
<1>4. CASE WriterOpen
    <2>1. WriterInv([writer EXCEPT !.stage = "header", !.trace.header =
                         <<Header("IDENTIFIER", 0), Header("VERSION", 0)>>], registry)
        BY <1>1, <1>4, OpenKeeps DEF WriterOpen
    <2>2. /\ writer' = [writer EXCEPT !.stage = "header", !.trace.header =
                            <<Header("IDENTIFIER", 0), Header("VERSION", 0)>>]
          /\ UNCHANGED <<registry, reader, source, disk>>
        BY <1>4 DEF WriterOpen
    <2>3. WriterInv(writer', registry)
        BY <2>1, <2>2
    <2> QED BY <2>2, <2>3, WriterSteps, Zenon
<1>5. CASE FlushHeader
    <2>1. WriterInv(Flush(writer).writer, registry)
        BY <1>1, <1>5, FlushKeeps DEF FlushHeader
    <2> QED BY <1>5, <2>1, WriterSteps, Zenon DEF FlushHeader
<1>6. CASE FinalizeHeader
    BY <1>6, FinalizeKeeps
<1>7. ASSUME NEW again \in BOOLEAN, WriterClose(again) PROVE IInv'
    BY <1>7, CloseKeeps
<1>8. ASSUME NEW clock \in ClockNumbers, WriteTransaction(clock) PROVE IInv'
    <2>1. PICK txn : txn = Transaction(ids + 1, clock, Payloads[(ids % Len(Payloads)) + 1])
        OBVIOUS
    <2>2. txn.clock = clock
        BY <2>1 DEF Transaction
    <2>3. /\ writer.stage = "body" /\ clock \in Declared(writer.trace.clocks)
          /\ writer' = Written(writer, txn) /\ UNCHANGED <<registry, reader, source, disk>>
        BY <1>8, <2>1, Zenon DEF WriteTransaction, MayWrite
    <2>4. HasProtocol(writer.trace.header)
              => \A k \in 1 .. Len(writer.deps) :
                     writer.deps[k].clock \in Declared(writer.trace.clocks)
        BY <1>1, Zenon DEF WriterInv, StageOK, DepsKnown
    <2>5. HasParts(writer)
        BY <1>1 DEF WriterInv
    <2>6. WriterInv(Written(writer, txn), registry)
        BY <1>1, <2>2, <2>3, <2>4, <2>5, WrittenKeeps, Zenon
    <2> QED BY <2>3, <2>6, WriterSteps, Zenon
<1>9. ASSUME NEW dep \in Dependencies, WriteDependency(dep) PROVE IInv'
    <2>1. WriterInv(WithDependency(writer, dep), registry)
        BY <1>1, <1>9, DependencyKeeps, Zenon DEF WriteDependency, MayWrite
    <2> QED BY <1>9, <2>1, WriterSteps, Zenon DEF WriteDependency
<1>10. CASE WriteComment
    <2>1. PICK body : body = writer.trace.body \o CommentCells
        OBVIOUS
    <2>2. WriterInv([writer EXCEPT !.trace.body = body], registry)
        BY <1>1, <1>10, CellsKeep DEF WriteComment, MayWrite
    <2>3. /\ writer' = [writer EXCEPT !.trace.body = body]
          /\ UNCHANGED <<registry, reader, source, disk>>
        BY <1>10, <2>1, Zenon DEF WriteComment
    <2> QED BY <2>2, <2>3, WriterSteps, Zenon
<1>11. ASSUME NEW t \in 1 .. Len(disk), ReaderOpen(t) PROVE IInv'
    BY <1>11, ReaderOpenKeeps
<1>12. ASSUME NEW is_new \in BOOLEAN, ReaderRead(is_new) PROVE IInv'
    <2>1. reader.stage = "open" /\ UNCHANGED <<registry, writer, source, disk>>
        BY <1>12, Zenon DEF ReaderRead
    <2>2. ReaderInv(reader', source', disk')
        BY <2>1, Zenon DEF IInv, ReaderInv
    <2> QED BY <2>1, <2>2, Zenon DEF IInv
<1>13. CASE ReaderClose
    <2>1. reader'.stage # "open"
        BY <1>13 DEF ReaderClose, NewReader
    <2>2. UNCHANGED <<registry, writer, disk>>
        BY <1>13, Zenon DEF ReaderClose
    <2> QED BY <2>1, <2>2, Zenon DEF IInv, ReaderInv
<1>14. CASE CopyHeader
    BY <1>14, CopyKeeps
<1>15. CASE CopyTransaction
    <2>1. PICK item : item = reader.items[Len(reader.items)]
        OBVIOUS
    <2>2. /\ writer.stage = "body" /\ UNCHANGED <<registry, reader, source, disk>>
          /\ ClocksOf(item.txn, item.deps) \subseteq Declared(writer.trace.clocks)
          /\ writer' = CopiedItem(writer, item)
        BY <1>15, <2>1, Zenon DEF CopyTransaction, MayWrite
    <2>3. WriterInv(CopiedItem(writer, item), registry)
        BY <1>1, <2>2, CopiedItemKeeps
    <2> QED BY <2>2, <2>3, WriterSteps, Zenon
<1>16. CASE Restart
    BY <1>16, RestartKeeps
<1>17. CASE UNCHANGED vars
    <2>1. UNCHANGED <<registry, writer, reader, source, disk>>
        BY <1>17 DEF vars
    <2> QED BY <2>1, Zenon DEF IInv
<1> QED
    BY <1>2, <1>3, <1>4, <1>5, <1>6, <1>7, <1>8, <1>9, <1>10, <1>11, <1>12, <1>13, <1>14,
       <1>15, <1>16, <1>17, Zenon DEF Next

LEMMA InvImplies == IInv => TracesStandAlone
<1> SUFFICES ASSUME IInv PROVE TracesStandAlone
    OBVIOUS
<1>1. \A t \in 1 .. Len(disk) : disk[t].closed /\ disk[t].txns # <<>> => Stands(disk[t])
    BY Zenon DEF IInv, DiskInv
<1> QED BY <1>1, Zenon DEF TracesStandAlone, Stands

\* Every closed trace with transactions stands alone: a process that knows no clock
\* accepts its header, and learns from it the names of all clocks its transactions
\* and their dependencies use, whatever flushes, copies and earlier traces came
\* before (flushHeader, finalizeHeader, close, copyHeader, readHeader_).
THEOREM TracesStand == Spec => []TracesStandAlone
BY InitInv, NextInv, InvImplies, PTL DEF Spec
=============================================================================
