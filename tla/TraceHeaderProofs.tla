-------------------------- MODULE TraceHeaderProofs --------------------------
(***************************************************************************)
(* Proofs about TraceHeader, for any number of files and of records that   *)
(* callers write into them, whatever those are.                            *)
(*                                                                         *)
(* A flush is a chain of blocks on a state of the writer that an assertion *)
(* may stop anywhere: WorkOK says what each block keeps, and Grows how it  *)
(* changes that state: a flag that goes up has the record of its setting.  *)
(* HeaderOK relates the records of the header to the flags of those that   *)
(* were written.                                                           *)
(***************************************************************************)
EXTENDS TraceHeader, TLAPS

Rec == [rec : DOMAIN Encoded, for : 1..MaxFiles, holds : SUBSET AllValues, raw : BOOLEAN]

\* A header, without its end, of which the flags in w are up.
HeaderOK(t, w) ==
    /\ Len(t) >= 2 /\ t[1].rec = "identifier" /\ t[2].rec = "version"
    /\ \A i \in 1..Len(t) : t[i].rec # "end"
    /\ \A i \in 3..Len(t) : ~t[i].raw => t[i].rec \in w
    /\ \A i, j \in 3..Len(t) : ~t[i].raw /\ ~t[j].raw /\ t[i].rec = t[j].rec => i = j
    /\ \A s \in w \ {"pid"} : \E i \in 3..Len(t) : t[i].rec = s
    /\ "pc" \in w => {"isa", "iem", "info", "feature"} \subseteq w

\* What is set, but for the process id, was set for this file.
SetForFile(c) == \A s \in Settings \ {"pid"} : c[s] = Null \/ c[s].for = file
WrittenForFile(t) == \A i \in 1..Len(t) : t[i].rec # "pid" => t[i].for = file

\* A trace whose header ends at k.
EndsAt(t, k) ==
    /\ k \in 3..Len(t) /\ t[k].rec = "end"
    /\ \A i \in 1..Len(t) : t[i].rec = "end" => i = k

BodyOK(t, w) == \E k \in Nat : EndsAt(t, k) /\ HeaderOK(SubSeq(t, 1, k - 1), w)

Inv ==
    /\ TypeOK
    /\ SetForFile(configured) /\ WrittenForFile(trace)
    /\ phase = "closed" => written \subseteq {"pid"} /\ trace = <<>>
    /\ phase = "header" => HeaderOK(trace, written)
    /\ phase = "body" => BodyOK(trace, written)

-----------------------------------------------------------------------------
(* Records and traces. *)

LEMMA SettingsEncoded == Settings \subseteq DOMAIN Encoded /\ "end" \notin Settings
BY DEF Settings, Encoded

LEMMA AppendFacts ==
    ASSUME NEW t \in Seq(Rec), NEW r \in Rec
    PROVE  /\ Append(t, r) \in Seq(Rec)
           /\ Len(Append(t, r)) = Len(t) + 1
           /\ \A i \in 1..Len(t) : Append(t, r)[i] = t[i]
           /\ Append(t, r)[Len(t) + 1] = r
OBVIOUS

LEMMA RecordFacts ==
    ASSUME NEW rec \in DOMAIN Encoded, NEW handle \in Handles \ {Null}, NEW raw \in BOOLEAN
    PROVE  /\ Record(rec, handle, raw) \in Rec
           /\ Record(rec, handle, raw).rec = rec
           /\ Record(rec, handle, raw).for = handle.for
BY DEF Handles, Record, Rec

LEMMA BlankFacts ==
    ASSUME file \in 1..MaxFiles
    PROVE  Blank \in Handles \ {Null} /\ Blank.for = file
<1>1. Blank.for = file /\ Null.for = 0 /\ file # 0
    BY HeaderAssumption DEF Blank, Null
<1>2. Blank \in Handles
    BY DEF Blank, Handles
<1> QED
    BY <1>1, <1>2

\* A value more does not change the file a setting is for.
LEMMA ExtendedFacts ==
    ASSUME file \in 1..MaxFiles, NEW h \in Handles, NEW v \in AllValues
    PROVE  /\ Made(v) \in Handles \ {Null} /\ Made(v).for = file
           /\ Extended(h, v) \in Handles \ {Null}
           /\ Extended(h, v).for = IF h = Null THEN file ELSE h.for
<1>1. Null.for = 0 /\ file # 0
    BY HeaderAssumption DEF Null
<1>2. Made(v) \in Handles /\ Made(v).for = file
    BY DEF Made, Handles
<1>3. Made(v) # Null
    BY <1>1, <1>2
<1>4. CASE h = Null
    BY <1>2, <1>3, <1>4 DEF Extended
<1>5. CASE h # Null
    <2>1. h \in [for : 1..MaxFiles, holds : SUBSET AllValues]
        BY <1>5 DEF Handles
    <2> DEFINE x == [h EXCEPT !.holds = h.holds \cup {v}]
    <2>2. x \in [for : 1..MaxFiles, holds : SUBSET AllValues] /\ x.for = h.for
        BY <2>1
    <2>3. Extended(h, v) = x
        BY <1>5 DEF Extended
    <2>4. h.for # 0
        BY <2>1, HeaderAssumption
    <2> HIDE DEF x
    <2> QED
        BY <1>1, <1>2, <1>3, <1>5, <2>2, <2>3, <2>4 DEF Handles
<1> QED
    BY <1>4, <1>5

\* A record more takes none away.
LEMMA AppendIsIn ==
    ASSUME NEW t \in Seq(Rec), NEW r \in Rec
    PROVE  /\ \A s, h : IsIn(t, s, h) => IsIn(Append(t, r), s, h)
           /\ \A s, h : r = Record(s, h, FALSE) => IsIn(Append(t, r), s, h)
<1> DEFINE u == Append(t, r)
           n == Len(t)
<1>1. /\ \A i \in 1..n : u[i] = t[i] /\ i \in DOMAIN u
      /\ u[n + 1] = r /\ n + 1 \in DOMAIN u /\ DOMAIN t = 1..n
    BY AppendFacts
<1> HIDE DEF u, n
<1>2. \A s, h : IsIn(t, s, h) => IsIn(u, s, h)
    BY <1>1, Zenon DEF IsIn
<1>3. \A s, h : r = Record(s, h, FALSE) => IsIn(u, s, h)
    BY <1>1, Zenon DEF IsIn
<1> QED
    BY <1>2, <1>3 DEF u

\* A record that flushHeader() writes, with its flag.
LEMMA HeaderGrows ==
    ASSUME NEW t \in Seq(Rec), NEW w \in SUBSET Settings, HeaderOK(t, w),
           NEW s \in Settings \ w, NEW r \in Rec, r.rec = s, r.raw = FALSE,
           s = "pc" => {"isa", "iem", "info", "feature"} \subseteq w
    PROVE  HeaderOK(Append(t, r), w \cup {s})
<1> DEFINE u == Append(t, r)
           n == Len(t)
<1>1. /\ Len(u) = n + 1 /\ \A i \in 1..n : u[i] = t[i]
      /\ u[n + 1] = r /\ n \in Nat /\ n >= 2
    BY AppendFacts DEF HeaderOK
<1>2. \A i \in 3..n : u[i] = t[i]
    BY <1>1
<1> HIDE DEF u, n
<1>3. n = Len(t)
    BY DEF n
<1>4. Len(u) >= 2 /\ u[1].rec = "identifier" /\ u[2].rec = "version"
    BY <1>1, <1>3 DEF HeaderOK
<1>5. \A i \in 1..Len(u) : u[i].rec # "end"
    BY <1>1, <1>3, SettingsEncoded DEF HeaderOK
<1>6. \A i \in 3..Len(u) : i = n + 1 \/ i \in 3..n
    BY <1>1
<1>7. \A i \in 3..Len(u) : ~u[i].raw => u[i].rec \in w \cup {s}
    BY <1>1, <1>2, <1>3, <1>6 DEF HeaderOK
<1>8. \A i, j \in 3..Len(u) : ~u[i].raw /\ ~u[j].raw /\ u[i].rec = u[j].rec => i = j
    <2>1. \A i \in 3..n : ~u[i].raw => u[i].rec # s
        BY <1>2, <1>3 DEF HeaderOK
    <2> QED
        BY <1>1, <1>2, <1>3, <1>6, <2>1 DEF HeaderOK
<1>9. \A x \in (w \cup {s}) \ {"pid"} : \E i \in 3..Len(u) : u[i].rec = x
    <2>1. n + 1 \in 3..Len(u) /\ \A i \in 3..n : i \in 3..Len(u)
        BY <1>1
    <2> QED
        BY <1>1, <1>2, <1>3, <2>1 DEF HeaderOK
<1>10. "pc" \in w \cup {s} => {"isa", "iem", "info", "feature"} \subseteq w \cup {s}
    BY DEF HeaderOK
<1> QED
    BY <1>4, <1>5, <1>7, <1>8, <1>9, <1>10 DEF HeaderOK, u

\* A record of the caller's.
LEMMA HeaderTakesRaw ==
    ASSUME NEW t \in Seq(Rec), NEW w \in SUBSET Settings, HeaderOK(t, w),
           NEW r \in Rec, r.rec # "end", r.raw = TRUE
    PROVE  HeaderOK(Append(t, r), w)
<1> DEFINE u == Append(t, r)
           n == Len(t)
<1>1. /\ Len(u) = n + 1 /\ \A i \in 1..n : u[i] = t[i]
      /\ u[n + 1] = r /\ n \in Nat /\ n >= 2
    BY AppendFacts DEF HeaderOK
<1>2. \A i \in 3..n : u[i] = t[i]
    BY <1>1
<1> HIDE DEF u, n
<1>3. n = Len(t)
    BY DEF n
<1>4. \A i \in 3..Len(u) : i = n + 1 \/ i \in 3..n
    BY <1>1
<1>5. \A i \in 3..n : i \in 3..Len(u)
    BY <1>1
<1> QED
    BY <1>1, <1>2, <1>3, <1>4, <1>5 DEF HeaderOK, u

-----------------------------------------------------------------------------
(* A flush. *)

WorkType ==
    [configured : [Settings -> Handles], written : SUBSET Settings,
     last : DOMAIN Encoded, after : {"none", "eventGroup", "walk", "reg"},
     trace : Seq(Rec), ok : BOOLEAN]

WorkOK(w) ==
    /\ w \in WorkType
    /\ SetForFile(w.configured) /\ WrittenForFile(w.trace)
    /\ HeaderOK(w.trace, w.written)

Grows(w, v) ==
    /\ v.ok => w.ok
    /\ w.written \subseteq v.written
    /\ \A s \in Settings : w.configured[s] # Null => v.configured[s] = w.configured[s]
    /\ \A s \in Settings : s \in v.written /\ s \notin w.written =>
          v.configured[s] # Null /\ IsIn(v.trace, s, v.configured[s])
    /\ \A s, h : IsIn(w.trace, s, h) => IsIn(v.trace, s, h)

LEMMA FlagAfterType ==
    ASSUME NEW prev, NEW rec PROVE FlagAfter(prev, rec) \in {"none", "eventGroup", "walk", "reg"}
BY DEF FlagAfter

LEMMA EmitWorks ==
    ASSUME file \in 1..MaxFiles, NEW w, WorkOK(w), NEW s \in Settings, s \notin w.written,
           w.configured[s] # Null, Needs(s) \subseteq w.written
    PROVE  WorkOK(Emit(w, s)) /\ Grows(w, Emit(w, s)) /\ s \in Emit(w, s).written
<1> DEFINE r == Record(s, w.configured[s], FALSE)
           v == Emit(w, s)
<1>1. r \in Rec /\ r.rec = s /\ r.raw = FALSE /\ r.for = w.configured[s].for
    <2>1. w.configured[s] \in Handles \ {Null} /\ s \in DOMAIN Encoded
        BY SettingsEncoded DEF WorkOK, WorkType
    <2>2. r \in Rec /\ r.rec = s /\ r.for = w.configured[s].for
        BY <2>1, RecordFacts
    <2>3. r.raw = FALSE
        BY DEF Record
    <2> QED
        BY <2>2, <2>3
<1>2. /\ v.configured = w.configured /\ v.written = w.written \cup {s} /\ v.ok = w.ok
      /\ v.trace = Append(w.trace, r) /\ v.last = s /\ v.after = FlagAfter(w.last, s)
      /\ v = [configured |-> v.configured, written |-> v.written, last |-> v.last,
              after |-> v.after, trace |-> v.trace, ok |-> v.ok]
    <2>1. w \in WorkType
        BY DEF WorkOK
    <2>2. v = [w EXCEPT !.written = w.written \cup {s}, !.trace = Append(w.trace, r),
                        !.last = s, !.after = FlagAfter(w.last, s)]
        BY DEF Emit, FlagSet
    <2> HIDE DEF v, r
    <2> QED
        BY <2>1, <2>2 DEF WorkType
<1> HIDE DEF v, r
<1>3. v \in WorkType
    <2>1. v.trace \in Seq(Rec)
        BY <1>1, <1>2, AppendFacts DEF WorkOK, WorkType
    <2>2. v.after \in {"none", "eventGroup", "walk", "reg"}
        BY <1>2, FlagAfterType
    <2> QED
        BY <1>2, <2>1, <2>2, SettingsEncoded DEF WorkOK, WorkType
<1>4. WrittenForFile(v.trace)
    <2>1. w.trace \in Seq(Rec) /\ (r.rec # "pid" => r.for = file)
        BY <1>1 DEF WorkOK, WorkType, SetForFile
    <2>2. /\ Len(v.trace) = Len(w.trace) + 1 /\ v.trace[Len(w.trace) + 1] = r
          /\ \A i \in 1..Len(w.trace) : v.trace[i] = w.trace[i]
          /\ Len(w.trace) \in Nat
        BY <1>1, <1>2, <2>1, AppendFacts DEF WorkOK, WorkType
    <2> QED
        BY <2>1, <2>2 DEF WorkOK, WrittenForFile
<1>5. HeaderOK(v.trace, v.written)
    <2>1. s = "pc" => {"isa", "iem", "info", "feature"} \subseteq w.written
        BY DEF Needs
    <2>2. w.trace \in Seq(Rec) /\ w.written \in SUBSET Settings /\ HeaderOK(w.trace, w.written)
        BY DEF WorkOK, WorkType
    <2>3. HeaderOK(Append(w.trace, r), w.written \cup {s})
        BY <1>1, <2>1, <2>2, HeaderGrows
    <2> QED
        BY <1>2, <2>3
<1>6. SetForFile(v.configured)
    BY <1>2 DEF WorkOK
<1>7. /\ \A x, h : IsIn(w.trace, x, h) => IsIn(v.trace, x, h)
      /\ IsIn(v.trace, s, v.configured[s])
    <2>1. w.trace \in Seq(Rec)
        BY DEF WorkOK, WorkType
    <2>2. r = Record(s, w.configured[s], FALSE)
        BY DEF r
    <2>3. \A x, h : IsIn(w.trace, x, h) => IsIn(Append(w.trace, r), x, h)
        BY <1>1, <2>1, AppendIsIn, Zenon
    <2>4. IsIn(Append(w.trace, r), s, w.configured[s])
        BY <1>1, <2>1, <2>2, AppendIsIn, Zenon
    <2> QED
        BY <1>2, <2>3, <2>4
<1>8. Grows(w, v)
    BY <1>2, <1>7, Zenon DEF Grows
<1> QED
    BY <1>2, <1>3, <1>4, <1>5, <1>6, <1>8 DEF WorkOK, v

LEMMA StopWorks ==
    ASSUME NEW w, WorkOK(w)
    PROVE  WorkOK(Stopped(w)) /\ Grows(w, Stopped(w)) /\ ~Stopped(w).ok
<1> DEFINE v == Stopped(w)
<1>1. /\ v.configured = w.configured /\ v.written = w.written /\ v.trace = w.trace
      /\ v.ok = FALSE /\ v \in WorkType
    BY DEF WorkOK, WorkType, Stopped
<1> HIDE DEF v
<1>2. SetForFile(v.configured) /\ WrittenForFile(v.trace) /\ HeaderOK(v.trace, v.written)
    BY <1>1 DEF WorkOK
<1>3. WorkOK(v) /\ Grows(w, v) /\ ~v.ok
    BY <1>1, <1>2 DEF WorkOK, Grows
<1> QED
    BY <1>3 DEF v

\* A setting for this file, where there was none.
LEMMA SetWorks ==
    ASSUME file \in 1..MaxFiles, NEW w, WorkOK(w), NEW s \in Settings, w.configured[s] = Null
    PROVE  LET v == [w EXCEPT !.configured[s] = Blank]
           IN  /\ WorkOK(v) /\ Grows(w, v) /\ v.ok = w.ok
               /\ v.written = w.written /\ v.configured[s] # Null
<1> DEFINE v == [w EXCEPT !.configured[s] = Blank]
<1>1. w \in WorkType /\ Blank \in Handles \ {Null} /\ Blank.for = file
    BY BlankFacts DEF WorkOK
<1>2. /\ v.configured = [w.configured EXCEPT ![s] = Blank]
      /\ v.written = w.written /\ v.trace = w.trace /\ v.ok = w.ok /\ v \in WorkType
    BY <1>1 DEF WorkType
<1> HIDE DEF v
<1>3. \A x \in Settings : v.configured[x] = IF x = s THEN Blank ELSE w.configured[x]
    BY <1>1, <1>2 DEF WorkType
<1>4. SetForFile(v.configured) /\ WrittenForFile(v.trace) /\ HeaderOK(v.trace, v.written)
    BY <1>1, <1>2, <1>3 DEF WorkOK, SetForFile
<1>5. \A x \in Settings : w.configured[x] # Null => v.configured[x] = w.configured[x]
    BY <1>3
<1>6. Grows(w, v)
    BY <1>2, <1>5, Zenon DEF Grows
<1>7. WorkOK(v) /\ Grows(w, v) /\ v.ok = w.ok /\ v.written = w.written /\ v.configured[s] # Null
    BY <1>1, <1>2, <1>3, <1>4, <1>6 DEF WorkOK
<1> QED
    BY <1>7 DEF v

LEMMA GrowsFacts ==
    /\ \A w : Grows(w, w)
    /\ \A u, v, w : Grows(u, v) /\ Grows(v, w) => Grows(u, w)
<1>1. \A w : Grows(w, w)
    BY Zenon DEF Grows
<1>2. ASSUME NEW u, NEW v, NEW w, Grows(u, v), Grows(v, w) PROVE Grows(u, w)
    <2>1. /\ w.ok => u.ok
          /\ u.written \subseteq w.written
          /\ \A s \in Settings : u.configured[s] # Null => w.configured[s] = u.configured[s]
          /\ \A s, h : IsIn(u.trace, s, h) => IsIn(w.trace, s, h)
        BY <1>2, Zenon DEF Grows
    <2>2. ASSUME NEW s \in Settings, s \in w.written, s \notin u.written
          PROVE  w.configured[s] # Null /\ IsIn(w.trace, s, w.configured[s])
        <3>1. CASE s \in v.written
            <4>1. v.configured[s] # Null /\ IsIn(v.trace, s, v.configured[s])
                BY <1>2, <2>2, <3>1, Zenon DEF Grows
            <4>2. w.configured[s] = v.configured[s] /\ IsIn(w.trace, s, v.configured[s])
                BY <1>2, <4>1, Zenon DEF Grows
            <4> QED
                BY <4>1, <4>2
        <3>2. CASE s \notin v.written
            BY <1>2, <2>2, <3>2, Zenon DEF Grows
        <3> QED
            BY <3>1, <3>2
    <2> QED
        BY <2>1, <2>2, Zenon DEF Grows
<1> QED
    BY <1>1, <1>2

LEMMA MadeWorks ==
    ASSUME file \in 1..MaxFiles, NEW w, WorkOK(w), NEW s \in Settings
    PROVE  LET v == MadeIfMissing(w, s)
           IN  /\ WorkOK(v) /\ Grows(w, v) /\ v.written = w.written
               /\ s = "feature" => v.configured[s] # Null
               /\ s # "feature" => v.configured[s] = w.configured[s]
<1>1. CASE s = "feature" /\ w.configured[s] = Null
    BY <1>1, SetWorks DEF MadeIfMissing
<1>2. CASE ~(s = "feature" /\ w.configured[s] = Null)
    BY <1>2, GrowsFacts DEF MadeIfMissing
<1> QED
    BY <1>1, <1>2

\* A block that does not throw has written its record, or has none.
LEMMA BlockWorks ==
    ASSUME file \in 1..MaxFiles, NEW w, WorkOK(w), NEW s \in Settings
    PROVE  /\ WorkOK(Block(w, s)) /\ Grows(w, Block(w, s))
           /\ Block(w, s).ok => s \in Block(w, s).written \/ w.configured[s] = Null
<1> DEFINE full == MadeIfMissing(w, s)
           isDue == s \notin w.written /\ (s = "feature" \/ w.configured[s] # Null)
           ordered == Needs(s) \subseteq w.written /\ Forbids(s) \cap w.written = {}
           fits == MayFollow(w.last, w.after, s)
<1>1. /\ WorkOK(full) /\ Grows(w, full) /\ full.written = w.written
      /\ isDue => full.configured[s] # Null
    BY MadeWorks
<1> HIDE DEF full, ordered, fits
<1>2. CASE ~w.ok \/ ~isDue
    <2>1. Block(w, s) = w
        BY <1>2 DEF Block, full, ordered, fits
    <2> QED
        BY <1>2, <2>1, GrowsFacts
<1>3. CASE w.ok /\ isDue /\ ~ordered
    <2>1. Block(w, s) = Stopped(w)
        BY <1>3 DEF Block, full, ordered, fits
    <2> QED
        BY <2>1, StopWorks
<1>4. CASE w.ok /\ isDue /\ ordered /\ ~fits
    <2>1. Block(w, s) = Stopped(full)
        BY <1>4 DEF Block, full, ordered, fits
    <2> QED
        BY <1>1, <2>1, StopWorks, GrowsFacts
<1>5. CASE w.ok /\ isDue /\ ordered /\ fits
    <2>1. Block(w, s) = Emit(full, s)
        BY <1>5 DEF Block, full, ordered, fits
    <2>2. s \notin full.written /\ full.configured[s] # Null /\ Needs(s) \subseteq full.written
        BY <1>1, <1>5 DEF ordered
    <2>3. WorkOK(Emit(full, s)) /\ Grows(full, Emit(full, s)) /\ s \in Emit(full, s).written
        BY <1>1, <2>2, EmitWorks
    <2> QED
        BY <1>1, <2>1, <2>3, GrowsFacts
<1> QED
    BY <1>2, <1>3, <1>4, <1>5

\* One more block behind those that took u to w.
LEMMA NextBlock ==
    ASSUME file \in 1..MaxFiles, NEW u, NEW w, NEW S \in SUBSET Settings, NEW s \in Settings,
           WorkOK(w), Grows(u, w),
           w.ok => \A x \in S : x \in w.written \/ u.configured[x] = Null
    PROVE  LET v == Block(w, s)
           IN  /\ WorkOK(v) /\ Grows(u, v)
               /\ v.ok => \A x \in S \cup {s} : x \in v.written \/ u.configured[x] = Null
<1> DEFINE v == Block(w, s)
<1>1. /\ WorkOK(v) /\ Grows(w, v)
      /\ v.ok => s \in v.written \/ w.configured[s] = Null
    BY BlockWorks
<1> HIDE DEF v
<1>2. Grows(u, v)
    BY <1>1, GrowsFacts
<1>3. v.ok => \A x \in S \cup {s} : x \in v.written \/ u.configured[x] = Null
    BY <1>1 DEF Grows
<1>4. /\ WorkOK(v) /\ Grows(u, v)
      /\ v.ok => \A x \in S \cup {s} : x \in v.written \/ u.configured[x] = Null
    BY <1>1, <1>2, <1>3
<1> QED
    BY <1>4 DEF v

\* A flush that does not throw leaves nothing behind that was set.
LEMMA FlushedWorks ==
    ASSUME file \in 1..MaxFiles, NEW w, WorkOK(w)
    PROVE  /\ WorkOK(Flushed(w)) /\ Grows(w, Flushed(w))
           /\ Flushed(w).ok =>
                  \A s \in Settings : s \in Flushed(w).written \/ w.configured[s] = Null
<1> DEFINE Done(v, S) == /\ WorkOK(v) /\ Grows(w, v)
                         /\ v.ok => \A x \in S : x \in v.written \/ w.configured[x] = Null
<1>1. \A v, S, s : S \in SUBSET Settings /\ s \in Settings /\ Done(v, S) => Done(Block(v, s), S \cup {s})
    BY NextBlock
<1>2. Done(w, {})
    BY GrowsFacts
<1> HIDE DEF Done
<1> DEFINE w1 == Block(w, "comment")  w2 == Block(w1, "isa")     w3 == Block(w2, "iem")
           w4 == Block(w3, "info")    w5 == Block(w4, "feature") w6 == Block(w5, "pid")
           w7 == Block(w6, "pc")      w8 == Block(w7, "vlen")    w9 == Block(w8, "ext")
<1>3. Flushed(w) = w9
    BY DEF Flushed, InHeaderOrder, w1, w2, w3, w4, w5, w6, w7, w8, w9
<1> HIDE DEF w1, w2, w3, w4, w5, w6, w7, w8, w9
<1>4. Settings = {"comment", "isa", "iem", "info", "feature", "pid", "pc", "vlen", "ext"}
    BY DEF Settings
<1>5. Done(w1, {"comment"})
    <2>1. Done(w1, {} \cup {"comment"})
        BY <1>1, <1>2, <1>4 DEF w1
    <2> QED
        BY <2>1
<1>6. Done(w2, {"comment"} \cup {"isa"})
    BY <1>1, <1>4, <1>5 DEF w2
<1>7. Done(w3, {"comment"} \cup {"isa"} \cup {"iem"})
    BY <1>1, <1>4, <1>6 DEF w3
<1>8. Done(w4, {"comment"} \cup {"isa"} \cup {"iem"} \cup {"info"})
    BY <1>1, <1>4, <1>7 DEF w4
<1>9. Done(w5, {"comment"} \cup {"isa"} \cup {"iem"} \cup {"info"} \cup {"feature"})
    BY <1>1, <1>4, <1>8 DEF w5
<1>10. Done(w6, {"comment"} \cup {"isa"} \cup {"iem"} \cup {"info"} \cup {"feature"} \cup {"pid"})
    BY <1>1, <1>4, <1>9 DEF w6
<1>11. Done(w7, {"comment"} \cup {"isa"} \cup {"iem"} \cup {"info"} \cup {"feature"} \cup {"pid"}
                    \cup {"pc"})
    BY <1>1, <1>4, <1>10 DEF w7
<1>12. Done(w8, {"comment"} \cup {"isa"} \cup {"iem"} \cup {"info"} \cup {"feature"} \cup {"pid"}
                    \cup {"pc"} \cup {"vlen"})
    BY <1>1, <1>4, <1>11 DEF w8
<1>13. Done(w9, {"comment"} \cup {"isa"} \cup {"iem"} \cup {"info"} \cup {"feature"} \cup {"pid"}
                    \cup {"pc"} \cup {"vlen"} \cup {"ext"})
    BY <1>1, <1>4, <1>12 DEF w9
<1>14. Settings = {"comment"} \cup {"isa"} \cup {"iem"} \cup {"info"} \cup {"feature"} \cup {"pid"}
                    \cup {"pc"} \cup {"vlen"} \cup {"ext"}
    BY <1>4
<1>15. Done(w9, Settings)
    BY <1>13, <1>14
<1> QED
    BY <1>3, <1>15 DEF Done

-----------------------------------------------------------------------------
(* The end of the header. *)

LEMMA SubSeqFacts ==
    ASSUME NEW t \in Seq(Rec), NEW a \in Nat \ {0}, NEW b \in 0..Len(t), a <= b + 1
    PROVE  /\ SubSeq(t, a, b) \in Seq(Rec)
           /\ Len(SubSeq(t, a, b)) = b - a + 1
           /\ \A i \in 1..(b - a + 1) : SubSeq(t, a, b)[i] = t[i + a - 1]
OBVIOUS

LEMMA PrefixStays ==
    ASSUME NEW t \in Seq(Rec), NEW r \in Rec, NEW b \in 0..Len(t)
    PROVE  SubSeq(Append(t, r), 1, b) = SubSeq(t, 1, b)
OBVIOUS

LEMMA EndCloses ==
    ASSUME NEW t \in Seq(Rec), NEW w \in SUBSET Settings, HeaderOK(t, w),
           NEW e \in Rec, e.rec = "end"
    PROVE  LET k == Len(t) + 1
           IN  EndsAt(Append(t, e), k) /\ HeaderOK(SubSeq(Append(t, e), 1, k - 1), w)
<1> DEFINE u == Append(t, e)
<1>1. /\ Len(u) = Len(t) + 1 /\ \A i \in 1..Len(t) : u[i] = t[i]
      /\ u[Len(t) + 1] = e /\ Len(t) \in Nat
    BY AppendFacts
<1>2. SubSeq(u, 1, Len(t)) = t
    OBVIOUS
<1> HIDE DEF u
<1>3. EndsAt(u, Len(t) + 1)
    BY <1>1 DEF EndsAt, HeaderOK
<1>4. Len(t) + 1 - 1 = Len(t)
    BY <1>1
<1>5. EndsAt(u, Len(t) + 1) /\ HeaderOK(SubSeq(u, 1, Len(t) + 1 - 1), w)
    BY <1>2, <1>3, <1>4
<1> QED
    BY <1>5 DEF u

\* A record of the caller's behind the end.
LEMMA BodyTakesRaw ==
    ASSUME NEW t \in Seq(Rec), NEW k \in Nat, EndsAt(t, k),
           NEW r \in Rec, r.rec # "end"
    PROVE  EndsAt(Append(t, r), k) /\ SubSeq(Append(t, r), 1, k - 1) = SubSeq(t, 1, k - 1)
<1>1. SubSeq(Append(t, r), 1, k - 1) = SubSeq(t, 1, k - 1)
    BY PrefixStays DEF EndsAt
<1> DEFINE u == Append(t, r)
<1>2. /\ Len(u) = Len(t) + 1 /\ \A i \in 1..Len(t) : u[i] = t[i]
      /\ u[Len(t) + 1] = r /\ Len(t) \in Nat
    BY AppendFacts
<1> HIDE DEF u
<1>3. EndsAt(u, k)
    BY <1>2 DEF EndsAt
<1> QED
    BY <1>1, <1>3 DEF u

-----------------------------------------------------------------------------
(* The calls. *)

LEMMA WorkWorks ==
    ASSUME Inv, phase = "header" PROVE WorkOK(Work)
<1>1. Work \in WorkType
    BY DEF Inv, TypeOK, WorkType, Work, Rec
<1>2. /\ Work.configured = configured /\ Work.written = written /\ Work.trace = trace
    BY DEF Work
<1> QED
    BY <1>1, <1>2 DEF Inv, WorkOK

\* What finalizeHeader() has made when it is about to write the end.
Finished(d) ==
    /\ phase' = "body"
    /\ configured' = d.configured /\ written' = d.written
    /\ trace' = Append(d.trace, Record("end", Blank, FALSE))
    /\ last' = "end" /\ after' = "none"
    /\ \A s \in Settings \ {"pid", "ext"} : Asked[s] # Null => s \in d.written

\* The settings once setTraceFeature() has been called.
LEMMA AskedFacts ==
    ASSUME Inv
    PROVE  /\ Asked \in [Settings -> Handles] /\ SetForFile(Asked)
           /\ \A s \in Settings : configured[s] # Null => Asked[s] # Null
<1> DEFINE x == Extended(configured["feature"], "EVENT64")
<1>1. /\ configured \in [Settings -> Handles] /\ SetForFile(configured)
      /\ file \in 1..MaxFiles /\ "feature" \in Settings \ {"pid"}
      /\ "EVENT64" \in AllValues
    BY HeaderAssumption DEF Inv, TypeOK, Settings, AllValues
<1>2. /\ x \in Handles \ {Null}
      /\ x.for = IF configured["feature"] = Null THEN file ELSE configured["feature"].for
    BY <1>1, ExtendedFacts
<1>3. x.for = file
    BY <1>1, <1>2 DEF SetForFile
<1>4. Asked = configured \/ Asked = [configured EXCEPT !["feature"] = x]
    BY DEF Asked
<1> HIDE DEF x
<1>5. /\ Asked \in [Settings -> Handles]
      /\ \A s \in Settings : Asked[s] = configured[s] \/ (Asked[s] = x /\ s = "feature")
    BY <1>1, <1>2, <1>4
<1> QED
    BY <1>1, <1>2, <1>3, <1>5 DEF SetForFile

AskedWork == [Work EXCEPT !.configured = Asked]

LEMMA AskedWorks ==
    ASSUME Inv, phase = "header"
    PROVE  /\ WorkOK(AskedWork) /\ AskedWork.configured = Asked
           /\ AskedWork.written = written /\ AskedWork.ok = TRUE
<1>1. Work \in WorkType /\ WorkOK(Work)
    BY WorkWorks DEF WorkOK
<1>2. Work.written = written /\ Work.trace = trace /\ Work.ok = TRUE
    BY DEF Work
<1>3. /\ AskedWork \in WorkType /\ AskedWork.configured = Asked
      /\ AskedWork.written = written /\ AskedWork.trace = trace /\ AskedWork.ok = TRUE
    BY <1>1, <1>2, AskedFacts DEF AskedWork, WorkType
<1> QED
    BY <1>1, <1>2, <1>3, AskedFacts DEF WorkOK

LEMMA FinalizeWorks ==
    ASSUME Inv, FinalizeHeader
    PROVE  \E d : /\ WorkOK(d) /\ Grows(AskedWork, d)
                  /\ Finished(d) \/ (phase' = phase /\ Becomes(d))
<1> DEFINE d == IF AllWritten(AskedWork) THEN AskedWork ELSE Flushed(AskedWork)
<1>1. phase = "header" /\ file \in 1..MaxFiles
    BY DEF FinalizeHeader, Inv, TypeOK
<1>2. /\ WorkOK(AskedWork) /\ Grows(AskedWork, AskedWork)
      /\ AskedWork.configured = Asked
    BY <1>1, AskedWorks, GrowsFacts
<1>3. \/ phase' = phase /\ Becomes(d)
      \/ d.ok /\ phase' = "body"
         /\ Becomes([d EXCEPT !.trace = Append(@, Record("end", Blank, FALSE)),
                              !.last = "end", !.after = "none"])
    BY DEF FinalizeHeader, AskedWork
<1>4. WorkOK(d) /\ Grows(AskedWork, d)
    BY <1>1, <1>2, FlushedWorks
<1>5. d.ok => \A s \in Settings \ {"pid", "ext"} : Asked[s] # Null => s \in d.written
    <2>1. CASE AllWritten(AskedWork)
        <3>1. \A s \in Settings \ {"pid", "ext"} :
                s \in AskedWork.written \/ AskedWork.configured[s] = Null
            BY <2>1 DEF AllWritten, Settings
        <3> QED
            BY <1>2, <2>1, <3>1
    <2>2. CASE ~AllWritten(AskedWork)
        BY <1>1, <1>2, <2>2, FlushedWorks
    <2> QED
        BY <2>1, <2>2
<1> HIDE DEF d
<1>6. CASE phase' = phase /\ Becomes(d)
    BY <1>4, <1>6
<1>7. CASE /\ d.ok /\ phase' = "body"
           /\ Becomes([d EXCEPT !.trace = Append(@, Record("end", Blank, FALSE)),
                                !.last = "end", !.after = "none"])
    <2>1. d \in WorkType
        BY <1>4 DEF WorkOK
    <2>2. /\ configured' = d.configured /\ written' = d.written
          /\ trace' = Append(d.trace, Record("end", Blank, FALSE))
          /\ last' = "end" /\ after' = "none"
        BY <1>7, <2>1 DEF Becomes, WorkType
    <2>3. Finished(d)
        BY <1>5, <1>7, <2>2 DEF Finished
    <2> QED
        BY <1>4, <2>3
<1> QED
    BY <1>3, <1>6, <1>7

-----------------------------------------------------------------------------
(* The invariant. *)

LEMMA InitInv == Init => Inv
<1> SUFFICES ASSUME Init PROVE Inv
    OBVIOUS
<1>1. TypeOK
    BY HeaderAssumption DEF Init, TypeOK, Encoded, Handles
<1>2. SetForFile(configured) /\ WrittenForFile(trace)
    BY DEF Init, SetForFile, WrittenForFile
<1> QED
    BY <1>1, <1>2 DEF Init, Inv

\* What a flush makes of the state, short of the end of the header.
LEMMA BecomesInv ==
    ASSUME Inv, phase = "header", phase' = "header",
           UNCHANGED <<file, force_32bit_events, writes>>,
           NEW d, WorkOK(d), Becomes(d)
    PROVE  Inv'
<1>1. d \in WorkType
    BY DEF WorkOK
<1>2. TypeOK'
    BY <1>1 DEF Inv, TypeOK, Becomes, WorkType, Rec
<1>3. SetForFile(configured)' /\ WrittenForFile(trace)'
    BY DEF Becomes, WorkOK, SetForFile, WrittenForFile
<1>4. HeaderOK(trace, written)'
    BY DEF Becomes, WorkOK
<1> QED
    BY <1>2, <1>3, <1>4 DEF Inv

LEMMA FinishedInv ==
    ASSUME Inv, phase = "header", UNCHANGED <<file, force_32bit_events, writes>>,
           NEW d, WorkOK(d), Finished(d)
    PROVE  Inv'
<1> DEFINE e == Record("end", Blank, FALSE)
           k == Len(d.trace) + 1
<1>1. d \in WorkType /\ d.trace \in Seq(Rec) /\ file \in 1..MaxFiles
    BY DEF WorkOK, WorkType, Inv, TypeOK
<1>2. e \in Rec /\ e.rec = "end" /\ e.for = file
    <2>1. Blank \in Handles \ {Null} /\ Blank.for = file /\ "end" \in DOMAIN Encoded
        BY <1>1, BlankFacts DEF Encoded
    <2> QED
        BY <2>1, RecordFacts
<1>3. trace' = Append(d.trace, e)
    BY DEF Finished
<1>4. d.written \in SUBSET Settings /\ HeaderOK(d.trace, d.written)
    BY <1>1 DEF WorkOK, WorkType
<1> HIDE DEF e
<1>5. EndsAt(trace', k) /\ HeaderOK(SubSeq(trace', 1, k - 1), d.written)
    BY <1>1, <1>2, <1>3, <1>4, EndCloses
<1>6. TypeOK'
    <2>1. trace' \in Seq(Rec)
        BY <1>1, <1>2, <1>3, AppendFacts
    <2>2. "end" \in DOMAIN Encoded
        BY DEF Encoded
    <2> QED
        BY <1>1, <2>1, <2>2 DEF Finished, Inv, TypeOK, WorkType, Rec
<1>7. SetForFile(configured)'
    BY DEF Finished, WorkOK, SetForFile
<1>8. WrittenForFile(trace)'
    <2>1. /\ Len(trace') = Len(d.trace) + 1 /\ trace'[Len(d.trace) + 1] = e
          /\ \A i \in 1..Len(d.trace) : trace'[i] = d.trace[i]
          /\ Len(d.trace) \in Nat
        BY <1>1, <1>2, <1>3, AppendFacts
    <2> QED
        BY <1>2, <2>1 DEF WorkOK, WrittenForFile
<1>9. BodyOK(trace, written)'
    <2>1. k \in Nat
        BY <1>1
    <2> HIDE DEF k
    <2>2. EndsAt(trace', k) /\ HeaderOK(SubSeq(trace', 1, k - 1), written')
        BY <1>5 DEF Finished
    <2> QED
        BY <2>1, <2>2 DEF BodyOK
<1> QED
    BY <1>6, <1>7, <1>8, <1>9 DEF Finished, Inv

\* A setter touches the settings alone.
LEMMA SetInv ==
    ASSUME Inv, configured' \in [Settings -> Handles], SetForFile(configured'),
           force_32bit_events' \in 0..MaxFiles,
           UNCHANGED <<phase, file, written, last, after, trace, writes>>
    PROVE  Inv'
<1>1. TypeOK'
    BY DEF Inv, TypeOK
<1>2. SetForFile(configured)' /\ WrittenForFile(trace)'
    BY DEF Inv, SetForFile, WrittenForFile
<1>3. (phase = "header" => HeaderOK(trace, written))' /\ (phase = "body" => BodyOK(trace, written))'
    BY DEF Inv
<1> QED
    BY <1>1, <1>2, <1>3 DEF Inv

LEMMA SetterInv ==
    ASSUME Inv, NEW s \in Settings, NEW value \in Values[s], Set(s, value)
    PROVE  Inv'
<1> DEFINE x == IF s \in Collected THEN Extended(configured[s], value) ELSE Made(value)
<1>1. /\ configured \in [Settings -> Handles] /\ SetForFile(configured)
      /\ file \in 1..MaxFiles /\ value \in AllValues
      /\ force_32bit_events \in 0..MaxFiles
    BY DEF Inv, TypeOK, AllValues
<1>2. /\ x \in Handles
      /\ x.for = file \/ (configured[s] # Null /\ x.for = configured[s].for)
    BY <1>1, ExtendedFacts
<1>3. /\ configured' = [configured EXCEPT ![s] = x]
      /\ UNCHANGED <<phase, file, written, last, after, trace, force_32bit_events, writes>>
    BY DEF Set
<1> HIDE DEF x
<1>4. /\ configured' \in [Settings -> Handles]
      /\ \A y \in Settings : configured'[y] = IF y = s THEN x ELSE configured[y]
    BY <1>1, <1>2, <1>3
<1>5. SetForFile(configured')
    BY <1>1, <1>2, <1>3, <1>4 DEF SetForFile
<1> QED
    BY <1>1, <1>3, <1>4, <1>5, SetInv

LEMMA UnsetInv == ASSUME Inv, UnsetISAExtended PROVE Inv'
<1>1. /\ configured \in [Settings -> Handles] /\ SetForFile(configured)
      /\ force_32bit_events \in 0..MaxFiles /\ Null \in Handles
    BY DEF Inv, TypeOK, Handles
<1>2. /\ configured' = [configured EXCEPT !["ext"] = Null]
      /\ UNCHANGED <<phase, file, written, last, after, trace, force_32bit_events, writes>>
    BY DEF UnsetISAExtended
<1>3. /\ configured' \in [Settings -> Handles]
      /\ \A y \in Settings : configured'[y] = Null \/ configured'[y] = configured[y]
    BY <1>1, <1>2
<1>4. SetForFile(configured')
    BY <1>1, <1>2, <1>3 DEF SetForFile
<1> QED
    BY <1>1, <1>2, <1>3, <1>4, SetInv

LEMMA DisableInv ==
    ASSUME Inv, NEW feature \in Values["feature"], DisableTraceFeature(feature)
    PROVE  Inv'
<1> DEFINE h == configured["feature"]
           x == [h EXCEPT !.holds = h.holds \ {feature}]
<1>1. /\ configured \in [Settings -> Handles] /\ SetForFile(configured)
      /\ file \in 1..MaxFiles /\ force_32bit_events \in 0..MaxFiles
      /\ "feature" \in Settings \ {"pid"}
    BY DEF Inv, TypeOK, Settings
<1>2. h \in Handles /\ (h = Null \/ h.for = file)
    BY <1>1 DEF SetForFile
<1>3. x \in Handles /\ (x = Null \/ x.for = file)
    <2>1. CASE h = Null
        <3>1. x = Null
            BY <2>1 DEF Null
        <3> QED
            BY <3>1 DEF Handles
    <2>2. CASE h # Null
        <3>1. h \in [for : 1..MaxFiles, holds : SUBSET AllValues]
            BY <1>2, <2>2 DEF Handles
        <3> HIDE DEF h
        <3>2. x \in [for : 1..MaxFiles, holds : SUBSET AllValues] /\ x.for = h.for
            BY <3>1
        <3> QED
            BY <1>2, <2>2, <3>2 DEF Handles
    <2> QED
        BY <2>1, <2>2
<1>4. configured' = [configured EXCEPT !["feature"] = x]
    BY <1>1 DEF DisableTraceFeature
<1>5. UNCHANGED <<phase, file, written, last, after, trace, writes>>
    BY DEF DisableTraceFeature
<1>6. force_32bit_events' \in 0..MaxFiles
    BY <1>1 DEF DisableTraceFeature
<1> HIDE DEF h, x
<1>7. /\ configured' \in [Settings -> Handles]
      /\ \A y \in Settings : configured'[y] = IF y = "feature" THEN x ELSE configured[y]
    BY <1>1, <1>3, <1>4
<1>8. SetForFile(configured')
    BY <1>1, <1>3, <1>5, <1>7 DEF SetForFile
<1> QED
    BY <1>5, <1>6, <1>7, <1>8, SetInv

LEMMA OpenInv == ASSUME Inv, Open PROVE Inv'
<1> DEFINE r == Record("identifier", Blank, FALSE)
           v == Record("version", Blank, FALSE)
<1>1. /\ file \in 1..MaxFiles /\ Blank \in Handles \ {Null} /\ Blank.for = file
      /\ "identifier" \in DOMAIN Encoded /\ "version" \in DOMAIN Encoded
    BY BlankFacts DEF Inv, TypeOK, Encoded
<1>2. /\ r \in Rec /\ r.rec = "identifier" /\ r.for = file
      /\ v \in Rec /\ v.rec = "version" /\ v.for = file
    BY <1>1, RecordFacts
<1>3. trace' = <<r, v>>
    BY DEF Open
<1> HIDE DEF r, v
<1>4. trace' \in Seq(Rec) /\ Len(trace') = 2 /\ trace'[1] = r /\ trace'[2] = v
    BY <1>2, <1>3
<1>5. TypeOK'
    <2>1. "version" \in DOMAIN Encoded
        BY DEF Encoded
    <2> QED
        BY <1>4, <2>1 DEF Inv, TypeOK, Open, Rec
<1>6. SetForFile(configured)' /\ WrittenForFile(trace)'
    <2>1. \A i \in 1..Len(trace') : i = 1 \/ i = 2
        BY <1>4
    <2>2. file' = file /\ configured' = configured
        BY DEF Open
    <2>3. \A i \in 1..Len(trace') : trace'[i].for = file
        BY <1>2, <1>4, <2>1
    <2>4. WrittenForFile(trace)'
        BY <2>2, <2>3 DEF WrittenForFile
    <2> QED
        BY <2>2, <2>4 DEF Inv, SetForFile
<1>7. HeaderOK(trace, written)'
    <2>1. written' \subseteq {"pid"}
        BY DEF Inv, Open
    <2>2. \A i \in 1..Len(trace') : i = 1 \/ i = 2
        BY <1>4
    <2>3. \A i \in 3..Len(trace') : FALSE
        BY <1>4
    <2>4. \A i \in 1..Len(trace') : trace'[i].rec # "end"
        BY <1>2, <1>4, <2>2
    <2>5. Len(trace') >= 2 /\ trace'[1].rec = "identifier" /\ trace'[2].rec = "version"
        BY <1>2, <1>4
    <2>6. /\ \A s \in written' \ {"pid"} : \E i \in 3..Len(trace') : trace'[i].rec = s
          /\ "pc" \notin written'
        BY <2>1
    <2> QED
        BY <2>3, <2>4, <2>5, <2>6, Zenon DEF HeaderOK
<1> QED
    BY <1>5, <1>6, <1>7 DEF Inv, Open

LEMMA WriteInv == ASSUME Inv, NEW rec \in RawRecords, Write(rec) PROVE Inv'
<1> DEFINE r == Record(rec, Blank, TRUE)
<1>1. /\ r \in Rec /\ r.rec = rec /\ r.raw = TRUE /\ r.for = file
      /\ rec # "end" /\ rec \in DOMAIN Encoded /\ trace \in Seq(Rec)
      /\ written \in SUBSET Settings
    <2>1. /\ file \in 1..MaxFiles /\ Blank \in Handles \ {Null} /\ Blank.for = file
          /\ rec # "end" /\ rec \in DOMAIN Encoded
        BY BlankFacts, HeaderAssumption DEF Inv, TypeOK
    <2>2. r \in Rec /\ r.rec = rec /\ r.for = file
        BY <2>1, RecordFacts
    <2>3. r.raw = TRUE
        BY DEF Record
    <2>4. trace \in Seq(Rec) /\ written \in SUBSET Settings
        BY DEF Inv, TypeOK, Rec
    <2> HIDE DEF r
    <2> QED
        BY <2>1, <2>2, <2>3, <2>4
<1>2. trace' = Append(trace, r) /\ phase \in {"header", "body"}
    BY DEF Write, Belongs, Inv, TypeOK
<1> HIDE DEF r
<1>3. TypeOK'
    <2>1. trace' \in Seq(Rec)
        BY <1>1, <1>2, AppendFacts
    <2>2. after' \in {"none", "eventGroup", "walk", "reg"}
        BY FlagAfterType DEF Write
    <2>3. writes' \in 0..MaxWrites
        BY HeaderAssumption DEF Inv, TypeOK, Write
    <2> QED
        BY <1>1, <2>1, <2>2, <2>3 DEF Inv, TypeOK, Write, Rec
<1>4. SetForFile(configured)' /\ WrittenForFile(trace)'
    <2>1. /\ Len(trace') = Len(trace) + 1 /\ trace'[Len(trace) + 1] = r
          /\ \A i \in 1..Len(trace) : trace'[i] = trace[i]
          /\ Len(trace) \in Nat
        BY <1>1, <1>2, AppendFacts
    <2>2. file' = file /\ configured' = configured
        BY DEF Write
    <2>3. WrittenForFile(trace)'
        BY <1>1, <2>1, <2>2 DEF Inv, WrittenForFile
    <2> QED
        BY <2>2, <2>3 DEF Inv, SetForFile
<1>5. CASE phase = "header"
    <2>1. HeaderOK(trace', written)
        BY <1>1, <1>2, <1>5, HeaderTakesRaw DEF Inv
    <2> QED
        BY <1>3, <1>4, <1>5, <2>1 DEF Inv, Write
<1>6. CASE phase = "body"
    <2>1. BodyOK(trace', written)
        BY <1>1, <1>2, <1>6, BodyTakesRaw DEF Inv, BodyOK
    <2> QED
        BY <1>3, <1>4, <1>6, <2>1 DEF Inv, Write
<1> QED
    BY <1>2, <1>5, <1>6

LEMMA CloseInv == ASSUME Inv, Close PROVE Inv'
<1>1. Kept \in [Settings -> Handles] /\ \A s \in Settings \ {"pid"} : Kept[s] = Null
    BY DEF Kept, Inv, TypeOK, Handles
<1>2. TypeOK'
    BY <1>1, HeaderAssumption DEF Inv, TypeOK, Close, FlagsKept, Encoded
<1>3. SetForFile(configured)' /\ WrittenForFile(trace)'
    BY <1>1 DEF Close, SetForFile, WrittenForFile
<1> QED
    BY <1>2, <1>3 DEF Inv, Close, FlagsKept

LEMMA NextInv == ASSUME Inv, [Next]_vars PROVE Inv'
<1>1. ASSUME NEW s \in Settings, NEW value \in Values[s], Set(s, value) PROVE Inv'
    BY <1>1, SetterInv
<1>2. CASE UnsetISAExtended
    BY <1>2, UnsetInv
<1>0. ASSUME NEW feature \in Values["feature"], DisableTraceFeature(feature) PROVE Inv'
    BY <1>0, DisableInv
<1>3. CASE Open
    BY <1>3, OpenInv
<1>4. CASE FlushHeader
    <2>1. WorkOK(Flushed(Work))
        BY <1>4, WorkWorks, FlushedWorks DEF FlushHeader, Inv, TypeOK
    <2> QED
        BY <1>4, <2>1, BecomesInv DEF FlushHeader
<1>5. CASE FinalizeHeader
    <2>1. phase = "header" /\ UNCHANGED <<file, force_32bit_events, writes>>
        BY <1>5 DEF FinalizeHeader
    <2>2. PICK d : WorkOK(d) /\ (Finished(d) \/ (phase' = phase /\ Becomes(d)))
        BY <1>5, FinalizeWorks
    <2> QED
        BY <2>1, <2>2, FinishedInv, BecomesInv
<1>6. ASSUME NEW rec \in RawRecords, Write(rec) PROVE Inv'
    BY <1>6, WriteInv
<1>7. CASE Close
    BY <1>7, CloseInv
<1>8. CASE UNCHANGED vars
    <2>1. /\ SetForFile(configured) /\ configured \in [Settings -> Handles]
          /\ force_32bit_events \in 0..MaxFiles
        BY DEF Inv, TypeOK
    <2>2. /\ configured' = configured /\ force_32bit_events' = force_32bit_events
          /\ UNCHANGED <<phase, file, written, last, after, trace, writes>>
        BY <1>8 DEF vars, writer
    <2> QED
        BY <2>1, <2>2, SetInv DEF SetForFile
<1> QED
    BY <1>0, <1>1, <1>2, <1>3, <1>4, <1>5, <1>6, <1>7, <1>8 DEF Next

LEMMA Invariance == Spec => []Inv
<1>1. Inv /\ [Next]_vars => Inv'
    BY NextInv
<1> QED
    BY InitInv, <1>1, PTL DEF Spec

-----------------------------------------------------------------------------
(* What the reader finds. *)

LEMMA EndIsFound ==
    ASSUME NEW t \in Seq(Rec), NEW k \in Nat, EndsAt(t, k)
    PROVE  (CHOOSE i \in DOMAIN t : t[i].rec = "end") = k
<1>1. k \in DOMAIN t /\ t[k].rec = "end" /\ \A i \in DOMAIN t : t[i].rec = "end" => i = k
    BY DEF EndsAt
<1> QED
    BY <1>1

\* The header of the trace, of which HeaderOK speaks with two records in front.
LEMMA HeaderFacts ==
    ASSUME NEW t \in Seq(Rec), NEW k \in Nat, EndsAt(t, k)
    PROVE  LET h == SubSeq(t, 1, k - 1)
               g == SubSeq(t, 3, k - 1)
           IN  /\ Len(h) = k - 1 /\ h[1] = t[1] /\ h[2] = t[2]
               /\ Len(g) = k - 3 /\ DOMAIN g = 1..(k - 3)
               /\ \A i \in 1..(k - 3) : g[i] = h[i + 2] /\ i + 2 \in 3..(k - 1)
               /\ \A i \in 3..(k - 1) : h[i] = g[i - 2] /\ i - 2 \in 1..(k - 3)
<1> DEFINE h == SubSeq(t, 1, k - 1)
           g == SubSeq(t, 3, k - 1)
<1>1. k \in 3..Len(t) /\ Len(t) \in Nat
    BY DEF EndsAt
<1>2. Len(h) = k - 1 /\ \A i \in 1..(k - 1) : h[i] = t[i]
    <2>1. k - 1 \in 0..Len(t) /\ 1 \in Nat \ {0} /\ 1 <= k - 1 + 1
        BY <1>1
    <2>2. /\ Len(h) = k - 1 - 1 + 1
          /\ \A i \in 1..(k - 1 - 1 + 1) : h[i] = t[i + 1 - 1]
        BY <2>1, SubSeqFacts
    <2> HIDE DEF h
    <2> QED
        BY <2>2
<1>3. Len(g) = k - 3 /\ \A i \in 1..(k - 3) : g[i] = t[i + 2]
    <2>1. k - 1 \in 0..Len(t) /\ 3 \in Nat \ {0} /\ 3 <= k - 1 + 1
        BY <1>1
    <2>2. /\ Len(g) = k - 1 - 3 + 1
          /\ \A i \in 1..(k - 1 - 3 + 1) : g[i] = t[i + 3 - 1]
        BY <2>1, SubSeqFacts
    <2> HIDE DEF g
    <2> QED
        BY <2>2
<1>4. DOMAIN g = 1..Len(g)
    <2>1. g \in Seq(Rec)
        BY <1>1, SubSeqFacts
    <2> HIDE DEF g
    <2> QED
        BY <2>1
<1> HIDE DEF h, g
<1>5. \A i \in 1..(k - 3) : i + 2 \in 3..(k - 1) /\ i + 2 \in 1..(k - 1)
    BY <1>1
<1>6. \A i \in 3..(k - 1) : i - 2 \in 1..(k - 3) /\ i - 2 + 2 = i
    BY <1>1
<1>7. /\ Len(h) = k - 1 /\ h[1] = t[1] /\ h[2] = t[2]
      /\ Len(g) = k - 3 /\ DOMAIN g = 1..(k - 3)
      /\ \A i \in 1..(k - 3) : g[i] = h[i + 2] /\ i + 2 \in 3..(k - 1)
      /\ \A i \in 3..(k - 1) : h[i] = g[i - 2] /\ i - 2 \in 1..(k - 3)
    BY <1>1, <1>2, <1>3, <1>4, <1>5, <1>6
<1> QED
    BY <1>7 DEF h, g

LEMMA Readable == Inv => FinalizedIsReadable
<1> SUFFICES ASSUME Inv, phase = "body", "pc" \in written,
                    \A i \in DOMAIN Header : Header[i].raw => Header[i].rec = "comment"
             PROVE  Accepts
    BY DEF FinalizedIsReadable
<1>1. PICK k \in Nat : EndsAt(trace, k) /\ HeaderOK(SubSeq(trace, 1, k - 1), written)
    BY DEF Inv, BodyOK
<1>2. trace \in Seq(Rec) /\ written \subseteq Settings
    BY DEF Inv, TypeOK, Rec
<1> DEFINE h == SubSeq(trace, 1, k - 1)
           g == SubSeq(trace, 3, k - 1)
<1>3. Header = g
    BY <1>1, <1>2, EndIsFound DEF Header, EndOf
<1>4. /\ Len(h) = k - 1 /\ h[1] = trace[1] /\ h[2] = trace[2]
      /\ DOMAIN g = 1..(k - 3)
      /\ \A i \in 1..(k - 3) : g[i] = h[i + 2] /\ i + 2 \in 3..(k - 1)
      /\ \A i \in 3..(k - 1) : h[i] = g[i - 2] /\ i - 2 \in 1..(k - 3)
    BY <1>1, <1>2, HeaderFacts
<1>5. HeaderOK(h, written)
    BY <1>1
<1>6. \A i \in DOMAIN g : g[i].raw => g[i].rec = "comment"
    BY <1>3
<1> HIDE DEF h, g
<1>7. \A i \in DOMAIN g : g[i].rec \in Settings
    <2> SUFFICES ASSUME NEW i \in DOMAIN g PROVE g[i].rec \in Settings
        OBVIOUS
    <2>1. i + 2 \in 3..Len(h) /\ g[i] = h[i + 2]
        BY <1>4
    <2>2. ~g[i].raw => g[i].rec \in written
        BY <1>5, <2>1 DEF HeaderOK
    <2>3. "comment" \in Settings
        BY DEF Settings
    <2> QED
        BY <1>2, <1>6, <2>2, <2>3
<1>8. \A i, j \in DOMAIN g : g[i].rec = g[j].rec => i = j \/ g[i].rec \in {"comment", "info"}
    <2>1. ASSUME NEW i \in DOMAIN g, NEW j \in DOMAIN g,
                 g[i].rec = g[j].rec, ~g[i].raw, ~g[j].raw
          PROVE  i = j
        <3>1. /\ i + 2 \in 3..Len(h) /\ g[i] = h[i + 2]
              /\ j + 2 \in 3..Len(h) /\ g[j] = h[j + 2]
            BY <1>4
        <3>2. i + 2 = j + 2
            BY <1>5, <2>1, <3>1 DEF HeaderOK
        <3>3. i \in 1..(k - 3) /\ j \in 1..(k - 3)
            BY <1>4
        <3> QED
            BY <3>2, <3>3
    <2> QED
        BY <1>6, <2>1
<1>9. \A s \in {"isa", "iem", "pc", "info", "feature"} : \E i \in DOMAIN g : g[i].rec = s
    <2> SUFFICES ASSUME NEW s \in {"isa", "iem", "pc", "info", "feature"}
                 PROVE  \E i \in DOMAIN g : g[i].rec = s
        OBVIOUS
    <2>1. s \in written \ {"pid"}
        BY <1>5 DEF HeaderOK
    <2>2. PICK i \in 3..Len(h) : h[i].rec = s
        BY <1>5, <2>1 DEF HeaderOK
    <2>3. h[i] = g[i - 2] /\ i - 2 \in DOMAIN g
        BY <1>4, <2>2
    <2> QED
        BY <2>2, <2>3
<1>10. trace[1].rec = "identifier" /\ trace[2].rec = "version"
    BY <1>4, <1>5 DEF HeaderOK
<1>11. /\ {g[i].rec : i \in DOMAIN g} \subseteq Settings
       /\ {"isa", "iem", "pc", "info", "feature"} \subseteq {g[i].rec : i \in DOMAIN g}
    BY <1>7, <1>9
<1> QED
    BY <1>3, <1>8, <1>10, <1>11 DEF Accepts

\* A step in a header that is not closed off: what it says of a setting.
Arrives(s) ==
    /\ s \in written' /\ configured[s] # Null =>
          IsIn(trace', s, configured[s]) \/ IsIn(trace', s, Asked[s])
    /\ phase' = "body" /\ s \notin {"pid", "ext"} /\ Asked[s] # Null =>
          IsIn(trace', s, Asked[s])

LEMMA FlushKeeps ==
    ASSUME Inv, FlushHeader, NEW s \in Settings \ written
    PROVE  Arrives(s)
<1> DEFINE d == Flushed(Work)
<1>1. phase = "header" /\ file \in 1..MaxFiles /\ UNCHANGED phase /\ Becomes(d)
    BY DEF FlushHeader, Inv, TypeOK
<1>2. Grows(Work, d) /\ Work.configured = configured /\ Work.written = written
    BY <1>1, WorkWorks, FlushedWorks DEF Work
<1> HIDE DEF d
<1>3. written' = d.written /\ trace' = d.trace
    BY <1>1 DEF Becomes
<1>4. s \in d.written /\ configured[s] # Null => IsIn(d.trace, s, configured[s])
    BY <1>2, Zenon DEF Grows
<1>5. phase' # "body"
    BY <1>1
<1> QED
    BY <1>3, <1>4, <1>5, Zenon DEF Arrives

LEMMA FinalizeKeeps ==
    ASSUME Inv, FinalizeHeader, NEW s \in Settings \ written
    PROVE  Arrives(s)
<1>1. phase = "header" /\ file \in 1..MaxFiles
    BY DEF FinalizeHeader, Inv, TypeOK
<1>2. PICK d : /\ WorkOK(d) /\ Grows(AskedWork, d)
               /\ Finished(d) \/ (phase' = phase /\ Becomes(d))
    BY FinalizeWorks
<1>3. AskedWork.configured = Asked /\ AskedWork.written = written
    BY <1>1, AskedWorks
<1>4. s \in d.written /\ Asked[s] # Null => IsIn(d.trace, s, Asked[s])
    BY <1>2, <1>3, Zenon DEF Grows
<1>5. configured[s] # Null => Asked[s] # Null
    BY AskedFacts
<1>6. CASE Finished(d)
    <2> DEFINE e == Record("end", Blank, FALSE)
    <2>1. d.trace \in Seq(Rec)
        BY <1>2 DEF WorkOK, WorkType
    <2>2. e \in Rec
        BY <1>1, BlankFacts, RecordFacts, Zenon DEF Encoded
    <2>3. trace' = Append(d.trace, e) /\ written' = d.written
        BY <1>6 DEF Finished
    <2> HIDE DEF e
    <2>4. IsIn(d.trace, s, Asked[s]) => IsIn(trace', s, Asked[s])
        BY <2>1, <2>2, <2>3, AppendIsIn
    <2>5. s \notin {"pid", "ext"} /\ Asked[s] # Null => s \in d.written
        BY <1>6 DEF Finished
    <2> QED
        BY <1>4, <1>5, <2>3, <2>4, <2>5, Zenon DEF Arrives
<1>7. CASE phase' = phase /\ Becomes(d)
    <2>1. trace' = d.trace /\ written' = d.written /\ phase' # "body"
        BY <1>1, <1>7 DEF Becomes
    <2> QED
        BY <1>4, <1>5, <2>1, Zenon DEF Arrives
<1> QED
    BY <1>2, <1>6, <1>7

LEMMA KeepsSettings ==
    ASSUME Inv, Next, phase = "header", NEW s \in Settings \ written
    PROVE  Arrives(s)
<1>1. CASE FlushHeader
    BY <1>1, FlushKeeps
<1>2. CASE FinalizeHeader
    BY <1>2, FinalizeKeeps
<1>3. CASE ~FlushHeader /\ ~FinalizeHeader
    <2>1. written' \subseteq written /\ phase' # "body"
        BY <1>3 DEF Next, Set, UnsetISAExtended, DisableTraceFeature, Open, Write, Close,
                    FlagsKept
    <2> QED
        BY <2>1 DEF Arrives
<1> QED
    BY <1>1, <1>2, <1>3

-----------------------------------------------------------------------------
(* The theorems. *)

\* The variables keep their types, whatever is set, flushed and written, and
\* wherever a flush throws.
THEOREM HeaderTypeCorrect == Spec => []TypeOK
<1>1. Inv => TypeOK
    BY DEF Inv
<1> QED
    BY Invariance, <1>1, PTL

\* No record of a file was set for the file before: close() resets every setting
\* but the process id, for any number of files and whatever the settings are given.
\* It speaks of records, not of force_32bit_events_, which close() leaves too.
THEOREM NoSettingLeaks == Spec => []NothingLeaks
<1>1. Inv => NothingLeaks
    BY DEF Inv, TypeOK, NothingLeaks, WrittenForFile
<1> QED
    BY Invariance, <1>1, PTL

\* However setters, flushes and flushes that throw follow on each other, a header
\* that was finalized and has an initial PC is one that STFReader accepts.
THEOREM HeaderIsReadable == Spec => []FinalizedIsReadable
BY Invariance, Readable, PTL

\* A flush writes what its settings hold, whether it throws in the end or not, and
\* when the header is finalized, each setting not flushed before is in it with its
\* last value, the feature of 64 bit events included where finalizeHeader() asks for
\* it; for any values.
THEOREM NoSettingIsLost == Spec => SettingsAreKept
<1>1. Inv /\ [Next]_vars =>
        [phase = "header" => \A s \in Settings \ written : Arrives(s)]_vars
    BY KeepsSettings
<1>2. [phase = "header" => \A s \in Settings \ written : Arrives(s)]_vars =>
      [phase = "header" => \A s \in Settings \ written :
          /\ s \in written' /\ configured[s] # Null =>
                IsIn(trace', s, configured[s]) \/ IsIn(trace', s, Asked[s])
          /\ phase' = "body" /\ s \notin {"pid", "ext"} /\ Asked[s] # Null =>
                IsIn(trace', s, Asked[s])]_vars
    BY DEF Arrives
<1> QED
    BY Invariance, <1>1, <1>2, PTL DEF Spec, SettingsAreKept
=============================================================================
