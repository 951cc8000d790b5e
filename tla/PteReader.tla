------------------------------ MODULE PteReader ------------------------------
(***************************************************************************)
(* STFPTEReader: a thread reads the trace ahead of the instruction reader, *)
(* for its page table walks, SATP values and mode changes only, and        *)
(* translate() waits until the thread has come far enough.                 *)
(*                                                                         *)
(* The trace is that of a machine, which is run record by record as the    *)
(* thread reads them: the records of an instruction come in the order of   *)
(* their descriptors, SATP, walk, event, opcode.  A walk is recorded, by   *)
(* the index of its first access, for an instruction that accesses VA, and *)
(* an instruction accesses VA only when the entries it walks have been     *)
(* recorded.  Instructions are counted from 1.                             *)
(***************************************************************************)
EXTENDS PageTable, Sequences

CONSTANTS
    MaxInsts, \* bound on the length of the trace
    Interval, \* INSTRUCTION_INDEX_UPDATE_INTERVAL
    MaxEvents \* bound on the stores and changes of SATP and mode

None == "none"

ASSUME PteAssumption ==
    /\ MaxInsts \in Nat /\ Interval \in Nat \ {0} /\ MaxEvents \in Nat
    /\ None \notin Frames

VARIABLES
    modes,            \* modes_
    satps,            \* indexed_satp_entries_
    pages,            \* phys_pages_ of the entries of satp_entries_
    last_valid_insts, \* last_valid_insts_
    done_reading,     \* done_reading_
    stop_reading,     \* stop_reading_
    thread,           \* reader_thread_: "running", "ended", "joined" or "dead"
    insts_read,       \* numInstsRead() of the thread's reader
    stage,            \* the record last read for the current instruction
    request,          \* the index translate() has been called with, or 0
    answer,           \* [index, to], what it returned last and the caller
                      \* still uses
    mode, next_mode,  \* the machine's mode, and what it is from the next instruction on
    satp, next_satp,  \* SATP, likewise
    memory,           \* the entries of its page tables
    recorded,         \* the entries recorded last, by SATP value
    addressed,        \* where the instructions so far found VA, or None
    events            \* stores and changes so far

page_table == <<modes, satps, pages>>
caller == <<stop_reading, request, answer>>
machine == <<mode, next_mode, satp, next_satp, memory, recorded, addressed, events>>
vars == <<page_table, last_valid_insts, done_reading, thread, insts_read, stage,
          caller, machine>>

NoAnswer == [index |-> 0, to |-> None]
NoEntry == [leaf |-> TRUE, to |-> None]
NoVersions == [i \in {} |-> None]

\* The index of the instruction whose records are being read.
Current == insts_read + 1

-----------------------------------------------------------------------------
(* The machine. *)

Translating == mode # "machine" /\ satp # Bare

\* The tables it walks.
Walked ==
    LET down[level \in 0..Levels] ==
            [t \in Tables |->
                IF level = 0 THEN {}
                ELSE IF memory[t].leaf THEN {t} ELSE {t} \cup down[level - 1][memory[t].to]]
    IN  down[Levels][satp]

Mapped == \E t \in Walked : memory[t].leaf

Accessible ==
    Translating => Mapped /\ \A t \in Walked : recorded[satp][t] = memory[t]
Address == IF Translating THEN memory[CHOOSE t \in Walked : memory[t].leaf].to ELSE VA

Change == events < MaxEvents /\ events' = events + 1

\* A store to a page table, by an instruction before the current one.
Store(t, entry) ==
    /\ thread = "running"
    /\ stage = "none"
    /\ insts_read > 0
    /\ entry # memory[t]
    /\ Change
    /\ memory' = [memory EXCEPT ![t] = entry]
    /\ UNCHANGED <<page_table, last_valid_insts, done_reading, thread, insts_read,
                   stage, caller, mode, next_mode, satp, next_satp, recorded, addressed>>

-----------------------------------------------------------------------------
(* The thread. *)

Stages == <<"none", "state", "dest", "walk", "event">>
Rank(s) == CHOOSE n \in DOMAIN Stages : Stages[n] = s

\* The next record of the current instruction is an s; every trace begins with
\* the value of SATP.
Reads(s) ==
    /\ thread = "running"
    /\ insts_read < MaxInsts
    /\ Rank(stage) < Rank(s)
    /\ insts_read = 0 /\ stage = "none" => s = "state"
    /\ stage' = s

\* The index from which on a change made by the current instruction holds; and
\* a variant that has the instruction itself see it.
FromThisOn == insts_read + 1
FromNextOn == insts_read + 2

\* The index for a SATP state record.
FromLastOn == insts_read

\* The last instruction that everything is known of at a walk.
AllBefore == insts_read

Init ==
    /\ modes = [i \in {0} |-> "machine"]
    /\ satps = NoVersions
    /\ pages = [s \in Roots |-> [t \in Tables |-> NoVersions]]
    /\ last_valid_insts = 0
    /\ done_reading = FALSE
    /\ stop_reading = FALSE
    /\ thread = "running"
    /\ insts_read = 0
    /\ stage = "none"
    /\ request = 0
    /\ answer = NoAnswer
    /\ mode \in Modes
    /\ next_mode = mode
    /\ satp \in Satps
    /\ next_satp = satp
    /\ memory \in {m \in [Tables -> Entries] :
                      \A t \in Tables : m[t].leaf <=> t \notin Roots}
    /\ recorded = [s \in Roots |-> [t \in Tables |-> NoEntry]]
    /\ addressed = <<>>
    /\ events = 0

\* The value of SATP that the trace begins with.
ReadSatpState ==
    /\ insts_read = 0
    /\ Reads("state")
    /\ satps' = WithNew(satps, FromLastOn, satp)
    /\ UNCHANGED <<modes, pages, last_valid_insts, done_reading, thread, insts_read,
                   caller, machine>>

\* The current instruction writes SATP.
ReadSatpDest(s) ==
    /\ Reads("dest")
    /\ Change
    /\ next_satp' = s
    /\ satps' = WithNew(satps, FromNextOn, s)
    /\ UNCHANGED <<modes, pages, last_valid_insts, done_reading, thread, insts_read,
                   caller, mode, next_mode, satp, memory, recorded, addressed>>

\* The walk of the current instruction.  A failed assertion ends the process,
\* for the thread catches nothing but EOFException.
ReadPageTableWalk ==
    LET walk  == [t \in Walked |-> memory[t]]
        valid == /\ Known(satps, Current)
                 /\ Latest(satps, Current) # Bare
                 /\ Consistent(pages[Latest(satps, Current)], Current, walk)
    IN  /\ Reads("walk")
        /\ Translating
        /\ Mapped
        /\ recorded' = [recorded EXCEPT ![satp] =
                           [t \in Tables |-> IF t \in Walked THEN memory[t] ELSE @[t]]]
        /\ IF valid
           THEN /\ pages' = [pages EXCEPT ![Latest(satps, Current)] =
                                 UpdatePages(@, Current, walk)]
                /\ last_valid_insts' = AllBefore
                /\ UNCHANGED thread
           ELSE /\ thread' = "dead"
                /\ UNCHANGED <<pages, last_valid_insts>>
        /\ UNCHANGED <<modes, satps, done_reading, insts_read, caller, mode, next_mode,
                       satp, next_satp, memory, addressed, events>>

\* A mode change among the records of the first instruction is the mode that
\* the trace begins in.
ReadFirstMode ==
    /\ insts_read = 0
    /\ Reads("event")
    /\ modes' = With(modes, 0, mode)
    /\ UNCHANGED <<satps, pages, last_valid_insts, done_reading, thread, insts_read,
                   caller, machine>>

\* The current instruction changes the mode.
ReadModeChange(m) ==
    /\ insts_read > 0
    /\ Reads("event")
    /\ Change
    /\ next_mode' = m
    /\ modes' = With(modes, FromNextOn, m)
    /\ UNCHANGED <<satps, pages, last_valid_insts, done_reading, thread, insts_read,
                   caller, mode, satp, next_satp, memory, recorded, addressed>>

\* The opcode ends the instruction.  A trace that begins in another mode than
\* machine mode has said so by then.
ReadOpcode ==
    /\ thread = "running"
    /\ insts_read < MaxInsts
    /\ insts_read = 0 => stage = "event" \/ (stage # "none" /\ mode = "machine")
    /\ insts_read' = Current
    /\ stage' = "none"
    /\ last_valid_insts' = IF Current % Interval = 0 THEN Current ELSE last_valid_insts
    /\ mode' = next_mode
    /\ satp' = next_satp
    /\ addressed' = Append(addressed, IF Accessible THEN Address ELSE None)
    /\ UNCHANGED <<page_table, done_reading, thread, caller, next_mode, next_satp,
                   memory, recorded, events>>

\* The end of the trace, or stop_reading_ seen; and a variant that does not say
\* so.
SlipsAway ==
    /\ thread = "running"
    /\ stage = "none" \/ stop_reading
    /\ thread' = "ended"
    /\ UNCHANGED <<page_table, last_valid_insts, done_reading, insts_read, stage,
                   caller, machine>>
ThreadEnds ==
    /\ thread = "running"
    /\ stage = "none" \/ stop_reading
    /\ done_reading' = TRUE
    /\ thread' = "ended"
    /\ UNCHANGED <<page_table, last_valid_insts, insts_read, stage, caller, machine>>

ReadRecord ==
    \/ ReadSatpState \/ ReadPageTableWalk \/ ReadFirstMode \/ ReadOpcode
    \/ \E s \in Satps : ReadSatpDest(s)
    \/ \E m \in Modes : ReadModeChange(m)

Thread == (~stop_reading /\ ReadRecord) \/ ThreadEnds

-----------------------------------------------------------------------------
(* The instruction reader. *)

CallTranslate(index) ==
    /\ thread # "dead"
    /\ request = 0
    /\ ~stop_reading
    /\ request' = index
    /\ answer' = NoAnswer
    /\ UNCHANGED <<page_table, last_valid_insts, done_reading, thread, insts_read,
                   stage, stop_reading, machine>>

\* What translate() waits for; and a variant that takes the instruction whose
\* walk has just been read for finished.
ReadyTooEarly(index) == index <= last_valid_insts + 1 \/ done_reading
Ready(index) == index <= last_valid_insts \/ done_reading

TranslateReturns ==
    /\ thread # "dead"
    /\ request # 0
    /\ Ready(request)
    /\ answer' = [index |-> request, to |-> Translate(modes, satps, pages, request)]
    /\ request' = 0
    /\ UNCHANGED <<page_table, last_valid_insts, done_reading, thread, insts_read,
                   stage, stop_reading, machine>>

\* close(): stop, and join the thread.
Stop ==
    /\ request = 0
    /\ thread \in {"running", "ended"}
    /\ stop_reading' = TRUE
    /\ answer' = NoAnswer
    /\ UNCHANGED <<page_table, last_valid_insts, done_reading, thread, insts_read,
                   stage, request, machine>>

Join ==
    /\ stop_reading
    /\ thread = "ended"
    /\ thread' = "joined"
    /\ UNCHANGED <<page_table, last_valid_insts, done_reading, insts_read, stage,
                   caller, machine>>

Next ==
    \/ Thread
    \/ \E t \in Tables, entry \in Entries : Store(t, entry)
    \/ \E index \in 1..(MaxInsts + 1) : CallTranslate(index)
    \/ TranslateReturns \/ Stop \/ Join

\* The thread reads on to the end of the trace, which is finite, and the wait
\* ends when it may.
Spec == Init /\ [][Next]_vars /\ WF_vars(Thread) /\ WF_vars(TranslateReturns)

-----------------------------------------------------------------------------
(* Properties. *)

AreVersions(f, S) == DOMAIN f \subseteq 0..(MaxInsts + 1) /\ \A i \in DOMAIN f : f[i] \in S

TypeOK ==
    /\ AreVersions(modes, Modes)
    /\ AreVersions(satps, Satps)
    /\ \A s \in Roots, t \in Tables : AreVersions(pages[s][t], Entries)
    /\ last_valid_insts \in 0..insts_read
    /\ done_reading \in BOOLEAN
    /\ stop_reading \in BOOLEAN
    /\ thread \in {"running", "ended", "joined", "dead"}
    /\ insts_read \in 0..MaxInsts
    /\ stage \in {"none", "state", "dest", "walk", "event"}
    /\ request \in 0..(MaxInsts + 1)
    /\ memory \in [Tables -> Entries]
    /\ Len(addressed) = insts_read

\* The address translate() gives for an instruction is the one at which the
\* machine accessed it, however far ahead the thread is by then: stores to page
\* tables, changes of SATP and of the mode before and behind the instruction
\* are told apart by their indices.
AnswersAreTrue ==
    answer.index \in 1..insts_read /\ addressed[answer.index] # None =>
        answer.to = addressed[answer.index]

\* Nothing the thread reads after an answer would have changed it.
AnswersStand ==
    answer.index # 0 => answer.to = Translate(modes, satps, pages, answer.index)

\* translate() comes back: the thread gets past the instruction, or to the end
\* of the trace, and no walk of a real machine fails an assertion of update() on
\* the way, which would end the process.
EveryCallReturns == request # 0 ~> request = 0

=============================================================================
