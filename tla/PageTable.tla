------------------------------ MODULE PageTable ------------------------------
(***************************************************************************)
(* STFPageTable: what a trace says about address translation, by the index *)
(* of the instruction from which on it holds.  The execution mode, the     *)
(* SATP register and every page table entry are kept as versions, maps     *)
(* from such an index to a value, and looked up with the last version at   *)
(* or before an index.                                                     *)
(*                                                                         *)
(* One virtual address is followed, so that a table has one entry: a leaf  *)
(* that names a frame, or the table of the next level.                     *)
(***************************************************************************)
EXTENDS Integers

CONSTANTS
    Tables, \* page tables
    Roots,  \* those that SATP names
    Frames, \* frames of physical memory
    Levels, \* NUM_VPNS
    Bare,   \* the SATP value that turns translation off
    VA      \* the address itself, when it is not translated

ASSUME PageTableAssumption ==
    /\ Roots \subseteq Tables
    /\ Levels \in Nat \ {0}
    /\ Bare \notin Tables
    /\ VA \notin Frames

Satps == Roots \cup {Bare}
Modes == {"user", "machine"}
\* A root is not a table of a lower level, too.
Entries == [leaf : {TRUE}, to : Frames] \cup [leaf : {FALSE}, to : Tables \ Roots]

\* STFTranslationException, or that the table is no use at all.
Failed == "failed"

-----------------------------------------------------------------------------
(* Versions. *)

Before(versions, index) == {i \in DOMAIN versions : i <= index}
Known(versions, index) == Before(versions, index) # {}

\* prev(upper_bound(index)).
Latest(versions, index) ==
    versions[CHOOSE i \in Before(versions, index) :
                 \A j \in Before(versions, index) : j <= i]

\* operator[] overwrites, try_emplace does not.
With(versions, index, value) ==
    [i \in DOMAIN versions \cup {index} |-> IF i = index THEN value ELSE versions[i]]
WithNew(versions, index, value) ==
    IF index \in DOMAIN versions THEN versions ELSE With(versions, index, value)

-----------------------------------------------------------------------------
(* Updates. *)

\* A page table of a SATP value takes the entries of a walk, a function from
\* tables, in; an entry that has not changed is not entered again.
Changed(versions, index, entry) ==
    Known(versions, index) => Latest(versions, index) # entry

UpdatePages(pages, index, walk) ==
    [t \in Tables |->
        IF t \in DOMAIN walk /\ Changed(pages[t], index, walk[t])
        THEN With(pages[t], index, walk[t]) ELSE pages[t]]

\* The assertions of the update: an entry is not known from later on only, and
\* has not got two values at one index.
Consistent(pages, index, walk) ==
    \A t \in DOMAIN walk :
        DOMAIN pages[t] # {} =>
            /\ Known(pages[t], index)
            /\ Latest(pages[t], index) # walk[t] => index \notin DOMAIN pages[t]

-----------------------------------------------------------------------------
(* Translation. *)

\* The entries that are known at an index: find(), and prev(upper_bound(index)).
EntriesAt(pages, index) ==
    [t \in {u \in Tables : Known(pages[u], index)} |-> Latest(pages[t], index)]

\* The walk down from a table.
Walk(entries, root) ==
    LET down[level \in 0..Levels] ==
            [t \in Tables |->
                IF level = 0 \/ t \notin DOMAIN entries THEN Failed
                ELSE IF entries[t].leaf THEN entries[t].to
                ELSE down[level - 1][entries[t].to]]
    IN  down[Levels][root]

Translate(modes, satps, pages, index) ==
    IF Latest(modes, index) = "machine" THEN VA
    ELSE IF ~Known(satps, index) THEN Failed
    ELSE LET satp == Latest(satps, index)
         IN  IF satp = Bare THEN VA ELSE Walk(EntriesAt(pages[satp], index), satp)

=============================================================================
