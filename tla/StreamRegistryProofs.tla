------------------------ MODULE StreamRegistryProofs -------------------------
(***************************************************************************)
(* Proofs about StreamRegistry, for any number of threads and of streams.  *)
(*                                                                         *)
(* The invariant Inv holds however the threads and the handler meet.  What *)
(* carries it is Exclusive: no two calls are on one stream at a time,      *)
(* although openWithProcess() takes no lock.  AtExit holds when the        *)
(* handler runs after the other threads.                                   *)
(***************************************************************************)
EXTENDS StreamRegistry, TLAPS

Target(t) == op[t].on

\* The type of a thread's call.
Calls ==
    [call : {"none", "open", "openWithProcess", "close", "destroy"},
     at : {"none", "open", "register", "close", "deregister"},
     on : Streams]

\* Where a call can be, what it holds, and what it has done to its stream.
Placed ==
    \A t \in Threads :
        /\ op[t].call \in {"open", "openWithProcess"} =>
               op[t].at \in {"open", "register"} /\ object[Target(t)] # "gone"
        /\ op[t].call = "openWithProcess" => object[Target(t)] = "new"
        /\ op[t].call \in {"close", "destroy"} =>
               op[t].at \in {"close", "deregister"} /\ object[Target(t)] # "new"
        /\ op[t].call \in {"open", "close", "destroy"} => open_close_mutex[Target(t)] = t
        /\ op[t].call = "none" => op[t].at = "none"
        /\ op[t].at = "deregister" => ~stream[Target(t)]

Exclusive ==
    \A t, u \in Threads : InCall(t) /\ InCall(u) /\ Target(t) = Target(u) => t = u

\* An open stream is in the set, or about to be put there.
Known ==
    \A s \in Streams :
        stream[s] => \/ s \in open_streams
                     \/ handler = "returned"
                     \/ \E t \in Threads : op[t].at = "register" /\ Target(t) = s

FlagIsHandlers == lock_open_streams => handler = "loop"

Inv == TypeOK /\ Placed /\ Exclusive /\ Known /\ FlagIsHandlers

\* With no other thread in a call, the handler has all open streams in its
\* loop, and no destroyed one.
AtExit ==
    /\ handler # "none" => \A t \in Threads : ~InCall(t)
    /\ handler # "returned" =>
           \A s \in open_streams : object[s] = "gone" =>
               \E t \in Threads : InCall(t) /\ Target(t) = s
    /\ handler = "loop" => \A s \in Streams : stream[s] => s \in to_close
    /\ handler = "returned" => \A s \in Streams : ~stream[s]

-----------------------------------------------------------------------------
(* Calls begin. *)

LEMMA IdleType == Idle \in [call : {"none"}, at : {"none"}, on : Streams]
BY RegistryAssumption DEF Idle

\* A call can only begin on a stream that no call is on.
LEMMA MayCallExclusive ==
    ASSUME Inv, NEW t \in Threads, NEW s \in Streams, MayCall(t, s),
           object[s] # "new" => open_close_mutex[s] = NoThread
    PROVE  \A u \in Threads : InCall(u) => Target(u) # s
BY RegistryAssumption DEF Inv, TypeOK, Placed, MayCall, InCall, Target

\* What every beginning of a call leaves as it was.
LEMMA BeginKeeps ==
    ASSUME Inv, NEW t \in Threads, NEW s \in Streams,
           NEW call \in {"open", "openWithProcess", "close", "destroy"},
           NEW at \in {"open", "close"},
           ~InCall(t), \A u \in Threads : InCall(u) => Target(u) # s,
           Call(t, call, s, at)
    PROVE  /\ op' \in [Threads -> Calls]
           /\ op'[t] = [call |-> call, at |-> at, on |-> s]
           /\ \A u \in Threads \ {t} : op'[u] = op[u]
           /\ Exclusive'
           /\ UNCHANGED <<stream, open_streams, handler>> => Known'
<1>1. op' \in [Threads -> Calls]
    BY DEF Inv, TypeOK, Call, Calls
<1>2. op'[t] = [call |-> call, at |-> at, on |-> s]
    BY DEF Inv, TypeOK, Call, Calls
<1>3. \A u \in Threads \ {t} : op'[u] = op[u]
    BY DEF Inv, TypeOK, Call, Calls
<1>4. Exclusive'
    BY <1>2, <1>3 DEF Inv, Exclusive, InCall, Target
<1>5. ASSUME UNCHANGED <<stream, open_streams, handler>> PROVE Known'
    <2>1. op[t].at # "register"
        BY DEF Inv, Placed, InCall
    <2> QED
        BY <1>3, <1>5, <2>1 DEF Inv, Known, Target
<1> QED
    BY <1>1, <1>2, <1>3, <1>4, <1>5

LEMMA BeginOpenKeepsInv ==
    ASSUME Inv, NEW t \in Threads, NEW s \in Streams, BeginOpen(t, s) PROVE Inv'
<1>1. MayCall(t, s) /\ open_close_mutex[s] = NoThread /\ ~stream[s]
    BY DEF BeginOpen, Lock
<1>2. \A u \in Threads : InCall(u) => Target(u) # s
    BY <1>1, MayCallExclusive
<1>3. ~InCall(t) /\ object[s] # "gone"
    BY <1>1 DEF MayCall
<1>4. Call(t, "open", s, "open")
    BY DEF BeginOpen
<1>5. UNCHANGED <<object, stream, open_streams, handler_registered, lock_open_streams,
                  handler, to_close, open_streams_mutex>>
    BY DEF BeginOpen, registry, exit
<1>6. /\ op'[t] = [call |-> "open", at |-> "open", on |-> s]
      /\ \A u \in Threads \ {t} : op'[u] = op[u]
      /\ Exclusive' /\ Known'
      /\ op' \in [Threads -> Calls]
    BY <1>2, <1>3, <1>4, <1>5, BeginKeeps
<1>7. open_close_mutex' = [open_close_mutex EXCEPT ![s] = t]
    BY DEF BeginOpen, Lock
<1>8. TypeOK'
    BY <1>5, <1>6, <1>7 DEF Inv, TypeOK, Calls
<1>9. Placed'
    BY <1>2, <1>3, <1>5, <1>6, <1>7 DEF Inv, TypeOK, Placed, InCall, Target
<1> QED
    BY <1>5, <1>6, <1>8, <1>9 DEF Inv, FlagIsHandlers

LEMMA BeginOpenWithProcessKeepsInv ==
    ASSUME Inv, NEW t \in Threads, NEW s \in Streams, BeginOpenWithProcess(t, s)
    PROVE  Inv'
<1>1. MayCall(t, s) /\ object[s] = "new"
    BY DEF BeginOpenWithProcess
<1>2. \A u \in Threads : InCall(u) => Target(u) # s
    BY <1>1, MayCallExclusive
<1>3. ~InCall(t)
    BY <1>1 DEF MayCall
<1>4. Call(t, "openWithProcess", s, "open")
    BY DEF BeginOpenWithProcess
<1>5. UNCHANGED <<object, stream, open_close_mutex, open_streams, handler_registered,
                  lock_open_streams, handler, to_close, open_streams_mutex>>
    BY DEF BeginOpenWithProcess, objects, registry, exit
<1>6. /\ op'[t] = [call |-> "openWithProcess", at |-> "open", on |-> s]
      /\ \A u \in Threads \ {t} : op'[u] = op[u]
      /\ Exclusive' /\ Known'
      /\ op' \in [Threads -> Calls]
    BY <1>2, <1>3, <1>4, <1>5, BeginKeeps
<1>7. TypeOK'
    BY <1>5, <1>6 DEF Inv, TypeOK, Calls
<1>8. Placed'
    BY <1>1, <1>5, <1>6 DEF Inv, Placed, Target
<1> QED
    BY <1>5, <1>6, <1>7, <1>8 DEF Inv, FlagIsHandlers

LEMMA BeginCloseKeepsInv ==
    ASSUME Inv, NEW t \in Threads, NEW s \in Streams, BeginClose(t, s) PROVE Inv'
<1>1. MayCall(t, s) /\ open_close_mutex[s] = NoThread /\ object[s] = "shared"
    BY DEF BeginClose, Lock
<1>2. \A u \in Threads : InCall(u) => Target(u) # s
    BY <1>1, MayCallExclusive
<1>3. ~InCall(t)
    BY <1>1 DEF MayCall
<1>4. Call(t, "close", s, "close")
    BY DEF BeginClose
<1>5. UNCHANGED <<object, stream, open_streams, handler_registered, lock_open_streams,
                  handler, to_close, open_streams_mutex>>
    BY DEF BeginClose, registry, exit
<1>6. /\ op'[t] = [call |-> "close", at |-> "close", on |-> s]
      /\ \A u \in Threads \ {t} : op'[u] = op[u]
      /\ Exclusive' /\ Known'
      /\ op' \in [Threads -> Calls]
    BY <1>2, <1>3, <1>4, <1>5, BeginKeeps
<1>7. open_close_mutex' = [open_close_mutex EXCEPT ![s] = t]
    BY DEF BeginClose, Lock
<1>8. TypeOK'
    BY <1>5, <1>6, <1>7 DEF Inv, TypeOK, Calls
<1>9. Placed'
    BY <1>1, <1>2, <1>5, <1>6, <1>7 DEF Inv, TypeOK, Placed, InCall, Target
<1> QED
    BY <1>5, <1>6, <1>8, <1>9 DEF Inv, FlagIsHandlers

LEMMA BeginDestroyKeepsInv ==
    ASSUME Inv, NEW t \in Threads, NEW s \in Streams, BeginDestroy(t, s) PROVE Inv'
<1>1. MayCall(t, s) /\ open_close_mutex[s] = NoThread /\ object[s] = "shared"
    BY DEF BeginDestroy, Lock
<1>2. \A u \in Threads : InCall(u) => Target(u) # s
    BY <1>1, MayCallExclusive
<1>3. ~InCall(t)
    BY <1>1 DEF MayCall
<1>4. Call(t, "destroy", s, "close")
    BY DEF BeginDestroy
<1>5. UNCHANGED <<stream, open_streams, handler_registered, lock_open_streams,
                  handler, to_close, open_streams_mutex>>
    BY DEF BeginDestroy, registry, exit
<1>6. /\ op'[t] = [call |-> "destroy", at |-> "close", on |-> s]
      /\ \A u \in Threads \ {t} : op'[u] = op[u]
      /\ Exclusive' /\ Known'
      /\ op' \in [Threads -> Calls]
    BY <1>2, <1>3, <1>4, <1>5, BeginKeeps
<1>7. /\ open_close_mutex' = [open_close_mutex EXCEPT ![s] = t]
      /\ object' = [object EXCEPT ![s] = "gone"]
    BY DEF BeginDestroy, Lock
<1>8. TypeOK'
    BY <1>5, <1>6, <1>7 DEF Inv, TypeOK, Calls
<1>9. Placed'
    BY <1>1, <1>2, <1>5, <1>6, <1>7 DEF Inv, TypeOK, Placed, InCall, Target
<1> QED
    BY <1>5, <1>6, <1>8, <1>9 DEF Inv, FlagIsHandlers

-----------------------------------------------------------------------------
(* Calls go on. *)

LEMMA OpenFileKeepsInv ==
    ASSUME Inv, NEW t \in Threads, OpenFile(t) PROVE Inv'
<1>1. InCall(t) /\ op[t].at = "open"
    BY DEF OpenFile
<1>2. UNCHANGED <<object, open_close_mutex, open_streams, handler_registered,
                  lock_open_streams, handler, to_close, open_streams_mutex>>
    BY DEF OpenFile, registry, exit
<1>3. /\ stream' = [stream EXCEPT ![Target(t)] = TRUE]
      /\ op' = [op EXCEPT ![t].at = "register"]
    BY DEF OpenFile, Goto, Target
<1>4. TypeOK'
    BY <1>2, <1>3 DEF Inv, TypeOK, Target
<1>5. /\ \A u \in Threads : op'[u].call = op[u].call /\ op'[u].on = op[u].on
      /\ \A u \in Threads \ {t} : op'[u].at = op[u].at
      /\ op'[t].at = "register"
    BY <1>3 DEF Inv, TypeOK
<1>6. Exclusive'
    BY <1>5 DEF Inv, Exclusive, InCall, Target
<1>7. \A u \in Threads \ {t} : InCall(u) => Target(u) # Target(t)
    BY <1>1 DEF Inv, Exclusive
<1>8. Placed'
    <2>1. op[t].call \in {"open", "openWithProcess"}
        BY <1>1 DEF Inv, TypeOK, Placed, InCall
    <2>2. \A u \in Threads : op[u].at = "deregister" => InCall(u)
        BY DEF Inv, Placed, InCall
    <2>3. \A u \in Threads : op'[u].at = "deregister" => ~stream'[Target(u)']
        BY <1>3, <1>5, <1>7, <2>2 DEF Inv, TypeOK, Placed, Target
    <2> QED
        BY <1>2, <1>5, <2>1, <2>3 DEF Inv, Placed, Target
<1>9. Known'
    BY <1>1, <1>2, <1>3, <1>5 DEF Inv, TypeOK, Known, Target
<1> QED
    BY <1>2, <1>4, <1>6, <1>8, <1>9 DEF Inv, FlagIsHandlers

\* A call that returns leaves the other calls alone, and their mutexes.
LEMMA ReturnKeeps ==
    ASSUME Inv, NEW t \in Threads, InCall(t), Return(t), Unlock(t, op[t].on)
    PROVE  /\ op' \in [Threads -> Calls]
           /\ op'[t] = Idle
           /\ \A u \in Threads \ {t} : op'[u] = op[u]
           /\ open_close_mutex' \in [Streams -> Threads \cup {NoThread}]
           /\ \A u \in Threads \ {t} : InCall(u) => Target(u) # Target(t)
           /\ \A s \in Streams \ {Target(t)} : open_close_mutex'[s] = open_close_mutex[s]
           /\ Exclusive'
<1>1. op' = [op EXCEPT ![t] = Idle]
    BY DEF Return
<1>2. Idle \in Calls
    BY IdleType DEF Calls
<1>3. op' \in [Threads -> Calls] /\ op'[t] = Idle /\ \A u \in Threads \ {t} : op'[u] = op[u]
    BY <1>1, <1>2 DEF Inv, TypeOK, Calls
<1>4. \A u \in Threads \ {t} : InCall(u) => Target(u) # Target(t)
    BY DEF Inv, Exclusive
<1>5. Exclusive'
    BY <1>3, IdleType DEF Inv, Exclusive, InCall, Target
<1>6. /\ open_close_mutex' \in [Streams -> Threads \cup {NoThread}]
      /\ \A s \in Streams \ {Target(t)} : open_close_mutex'[s] = open_close_mutex[s]
    BY DEF Inv, TypeOK, Unlock, Target
<1> QED
    BY <1>3, <1>4, <1>5, <1>6

LEMMA RegisterKeepsInv ==
    ASSUME Inv, NEW t \in Threads, Register(t) PROVE Inv'
<1>1. InCall(t) /\ op[t].at = "register" /\ Return(t) /\ Unlock(t, op[t].on)
    BY DEF Register
<1>2. UNCHANGED <<stream, handler, to_close, open_streams_mutex>>
    BY DEF Register, exit
<1>3. /\ object' = [object EXCEPT ![Target(t)] = "shared"]
      /\ open_streams' = open_streams \cup {Target(t)}
      /\ handler_registered' = TRUE /\ lock_open_streams' = FALSE
    BY DEF Register, Target
<1>4. Target(t) \in Streams
    BY DEF Inv, TypeOK, Target
<1>5. /\ op' \in [Threads -> Calls]
      /\ op'[t] = Idle
      /\ \A u \in Threads \ {t} : op'[u] = op[u]
      /\ open_close_mutex' \in [Streams -> Threads \cup {NoThread}]
      /\ \A u \in Threads \ {t} : InCall(u) => Target(u) # Target(t)
      /\ \A s \in Streams \ {Target(t)} : open_close_mutex'[s] = open_close_mutex[s]
      /\ Exclusive'
    BY <1>1, ReturnKeeps
<1>6. TypeOK'
    BY <1>2, <1>3, <1>4, <1>5 DEF Inv, TypeOK, Calls
<1>7. Placed'
    BY <1>2, <1>3, <1>5, IdleType DEF Inv, TypeOK, Placed, InCall, Target
<1>8. Known'
    BY <1>2, <1>3, <1>5 DEF Inv, Known, Target
<1> QED
    BY <1>3, <1>5, <1>6, <1>7, <1>8 DEF Inv, FlagIsHandlers

LEMMA CloseFileKeepsInv ==
    ASSUME Inv, NEW t \in Threads, CloseFile(t) PROVE Inv'
<1>1. InCall(t) /\ op[t].at = "close"
    BY DEF CloseFile
<1>2. UNCHANGED <<object, open_streams, handler_registered, lock_open_streams,
                  handler, to_close, open_streams_mutex>>
    BY DEF CloseFile, registry, exit
<1>3. stream' = [stream EXCEPT ![Target(t)] = FALSE]
    BY DEF CloseFile, Target
<1>4. CASE LeavesSet
    <2>1. Return(t) /\ Unlock(t, op[t].on)
        BY <1>4 DEF CloseFile
    <2>2. /\ op' \in [Threads -> Calls]
          /\ op'[t] = Idle
          /\ \A u \in Threads \ {t} : op'[u] = op[u]
          /\ open_close_mutex' \in [Streams -> Threads \cup {NoThread}]
          /\ \A u \in Threads \ {t} : InCall(u) => Target(u) # Target(t)
          /\ \A s \in Streams \ {Target(t)} : open_close_mutex'[s] = open_close_mutex[s]
          /\ Exclusive'
        BY <1>1, <2>1, ReturnKeeps
    <2>3. TypeOK'
        BY <1>2, <1>3, <2>2 DEF Inv, TypeOK, Calls
    <2>4. Placed'
        BY <1>2, <1>3, <2>2, IdleType DEF Inv, TypeOK, Placed, InCall, Target
    <2>5. Known'
        BY <1>1, <1>2, <1>3, <2>2 DEF Inv, TypeOK, Known, Target
    <2> QED
        BY <1>2, <2>2, <2>3, <2>4, <2>5 DEF Inv, FlagIsHandlers
<1>5. CASE ~LeavesSet
    <2>1. op' = [op EXCEPT ![t].at = "deregister"] /\ UNCHANGED open_close_mutex
        BY <1>5 DEF CloseFile, Goto
    <2>2. /\ \A u \in Threads : op'[u].call = op[u].call /\ op'[u].on = op[u].on
          /\ \A u \in Threads \ {t} : op'[u].at = op[u].at
          /\ op'[t].at = "deregister"
        BY <2>1 DEF Inv, TypeOK
    <2>3. TypeOK'
        BY <1>2, <1>3, <2>1 DEF Inv, TypeOK, Target
    <2>4. Exclusive'
        BY <2>2 DEF Inv, Exclusive, InCall, Target
    <2>5. Placed'
        <3>1. op[t].call \in {"close", "destroy"}
            BY <1>1 DEF Inv, TypeOK, Placed, InCall
        <3> QED
            BY <1>2, <1>3, <2>1, <2>2, <3>1 DEF Inv, TypeOK, Placed, Target
    <2>6. Known'
        BY <1>1, <1>2, <1>3, <2>2 DEF Inv, TypeOK, Known, Target
    <2> QED
        BY <1>2, <2>3, <2>4, <2>5, <2>6 DEF Inv, FlagIsHandlers
<1> QED
    BY <1>4, <1>5

LEMMA DeregisterKeepsInv ==
    ASSUME Inv, NEW t \in Threads, Deregister(t) PROVE Inv'
<1>1. InCall(t) /\ op[t].at = "deregister" /\ Return(t) /\ Unlock(t, op[t].on)
    BY DEF Deregister
<1>2. UNCHANGED <<object, stream, handler_registered, lock_open_streams,
                  handler, to_close, open_streams_mutex>>
    BY DEF Deregister, exit
<1>3. open_streams' = open_streams \ {Target(t)}
    BY DEF Deregister, Target
<1>4. /\ op' \in [Threads -> Calls]
      /\ op'[t] = Idle
      /\ \A u \in Threads \ {t} : op'[u] = op[u]
      /\ open_close_mutex' \in [Streams -> Threads \cup {NoThread}]
      /\ \A u \in Threads \ {t} : InCall(u) => Target(u) # Target(t)
      /\ \A s \in Streams \ {Target(t)} : open_close_mutex'[s] = open_close_mutex[s]
      /\ Exclusive'
    BY <1>1, ReturnKeeps
<1>5. TypeOK'
    BY <1>2, <1>3, <1>4 DEF Inv, TypeOK, Calls
<1>6. Placed'
    BY <1>2, <1>4, IdleType DEF Inv, TypeOK, Placed, InCall, Target
<1>7. Known'
    <2>1. ~stream[Target(t)]
        BY <1>1 DEF Inv, Placed
    <2> QED
        BY <1>1, <1>2, <1>3, <1>4, <2>1 DEF Inv, Known, Target
<1> QED
    BY <1>2, <1>4, <1>5, <1>6, <1>7 DEF Inv, FlagIsHandlers

-----------------------------------------------------------------------------
(* The handler. *)

LEMMA ExitKeepsInv == ASSUME Inv, Exit PROVE Inv'
<1>1. UNCHANGED <<objects, registry, op, to_close, open_streams_mutex>>
    BY DEF Exit
<1>2. handler = "none" /\ handler' = "begin"
    BY DEF Exit
<1> QED
    BY <1>1, <1>2
    DEF objects, registry, Inv, TypeOK, Placed, Exclusive, Known, FlagIsHandlers, InCall, Target

LEMMA HandlerKeepsInv == ASSUME Inv, Handler PROVE Inv'
<1>1. UNCHANGED <<object, open_close_mutex, handler_registered, op>>
    BY DEF Handler, HandlerBegins, HandlerCloses, HandlerReturns, objects, registry
<1>2. CASE HandlerBegins
    <2>1. /\ UNCHANGED <<stream, open_streams>> /\ to_close' = open_streams
          /\ open_streams_mutex' = ExitThread /\ lock_open_streams' = TRUE
          /\ handler = "begin" /\ handler' = "loop"
        BY <1>2 DEF HandlerBegins, objects
    <2> QED
        BY <1>1, <2>1
        DEF Inv, TypeOK, Placed, Exclusive, Known, FlagIsHandlers, InCall, Target
<1>3. ASSUME NEW s \in Streams, HandlerCloses(s) PROVE Inv'
    <2>1. /\ UNCHANGED <<open_streams, lock_open_streams, handler, open_streams_mutex>>
          /\ stream' = [stream EXCEPT ![s] = FALSE] /\ to_close' = to_close \ {s}
        BY <1>3 DEF HandlerCloses, registry
    <2> QED
        BY <1>1, <2>1
        DEF Inv, TypeOK, Placed, Exclusive, Known, FlagIsHandlers, InCall, Target
<1>4. CASE HandlerReturns
    <2>1. /\ UNCHANGED <<stream, to_close>> /\ open_streams' = {}
          /\ open_streams_mutex' = NoThread /\ lock_open_streams' = FALSE
          /\ handler' = "returned"
        BY <1>4 DEF HandlerReturns, objects
    <2> QED
        BY <1>1, <2>1
        DEF Inv, TypeOK, Placed, Exclusive, Known, FlagIsHandlers, InCall, Target
<1> QED
    BY <1>2, <1>3, <1>4 DEF Handler

-----------------------------------------------------------------------------
(* What always holds. *)

LEMMA InitInv == Init => Inv
BY IdleType, RegistryAssumption
DEF Init, Inv, TypeOK, Placed, Exclusive, Known, FlagIsHandlers, InCall, Target

LEMMA NextInv == Inv /\ [Next]_vars => Inv'
<1> SUFFICES ASSUME Inv, [Next]_vars PROVE Inv'
    OBVIOUS
<1>1. ASSUME NEW t \in Threads, NEW s \in Streams,
             BeginOpen(t, s) \/ BeginOpenWithProcess(t, s) \/ BeginClose(t, s) \/ BeginDestroy(t, s)
      PROVE  Inv'
    BY <1>1, BeginOpenKeepsInv, BeginOpenWithProcessKeepsInv, BeginCloseKeepsInv,
       BeginDestroyKeepsInv
<1>2. ASSUME NEW t \in Threads, Step(t) PROVE Inv'
    BY <1>2, OpenFileKeepsInv, RegisterKeepsInv, CloseFileKeepsInv, DeregisterKeepsInv DEF Step
<1>3. CASE UNCHANGED vars
    BY <1>3
    DEF vars, objects, registry, exit, Inv, TypeOK, Placed, Exclusive, Known, FlagIsHandlers,
        InCall, Target
<1> QED
    BY <1>1, <1>2, <1>3, ExitKeepsInv, HandlerKeepsInv DEF Next

LEMMA Invariance == Spec => []Inv
BY InitInv, NextInv, PTL DEF Spec

\* Every variable keeps its type.
THEOREM RegistryTypeCorrect == Spec => []TypeOK
<1>1. Inv => TypeOK
    BY DEF Inv
<1> QED
    BY <1>1, Invariance, PTL

\* An open stream that no call is opening is in open_streams_, however open,
\* openWithProcess, close, destructors and the handler meet: with the handler
\* running among the threads, too (registerExitHandler_, close_).
THEOREM OpenStreamsAreKnown == Spec => []OpenStreamsAreRegistered
<1>1. Inv => OpenStreamsAreRegistered
    BY DEF Inv, Placed, Known, OpenStreamsAreRegistered, Unused, InCall, Target
<1> QED
    BY <1>1, Invariance, PTL

-----------------------------------------------------------------------------
(* What holds when the handler runs after the other threads. *)

\* A call begins when the handler has not.  None of its streams is gone, but for
\* the one that it destroys.
LEMMA BeginKeepsAtExit ==
    ASSUME ~ConcurrentExit, Inv, AtExit, NEW t \in Threads, NEW s \in Streams,
           BeginOpen(t, s) \/ BeginOpenWithProcess(t, s) \/ BeginClose(t, s) \/ BeginDestroy(t, s)
    PROVE  AtExit'
<1>1. handler = "none" /\ ~InCall(t)
    BY DEF BeginOpen, BeginOpenWithProcess, BeginClose, BeginDestroy, MayCall, ProgramRuns
<1>2. UNCHANGED <<stream, open_streams, handler, to_close>>
    BY DEF BeginOpen, BeginOpenWithProcess, BeginClose, BeginDestroy, objects, registry, exit
<1>3. PICK call \in {"open", "openWithProcess", "close", "destroy"}, at \in {"open", "close"} :
         Call(t, call, s, at)
    BY DEF BeginOpen, BeginOpenWithProcess, BeginClose, BeginDestroy
<1>4. InCall(t)' /\ Target(t)' = s /\ \A u \in Threads \ {t} : op'[u] = op[u]
    BY <1>3 DEF Call, Inv, TypeOK, InCall, Target
<1>5. \A r \in Streams \ {s} : object'[r] = object[r]
    BY DEF BeginOpen, BeginOpenWithProcess, BeginClose, BeginDestroy, objects, Inv, TypeOK
<1>6. ASSUME NEW r \in open_streams, object'[r] = "gone"
      PROVE  \E u \in Threads : InCall(u)' /\ Target(u)' = r
    <2>1. CASE r = s
        BY <1>4, <2>1
    <2>2. CASE r # s
        <3>1. PICK u \in Threads : InCall(u) /\ Target(u) = r
            BY <1>1, <1>5, <1>6, <2>2 DEF AtExit, Inv, TypeOK
        <3>2. u # t
            BY <1>1, <3>1
        <3> QED
            BY <1>4, <3>1, <3>2 DEF InCall, Target
    <2> QED
        BY <2>1, <2>2
<1> QED
    BY <1>1, <1>2, <1>6 DEF AtExit

\* A call is only in progress when the handler has not begun, so that it finds
\* the flag down and does not leave its stream in the set.
LEMMA StepKeepsAtExit ==
    ASSUME Inv, AtExit, NEW t \in Threads, Step(t) PROVE AtExit'
<1>1. InCall(t)
    BY DEF Step, OpenFile, Register, CloseFile, Deregister
<1>2. handler = "none" /\ handler' = "none" /\ ~lock_open_streams
    BY <1>1 DEF Step, OpenFile, Register, CloseFile, Deregister, exit, AtExit, Inv, FlagIsHandlers
<1>3. Target(t) \in Streams
    BY DEF Inv, TypeOK, Target
<1>4. \A u \in Threads \ {t} : op'[u] = op[u]
    BY DEF Step, OpenFile, Register, CloseFile, Deregister, Goto, Return, Inv, TypeOK
<1>5. \A r \in open_streams' : r # Target(t) => r \in open_streams /\ object'[r] = object[r]
    BY <1>3 DEF Step, OpenFile, Register, CloseFile, Deregister, registry, Inv, TypeOK, Target
<1>6. Target(t) \in open_streams' /\ object'[Target(t)] = "gone" =>
          InCall(t)' /\ Target(t)' = Target(t)
    <2>1. CASE Register(t)
        BY <1>3, <2>1 DEF Register, Inv, TypeOK, Target
    <2>2. CASE Deregister(t)
        BY <2>2 DEF Deregister, Target
    <2>3. CASE OpenFile(t) \/ CloseFile(t)
        BY <1>1, <1>2, <2>3 DEF OpenFile, CloseFile, LeavesSet, Goto, Inv, TypeOK, InCall, Target
    <2> QED
        BY <2>1, <2>2, <2>3 DEF Step
<1>7. ASSUME NEW r \in open_streams', object'[r] = "gone"
      PROVE  \E u \in Threads : InCall(u)' /\ Target(u)' = r
    <2>1. CASE r = Target(t)
        BY <1>6, <1>7, <2>1
    <2>2. CASE r # Target(t)
        <3>1. PICK u \in Threads : InCall(u) /\ Target(u) = r
            BY <1>2, <1>5, <1>7, <2>2 DEF AtExit
        <3>2. u # t
            BY <2>2, <3>1
        <3> QED
            BY <1>4, <3>1, <3>2 DEF InCall, Target
    <2> QED
        BY <2>1, <2>2
<1> QED
    BY <1>2, <1>7 DEF AtExit

LEMMA ExitKeepsAtExit ==
    ASSUME ~ConcurrentExit, Inv, AtExit, Exit PROVE AtExit'
BY DEF Exit, objects, registry, AtExit, InCall, Target

LEMMA HandlerKeepsAtExit ==
    ASSUME Inv, AtExit, Handler PROVE AtExit'
<1>1. UNCHANGED <<object, op>>
    BY DEF Handler, HandlerBegins, HandlerCloses, HandlerReturns, objects
<1>2. CASE HandlerBegins
    <2>1. /\ UNCHANGED <<stream, open_streams>> /\ to_close' = open_streams
          /\ handler = "begin" /\ handler' = "loop"
        BY <1>2 DEF HandlerBegins, objects
    <2>2. \A t \in Threads : ~InCall(t)
        BY <2>1 DEF AtExit
    <2>3. \A s \in Streams : stream[s] => s \in open_streams
        BY <2>1, <2>2 DEF Inv, Known, Placed, InCall
    <2> QED
        BY <1>1, <2>1, <2>2, <2>3 DEF AtExit, InCall, Target
<1>3. ASSUME NEW s \in Streams, HandlerCloses(s) PROVE AtExit'
    <2>1. /\ UNCHANGED <<open_streams, handler>> /\ handler = "loop"
          /\ stream' = [stream EXCEPT ![s] = FALSE] /\ to_close' = to_close \ {s}
        BY <1>3 DEF HandlerCloses, registry
    <2> QED
        BY <1>1, <2>1 DEF AtExit, Inv, TypeOK, InCall, Target
<1>4. CASE HandlerReturns
    <2>1. /\ UNCHANGED stream /\ to_close = {}
          /\ handler = "loop" /\ handler' = "returned"
        BY <1>4 DEF HandlerReturns, objects
    <2> QED
        BY <1>1, <2>1 DEF AtExit, InCall
<1> QED
    BY <1>2, <1>3, <1>4 DEF Handler

LEMMA ExitInvariance == ASSUME ~ConcurrentExit PROVE Spec => [](Inv /\ AtExit)
<1>1. Init => AtExit
    BY DEF Init, AtExit
<1>2. Inv /\ AtExit /\ [Next]_vars => AtExit'
    <2> SUFFICES ASSUME Inv, AtExit, [Next]_vars PROVE AtExit'
        OBVIOUS
    <2>1. CASE UNCHANGED vars
        BY <2>1 DEF vars, objects, registry, exit, AtExit, InCall, Target
    <2> QED
        BY <2>1, BeginKeepsAtExit, StepKeepsAtExit, ExitKeepsAtExit, HandlerKeepsAtExit DEF Next
<1> QED
    BY <1>1, <1>2, Invariance, PTL DEF Spec

\* When the handler runs after the other threads, it never comes upon a stream
\* that has been destroyed: a destructor takes its stream out of open_streams_
\* before it returns (~STFFstream, close_, cleanupStreams_).
THEOREM RegistryIsLive == ASSUME ~ConcurrentExit PROVE Spec => []RegistryHoldsLiveStreams
<1>1. AtExit => RegistryHoldsLiveStreams
    BY DEF AtExit, RegistryHoldsLiveStreams, Unused, Target
<1> QED
    BY <1>1, ExitInvariance, PTL

\* When the handler runs after the other threads, no stream is open behind it:
\* the last chunk of every trace is in its file (cleanupStreams_).
THEOREM StreamsCloseAtExit == ASSUME ~ConcurrentExit PROVE Spec => []ExitClosesStreams
<1>1. AtExit => ExitClosesStreams
    BY DEF AtExit, ExitClosesStreams
<1> QED
    BY <1>1, ExitInvariance, PTL
==============================================================================
