--------------------------- MODULE StreamRegistry ---------------------------
(***************************************************************************)
(* STFFstream: opening, closing and destroying streams from several        *)
(* threads, and the atexit handler cleanupStreams_ that closes what is     *)
(* still open when the program exits.  Every stream has a mutex of its     *)
(* own, open_close_mutex_; the set open_streams_ of all open streams has   *)
(* open_streams_mutex_.  A call takes the first and then the second, the   *)
(* handler the second and then the first.  The flag lock_open_streams_,    *)
(* which close_() reads without a lock, tells it to leave the set to the   *)
(* handler.                                                                *)
(***************************************************************************)
EXTENDS Naturals, FiniteSets

CONSTANTS
    Threads,        \* threads that use streams
    Streams,        \* stream objects
    NoThread,       \* nobody
    ExitThread,     \* the thread that runs the handler
    ConcurrentExit  \* the other threads go on while the handler runs

ASSUME RegistryAssumption ==
    /\ NoThread \notin Threads
    /\ ExitThread \notin Threads \cup {NoThread}
    /\ ConcurrentExit \in BOOLEAN
    /\ Streams # {}

VARIABLES
    object,             \* "new": only its creator knows it; "shared"; "gone"
    stream,             \* stream_ is not null
    open_close_mutex,   \* who holds each open_close_mutex_
    open_streams_mutex, \* who holds open_streams_mutex_
    lock_open_streams,  \* lock_open_streams_
    open_streams,       \* open_streams_
    handler_registered, \* atexit_handler_registered_
    op,                 \* the call each thread is in, and its next step
    handler,            \* how far cleanupStreams_ is
    to_close            \* what is left of its loop

objects == <<object, stream, open_close_mutex>>
registry == <<open_streams, handler_registered, lock_open_streams>>
exit == <<handler, to_close, open_streams_mutex>>
vars == <<objects, registry, op, exit>>

Idle == [call |-> "none", at |-> "none", on |-> CHOOSE s \in Streams : TRUE]
InCall(t) == op[t].call # "none"
Call(t, call, s, at) == op' = [op EXCEPT ![t] = [call |-> call, at |-> at, on |-> s]]
Goto(t, at) == op' = [op EXCEPT ![t].at = at]
Return(t) == op' = [op EXCEPT ![t] = Idle]

Lock(s, who) ==
    /\ open_close_mutex[s] = NoThread
    /\ open_close_mutex' = [open_close_mutex EXCEPT ![s] = who]

\* The lock_guard of the call goes out of scope (openWithProcess has none); and
\* a variant that keeps the mutex.
NoUnlock(t, s) == open_close_mutex' = open_close_mutex
Unlock(t, s) ==
    open_close_mutex' = IF open_close_mutex[s] = t
                        THEN [open_close_mutex EXCEPT ![s] = NoThread]
                        ELSE open_close_mutex

Init ==
    /\ object = [s \in Streams |-> "new"]
    /\ stream = [s \in Streams |-> FALSE]
    /\ open_close_mutex = [s \in Streams |-> NoThread]
    /\ open_streams_mutex = NoThread
    /\ lock_open_streams = FALSE
    /\ open_streams = {}
    /\ handler_registered = FALSE
    /\ op = [t \in Threads |-> Idle]
    /\ handler = "none"
    /\ to_close = {}

-----------------------------------------------------------------------------
(* Calls. *)

\* What the program does while, or after, the handler runs.
ProgramRuns == handler # "returned" /\ (ConcurrentExit \/ handler = "none")

MayCall(t, s) ==
    /\ ProgramRuns
    /\ ~InCall(t)
    /\ object[s] # "gone"
    /\ object[s] = "new" => \A u \in Threads : op[u].on = s => ~InCall(u)

\* Nobody destroys an object that another thread is using.
Unused(s) == \A t \in Threads : op[t].on = s => ~InCall(t)

\* open() takes open_close_mutex_; it throws at once if the stream is open.
BeginOpen(t, s) ==
    /\ MayCall(t, s)
    /\ Lock(s, t)
    /\ ~stream[s]
    /\ Call(t, "open", s, "open")
    /\ UNCHANGED <<object, stream, registry, exit>>

\* openWithProcess() takes no lock; the readers and writers of a trace only
\* call it on a stream they have just constructed.
BeginOpenWithProcess(t, s) ==
    /\ MayCall(t, s)
    /\ object[s] = "new"
    /\ ~stream[s]
    /\ Call(t, "openWithProcess", s, "open")
    /\ UNCHANGED <<objects, registry, exit>>

BeginClose(t, s) ==
    /\ MayCall(t, s)
    /\ object[s] = "shared"
    /\ Lock(s, t)
    /\ Call(t, "close", s, "close")
    /\ UNCHANGED <<object, stream, registry, exit>>

\* The destructor closes the stream under the same lock.
BeginDestroy(t, s) ==
    /\ MayCall(t, s)
    /\ object[s] = "shared"
    /\ Unused(s)
    /\ Lock(s, t)
    /\ Call(t, "destroy", s, "close")
    /\ object' = [object EXCEPT ![s] = "gone"]
    /\ UNCHANGED <<stream, registry, exit>>

OpenFile(t) ==
    /\ InCall(t)
    /\ op[t].at = "open"
    /\ stream' = [stream EXCEPT ![op[t].on] = TRUE]
    /\ Goto(t, "register")
    /\ UNCHANGED <<object, open_close_mutex, registry, exit>>

\* registerExitHandler_, and the return of open().
Register(t) ==
    /\ InCall(t)
    /\ op[t].at = "register"
    /\ open_streams_mutex = NoThread
    /\ lock_open_streams' = FALSE
    /\ open_streams' = open_streams \cup {op[t].on}
    /\ handler_registered' = TRUE
    /\ object' = [object EXCEPT ![op[t].on] = "shared"]
    /\ Unlock(t, op[t].on)
    /\ Return(t)
    /\ UNCHANGED <<stream, exit>>

\* close_() up to the test of lock_open_streams_, and the return of the call
\* if the set is left to the handler; and variants that test the flag the
\* wrong way round or release the stream before the set is up to date.
LeavesSetWhenFree == ~lock_open_streams
LeavesSet == lock_open_streams

CloseFileUnlocks(t) ==
    /\ InCall(t)
    /\ op[t].at = "close"
    /\ stream' = [stream EXCEPT ![op[t].on] = FALSE]
    /\ Unlock(t, op[t].on)
    /\ IF LeavesSet THEN Return(t) ELSE Goto(t, "deregister")
    /\ UNCHANGED <<object, registry, exit>>

CloseFile(t) ==
    /\ InCall(t)
    /\ op[t].at = "close"
    /\ stream' = [stream EXCEPT ![op[t].on] = FALSE]
    /\ IF LeavesSet
       THEN Unlock(t, op[t].on) /\ Return(t)
       ELSE Goto(t, "deregister") /\ UNCHANGED open_close_mutex
    /\ UNCHANGED <<object, registry, exit>>

Deregister(t) ==
    /\ InCall(t)
    /\ op[t].at = "deregister"
    /\ open_streams_mutex = NoThread
    /\ open_streams' = open_streams \ {op[t].on}
    /\ Unlock(t, op[t].on)
    /\ Return(t)
    /\ UNCHANGED <<object, stream, handler_registered, lock_open_streams, exit>>

Step(t) == OpenFile(t) \/ Register(t) \/ CloseFile(t) \/ Deregister(t)

-----------------------------------------------------------------------------
(* The handler: cleanupStreams_. *)

\* exit() runs the handler.
Exit ==
    /\ handler = "none"
    /\ handler_registered
    /\ ConcurrentExit \/ \A t \in Threads : ~InCall(t)
    /\ handler' = "begin"
    /\ UNCHANGED <<objects, registry, op, to_close, open_streams_mutex>>

HandlerBegins ==
    /\ handler = "begin"
    /\ open_streams_mutex = NoThread
    /\ open_streams_mutex' = ExitThread
    /\ lock_open_streams' = TRUE
    /\ to_close' = open_streams
    /\ handler' = "loop"
    /\ UNCHANGED <<objects, open_streams, handler_registered, op>>

\* s->close() of one stream takes open_close_mutex_ and, as close_() sees
\* lock_open_streams_, leaves the set alone.
HandlerCloses(s) ==
    /\ handler = "loop"
    /\ s \in to_close
    /\ open_close_mutex[s] = NoThread
    /\ stream' = [stream EXCEPT ![s] = FALSE]
    /\ to_close' = to_close \ {s}
    /\ UNCHANGED <<object, open_close_mutex, registry, op, handler, open_streams_mutex>>

HandlerReturns ==
    /\ handler = "loop"
    /\ to_close = {}
    /\ open_streams' = {}
    /\ lock_open_streams' = FALSE
    /\ open_streams_mutex' = NoThread
    /\ handler' = "returned"
    /\ UNCHANGED <<objects, handler_registered, op, to_close>>

Handler == HandlerBegins \/ (\E s \in Streams : HandlerCloses(s)) \/ HandlerReturns

-----------------------------------------------------------------------------

Next ==
    \/ \E t \in Threads, s \in Streams :
          \/ BeginOpen(t, s) \/ BeginOpenWithProcess(t, s)
          \/ BeginClose(t, s) \/ BeginDestroy(t, s)
    \/ \E t \in Threads : Step(t)
    \/ Exit
    \/ Handler

\* Threads inside a call and the handler are scheduled as long as no lock
\* stops them.
Spec ==
    /\ Init /\ [][Next]_vars
    /\ \A t \in Threads : WF_vars(Step(t))
    /\ WF_vars(Handler)

-----------------------------------------------------------------------------
(* Properties. *)

TypeOK ==
    /\ object \in [Streams -> {"new", "shared", "gone"}]
    /\ stream \in [Streams -> BOOLEAN]
    /\ open_close_mutex \in [Streams -> Threads \cup {NoThread}]
    /\ open_streams_mutex \in {NoThread, ExitThread}
    /\ lock_open_streams \in BOOLEAN
    /\ open_streams \subseteq Streams
    /\ handler_registered \in BOOLEAN
    /\ op \in [Threads ->
                 [call : {"none", "open", "openWithProcess", "close", "destroy"},
                  at : {"none", "open", "register", "close", "deregister"},
                  on : Streams]]
    /\ handler \in {"none", "begin", "loop", "returned"}
    /\ to_close \subseteq Streams

\* A stream that is open, and that no call is opening, is known to the
\* handler: whatever calls went on at the same time, none is left out of
\* open_streams_ when the program exits, and its last chunk lost.
OpenStreamsAreRegistered ==
    \A s \in Streams :
        stream[s] /\ Unused(s) => s \in open_streams \/ handler = "returned"

\* The handler finds no stream that has been destroyed.
RegistryHoldsLiveStreams ==
    handler \in {"none", "begin", "loop"} =>
        \A s \in open_streams : object[s] = "gone" => ~Unused(s)

\* After the handler all streams are closed.
ExitClosesStreams == handler = "returned" => \A s \in Streams : ~stream[s]

\* Every call returns, and so does the handler.
CallsReturn ==
    /\ \A t \in Threads : InCall(t) ~> ~InCall(t)
    /\ handler = "begin" ~> handler = "returned"

\* open_streams_mutex_ is "used to ensure atexit handler is thread-safe": the
\* handler does not wait for a thread that waits for the handler.
NoLockCycle ==
    ~ /\ handler = "loop"
      /\ to_close # {}
      /\ \A s \in to_close :
            \E t \in Threads :
               /\ open_close_mutex[s] = t
               /\ op[t].at \in {"register", "deregister"}

=============================================================================
