----------------------------- MODULE StreamQueue -----------------------------
(***************************************************************************)
(* Queue<T> (src/src/queue.hpp): the pool of stream ids every servable of  *)
(* the server takes its inference request, graph instance, pipeline slot   *)
(* or buffer from.  A circular buffer holds the idle ids; a FIFO of        *)
(* promises holds the callers that found the buffer empty.  The front of   *)
(* the buffer is guarded by front_mut and the back, with the promises, by  *)
(* queue_mutex, so a get and a return overlap; each action below is the    *)
(* code between two points where another thread can step in.               *)
(*                                                                         *)
(* A client is one guard object (StreamIdGuard, NodeStreamIdGuard,         *)
(* GraphIdGuard, PipelineSlotGuard): it asks for a stream, waits on its    *)
(* future, uses the stream and returns it.                                 *)
(***************************************************************************)
EXTENDS Integers, Sequences, FiniteSets

CONSTANTS
    Clients,        \* guard objects that share the queue
    NoClient,       \* "mutex is free" / "no promise popped"
    StreamsLength   \* the constructor's streamsLength (nireq)

ASSUME StreamsLengthAssumption == StreamsLength \in Nat \ {0}
ASSUME NoClientAssumption == NoClient \notin Clients

VARIABLES
    streams,        \* circular buffer of idle ids, -1 in a consumed slot
    front_idx,      \* next slot to take from
    back_idx,       \* next slot to return to
    promises,       \* clients whose promise is queued, oldest first
    front_mut,      \* owner of front_mut
    queue_mutex,    \* owner of queue_mutex
    pc,             \* where each client is
    held,           \* the id in a client's future or guard, -1 for none
    old_back,       \* local of returnStream: the slot it reserved
    popped          \* local of returnStream: the promise it popped

vars == <<streams, front_idx, back_idx, promises, front_mut, queue_mutex,
          pc, held, old_back, popped>>

Slots == 0 .. StreamsLength - 1
Streams == 0 .. StreamsLength - 1

Control == {"out",                                   \* owns nothing
            "get_read", "get_clear", "get_push",     \* in getIdleStream
            "try_read", "try_clear",                 \* in tryToGetIdleStream
            "waiting",                               \* in future.get()
            "using",                                 \* owns the stream
            "ret_check", "ret_write", "ret_set"}     \* in returnStream

TypeOK ==
    /\ streams \in [Slots -> Streams \cup {-1}]
    /\ front_idx \in Slots
    /\ back_idx \in Slots
    /\ promises \in Seq(Clients)
    /\ front_mut \in Clients \cup {NoClient}
    /\ queue_mutex \in Clients \cup {NoClient}
    /\ pc \in [Clients -> Control]
    /\ held \in [Clients -> Streams \cup {-1}]
    /\ old_back \in [Clients -> Slots]
    /\ popped \in [Clients -> Clients \cup {NoClient}]

Init ==
    /\ streams = [i \in Slots |-> i]
    /\ front_idx = 0
    /\ back_idx = 0
    /\ promises = <<>>
    /\ front_mut = NoClient
    /\ queue_mutex = NoClient
    /\ pc = [c \in Clients |-> "out"]
    /\ held = [c \in Clients |-> -1]
    /\ old_back = [c \in Clients |-> 0]
    /\ popped = [c \in Clients |-> NoClient]

-----------------------------------------------------------------------------
(* Plausible mistakes in the code below; each is there to show that some    *)
(* property of this module notices it, and no specification uses them.      *)

\* The consumed slot is not marked.
ClearsFrontKeepsId(c) ==
    /\ pc[c] \in {"get_clear", "try_clear"}
    /\ front_idx' = (front_idx + 1) % StreamsLength
    /\ front_mut' = NoClient
    /\ pc' = [pc EXCEPT ![c] = "using"]
    /\ UNCHANGED <<streams, back_idx, promises, queue_mutex, held, old_back,
                   popped>>

\* The promise is read but stays in the queue.
ReturnPeeksPromise(c) ==
    /\ pc[c] = "ret_check"
    /\ promises # <<>>
    /\ popped' = [popped EXCEPT ![c] = Head(promises)]
    /\ queue_mutex' = NoClient
    /\ pc' = [pc EXCEPT ![c] = "ret_set"]
    /\ UNCHANGED <<streams, front_idx, back_idx, promises, front_mut, held,
                   old_back>>

\* The stream may go back to the buffer although a promise is queued.
ReturnIgnoresPromises(c) ==
    /\ pc[c] = "ret_check"
    /\ old_back' = [old_back EXCEPT ![c] = back_idx]
    /\ back_idx' = (back_idx + 1) % StreamsLength
    /\ pc' = [pc EXCEPT ![c] = "ret_write"]
    /\ UNCHANGED <<streams, front_idx, promises, front_mut, queue_mutex, held,
                   popped>>

-----------------------------------------------------------------------------
NextSlot(i) == (i + 1) % StreamsLength

-----------------------------------------------------------------------------
(* getIdleStream and tryToGetIdleStream *)

LockFront(c, where) ==
    /\ pc[c] = "out"
    /\ front_mut = NoClient
    /\ front_mut' = c
    /\ pc' = [pc EXCEPT ![c] = where]
    /\ UNCHANGED <<streams, front_idx, back_idx, promises, queue_mutex, held,
                   old_back, popped>>

GetIdleStream(c) == LockFront(c, "get_read")
TryToGetIdleStream(c) == LockFront(c, "try_read")

\* streams[front_idx] < 0: the caller will queue its promise, but it only
\* takes queue_mutex afterwards.
GetSeesEmpty(c) ==
    /\ pc[c] = "get_read"
    /\ streams[front_idx] < 0
    /\ pc' = [pc EXCEPT ![c] = "get_push"]
    /\ UNCHANGED <<streams, front_idx, back_idx, promises, front_mut,
                   queue_mutex, held, old_back, popped>>

GetPushesPromise(c) ==
    /\ pc[c] = "get_push"
    /\ queue_mutex = NoClient
    /\ promises' = Append(promises, c)
    /\ front_mut' = NoClient
    /\ pc' = [pc EXCEPT ![c] = "waiting"]
    /\ UNCHANGED <<streams, front_idx, back_idx, queue_mutex, held, old_back,
                   popped>>

\* The optional is empty: the caller gives up.
TrySeesEmpty(c) ==
    /\ pc[c] = "try_read"
    /\ streams[front_idx] < 0
    /\ front_mut' = NoClient
    /\ pc' = [pc EXCEPT ![c] = "out"]
    /\ UNCHANGED <<streams, front_idx, back_idx, promises, queue_mutex, held,
                   old_back, popped>>

ReadsFront(c) ==
    /\ pc[c] \in {"get_read", "try_read"}
    /\ streams[front_idx] >= 0
    /\ held' = [held EXCEPT ![c] = streams[front_idx]]
    /\ pc' = [pc EXCEPT ![c] = IF pc[c] = "get_read" THEN "get_clear"
                                                     ELSE "try_clear"]
    /\ UNCHANGED <<streams, front_idx, back_idx, promises, front_mut,
                   queue_mutex, old_back, popped>>

ClearsFront(c) ==
    /\ pc[c] \in {"get_clear", "try_clear"}
    /\ streams' = [streams EXCEPT ![front_idx] = -1]
    /\ front_idx' = NextSlot(front_idx)
    /\ front_mut' = NoClient
    /\ pc' = [pc EXCEPT ![c] = "using"]
    /\ UNCHANGED <<back_idx, promises, queue_mutex, held, old_back, popped>>

\* futureStreamId.get() returns once the promise has its value.
FutureGet(c) ==
    /\ pc[c] = "waiting"
    /\ held[c] # -1
    /\ pc' = [pc EXCEPT ![c] = "using"]
    /\ UNCHANGED <<streams, front_idx, back_idx, promises, front_mut,
                   queue_mutex, held, old_back, popped>>

-----------------------------------------------------------------------------
(* returnStream, called by the guard's destructor *)

ReturnLocks(c) ==
    /\ pc[c] = "using"
    /\ queue_mutex = NoClient
    /\ queue_mutex' = c
    /\ pc' = [pc EXCEPT ![c] = "ret_check"]
    /\ UNCHANGED <<streams, front_idx, back_idx, promises, front_mut, held,
                   old_back, popped>>

ReturnPopsPromise(c) ==
    /\ pc[c] = "ret_check"
    /\ promises # <<>>
    /\ popped' = [popped EXCEPT ![c] = Head(promises)]
    /\ promises' = Tail(promises)
    /\ queue_mutex' = NoClient
    /\ pc' = [pc EXCEPT ![c] = "ret_set"]
    /\ UNCHANGED <<streams, front_idx, back_idx, front_mut, held, old_back>>

\* promise.set_value(streamID), after the unlock: the id moves to the
\* popped client's future.
ReturnSetsValue(c) ==
    /\ pc[c] = "ret_set"
    /\ held' = [held EXCEPT ![popped[c]] = held[c], ![c] = -1]
    /\ popped' = [popped EXCEPT ![c] = NoClient]
    /\ pc' = [pc EXCEPT ![c] = "out"]
    /\ UNCHANGED <<streams, front_idx, back_idx, promises, front_mut,
                   queue_mutex, old_back>>

\* The compare-exchange loop: back_idx changes only under queue_mutex, so it
\* advances by one exactly once.
ReturnReservesSlot(c) ==
    /\ pc[c] = "ret_check"
    /\ promises = <<>>
    /\ old_back' = [old_back EXCEPT ![c] = back_idx]
    /\ back_idx' = NextSlot(back_idx)
    /\ pc' = [pc EXCEPT ![c] = "ret_write"]
    /\ UNCHANGED <<streams, front_idx, promises, front_mut, queue_mutex, held,
                   popped>>

ReturnWritesSlot(c) ==
    /\ pc[c] = "ret_write"
    /\ streams' = [streams EXCEPT ![old_back[c]] = held[c]]
    /\ held' = [held EXCEPT ![c] = -1]
    /\ queue_mutex' = NoClient
    /\ pc' = [pc EXCEPT ![c] = "out"]
    /\ UNCHANGED <<front_idx, back_idx, promises, front_mut, old_back, popped>>

-----------------------------------------------------------------------------
\* Everything a client does on its own once it has called the queue, up to
\* the return of its stream; asking again is the environment's choice.
ClientStep(c) ==
    \/ GetSeesEmpty(c)
    \/ GetPushesPromise(c)
    \/ TrySeesEmpty(c)
    \/ ReadsFront(c)
    \/ ClearsFront(c)
    \/ FutureGet(c)
    \/ ReturnLocks(c)
    \/ ReturnPopsPromise(c)
    \/ ReturnSetsValue(c)
    \/ ReturnReservesSlot(c)
    \/ ReturnWritesSlot(c)

Next ==
    \E c \in Clients : GetIdleStream(c) \/ TryToGetIdleStream(c) \/ ClientStep(c)

Spec == Init /\ [][Next]_vars

\* Threads keep running: a client inside the queue keeps stepping, and the
\* guard that owns a stream is destroyed some time.  A mutex a thread asks for
\* again and again is granted some time (strong fairness where one is taken).
\* Nobody is obliged to send another request.
Fairness ==
    \A c \in Clients :
        /\ WF_vars(ClientStep(c))
        /\ SF_vars(GetPushesPromise(c))
        /\ SF_vars(ReturnLocks(c))

FairSpec == Spec /\ Fairness

-----------------------------------------------------------------------------
(* Properties *)

\* Idle in the buffer: a slot no getter is about to clear.
IdleSlot(i) ==
    /\ streams[i] >= 0
    /\ ~ \E c \in Clients : /\ pc[c] \in {"get_clear", "try_clear"}
                            /\ i = front_idx

\* The ids a client can use or pass on.
Owns(c, s) == held[c] = s

\* No stream id is in two places: two clients never own the same id, an
\* owned id is not also idle in the buffer, and no id is in the buffer twice.
\* This is what makes getInferRequest(id) safe to use without a lock.
UniqueOwner ==
    /\ \A c, d \in Clients : held[c] # -1 /\ held[c] = held[d] => c = d
    /\ \A c \in Clients, i \in Slots :
          held[c] # -1 /\ IdleSlot(i) => streams[i] # held[c]
    /\ \A i, j \in Slots : streams[i] >= 0 /\ streams[i] = streams[j] => i = j

\* No stream id is lost: each is idle in the buffer or owned by some client,
\* whatever returns and gets are in progress.
NoStreamLost ==
    \A s \in Streams : \/ \E i \in Slots : streams[i] = s
                       \/ \E c \in Clients : Owns(c, s)

\* A returned id is only ever written to a consumed slot, although front_idx
\* and back_idx move under different mutexes.
WritesConsumedSlot ==
    \A c \in Clients : pc[c] = "ret_write" => streams[old_back[c]] = -1

\* The queue implements the abstract pool: a stream is owned by the client
\* whose guard or future holds its id.
OwnerIn(h, s) ==
    IF \E c \in Clients : h[c] = s
    THEN CHOOSE c \in Clients : h[c] = s
    ELSE NoClient

owner == [s \in Streams |-> OwnerIn(held, s)]

Pool == INSTANCE StreamPool WITH Nobody <- NoClient

\* getIdleStream, tryToGetIdleStream and returnStream, interleaved at will,
\* do what StreamPool says: an id leaves its owner only by the owner's own
\* returnStream, and goes to the idle ids or to one client without an id.
ImplementsPool == Pool!Spec

\* A client whose promise was queued is served in its turn for as long as
\* streams keep being returned, whatever the other callers take from the
\* buffer in between.
ServedWhileReturnsContinue ==
    \A c \in Clients :
        ([]<><<\E d \in Clients : ReturnLocks(d)>>_vars)
            => (pc[c] = "waiting" ~> pc[c] = "using")

\* The ring, the promises and the clients agree at every step: ids are
\* neither shared nor lost nor overwritten.
QueueSafety == TypeOK /\ UniqueOwner /\ NoStreamLost /\ WritesConsumedSlot
=============================================================================
