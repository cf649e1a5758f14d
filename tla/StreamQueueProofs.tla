-------------------------- MODULE StreamQueueProofs --------------------------
(***************************************************************************)
(* For every number of streams and every set of clients: the ids of        *)
(* Queue<T> are never shared, lost or overwritten, and the queue           *)
(* implements the abstract StreamPool.                                     *)
(***************************************************************************)
EXTENDS StreamQueue, FiniteSetTheorems, SequenceTheorems, TLAPS

HoldsFront == {"get_read", "get_clear", "get_push", "try_read", "try_clear"}
Clearing == {"get_clear", "try_clear"}
Returning == {"ret_check", "ret_write", "ret_set"}

\* Each mutex has the owner its critical section names.
MutexInv ==
    /\ \A c \in Clients : pc[c] \in HoldsFront => front_mut = c
    /\ \A c \in Clients : pc[c] \in {"ret_check", "ret_write"} => queue_mutex = c

\* A client has an id exactly where the code has one, and between reading
\* and clearing the front slot the id is still in the slot.
HeldInv ==
    /\ \A c \in Clients :
          pc[c] \in Clearing \cup {"using"} \cup Returning => held[c] # -1
    /\ \A c \in Clients :
          pc[c] \in {"out", "get_read", "get_push", "try_read"} => held[c] = -1
    /\ \A c \in Clients : pc[c] \in Clearing => streams[front_idx] = held[c]

\* A queued or popped promise belongs to one waiting client without an id.
PromiseInv ==
    /\ \A k \in 1 .. Len(promises) :
          pc[promises[k]] = "waiting" /\ held[promises[k]] = -1
    /\ \A k, l \in 1 .. Len(promises) : promises[k] = promises[l] => k = l
    /\ \A c \in Clients : pc[c] = "ret_set" =>
          /\ popped[c] \in Clients
          /\ pc[popped[c]] = "waiting"
          /\ held[popped[c]] = -1
          /\ \A k \in 1 .. Len(promises) : promises[k] # popped[c]
          /\ \A d \in Clients : pc[d] = "ret_set" /\ popped[d] = popped[c] => d = c

\* The slots in use, the reserved one included, run from front_idx up to
\* back_idx around the ring; equal indices mean all of them or none.
Occupied(i) ==
    streams[i] # -1 \/ \E c \in Clients : pc[c] = "ret_write" /\ old_back[c] = i

InWindow(i) ==
    IF front_idx < back_idx THEN front_idx <= i /\ i < back_idx
                            ELSE front_idx <= i \/ i < back_idx

RingInv ==
    /\ front_idx # back_idx => \A i \in Slots : Occupied(i) <=> InWindow(i)
    /\ front_idx = back_idx => \/ \A i \in Slots : Occupied(i)
                               \/ \A i \in Slots : ~ Occupied(i)

IInv ==
    /\ TypeOK
    /\ MutexInv
    /\ HeldInv
    /\ PromiseInv
    /\ RingInv
    /\ UniqueOwner
    /\ NoStreamLost
    /\ WritesConsumedSlot

-----------------------------------------------------------------------------
\* The modulo step of front_idx and back_idx, by cases.
LEMMA NextSlotValue ==
    ASSUME NEW i \in Slots
    PROVE  NextSlot(i) = IF i = StreamsLength - 1 THEN 0 ELSE i + 1
BY StreamsLengthAssumption, SMT DEF NextSlot, Slots

\* The step stays inside the ring.
LEMMA NextSlotType ==
    ASSUME NEW i \in Slots
    PROVE  NextSlot(i) \in Slots
BY StreamsLengthAssumption, NextSlotValue DEF Slots

\* While a client returns an id, the buffer is not full of other ids: there
\* are as many slots as ids.
LEMMA RoomForReturn ==
    ASSUME NEW f \in [Slots -> Streams], NEW s \in Streams,
           \A i, j \in Slots : f[i] = f[j] => i = j
    PROVE  \E i \in Slots : f[i] = s
<1>1. SUFFICES ASSUME \A i \in Slots : f[i] # s PROVE FALSE
  OBVIOUS
<1>2. f \in [Slots -> Streams \ {s}]
  BY <1>1
<1>3. /\ IsFiniteSet(Slots) /\ Cardinality(Slots) = StreamsLength
      /\ IsFiniteSet(Streams) /\ Cardinality(Streams) = StreamsLength
  BY FS_Interval, StreamsLengthAssumption DEF Slots, Streams
<1>4. /\ IsFiniteSet(Streams \ {s})
      /\ Cardinality(Streams \ {s}) = StreamsLength - 1
  BY <1>3, FS_RemoveElement
<1>5. \E x, y \in Slots : x # y /\ f[x] = f[y]
  <2>1. Cardinality(Streams \ {s}) < Cardinality(Slots)
    BY <1>3, <1>4, StreamsLengthAssumption
  <2> QED
    BY <1>2, <1>3, <1>4, <2>1, FS_PigeonHole
<1> QED
  BY <1>5

\* The queue starts with every id idle in its own slot.
LEMMA InitEstablishes == Init => IInv
<1> SUFFICES ASSUME Init PROVE IInv
  OBVIOUS
<1> USE StreamsLengthAssumption, NoClientAssumption DEF Init, Slots, Streams
<1>1. TypeOK
  BY DEF TypeOK, Control
<1>2. MutexInv
  BY DEF MutexInv, HoldsFront
<1>3. HeldInv
  BY DEF HeldInv, Clearing, Returning, HoldsFront, MutexInv
<1>4. PromiseInv
  BY DEF PromiseInv, HeldInv, Clearing, Returning
<1>5. RingInv
  BY DEF RingInv, Occupied, InWindow
<1>6. UniqueOwner
  BY DEF UniqueOwner, IdleSlot, HeldInv, Clearing, Returning
<1>7. NoStreamLost
  BY DEF NoStreamLost, Owns
<1>8. WritesConsumedSlot
  BY DEF WritesConsumedSlot
<1> QED
  BY <1>1, <1>2, <1>3, <1>4, <1>5, <1>6, <1>7, <1>8 DEF IInv

\* Taking front_mut to get changes no id.
LEMMA GetIdleStreamPreserves ==
    ASSUME IInv, NEW c \in Clients, GetIdleStream(c)
    PROVE  IInv'
<1> USE StreamsLengthAssumption, NoClientAssumption DEF GetIdleStream, LockFront, Slots, Streams
<1>0. /\ TypeOK /\ MutexInv /\ HeldInv /\ PromiseInv
      /\ RingInv /\ UniqueOwner /\ NoStreamLost /\ WritesConsumedSlot
  BY DEF IInv
<1>1. TypeOK'
  BY <1>0, NextSlotType DEF TypeOK, Control
<1>2. MutexInv' /\ HeldInv' /\ PromiseInv'
  BY <1>0 DEF MutexInv, HoldsFront, HeldInv, Clearing, Returning, PromiseInv, TypeOK
<1>3. RingInv' /\ NoStreamLost' /\ WritesConsumedSlot'
  BY <1>0 DEF RingInv, Occupied, InWindow, NoStreamLost, Owns, WritesConsumedSlot,
              TypeOK
<1>4. UniqueOwner'
  BY <1>0 DEF UniqueOwner, IdleSlot, TypeOK
<1> QED
  BY <1>1, <1>2, <1>3, <1>4 DEF IInv

\* Taking front_mut to try changes no id.
LEMMA TryToGetIdleStreamPreserves ==
    ASSUME IInv, NEW c \in Clients, TryToGetIdleStream(c)
    PROVE  IInv'
<1> USE StreamsLengthAssumption, NoClientAssumption DEF TryToGetIdleStream, LockFront, Slots, Streams
<1>0. /\ TypeOK /\ MutexInv /\ HeldInv /\ PromiseInv
      /\ RingInv /\ UniqueOwner /\ NoStreamLost /\ WritesConsumedSlot
  BY DEF IInv
<1>1. TypeOK'
  BY <1>0, NextSlotType DEF TypeOK, Control
<1>2. MutexInv' /\ HeldInv' /\ PromiseInv'
  BY <1>0 DEF MutexInv, HoldsFront, HeldInv, Clearing, Returning, PromiseInv, TypeOK
<1>3. RingInv' /\ NoStreamLost' /\ WritesConsumedSlot'
  BY <1>0 DEF RingInv, Occupied, InWindow, NoStreamLost, Owns, WritesConsumedSlot,
              TypeOK
<1>4. UniqueOwner'
  BY <1>0 DEF UniqueOwner, IdleSlot, TypeOK
<1> QED
  BY <1>1, <1>2, <1>3, <1>4 DEF IInv

\* Finding the front slot consumed changes only the caller's place.
LEMMA GetSeesEmptyPreserves ==
    ASSUME IInv, NEW c \in Clients, GetSeesEmpty(c)
    PROVE  IInv'
<1> USE StreamsLengthAssumption, NoClientAssumption DEF GetSeesEmpty, Slots, Streams
<1>0. /\ TypeOK /\ MutexInv /\ HeldInv /\ PromiseInv
      /\ RingInv /\ UniqueOwner /\ NoStreamLost /\ WritesConsumedSlot
  BY DEF IInv
<1>1. TypeOK'
  BY <1>0, NextSlotType DEF TypeOK, Control
<1>2. MutexInv' /\ HeldInv' /\ PromiseInv'
  BY <1>0 DEF MutexInv, HoldsFront, HeldInv, Clearing, Returning, PromiseInv, TypeOK
<1>3. RingInv' /\ NoStreamLost' /\ WritesConsumedSlot'
  BY <1>0 DEF RingInv, Occupied, InWindow, NoStreamLost, Owns, WritesConsumedSlot,
              TypeOK
<1>4. UniqueOwner'
  BY <1>0 DEF UniqueOwner, IdleSlot, TypeOK
<1> QED
  BY <1>1, <1>2, <1>3, <1>4 DEF IInv

\* A queued promise is a new waiting client without an id.
LEMMA GetPushesPromisePreserves ==
    ASSUME IInv, NEW c \in Clients, GetPushesPromise(c)
    PROVE  IInv'
<1> USE StreamsLengthAssumption, NoClientAssumption DEF GetPushesPromise, Slots, Streams
<1>0. /\ TypeOK /\ MutexInv /\ HeldInv /\ PromiseInv
      /\ RingInv /\ UniqueOwner /\ NoStreamLost /\ WritesConsumedSlot
  BY DEF IInv
<1>1. TypeOK'
  BY <1>0, AppendProperties DEF TypeOK, Control
<1>2. MutexInv'
  BY <1>0 DEF MutexInv, HoldsFront, TypeOK
<1>3. HeldInv'
  BY <1>0 DEF HeldInv, Clearing, Returning, HoldsFront, MutexInv, TypeOK
<1>4. PromiseInv'
  BY <1>0 DEF PromiseInv, HeldInv, Clearing, Returning, TypeOK
<1>5. RingInv'
  BY <1>0 DEF RingInv, Occupied, InWindow, TypeOK
<1>6. UniqueOwner'
  BY <1>0 DEF UniqueOwner, IdleSlot, HeldInv, Clearing, Returning, TypeOK
<1>7. NoStreamLost'
  BY <1>0 DEF NoStreamLost, Owns, TypeOK
<1>8. WritesConsumedSlot'
  BY <1>0 DEF WritesConsumedSlot, TypeOK
<1> QED
  BY <1>1, <1>2, <1>3, <1>4, <1>5, <1>6, <1>7, <1>8 DEF IInv

\* Giving up releases front_mut and changes no id.
LEMMA TrySeesEmptyPreserves ==
    ASSUME IInv, NEW c \in Clients, TrySeesEmpty(c)
    PROVE  IInv'
<1> USE StreamsLengthAssumption, NoClientAssumption DEF TrySeesEmpty, Slots, Streams
<1>0. /\ TypeOK /\ MutexInv /\ HeldInv /\ PromiseInv
      /\ RingInv /\ UniqueOwner /\ NoStreamLost /\ WritesConsumedSlot
  BY DEF IInv
<1>1. TypeOK'
  BY <1>0, NextSlotType DEF TypeOK, Control
<1>2. MutexInv' /\ HeldInv' /\ PromiseInv'
  BY <1>0 DEF MutexInv, HoldsFront, HeldInv, Clearing, Returning, PromiseInv, TypeOK
<1>3. RingInv' /\ NoStreamLost' /\ WritesConsumedSlot'
  BY <1>0 DEF RingInv, Occupied, InWindow, NoStreamLost, Owns, WritesConsumedSlot,
              TypeOK
<1>4. UniqueOwner'
  BY <1>0 DEF UniqueOwner, IdleSlot, TypeOK
<1> QED
  BY <1>1, <1>2, <1>3, <1>4 DEF IInv

\* The id read from the front slot was idle, so nobody else holds it.
LEMMA ReadsFrontPreserves ==
    ASSUME IInv, NEW c \in Clients, ReadsFront(c)
    PROVE  IInv'
<1> USE StreamsLengthAssumption, NoClientAssumption DEF ReadsFront, Slots, Streams
<1>0. /\ TypeOK /\ MutexInv /\ HeldInv /\ PromiseInv
      /\ RingInv /\ UniqueOwner /\ NoStreamLost /\ WritesConsumedSlot
  BY DEF IInv
<1>1. TypeOK'
  BY <1>0, NextSlotType DEF TypeOK, Control
<1>2. MutexInv'
  BY <1>0 DEF MutexInv, HoldsFront, TypeOK
<1>3. HeldInv'
  BY <1>0 DEF HeldInv, Clearing, Returning, HoldsFront, MutexInv, TypeOK
<1>4. PromiseInv'
  BY <1>0 DEF PromiseInv, HeldInv, Clearing, Returning, TypeOK
<1>5. RingInv'
  BY <1>0 DEF RingInv, Occupied, InWindow, TypeOK
<1>6. UniqueOwner'
  <2>1. held[c] = -1 /\ streams[front_idx] \in Streams
    BY <1>0 DEF HeldInv, TypeOK
  <2>2. \A d \in Clients : d # c => pc[d] \notin Clearing
    BY <1>0 DEF MutexInv, HoldsFront, Clearing
  <2>3. IdleSlot(front_idx)
    BY <1>0, <2>2 DEF IdleSlot, Clearing
  <2>4. \A d \in Clients : held[d] # streams[front_idx]
    BY <1>0, <2>1, <2>3 DEF UniqueOwner, TypeOK
  <2>5. \A i \in Slots : IdleSlot(i)' => IdleSlot(i) /\ i # front_idx
    BY <1>0 DEF IdleSlot, TypeOK, Control
  <2>6. \A d \in Clients : held'[d] = IF d = c THEN streams[front_idx] ELSE held[d]
    BY <1>0 DEF TypeOK
  <2>7. \A d, e \in Clients : held'[d] # -1 /\ held'[d] = held'[e] => d = e
    BY <1>0, <2>4, <2>6 DEF UniqueOwner
  <2>8. ASSUME NEW d \in Clients, NEW i \in Slots, held'[d] # -1, IdleSlot(i)'
        PROVE  streams'[i] # held'[d]
    <3>1. IdleSlot(i) /\ i # front_idx /\ streams[i] >= 0
      BY <2>5, <2>8 DEF IdleSlot
    <3>2. CASE d = c
      BY <1>0, <2>6, <3>1, <3>2 DEF UniqueOwner, TypeOK
    <3>3. CASE d # c
      BY <1>0, <2>6, <2>8, <3>1, <3>3 DEF UniqueOwner
    <3> QED
      BY <3>2, <3>3
  <2> QED
    BY <1>0, <2>7, <2>8 DEF UniqueOwner
<1>7. NoStreamLost'
  BY <1>0 DEF NoStreamLost, Owns, TypeOK, HeldInv
<1>8. WritesConsumedSlot'
  BY <1>0 DEF WritesConsumedSlot, TypeOK
<1> QED
  BY <1>1, <1>2, <1>3, <1>4, <1>5, <1>6, <1>7, <1>8 DEF IInv

\* Clearing the front slot shrinks the window by its first slot.
LEMMA ClearsFrontPreserves ==
    ASSUME IInv, NEW c \in Clients, ClearsFront(c)
    PROVE  IInv'
<1> USE StreamsLengthAssumption, NoClientAssumption DEF ClearsFront, Slots, Streams
<1>0. /\ TypeOK /\ MutexInv /\ HeldInv /\ PromiseInv
      /\ RingInv /\ UniqueOwner /\ NoStreamLost /\ WritesConsumedSlot
  BY DEF IInv
<1>1. TypeOK'
  BY <1>0, NextSlotType DEF TypeOK, Control
<1>2. MutexInv'
  BY <1>0 DEF MutexInv, HoldsFront, TypeOK
<1>3. HeldInv'
  BY <1>0 DEF HeldInv, Clearing, Returning, HoldsFront, MutexInv, TypeOK
<1>4. PromiseInv'
  BY <1>0 DEF PromiseInv, HeldInv, Clearing, Returning, TypeOK
<1>5. RingInv'
  <2>1. front_idx' = IF front_idx = StreamsLength - 1 THEN 0 ELSE front_idx + 1
    BY <1>0, NextSlotValue DEF TypeOK
  <2>2. streams[front_idx] # -1
    BY <1>0 DEF HeldInv, Clearing
  <2>3. \A d \in Clients : pc[d] = "ret_write" => old_back[d] # front_idx
    BY <1>0, <2>2 DEF WritesConsumedSlot
  <2>4. \A d \in Clients : pc'[d] = "ret_write" <=> pc[d] = "ret_write"
    BY <1>0 DEF TypeOK
  <2>5. \A i \in Slots : Occupied(i)' <=> Occupied(i) /\ i # front_idx
    BY <1>0, <2>3, <2>4 DEF Occupied, TypeOK
  <2>6. Occupied(front_idx)
    BY <2>2 DEF Occupied
  <2> HIDE DEF Occupied
  <2> QED
    BY <1>0, <2>1, <2>5, <2>6 DEF RingInv, InWindow, TypeOK
<1>6. UniqueOwner'
  BY <1>0 DEF UniqueOwner, IdleSlot, HeldInv, Clearing, Returning, TypeOK
<1>7. NoStreamLost'
  BY <1>0 DEF NoStreamLost, Owns, TypeOK, HeldInv, Clearing
<1>8. WritesConsumedSlot'
  BY <1>0 DEF WritesConsumedSlot, TypeOK
<1> QED
  BY <1>1, <1>2, <1>3, <1>4, <1>5, <1>6, <1>7, <1>8 DEF IInv

\* A delivered id stays with the client that waited for it.
LEMMA FutureGetPreserves ==
    ASSUME IInv, NEW c \in Clients, FutureGet(c)
    PROVE  IInv'
<1> USE StreamsLengthAssumption, NoClientAssumption DEF FutureGet, Slots, Streams
<1>0. /\ TypeOK /\ MutexInv /\ HeldInv /\ PromiseInv
      /\ RingInv /\ UniqueOwner /\ NoStreamLost /\ WritesConsumedSlot
  BY DEF IInv
<1>1. TypeOK'
  BY <1>0, NextSlotType DEF TypeOK, Control
<1>2. MutexInv' /\ HeldInv' /\ PromiseInv'
  BY <1>0 DEF MutexInv, HoldsFront, HeldInv, Clearing, Returning, PromiseInv, TypeOK
<1>3. RingInv' /\ NoStreamLost' /\ WritesConsumedSlot'
  BY <1>0 DEF RingInv, Occupied, InWindow, NoStreamLost, Owns, WritesConsumedSlot,
              TypeOK
<1>4. UniqueOwner'
  BY <1>0 DEF UniqueOwner, IdleSlot, TypeOK
<1> QED
  BY <1>1, <1>2, <1>3, <1>4 DEF IInv

\* Taking queue_mutex to return changes no id.
LEMMA ReturnLocksPreserves ==
    ASSUME IInv, NEW c \in Clients, ReturnLocks(c)
    PROVE  IInv'
<1> USE StreamsLengthAssumption, NoClientAssumption DEF ReturnLocks, Slots, Streams
<1>0. /\ TypeOK /\ MutexInv /\ HeldInv /\ PromiseInv
      /\ RingInv /\ UniqueOwner /\ NoStreamLost /\ WritesConsumedSlot
  BY DEF IInv
<1>1. TypeOK'
  BY <1>0, NextSlotType DEF TypeOK, Control
<1>2. MutexInv' /\ HeldInv' /\ PromiseInv'
  BY <1>0 DEF MutexInv, HoldsFront, HeldInv, Clearing, Returning, PromiseInv, TypeOK
<1>3. RingInv' /\ NoStreamLost' /\ WritesConsumedSlot'
  BY <1>0 DEF RingInv, Occupied, InWindow, NoStreamLost, Owns, WritesConsumedSlot,
              TypeOK
<1>4. UniqueOwner'
  BY <1>0 DEF UniqueOwner, IdleSlot, TypeOK
<1> QED
  BY <1>1, <1>2, <1>3, <1>4 DEF IInv

\* The popped promise leaves the queue and belongs to one returning client.
LEMMA ReturnPopsPromisePreserves ==
    ASSUME IInv, NEW c \in Clients, ReturnPopsPromise(c)
    PROVE  IInv'
<1> USE StreamsLengthAssumption, NoClientAssumption DEF ReturnPopsPromise, Slots, Streams
<1>0. /\ TypeOK /\ MutexInv /\ HeldInv /\ PromiseInv
      /\ RingInv /\ UniqueOwner /\ NoStreamLost /\ WritesConsumedSlot
  BY DEF IInv
<1>1. TypeOK'
  BY <1>0, HeadTailProperties DEF TypeOK, Control
<1>2. MutexInv'
  BY <1>0 DEF MutexInv, HoldsFront, TypeOK
<1>3. HeldInv'
  BY <1>0 DEF HeldInv, Clearing, Returning, HoldsFront, MutexInv, TypeOK
<1>4. PromiseInv'
  <2>1. /\ promises' \in Seq(Clients)
        /\ Head(promises) = promises[1] /\ Head(promises) \in Clients
        /\ Len(promises) \in Nat /\ Len(promises) >= 1
        /\ Len(promises') = Len(promises) - 1
        /\ \A k \in 1 .. Len(promises') : promises'[k] = promises[k + 1]
    BY <1>0, HeadTailProperties DEF TypeOK
  <2>2. \A k \in 1 .. Len(promises') : /\ k + 1 \in 1 .. Len(promises)
                                        /\ k + 1 # 1
    BY <2>1
  <2>3. 1 \in 1 .. Len(promises)
    BY <2>1
  <2>4. \A k \in 1 .. Len(promises') :
          pc'[promises'[k]] = "waiting" /\ held'[promises'[k]] = -1
    BY <1>0, <2>1, <2>2 DEF PromiseInv, TypeOK
  <2>5. \A k, l \in 1 .. Len(promises') : promises'[k] = promises'[l] => k = l
    BY <1>0, <2>1, <2>2 DEF PromiseInv, TypeOK
  <2>6. ASSUME NEW d \in Clients, pc'[d] = "ret_set"
        PROVE  /\ popped'[d] \in Clients
               /\ pc'[popped'[d]] = "waiting"
               /\ held'[popped'[d]] = -1
               /\ \A k \in 1 .. Len(promises') : promises'[k] # popped'[d]
               /\ \A e \in Clients :
                      pc'[e] = "ret_set" /\ popped'[e] = popped'[d] => e = d
    <3>1. CASE d = c
      <4>1. popped'[d] = promises[1] /\ promises[1] \in Clients
        BY <1>0, <2>1, <3>1 DEF TypeOK
      <4>2. pc[promises[1]] = "waiting" /\ held[promises[1]] = -1
        BY <1>0, <2>3 DEF PromiseInv
      <4>3. \A k \in 1 .. Len(promises') : promises'[k] # promises[1]
        BY <1>0, <2>1, <2>2, <2>3 DEF PromiseInv
      <4>4. \A e \in Clients : pc[e] = "ret_set" => popped[e] # promises[1]
        BY <1>0, <2>3 DEF PromiseInv
      <4> QED
        BY <1>0, <3>1, <4>1, <4>2, <4>3, <4>4 DEF TypeOK
    <3>2. CASE d # c
      <4>1. pc[d] = "ret_set" /\ popped'[d] = popped[d]
        BY <1>0, <2>6, <3>2 DEF TypeOK
      <4>2. popped[d] # promises[1]
        BY <1>0, <2>3, <4>1 DEF PromiseInv
      <4>3. \A k \in 1 .. Len(promises') : promises'[k] # popped[d]
        BY <1>0, <2>1, <2>2, <4>1 DEF PromiseInv
      <4> QED
        BY <1>0, <2>1, <3>2, <4>1, <4>2, <4>3 DEF PromiseInv, TypeOK
    <3> QED
      BY <3>1, <3>2
  <2> QED
    BY <2>4, <2>5, <2>6 DEF PromiseInv
<1>5. RingInv'
  BY <1>0 DEF RingInv, Occupied, InWindow, TypeOK
<1>6. UniqueOwner'
  BY <1>0 DEF UniqueOwner, IdleSlot, HeldInv, Clearing, Returning, TypeOK
<1>7. NoStreamLost'
  BY <1>0 DEF NoStreamLost, Owns, TypeOK
<1>8. WritesConsumedSlot'
  BY <1>0 DEF WritesConsumedSlot, TypeOK
<1> QED
  BY <1>1, <1>2, <1>3, <1>4, <1>5, <1>6, <1>7, <1>8 DEF IInv

\* The id moves from the returning client to the popped one.
LEMMA ReturnSetsValuePreserves ==
    ASSUME IInv, NEW c \in Clients, ReturnSetsValue(c)
    PROVE  IInv'
<1> USE StreamsLengthAssumption, NoClientAssumption DEF ReturnSetsValue, Slots, Streams
<1>0. /\ TypeOK /\ MutexInv /\ HeldInv /\ PromiseInv
      /\ RingInv /\ UniqueOwner /\ NoStreamLost /\ WritesConsumedSlot
  BY DEF IInv
<1>1. TypeOK'
  BY <1>0, NextSlotType DEF TypeOK, Control
<1>2. MutexInv'
  BY <1>0 DEF MutexInv, HoldsFront, TypeOK
<1>3. HeldInv'
  <2>1. popped[c] \in Clients /\ pc[popped[c]] = "waiting" /\ popped[c] # c
    BY <1>0 DEF PromiseInv
  <2>2. held'[c] = -1 /\ pc'[c] = "out" /\ pc'[popped[c]] = "waiting"
    BY <1>0, <2>1 DEF TypeOK
  <2>3. \A d \in Clients : d # c /\ d # popped[c] =>
            held'[d] = held[d] /\ pc'[d] = pc[d]
    BY <1>0 DEF TypeOK
  <2> QED
    BY <1>0, <2>1, <2>2, <2>3 DEF HeldInv, Clearing, Returning
<1>4. PromiseInv'
  BY <1>0 DEF PromiseInv, HeldInv, Clearing, Returning, TypeOK
<1>5. RingInv'
  BY <1>0 DEF RingInv, Occupied, InWindow, TypeOK
<1>6. UniqueOwner'
  BY <1>0 DEF UniqueOwner, IdleSlot, HeldInv, Clearing, Returning, TypeOK
<1>7. NoStreamLost'
  <2>1. popped[c] \in Clients /\ held[popped[c]] = -1
    BY <1>0 DEF PromiseInv
  <2>2. held'[popped[c]] = held[c]
    BY <1>0, <2>1 DEF HeldInv, Returning, TypeOK
  <2>3. \A d \in Clients : d # c /\ d # popped[c] => held'[d] = held[d]
    BY <1>0 DEF TypeOK
  <2>4. ASSUME NEW s \in Streams, NEW d \in Clients, held[d] = s
        PROVE  \E e \in Clients : held'[e] = s
    <3>1. CASE d = c
      BY <2>1, <2>2, <2>4, <3>1
    <3>2. CASE d # c
      <4>1. d # popped[c]
        BY <2>1, <2>4
      <4> QED
        BY <2>3, <2>4, <3>2, <4>1
    <3> QED
      BY <3>1, <3>2
  <2> QED
    BY <1>0, <2>4 DEF NoStreamLost, Owns
<1>8. WritesConsumedSlot'
  BY <1>0 DEF WritesConsumedSlot, TypeOK
<1> QED
  BY <1>1, <1>2, <1>3, <1>4, <1>5, <1>6, <1>7, <1>8 DEF IInv

\* The reserved slot is consumed: a full buffer would leave no id to return.
LEMMA ReturnReservesSlotPreserves ==
    ASSUME IInv, NEW c \in Clients, ReturnReservesSlot(c)
    PROVE  IInv'
<1> USE StreamsLengthAssumption, NoClientAssumption DEF ReturnReservesSlot, Slots, Streams
<1>0. /\ TypeOK /\ MutexInv /\ HeldInv /\ PromiseInv
      /\ RingInv /\ UniqueOwner /\ NoStreamLost /\ WritesConsumedSlot
  BY DEF IInv
<1>a. /\ streams[back_idx] = -1
      /\ \A d \in Clients : pc[d] # "ret_write"
  <2>1. \A d \in Clients : pc[d] # "ret_write"
    BY <1>0 DEF MutexInv
  <2>2. CASE front_idx # back_idx
    BY <1>0, <2>1, <2>2 DEF RingInv, Occupied, InWindow, TypeOK
  <2>3. CASE front_idx = back_idx
    <3>1. SUFFICES ASSUME \A i \in Slots : Occupied(i) PROVE FALSE
      BY <1>0, <2>1, <2>3 DEF RingInv, Occupied, TypeOK
    <3>2. \A i \in Slots : streams[i] # -1 /\ streams[i] \in Streams
      BY <1>0, <2>1, <3>1 DEF Occupied, TypeOK
    <3>3. streams \in [Slots -> Streams]
      BY <1>0, <3>2 DEF TypeOK
    <3>4. held[c] \in Streams /\ held[c] # -1
      BY <1>0 DEF HeldInv, Returning, TypeOK
    <3>5. \A i, j \in Slots : streams[i] = streams[j] => i = j
      BY <1>0, <3>2 DEF UniqueOwner
    <3>6. PICK i \in Slots : streams[i] = held[c]
      BY <3>3, <3>4, <3>5, RoomForReturn
    <3>7. \E d \in Clients : pc[d] \in Clearing /\ i = front_idx
      BY <1>0, <3>4, <3>6 DEF UniqueOwner, IdleSlot, Clearing
    <3>8. PICK d \in Clients : pc[d] \in Clearing /\ held[d] = held[c]
      BY <1>0, <3>6, <3>7 DEF HeldInv
    <3> QED
      BY <1>0, <3>4, <3>8 DEF UniqueOwner, Clearing
  <2> QED
    BY <2>1, <2>2, <2>3
<1>1. TypeOK'
  BY <1>0, NextSlotType DEF TypeOK, Control
<1>2. MutexInv'
  BY <1>0 DEF MutexInv, HoldsFront, TypeOK
<1>3. HeldInv'
  BY <1>0 DEF HeldInv, Clearing, Returning, HoldsFront, MutexInv, TypeOK
<1>4. PromiseInv'
  BY <1>0 DEF PromiseInv, HeldInv, Clearing, Returning, TypeOK
<1>5. RingInv'
  <2>1. back_idx' = IF back_idx = StreamsLength - 1 THEN 0 ELSE back_idx + 1
    BY <1>0, NextSlotValue DEF TypeOK
  <2>2. ~ Occupied(back_idx)
    BY <1>a, <1>0 DEF TypeOK, Occupied
  <2>3. \A i \in Slots : Occupied(i)' <=> Occupied(i) \/ i = back_idx
    BY <1>0, <1>a DEF Occupied, TypeOK
  <2> HIDE DEF Occupied
  <2> QED
    BY <1>0, <2>1, <2>2, <2>3 DEF RingInv, InWindow, TypeOK
<1>6. UniqueOwner'
  BY <1>0 DEF UniqueOwner, IdleSlot, HeldInv, Clearing, Returning, TypeOK
<1>7. NoStreamLost'
  BY <1>0 DEF NoStreamLost, Owns, TypeOK
<1>8. WritesConsumedSlot'
  BY <1>0, <1>a DEF WritesConsumedSlot, TypeOK
<1> QED
  BY <1>1, <1>2, <1>3, <1>4, <1>5, <1>6, <1>7, <1>8 DEF IInv

\* Writing the reserved slot turns an owned id into an idle one.
LEMMA ReturnWritesSlotPreserves ==
    ASSUME IInv, NEW c \in Clients, ReturnWritesSlot(c)
    PROVE  IInv'
<1> USE StreamsLengthAssumption, NoClientAssumption DEF ReturnWritesSlot, Slots, Streams
<1>0. /\ TypeOK /\ MutexInv /\ HeldInv /\ PromiseInv
      /\ RingInv /\ UniqueOwner /\ NoStreamLost /\ WritesConsumedSlot
  BY DEF IInv
<1>a. /\ streams[old_back[c]] = -1 /\ old_back[c] \in Slots
      /\ held[c] \in Streams
      /\ \A d \in Clients : d # c => pc[d] # "ret_write"
  BY <1>0 DEF WritesConsumedSlot, HeldInv, Returning, MutexInv, TypeOK
<1>b. \A i \in Slots : streams'[i] = IF i = old_back[c] THEN held[c] ELSE streams[i]
  BY <1>0 DEF TypeOK
<1>c. \A d \in Clients : held'[d] = IF d = c THEN -1 ELSE held[d]
  BY <1>0 DEF TypeOK
<1>e. pc'[c] = "out" /\ \A d \in Clients : d # c => pc'[d] = pc[d]
  BY <1>0 DEF TypeOK
<1>d. \A d \in Clients : pc[d] \in Clearing => front_idx # old_back[c]
  BY <1>0, <1>a DEF HeldInv
<1>1. TypeOK'
  BY <1>0, NextSlotType DEF TypeOK, Control
<1>2. MutexInv'
  BY <1>0 DEF MutexInv, HoldsFront, TypeOK
<1>3. HeldInv'
  BY <1>0, <1>b, <1>c, <1>e, <1>d DEF HeldInv, Clearing, Returning, TypeOK
<1>4. PromiseInv'
  BY <1>0 DEF PromiseInv, HeldInv, Clearing, Returning, TypeOK
<1>5. RingInv'
  <2>1. \A i \in Slots : Occupied(i)' <=> Occupied(i)
    BY <1>0, <1>a, <1>b, <1>c, <1>e DEF Occupied, TypeOK
  <2> HIDE DEF Occupied
  <2> QED
    BY <1>0, <2>1 DEF RingInv, InWindow
<1>6. UniqueOwner'
  <2>1. \A i \in Slots : ~ IdleSlot(i) => streams[i] # held[c]
    BY <1>0, <1>a, <1>d DEF UniqueOwner, IdleSlot, HeldInv, Clearing
  <2>2. \A i \in Slots : streams[i] # held[c]
    BY <1>0, <1>a, <2>1 DEF UniqueOwner
  <2>3. \A i \in Slots : IdleSlot(i)' => IdleSlot(i) \/ i = old_back[c]
    BY <1>0, <1>b, <1>c, <1>e DEF IdleSlot
  <2>4. \A d \in Clients : d # c => held[d] # held[c]
    BY <1>0, <1>a DEF UniqueOwner
  <2>5. \A d, e \in Clients : held'[d] # -1 /\ held'[d] = held'[e] => d = e
    BY <1>0, <1>c DEF UniqueOwner
  <2>6. \A d \in Clients, i \in Slots :
          held'[d] # -1 /\ IdleSlot(i)' => streams'[i] # held'[d]
    BY <1>0, <1>b, <1>c, <1>e, <2>3, <2>4 DEF UniqueOwner
  <2>7. \A i, j \in Slots :
          streams'[i] >= 0 /\ streams'[i] = streams'[j] => i = j
    BY <1>0, <1>b, <2>2 DEF UniqueOwner
  <2> QED
    BY <2>5, <2>6, <2>7 DEF UniqueOwner
<1>7. NoStreamLost'
  <2>1. \A i \in Slots : streams[i] # -1 => streams'[i] = streams[i]
    BY <1>a, <1>b
  <2>2. streams'[old_back[c]] = held[c]
    BY <1>a, <1>b
  <2>3. \A s \in Streams : s # -1
    OBVIOUS
  <2> QED
    BY <1>0, <1>a, <1>c, <2>1, <2>2, <2>3 DEF NoStreamLost, Owns
<1>8. WritesConsumedSlot'
  <2>1. \A d \in Clients : pc'[d] # "ret_write"
    BY <1>a, <1>e
  <2> QED
    BY <2>1 DEF WritesConsumedSlot
<1> QED
  BY <1>1, <1>2, <1>3, <1>4, <1>5, <1>6, <1>7, <1>8 DEF IInv

\* A stuttering step keeps the invariant.
LEMMA StutterPreserves == ASSUME IInv, UNCHANGED vars PROVE IInv'
BY DEF IInv, vars, TypeOK, MutexInv, HeldInv, PromiseInv, RingInv, Occupied,
       InWindow, UniqueOwner, IdleSlot, NoStreamLost, Owns, WritesConsumedSlot

\* IInv is inductive.
LEMMA NextPreserves == IInv /\ [Next]_vars => IInv'
<1> SUFFICES ASSUME IInv, [Next]_vars PROVE IInv'
  OBVIOUS
<1>1. CASE UNCHANGED vars
  BY <1>1, StutterPreserves
<1>2. ASSUME NEW c \in Clients,
             GetIdleStream(c) \/ TryToGetIdleStream(c) \/ ClientStep(c)
      PROVE  IInv'
  BY <1>2, GetIdleStreamPreserves, TryToGetIdleStreamPreserves,
     GetSeesEmptyPreserves, GetPushesPromisePreserves, TrySeesEmptyPreserves,
     ReadsFrontPreserves, ClearsFrontPreserves, FutureGetPreserves,
     ReturnLocksPreserves, ReturnPopsPromisePreserves, ReturnSetsValuePreserves,
     ReturnReservesSlotPreserves, ReturnWritesSlotPreserves
     DEF ClientStep
<1> QED
  BY <1>1, <1>2 DEF Next

\* Queue<T> keeps its ids: for every length and every set of clients, no id is
\* shared by two guards, none disappears from circulation, and returnStream
\* writes only to consumed slots, at every interleaving of gets and returns.
THEOREM QueueSafe == Spec => []QueueSafety
<1>1. Spec => []IInv
  BY InitEstablishes, NextPreserves, PTL DEF Spec
<1>2. IInv => QueueSafety
  BY DEF IInv, QueueSafety
<1> QED
  BY <1>1, <1>2, PTL

-----------------------------------------------------------------------------
\* With one holder, OwnerIn is that holder.
LEMMA OwnerInHeld ==
    ASSUME NEW h, NEW s, NEW c \in Clients, h[c] = s,
           \A d \in Clients : h[d] = s => d = c
    PROVE  OwnerIn(h, s) = c
BY DEF OwnerIn

\* An id no client holds has no owner.
LEMMA OwnerInIdle ==
    ASSUME NEW h, NEW s, \A c \in Clients : h[c] # s
    PROVE  OwnerIn(h, s) = NoClient
BY DEF OwnerIn

\* A client that holds no id is nobody's owner.
LEMMA OwnerInNothing ==
    ASSUME NEW h, NEW c \in Clients, NEW s \in Streams, h[c] # s
    PROVE  OwnerIn(h, s) # c
BY NoClientAssumption DEF OwnerIn

\* An id whose holders do not change keeps its owner.
LEMMA OwnerInSame ==
    ASSUME NEW g, NEW h, NEW s, \A c \in Clients : g[c] = s <=> h[c] = s
    PROVE  OwnerIn(g, s) = OwnerIn(h, s)
BY DEF OwnerIn

\* Reading the front slot is the pool's Take.
LEMMA ReadsFrontTakes ==
    ASSUME IInv, NEW c \in Clients, ReadsFront(c)
    PROVE  Pool!Take(c)
<1> USE StreamsLengthAssumption, NoClientAssumption
<1> DEFINE t == streams[front_idx]
<1>0. TypeOK /\ HeldInv /\ UniqueOwner /\ MutexInv
  BY DEF IInv
<1>1. t \in Streams /\ t # -1 /\ held[c] = -1
  BY <1>0 DEF ReadsFront, TypeOK, HeldInv, Slots, Streams
<1>2. IdleSlot(front_idx)
  BY <1>0 DEF IdleSlot, ReadsFront, MutexInv, HoldsFront
<1>3. \A d \in Clients : held[d] # t
  BY <1>0, <1>1, <1>2 DEF UniqueOwner, TypeOK
<1>4. /\ \A d \in Clients : held'[d] = IF d = c THEN t ELSE held[d]
      /\ \A s \in Streams : s # -1
  BY <1>0 DEF ReadsFront, TypeOK, Streams
<1>5. OwnerIn(held, t) = NoClient /\ OwnerIn(held', t) = c
  BY <1>3, <1>4, OwnerInIdle, OwnerInHeld
<1>6. \A s \in Streams : OwnerIn(held, s) # c
  BY <1>1, <1>4, OwnerInNothing
<1>7. ASSUME NEW s \in Streams, s # t
      PROVE  OwnerIn(held', s) = OwnerIn(held, s)
  <2>1. \A d \in Clients : held'[d] = s <=> held[d] = s
    BY <1>1, <1>4, <1>7
  <2> QED
    BY <2>1, OwnerInSame
<1>8. owner' = [owner EXCEPT ![t] = c]
  BY <1>1, <1>5, <1>7 DEF owner
<1> QED
  BY <1>1, <1>5, <1>6, <1>8 DEF Pool!Take, Pool!OwnsNothing, owner

\* Writing the reserved slot is the pool's GiveBack.
LEMMA WritesSlotGivesBack ==
    ASSUME IInv, NEW c \in Clients, ReturnWritesSlot(c)
    PROVE  Pool!GiveBack(c)
<1> USE StreamsLengthAssumption, NoClientAssumption
<1> DEFINE t == held[c]
<1>0. TypeOK /\ HeldInv /\ UniqueOwner
  BY DEF IInv
<1>1. t \in Streams /\ t # -1
  BY <1>0 DEF ReturnWritesSlot, TypeOK, HeldInv, Returning, Streams
<1>2. \A d \in Clients : held[d] = t => d = c
  BY <1>0, <1>1 DEF UniqueOwner
<1>3. /\ \A d \in Clients : held'[d] = IF d = c THEN -1 ELSE held[d]
      /\ \A s \in Streams : s # -1
  BY <1>0 DEF ReturnWritesSlot, TypeOK, Streams
<1>4. OwnerIn(held, t) = c
  BY <1>2, OwnerInHeld
<1>5. OwnerIn(held', t) = NoClient
  BY <1>1, <1>2, <1>3, OwnerInIdle
<1>6. ASSUME NEW s \in Streams, s # t
      PROVE  OwnerIn(held', s) = OwnerIn(held, s)
  <2>1. \A d \in Clients : held'[d] = s <=> held[d] = s
    BY <1>3, <1>6
  <2> QED
    BY <2>1, OwnerInSame
<1>7. owner' = [owner EXCEPT ![t] = NoClient]
  BY <1>1, <1>5, <1>6 DEF owner
<1> QED
  BY <1>1, <1>4, <1>7 DEF Pool!GiveBack, owner

\* Setting the popped promise's value is the pool's HandOver.
LEMMA SetsValueHandsOver ==
    ASSUME IInv, NEW c \in Clients, ReturnSetsValue(c)
    PROVE  \E d \in Clients : Pool!HandOver(c, d)
<1> USE StreamsLengthAssumption, NoClientAssumption
<1> DEFINE t == held[c]
           p == popped[c]
<1>0. TypeOK /\ HeldInv /\ UniqueOwner /\ PromiseInv
  BY DEF IInv
<1>1. t \in Streams /\ t # -1
  BY <1>0 DEF ReturnSetsValue, TypeOK, HeldInv, Returning, Streams
<1>2. p \in Clients /\ held[p] = -1 /\ p # c
  BY <1>0, <1>1 DEF PromiseInv, ReturnSetsValue
<1>3. \A d \in Clients : held[d] = t => d = c
  BY <1>0, <1>1 DEF UniqueOwner
<1>4. /\ held'[c] = -1 /\ held'[p] = t
      /\ \A d \in Clients : d # c /\ d # p => held'[d] = held[d]
  BY <1>0, <1>2 DEF ReturnSetsValue, TypeOK
<1>5. \A s \in Streams : s # -1
  BY DEF Streams
<1>6. OwnerIn(held, t) = c
  BY <1>3, OwnerInHeld
<1>7. OwnerIn(held', t) = p
  <2>1. \A d \in Clients : held'[d] = t => d = p
    BY <1>1, <1>3, <1>4
  <2> QED
    BY <1>2, <1>4, <2>1, OwnerInHeld
<1>8. ASSUME NEW s \in Streams, s # t
      PROVE  OwnerIn(held', s) = OwnerIn(held, s)
  <2>1. \A d \in Clients : held'[d] = s <=> held[d] = s
    BY <1>2, <1>4, <1>5, <1>8
  <2> QED
    BY <2>1, OwnerInSame
<1>9. \A s \in Streams : OwnerIn(held, s) # p
  BY <1>2, <1>5, OwnerInNothing
<1>10. owner' = [owner EXCEPT ![t] = p]
  BY <1>1, <1>7, <1>8 DEF owner
<1> QED
  BY <1>1, <1>2, <1>6, <1>9, <1>10 DEF Pool!HandOver, Pool!OwnsNothing, owner

\* Each step of the queue is a step of the pool or leaves the owners alone.
LEMMA StepRefines ==
    ASSUME IInv, [Next]_vars
    PROVE  [Pool!Next]_owner
<1>1. CASE held' = held
  BY <1>1 DEF owner
<1>2. ASSUME NEW c \in Clients, ReadsFront(c) PROVE Pool!Next
  BY <1>2, ReadsFrontTakes DEF Pool!Next
<1>3. ASSUME NEW c \in Clients, ReturnWritesSlot(c) PROVE Pool!Next
  BY <1>3, WritesSlotGivesBack DEF Pool!Next
<1>4. ASSUME NEW c \in Clients, ReturnSetsValue(c) PROVE Pool!Next
  BY <1>4, SetsValueHandsOver DEF Pool!Next
<1>5. \/ held' = held
      \/ \E c \in Clients : \/ ReadsFront(c)
                            \/ ReturnWritesSlot(c)
                            \/ ReturnSetsValue(c)
  BY DEF Next, ClientStep, vars, GetIdleStream, TryToGetIdleStream, LockFront,
         GetSeesEmpty, GetPushesPromise, TrySeesEmpty, ClearsFront, FutureGet,
         ReturnLocks, ReturnPopsPromise, ReturnReservesSlot
<1> QED
  BY <1>1, <1>2, <1>3, <1>4, <1>5

\* The concurrent queue implements the abstract pool, for every length and
\* every set of clients.
THEOREM QueueImplementsPool == Spec => ImplementsPool
<1>1. Init => Pool!Init
  <2>1. ASSUME Init, NEW s \in Streams PROVE OwnerIn(held, s) = NoClient
    BY <2>1, OwnerInIdle, StreamsLengthAssumption DEF Init, Streams
  <2> QED
    BY <2>1 DEF Pool!Init, owner
<1>2. IInv /\ [Next]_vars => [Pool!Next]_owner
  BY StepRefines
<1>3. Spec => []IInv
  BY InitEstablishes, NextPreserves, PTL DEF Spec
<1> QED
  BY <1>1, <1>2, <1>3, PTL DEF Spec, ImplementsPool, Pool!Spec
=============================================================================
