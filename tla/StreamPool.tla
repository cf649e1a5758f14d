------------------------------ MODULE StreamPool ------------------------------
(***************************************************************************)
(* What Queue<T> promises: every stream id has at most one owner, only the *)
(* owner gives an id up, and it gives it to the idle ids or to one client  *)
(* that owns nothing.  How idle ids are stored, and who waits, is hidden.  *)
(***************************************************************************)
EXTENDS Integers

CONSTANTS Clients, Nobody, Streams

VARIABLE owner      \* the client that may use each stream, or Nobody

TypeOK == owner \in [Streams -> Clients \cup {Nobody}]

Init == owner = [s \in Streams |-> Nobody]

OwnsNothing(c) == \A s \in Streams : owner[s] # c

Take(c) ==
    /\ OwnsNothing(c)
    /\ \E s \in Streams : /\ owner[s] = Nobody
                          /\ owner' = [owner EXCEPT ![s] = c]

GiveBack(c) ==
    \E s \in Streams : /\ owner[s] = c
                       /\ owner' = [owner EXCEPT ![s] = Nobody]

HandOver(c, d) ==
    /\ OwnsNothing(d)
    /\ \E s \in Streams : /\ owner[s] = c
                          /\ owner' = [owner EXCEPT ![s] = d]

Next ==
    \/ \E c \in Clients : Take(c) \/ GiveBack(c)
    \/ \E c, d \in Clients : HandOver(c, d)

Spec == Init /\ [][Next]_owner
===============================================================================
