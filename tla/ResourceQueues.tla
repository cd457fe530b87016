--------------------------- MODULE ResourceQueues ---------------------------
(***************************************************************************)
(* Resource and PriorityResource of simpy/__init__.py: who is granted a    *)
(* resource when requests are released after use, or withdrawn while they  *)
(* still wait (which is what leaving a "with resource.request()" block     *)
(* early does).                                                            *)
(*                                                                         *)
(* The queue of a PriorityResource is a heap that heapq keeps in a list,   *)
(* and withdrawing a request edits that list: so the model has the list.   *)
(* Positions are counted from 1, the parent of i is i \div 2.              *)
(***************************************************************************)
EXTENDS Integers, Sequences, FiniteSets, SequencesExt

CONSTANTS
    Requests,     \* bound: requests made, numbered in the order in which they are
    Priorities,   \* priorities they may have; the smallest is served first
    Capacity,
    Withdrawals   \* bound, by kind of resource: requests withdrawn while they wait

QueueAssumption ==
    /\ Requests \in Nat
    /\ Priorities \subseteq Int
    /\ Capacity \in Nat \ {0}
    /\ DOMAIN Withdrawals \subseteq BOOLEAN
    /\ \A p \in DOMAIN Withdrawals : Withdrawals[p] \in Nat

VARIABLES
    prioritized, \* PriorityResource, or Resource: a parameter
    users,       \* requests that have the resource
    queue,       \* waiting: entries <<priority, request>>
    made,        \* requests made so far: the sequence number of the next one
    over,        \* requests released or withdrawn
    withdrawn    \* how many were withdrawn (bounds the model)

vars == <<prioritized, users, queue, made, over, withdrawn>>

-----------------------------------------------------------------------------
(* heapq. *)

Before(a, b) == a[1] < b[1] \/ (a[1] = b[1] /\ a[2] < b[2])

Swap(h, i, j) == [h EXCEPT ![i] = h[j], ![j] = h[i]]

RECURSIVE BubbleUp(_, _)
BubbleUp(h, i) ==
    IF i > 1 /\ Before(h[i], h[i \div 2]) THEN BubbleUp(Swap(h, i, i \div 2), i \div 2)
                                         ELSE h

\* The smaller child moves up until a leaf is reached, then the entry that came
\* down rises to its place.
RECURSIVE Sink(_, _)
Sink(h, i) ==
    LET child == IF 2 * i + 1 <= Len(h) /\ ~Before(h[2 * i], h[2 * i + 1])
                 THEN 2 * i + 1 ELSE 2 * i
    IN  IF 2 * i > Len(h) THEN BubbleUp(h, i) ELSE Sink(Swap(h, i, child), child)

\* Mutant of HeapPush: a list, not a heap.
PushLast(h, e) == Append(h, e)

HeapPush(h, e) == BubbleUp(Append(h, e), Len(h) + 1)

\* The heap without its first entry.
HeapPop(h) == IF Len(h) = 1 THEN <<>>
              ELSE Sink(<<Last(h)>> \o SubSeq(h, 2, Len(h) - 1), 1)

-----------------------------------------------------------------------------
(* Resource. *)

Request == 0..Requests - 1

Waiting == {queue[i][2] : i \in 1..Len(queue)}

\* request(): the resource is granted at once if it is free.
Ask(r) ==
    /\ r = made
    /\ made' = made + 1
    /\ IF Cardinality(users) < Capacity
       THEN users' = users \cup {r} /\ UNCHANGED queue
       ELSE /\ \E p \in Priorities :
                  queue' = IF prioritized THEN HeapPush(queue, <<p, r>>)
                                          ELSE Append(queue, <<0, r>>)
            /\ UNCHANGED users
    /\ UNCHANGED <<over, withdrawn>>

\* release() of a request that has the resource: it passes to the first of the
\* queue.
Release(r) ==
    /\ r \in users
    /\ over' = over \cup {r}
    /\ IF queue = <<>>
       THEN users' = users \ {r} /\ UNCHANGED queue
       ELSE /\ users' = (users \ {r}) \cup {Head(queue)[2]}
            /\ queue' = IF prioritized THEN HeapPop(queue) ELSE Tail(queue)
    /\ UNCHANGED <<made, withdrawn>>

\* release() of a request that waits: the list is filtered.
Withdraw(r) ==
    /\ withdrawn < Withdrawals[prioritized]
    /\ r \in Waiting
    /\ withdrawn' = withdrawn + 1
    /\ over' = over \cup {r}
    /\ queue' = SelectSeq(queue, LAMBDA e : e[2] # r)
    /\ UNCHANGED <<users, made>>

Init == /\ prioritized \in DOMAIN Withdrawals
        /\ users = {}
        /\ queue = <<>>
        /\ made = 0
        /\ over = {}
        /\ withdrawn = 0

AllOver == over = Request /\ UNCHANGED vars

Next == \/ /\ UNCHANGED prioritized
           /\ \E r \in Request : Ask(r) \/ Release(r) \/ Withdraw(r)
        \/ AllOver

Spec == Init /\ [][Next]_vars

-----------------------------------------------------------------------------
(* Properties. *)

\* A request is in one place.
TypeOK ==
    /\ prioritized \in BOOLEAN
    /\ users \subseteq Request /\ over \subseteq Request
    /\ queue \in Seq((Priorities \cup {0}) \X Request)
    /\ Cardinality(users) + Len(queue) + Cardinality(over) = made
    /\ users \cup Waiting \cup over = 0..made - 1

\* The resource is never overbooked, and nothing waits while there is room
\* (__init__.py:327-339, 365-379).
WorkConserving ==
    /\ Cardinality(users) <= Capacity
    /\ queue # <<>> => Cardinality(users) = Capacity

\* Whoever is granted the resource from the queue is the first there by
\* priority and, within one priority, by age ("FIFO Resource and
\* priority-queued PriorityResource", simpy/README.md:16).
ServedInOrder ==
    [][\A i, j \in 1..Len(queue) :
          (queue[i][2] \in users' /\ j # i) => ~Before(queue[j], queue[i])]_vars

=============================================================================
