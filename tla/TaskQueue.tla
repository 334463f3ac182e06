----------------------------- MODULE TaskQueue -----------------------------
(***************************************************************************)
(* What the server promises of its task queue, without mutexes, condition  *)
(* variable or threads: tasks come out in the order they went in, each of  *)
(* them is given to exactly one worker, and a worker has one at a time.    *)
(* WsppQueue (the Queue class), WsppConnections (its users), and, as far   *)
(* as it has one worker, UwsDispatcher are checked to implement it.        *)
(***************************************************************************)
EXTENDS Sequences

CONSTANTS
    Workers,    \* the WsppThread threads
    Tasks,      \* the QueueElement values that may be pushed
    NoTask      \* a worker is holding no element; not one of Tasks

VARIABLES
    pending,    \* the elements pushed and not yet taken, oldest first
    held        \* held[w]: the element worker w is handling

queueVars == <<pending, held>>

Init == /\ pending = <<>>
        /\ held = [w \in Workers |-> NoTask]

\* Queue::push
Enqueue(t) == /\ pending' = Append(pending, t)
              /\ UNCHANGED held

\* Queue::pop returns in worker w
Take(w) == /\ held[w] = NoTask
           /\ pending # <<>>
           /\ held' = [held EXCEPT ![w] = Head(pending)]
           /\ pending' = Tail(pending)

\* pop_call of worker w ends and drops its element
Finish(w) == /\ held[w] # NoTask
             /\ held' = [held EXCEPT ![w] = NoTask]
             /\ UNCHANGED pending

Next == \/ \E t \in Tasks : Enqueue(t)
        \/ \E w \in Workers : Take(w) \/ Finish(w)

Spec == Init /\ [][Next]_queueVars
=============================================================================
