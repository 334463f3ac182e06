----------------------------- MODULE WsppQueue -----------------------------
(***************************************************************************)
(* The task queue of the server: class wspp_internal::Queue.  The asio     *)
(* (main) thread pushes, the worker threads pop.  push() changes the       *)
(* std::queue with no lock held and then notifies under mMutexForNotifier; *)
(* pop() holds mMutexForPop from start to end and sleeps on mNotifier when *)
(* it finds the queue empty.                                               *)
(*                                                                         *)
(* The unlocked emplace races with the empty() of a worker.  On the        *)
(* x86-64 builds the store of the new end of the queue becomes visible to  *)
(* the other threads at some moment before the pushing thread acquires     *)
(* mMutexForNotifier, so until then empty() may give the old answer:       *)
(* EmptyAnswers.                                                           *)
(***************************************************************************)
EXTENDS Naturals, Sequences

CONSTANTS
    Workers,    \* the WsppThread threads
    Main,       \* the thread running mServer.run(), the only one that pushes
    Free,       \* holder of a mutex nobody holds
    MaxPushes   \* bound on the number of pushes

ASSUME QueueAssumption ==
    /\ Main \notin Workers
    /\ Free \notin Workers \cup {Main}
    /\ MaxPushes \in Nat

Tasks == 1 .. MaxPushes     \* the n-th element pushed is the number n
NoTask == 0

VARIABLES
    items,          \* the std::queue base, oldest first
    pushed,         \* number of elements emplaced so far
    mainPc,         \* where Main is in push()
    pc,             \* pc[w]: where worker w is in pop_call()/pop()
    popMutex,       \* holder of mMutexForPop
    notifierMutex,  \* holder of mMutexForNotifier
    result          \* result[w]: w's copy of front(), returned by pop()

vars == <<items, pushed, mainPc, pc, popMutex, notifierMutex, result>>

-----------------------------------------------------------------------------
\* What empty() may answer: the element whose push has not yet reached the
\* notifier mutex may still be invisible.
EmptyAnswers ==
    IF items = <<>> THEN {TRUE}
    ELSE IF mainPc = "emplaced" /\ Len(items) = 1 THEN {TRUE, FALSE}
    ELSE {FALSE}

Goto(w, label) == pc' = [pc EXCEPT ![w] = label]

Init == /\ items = <<>>
        /\ pushed = 0
        /\ mainPc = "loop"
        /\ pc = [w \in Workers |-> "pop"]
        /\ popMutex = Free
        /\ notifierMutex = Free
        /\ result = [w \in Workers |-> NoTask]

-----------------------------------------------------------------------------
(* Queue::push, in the main thread *)

\* variant: the element gets the number of its predecessor
EmplaceOldCount == /\ mainPc = "loop"
                   /\ pushed < MaxPushes
                   /\ pushed' = pushed + 1
                   /\ items' = Append(items, pushed)
                   /\ mainPc' = "emplaced"
                   /\ UNCHANGED <<pc, popMutex, notifierMutex, result>>

Emplace == /\ mainPc = "loop"
           /\ pushed < MaxPushes
           /\ pushed' = pushed + 1
           /\ items' = Append(items, pushed + 1)
           /\ mainPc' = "emplaced"
           /\ UNCHANGED <<pc, popMutex, notifierMutex, result>>

\* variant: push() notifies without taking the mutex
UnlockedNotify == /\ mainPc = "emplaced"
                  /\ mainPc' = "notify"
                  /\ UNCHANGED <<items, pushed, pc, popMutex, notifierMutex, result>>

LockForNotify == /\ mainPc = "emplaced"
                 /\ notifierMutex = Free
                 /\ notifierMutex' = Main
                 /\ mainPc' = "notify"
                 /\ UNCHANGED <<items, pushed, pc, popMutex, result>>

Sleepers == {w \in Workers : pc[w] = "waiting"}

\* variant: push() takes and releases the mutex and wakes nobody
NotifyNobody == /\ mainPc = "notify"
                /\ mainPc' = "unlock"
                /\ UNCHANGED <<items, pushed, pc, popMutex, notifierMutex, result>>

\* notify_one() wakes one of the threads waiting, if there is one.
NotifyOne == /\ mainPc = "notify"
             /\ IF Sleepers = {} THEN UNCHANGED pc
                ELSE \E w \in Sleepers : Goto(w, "lockNotifier")
             /\ mainPc' = "unlock"
             /\ UNCHANGED <<items, pushed, popMutex, notifierMutex, result>>

UnlockAfterNotify == /\ mainPc = "unlock"
                     /\ notifierMutex' = Free
                     /\ mainPc' = "loop"
                     /\ UNCHANGED <<items, pushed, pc, popMutex, result>>

Push == LockForNotify \/ NotifyOne \/ UnlockAfterNotify

-----------------------------------------------------------------------------
(* Queue::pop, in worker w *)

\* variant: pop() does not wait for mMutexForPop
UnlockedPop(w) == /\ pc[w] = "pop"
                  /\ popMutex' = w
                  /\ Goto(w, "test")
                  /\ UNCHANGED <<items, pushed, mainPc, notifierMutex, result>>

LockPop(w) == /\ pc[w] = "pop"
              /\ popMutex = Free
              /\ popMutex' = w
              /\ Goto(w, "test")
              /\ UNCHANGED <<items, pushed, mainPc, notifierMutex, result>>

\* the condition of the while loop
TestEmpty(w) == /\ pc[w] = "test"
                /\ \E empty \in EmptyAnswers :
                      Goto(w, IF empty THEN "lockNotifier" ELSE "front")
                /\ UNCHANGED <<items, pushed, mainPc, popMutex, notifierMutex, result>>

\* lock_notifier, and the re-acquisition of it inside wait()
LockNotifier(w) == /\ pc[w] = "lockNotifier"
                   /\ notifierMutex = Free
                   /\ notifierMutex' = w
                   /\ Goto(w, "predicate")
                   /\ UNCHANGED <<items, pushed, mainPc, popMutex, result>>

\* wait() evaluates its predicate and returns when it is true
TestPredicate(w) == /\ pc[w] = "predicate"
                    /\ \E empty \in EmptyAnswers :
                          /\ Goto(w, IF empty THEN "sleep" ELSE "test")
                          /\ notifierMutex' = IF empty THEN w ELSE Free
                    /\ UNCHANGED <<items, pushed, mainPc, popMutex, result>>

\* wait() releases the mutex and starts waiting, atomically
Sleep(w) == /\ pc[w] = "sleep"
            /\ notifierMutex' = Free
            /\ Goto(w, "waiting")
            /\ UNCHANGED <<items, pushed, mainPc, popMutex, result>>

SpuriousWakeup(w) == /\ pc[w] = "waiting"
                     /\ Goto(w, "lockNotifier")
                     /\ UNCHANGED <<items, pushed, mainPc, popMutex, notifierMutex, result>>

CopyFront(w) == /\ pc[w] = "front"
                /\ result' = [result EXCEPT ![w] = Head(items)]
                /\ Goto(w, "remove")
                /\ UNCHANGED <<items, pushed, mainPc, popMutex, notifierMutex>>

\* variant: the copied element stays in the queue
KeepFront(w) == /\ pc[w] = "remove"
                /\ popMutex' = Free
                /\ Goto(w, "running")
                /\ UNCHANGED <<items, pushed, mainPc, notifierMutex, result>>

\* std::queue::pop(), then the return releases mMutexForPop
RemoveFront(w) == /\ pc[w] = "remove"
                  /\ items' = Tail(items)
                  /\ popMutex' = Free
                  /\ Goto(w, "running")
                  /\ UNCHANGED <<pushed, mainPc, notifierMutex, result>>

Pop(w) == \/ LockPop(w) \/ TestEmpty(w) \/ LockNotifier(w) \/ TestPredicate(w)
          \/ Sleep(w) \/ CopyFront(w) \/ RemoveFront(w)

\* the handler called by pop_call returns or throws; WsppThread::run loops
HandlerReturns(w) == /\ pc[w] = "running"
                     /\ result' = [result EXCEPT ![w] = NoTask]
                     /\ Goto(w, "pop")
                     /\ UNCHANGED <<items, pushed, mainPc, popMutex, notifierMutex>>

-----------------------------------------------------------------------------
\* Everything pushed was handled: the workers are blocked in pop() and the
\* main thread waits for network events.
Quiescent == /\ pushed = MaxPushes
             /\ mainPc = "loop"
             /\ items = <<>>
             /\ \A w \in Workers : pc[w] \in {"pop", "waiting"}
             /\ UNCHANGED vars

Next == \/ Emplace \/ Push \/ Quiescent
        \/ \E w \in Workers : Pop(w) \/ SpuriousWakeup(w) \/ HandlerReturns(w)

Spec == Init /\ [][Next]_vars

\* push() is finished once begun, handlers return, and a mutex that is
\* released again and again is given to each thread that waits for it.
Fairness == /\ SF_vars(LockForNotify)
            /\ WF_vars(NotifyOne \/ UnlockAfterNotify)
            /\ \A w \in Workers : /\ SF_vars(LockNotifier(w))
                                  /\ WF_vars(Pop(w))
                                  /\ WF_vars(HandlerReturns(w))
            /\ WF_vars(\E w \in Workers : LockPop(w))

FairSpec == Spec /\ Fairness

-----------------------------------------------------------------------------
(* Properties *)

InPop == {"test", "lockNotifier", "predicate", "sleep", "waiting", "front", "remove"}

\* Every variable keeps its type: Queue's members and the two program counters.
TypeOK == /\ items \in Seq(Tasks)
          /\ pushed \in 0 .. MaxPushes
          /\ mainPc \in {"loop", "emplaced", "notify", "unlock"}
          /\ pc \in [Workers -> InPop \cup {"pop", "running"}]
          /\ popMutex \in Workers \cup {Free}
          /\ notifierMutex \in Workers \cup {Main, Free}
          /\ result \in [Workers -> Tasks \cup {NoTask}]

\* No wakeup of push() is lost: when a worker sleeps in wait() although the
\* queue has an element, the push of that element has not notified yet.
NoLostWakeup == \A w \in Workers :
    pc[w] = "waiting" /\ items # <<>> => mainPc \in {"emplaced", "notify"}

\* pop() reads front() and calls std::queue::pop() only on a queue that has
\* an element, although it tests empty() some steps earlier and unlocked.
FrontNeverEmpty == \A w \in Workers : pc[w] \in {"front", "remove"} => items # <<>>

\* The queue class implements the abstract task queue: an element leaves it
\* at std::queue::pop(), in push order, to one worker.
Held == [w \in Workers |-> IF pc[w] = "running" THEN result[w] ELSE NoTask]
TQ == INSTANCE TaskQueue WITH pending <- items, held <- Held
ImplementsTaskQueue == TQ!Spec

\* Every element pushed is taken by a worker in the end: push() notifies, the
\* sleeping worker takes it, and handlers return.
PushedIsTaken == \A n \in Tasks :
    (pushed >= n) ~> \A i \in DOMAIN items : items[i] # n
=============================================================================
