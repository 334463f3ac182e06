-------------------------- MODULE WsppQueueProofs --------------------------
(***************************************************************************)
(* Proofs about WsppQueue for every set of workers and every number of     *)
(* pushes: its safety invariants, that it implements TaskQueue, that it    *)
(* hands out every element once and in order, and that it never deadlocks. *)
(***************************************************************************)
EXTENDS WsppQueue, TLAPS

(* The inductive invariant *)

\* Who holds the two mutexes, told from the program counters.
MutexInv ==
    /\ \A w \in Workers : pc[w] \in InPop <=> popMutex = w
    /\ \A w \in Workers : pc[w] \in {"predicate", "sleep"} <=> notifierMutex = w
    /\ mainPc \in {"notify", "unlock"} <=> notifierMutex = Main

\* A worker about to sleep on a queue that has an element holds the notifier
\* mutex, so the push of that element is still waiting for it.
SleepInv == \A w \in Workers :
    pc[w] = "sleep" /\ items # <<>> => mainPc = "emplaced"

\* The copy of front() is still the first element when it is removed, and it
\* is an element that was pushed.
CopyInv == \A w \in Workers :
    /\ pc[w] = "remove" => result[w] = Head(items)
    /\ pc[w] = "running" => result[w] \in Tasks

IInv == TypeOK /\ MutexInv /\ SleepInv /\ NoLostWakeup /\ FrontNeverEmpty /\ CopyInv

-----------------------------------------------------------------------------
\* The queue starts empty, with its mutexes free.
LEMMA InitIInv == Init => IInv
  BY QueueAssumption DEF Init, IInv, TypeOK, MutexInv, SleepInv, NoLostWakeup,
     FrontNeverEmpty, CopyInv, InPop, Tasks, NoTask

\* An emplace only makes the queue longer; no worker falls asleep by it.
LEMMA EmplaceStep == ASSUME IInv, Emplace PROVE IInv'
  BY QueueAssumption DEF Emplace, Tasks, IInv, TypeOK, MutexInv, SleepInv,
     NoLostWakeup, FrontNeverEmpty, CopyInv, InPop, NoTask

\* The rest of push(): lock, wake at most one worker, unlock.
LEMMA PushStep == ASSUME IInv, Push PROVE IInv'
<1> USE DEF IInv, TypeOK, MutexInv, SleepInv, NoLostWakeup, FrontNeverEmpty, CopyInv, InPop, NoTask
<1>1. CASE LockForNotify
  BY <1>1, QueueAssumption DEF LockForNotify
<1>2. CASE NotifyOne
  \* only one worker can be in wait(), and it is woken
  BY <1>2, QueueAssumption DEF NotifyOne, Sleepers, Goto
<1>3. CASE UnlockAfterNotify
  BY <1>3, QueueAssumption DEF UnlockAfterNotify
<1>. QED  BY <1>1, <1>2, <1>3 DEF Push

\* pop(): the mutex for pop keeps every other worker out.
LEMMA PopStep == ASSUME IInv, NEW v \in Workers, Pop(v) PROVE IInv'
<1> USE DEF IInv, TypeOK, MutexInv, SleepInv, NoLostWakeup, FrontNeverEmpty, CopyInv, InPop, NoTask, Goto
<1>1. CASE LockPop(v)
  BY <1>1, QueueAssumption DEF LockPop
<1>2. CASE TestEmpty(v)
  BY <1>2, QueueAssumption DEF TestEmpty, EmptyAnswers
<1>3. CASE LockNotifier(v)
  BY <1>3, QueueAssumption DEF LockNotifier
<1>4. CASE TestPredicate(v)
  <2>1. PICK empty \in EmptyAnswers :
            /\ pc' = [pc EXCEPT ![v] = IF empty THEN "sleep" ELSE "test"]
            /\ notifierMutex' = IF empty THEN v ELSE Free
    BY <1>4 DEF TestPredicate
  <2>2. UNCHANGED <<items, pushed, mainPc, popMutex, result>> /\ pc[v] = "predicate"
    BY <1>4 DEF TestPredicate
  <2>3. CASE empty
    BY <2>1, <2>2, <2>3, QueueAssumption DEF EmptyAnswers
  <2>4. CASE ~empty
    BY <2>1, <2>2, <2>4, QueueAssumption
  <2>. QED  BY <2>3, <2>4
<1>5. CASE Sleep(v)
  BY <1>5, QueueAssumption DEF Sleep
<1>6. CASE CopyFront(v)
  BY <1>6, QueueAssumption DEF CopyFront
<1>7. CASE RemoveFront(v)
  BY <1>7, QueueAssumption DEF RemoveFront
<1>. QED  BY <1>1, <1>2, <1>3, <1>4, <1>5, <1>6, <1>7 DEF Pop

\* Every step of push() and pop() keeps the invariant.
LEMMA NextIInv == IInv /\ [Next]_vars => IInv'
<1> SUFFICES ASSUME IInv, [Next]_vars PROVE IInv'
  OBVIOUS
<1>1. CASE Emplace  BY <1>1, EmplaceStep
<1>2. CASE Push  BY <1>2, PushStep
<1>3. ASSUME NEW v \in Workers, Pop(v) PROVE IInv'  BY <1>3, PopStep
<1>4. ASSUME NEW v \in Workers, SpuriousWakeup(v) PROVE IInv'
  BY <1>4, QueueAssumption DEF SpuriousWakeup, Goto, IInv, TypeOK, MutexInv, SleepInv,
     NoLostWakeup, FrontNeverEmpty, CopyInv, InPop
<1>5. ASSUME NEW v \in Workers, HandlerReturns(v) PROVE IInv'
  BY <1>5, QueueAssumption DEF HandlerReturns, Goto, IInv, TypeOK, MutexInv, SleepInv,
     NoLostWakeup, FrontNeverEmpty, CopyInv, InPop
<1>6. CASE UNCHANGED vars
  BY <1>6 DEF vars, IInv, TypeOK, MutexInv, SleepInv, NoLostWakeup, FrontNeverEmpty, CopyInv
<1>. QED  BY <1>1, <1>2, <1>3, <1>4, <1>5, <1>6 DEF Next, Quiescent

\* The inductive invariant holds in every reachable state.
THEOREM Invariance == Spec => []IInv
  BY InitIInv, NextIInv, PTL DEF Spec

\* Queue's members and the program counters keep their types.
THEOREM TypeCorrect == Spec => []TypeOK
  BY Invariance, PTL DEF IInv

\* No wakeup sent by push() is lost.
THEOREM WakeupsArrive == Spec => []NoLostWakeup
  BY Invariance, PTL DEF IInv

\* pop() never takes front() of an empty std::queue.
THEOREM FrontIsSafe == Spec => []FrontNeverEmpty
  BY Invariance, PTL DEF IInv

-----------------------------------------------------------------------------
(* Refinement of TaskQueue: emplace is Enqueue, std::queue::pop() is Take, *)
(* the return of the handler is Finish, everything else is a stutter.      *)

\* The empty queue is the empty task queue.
LEMMA InitRefines == Init => TQ!Init
  BY DEF Init, TQ!Init, Held

\* Steps that change neither the queue nor who is running its handler.
LEMMA StutterRefines ==
  ASSUME items' = items, result' = result,
         \A w \in Workers : pc[w] = "running" <=> pc'[w] = "running"
  PROVE  UNCHANGED TQ!queueVars
  BY DEF TQ!queueVars, Held

\* Every step of push() and pop() is a step of the task queue, or none.
LEMMA StepRefines == IInv /\ [Next]_vars => [TQ!Next]_(TQ!queueVars)
<1> SUFFICES ASSUME IInv, [Next]_vars PROVE [TQ!Next]_(TQ!queueVars)
  OBVIOUS
<1> USE DEF IInv, TypeOK, InPop
<1>1. CASE Emplace
  <2>1. pushed + 1 \in Tasks
    BY <1>1, QueueAssumption DEF Emplace, Tasks
  <2>2. TQ!Enqueue(pushed + 1)
    BY <1>1 DEF Emplace, TQ!Enqueue, Held
  <2>. QED  BY <2>1, <2>2 DEF TQ!Next
<1>2. CASE Push
  BY <1>2, StutterRefines DEF Push, LockForNotify, NotifyOne, UnlockAfterNotify, Sleepers, Goto
<1>3. ASSUME NEW v \in Workers, Pop(v) PROVE [TQ!Next]_(TQ!queueVars)
  <2>1. CASE LockPop(v)  BY <2>1, StutterRefines DEF LockPop, Goto
  <2>2. CASE TestEmpty(v)  BY <2>2, StutterRefines DEF TestEmpty, Goto
  <2>3. CASE LockNotifier(v)  BY <2>3, StutterRefines DEF LockNotifier, Goto
  <2>4. CASE TestPredicate(v)  BY <2>4, StutterRefines DEF TestPredicate, Goto
  <2>5. CASE Sleep(v)  BY <2>5, StutterRefines DEF Sleep, Goto
  <2>6. CASE CopyFront(v)
    BY <2>6 DEF CopyFront, Goto, TQ!queueVars, Held
  <2>7. CASE RemoveFront(v)
    <3>1. items # <<>> /\ result[v] = Head(items) /\ pc[v] = "remove"
      BY <2>7 DEF RemoveFront, FrontNeverEmpty, CopyInv
    <3>2. TQ!Take(v)
      BY <2>7, <3>1 DEF RemoveFront, Goto, TQ!Take, Held
    <3>. QED  BY <3>2 DEF TQ!Next
  <2>. QED  BY <1>3, <2>1, <2>2, <2>3, <2>4, <2>5, <2>6, <2>7 DEF Pop
<1>4. ASSUME NEW v \in Workers, SpuriousWakeup(v) PROVE [TQ!Next]_(TQ!queueVars)
  BY <1>4, StutterRefines DEF SpuriousWakeup, Goto
<1>5. ASSUME NEW v \in Workers, HandlerReturns(v) PROVE [TQ!Next]_(TQ!queueVars)
  <2>1. TQ!Finish(v)
    <3>1. result[v] # NoTask /\ pc[v] = "running"
      BY <1>5 DEF HandlerReturns, CopyInv, Tasks, NoTask
    <3>2. Held' = [Held EXCEPT ![v] = NoTask]
      BY <1>5 DEF HandlerReturns, Goto, Held
    <3>. QED  BY <1>5, <3>1, <3>2 DEF HandlerReturns, TQ!Finish, Held
  <2>. QED  BY <2>1 DEF TQ!Next
<1>6. CASE UNCHANGED vars
  BY <1>6, StutterRefines DEF vars
<1>. QED  BY <1>1, <1>2, <1>3, <1>4, <1>5, <1>6 DEF Next, Quiescent

\* The Queue class implements the abstract task queue.
THEOREM QueueImplementsTaskQueue == Spec => ImplementsTaskQueue
  BY Invariance, InitRefines, StepRefines, PTL DEF Spec, ImplementsTaskQueue, TQ!Spec
-----------------------------------------------------------------------------
(* Each element is handed out once, in the order of the pushes             *)

\* The elements in the queue are the last ones pushed, in their order, and
\* those that workers have taken are older and distinct.
HandedOutOnce ==
    /\ Len(items) <= pushed
    /\ \A i \in DOMAIN items : items[i] = pushed - Len(items) + i
    /\ \A w \in Workers : pc[w] = "running" => result[w] <= pushed - Len(items)
    /\ \A v, w \in Workers : pc[v] = "running" /\ pc[w] = "running" /\ v # w => result[v] # result[w]

\* Steps that leave the queue alone and start no handler.
LEMMA KeepsHandedOut ==
    ASSUME HandedOutOnce, UNCHANGED <<items, pushed>>,
           \A w \in Workers : pc'[w] = "running" => pc[w] = "running" /\ result'[w] = result[w]
    PROVE  HandedOutOnce'
  BY DEF HandedOutOnce

\* Only emplace and std::queue::pop() change what is handed out.
LEMMA NextHandsOut == IInv /\ HandedOutOnce /\ [Next]_vars => HandedOutOnce'
<1>. SUFFICES ASSUME IInv, HandedOutOnce, [Next]_vars PROVE HandedOutOnce'
  OBVIOUS
<1>. USE QueueAssumption DEF IInv, TypeOK
<1>0. items \in Seq(Tasks) /\ Len(items) \in Nat /\ pushed \in Nat /\ DOMAIN items = 1 .. Len(items)
  OBVIOUS
<1>1. CASE Emplace
  <2>1. /\ Len(items') = Len(items) + 1 /\ DOMAIN items' = 1 .. Len(items) + 1
        /\ \A i \in 1 .. Len(items) : items'[i] = items[i]
        /\ items'[Len(items) + 1] = pushed + 1
    BY <1>0, <1>1 DEF Emplace
  <2>2. pushed' = pushed + 1 /\ UNCHANGED <<pc, result>>
    BY <1>1 DEF Emplace
  <2>3. \A i \in DOMAIN items' : items'[i] = pushed' - Len(items') + i
    <3>1. \A i \in 1 .. Len(items) : items[i] = pushed - Len(items) + i
      BY <1>0 DEF HandedOutOnce
    <3>2. pushed' - Len(items') = pushed - Len(items)
      BY <1>0, <2>1, <2>2
    <3>3. SUFFICES ASSUME NEW i \in 1 .. Len(items) + 1
                   PROVE  items'[i] = pushed - Len(items) + i
      BY <2>1, <3>2
    <3>4. CASE i = Len(items) + 1
      BY <1>0, <2>1, <3>4
    <3>5. CASE i # Len(items) + 1
      <4>1. i \in 1 .. Len(items)
        BY <1>0, <3>5
      <4>. QED BY <2>1, <3>1, <4>1
    <3>. QED BY <3>4, <3>5
  <2>. QED
    BY <1>0, <2>1, <2>2, <2>3 DEF HandedOutOnce
<1>2. CASE Push
  BY <1>2, KeepsHandedOut DEF Push, LockForNotify, NotifyOne, UnlockAfterNotify, Sleepers, Goto
<1>3. ASSUME NEW v \in Workers, Pop(v) PROVE HandedOutOnce'
  <2>1. CASE \/ LockPop(v) \/ TestEmpty(v) \/ LockNotifier(v) \/ TestPredicate(v) \/ Sleep(v)
             \/ CopyFront(v)
    BY <2>1, KeepsHandedOut DEF LockPop, TestEmpty, LockNotifier, TestPredicate, Sleep, CopyFront, Goto
  <2>2. CASE RemoveFront(v)
    <3>1. items # <<>> /\ result[v] = items[1] /\ pc[v] = "remove"
      BY <1>0, <2>2 DEF RemoveFront, FrontNeverEmpty, CopyInv
    <3>2. /\ Len(items) > 0 /\ Len(items') = Len(items) - 1 /\ DOMAIN items' = 1 .. Len(items) - 1
          /\ \A i \in 1 .. Len(items) - 1 : items'[i] = items[i + 1]
      BY <1>0, <2>2, <3>1 DEF RemoveFront
    <3>3. result[v] = pushed - Len(items) + 1
      BY <1>0, <3>1, <3>2 DEF HandedOutOnce
    <3>4. /\ UNCHANGED <<pushed, result>>
          /\ \A w \in Workers : w # v => pc'[w] = pc[w]
      BY <2>2 DEF RemoveFront, Goto
    <3>5. \A w \in Workers : pc[w] = "running" => result[w] \in Nat /\ result[w] < result[v]
      BY <1>0, <3>3 DEF HandedOutOnce, CopyInv, Tasks
    <3>6. \A w \in Workers : pc'[w] = "running" => result'[w] <= pushed' - Len(items')
      BY <1>0, <3>2, <3>3, <3>4, <3>5
    <3>7. \A i \in DOMAIN items' : items'[i] = pushed' - Len(items') + i
      <4>1. \A i \in 1 .. Len(items) : items[i] = pushed - Len(items) + i
        BY <1>0 DEF HandedOutOnce
      <4>2. pushed' - Len(items') = pushed - Len(items) + 1
        BY <1>0, <3>2, <3>4
      <4>3. ASSUME NEW i \in 1 .. Len(items) - 1
            PROVE  items'[i] = pushed - Len(items) + 1 + i
        <5>1. i + 1 \in 1 .. Len(items) /\ items'[i] = items[i + 1]
          BY <1>0, <3>2
        <5>2. items[i + 1] = pushed - Len(items) + (i + 1)
          BY <4>1, <5>1
        <5>. QED BY <1>0, <5>1, <5>2
      <4>. QED BY <3>2, <4>2, <4>3
    <3>8. \A u, w \in Workers : pc'[u] = "running" /\ pc'[w] = "running" /\ u # w => result'[u] # result'[w]
      BY <1>0, <3>3, <3>4, <3>5 DEF HandedOutOnce
    <3>. QED
      BY <1>0, <3>2, <3>4, <3>6, <3>7, <3>8 DEF HandedOutOnce
  <2>. QED  BY <1>3, <2>1, <2>2 DEF Pop
<1>4. ASSUME NEW v \in Workers, SpuriousWakeup(v) PROVE HandedOutOnce'
  BY <1>4, KeepsHandedOut DEF SpuriousWakeup, Goto
<1>5. ASSUME NEW v \in Workers, HandlerReturns(v) PROVE HandedOutOnce'
  BY <1>5, KeepsHandedOut DEF HandlerReturns, Goto
<1>6. CASE UNCHANGED vars
  BY <1>6, KeepsHandedOut DEF vars
<1>. QED  BY <1>1, <1>2, <1>3, <1>4, <1>5, <1>6 DEF Next, Quiescent

\* An element that was pushed is in one place at most: in the queue, where
\* nothing between the oldest and the last push is missing, or with one
\* worker.
THEOREM EachElementOnce == Spec => []HandedOutOnce
<1>1. Init => HandedOutOnce
  BY DEF Init, HandedOutOnce
<1>. QED
  BY <1>1, Invariance, NextHandsOut, PTL DEF Spec

\* The n-th handler to be started, in whichever worker, gets the n-th element
\* that was pushed: the racing pops of the workers reorder nothing.
TakenInOrder ==
    [][\A w \in Workers : pc[w] # "running" /\ pc'[w] = "running" =>
          result'[w] = pushed - Len(items) + 1 /\ pushed' - Len(items') = result'[w]]_vars

\* Elements leave the queue in the order in which they were pushed.
THEOREM FirstInFirstOut == Spec => TakenInOrder
<1>1. ASSUME IInv, HandedOutOnce, [Next]_vars, NEW w \in Workers, pc[w] # "running", pc'[w] = "running"
      PROVE  result'[w] = pushed - Len(items) + 1 /\ pushed' - Len(items') = result'[w]
  <2>. USE QueueAssumption, <1>1 DEF IInv, TypeOK
  <2>1. RemoveFront(w)
    <3>1. ASSUME Push PROVE FALSE
      BY <3>1 DEF Push, LockForNotify, NotifyOne, UnlockAfterNotify, Sleepers, Goto
    <3>2. ASSUME NEW v \in Workers, Pop(v) PROVE RemoveFront(w)
      BY <3>2 DEF Pop, LockPop, TestEmpty, LockNotifier, TestPredicate, Sleep, CopyFront,
         RemoveFront, Goto
    <3>3. ASSUME NEW v \in Workers, SpuriousWakeup(v) \/ HandlerReturns(v) PROVE FALSE
      BY <3>3 DEF SpuriousWakeup, HandlerReturns, Goto
    <3>. QED  BY <3>1, <3>2, <3>3 DEF Next, Emplace, Quiescent, vars
  <2>2. items # <<>> /\ result[w] = items[1]
    BY <2>1 DEF RemoveFront, FrontNeverEmpty, CopyInv
  <2>3. 1 \in DOMAIN items /\ Len(items) \in Nat /\ Len(items') = Len(items) - 1
    BY <2>1, <2>2 DEF RemoveFront
  <2>4. result'[w] = items[1] /\ pushed' = pushed /\ pushed \in Nat
    BY <2>1, <2>2 DEF RemoveFront
  <2>5. items[1] = pushed - Len(items) + 1
    BY <2>3 DEF HandedOutOnce
  <2>. QED  BY <2>3, <2>4, <2>5
<1>2. IInv /\ HandedOutOnce /\ [Next]_vars =>
         [\A w \in Workers : pc[w] # "running" /\ pc'[w] = "running" =>
             result'[w] = pushed - Len(items) + 1 /\ pushed' - Len(items') = result'[w]]_vars
  BY <1>1
<1>. QED
  BY <1>2, Invariance, EachElementOnce, PTL DEF Spec, TakenInOrder

-----------------------------------------------------------------------------
(* The two mutexes and the condition variable do not deadlock              *)

\* A thread that is inside push() or pop() and cannot go on.
PushBlocked == mainPc = "emplaced" /\ notifierMutex # Free
PopBlocked(w) == \/ pc[w] = "pop" /\ popMutex # Free
                 \/ pc[w] = "lockNotifier" /\ notifierMutex # Free
                 \/ pc[w] = "waiting"

\* As long as a push is unfinished or an element is in the queue, a thread
\* can go on: the pushing one, or a worker, even if all of them are in pop().
NeverStuck ==
    mainPc # "loop" \/ items # <<>> =>
        \/ mainPc # "loop" /\ ~PushBlocked
        \/ \E w \in Workers : ~PopBlocked(w)

\* No wait of push() or pop() closes a circle: whoever holds the notifier
\* mutex goes on, and whoever holds the mutex for pop waits for a thread that
\* goes on or sleeps with a notification on its way.
THEOREM NoDeadlock == ASSUME Workers # {} PROVE Spec => []NeverStuck
<1>1. ASSUME IInv, mainPc # "loop" \/ items # <<>>, PushBlocked \/ mainPc = "loop",
             \A w \in Workers : PopBlocked(w)
      PROVE  FALSE
  <2>. USE QueueAssumption, <1>1 DEF IInv, TypeOK, PopBlocked, PushBlocked, MutexInv, InPop
  <2>1. notifierMutex = Free
    <3>1. notifierMutex # Main
      OBVIOUS
    <3>2. \A w \in Workers : notifierMutex # w
      OBVIOUS
    <3>. QED  BY <3>1, <3>2
  <2>2. mainPc = "loop" /\ items # <<>>
    BY <2>1
  <2>3. PICK w \in Workers : popMutex = w
    <3>1. PICK w \in Workers : TRUE
      OBVIOUS
    <3>2. popMutex # Free
      BY <2>1, <3>1
    <3>. QED  BY <3>2
  <2>4. pc[w] = "waiting"
    BY <2>1, <2>3
  <2>. QED  BY <2>2, <2>4 DEF NoLostWakeup
<1>2. IInv => NeverStuck
  BY <1>1 DEF NeverStuck
<1>. QED
  BY <1>2, Invariance, PTL
=============================================================================
