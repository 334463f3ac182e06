------------------------ MODULE UwsDispatcherProofs ------------------------
(***************************************************************************)
(* Proofs about UwsDispatcher for every set of workers and sockets and     *)
(* every number of connections and messages: type correctness, the safety  *)
(* properties, and that of one worker the queue implements TaskQueue; then *)
(* that the holder of a mutex goes on, and the order of a Data's tasks.    *)
(*                                                                         *)
(* The argument: mWs of a Data is set by DataSet::find for a new Data      *)
(* only, and reset by the disconnection of its socket, which waits for     *)
(* the mMutex a sending worker holds.                                      *)
(***************************************************************************)
EXTENDS UwsDispatcher, FiniteSetTheorems, TLAPS

(* The inductive invariant *)

Disconnecting == mainPc \in {"disconnected", "push"}

\* The constructor's part: only started workers have left the wait, and
\* nothing is in the queue before the callbacks are bound.
StartInv == /\ IsFiniteSet(started)
            /\ \A w \in Workers \ started : pc[w] = "wait"
            /\ mainPc = "construct" => items = <<>> /\ \A w \in Workers : pc[w] = "wait"

\* A worker in the locked part of a handler holds the mMutex of its Data.
LockInv == \A w \in Workers : pc[w] \in {"fields", "sendCheck", "wsSend"} => mMutex[task[w].data] = w

\* The Data that are not made yet are nowhere.
FreshInv == /\ \A s \in Sockets : dataSet[s] <= created
            /\ \A d \in Datas : d > created => mWs[d] = Null
            /\ closing.data <= created

\* The socket that Main is disconnecting, and its Data.
ClosingInv == /\ ~Disconnecting => closing = NotClosing
              /\ Disconnecting => closing.socket \in alive /\ dataSet[closing.socket] = NoData
              /\ mainPc = "disconnected" => mWs[closing.data] = closing.socket
              /\ mainPc = "push" => mWs[closing.data] = Null

\* mWs is a live socket whose Data it is.
SocketInv == \A d \in Datas : mWs[d] # Null =>
    /\ mWs[d] \in alive
    /\ dataSet[mWs[d]] = d \/ (mainPc = "disconnected" /\ closing.data = d)

\* Between its test and its use mWs stays set.
SendInv == \A w \in Workers : pc[w] = "wsSend" => mWs[task[w].data] # Null

\* A Data with a disconnection task was made, and is disconnected.
Gone(t) == t.call = "disconnection" => t.data <= created /\ mWs[t.data] = Null
GoneInv == /\ \A i \in DOMAIN items : Gone(items[i])
           /\ \A w \in Workers : Gone(task[w])

IInv == /\ TypeOK /\ StartInv /\ LockInv /\ FreshInv /\ ClosingInv
        /\ SocketInv /\ SendInv /\ GoneInv /\ DataIsOfItsSocket

-----------------------------------------------------------------------------
(* Every step preserves the inductive invariant *)

\* The dispatcher starts with no Data, no task and no mutex locked.
LEMMA InitIInv == Init => IInv
<1> SUFFICES ASSUME Init PROVE IInv
  OBVIOUS
<1> USE DispatcherAssumption DEF Init, NotClosing, NoData, NoTask, Datas
<1>1. TypeOK  BY DEF TypeOK, Tasks
<1>2. StartInv  BY FS_EmptySet DEF StartInv
<1>3. LockInv /\ FreshInv /\ SendInv  BY DEF LockInv, FreshInv, SendInv
<1>4. ClosingInv /\ SocketInv /\ DataIsOfItsSocket
  BY DEF ClosingInv, SocketInv, DataIsOfItsSocket, Disconnecting
<1>5. GoneInv  BY DEF GoneInv, Gone
<1>. QED  BY <1>1, <1>2, <1>3, <1>4, <1>5 DEF IInv

\* A thread starts, or the constructor throws, or it ends.
LEMMA ConstructStep == ASSUME IInv, Construct PROVE IInv'
<1> USE DEF IInv
<1>1. PICK w \in Workers : StartWorker(w) \/ BindCallbacks  BY DEF Construct, BindCallbacks, TypeOK
<1>2. started' = started \/ started' = started \cup {w}  BY <1>1 DEF StartWorker, BindCallbacks
<1>3. UNCHANGED <<alive, dataSet, created, mWs, mMutex, items, closing, pc, task, arrivals>>
  BY <1>1 DEF StartWorker, BindCallbacks, ConstructorRest
<1>4. mainPc = "construct" /\ mainPc' \in {"construct", "failed", "loop"}
  BY <1>1 DEF StartWorker, BindCallbacks
<1>5. TypeOK'  BY <1>2, <1>3, <1>4 DEF TypeOK
<1>6. StartInv'  BY <1>2, <1>3, <1>4, FS_AddElement DEF StartInv
<1>7. (LockInv /\ FreshInv /\ SendInv /\ GoneInv /\ DataIsOfItsSocket)'
  BY <1>3 DEF LockInv, FreshInv, SendInv, GoneInv, Gone, DataIsOfItsSocket
<1>8. (ClosingInv /\ SocketInv)'  BY <1>3, <1>4 DEF ClosingInv, SocketInv, Disconnecting
<1>. QED  BY <1>5, <1>6, <1>7, <1>8

\* DataSet::find: the Data it returns, and what becomes of the rest.
LEMMA FindFacts == ASSUME IInv, NEW s \in Sockets, Find(s)
                   PROVE /\ dataSet'[s] \in Datas
                         /\ \/ UNCHANGED <<dataSet, created, mWs>>
                            \/ /\ dataSet[s] = NoData
                               /\ created' = created + 1
                               /\ created + 1 \in Datas
                               /\ dataSet' = [dataSet EXCEPT ![s] = created + 1]
                               /\ mWs' = [mWs EXCEPT ![created + 1] = s]
  BY DispatcherAssumption DEF IInv, TypeOK, Find, Datas, NoData

\* A task appended to the queue is the only new one.
LEMMA Appended == ASSUME TypeOK, NEW t \in Tasks, items' = Append(items, t)
                  PROVE /\ items' \in Seq(Tasks)
                        /\ \A i \in DOMAIN items' : items'[i] = t \/ (i \in DOMAIN items /\ items'[i] = items[i])
<1>1. items \in Seq(Tasks)  BY DEF TypeOK
<1>2. DOMAIN items = 1 .. Len(items) /\ DOMAIN items' = 1 .. Len(items) + 1 /\ Len(items) \in Nat
  BY <1>1
<1>3. \A i \in 1 .. Len(items) : items'[i] = items[i]  BY <1>1
<1>4. items'[Len(items) + 1] = t  BY <1>1
<1>5. items' \in Seq(Tasks)  BY <1>1
<1>. QED  BY <1>2, <1>3, <1>4, <1>5

\* A socket opens, or sends: a Data made for it is a fresh one.
LEMMA FindStep == ASSUME IInv, NEW s \in Sockets, Connection(s) \/ Message(s) PROVE IInv'
<1> USE DispatcherAssumption DEF IInv, Datas, NoData
<1>1. Find(s) /\ mainPc = "loop" /\ mainPc' = "loop" /\ closing = NotClosing
  BY DEF Connection, Message, ClosingInv, Disconnecting
<1>2. UNCHANGED <<started, mMutex, closing, pc, task>>  BY DEF Connection, Message
<1>3. alive' = alive \cup {s} /\ (s \notin alive => dataSet[s] = NoData)
  BY DEF Connection, Message, DataIsOfItsSocket, TypeOK
<1>4. PICK call \in {"connection", "message"} : items' = Append(items, Task(dataSet'[s], call))
  BY DEF Connection, Message
<1>5. Task(dataSet'[s], call) \in Tasks  BY <1>1, FindFacts DEF Tasks, Task
<1>6. /\ items' \in Seq(Tasks)
      /\ \A i \in DOMAIN items' : \/ items'[i] = Task(dataSet'[s], call)
                                  \/ i \in DOMAIN items /\ items'[i] = items[i]
  BY <1>4, <1>5, Appended
<1>7. arrivals' \in 0 .. MaxMessages  BY DEF Connection, Message, TypeOK
<1>8. CASE UNCHANGED <<dataSet, created, mWs>>
  <2>1. s \in alive => dataSet[s] # NoData
    BY <1>1 DEF DataIsOfItsSocket, NotClosing
  <2>2. dataSet[s] # NoData  BY <1>1, <1>8, FindFacts
  <2>3. TypeOK'  BY <1>1, <1>2, <1>3, <1>6, <1>7, <1>8 DEF TypeOK
  <2>4. StartInv'  BY <1>1, <1>2 DEF StartInv
  <2>5. (LockInv /\ FreshInv /\ SendInv)'  BY <1>2, <1>8 DEF LockInv, FreshInv, SendInv
  <2>6. (ClosingInv /\ SocketInv)'  BY <1>1, <1>2, <1>3, <1>8 DEF ClosingInv, SocketInv, Disconnecting
  <2>7. GoneInv'  BY <1>2, <1>6, <1>8 DEF GoneInv, Gone, Task
  <2>8. DataIsOfItsSocket'  BY <1>2, <1>3, <1>8, <2>2 DEF DataIsOfItsSocket
  <2>. QED  BY <2>3, <2>4, <2>5, <2>6, <2>7, <2>8
<1>9. CASE /\ dataSet[s] = NoData /\ created' = created + 1 /\ created + 1 \in Datas
           /\ dataSet' = [dataSet EXCEPT ![s] = created + 1]
           /\ mWs' = [mWs EXCEPT ![created + 1] = s]
  <2>1. TypeOK'  BY <1>1, <1>2, <1>3, <1>6, <1>7, <1>9 DEF TypeOK
  <2>2. StartInv'  BY <1>1, <1>2 DEF StartInv
  <2>3. (LockInv /\ SendInv)'  BY <1>2, <1>9 DEF LockInv, SendInv, TypeOK
  <2>4. FreshInv'  BY <1>1, <1>2, <1>9 DEF FreshInv, TypeOK, NotClosing
  <2>5. ClosingInv'  BY <1>1, <1>2 DEF ClosingInv, Disconnecting
  <2>6. SocketInv'
    <3>1. \A d \in Datas : dataSet[s] # d  BY <1>9
    <3>. QED  BY <1>1, <1>3, <1>9, <3>1 DEF SocketInv, TypeOK, NotClosing
  <2>7. GoneInv'
    <3> DEFINE StillGone(t) == t.call = "disconnection" => t.data <= created' /\ mWs'[t.data] = Null
    <3>1. created \in Nat  BY DEF TypeOK
    <3>2. ASSUME NEW t \in Tasks \cup {NoTask}, Gone(t) PROVE StillGone(t)
      BY <1>9, <3>1, <3>2 DEF Gone, TypeOK, Tasks, NoTask
    <3>3. \A i \in DOMAIN items : items[i] \in Tasks  BY DEF TypeOK
    <3>4. StillGone(Task(dataSet'[s], call))  BY DEF Task
    <3>5. \A i \in DOMAIN items : Gone(items[i])  BY DEF GoneInv
    <3>6. \A i \in DOMAIN items' : StillGone(items'[i])
      <4>. HIDE DEF StillGone, IInv
      <4>. QED  BY <1>6, <3>2, <3>3, <3>4, <3>5
    <3>7. \A w \in Workers : StillGone(task'[w])  BY <1>2, <3>2 DEF GoneInv, TypeOK
    <3>. QED  BY <3>6, <3>7 DEF GoneInv, Gone
  <2>8. DataIsOfItsSocket'
    BY <1>2, <1>3, <1>9 DEF DataIsOfItsSocket, FreshInv, TypeOK
  <2>. QED  BY <2>1, <2>2, <2>3, <2>4, <2>5, <2>6, <2>7, <2>8
<1>. QED  BY <1>1, <1>8, <1>9, FindFacts

\* A disconnection takes the Data of the socket out of the set.
LEMMA DisconnectionStep == ASSUME IInv, NEW s \in Sockets, Disconnection(s) PROVE IInv'
<1> USE DispatcherAssumption DEF IInv, Datas, NoData, Disconnection, Remove
<1>1. TypeOK'  BY DEF TypeOK
<1>2. (StartInv /\ LockInv /\ SendInv /\ GoneInv)'  BY DEF StartInv, LockInv, SendInv, GoneInv, Gone
<1>3. FreshInv'  BY DEF FreshInv, TypeOK
<1>4. ClosingInv'  BY DEF ClosingInv, Disconnecting, DataIsOfItsSocket, TypeOK
<1>5. SocketInv'  BY DEF SocketInv, TypeOK
<1>6. DataIsOfItsSocket'  BY DEF DataIsOfItsSocket, ClosingInv, Disconnecting, NotClosing, TypeOK
<1>. QED  BY <1>1, <1>2, <1>3, <1>4, <1>5, <1>6

\* mWs is reset when no worker is in the locked part.
LEMMA DisconnectedStep == ASSUME IInv, WebsocketDisconnected PROVE IInv'
<1> USE DispatcherAssumption DEF IInv, Datas, NoData, WebsocketDisconnected
<1>1. closing.data \in Datas /\ mMutex[closing.data] = Free  BY DEF TypeOK
<1>2. TypeOK'  BY DEF TypeOK
<1>3. (StartInv /\ LockInv)'  BY DEF StartInv, LockInv
<1>4. FreshInv'  BY DEF FreshInv, TypeOK
<1>5. (ClosingInv /\ SocketInv)'  BY <1>1 DEF ClosingInv, SocketInv, Disconnecting, TypeOK
<1>6. SendInv'
  <2>1. \A w \in Workers : pc[w] = "wsSend" => task[w].data # closing.data
    BY <1>1 DEF LockInv
  <2>2. \A w \in Workers : pc[w] = "wsSend" => task[w].data \in Datas  BY DEF TypeOK, Tasks
  <2>. QED  BY <2>1, <2>2 DEF SendInv, TypeOK
<1>7. GoneInv'  BY DEF GoneInv, Gone, TypeOK, Tasks, NoTask
<1>8. DataIsOfItsSocket'
  <2>1. \A s \in Sockets : dataSet[s] # NoData => mWs[dataSet[s]] = s /\ s # closing.socket
    BY DEF DataIsOfItsSocket, ClosingInv, Disconnecting
  <2>2. mWs[closing.data] = closing.socket  BY DEF ClosingInv
  <2>. QED  BY <2>1, <2>2 DEF DataIsOfItsSocket, TypeOK
<1>. QED  BY <1>2, <1>3, <1>4, <1>5, <1>6, <1>7, <1>8

\* The disconnection task is pushed, and the socket destroyed.
LEMMA ReturnStep == ASSUME IInv, DisconnectionReturns PROVE IInv'
<1> USE DispatcherAssumption DEF IInv, Datas, NoData, DisconnectionReturns
<1>1. closing.data \in Datas /\ mWs[closing.data] = Null /\ closing.data <= created
  BY DEF TypeOK, ClosingInv, FreshInv
<1>2. Task(closing.data, "disconnection") \in Tasks  BY <1>1 DEF Task, Tasks
<1>3. /\ items' \in Seq(Tasks)
      /\ \A i \in DOMAIN items' : \/ items'[i] = Task(closing.data, "disconnection")
                                  \/ i \in DOMAIN items /\ items'[i] = items[i]
  BY <1>2, Appended
<1>4. TypeOK'  BY <1>3 DEF TypeOK, NotClosing
<1>5. (StartInv /\ LockInv /\ SendInv)'  BY DEF StartInv, LockInv, SendInv
<1>6. FreshInv'  BY DEF FreshInv, NotClosing, TypeOK
<1>7. ClosingInv'  BY DEF ClosingInv, Disconnecting
<1>8. SocketInv'  BY DEF SocketInv, ClosingInv, Disconnecting, TypeOK
<1>9. GoneInv'  BY <1>1, <1>3 DEF GoneInv, Gone, Task
<1>10. DataIsOfItsSocket'
  BY DEF DataIsOfItsSocket, ClosingInv, Disconnecting, NotClosing, TypeOK
<1>. QED  BY <1>4, <1>5, <1>6, <1>7, <1>8, <1>9, <1>10

\* What a worker changes: the front of the queue, its task, its place and
\* the mMutex of its Data.
WorkerStep(w) == \/ Serve(w) \/ UseFields(w) \/ SendLock(w) \/ HandlerEnds(w)

\* The types, step by step of a worker.
LEMMA WorkerTypeOK == ASSUME IInv, NEW w \in Workers, WorkerStep(w) PROVE TypeOK'
<1> USE DispatcherAssumption DEF IInv, TypeOK, Goto, hubVars
<1>1. CASE WaitForData(w)  BY <1>1 DEF WaitForData
<1>2. CASE CopyFront(w)
  <2>1. items # <<>> => Head(items) \in Tasks
    <3>1. items \in Seq(Tasks)  OBVIOUS
    <3>. HIDE DEF TypeOK
    <3>. QED  BY <3>1
  <2>. QED  BY <1>2, <2>1 DEF CopyFront
<1>3. CASE RemoveFront(w)
  <2>1. items # <<>> => Tail(items) \in Seq(Tasks)
    <3>1. items \in Seq(Tasks)  OBVIOUS
    <3>. HIDE DEF TypeOK
    <3>. QED  BY <3>1
  <2>. QED  BY <1>3, <2>1 DEF RemoveFront
<1>4. ASSUME NEW label \in {"fields", "sendCheck"}, LockData(w, label) PROVE TypeOK'
  BY <1>4 DEF LockData
<1>5. CASE SendCheck(w) \/ SendOnSocket(w)  BY <1>5 DEF SendCheck, SendOnSocket
<1>6. CASE UnlockData(w)  BY <1>6 DEF UnlockData
<1>7. CASE HandlerEnds(w)  BY <1>7 DEF HandlerEnds, HandlerReturns, HandlerThrows
<1>. QED
  BY <1>1, <1>2, <1>3, <1>4, <1>5, <1>6, <1>7 DEF WorkerStep, Serve, UseFields, SendLock

\* A worker leaves the sockets and the other workers alone.
LEMMA WorkerLocal == ASSUME IInv, NEW w \in Workers, WorkerStep(w)
                     PROVE /\ UNCHANGED <<hubVars, mWs>>
                           /\ \A v \in Workers \ {w} : pc'[v] = pc[v] /\ task'[v] = task[v]
                           /\ mainPc # "construct" /\ w \in started
<1> USE DEF hubVars, Goto, IInv, TypeOK, StartInv, WorkerStep, Serve
<1>1. CASE WaitForData(w) \/ CopyFront(w) \/ RemoveFront(w)
  BY <1>1 DEF WaitForData, CopyFront, RemoveFront
<1>2. CASE UseFields(w) \/ SendLock(w) \/ SendCheck(w)
  BY <1>2 DEF UseFields, SendLock, LockData, SendCheck
<1>3. CASE SendOnSocket(w) \/ UnlockData(w) \/ HandlerEnds(w)
  BY <1>3 DEF SendOnSocket, UnlockData, HandlerEnds, HandlerReturns, HandlerThrows
<1>. QED  BY <1>1, <1>2, <1>3

\* The mutexes: a worker locks one that is free, and unlocks its own.
LEMMA WorkerLockInv == ASSUME IInv, NEW w \in Workers, WorkerStep(w) PROVE LockInv'
<1> USE DispatcherAssumption DEF hubVars, Goto, IInv, TypeOK, LockInv, WorkerStep, Serve, Tasks, NoTask, NoData
<1>1. CASE WaitForData(w) \/ CopyFront(w) \/ RemoveFront(w)
  BY <1>1 DEF WaitForData, CopyFront, RemoveFront
<1>2. CASE UseFields(w) \/ SendLock(w)
  BY <1>2 DEF UseFields, SendLock, LockData
<1>3. CASE SendCheck(w) \/ SendOnSocket(w)
  BY <1>3 DEF SendCheck, SendOnSocket
<1>4. CASE UnlockData(w) \/ HandlerEnds(w)
  BY <1>4 DEF UnlockData, HandlerEnds, HandlerReturns, HandlerThrows
<1>. QED  BY <1>1, <1>2, <1>3, <1>4

\* A worker copies the first element, removes it, or forgets its task.
LEMMA WorkerTakes ==
    ASSUME IInv, NEW w \in Workers, WorkerStep(w)
    PROVE  /\ task'[w] = task[w] \/ task'[w] = NoTask \/ (items # <<>> /\ task'[w] = Head(items))
           /\ items' = items \/ (items # <<>> /\ items' = Tail(items) /\ task' = task)
  BY DEF IInv, TypeOK, WorkerStep, Serve, WaitForData, CopyFront, RemoveFront, UseFields, SendLock,
     LockData, SendCheck, SendOnSocket, UnlockData, HandlerEnds, HandlerReturns, HandlerThrows

\* The tasks a worker copies and removes were in the queue.
LEMMA WorkerGoneInv == ASSUME IInv, NEW w \in Workers, WorkerStep(w) PROVE GoneInv'
<1> USE DEF IInv
<1>1. UNCHANGED <<created, mWs>>  BY WorkerLocal DEF hubVars
<1>2. \A v \in Workers \ {w} : task'[v] = task[v]  BY WorkerLocal
<1>3. items \in Seq(Tasks) /\ task \in [Workers -> Tasks \cup {NoTask}]  BY DEF TypeOK
<1>4. ASSUME items # <<>>
      PROVE  /\ Gone(Head(items))
             /\ \A i \in DOMAIN Tail(items) : Gone(Tail(items)[i])
  <2>1. Head(items) = items[1] /\ 1 \in DOMAIN items  BY <1>3, <1>4
  <2>2. \A i \in DOMAIN Tail(items) : i + 1 \in DOMAIN items /\ Tail(items)[i] = items[i + 1]
    BY <1>3, <1>4
  <2>. QED  BY <2>1, <2>2 DEF GoneInv
<1>5. task'[w] = task[w] \/ task'[w] = NoTask \/ (items # <<>> /\ task'[w] = Head(items))
  BY WorkerTakes
<1>6. items' = items \/ (items # <<>> /\ items' = Tail(items))
  BY WorkerTakes
<1>7. \A i \in DOMAIN items' : Gone(items'[i])  BY <1>4, <1>6 DEF GoneInv
<1>8. \A v \in Workers : Gone(task'[v])
  <2>1. Gone(NoTask)  BY DEF Gone, NoTask
  <2>. QED  BY <1>2, <1>4, <1>5, <2>1 DEF GoneInv
<1>. QED  BY <1>1, <1>7, <1>8 DEF GoneInv, Gone

\* Every step of a worker keeps the invariant.
LEMMA WorkerKeeps == ASSUME IInv, NEW w \in Workers, WorkerStep(w) PROVE IInv'
<1> USE DEF IInv
<1>1. UNCHANGED <<hubVars, mWs>> /\ mainPc # "construct" /\ w \in started
      /\ \A v \in Workers \ {w} : pc'[v] = pc[v] /\ task'[v] = task[v]
  BY WorkerLocal
<1>2. StartInv'  BY <1>1 DEF StartInv, hubVars
<1>3. (FreshInv /\ ClosingInv /\ SocketInv /\ DataIsOfItsSocket)'
  BY <1>1 DEF FreshInv, ClosingInv, SocketInv, DataIsOfItsSocket, Disconnecting, hubVars
<1>4. SendInv'
  <2>1. pc'[w] = "wsSend" => mWs[task[w].data] # Null /\ task'[w] = task[w]
    BY DEF TypeOK, WorkerStep, Serve, WaitForData, CopyFront, RemoveFront, UseFields, SendLock,
       LockData, SendCheck, SendOnSocket, UnlockData, HandlerEnds, HandlerReturns, HandlerThrows, Goto
  <2>. QED  BY <1>1, <2>1 DEF SendInv
<1>. QED  BY <1>2, <1>3, <1>4, WorkerTypeOK, WorkerLockInv, WorkerGoneInv

\* Every step of the dispatcher keeps the invariant.
LEMMA NextIInv == IInv /\ [Next]_vars => IInv'
<1> SUFFICES ASSUME IInv, [Next]_vars PROVE IInv'
  OBVIOUS
<1>1. CASE Construct  BY <1>1, ConstructStep
<1>2. CASE Hub
  BY <1>2, FindStep, DisconnectionStep, DisconnectedStep, ReturnStep DEF Hub
<1>3. ASSUME NEW w \in Workers, Serve(w) \/ UseFields(w) \/ SendLock(w) \/ HandlerEnds(w)
      PROVE  IInv'
  BY <1>3, WorkerKeeps DEF WorkerStep
<1>4. CASE UNCHANGED vars
  BY <1>4 DEF vars, IInv, TypeOK, StartInv, LockInv, FreshInv, ClosingInv, SocketInv, SendInv,
     GoneInv, Gone, DataIsOfItsSocket, Disconnecting
<1>. QED  BY <1>1, <1>2, <1>3, <1>4 DEF Next, Stopped

\* The inductive invariant holds in every reachable state.
THEOREM Invariance == Spec => []IInv
  BY InitIInv, NextIInv, PTL DEF Spec

\* Every variable keeps its type.
THEOREM TypeCorrect == Spec => []TypeOK
<1>1. IInv => TypeOK  BY DEF IInv
<1>. QED  BY <1>1, Invariance, PTL

\* No worker sends on a socket that uWS has destroyed or given to another.
THEOREM SendsAreSafe == Spec => []SendsOnLiveSocket
<1>1. IInv => SendsOnLiveSocket
  <2> SUFFICES ASSUME IInv, NEW w \in Workers, pc[w] = "wsSend"
               PROVE LET d == task[w].data
                     IN  mWs[d] \in alive /\ (dataSet[mWs[d]] = d \/ closing.data = d)
    BY DEF SendsOnLiveSocket
  <2>1. task[w].data \in Datas  BY DEF IInv, TypeOK, Tasks
  <2>. QED  BY <2>1 DEF IInv, SendInv, SocketInv
<1>. QED  BY <1>1, Invariance, PTL

\* A disconnection handler never finds a socket.
THEOREM DisconnectionHandlersFindNull == Spec => []DisconnectionFindsNull
<1>1. IInv => DisconnectionFindsNull
  BY DEF IInv, GoneInv, Gone, DisconnectionFindsNull
<1>. QED  BY <1>1, Invariance, PTL

\* The set has the connected sockets, each with its own Data.
THEOREM SetIsOfConnected == Spec => []DataIsOfItsSocket
<1>1. IInv => DataIsOfItsSocket  BY DEF IInv
<1>. QED  BY <1>1, Invariance, PTL

-----------------------------------------------------------------------------
(* Refinement of TaskQueue by a dispatcher with one worker: the pushes of  *)
(* the hub are Enqueue, RemoveFront is Take, the end of the handler is     *)
(* Finish, everything else is a stutter.                                   *)

\* A worker that is alone removes the element it has copied.
CopyInv == Alone => \A w \in Workers : pc[w] = "pop" => items # <<>> /\ task[w] = Head(items)

Calling == {"user", "fields", "sendCheck", "wsSend"}

\* Once the constructor is done the number of workers stays.
LEMMA StartedStays == ASSUME IInv, [Next]_vars, mainPc # "construct" PROVE started' = started
<1>1. CASE Construct  BY <1>1 DEF Construct, StartWorker, BindCallbacks
<1>2. CASE Hub
  BY <1>2 DEF Hub, Connection, Message, Disconnection, WebsocketDisconnected, DisconnectionReturns
<1>3. ASSUME NEW w \in Workers, Serve(w) \/ UseFields(w) \/ SendLock(w) \/ HandlerEnds(w)
      PROVE  started' = started
  BY <1>3, WorkerLocal DEF WorkerStep, hubVars
<1>. QED  BY <1>1, <1>2, <1>3 DEF Next, Stopped, vars

\* While threads are being started, nothing is queued and nobody has a task.
LEMMA ConstructIsQuiet == ASSUME IInv, [Next]_vars, mainPc = "construct"
                          PROVE  UNCHANGED <<items, pc, task>> /\ items = <<>>
                                 /\ \A w \in Workers : pc[w] = "wait"
<1> USE DEF IInv, StartInv
<1>1. CASE Construct  BY <1>1 DEF Construct, StartWorker, BindCallbacks, ConstructorRest
<1>2. CASE Hub
  BY <1>2 DEF Hub, Connection, Message, Disconnection, WebsocketDisconnected, DisconnectionReturns
<1>3. ASSUME NEW w \in Workers, Serve(w) \/ UseFields(w) \/ SendLock(w) \/ HandlerEnds(w)
      PROVE  FALSE
  BY <1>3, WorkerLocal DEF WorkerStep
<1>. QED  BY <1>1, <1>2, <1>3 DEF Next, Stopped, vars

\* There is one worker when there is one.
LEMMA OneWorker == ASSUME IInv, Alone, NEW v \in started, NEW w \in started PROVE v = w
  BY FS_Singleton DEF IInv, StartInv, Alone

\* The hub's callbacks append a task, if anything.
LEMMA HubAppends == ASSUME IInv, Hub
                    PROVE /\ UNCHANGED <<pc, task>>
                          /\ items' = items \/ \E t \in Tasks : items' = Append(items, t)
<1>1. CASE \E s \in Sockets : Connection(s) \/ Message(s)
  <2>1. PICK s \in Sockets : Connection(s) \/ Message(s)  BY <1>1
  <2>2. dataSet'[s] \in Datas  BY <2>1, FindFacts DEF Connection, Message
  <2>3. Task(dataSet'[s], "connection") \in Tasks /\ Task(dataSet'[s], "message") \in Tasks
    BY <2>2 DEF Task, Tasks
  <2>. QED  BY <2>1, <2>3 DEF Connection, Message
<1>2. CASE DisconnectionReturns
  <2>1. Task(closing.data, "disconnection") \in Tasks
    BY <1>2 DEF IInv, TypeOK, DisconnectionReturns, Task, Tasks
  <2>. QED  BY <1>2, <2>1 DEF DisconnectionReturns
<1>3. CASE WebsocketDisconnected \/ \E s \in Sockets : Disconnection(s)
  BY <1>3 DEF WebsocketDisconnected, Disconnection
<1>. QED  BY <1>1, <1>2, <1>3 DEF Hub

\* The copy of front() is still the first element when pop() removes it.
LEMMA NextCopyInv == IInv /\ CopyInv /\ [Next]_vars => CopyInv'
<1> SUFFICES ASSUME IInv, CopyInv, [Next]_vars, Alone', NEW v \in Workers, pc'[v] = "pop"
             PROVE items' # <<>> /\ task'[v] = Head(items')
  BY DEF CopyInv
<1>1. mainPc # "construct" /\ Alone
  BY ConstructIsQuiet, StartedStays DEF Alone
<1>2. items \in Seq(Tasks)  BY DEF IInv, TypeOK
<1>3. CASE Construct  BY <1>1, <1>3 DEF Construct, StartWorker, BindCallbacks
<1>4. CASE Hub
  <2>1. items # <<>> /\ task[v] = Head(items) /\ task'[v] = task[v]
    BY <1>1, <1>4, HubAppends DEF CopyInv
  <2>2. \A t \in Tasks : Append(items, t) # <<>> /\ Head(Append(items, t)) = Head(items)
    BY <1>2, <2>1
  <2>. QED  BY <1>4, <2>1, <2>2, HubAppends
<1>5. ASSUME NEW w \in Workers, Serve(w) \/ UseFields(w) \/ SendLock(w) \/ HandlerEnds(w)
      PROVE  items' # <<>> /\ task'[v] = Head(items')
  <2>1. w \in started /\ UNCHANGED started /\ \A u \in Workers \ {w} : pc'[u] = pc[u]
    BY <1>5, WorkerLocal DEF WorkerStep, hubVars
  <2>2. v = w
    <3>1. v # w => v \in started  BY <2>1 DEF IInv, StartInv
    <3>. QED  BY <1>1, <2>1, <3>1, OneWorker
  <2>3. CopyFront(w)
    BY <1>5, <2>2 DEF IInv, TypeOK, Serve, WaitForData, RemoveFront, UseFields, SendLock, LockData,
       SendCheck, SendOnSocket, UnlockData, HandlerEnds, HandlerReturns, HandlerThrows, Goto
  <2>. QED  BY <2>2, <2>3 DEF CopyFront, Goto, IInv, TypeOK
<1>6. CASE UNCHANGED vars  BY <1>1, <1>6 DEF vars, CopyInv
<1>. QED  BY <1>3, <1>4, <1>5, <1>6 DEF Next, Stopped

\* A worker that is alone does what a worker of the task queue does.
LEMMA AloneRefines == ASSUME IInv, CopyInv, Alone, Alone', NEW w \in Workers, WorkerStep(w)
                      PROVE  [TQ!Next]_(TQ!queueVars)
<1> USE DEF IInv
<1>1. items \in Seq(Tasks) /\ pc \in [Workers -> Calling \cup {"wait", "front", "pop", "crash"}]
      /\ task \in [Workers -> Tasks \cup {NoTask}]
      /\ \A v \in Workers : pc[v] \in Calling => task[v] \in Tasks
  BY DEF TypeOK, Calling
<1>2. NoTask \notin Tasks  BY DEF NoTask, Tasks
<1>3. CASE RemoveFront(w)
  <2>1. items # <<>> /\ task[w] = Head(items) /\ pc[w] = "pop"  BY <1>3 DEF CopyInv, RemoveFront
  <2>2. pc' = [pc EXCEPT ![w] = "user"] /\ items' = Tail(items) /\ UNCHANGED task
    BY <1>3, <2>1 DEF RemoveFront, Goto
  <2>3. Held[w] = NoTask  BY <2>1 DEF Held
  <2>4. Held' = [Held EXCEPT ![w] = Head(items)]  BY <1>1, <2>1, <2>2 DEF Held
  <2>5. TQ!Take(w)  BY <2>1, <2>2, <2>3, <2>4 DEF TQ!Take
  <2>. QED  BY <2>5 DEF TQ!Next
<1>4. CASE HandlerReturns(w)
  <2>1. pc[w] = "user" /\ UNCHANGED items  BY <1>4 DEF HandlerReturns
  <2>2. pc' = [pc EXCEPT ![w] = "wait"] /\ task' = [task EXCEPT ![w] = NoTask]
    BY <1>4 DEF HandlerReturns, Goto
  <2>3. Held[w] # NoTask  BY <1>1, <1>2, <2>1 DEF Held, Calling
  <2>4. Held' = [Held EXCEPT ![w] = NoTask]  BY <1>1, <2>1, <2>2 DEF Held
  <2>5. TQ!Finish(w)  BY <2>1, <2>3, <2>4 DEF TQ!Finish
  <2>. QED  BY <2>5 DEF TQ!Next
<1>7. CASE HandlerThrows(w)
  <2>1. pc[w] = "user" /\ UNCHANGED items  BY <1>7 DEF HandlerThrows
  <2>2. pc' = [pc EXCEPT ![w] = "crash"] /\ task' = [task EXCEPT ![w] = NoTask]
    BY <1>7 DEF HandlerThrows, Goto
  <2>3. Held[w] # NoTask  BY <1>1, <1>2, <2>1 DEF Held, Calling
  <2>4. Held' = [Held EXCEPT ![w] = NoTask]  BY <1>1, <2>1, <2>2 DEF Held
  <2>5. TQ!Finish(w)  BY <2>1, <2>3, <2>4 DEF TQ!Finish
  <2>. QED  BY <2>5 DEF TQ!Next
<1>5. CASE WaitForData(w) \/ CopyFront(w)
  <2>1. UNCHANGED items  BY <1>5 DEF WaitForData, CopyFront
  <2>2. \A v \in Workers : pc'[v] \in Calling <=> pc[v] \in Calling
    BY <1>1, <1>5 DEF WaitForData, CopyFront, Goto, Calling
  <2>3. \A v \in Workers : pc[v] \in Calling => task'[v] = task[v]
    BY <1>1, <1>5 DEF WaitForData, CopyFront, Goto, Calling
  <2>4. UNCHANGED Held  BY <2>2, <2>3 DEF Held, Calling
  <2>. QED  BY <2>1, <2>4 DEF TQ!queueVars
<1>6. CASE \/ UseFields(w) \/ SendLock(w) \/ SendCheck(w) \/ SendOnSocket(w) \/ UnlockData(w)
  <2>1. UNCHANGED <<items, task>>
    BY <1>6 DEF UseFields, SendLock, LockData, SendCheck, SendOnSocket, UnlockData
  <2>2. \A v \in Workers : pc'[v] \in Calling <=> pc[v] \in Calling
    BY <1>1, <1>6 DEF UseFields, SendLock, LockData, SendCheck, SendOnSocket, UnlockData, Goto, Calling
  <2>3. UNCHANGED Held  BY <2>1, <2>2 DEF Held, Calling
  <2>. QED  BY <2>1, <2>3 DEF TQ!queueVars
<1>. QED  BY <1>3, <1>4, <1>5, <1>6, <1>7 DEF WorkerStep, Serve, HandlerEnds

\* Every step of the dispatcher is a step of the task queue, or none.
LEMMA StepRefines == IInv /\ CopyInv /\ [Next]_vars => [TQ!Next]_(TQ!queueVars)
<1> SUFFICES ASSUME IInv, CopyInv, [Next]_vars PROVE [TQ!Next]_(TQ!queueVars)
  OBVIOUS
<1>1. CASE mainPc = "construct"
  BY <1>1, ConstructIsQuiet DEF TQ!queueVars, Held
<1>2. CASE mainPc # "construct" /\ ~Alone
  <2>1. ~Alone'  BY <1>2, StartedStays DEF Alone
  <2>. QED  BY <1>2, <2>1 DEF TQ!queueVars, Held
<1>3. CASE mainPc # "construct" /\ Alone
  <2>1. Alone'  BY <1>3, StartedStays DEF Alone
  <2>2. CASE Construct  BY <1>3, <2>2 DEF Construct, StartWorker, BindCallbacks
  <2>3. CASE Hub
    <3>1. UNCHANGED Held  BY <1>3, <2>1, <2>3, HubAppends DEF Held
    <3>2. CASE items' = items  BY <1>3, <2>1, <3>1, <3>2 DEF TQ!queueVars
    <3>3. ASSUME NEW t \in Tasks, items' = Append(items, t) PROVE TQ!Next
      <4>1. TQ!Enqueue(t)  BY <1>3, <2>1, <3>1, <3>3 DEF TQ!Enqueue
      <4>. QED  BY <4>1 DEF TQ!Next
    <3>. QED  BY <2>3, <3>2, <3>3, HubAppends
  <2>4. ASSUME NEW w \in Workers, Serve(w) \/ UseFields(w) \/ SendLock(w) \/ HandlerEnds(w)
        PROVE  [TQ!Next]_(TQ!queueVars)
    BY <1>3, <2>1, <2>4, AloneRefines DEF WorkerStep
  <2>5. CASE UNCHANGED vars  BY <1>3, <2>1, <2>5 DEF vars, TQ!queueVars, Held
  <2>. QED  BY <2>2, <2>3, <2>4, <2>5 DEF Next, Stopped
<1>. QED  BY <1>1, <1>2, <1>3

\* The queue of a dispatcher with one worker implements the abstract queue.
THEOREM OneWorkerImplementsTaskQueue == Spec => ImplementsTaskQueue
<1>1. Init => CopyInv  BY DEF Init, CopyInv
<1>2. Init => TQ!Init  BY DEF Init, TQ!Init, Held
<1>. QED
  BY <1>1, <1>2, NextCopyInv, StepRefines, Invariance, PTL DEF Spec, ImplementsTaskQueue, TQ!Spec

-----------------------------------------------------------------------------
(* The mutexes of the Data *)

\* Who holds the mMutex of a Data is in the locked part of a handler of that
\* Data, where nothing is waited for.  So a hub that waits in
\* websocket_disconnected() waits for a worker that can go on.
HolderGoesOn == \A d \in Datas : mMutex[d] # Free =>
    pc[mMutex[d]] \in {"fields", "sendCheck", "wsSend"} /\ task[mMutex[d]].data = d

\* Every step of the dispatcher keeps it.
LEMMA NextHolder == IInv /\ HolderGoesOn /\ [Next]_vars => HolderGoesOn'
<1> SUFFICES ASSUME IInv, HolderGoesOn, [Next]_vars PROVE HolderGoesOn'
  OBVIOUS
<1>1. CASE UNCHANGED <<mMutex, pc, task>>  BY <1>1 DEF HolderGoesOn
<1>2. CASE Construct  BY <1>1, <1>2 DEF Construct, StartWorker, BindCallbacks, ConstructorRest
<1>3. CASE Hub
  BY <1>1, <1>3 DEF Hub, Connection, Message, Disconnection, WebsocketDisconnected, DisconnectionReturns
<1>4. ASSUME NEW w \in Workers, Serve(w) \/ UseFields(w) \/ SendLock(w) \/ HandlerEnds(w)
      PROVE  HolderGoesOn'
  <2> USE DispatcherAssumption DEF IInv, TypeOK, HolderGoesOn, Goto
  <2>1. CASE WaitForData(w) \/ CopyFront(w) \/ RemoveFront(w) \/ HandlerEnds(w)
    <3>1. UNCHANGED mMutex /\ pc[w] \in {"wait", "front", "pop", "user"}
          /\ \A v \in Workers \ {w} : pc'[v] = pc[v] /\ task'[v] = task[v]
      BY <2>1 DEF WaitForData, CopyFront, RemoveFront, HandlerEnds, HandlerReturns, HandlerThrows
    <3>. QED  BY <3>1
  <2>2. CASE UseFields(w) \/ SendLock(w)
    BY <2>2 DEF UseFields, SendLock, LockData
  <2>3. CASE SendCheck(w) \/ SendOnSocket(w)
    BY <2>3 DEF SendCheck, SendOnSocket
  <2>4. CASE UnlockData(w)
    <3>1. \A d \in Datas : mMutex'[d] # Free => mMutex'[d] = mMutex[d] /\ d # task[w].data
      BY <2>4 DEF UnlockData
    <3>2. \A v \in Workers \ {w} : pc'[v] = pc[v] /\ task'[v] = task[v]
      BY <2>4 DEF UnlockData
    <3>. QED  BY <3>1, <3>2
  <2>. QED  BY <1>4, <2>1, <2>2, <2>3, <2>4 DEF Serve
<1>. QED  BY <1>1, <1>2, <1>3, <1>4 DEF Next, Stopped, vars

\* Neither the hub nor a worker waits for good for a mutex.
THEOREM MutexHolderGoesOn == Spec => []HolderGoesOn
<1>1. Init => HolderGoesOn  BY DEF Init, HolderGoesOn
<1>. QED  BY <1>1, NextHolder, Invariance, PTL DEF Spec

-----------------------------------------------------------------------------
(* The order of the tasks of a Data *)

\* A task that the hub pushes is not of a Data that is past, and a connection
\* is of a Data without tasks.
LEMMA PushKeepsOrder ==
    ASSUME IInv, TasksInOrder, NEW t \in Tasks, items' = Append(items, t), UNCHANGED task,
           \A d \in Datas : Past(d) => d # t.data /\ Past(d)',
           created' \in Nat /\ created' >= created /\ t.data <= created',
           t.call = "connection" => t.data > created,
           t.call = "disconnection" => Past(t.data)'
    PROVE  TasksInOrder'
<1> USE DispatcherAssumption DEF IInv, TypeOK
<1>1. \A i \in DOMAIN items' : \/ i \in DOMAIN items /\ items'[i] = items[i]
                               \/ i = Len(items) + 1 /\ items'[i] = t
  BY Appended
<1>2. Len(items) \in Nat /\ DOMAIN items = 1 .. Len(items)
  OBVIOUS
<1>3. \A i \in DOMAIN items : items[i].data \in Datas
  <2>1. \A i \in DOMAIN items : items[i] \in Tasks  OBVIOUS
  <2>. QED  BY <2>1 DEF Tasks
<1>4. created \in Nat /\ created' \in Nat /\ t.data \in Datas /\ Datas \subseteq Nat
  BY DEF Tasks, Datas
<1>5. QueueInOrder'
  <2> HIDE DEF IInv, TypeOK
  <2>1. ASSUME NEW i \in DOMAIN items', NEW j \in DOMAIN items', i < j,
               items'[i].data = items'[j].data
        PROVE  items'[i].call # "disconnection" /\ items'[j].call # "connection"
    <3>1. i \in DOMAIN items /\ items'[i] = items[i]  BY <1>1, <1>2, <2>1
    <3>2. CASE j \in DOMAIN items /\ items'[j] = items[j]
      BY <2>1, <3>1, <3>2 DEF TasksInOrder, QueueInOrder
    <3>3. CASE items'[j] = t
      <4>1. items[i].data \in Datas /\ items[i].data = t.data /\ items[i].data <= created
        BY <1>3, <2>1, <3>1, <3>3 DEF TasksInOrder, QueueInOrder
      <4>2. items[i].call # "disconnection"
        BY <3>1, <4>1 DEF TasksInOrder, QueueInOrder
      <4>3. t.call # "connection"
        <5>1. t.data \in Nat /\ t.data <= created  BY <1>4, <4>1
        <5>2. ~(t.data > created)  BY <1>4, <5>1
        <5>. QED  BY <5>2
      <4>. QED  BY <3>1, <3>3, <4>2, <4>3
    <3>. QED  BY <1>1, <3>2, <3>3
  <2>2. ASSUME NEW i \in DOMAIN items' PROVE items'[i].data <= created'
    <3>1. CASE i \in DOMAIN items /\ items'[i] = items[i]
      <4>1. items[i].data \in Nat /\ items[i].data <= created
        BY <1>3, <1>4, <3>1 DEF TasksInOrder, QueueInOrder
      <4>. QED  BY <1>4, <3>1, <4>1
    <3>. QED  BY <1>1, <3>1
  <2>3. ASSUME NEW i \in DOMAIN items', items'[i].call = "disconnection", NEW d \in Datas, d = items'[i].data
        PROVE  Past(d)'
    BY <1>1, <1>3, <2>3 DEF TasksInOrder, QueueInOrder
  <2>4. \A i \in DOMAIN items' : items'[i].data \in Datas  BY <1>1, <1>3, <1>4
  <2>5. \A i \in DOMAIN items' : items'[i].call = "disconnection" =>
            /\ items'[i].data <= created' /\ closing'.data # items'[i].data
            /\ \A s \in Sockets : dataSet'[s] # items'[i].data
    BY <2>3, <2>4 DEF Past
  <2>. QED  BY <2>1, <2>2, <2>5 DEF QueueInOrder, Past
<1>6. TakenInOrder'
  <2> SUFFICES ASSUME NEW w \in Workers
               PROVE  /\ task[w].data <= created'
                      /\ task[w].call = "disconnection" =>
                            /\ task[w].data \in Datas
                            /\ \A d \in Datas : d = task[w].data => Past(d)'
                            /\ \A i \in DOMAIN items' : items'[i].data = task[w].data =>
                                  items'[i].call = "disconnection"
                      /\ task[w].call = "message" =>
                            \A i \in DOMAIN items' : items'[i].data = task[w].data =>
                               items'[i].call # "connection"
    BY DEF TakenInOrder, Past
  <2>1. task[w].data \in Nat /\ task[w].data <= created
        /\ (task[w].call # "none" => task[w].data \in Datas)
    <3>1. task[w] \in Tasks \/ task[w] = NoTask  OBVIOUS
    <3>2. task[w].data <= created  BY DEF TasksInOrder, TakenInOrder
    <3>3. CASE task[w] \in Tasks  BY <1>4, <3>2, <3>3 DEF Tasks
    <3>4. CASE task[w] = NoTask  BY <3>2, <3>4 DEF NoTask, NoData
    <3>. QED  BY <3>1, <3>3, <3>4
  <2>2. task[w].call = "disconnection" =>
            /\ task[w].data # t.data
            /\ \A d \in Datas : d = task[w].data => Past(d)'
            /\ \A i \in DOMAIN items : items[i].data = task[w].data => items[i].call = "disconnection"
    BY <2>1 DEF TasksInOrder, TakenInOrder
  <2>3. t.call = "connection" => task[w].data # t.data
    BY <1>4, <2>1
  <2>. QED  BY <1>1, <1>4, <2>1, <2>2, <2>3 DEF TasksInOrder, TakenInOrder
<1>. QED  BY <1>5, <1>6 DEF TasksInOrder

\* The callbacks of the hub.
LEMMA HubKeepsOrder == ASSUME IInv, TasksInOrder, Hub PROVE TasksInOrder'
<1> USE DispatcherAssumption DEF IInv
<1>1. ASSUME NEW s \in Sockets, Connection(s) \/ Message(s) PROVE TasksInOrder'
  <2>1. /\ Find(s) /\ mainPc = "loop" /\ closing = NotClosing
        /\ UNCHANGED <<closing, task>> /\ closing.data = NoData
    BY <1>1 DEF Connection, Message, ClosingInv, Disconnecting, NotClosing
  <2>2. CASE Message(s)
    <3>1. dataSet[s] # NoData
      BY <2>1, <2>2 DEF Message, DataIsOfItsSocket, NotClosing
    <3>2. UNCHANGED <<dataSet, created>> /\ dataSet[s] \in Datas /\ dataSet[s] <= created
      BY <2>1, <3>1 DEF Find, TypeOK, FreshInv
    <3>3. PICK t \in Tasks : t = Task(dataSet[s], "message")
      BY <3>2 DEF Task, Tasks
    <3>4. \A d \in Datas : Past(d) => d # dataSet[s] /\ Past(d)'
      BY <2>1, <3>2 DEF Past
    <3>5. items' = Append(items, t) /\ t.data = dataSet[s] /\ t.call = "message"
      BY <2>2, <3>2, <3>3 DEF Message, Task
    <3>. QED  BY <2>1, <3>2, <3>4, <3>5, PushKeepsOrder DEF TypeOK
  <2>3. CASE Connection(s)
    <3>1. dataSet[s] = NoData
      BY <2>3 DEF Connection, DataIsOfItsSocket
    <3>2. /\ created' = created + 1 /\ created + 1 \in Datas /\ created \in Nat
          /\ dataSet' = [dataSet EXCEPT ![s] = created + 1] /\ dataSet'[s] = created + 1
      BY <2>1, <3>1, FindFacts DEF Find, TypeOK
    <3>3. PICK t \in Tasks : t = Task(created + 1, "connection")
      BY <3>2 DEF Task, Tasks
    <3>4. \A d \in Datas : Past(d) => d # created + 1 /\ Past(d)'
      BY <2>1, <3>2 DEF Past, Datas, TypeOK
    <3>5. items' = Append(items, t) /\ t.data = created + 1 /\ t.call = "connection"
      BY <2>3, <3>2, <3>3 DEF Connection, Task
    <3>. QED  BY <2>1, <3>2, <3>4, <3>5, PushKeepsOrder
  <2>. QED  BY <1>1, <2>2, <2>3
<1>2. ASSUME UNCHANGED <<items, task, created>>, \A d \in Datas : Past(d) => Past(d)'
      PROVE  TasksInOrder'
  <2>1. \A i \in DOMAIN items : items[i].data \in Datas
    <3>1. \A i \in DOMAIN items : items[i] \in Tasks  BY DEF TypeOK
    <3>. QED  BY <3>1 DEF Tasks
  <2>2. \A w \in Workers : task[w].call = "disconnection" => task[w].data \in Datas
    BY DEF TypeOK, Tasks, NoTask
  <2>. QED  BY <1>2, <2>1, <2>2 DEF TasksInOrder, QueueInOrder, TakenInOrder
<1>3. ASSUME NEW s \in Sockets, Disconnection(s) PROVE TasksInOrder'
  <2>1. UNCHANGED <<items, task, created>>  BY <1>3 DEF Disconnection
  <2>2. \A d \in Datas : Past(d) => Past(d)'
    BY <1>3 DEF Disconnection, Remove, Past, TypeOK, Datas, NoData
  <2>. QED  BY <1>2, <2>1, <2>2
<1>4. CASE WebsocketDisconnected
  BY <1>2, <1>4 DEF WebsocketDisconnected, Past
<1>5. CASE DisconnectionReturns
  <2>1. /\ closing.data \in Datas /\ mWs[closing.data] = Null /\ closing.data <= created
        /\ UNCHANGED <<dataSet, created, task>> /\ closing' = NotClosing
    BY <1>5 DEF DisconnectionReturns, TypeOK, ClosingInv, FreshInv
  <2>2. \A s \in Sockets : dataSet[s] # closing.data
    BY <2>1 DEF DataIsOfItsSocket, Datas, NoData
  <2>3. \A d \in Datas : Past(d) => d # closing.data /\ Past(d)'
    BY <2>1 DEF Past, NotClosing, Datas, NoData
  <2>4. PICK t \in Tasks : t = Task(closing.data, "disconnection")
    BY <2>1 DEF Task, Tasks
  <2>5. items' = Append(items, t) /\ t.data = closing.data /\ t.call = "disconnection"
    BY <1>5, <2>4 DEF DisconnectionReturns, Task
  <2>6. Past(t.data)'
    BY <2>1, <2>2, <2>5 DEF Past, NotClosing, Datas, NoData
  <2>. QED  BY <2>1, <2>3, <2>5, <2>6, PushKeepsOrder DEF TypeOK
<1>. QED  BY <1>1, <1>3, <1>4, <1>5 DEF Hub

\* The workers: a copy of the first element, or its removal.
LEMMA WorkerKeepsOrder == ASSUME IInv, TasksInOrder, NEW w \in Workers, WorkerStep(w)
                          PROVE  TasksInOrder'
<1> USE DEF IInv
<1>1. UNCHANGED <<dataSet, created, closing>> /\ \A v \in Workers \ {w} : task'[v] = task[v]
  BY WorkerLocal DEF hubVars
<1>2. \A d : Past(d)' = Past(d)  BY <1>1 DEF Past
<1>3. items \in Seq(Tasks) /\ task' \in [Workers -> Tasks \cup {NoTask}] /\ created \in Nat
  BY WorkerTypeOK DEF TypeOK
<1>4. items' = items \/ (items # <<>> /\ items' = Tail(items) /\ task' = task)
  BY WorkerTakes
<1>5. CASE items' = items
  <2>1. QueueInOrder'  BY <1>1, <1>2, <1>5 DEF TasksInOrder, QueueInOrder
  <2>2. ASSUME NEW v \in Workers, task'[v] = task[v]
        PROVE  /\ task'[v].data <= created
               /\ task'[v].call = "disconnection" =>
                     /\ Past(task'[v].data)
                     /\ \A i \in DOMAIN items : items[i].data = task'[v].data => items[i].call = "disconnection"
               /\ task'[v].call = "message" =>
                     \A i \in DOMAIN items : items[i].data = task'[v].data => items[i].call # "connection"
    BY <2>2 DEF TasksInOrder, TakenInOrder
  <2>3. CASE items # <<>> /\ task'[w] = Head(items)
    <3>1. 1 \in DOMAIN items /\ task'[w] = items[1] /\ \A i \in DOMAIN items : i \in Nat /\ i >= 1
      BY <1>3, <2>3
    <3>2. \A i \in DOMAIN items : i > 1 /\ items[i].data = items[1].data =>
             items[1].call # "disconnection" /\ items[i].call # "connection"
      BY <3>1 DEF TasksInOrder, QueueInOrder
    <3>3. items[1].data <= created /\ (items[1].call = "disconnection" => Past(items[1].data))
      BY <3>1 DEF TasksInOrder, QueueInOrder
    <3>4. \A i \in DOMAIN items : i = 1 \/ i > 1  BY <3>1
    <3>. QED  BY <1>1, <1>2, <1>5, <2>1, <2>2, <3>1, <3>2, <3>3, <3>4 DEF TasksInOrder, TakenInOrder
  <2>4. CASE task'[w] = NoTask
    BY <1>1, <1>2, <1>3, <1>5, <2>1, <2>2, <2>4 DEF TasksInOrder, TakenInOrder, NoTask, NoData
  <2>5. CASE task'[w] = task[w]
    BY <1>1, <1>2, <1>5, <2>1, <2>2, <2>5 DEF TasksInOrder, TakenInOrder
  <2>. QED  BY <2>3, <2>4, <2>5, WorkerTakes
<1>6. CASE items # <<>> /\ items' = Tail(items) /\ task' = task
  <2>1. \A i \in DOMAIN items' : i \in Nat /\ i + 1 \in DOMAIN items /\ items'[i] = items[i + 1]
    BY <1>3, <1>6
  <2>2. QueueInOrder'
    <3>1. \A i, j \in DOMAIN items' : i < j /\ items'[i].data = items'[j].data =>
             items'[i].call # "disconnection" /\ items'[j].call # "connection"
      <4>1. \A i, j \in DOMAIN items' : i < j => i + 1 < j + 1  BY <2>1
      <4>. QED  BY <2>1, <4>1 DEF TasksInOrder, QueueInOrder
    <3>. QED  BY <1>1, <1>2, <2>1, <3>1 DEF TasksInOrder, QueueInOrder
  <2>3. TakenInOrder'  BY <1>1, <1>2, <1>6, <2>1 DEF TasksInOrder, TakenInOrder
  <2>. QED  BY <2>2, <2>3 DEF TasksInOrder
<1>. QED  BY <1>4, <1>5, <1>6

\* The Data's connection, its messages and its disconnection reach the
\* workers in that order, for any number of workers: no task is queued behind
\* the disconnection, or before the connection.
THEOREM TasksComeInOrder == Spec => []TasksInOrder
<1>1. Init => TasksInOrder
  BY DEF Init, TasksInOrder, QueueInOrder, TakenInOrder, NoTask, NoData
<1>2. IInv /\ TasksInOrder /\ [Next]_vars => TasksInOrder'
  <2> SUFFICES ASSUME IInv, TasksInOrder, [Next]_vars PROVE TasksInOrder'
    OBVIOUS
  <2>1. CASE UNCHANGED <<items, task, created, closing, dataSet>>
    BY <2>1 DEF TasksInOrder, QueueInOrder, TakenInOrder, Past
  <2>2. CASE Construct
    BY <2>1, <2>2 DEF Construct, StartWorker, BindCallbacks, ConstructorRest
  <2>3. ASSUME NEW w \in Workers, Serve(w) \/ UseFields(w) \/ SendLock(w) \/ HandlerEnds(w)
        PROVE  TasksInOrder'
    BY <2>3, WorkerKeepsOrder DEF WorkerStep
  <2>. QED  BY <2>1, <2>2, <2>3, HubKeepsOrder DEF Next, Stopped, vars
<1>. QED  BY <1>1, <1>2, Invariance, PTL DEF Spec
=============================================================================
