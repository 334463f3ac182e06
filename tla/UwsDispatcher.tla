--------------------------- MODULE UwsDispatcher ---------------------------
(***************************************************************************)
(* WebSocketDispatcher<Data>, the server's older front end on uWebSockets. *)
(* The hub's thread (Main) calls connection, message and disconnection;    *)
(* each finds the Data of the socket in the DataSet and pushes a task; the *)
(* workers pop the tasks and call the Data.  Data::send uses the socket    *)
(* from a worker, so the hub marks a Data disconnected (mWs null, under    *)
(* its mMutex) before uWS destroys the socket.                             *)
(*                                                                         *)
(* The workers are started by the dispatcher's constructor, which binds    *)
(* the callbacks afterwards.                                               *)
(*                                                                         *)
(* Unlike the queue of WsppQueue, this one has no mutex for pop().  The    *)
(* waiting on the condition variable is the same, and shows here only as   *)
(* a worker blocked while it sees the queue empty.                         *)
(***************************************************************************)
EXTENDS Naturals, Sequences, FiniteSets

CONSTANTS
    Workers,        \* the WebSocketWorker threads there may be
    Main,           \* the thread running hub.run()
    Free,           \* holder of a mutex nobody holds
    Sockets,        \* uWS::WebSocket addresses; uWS may reuse them
    Null,           \* nullptr
    MaxData,        \* bound on the connections made, one Data each
    MaxMessages     \* bound on the messages that arrive

ASSUME DispatcherAssumption ==
    /\ Main \notin Workers
    /\ Free \notin Workers \cup {Main}
    /\ Null \notin Sockets
    /\ MaxData \in Nat
    /\ MaxMessages \in Nat

Datas == 1 .. MaxData           \* by mId: the n-th Data made is n
NoData == 0
Tasks == [data : Datas, call : {"connection", "message", "disconnection"}]
Task(d, call) == [data |-> d, call |-> call]
NoTask == [data |-> NoData, call |-> "none"]

VARIABLES
    alive,      \* the sockets uWS has open
    dataSet,    \* dataSet[s]: the Data of socket s in mDataSet, or NoData
    created,    \* number of Data made
    mWs,        \* mWs[d]: the socket of Data d, or Null
    mMutex,     \* mMutex[d]: holder of its mMutex
    items,      \* the std::queue
    started,    \* the workers whose thread has been started
    mainPc,     \* where Main is, in the constructor or in disconnection
    closing,    \* the socket and Data that Main is disconnecting
    pc,         \* pc[w]: where worker w is
    task,       \* task[w]: the task w has copied from front()
    arrivals    \* messages arrived

vars == <<alive, dataSet, created, mWs, mMutex, items, started, mainPc, closing, pc, task, arrivals>>
hubVars == <<alive, dataSet, created, started, mainPc, closing, arrivals>>

NotClosing == [socket |-> Null, data |-> NoData]

Init == /\ alive = {}
        /\ dataSet = [s \in Sockets |-> NoData]
        /\ created = 0
        /\ mWs = [d \in Datas |-> Null]
        /\ mMutex = [d \in Datas |-> Free]
        /\ items = <<>>
        /\ started = {}
        /\ mainPc = "construct"
        /\ closing = NotClosing
        /\ pc = [w \in Workers |-> "wait"]
        /\ task = [w \in Workers |-> NoTask]
        /\ arrivals = 0

-----------------------------------------------------------------------------
(* The constructor, in Main *)

ConstructorRest == UNCHANGED <<alive, dataSet, created, mWs, mMutex, items, closing, pc, task, arrivals>>

\* WebSocketWorkers: std::thread starts, or throws out of the constructor
StartWorker(w) == /\ mainPc = "construct"
                  /\ w \notin started
                  /\ \/ started' = started \cup {w} /\ UNCHANGED mainPc
                     \/ mainPc' = "failed" /\ UNCHANGED started
                  /\ ConstructorRest

\* The number of threads asked for is there; 0 stands for 4.
BindCallbacks == /\ mainPc = "construct"
                 /\ started # {}
                 /\ mainPc' = "loop"
                 /\ UNCHANGED started
                 /\ ConstructorRest

-----------------------------------------------------------------------------
(* The callbacks of the hub, in Main *)

\* DataSet::find makes the Data of a socket it does not know.
Find(s) == IF dataSet[s] # NoData
           THEN UNCHANGED <<dataSet, created, mWs>>
           ELSE /\ created < MaxData
                /\ created' = created + 1
                /\ dataSet' = [dataSet EXCEPT ![s] = created + 1]
                /\ mWs' = [mWs EXCEPT ![created + 1] = s]

Connection(s) ==
    /\ mainPc = "loop"
    /\ s \notin alive
    /\ alive' = alive \cup {s}
    /\ Find(s)
    /\ items' = Append(items, Task(dataSet'[s], "connection"))
    /\ UNCHANGED <<started, mMutex, mainPc, closing, pc, task, arrivals>>

Message(s) ==
    /\ mainPc = "loop"
    /\ s \in alive
    /\ arrivals < MaxMessages
    /\ arrivals' = arrivals + 1
    /\ Find(s)
    /\ items' = Append(items, Task(dataSet'[s], "message"))
    /\ UNCHANGED <<started, alive, mMutex, mainPc, closing, pc, task>>

\* DataSet::remove of the Data found for s
Remove(s) == dataSet' = [dataSet EXCEPT ![s] = NoData]

\* variant: the Data stays in the set
KeepInSet(s) ==
    /\ mainPc = "loop"
    /\ s \in alive
    /\ Find(s)
    /\ closing' = [socket |-> s, data |-> dataSet'[s]]
    /\ mainPc' = "disconnected"
    /\ UNCHANGED <<started, alive, mMutex, items, pc, task, arrivals>>

\* disconnection: mDataSet.find, which finds the Data of every live socket
\* (DataIsOfItsSocket), and mDataSet.remove
Disconnection(s) ==
    /\ mainPc = "loop"
    /\ s \in alive
    /\ dataSet[s] # NoData
    /\ closing' = [socket |-> s, data |-> dataSet[s]]
    /\ Remove(s)
    /\ mainPc' = "disconnected"
    /\ UNCHANGED <<started, alive, created, mWs, mMutex, items, pc, task, arrivals>>

\* variant: websocket_disconnected does not lock mMutex
DisconnectedUnlocked ==
    /\ mainPc = "disconnected"
    /\ mWs' = [mWs EXCEPT ![closing.data] = Null]
    /\ mainPc' = "push"
    /\ UNCHANGED <<started, alive, dataSet, created, closing, arrivals, mMutex, items, pc, task>>

\* variant: mWs is left as it is
DisconnectedLate ==
    /\ mainPc = "disconnected"
    /\ mainPc' = "push"
    /\ UNCHANGED <<started, alive, dataSet, created, closing, arrivals, mMutex, items, pc, task, mWs>>

\* data->websocket_disconnected()
WebsocketDisconnected ==
    /\ mainPc = "disconnected"
    /\ mMutex[closing.data] = Free
    /\ mWs' = [mWs EXCEPT ![closing.data] = Null]
    /\ mainPc' = "push"
    /\ UNCHANGED <<started, alive, dataSet, created, closing, arrivals, mMutex, items, pc, task>>

\* the push; on return uWS destroys the socket
DisconnectionReturns ==
    /\ mainPc = "push"
    /\ items' = Append(items, Task(closing.data, "disconnection"))
    /\ alive' = alive \ {closing.socket}
    /\ closing' = NotClosing
    /\ mainPc' = "loop"
    /\ UNCHANGED <<started, dataSet, created, mWs, mMutex, pc, task, arrivals>>

-----------------------------------------------------------------------------
(* The workers: pop_call, WebSocketQueue::pop, and the calls of the Data *)

Goto(w, label) == pc' = [pc EXCEPT ![w] = label]

\* variant: pop() removes the first element without having copied it
WaitSkipsFront(w) == /\ w \in started
                     /\ pc[w] = "wait"
                     /\ items # <<>>
                     /\ Goto(w, "pop")
                     /\ UNCHANGED <<hubVars, mWs, mMutex, items, task>>

\* wait_for_data() returns
WaitForData(w) == /\ w \in started
                  /\ pc[w] = "wait"
                  /\ items # <<>>
                  /\ Goto(w, "front")
                  /\ UNCHANGED <<hubVars, mWs, mMutex, items, task>>

\* variant: the newest task is copied
CopyBack(w) == /\ pc[w] = "front"
               /\ IF items = <<>> THEN Goto(w, "crash") /\ UNCHANGED task
                  ELSE Goto(w, "pop") /\ task' = [task EXCEPT ![w] = items[Len(items)]]
               /\ UNCHANGED <<hubVars, mWs, mMutex, items>>

\* Base::front(); of an empty queue it is undefined, and the process dies.
CopyFront(w) == /\ pc[w] = "front"
                /\ IF items = <<>> THEN Goto(w, "crash") /\ UNCHANGED task
                   ELSE Goto(w, "pop") /\ task' = [task EXCEPT ![w] = Head(items)]
                /\ UNCHANGED <<hubVars, mWs, mMutex, items>>

\* variant: the copied element stays in the queue
KeepFront(w) == /\ pc[w] = "pop"
                /\ Goto(w, "user")
                /\ UNCHANGED <<hubVars, mWs, mMutex, task, items>>

\* Base::pop(), likewise
RemoveFront(w) == /\ pc[w] = "pop"
                  /\ IF items = <<>> THEN Goto(w, "crash") /\ UNCHANGED items
                     ELSE Goto(w, "user") /\ items' = Tail(items)
                  /\ UNCHANGED <<hubVars, mWs, mMutex, task>>

\* The Data's handler locks mMutex, to use its fields or in send().
LockData(w, label) == /\ pc[w] = "user"
                      /\ mMutex[task[w].data] = Free
                      /\ mMutex' = [mMutex EXCEPT ![task[w].data] = w]
                      /\ Goto(w, label)
                      /\ UNCHANGED <<hubVars, mWs, items, task>>

UseFields(w) == LockData(w, "fields")
SendLock(w) == LockData(w, "sendCheck")

\* if (mWs) mWs->send(...)
SendCheck(w) == /\ pc[w] = "sendCheck"
                /\ Goto(w, IF mWs[task[w].data] # Null THEN "wsSend" ELSE "fields")
                /\ UNCHANGED <<hubVars, mWs, mMutex, items, task>>

SendOnSocket(w) == /\ pc[w] = "wsSend"
                   /\ Goto(w, "fields")
                   /\ UNCHANGED <<hubVars, mWs, mMutex, items, task>>

\* variant: the lock is not released
KeepLocked(w) == /\ pc[w] = "fields"
                 /\ Goto(w, "user")
                 /\ UNCHANGED <<hubVars, mWs, items, task, mMutex>>

UnlockData(w) == /\ pc[w] = "fields"
                 /\ mMutex' = [mMutex EXCEPT ![task[w].data] = Free]
                 /\ Goto(w, "user")
                 /\ UNCHANGED <<hubVars, mWs, items, task>>

HandlerReturns(w) == /\ pc[w] = "user"
                     /\ task' = [task EXCEPT ![w] = NoTask]
                     /\ Goto(w, "wait")
                     /\ UNCHANGED <<hubVars, mWs, mMutex, items>>

\* WebSocketWorker::run catches nothing: an exception of the handler ends
\* the process.
HandlerThrows(w) == /\ pc[w] = "user"
                    /\ task' = [task EXCEPT ![w] = NoTask]
                    /\ Goto(w, "crash")
                    /\ UNCHANGED <<hubVars, mWs, mMutex, items>>

HandlerEnds(w) == HandlerReturns(w) \/ HandlerThrows(w)

-----------------------------------------------------------------------------
Running == mainPc # "failed" /\ \A w \in Workers : pc[w] # "crash"

Construct == BindCallbacks \/ \E w \in Workers : StartWorker(w)

Hub == \/ \E s \in Sockets : Connection(s) \/ Message(s) \/ Disconnection(s)
       \/ WebsocketDisconnected \/ DisconnectionReturns

\* from the wait to the call, and the locked parts of the call
Serve(w) == \/ WaitForData(w) \/ CopyFront(w) \/ RemoveFront(w)
            \/ SendCheck(w) \/ SendOnSocket(w) \/ UnlockData(w)

\* No event to come and every worker blocked in pop(), or the process has
\* ended.
Stopped == /\ \/ ~Running
              \/ mainPc = "loop" /\ items = <<>> /\ \A w \in Workers : pc[w] = "wait"
           /\ UNCHANGED vars

Next == \/ /\ Running
           /\ \/ Construct
              \/ Hub
              \/ \E w \in Workers : Serve(w) \/ UseFields(w) \/ SendLock(w) \/ HandlerEnds(w)
        \/ Stopped

Spec == Init /\ [][Next]_vars

\* The hub's callbacks go on when mMutex is released; handlers do not lock
\* and unlock forever, and return or throw.
Fairness == /\ SF_vars(Running /\ WebsocketDisconnected)
            /\ WF_vars(Running /\ DisconnectionReturns)
            /\ \A w \in Workers : /\ WF_vars(Running /\ Serve(w))
                                  /\ SF_vars(Running /\ HandlerEnds(w))

FairSpec == Spec /\ Fairness

-----------------------------------------------------------------------------
(* Properties *)

\* Every variable keeps its type; a worker holds at most the mMutex of its
\* task's Data.
TypeOK == /\ alive \subseteq Sockets
          /\ dataSet \in [Sockets -> Datas \cup {NoData}]
          /\ created \in 0 .. MaxData
          /\ mWs \in [Datas -> Sockets \cup {Null}]
          /\ mMutex \in [Datas -> Workers \cup {Free}]
          /\ items \in Seq(Tasks)
          /\ started \subseteq Workers
          /\ mainPc \in {"construct", "failed", "loop", "disconnected", "push"}
          /\ closing \in [socket : Sockets \cup {Null}, data : Datas \cup {NoData}]
          /\ mainPc \in {"disconnected", "push"} => closing.data \in Datas
          /\ pc \in [Workers -> {"wait", "front", "pop", "user", "fields", "sendCheck", "wsSend", "crash"}]
          /\ task \in [Workers -> Tasks \cup {NoTask}]
          /\ \A w \in Workers : pc[w] \in {"pop", "user", "fields", "sendCheck", "wsSend"} =>
                task[w] \in Tasks
          /\ arrivals \in 0 .. MaxMessages

\* A worker sends only on a socket that uWS has not destroyed: not even when
\* the client goes away, or the address is used again, between the test of
\* mWs and the send.
SendsOnLiveSocket == \A w \in Workers : pc[w] = "wsSend" =>
    LET d == task[w].data
    IN  mWs[d] \in alive /\ (dataSet[mWs[d]] = d \/ closing.data = d)

\* "mWs is null when this is called": the disconnection handler of a Data
\* cannot send any more.
DisconnectionFindsNull == \A w \in Workers :
    pc[w] \in {"user", "fields", "sendCheck", "wsSend"} /\ task[w].call = "disconnection" =>
        mWs[task[w].data] = Null

\* The DataSet has exactly the connected sockets, each with a Data of its
\* own: a new connection at a reused address gets no Data of an earlier one.
DataIsOfItsSocket == \A s \in Sockets :
    /\ dataSet[s] # NoData => s \in alive /\ mWs[dataSet[s]] = s
    /\ s \in alive /\ closing.socket # s => dataSet[s] # NoData

\* No more tasks of d are made: it is disconnected, and the hub is not about
\* to push its disconnection.
Past(d) == d <= created /\ closing.data # d /\ \A s \in Sockets : dataSet[s] # d

\* The tasks of a Data are queued in their order.
QueueInOrder ==
    /\ \A i, j \in DOMAIN items : i < j /\ items[i].data = items[j].data =>
          items[i].call # "disconnection" /\ items[j].call # "connection"
    /\ \A i \in DOMAIN items : items[i].data <= created
    /\ \A i \in DOMAIN items : items[i].call = "disconnection" => Past(items[i].data)

\* What a worker has taken comes before what is left.  (With several workers
\* a task may be copied twice, and another removed uncopied, but none is copied
\* before the earlier ones of its Data have been removed.)
TakenInOrder == \A w \in Workers :
    /\ task[w].data <= created
    /\ task[w].call = "disconnection" =>
          /\ Past(task[w].data)
          /\ \A i \in DOMAIN items : items[i].data = task[w].data => items[i].call = "disconnection"
    /\ task[w].call = "message" =>
          \A i \in DOMAIN items : items[i].data = task[w].data => items[i].call # "connection"

\* The tasks of a Data reach the workers in their order: its connection is
\* copied before its messages and these before its disconnection, and nothing
\* is queued behind that, although a socket's address is used again and
\* workers race for the front of the queue.
TasksInOrder == QueueInOrder /\ TakenInOrder

\* Of a dispatcher with one worker the queue is the abstract task queue; an
\* element counts as taken when Base::pop() removes it.  With more it is not
\* (PopBlocksOnEmpty), and nothing is claimed.
Alone == Cardinality(started) = 1
Held == [w \in Workers |-> IF Alone /\ pc[w] \in {"user", "fields", "sendCheck", "wsSend"}
                           THEN task[w] ELSE NoTask]
TQ == INSTANCE TaskQueue WITH pending <- IF Alone THEN items ELSE <<>>, held <- Held
ImplementsTaskQueue == TQ!Spec

\* The hub's thread is not held up for good by a worker: a disconnection that
\* has begun returns, unless the process dies.
DisconnectionEnds == mainPc \in {"disconnected", "push"} ~> (mainPc = "loop" \/ ~Running)

-----------------------------------------------------------------------------
(* What a comment of the code says and the code does not do *)

\* pop_call: "blocks on waiting for a data in the queue".  So front() and
\* pop() meet a queue that has data.
PopBlocksOnEmpty == \A w \in Workers : pc[w] \in {"front", "pop"} => items # <<>>
=============================================================================
