-------------------------- MODULE WsppConnections --------------------------
(***************************************************************************)
(* The life of a websocket connection in the server, from on_open to the   *)
(* destruction of its handler object (WsppWebsocketLocationHandler), with  *)
(* the main (asio) thread running the callbacks of websocketpp and the     *)
(* worker threads running the jobs of the task queue.                      *)
(*                                                                         *)
(* A connection stands for its connection_hdl, for the websocketpp object  *)
(* behind it (ws, wired) and for the handler cloned for it (handler,       *)
(* mWspp, access).  A handler lives as long as a shared_ptr to it: in      *)
(* mConnected, in the queue, in a worker's `data', in a local variable of  *)
(* the main thread.  The callbacks bound into websocketpp hold a plain     *)
(* `this'.                                                                 *)
(*                                                                         *)
(* The queue is the abstract one of TaskQueue, which WsppQueue implements. *)
(***************************************************************************)
EXTENDS Naturals, Sequences

CONSTANTS
    Conns,          \* the connections clients open
    Workers,        \* the WsppThread threads
    Main,           \* the thread running mServer.run()
    Free,           \* holder of a mutex nobody holds
    NoJob,          \* a thread is handling no event or job
    MaxMessages     \* bound on the messages that clients send

Threads == Workers \cup {Main}
\* A queue element: which handler, which member function; the same record
\* names the event the main thread is dispatching.
Jobs == [conn : Conns, call : {"opening", "message", "after_close"}]

ASSUME ConnectionsAssumption ==
    /\ Main \notin Workers
    /\ Free \notin Threads
    /\ NoJob \notin Jobs
    /\ MaxMessages \in Nat

Job(c, call) == [conn |-> c, call |-> call]

VARIABLES
    ws,         \* ws[c]: the websocketpp connection; "gone": hdl expired
    wired,      \* wired[c]: the callbacks bound to the handler of c
    handler,    \* handler[c]: the handler object of c
    connected,  \* keys of mConnected
    mWspp,      \* mWspp[c]: the handler's mWspp is not null
    access,     \* access[c]: holder of the handler's mAccess
    connAccess, \* holder of mConnectedAccess
    queue,      \* mQueue
    pc,         \* pc[t]: where thread t is
    job,        \* job[t]: the job of worker t, the event of Main
    arrivals    \* messages clients have sent

vars == <<ws, wired, handler, connected, mWspp, access, connAccess, queue, pc, job, arrivals>>
netVars == <<ws, wired, arrivals>>
handlerVars == <<handler, connected, mWspp, connAccess>>

-----------------------------------------------------------------------------
Goto(t, label) == pc' = [pc EXCEPT ![t] = label]
At(t, label) == pc[t] = label
Conn(t) == job[t].conn
Busy(t, c) == job[t] # NoJob /\ job[t].conn = c

\* wspp_implementation() does not throw ConnectionClosed
ImplAvailable(c) == mWspp[c] /\ ws[c] # "gone"

InHandlerCode == {"user", "logUse", "sendLock", "sendCheck", "sendImpl"}

\* open_queue_element_handler keeps its local `connection'
Strong(c) == \E w \in Workers : /\ job[w] = Job(c, "opening")
                                /\ pc[w] \in {"setMessage", "setClose"} \cup InHandlerCode

\* shared_ptrs to the handler of c outside mConnected and the threads ts
Referenced(c, ts) == \/ \E i \in DOMAIN queue : queue[i].conn = c
                     \/ \E w \in Workers \ ts : Busy(w, c)
                     \/ Main \notin ts /\ Busy(Main, c) /\ pc[Main] \in {"pushOpen", "push"}

\* ~WsppWebsocketLocationHandler, with mAccess locked and released inside
Destructor(c) == /\ access[c] = Free
                 /\ handler' = [handler EXCEPT ![c] = "destroyed"]
                 /\ wired' = IF ImplAvailable(c) THEN [wired EXCEPT ![c] = {}] ELSE wired

Lock(t, c) == /\ access[c] = Free
              /\ access' = [access EXCEPT ![c] = t]
Unlock(c) == access' = [access EXCEPT ![c] = Free]
UnlockIfHeld(t, c) == access' = IF access[c] = t THEN [access EXCEPT ![c] = Free] ELSE access

Init == /\ ws = [c \in Conns |-> "none"]
        /\ wired = [c \in Conns |-> {}]
        /\ handler = [c \in Conns |-> "none"]
        /\ connected = {}
        /\ mWspp = [c \in Conns |-> FALSE]
        /\ access = [c \in Conns |-> Free]
        /\ connAccess = Free
        /\ queue = <<>>
        /\ pc = [t \in Threads |-> IF t = Main THEN "loop" ELSE "pop"]
        /\ job = [t \in Threads |-> NoJob]
        /\ arrivals = 0

-----------------------------------------------------------------------------
(* websocketpp, as the server uses it, and the callbacks it dispatches in  *)
(* the main thread                                                         *)

Dispatch(c, call, label) == /\ job' = [job EXCEPT ![Main] = Job(c, call)]
                            /\ Goto(Main, label)

\* create_connected registers a clone of the location's handler
CreateConnected(c) == /\ handler' = [handler EXCEPT ![c] = "alive"]
                      /\ connected' = connected \cup {c}
                      /\ mWspp' = [mWspp EXCEPT ![c] = TRUE]

\* on_open; create_connected throws when no location handler wants the
\* connection, and then it is closed.
OnOpen(c) ==
    /\ At(Main, "loop")
    /\ ws[c] = "none"
    /\ connAccess = Free
    /\ \E located \in BOOLEAN :
          IF located /\ c \notin connected
          THEN /\ ws' = [ws EXCEPT ![c] = "open"]
               /\ CreateConnected(c)
               /\ Dispatch(c, "opening", "pushOpen")
          ELSE /\ ws' = [ws EXCEPT ![c] = "closing"]
               /\ UNCHANGED <<handler, connected, mWspp, job, pc>>
    /\ UNCHANGED <<wired, access, connAccess, queue, arrivals>>

\* A message arrives; without a message handler websocketpp discards it.
MessageArrives(c) ==
    /\ At(Main, "loop")
    /\ ws[c] = "open"
    /\ arrivals < MaxMessages
    /\ arrivals' = arrivals + 1
    /\ IF "message" \in wired[c] THEN Dispatch(c, "message", "lock")
       ELSE UNCHANGED <<job, pc>>
    /\ UNCHANGED <<ws, wired, handlerVars, access, queue>>

\* The connection ends; the close handler is called if there is one by now.
Terminates(c) ==
    /\ At(Main, "loop")
    /\ ws[c] \in {"open", "closing"}
    /\ ws' = [ws EXCEPT ![c] = "closed"]
    /\ IF "close" \in wired[c] THEN Dispatch(c, "after_close", "lock")
       ELSE UNCHANGED <<job, pc>>
    /\ UNCHANGED <<wired, handlerVars, access, queue, arrivals>>

\* The last shared_ptr to the websocketpp connection is dropped.
Expires(c) ==
    /\ ws[c] = "closed"
    /\ ~Busy(Main, c)
    /\ ~Strong(c)
    /\ ws' = [ws EXCEPT ![c] = "gone"]
    /\ wired' = [wired EXCEPT ![c] = {}]
    /\ UNCHANGED <<handlerVars, access, queue, pc, job, arrivals>>

-----------------------------------------------------------------------------
(* The rest of the callbacks: on_open, on_message, on_close *)

BackToLoop == /\ job' = [job EXCEPT ![Main] = NoJob]
              /\ Goto(Main, "loop")

PushOpen == /\ At(Main, "pushOpen")
            /\ queue' = Append(queue, job[Main])
            /\ BackToLoop
            /\ UNCHANGED <<netVars, handlerVars, access>>

CallbackLock == /\ At(Main, "lock")
                /\ Lock(Main, Conn(Main))
                /\ Goto(Main, "find")
                /\ UNCHANGED <<netVars, handlerVars, queue, job>>

\* mWspp->find_connected(hdl); its exception unlocks mAccess and, in both
\* callbacks, goes on with closed()
CallbackFind ==
    /\ At(Main, "find")
    /\ connAccess = Free
    /\ IF ~mWspp[Conn(Main)] THEN Goto(Main, "crash") /\ UNCHANGED access
       ELSE IF Conn(Main) \in connected THEN Goto(Main, "push") /\ UNCHANGED access
       ELSE Goto(Main, "closed") /\ Unlock(Conn(Main))
    /\ UNCHANGED <<netVars, handlerVars, queue, job>>

\* variant: on_message goes on with closed() too
CloseAfterEveryPush ==
    /\ At(Main, "push")
    /\ queue' = IF ImplAvailable(Conn(Main)) THEN Append(queue, job[Main]) ELSE queue
    /\ Goto(Main, "closed")
    /\ Unlock(Conn(Main))
    /\ UNCHANGED <<netVars, handlerVars, job>>

\* variant: on_close calls closed() with mAccess locked
CloseUnderLock ==
    /\ At(Main, "push")
    /\ LET c == Conn(Main)
           isMessage == job[Main].call = "message"
       IN  /\ queue' = IF ImplAvailable(c) THEN Append(queue, job[Main]) ELSE queue
           /\ IF isMessage /\ ImplAvailable(c) THEN BackToLoop /\ Unlock(c)
              ELSE Goto(Main, "closed") /\ UNCHANGED <<job, access>>
    /\ UNCHANGED <<netVars, handlerVars>>

\* variant: on_close calls closed() only when the push fails
CloseOnlyOnError ==
    /\ At(Main, "push")
    /\ LET c == Conn(Main)
       IN  /\ queue' = IF ImplAvailable(c) THEN Append(queue, job[Main]) ELSE queue
           /\ IF ImplAvailable(c) THEN BackToLoop ELSE Goto(Main, "closed") /\ UNCHANGED job
           /\ Unlock(c)
    /\ UNCHANGED <<netVars, handlerVars>>

\* wspp_implementation().queue().push(...).  on_message is done then; when
\* ConnectionClosed is thrown it calls closed() under the lock.  on_close
\* always goes on with closed(), unlocked.
CallbackPush ==
    /\ At(Main, "push")
    /\ LET c == Conn(Main)
           isMessage == job[Main].call = "message"
       IN  /\ queue' = IF ImplAvailable(c) THEN Append(queue, job[Main]) ELSE queue
           /\ IF isMessage /\ ImplAvailable(c) THEN BackToLoop
              ELSE Goto(Main, "closed") /\ UNCHANGED job
           /\ IF isMessage /\ ~ImplAvailable(c) THEN UNCHANGED access ELSE Unlock(c)
    /\ UNCHANGED <<netVars, handlerVars>>

-----------------------------------------------------------------------------
(* closed() and Wspp::remove_connected, in the main thread or a worker *)

\* wspp = mWspp; mWspp = nullptr; wspp->... on a null pointer crashes
Closed(t) == /\ At(t, "closed")
             /\ mWspp' = [mWspp EXCEPT ![Conn(t)] = FALSE]
             /\ Goto(t, IF mWspp[Conn(t)] THEN "remove" ELSE "crash")
             /\ UNCHANGED <<netVars, handler, connected, connAccess, access, queue, job>>

\* The caller of closed() returns: its unique_lock, if it has one, is released.
Leave(t) == /\ UnlockIfHeld(t, Conn(t))
            /\ IF t = Main THEN BackToLoop ELSE Goto(t, "release") /\ UNCHANGED job

\* mConnected.erase; the last shared_ptr runs the destructor inside it (the
\* local `connected' of on_message dies right after, mAccess still locked).
\* A worker survives the exception for a missing key, the main thread not.
RemoveConnected(t) ==
    /\ At(t, "remove")
    /\ connAccess = Free
    /\ LET c == Conn(t)
           last == ~Referenced(c, {t} \ Workers)
       IN  /\ connected' = connected \ {c}
           /\ IF c \notin connected /\ t = Main
              THEN Goto(t, "crash") /\ UNCHANGED <<connAccess, access, job>>
              ELSE IF c \in connected /\ last
              THEN Goto(t, "destroy") /\ connAccess' = t /\ UNCHANGED <<access, job>>
              ELSE Leave(t) /\ UNCHANGED connAccess
    /\ UNCHANGED <<netVars, handler, mWspp, queue>>

DestroyErased(t) ==
    /\ At(t, "destroy")
    /\ Destructor(Conn(t))
    /\ connAccess' = Free
    /\ Leave(t)
    /\ UNCHANGED <<ws, connected, mWspp, queue, arrivals>>

-----------------------------------------------------------------------------
(* The workers: WsppThread::run, pop_call and the jobs *)

\* variant: the newest element is taken
PopNewest(w) == /\ At(w, "pop")
                /\ queue # <<>>
                /\ job' = [job EXCEPT ![w] = queue[Len(queue)]]
                /\ queue' = SubSeq(queue, 1, Len(queue) - 1)
                /\ Goto(w, "check")
                /\ UNCHANGED <<netVars, handlerVars, access>>

PopCall(w) == /\ At(w, "pop")
              /\ queue # <<>>
              /\ job' = [job EXCEPT ![w] = Head(queue)]
              /\ queue' = Tail(queue)
              /\ Goto(w, "check")
              /\ UNCHANGED <<netVars, handlerVars, access>>

\* if (data.connected->mWspp), with no lock; then the member function
CheckNotClosed(w) ==
    /\ At(w, "check")
    /\ Goto(w, IF ~mWspp[Conn(w)] THEN "release"
               ELSE IF job[w].call = "opening" THEN "openLock" ELSE "user")
    /\ UNCHANGED <<netVars, handlerVars, access, queue, job>>

\* open_queue_element_handler
OpenLock(w) == /\ At(w, "openLock")
               /\ Lock(w, Conn(w))
               /\ Goto(w, "openCheck")
               /\ UNCHANGED <<netVars, handlerVars, queue, job>>

\* wspp_implementation(): ConnectionClosed is caught, closed() is called
\* with mAccess still locked
OpenCheck(w) == /\ At(w, "openCheck")
                /\ Goto(w, IF ImplAvailable(Conn(w)) THEN "openConnection" ELSE "closed")
                /\ UNCHANGED <<netVars, handlerVars, access, queue, job>>

\* .connection(mHdl), lock.unlock().  A hdl that has expired since the check
\* makes get_con_from_hdl throw past the handler, to WsppThread::run.
OpenConnection(w) ==
    /\ At(w, "openConnection")
    /\ Unlock(Conn(w))
    /\ Goto(w, IF ws[Conn(w)] = "gone" THEN "release" ELSE "setMessage")
    /\ UNCHANGED <<netVars, handlerVars, queue, job>>

Wire(c, callback) == wired' = [wired EXCEPT ![c] = @ \cup {callback}]

SetMessageHandler(w) == /\ At(w, "setMessage")
                        /\ Wire(Conn(w), "message")
                        /\ Goto(w, "setClose")
                        /\ UNCHANGED <<ws, arrivals, handlerVars, access, queue, job>>

SetCloseHandler(w) == /\ At(w, "setClose")
                      /\ Wire(Conn(w), "close")
                      /\ Goto(w, "user")
                      /\ UNCHANGED <<ws, arrivals, handlerVars, access, queue, job>>

OpenJob(w) == \/ OpenLock(w) \/ OpenCheck(w) \/ OpenConnection(w)
              \/ SetMessageHandler(w) \/ SetCloseHandler(w)

\* opening(), message(), after_close() of the application: it may send and log
\* any number of times, then it returns or throws.
HandlerSends(w) == /\ At(w, "user")
                   /\ Goto(w, "sendLock")
                   /\ UNCHANGED <<netVars, handlerVars, access, queue, job>>

HandlerEnds(w) == /\ At(w, "user")
                  /\ Goto(w, "release")
                  /\ UNCHANGED <<netVars, handlerVars, access, queue, job>>

\* log_send_receive(), with no lock: on a null mWspp it is std::cerr
HandlerLogs(w) == /\ At(w, "user")
                  /\ mWspp[Conn(w)]
                  /\ Goto(w, "logUse")
                  /\ UNCHANGED <<netVars, handlerVars, access, queue, job>>

\* mWspp->log_send_receive(): like SendImpl
LogUse(w) == /\ At(w, "logUse")
             /\ \E reloads \in BOOLEAN :
                   Goto(w, IF reloads /\ ~mWspp[Conn(w)] THEN "crash" ELSE "user")
             /\ UNCHANGED <<netVars, handlerVars, access, queue, job>>

\* send()
SendLock(w) == /\ At(w, "sendLock")
               /\ Lock(w, Conn(w))
               /\ Goto(w, "sendCheck")
               /\ UNCHANGED <<netVars, handlerVars, queue, job>>

\* variant: the catch clause of send() calls closed(), like the others
SendCloses(w) == /\ At(w, "sendCheck")
                 /\ Goto(w, IF ImplAvailable(Conn(w)) THEN "sendImpl" ELSE "closed")
                 /\ UNCHANGED <<netVars, handlerVars, access, queue, job>>

SendCheck(w) == /\ At(w, "sendCheck")
                /\ IF ImplAvailable(Conn(w))
                   THEN Goto(w, "sendImpl") /\ UNCHANGED access
                   ELSE Goto(w, "user") /\ Unlock(Conn(w))
                /\ UNCHANGED <<netVars, handlerVars, queue, job>>

\* mWspp->implementation() reads mWspp again, or uses the value the check
\* loaded: with the unlocked write of closed() the build may do either.
SendImpl(w) == /\ At(w, "sendImpl")
               /\ \E reloads \in BOOLEAN :
                     IF reloads /\ ~mWspp[Conn(w)]
                     THEN Goto(w, "crash") /\ UNCHANGED access
                     ELSE Goto(w, "user") /\ Unlock(Conn(w))
               /\ UNCHANGED <<netVars, handlerVars, queue, job>>

Send(w) == SendLock(w) \/ SendCheck(w) \/ SendImpl(w)

\* variant: mConnected keeps weak pointers
ReleaseUnregistered(w) ==
    /\ At(w, "release")
    /\ LET c == Conn(w)
       IN  IF Referenced(c, {w}) THEN UNCHANGED <<handler, wired>> ELSE Destructor(c)
    /\ job' = [job EXCEPT ![w] = NoJob]
    /\ Goto(w, "pop")
    /\ UNCHANGED <<ws, connected, mWspp, access, connAccess, queue, arrivals>>

\* variant: pop_call returns and `data' stays
KeepData(w) ==
    /\ At(w, "release")
    /\ Goto(w, "pop")
    /\ UNCHANGED <<netVars, handlerVars, access, queue, job>>

\* pop_call returns and drops `data', perhaps the last shared_ptr
ReleaseData(w) ==
    /\ At(w, "release")
    /\ LET c == Conn(w)
       IN  IF c \in connected \/ Referenced(c, {w})
           THEN UNCHANGED <<handler, wired>>
           ELSE Destructor(c)
    /\ job' = [job EXCEPT ![w] = NoJob]
    /\ Goto(w, "pop")
    /\ UNCHANGED <<ws, connected, mWspp, access, connAccess, queue, arrivals>>

-----------------------------------------------------------------------------
Running == \A t \in Threads : pc[t] # "crash"

\* No event to come and every worker blocked in pop(), or the process died.
Stopped == /\ \/ ~Running
              \/ /\ \A c \in Conns : ws[c] = "gone"
                 /\ queue = <<>>
                 /\ At(Main, "loop")
                 /\ \A w \in Workers : At(w, "pop")
           /\ UNCHANGED vars

Network == \E c \in Conns : OnOpen(c) \/ MessageArrives(c) \/ Terminates(c) \/ Expires(c)

Callback == \/ PushOpen \/ CallbackLock \/ CallbackFind \/ CallbackPush
            \/ Closed(Main) \/ RemoveConnected(Main) \/ DestroyErased(Main)

Handler(w) == HandlerSends(w) \/ HandlerLogs(w) \/ HandlerEnds(w)

Work(w) == \/ CheckNotClosed(w) \/ OpenJob(w) \/ Send(w) \/ LogUse(w)
           \/ Closed(w) \/ RemoveConnected(w) \/ ReleaseData(w)

Next == \/ /\ Running
           /\ \/ Network
              \/ Callback
              \/ \E w \in Workers : PopCall(w) \/ Work(w) \/ Handler(w)
        \/ Stopped

Spec == Init /\ [][Next]_vars

\* Threads keep running inside the server's code, mutexes are granted in
\* turn, and the application's handlers return.  Nothing is asked of clients.
Fairness == /\ SF_vars(Running /\ Callback)
            /\ WF_vars(Running /\ \E w \in Workers : PopCall(w))
            /\ \A w \in Workers : /\ SF_vars(Running /\ Work(w))
                                  /\ SF_vars(Running /\ HandlerEnds(w))

FairSpec == Spec /\ Fairness

-----------------------------------------------------------------------------
(* Properties *)

MainLabels == {"loop", "pushOpen", "lock", "find", "push", "closed", "remove", "destroy", "crash"}
WorkerLabels == {"pop", "check", "openLock", "openCheck", "openConnection", "setMessage",
                 "setClose", "closed", "remove", "release", "crash"} \cup InHandlerCode

\* Every variable keeps its type, and a thread has a job or an event exactly
\* when it is not waiting for one.
TypeOK == /\ ws \in [Conns -> {"none", "open", "closing", "closed", "gone"}]
          /\ wired \in [Conns -> SUBSET {"message", "close"}]
          /\ handler \in [Conns -> {"none", "alive", "destroyed"}]
          /\ connected \subseteq Conns
          /\ mWspp \in [Conns -> BOOLEAN]
          /\ access \in [Conns -> Threads \cup {Free}]
          /\ connAccess \in {Main, Free}
          /\ queue \in Seq(Jobs)
          /\ pc \in [Threads -> MainLabels \cup WorkerLabels]
          /\ pc[Main] \in MainLabels
          /\ \A w \in Workers : pc[w] \in WorkerLabels
          /\ job \in [Threads -> Jobs \cup {NoJob}]
          /\ \A t \in Threads : pc[t] \in {"loop", "pop"} <=> job[t] = NoJob
          /\ arrivals \in 0 .. MaxMessages

\* The callbacks bound into websocketpp hold a plain `this': while they can
\* be called the handler is alive, registered and not closed, and it stays
\* alive while one of them runs.  (That on_message meets a closed connection,
\* the "may it ever happen??" of its catch clause, never happens.)
InCallback == {"lock", "find", "push", "closed", "remove", "destroy"}
CallbacksFindHandler ==
    /\ \A c \in Conns : ws[c] = "open" /\ wired[c] # {} =>
          handler[c] = "alive" /\ mWspp[c] /\ c \in connected
    /\ pc[Main] \in InCallback => handler[Conn(Main)] = "alive"
    /\ At(Main, "push") => ImplAvailable(Conn(Main))

\* closed() is entered once in the life of a handler: it finds mWspp set and
\* the connection in mConnected, whichever of on_message, on_close and
\* open_queue_element_handler calls it, although two of them have no lock or
\* have released it ("trying to remove it again?" is never thrown).
ClosesOnce == \A t \in Threads :
    /\ At(t, "closed") => mWspp[Conn(t)] /\ Conn(t) \in connected
    /\ At(t, "remove") => Conn(t) \in connected

\* The destructor of the handler locks mAccess.  Whoever drops the last
\* shared_ptr finds it free: nobody destroys a mutex that is locked, and the
\* destructor run inside remove_connected, under mConnectedAccess, does not
\* wait.
DestructorNeverBlocks ==
    /\ At(Main, "destroy") => access[Conn(Main)] = Free
    /\ \A w \in Workers :
          At(w, "release") /\ Conn(w) \notin connected /\ ~Referenced(Conn(w), {w}) =>
             access[Conn(w)] = Free

\* pop_call drops a job without running it only after the connection has
\* ended: no opening and no message of a live connection is lost to the
\* unlocked test of mWspp.
DropsOnlyClosed ==
    [][\A w \in Workers : At(w, "check") /\ pc'[w] = "release" =>
          ws[Conn(w)] \in {"closed", "gone"}]_vars

\* Thread t waits for a mutex that thread h holds.
WaitsFor(t, h) ==
    \/ pc[t] \in {"lock", "openLock", "sendLock", "destroy"} /\ access[Conn(t)] = h
    \/ pc[t] \in {"find", "remove"} /\ connAccess = h
    \/ /\ t \in Workers /\ At(t, "release") /\ Conn(t) \notin connected
       /\ ~Referenced(Conn(t), {t})
       /\ access[Conn(t)] = h

\* mAccess is locked before mConnectedAccess by on_message and
\* open_queue_element_handler, and after it by the destructor that
\* remove_connected runs.  It makes no circle: when a thread waits for one
\* that waits, then the second waits for the destructor in the main thread,
\* which waits for nobody.
WaitChainsEnd == \A t, u \in Threads : WaitsFor(t, u) =>
    \A v \in Threads : WaitsFor(u, v) =>
        v = Main /\ At(Main, "destroy") /\ \A h \in Threads : ~WaitsFor(Main, h)

Opening(c) == Job(c, "opening")
BeforeWired == {"check", "openLock", "openCheck", "openConnection", "setMessage", "setClose"}

\* The opening job of c is on its way, and no message handler installed.
BeforeMessages == BeforeWired \ {"setClose"}
Unopened(c) == \/ job[Main] = Opening(c)
               \/ \E i \in DOMAIN queue : queue[i] = Opening(c)
               \/ \E w \in Workers : job[w] = Opening(c) /\ pc[w] \in BeforeMessages

\* The main thread is about to push a job of c.
BeforePush == {"pushOpen", "lock", "find", "push"}
Pushes(c) == pc[Main] \in BeforePush /\ Conn(Main) = c

OpeningFirst == \A c \in Conns : Unopened(c) =>
    /\ wired[c] = {}
    /\ \A i \in DOMAIN queue : queue[i].conn = c => queue[i].call = "opening"
    /\ \A t \in Threads : Busy(t, c) => job[t].call = "opening"

AfterCloseLast ==
    /\ \A i, j \in DOMAIN queue : i < j /\ queue[i].call = "after_close" => queue[j].conn # queue[i].conn
    /\ \A i \in DOMAIN queue : queue[i].call = "after_close" =>
          ws[queue[i].conn] \in {"closed", "gone"} /\ ~Pushes(queue[i].conn)
    /\ \A w \in Workers : job[w] # NoJob /\ job[w].call = "after_close" =>
          /\ ws[Conn(w)] \in {"closed", "gone"} /\ ~Pushes(Conn(w))
          /\ \A i \in DOMAIN queue : queue[i].conn # Conn(w)

\* The jobs of a connection are queued and taken in order, although three
\* callbacks push them and any worker takes them: opening() is taken, and the
\* message handler installed, before any other job of the connection is made;
\* nothing of it follows after_close, and there is one after_close at most.
JobsInOrder == OpeningFirst /\ AfterCloseLast

\* The shared_ptrs of the main thread: in on_open, in the local `connected'
\* of a callback, or in the map's element that is being erased.
MainShares(c) == /\ job[Main] # NoJob /\ job[Main].conn = c
                 /\ pc[Main] \in {"pushOpen", "push", "destroy"}

Queued(c) == \E i \in DOMAIN queue : queue[i].conn = c

Shared(c) == c \in connected \/ Queued(c) \/ MainShares(c) \/ \E w \in Workers : Busy(w, c)

\* A handler is destroyed exactly when the last shared_ptr to it goes:
\* whichever of remove_connected and pop_call drops it, in whatever order,
\* it is neither destroyed early nor leaked.
LivesWhileShared == \A c \in Conns : handler[c] = "alive" <=> Shared(c)

\* Once on_close is called for a connection, its handler is unregistered and
\* destroyed, unless the process dies.
ClosedIsDestroyed == \A c \in Conns :
    (At(Main, "lock") /\ job[Main] = Job(c, "after_close")) ~>
        ((c \notin connected /\ handler[c] = "destroyed") \/ ~Running)

-----------------------------------------------------------------------------
(* What comments of the code say and the code does not do *)

\* server.hh: wspp_implementation() and log_send_receive() test mWspp before
\* they use it, "caller needs to lock mAccess"; so no thread uses the null
\* pointer.
NoNullDereference == Running

\* wspp-test.cc, server.hh: after_close is called when the websocket was
\* closed; pop_call never drops its job.
AfterCloseIsCalled ==
    [][\A w \in Workers : At(w, "check") /\ pc'[w] = "release" =>
          job[w].call # "after_close"]_vars

\* server.cc: "cannot handle opening: connection already closed" is the case
\* in which closed() removes the handler.  So the handler of a connection
\* that ended without on_close is unregistered all the same.
OpeningOfClosedIsForgotten == \A c \in Conns :
    (ws[c] \in {"closed", "gone"} /\ c \in connected) ~> (c \notin connected \/ ~Running)
=============================================================================
