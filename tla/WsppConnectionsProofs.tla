----------------------- MODULE WsppConnectionsProofs -----------------------
(***************************************************************************)
(* Proofs about WsppConnections for every set of connections and workers   *)
(* and every number of messages: type correctness, the safety properties   *)
(* and the drops of pop_call; then where the process can die, that the     *)
(* mutexes cause no circular wait, the order of the jobs, and that a       *)
(* handler lives as long as it is shared.                                  *)
(*                                                                         *)
(* The argument: a handler is "intact" (alive, registered, mWspp set) from *)
(* create_connected until closed().  A connection has one opening job, and *)
(* until that job has set the close handler nothing but the job can call   *)
(* closed(); afterwards only on_close can, which is called once.           *)
(***************************************************************************)
EXTENDS WsppConnections, TLAPS

(* The inductive invariant *)

Intact(c) == handler[c] = "alive" /\ mWspp[c] /\ c \in connected

\* A connection not (successfully) opened has no job and no callback.
UnusedInv == \A c \in Conns : ws[c] \in {"none", "closing"} =>
    /\ \A i \in DOMAIN queue : queue[i].conn # c
    /\ \A t \in Threads : ~Busy(t, c)
    /\ wired[c] = {}

\* There is at most one opening job of a connection, wherever it is.
OneOpeningInv ==
    /\ \A i, j \in DOMAIN queue : queue[i] = queue[j] /\ queue[i].call = "opening" => i = j
    /\ \A v, w \in Workers : job[v] = job[w] /\ job[v] # NoJob /\ job[v].call = "opening" => v = w
    /\ \A t \in Threads : \A i \in DOMAIN queue : job[t] = queue[i] => job[t].call # "opening"
    /\ \A w \in Workers : job[w] # NoJob /\ job[w] = job[Main] => job[w].call # "opening"

\* The opening job of c is on its way: on_close is not installed yet.
Pending(c) == \/ job[Main] = Opening(c)
              \/ \E i \in DOMAIN queue : queue[i] = Opening(c)
              \/ \E w \in Workers : job[w] = Opening(c) /\ pc[w] \in BeforeWired

IntactInv == \A c \in Conns :
    /\ ws[c] = "open" => Intact(c)
    /\ Pending(c) => Intact(c) /\ "close" \notin wired[c]

\* The event the main thread is dispatching, step by step.
MainInv ==
    /\ At(Main, "pushOpen") <=> job[Main] # NoJob /\ job[Main].call = "opening"
    /\ pc[Main] \in {"lock", "find", "push"} =>
          /\ Intact(Conn(Main))
          /\ job[Main].call = "message" => ws[Conn(Main)] = "open"
    /\ pc[Main] \in {"closed", "remove", "destroy"} => job[Main].call = "after_close"
    /\ At(Main, "closed") => Intact(Conn(Main))
    /\ At(Main, "remove") => handler[Conn(Main)] = "alive" /\ Conn(Main) \in connected
                             /\ ~mWspp[Conn(Main)]
    /\ pc[Main] \in InCallback /\ job[Main].call = "after_close" =>
          ws[Conn(Main)] = "closed" /\ ~Pending(Conn(Main))
    /\ At(Main, "destroy") =>
          /\ handler[Conn(Main)] = "alive"
          /\ Conn(Main) \notin connected
          /\ \A i \in DOMAIN queue : queue[i].conn # Conn(Main)
          /\ \A w \in Workers : ~Busy(w, Conn(Main))

\* A worker calls closed() only in the opening job of an expired connection.
OpenLabels == (BeforeWired \ {"check"}) \cup {"closed", "remove"}
WorkerInv == \A w \in Workers :
    /\ pc[w] \in OpenLabels => job[w].call = "opening"
    /\ At(w, "closed") => ws[Conn(w)] = "gone" /\ Intact(Conn(w))
    /\ At(w, "remove") => ws[Conn(w)] = "gone" /\ Conn(w) \in connected /\ ~mWspp[Conn(w)]

\* Who holds mAccess.
AccessInv == \A c \in Conns :
    /\ access[c] = Main => pc[Main] \in {"find", "push"} /\ Conn(Main) = c
    /\ \A w \in Workers : access[c] = w =>
          Busy(w, c) /\ pc[w] \in {"openCheck", "openConnection", "closed", "remove",
                                   "sendCheck", "sendImpl", "crash"}

IInv == /\ TypeOK /\ UnusedInv /\ OneOpeningInv /\ IntactInv
        /\ MainInv /\ WorkerInv /\ AccessInv

-----------------------------------------------------------------------------
(* Type correctness *)

\* The server starts with its types right.
LEMMA InitTypeOK == Init => TypeOK
  BY ConnectionsAssumption DEF Init, TypeOK, Threads, MainLabels, WorkerLabels, Jobs

\* The events of websocketpp keep the types.
LEMMA EventTypeOK == ASSUME TypeOK, NEW c \in Conns, OnOpen(c) \/ MessageArrives(c) \/ Terminates(c) \/ Expires(c)
                     PROVE TypeOK'
<1> USE ConnectionsAssumption DEF TypeOK, Threads, MainLabels, WorkerLabels, InHandlerCode,
        Jobs, Job, Dispatch, Goto, At, netVars, handlerVars
<1>1. CASE OnOpen(c)
  <2>1. ASSUME ws' = [ws EXCEPT ![c] = "open"], handler' = [handler EXCEPT ![c] = "alive"],
               connected' = connected \cup {c}, mWspp' = [mWspp EXCEPT ![c] = TRUE],
               Dispatch(c, "opening", "pushOpen")
        PROVE TypeOK'
    <3>1. Job(c, "opening") \in Jobs  OBVIOUS
    <3>2. UNCHANGED <<wired, access, connAccess, queue, arrivals>>  BY <1>1 DEF OnOpen, CreateConnected
    <3>. QED  BY <2>1, <3>1, <3>2
  <2>2. ASSUME ws' = [ws EXCEPT ![c] = "closing"], UNCHANGED <<handler, connected, mWspp, job, pc>>
        PROVE TypeOK'
    BY <1>1, <2>2 DEF OnOpen, CreateConnected
  <2>. QED  BY <1>1, <2>1, <2>2 DEF OnOpen, CreateConnected
<1>2. CASE MessageArrives(c)  BY <1>2 DEF MessageArrives
<1>3. CASE Terminates(c)  BY <1>3 DEF Terminates
<1>4. CASE Expires(c)  BY <1>4 DEF Expires
<1>. QED  BY <1>1, <1>2, <1>3, <1>4

\* So do the callbacks of the main thread,
LEMMA CallbackTypeOK == ASSUME TypeOK, PushOpen \/ CallbackLock \/ CallbackFind \/ CallbackPush
                        PROVE TypeOK'
<1> USE ConnectionsAssumption DEF TypeOK, Threads, MainLabels, WorkerLabels, InHandlerCode,
        Jobs, Job, BackToLoop, Lock, Unlock, Goto, At, Conn, netVars, handlerVars
<1>1. CASE PushOpen  BY <1>1 DEF PushOpen
<1>2. CASE CallbackLock  BY <1>2 DEF CallbackLock
<1>3. CASE CallbackFind  BY <1>3 DEF CallbackFind
<1>4. CASE CallbackPush
  <2>0. job[Main] \in Jobs  BY <1>4 DEF CallbackPush
  <2>1. queue' \in Seq(Jobs)
    <3>1. queue \in Seq(Jobs) /\ Append(queue, job[Main]) \in Seq(Jobs)  BY <2>0
    <3>. QED  BY <1>4, <3>1 DEF CallbackPush
  <2>2. access' \in [Conns -> Threads \cup {Free}]  BY <1>4 DEF CallbackPush
  <2>3. CASE pc' = [pc EXCEPT ![Main] = "loop"] /\ job' = [job EXCEPT ![Main] = NoJob]
    BY <1>4, <2>1, <2>2, <2>3 DEF CallbackPush
  <2>4. CASE pc' = [pc EXCEPT ![Main] = "closed"] /\ UNCHANGED job
    BY <1>4, <2>1, <2>2, <2>4 DEF CallbackPush
  <2>. QED  BY <1>4, <2>3, <2>4 DEF CallbackPush
<1>. QED  BY <1>1, <1>2, <1>3, <1>4

\* closed() and what follows it, in any thread,
LEMMA CloseTypeOK == ASSUME TypeOK, NEW t \in Threads,
                            Closed(t) \/ RemoveConnected(t) \/ DestroyErased(Main)
                     PROVE TypeOK'
<1> USE ConnectionsAssumption DEF TypeOK, Threads, MainLabels, WorkerLabels, InHandlerCode,
        Jobs, Job, BackToLoop, Leave, UnlockIfHeld, Goto, At, Conn, netVars, handlerVars
<1>1. CASE Closed(t)  BY <1>1 DEF Closed
<1>2. CASE RemoveConnected(t)
  \* a worker is not the last to refer to the handler: it has its `data'
  <2>1. t # Main => Referenced(Conn(t), {t} \ Workers)
    BY <1>2 DEF RemoveConnected, Referenced, Busy
  <2>2. UNCHANGED <<netVars, handler, mWspp, queue>> /\ connected' \subseteq Conns /\ pc[t] = "remove"
    BY <1>2 DEF RemoveConnected
  <2>3. access' \in [Conns -> Threads \cup {Free}]  BY <1>2 DEF RemoveConnected
  <2>4. CASE pc' = [pc EXCEPT ![t] = "crash"] /\ t = Main /\ UNCHANGED <<connAccess, access, job>>
    BY <2>2, <2>4
  <2>5. CASE pc' = [pc EXCEPT ![t] = "destroy"] /\ t = Main /\ connAccess' = t /\ UNCHANGED job
    BY <2>2, <2>3, <2>5
  <2>6. CASE Leave(t) /\ UNCHANGED connAccess
    BY <2>2, <2>3, <2>6
  <2>. QED  BY <1>2, <2>1, <2>4, <2>5, <2>6 DEF RemoveConnected
<1>3. CASE DestroyErased(Main)  BY <1>3 DEF DestroyErased, Destructor
<1>. QED  BY <1>1, <1>2, <1>3

\* and the other steps of the workers.
LEMMA WorkTypeOK == ASSUME TypeOK, NEW v \in Workers,
                           \/ PopCall(v) \/ CheckNotClosed(v) \/ OpenJob(v) \/ Send(v)
                           \/ ReleaseData(v) \/ Handler(v) \/ LogUse(v)
                    PROVE TypeOK'
<1> USE ConnectionsAssumption DEF TypeOK, Threads, MainLabels, WorkerLabels, InHandlerCode,
        Jobs, Job, Lock, Unlock, Goto, At, Conn, netVars, handlerVars
<1>1. CASE PopCall(v)
  <2>1. Head(queue) \in Jobs /\ Tail(queue) \in Seq(Jobs)
    <3>1. queue \in Seq(Jobs) /\ queue # <<>>  BY <1>1 DEF PopCall
    <3>. HIDE DEF TypeOK, Jobs
    <3>. QED  BY <3>1
  <2>. QED  BY <1>1, <2>1 DEF PopCall
<1>2. CASE CheckNotClosed(v)  BY <1>2 DEF CheckNotClosed
<1>3. CASE OpenJob(v)
  BY <1>3 DEF OpenJob, OpenLock, OpenCheck, OpenConnection, SetMessageHandler, SetCloseHandler, Wire
<1>4. CASE Send(v)
  <2>1. CASE SendLock(v)  BY <2>1 DEF SendLock
  <2>2. CASE SendCheck(v)
    <3>1. CASE pc' = [pc EXCEPT ![v] = "sendImpl"] /\ UNCHANGED access  BY <2>2, <3>1 DEF SendCheck
    <3>2. CASE pc' = [pc EXCEPT ![v] = "user"]  BY <2>2, <3>2 DEF SendCheck
    <3>. QED  BY <2>2, <3>1, <3>2 DEF SendCheck
  <2>3. CASE SendImpl(v)
    <3>1. CASE pc' = [pc EXCEPT ![v] = "crash"] /\ UNCHANGED access  BY <2>3, <3>1 DEF SendImpl
    <3>2. CASE pc' = [pc EXCEPT ![v] = "user"]  BY <2>3, <3>2 DEF SendImpl
    <3>. QED  BY <2>3, <3>1, <3>2 DEF SendImpl
  <2>. QED  BY <1>4, <2>1, <2>2, <2>3 DEF Send
<1>5. CASE ReleaseData(v)  BY <1>5 DEF ReleaseData, Destructor
<1>6. CASE Handler(v)
  <2>1. CASE HandlerSends(v)  BY <2>1 DEF HandlerSends
  <2>2. CASE HandlerLogs(v)  BY <2>2 DEF HandlerLogs
  <2>3. CASE HandlerEnds(v)  BY <2>3 DEF HandlerEnds
  <2>. QED  BY <1>6, <2>1, <2>2, <2>3 DEF Handler
<1>7. CASE LogUse(v)  BY <1>7 DEF LogUse
<1>. QED  BY <1>1, <1>2, <1>3, <1>4, <1>5, <1>6, <1>7

\* The types are inductive by themselves.
LEMMA NextTypeOK == TypeOK /\ [Next]_vars => TypeOK'
<1> SUFFICES ASSUME TypeOK, [Next]_vars PROVE TypeOK'
  OBVIOUS
<1>1. CASE Network  BY <1>1, EventTypeOK DEF Network
<1>2. CASE Callback  BY <1>2, CallbackTypeOK, CloseTypeOK DEF Callback, Threads
<1>3. ASSUME NEW v \in Workers, PopCall(v) \/ Work(v) \/ Handler(v)
      PROVE TypeOK'
  BY <1>3, WorkTypeOK, CloseTypeOK DEF Work, Threads
<1>4. CASE UNCHANGED vars  BY <1>4 DEF vars, TypeOK
<1>. QED  BY <1>1, <1>2, <1>3, <1>4 DEF Next, Stopped

\* Every variable keeps its type.
THEOREM TypeCorrect == Spec => []TypeOK
  BY InitTypeOK, NextTypeOK, PTL DEF Spec

-----------------------------------------------------------------------------
(* Every step preserves the inductive invariant *)

\* The server starts with no handler, no job and no mutex locked.
LEMMA InitIInv == Init => IInv
<1> SUFFICES ASSUME Init PROVE IInv
  OBVIOUS
<1>1. TypeOK  BY InitTypeOK
<1>2. \A t \in Threads : job[t] = NoJob  BY DEF Init
<1>3. UnusedInv /\ OneOpeningInv  BY <1>2 DEF Init, UnusedInv, OneOpeningInv, Busy, Threads
<1>4. \A c \in Conns : ~Pending(c)
  <2>1. \A c \in Conns : Opening(c) # NoJob  BY ConnectionsAssumption DEF Opening, Job, Jobs
  <2>2. DOMAIN queue = {}  BY DEF Init
  <2>. QED  BY <1>2, <2>1, <2>2 DEF Pending, Threads
<1>5. IntactInv  BY <1>4 DEF Init, IntactInv
<1>6. MainInv  BY <1>2 DEF Init, MainInv, At, InCallback, Threads
<1>7. WorkerInv /\ AccessInv
  BY ConnectionsAssumption DEF Init, WorkerInv, AccessInv, OpenLabels, BeforeWired, At, Threads
<1>. QED  BY <1>1, <1>3, <1>5, <1>6, <1>7 DEF IInv

\* Every element of the queue is a job.
LEMMA TypedElements == ASSUME TypeOK' PROVE \A i \in DOMAIN queue' : queue'[i] # NoJob
  BY ConnectionsAssumption DEF TypeOK

\* A thread that drops its job leaves one opening job at most.
LEMMA JobEnds == ASSUME TypeOK, OneOpeningInv, NEW t \in Threads,
                        UNCHANGED queue, job' = [job EXCEPT ![t] = NoJob]
                 PROVE OneOpeningInv'
<1>1. \A i \in DOMAIN queue : queue[i] # NoJob  BY ConnectionsAssumption DEF TypeOK
<1>2. \A u \in Threads : job'[u] # NoJob => job'[u] = job[u]  BY DEF TypeOK
<1>. QED  BY <1>1, <1>2 DEF OneOpeningInv, Threads

\* A job appended to the queue is found at its end.
LEMMA Appended == ASSUME TypeOK, NEW j \in Jobs, queue' = Append(queue, j)
                  PROVE \A i \in DOMAIN queue' : \/ i \in DOMAIN queue /\ queue'[i] = queue[i]
                                                 \/ i = Len(queue) + 1 /\ queue'[i] = j
<1>1. queue \in Seq(Jobs)  BY DEF TypeOK
<1>2. DOMAIN queue = 1 .. Len(queue) /\ DOMAIN queue' = 1 .. Len(queue) + 1  BY <1>1
<1>3. \A i \in 1 .. Len(queue) : queue'[i] = queue[i]  BY <1>1
<1>4. queue'[Len(queue) + 1] = j  BY <1>1
<1>5. Len(queue) \in Nat  BY <1>1
<1>. QED  BY <1>2, <1>3, <1>4, <1>5

\* on_open: the connection was unused, so the new opening job is the only one.
LEMMA OnOpenStep == ASSUME IInv, TypeOK', NEW c \in Conns, OnOpen(c) PROVE IInv'
<1> USE ConnectionsAssumption DEF IInv, TypeOK, Threads, Jobs, Job, Opening, Goto, At, Conn, Busy,
        netVars, handlerVars, BeforeWired, OpenLabels, InHandlerCode, InCallback,
        OnOpen, CreateConnected, Dispatch
<1>1. UnusedInv'  BY DEF UnusedInv
<1>2. OneOpeningInv'
  <2>1. /\ \A i \in DOMAIN queue : queue[i].conn # c
        /\ \A w \in Workers : job[w] # NoJob => job[w].conn # c
    BY DEF UnusedInv
  <2>2. queue' = queue /\ \A w \in Workers : job'[w] = job[w]  OBVIOUS
  <2>3. job'[Main] = job[Main] \/ job'[Main].conn = c  OBVIOUS
  <2>. QED  BY <2>1, <2>2, <2>3, TypedElements DEF OneOpeningInv
<1>3. IntactInv'  BY DEF UnusedInv, OneOpeningInv, IntactInv, WorkerInv, MainInv, Intact, Pending
<1>4. MainInv'  BY DEF UnusedInv, MainInv, IntactInv, OneOpeningInv, WorkerInv, Intact, Pending
<1>5. WorkerInv'  BY DEF UnusedInv, WorkerInv, IntactInv, OneOpeningInv, MainInv, Intact, Pending
<1>6. AccessInv'  BY DEF AccessInv, MainInv
<1>. QED  BY <1>1, <1>2, <1>3, <1>4, <1>5, <1>6

\* Main is in its loop; the message goes to an intact handler.
LEMMA MessageArrivesStep == ASSUME IInv, TypeOK', NEW c \in Conns, MessageArrives(c) PROVE IInv'
<1> USE ConnectionsAssumption DEF IInv, TypeOK, Threads, Jobs, Job, Opening, Goto, At, Conn, Busy,
        netVars, handlerVars, BeforeWired, OpenLabels, InHandlerCode, InCallback,
        MessageArrives, Dispatch
<1>1. UnusedInv'  BY DEF UnusedInv
<1>2. OneOpeningInv'  BY DEF OneOpeningInv, UnusedInv
<1>3. IntactInv'  BY DEF UnusedInv, OneOpeningInv, IntactInv, WorkerInv, MainInv, Intact, Pending
<1>4. MainInv'  BY DEF UnusedInv, MainInv, IntactInv, OneOpeningInv, WorkerInv, Intact, Pending
<1>5. WorkerInv'  BY DEF UnusedInv, WorkerInv, IntactInv, OneOpeningInv, MainInv, Intact, Pending
<1>6. AccessInv'  BY DEF AccessInv, MainInv
<1>. QED  BY <1>1, <1>2, <1>3, <1>4, <1>5, <1>6

\* The connection was open, its handler is intact, and the opening job of a
\* connection with a close handler is done.
LEMMA TerminatesStep == ASSUME IInv, TypeOK', NEW c \in Conns, Terminates(c) PROVE IInv'
<1> USE ConnectionsAssumption DEF IInv, TypeOK, Threads, Jobs, Job, Opening, Goto, At, Conn, Busy,
        netVars, handlerVars, BeforeWired, OpenLabels, InHandlerCode, InCallback,
        Terminates, Dispatch
<1>1. UnusedInv'  BY DEF UnusedInv
<1>2. OneOpeningInv'  BY DEF OneOpeningInv, UnusedInv
<1>3. IntactInv'  BY DEF UnusedInv, OneOpeningInv, IntactInv, WorkerInv, MainInv, Intact, Pending
<1>4. MainInv'  BY DEF UnusedInv, MainInv, IntactInv, OneOpeningInv, WorkerInv, Intact, Pending
<1>5. WorkerInv'  BY DEF UnusedInv, WorkerInv, IntactInv, OneOpeningInv, MainInv, Intact, Pending
<1>6. AccessInv'  BY DEF AccessInv, MainInv
<1>. QED  BY <1>1, <1>2, <1>3, <1>4, <1>5, <1>6

\* Nobody dispatches an event of c, and the invariant asks nothing of "gone".
LEMMA ExpiresStep == ASSUME IInv, TypeOK', NEW c \in Conns, Expires(c) PROVE IInv'
<1> USE ConnectionsAssumption DEF IInv, TypeOK, Threads, Jobs, Job, Opening, Goto, At, Conn, Busy,
        netVars, handlerVars, BeforeWired, OpenLabels, InHandlerCode, InCallback,
        Expires, Strong
<1>1. UnusedInv'  BY DEF UnusedInv
<1>2. OneOpeningInv'  BY DEF OneOpeningInv, UnusedInv
<1>3. IntactInv'  BY DEF UnusedInv, OneOpeningInv, IntactInv, WorkerInv, MainInv, Intact, Pending
<1>4. MainInv'  BY DEF UnusedInv, MainInv, IntactInv, OneOpeningInv, WorkerInv, Intact, Pending
<1>5. WorkerInv'  BY DEF UnusedInv, WorkerInv, IntactInv, OneOpeningInv, MainInv, Intact, Pending
<1>6. AccessInv'  BY DEF AccessInv, MainInv
<1>. QED  BY <1>1, <1>2, <1>3, <1>4, <1>5, <1>6

\* The opening job moves from Main into the queue.
LEMMA PushOpenStep == ASSUME IInv, TypeOK', PushOpen PROVE IInv'
<1> USE ConnectionsAssumption DEF IInv, TypeOK, Threads, Jobs, Job, Opening, Goto, At, Conn, Busy,
        netVars, handlerVars, BeforeWired, OpenLabels, InHandlerCode, InCallback,
        PushOpen, BackToLoop
<1>1. UnusedInv'  BY DEF UnusedInv
<1>2. OneOpeningInv'
  <2>1. job[Main] \in Jobs /\ queue' = Append(queue, job[Main]) /\ job' = [job EXCEPT ![Main] = NoJob]
    OBVIOUS
  <2>2. \A t \in Threads : job'[t] # NoJob => t # Main /\ job'[t] = job[t]  BY <2>1
  <2>3. \A i \in DOMAIN queue' : \/ i \in DOMAIN queue /\ queue'[i] = queue[i]
                                 \/ i = Len(queue) + 1 /\ queue'[i] = job[Main]
    BY <2>1, Appended
  <2>4. \A i \in DOMAIN queue' : queue'[i] # NoJob  BY TypedElements
  <2>. QED  BY <2>1, <2>2, <2>3, <2>4 DEF OneOpeningInv
<1>3. IntactInv'  BY DEF UnusedInv, OneOpeningInv, IntactInv, WorkerInv, MainInv, Intact, Pending
<1>4. MainInv'  BY DEF UnusedInv, MainInv, IntactInv, OneOpeningInv, WorkerInv, Intact, Pending
<1>5. WorkerInv'  BY DEF UnusedInv, WorkerInv, IntactInv, OneOpeningInv, MainInv, Intact, Pending
<1>6. AccessInv'  BY DEF AccessInv, MainInv
<1>. QED  BY <1>1, <1>2, <1>3, <1>4, <1>5, <1>6

\* The lock of on_message and on_close.
LEMMA CallbackLockStep == ASSUME IInv, TypeOK', CallbackLock PROVE IInv'
<1> USE ConnectionsAssumption DEF IInv, TypeOK, Threads, Jobs, Job, Opening, Goto, At, Conn, Busy,
        netVars, handlerVars, BeforeWired, OpenLabels, InHandlerCode, InCallback,
        CallbackLock, Lock, Unlock
<1>1. UnusedInv'  BY DEF UnusedInv
<1>2. OneOpeningInv'  BY DEF OneOpeningInv, UnusedInv
<1>3. IntactInv'  BY DEF UnusedInv, OneOpeningInv, IntactInv, WorkerInv, MainInv, Intact, Pending
<1>4. MainInv'  BY DEF UnusedInv, MainInv, IntactInv, OneOpeningInv, WorkerInv, Intact, Pending
<1>5. WorkerInv'  BY DEF UnusedInv, WorkerInv, IntactInv, OneOpeningInv, MainInv, Intact, Pending
<1>6. AccessInv'  BY DEF AccessInv, MainInv
<1>. QED  BY <1>1, <1>2, <1>3, <1>4, <1>5, <1>6

\* find_connected finds the handler, since it is intact.
LEMMA CallbackFindStep == ASSUME IInv, TypeOK', CallbackFind PROVE IInv'
<1> USE ConnectionsAssumption DEF IInv, TypeOK, Threads, Jobs, Job, Opening, Goto, At, Conn, Busy,
        netVars, handlerVars, BeforeWired, OpenLabels, InHandlerCode, InCallback,
        CallbackFind, Lock, Unlock
<1>1. UnusedInv'  BY DEF UnusedInv
<1>2. OneOpeningInv'  BY DEF OneOpeningInv, UnusedInv
<1>3. IntactInv'  BY DEF UnusedInv, OneOpeningInv, IntactInv, WorkerInv, MainInv, Intact, Pending
<1>4. MainInv'  BY DEF UnusedInv, MainInv, IntactInv, OneOpeningInv, WorkerInv, Intact, Pending
<1>5. WorkerInv'  BY DEF UnusedInv, WorkerInv, IntactInv, OneOpeningInv, MainInv, Intact, Pending
<1>6. AccessInv'  BY DEF AccessInv, MainInv, Intact
<1>. QED  BY <1>1, <1>2, <1>3, <1>4, <1>5, <1>6

\* The push succeeds; on_message is done, on_close goes on with closed().
LEMMA CallbackPushStep == ASSUME IInv, TypeOK', CallbackPush PROVE IInv'
<1> USE ConnectionsAssumption DEF IInv, TypeOK, Threads, Jobs, Job, Opening, Goto, At, Conn, Busy,
        netVars, handlerVars, BeforeWired, OpenLabels, InHandlerCode, InCallback,
        CallbackPush, Unlock, BackToLoop, ImplAvailable
<1>0. ImplAvailable(Conn(Main))  BY DEF MainInv, Intact
<1>1. UnusedInv'  BY DEF UnusedInv
<1>2. OneOpeningInv'
  <2>1. job[Main] \in Jobs /\ job[Main].call # "opening"  BY DEF MainInv
  <2>2. \A t \in Threads : job'[t] # NoJob => job'[t] = job[t]  OBVIOUS
  <2>3. \A i \in DOMAIN queue' : \/ i \in DOMAIN queue /\ queue'[i] = queue[i]
                                 \/ queue'[i].call # "opening"
    <3>1. CASE queue' = queue  BY <3>1
    <3>2. CASE queue' = Append(queue, job[Main])  BY <2>1, <3>2, Appended
    <3>. QED  BY <3>1, <3>2
  <2>4. \A i \in DOMAIN queue' : queue'[i] # NoJob  BY TypedElements
  <2>. QED  BY <2>1, <2>2, <2>3, <2>4 DEF OneOpeningInv
<1>3. IntactInv'  BY DEF UnusedInv, OneOpeningInv, IntactInv, WorkerInv, MainInv, Intact, Pending
<1>4. MainInv'  BY DEF UnusedInv, MainInv, IntactInv, OneOpeningInv, WorkerInv, Intact, Pending
<1>5. WorkerInv'
  <2>1. \A w \in Workers : pc'[w] = pc[w] /\ job'[w] = job[w]  OBVIOUS
  <2>2. UNCHANGED <<ws, handler, connected, mWspp>>  OBVIOUS
  <2>. QED  BY <2>1, <2>2 DEF WorkerInv, Intact
<1>6. AccessInv'
  <2>1. access' = [access EXCEPT ![Conn(Main)] = Free]  BY <1>0
  <2>2. \A w \in Workers : pc'[w] = pc[w] /\ job'[w] = job[w]  OBVIOUS
  <2>. QED  BY <2>1, <2>2 DEF AccessInv
<1>. QED  BY <1>1, <1>2, <1>3, <1>4, <1>5, <1>6

\* closed() in on_close: no opening job is left to rely on mWspp.
LEMMA MainClosedStep == ASSUME IInv, TypeOK', Closed(Main) PROVE IInv'
<1> USE ConnectionsAssumption DEF IInv, TypeOK, Threads, Jobs, Job, Opening, Goto, At, Conn, Busy,
        netVars, handlerVars, BeforeWired, OpenLabels, InHandlerCode, InCallback,
        Closed
<1>1. UnusedInv'  BY DEF UnusedInv
<1>2. OneOpeningInv'  BY DEF OneOpeningInv, UnusedInv
<1>3. IntactInv'  BY DEF UnusedInv, OneOpeningInv, IntactInv, WorkerInv, MainInv, Intact, Pending
<1>4. MainInv'  BY DEF UnusedInv, MainInv, IntactInv, OneOpeningInv, WorkerInv, Intact, Pending
<1>5. WorkerInv'  BY DEF UnusedInv, WorkerInv, IntactInv, OneOpeningInv, MainInv, Intact, Pending
<1>6. AccessInv'  BY DEF AccessInv, MainInv
<1>. QED  BY <1>1, <1>2, <1>3, <1>4, <1>5, <1>6

\* remove_connected in on_close.
LEMMA MainRemoveStep == ASSUME IInv, TypeOK', RemoveConnected(Main) PROVE IInv'
<1> USE ConnectionsAssumption DEF IInv, TypeOK, Threads, Jobs, Job, Opening, Goto, At, Conn, Busy,
        netVars, handlerVars, BeforeWired, OpenLabels, InHandlerCode, InCallback,
        RemoveConnected, Referenced, Leave, UnlockIfHeld, BackToLoop
<1>1. UnusedInv'  BY DEF UnusedInv
<1>2. OneOpeningInv'
  <2>1. UNCHANGED queue  OBVIOUS
  <2>. HIDE DEF TypeOK, Jobs
  <2>. QED  BY <2>1, JobEnds DEF OneOpeningInv
<1>3. IntactInv'  BY DEF UnusedInv, OneOpeningInv, IntactInv, WorkerInv, MainInv, Intact, Pending
<1>4. MainInv'  BY DEF UnusedInv, MainInv, IntactInv, OneOpeningInv, WorkerInv, Intact, Pending
<1>5. WorkerInv'  BY DEF UnusedInv, WorkerInv, IntactInv, OneOpeningInv, MainInv, Intact, Pending
<1>6. AccessInv'  BY DEF AccessInv, MainInv
<1>. QED  BY <1>1, <1>2, <1>3, <1>4, <1>5, <1>6

\* The destructor run by remove_connected.
LEMMA DestroyStep == ASSUME IInv, TypeOK', DestroyErased(Main) PROVE IInv'
<1> USE ConnectionsAssumption DEF IInv, TypeOK, Threads, Jobs, Job, Opening, Goto, At, Conn, Busy,
        netVars, handlerVars, BeforeWired, OpenLabels, InHandlerCode, InCallback,
        DestroyErased, Destructor, Leave, UnlockIfHeld, BackToLoop
<1>1. UnusedInv'  BY DEF UnusedInv
<1>2. OneOpeningInv'
  <2>1. UNCHANGED queue  OBVIOUS
  <2>. HIDE DEF TypeOK, Jobs
  <2>. QED  BY <2>1, JobEnds DEF OneOpeningInv
<1>3. IntactInv'  BY DEF UnusedInv, OneOpeningInv, IntactInv, WorkerInv, MainInv, Intact, Pending
<1>4. MainInv'  BY DEF UnusedInv, MainInv, IntactInv, OneOpeningInv, WorkerInv, Intact, Pending
<1>5. WorkerInv'  BY DEF UnusedInv, WorkerInv, IntactInv, OneOpeningInv, MainInv, Intact, Pending
<1>6. AccessInv'  BY DEF AccessInv, MainInv
<1>. QED  BY <1>1, <1>2, <1>3, <1>4, <1>5, <1>6

\* A job moves from the queue to a worker.
LEMMA PopStep == ASSUME IInv, TypeOK', NEW v \in Workers, PopCall(v) PROVE IInv'
<1> USE ConnectionsAssumption DEF IInv, TypeOK, Threads, Jobs, Job, Opening, Goto, At, Conn, Busy,
        netVars, handlerVars, BeforeWired, OpenLabels, InHandlerCode, InCallback,
        PopCall
<1>1. UnusedInv'  BY DEF UnusedInv
<1>2. OneOpeningInv'  BY DEF OneOpeningInv, UnusedInv
<1>3. IntactInv'  BY DEF UnusedInv, OneOpeningInv, IntactInv, WorkerInv, MainInv, Intact, Pending
<1>4. MainInv'  BY DEF UnusedInv, MainInv, IntactInv, OneOpeningInv, WorkerInv, Intact, Pending
<1>5. WorkerInv'  BY DEF UnusedInv, WorkerInv, IntactInv, OneOpeningInv, MainInv, Intact, Pending
<1>6. AccessInv'  BY DEF AccessInv, MainInv
<1>. QED  BY <1>1, <1>2, <1>3, <1>4, <1>5, <1>6

\* The test of mWspp in pop_call: an opening job finds it set.
LEMMA CheckStep == ASSUME IInv, TypeOK', NEW v \in Workers, CheckNotClosed(v) PROVE IInv'
<1> USE ConnectionsAssumption DEF IInv, TypeOK, Threads, Jobs, Job, Opening, Goto, At, Conn, Busy,
        netVars, handlerVars, BeforeWired, OpenLabels, InHandlerCode, InCallback,
        CheckNotClosed
<1>1. UnusedInv'  BY DEF UnusedInv
<1>2. OneOpeningInv'  BY DEF OneOpeningInv, UnusedInv
<1>3. IntactInv'  BY DEF UnusedInv, OneOpeningInv, IntactInv, WorkerInv, MainInv, Intact, Pending
<1>4. MainInv'  BY DEF UnusedInv, MainInv, IntactInv, OneOpeningInv, WorkerInv, Intact, Pending
<1>5. WorkerInv'  BY DEF UnusedInv, WorkerInv, IntactInv, OneOpeningInv, MainInv, Intact, Pending
<1>6. AccessInv'  BY DEF AccessInv, MainInv
<1>. QED  BY <1>1, <1>2, <1>3, <1>4, <1>5, <1>6

\* open_queue_element_handler up to opening(): closed() is called only for
\* an expired connection, whose handler is intact.
LEMMA OpenJobStep == ASSUME IInv, TypeOK', NEW v \in Workers, OpenJob(v) PROVE IInv'
<1> USE ConnectionsAssumption DEF IInv, TypeOK, Threads, Jobs, Job, Opening, Goto, At, Conn, Busy,
        netVars, handlerVars, BeforeWired, OpenLabels, InHandlerCode, InCallback,
        OpenJob, OpenLock, OpenCheck, OpenConnection, SetMessageHandler,
        SetCloseHandler, Wire, Lock, Unlock, ImplAvailable
<1>1. UnusedInv'  BY DEF UnusedInv
<1>2. OneOpeningInv'  BY DEF OneOpeningInv, UnusedInv
<1>3. IntactInv'  BY DEF UnusedInv, OneOpeningInv, IntactInv, WorkerInv, MainInv, Intact, Pending
<1>4. MainInv'  BY DEF UnusedInv, MainInv, IntactInv, OneOpeningInv, WorkerInv, Intact, Pending
<1>5. WorkerInv'  BY DEF UnusedInv, WorkerInv, IntactInv, OneOpeningInv, MainInv, Intact, Pending
<1>6. AccessInv'  BY DEF AccessInv, MainInv
<1>. QED  BY <1>1, <1>2, <1>3, <1>4, <1>5, <1>6

\* The application code and send() change mAccess only.
LEMMA HandlerStep == ASSUME IInv, TypeOK', NEW v \in Workers, Handler(v) \/ LogUse(v) \/ Send(v) PROVE IInv'
<1> USE ConnectionsAssumption DEF IInv, TypeOK, Threads, Jobs, Job, Opening, Goto, At, Conn, Busy,
        netVars, handlerVars, BeforeWired, OpenLabels, InHandlerCode, InCallback,
        Handler, HandlerSends, HandlerLogs, HandlerEnds, LogUse, Send, SendLock, SendCheck, SendImpl, Lock, Unlock
<1>1. UnusedInv'  BY DEF UnusedInv
<1>2. OneOpeningInv'  BY DEF OneOpeningInv, UnusedInv
<1>3. IntactInv'  BY DEF UnusedInv, OneOpeningInv, IntactInv, WorkerInv, MainInv, Intact, Pending
<1>4. MainInv'  BY DEF UnusedInv, MainInv, IntactInv, OneOpeningInv, WorkerInv, Intact, Pending
<1>5. WorkerInv'  BY DEF UnusedInv, WorkerInv, IntactInv, OneOpeningInv, MainInv, Intact, Pending
<1>6. AccessInv'  BY DEF AccessInv, MainInv
<1>. QED  BY <1>1, <1>2, <1>3, <1>4, <1>5, <1>6

\* closed() in open_queue_element_handler.
LEMMA WorkerClosedStep == ASSUME IInv, TypeOK', NEW v \in Workers, Closed(v) PROVE IInv'
<1> USE ConnectionsAssumption DEF IInv, TypeOK, Threads, Jobs, Job, Opening, Goto, At, Conn, Busy,
        netVars, handlerVars, BeforeWired, OpenLabels, InHandlerCode, InCallback,
        Closed
<1>1. UnusedInv'  BY DEF UnusedInv
<1>2. OneOpeningInv'  BY DEF OneOpeningInv, UnusedInv
<1>3. IntactInv'  BY DEF UnusedInv, OneOpeningInv, IntactInv, WorkerInv, MainInv, Intact, Pending
<1>4. MainInv'  BY DEF UnusedInv, MainInv, IntactInv, OneOpeningInv, WorkerInv, Intact, Pending
<1>5. WorkerInv'  BY DEF UnusedInv, WorkerInv, IntactInv, OneOpeningInv, MainInv, Intact, Pending
<1>6. AccessInv'  BY DEF AccessInv, MainInv
<1>. QED  BY <1>1, <1>2, <1>3, <1>4, <1>5, <1>6

\* remove_connected in open_queue_element_handler.
LEMMA WorkerRemoveStep == ASSUME IInv, TypeOK', NEW v \in Workers, RemoveConnected(v) PROVE IInv'
<1> USE ConnectionsAssumption DEF IInv, TypeOK, Threads, Jobs, Job, Opening, Goto, At, Conn, Busy,
        netVars, handlerVars, BeforeWired, OpenLabels, InHandlerCode, InCallback,
        RemoveConnected, Referenced, Leave, UnlockIfHeld
<1>1. UnusedInv'  BY DEF UnusedInv
<1>2. OneOpeningInv'  BY DEF OneOpeningInv, UnusedInv
<1>3. IntactInv'  BY DEF UnusedInv, OneOpeningInv, IntactInv, WorkerInv, MainInv, Intact, Pending
<1>4. MainInv'  BY DEF UnusedInv, MainInv, IntactInv, OneOpeningInv, WorkerInv, Intact, Pending
<1>5. WorkerInv'  BY DEF UnusedInv, WorkerInv, IntactInv, OneOpeningInv, MainInv, Intact, Pending
<1>6. AccessInv'  BY DEF AccessInv, MainInv
<1>. QED  BY <1>1, <1>2, <1>3, <1>4, <1>5, <1>6

\* A job ends; a handler destroyed by that is registered nowhere.
LEMMA ReleaseStep == ASSUME IInv, TypeOK', NEW v \in Workers, ReleaseData(v) PROVE IInv'
<1> USE ConnectionsAssumption DEF IInv, TypeOK, Threads, Jobs, Job, Opening, Goto, At, Conn, Busy,
        netVars, handlerVars, BeforeWired, OpenLabels, InHandlerCode, InCallback,
        ReleaseData, Destructor, Referenced
<1>1. UnusedInv'  BY DEF UnusedInv
<1>2. OneOpeningInv'
  <2>1. UNCHANGED queue  OBVIOUS
  <2>. HIDE DEF TypeOK, Jobs
  <2>. QED  BY <2>1, JobEnds DEF OneOpeningInv
<1>3. IntactInv'  BY DEF UnusedInv, OneOpeningInv, IntactInv, WorkerInv, MainInv, Intact, Pending
<1>4. MainInv'  BY DEF UnusedInv, MainInv, IntactInv, OneOpeningInv, WorkerInv, Intact, Pending
<1>5. WorkerInv'  BY DEF UnusedInv, WorkerInv, IntactInv, OneOpeningInv, MainInv, Intact, Pending
<1>6. AccessInv'  BY DEF AccessInv, MainInv
<1>. QED  BY <1>1, <1>2, <1>3, <1>4, <1>5, <1>6

\* Every step of the server keeps the invariant.
LEMMA NextIInv == IInv /\ [Next]_vars => IInv'
<1> SUFFICES ASSUME IInv, [Next]_vars PROVE IInv'
  OBVIOUS
<1>0. TypeOK'  BY NextTypeOK DEF IInv
<1>1. CASE Network
  BY <1>0, <1>1, OnOpenStep, MessageArrivesStep, TerminatesStep, ExpiresStep DEF Network
<1>2. CASE Callback
  BY <1>0, <1>2, PushOpenStep, CallbackLockStep, CallbackFindStep, CallbackPushStep,
     MainClosedStep, MainRemoveStep, DestroyStep DEF Callback
<1>3. ASSUME NEW v \in Workers, PopCall(v) \/ Work(v) \/ Handler(v)
      PROVE IInv'
  BY <1>0, <1>3, PopStep, CheckStep, OpenJobStep, HandlerStep, WorkerClosedStep,
     WorkerRemoveStep, ReleaseStep DEF Work
<1>4. CASE UNCHANGED vars
  BY <1>0, <1>4 DEF vars, IInv, UnusedInv, OneOpeningInv, IntactInv, MainInv, WorkerInv, AccessInv,
     Intact, Pending, At, Conn, Busy
<1>. QED  BY <1>1, <1>2, <1>3, <1>4 DEF Next, Stopped

\* The inductive invariant holds in every reachable state.
THEOREM Invariance == Spec => []IInv
  BY InitIInv, NextIInv, PTL DEF Spec

\* No callback of websocketpp reaches a handler that is closed or destroyed.
THEOREM CallbacksAreSafe == Spec => []CallbacksFindHandler
<1>1. IInv => CallbacksFindHandler
  <2>1. IInv => \A c \in Conns : ws[c] = "open" => Intact(c)  BY DEF IInv, IntactInv
  <2>2. IInv /\ pc[Main] \in InCallback => handler[Conn(Main)] = "alive"
    BY DEF IInv, MainInv, InCallback, Intact, At
  <2>3. IInv /\ At(Main, "push") => ImplAvailable(Conn(Main))
    <3> SUFFICES ASSUME IInv, At(Main, "push") PROVE ImplAvailable(Conn(Main))
      OBVIOUS
    <3>1. job[Main] \in Jobs /\ job[Main].call \in {"message", "after_close"}
      BY DEF IInv, TypeOK, MainInv, At, Jobs, Threads
    <3>. QED  BY <3>1 DEF IInv, MainInv, At, Intact, InCallback, ImplAvailable
  <2>. QED  BY <2>1, <2>2, <2>3 DEF CallbacksFindHandler, Intact
<1>. QED  BY <1>1, Invariance, PTL

\* closed() is entered at most once for a handler, and finds it registered.
THEOREM ClosedOnce == Spec => []ClosesOnce
<1>1. IInv => ClosesOnce
  BY DEF IInv, MainInv, WorkerInv, ClosesOnce, Threads, At, Intact
<1>. QED  BY <1>1, Invariance, PTL

\* The destructor of a handler never waits for its mAccess.
THEOREM DestructorRuns == Spec => []DestructorNeverBlocks
<1>1. IInv => DestructorNeverBlocks
  <2> SUFFICES ASSUME IInv PROVE DestructorNeverBlocks
    OBVIOUS
  <2> USE ConnectionsAssumption DEF IInv, TypeOK, At, Conn, Busy, Threads, Jobs
  <2>1. ASSUME At(Main, "destroy") PROVE access[Conn(Main)] = Free
    BY <2>1 DEF MainInv, AccessInv
  <2>2. ASSUME NEW w \in Workers, At(w, "release"), Conn(w) \notin connected, ~Referenced(Conn(w), {w})
        PROVE access[Conn(w)] = Free
    <3>1. access[Conn(w)] # Main  BY <2>2 DEF MainInv, AccessInv, Intact
    <3>2. \A v \in Workers : access[Conn(w)] # v  BY <2>2 DEF AccessInv, Referenced
    <3>. QED  BY <2>2, <3>1, <3>2
  <2>. QED  BY <2>1, <2>2 DEF DestructorNeverBlocks
<1>. QED  BY <1>1, Invariance, PTL

-----------------------------------------------------------------------------
(* What the unlocked test of pop_call drops *)

\* Only the thread itself moves on from the test.
LEMMA OnlyCheckLeaves == ASSUME TypeOK, [Next]_vars, NEW w \in Workers, At(w, "check"), pc'[w] # pc[w]
                         PROVE CheckNotClosed(w)
<1> USE ConnectionsAssumption DEF TypeOK, At, Goto, Threads, netVars, handlerVars
<1>1. CASE Network
  BY <1>1 DEF Network, OnOpen, CreateConnected, MessageArrives, Terminates, Expires, Dispatch
<1>2. CASE Callback
  BY <1>2 DEF Callback, PushOpen, CallbackLock, CallbackFind, CallbackPush, Closed,
              RemoveConnected, DestroyErased, Leave, BackToLoop
<1>3. ASSUME NEW v \in Workers, PopCall(v) \/ Work(v) \/ Handler(v)
      PROVE CheckNotClosed(w)
  <2>1. CASE v = w
    BY <1>3, <2>1 DEF PopCall, Work, Handler, HandlerSends, HandlerLogs, HandlerEnds, LogUse, OpenJob, OpenLock, OpenCheck,
       OpenConnection, SetMessageHandler, SetCloseHandler, Send, SendLock, SendCheck, SendImpl,
       Closed, RemoveConnected, ReleaseData
  <2>2. CASE v # w
    <3>1. PopCall(v) \/ CheckNotClosed(v) \/ Handler(v) \/ LogUse(v) => pc'[w] = pc[w]
      BY <2>2 DEF PopCall, CheckNotClosed, Handler, HandlerSends, HandlerLogs, HandlerEnds, LogUse
    <3>2. OpenJob(v) \/ Send(v) => pc'[w] = pc[w]
      BY <2>2 DEF OpenJob, OpenLock, OpenCheck, OpenConnection, SetMessageHandler, SetCloseHandler,
         Send, SendLock, SendCheck, SendImpl
    <3>3. Closed(v) \/ RemoveConnected(v) \/ ReleaseData(v) => pc'[w] = pc[w]
      BY <2>2 DEF Closed, RemoveConnected, ReleaseData, Leave
    <3>. QED  BY <1>3, <3>1, <3>2, <3>3 DEF Work
  <2>. QED  BY <2>1, <2>2
<1>4. CASE UNCHANGED vars  BY <1>4 DEF vars
<1>. QED  BY <1>1, <1>2, <1>3, <1>4 DEF Next, Stopped

\* pop_call drops no job of a live connection.
THEOREM DropsOnlyClosedJobs == Spec => DropsOnlyClosed
<1>1. ASSUME IInv, [Next]_vars, NEW w \in Workers, At(w, "check"), pc'[w] = "release"
      PROVE  ws[Conn(w)] \in {"closed", "gone"}
  <2> USE DEF IInv, TypeOK, At, Conn, Threads, Jobs
  <2>1. CheckNotClosed(w)  BY <1>1, OnlyCheckLeaves
  <2>2. ~mWspp[Conn(w)]  BY <1>1, <2>1 DEF CheckNotClosed, Goto
  <2>3. ws[Conn(w)] # "open"  BY <1>1, <2>2 DEF IntactInv, Intact
  <2>4. ws[Conn(w)] \notin {"none", "closing"}  BY <1>1 DEF UnusedInv, Busy
  <2>. QED  BY <1>1, <2>3, <2>4
<1>2. IInv /\ [Next]_vars => [\A w \in Workers : At(w, "check") /\ pc'[w] = "release" =>
                                  ws[Conn(w)] \in {"closed", "gone"}]_vars
  BY <1>1
<1>. QED  BY <1>2, Invariance, PTL DEF Spec, DropsOnlyClosed

-----------------------------------------------------------------------------
(* Where the process can die                                               *)

\* The main thread uses no null pointer, and a worker only in the job of a
\* connection that has ended.
CrashesOnlyAfterEnd ==
    /\ ~At(Main, "crash")
    /\ \A w \in Workers : At(w, "crash") => ws[Conn(w)] \in {"closed", "gone"}

\* Only send() and the log, with a null mWspp, lead a thread to "crash".
LEMMA NextCrashes == IInv /\ CrashesOnlyAfterEnd /\ [Next]_vars => CrashesOnlyAfterEnd'
<1> SUFFICES ASSUME IInv, CrashesOnlyAfterEnd, [Next]_vars PROVE CrashesOnlyAfterEnd'
  OBVIOUS
<1> USE ConnectionsAssumption DEF IInv, TypeOK, CrashesOnlyAfterEnd, At, Goto, Conn, Busy, Threads,
        Jobs, netVars, handlerVars
<1>1. CASE UNCHANGED vars  BY <1>1 DEF vars
<1>2. CASE Running /\ Network
  <2>. \A t \in Threads : pc[t] # "crash"  BY <1>2 DEF Running
  <2>. QED  BY <1>2 DEF Network, OnOpen, CreateConnected, MessageArrives, Terminates, Expires, Dispatch
<1>3. CASE Running /\ Callback
  <2>1. \A t \in Threads : pc[t] # "crash"  BY <1>3 DEF Running
  <2>2. ASSUME PushOpen \/ CallbackLock \/ CallbackPush \/ DestroyErased(Main) PROVE CrashesOnlyAfterEnd'
    BY <2>1, <2>2 DEF PushOpen, CallbackLock, CallbackPush, DestroyErased, Leave, BackToLoop
  <2>3. ASSUME CallbackFind PROVE CrashesOnlyAfterEnd'
    BY <2>1, <2>3 DEF CallbackFind, MainInv, Intact
  <2>4. ASSUME Closed(Main) PROVE CrashesOnlyAfterEnd'
    BY <2>1, <2>4 DEF Closed, MainInv, Intact
  <2>5. ASSUME RemoveConnected(Main) PROVE CrashesOnlyAfterEnd'
    BY <2>1, <2>5 DEF RemoveConnected, Leave, BackToLoop, MainInv
  <2>. QED  BY <1>3, <2>2, <2>3, <2>4, <2>5 DEF Callback
<1>4. ASSUME Running, NEW v \in Workers, PopCall(v) \/ Work(v) \/ Handler(v)
      PROVE  CrashesOnlyAfterEnd'
  <2>1. \A t \in Threads : pc[t] # "crash"  BY <1>4 DEF Running
  <2>2. \A u \in Threads : u # v => pc'[u] = pc[u]
    <3>1. PopCall(v) \/ CheckNotClosed(v) \/ Handler(v) \/ LogUse(v) => \A u \in Threads : u # v => pc'[u] = pc[u]
      BY DEF PopCall, CheckNotClosed, Handler, HandlerSends, HandlerLogs, HandlerEnds, LogUse
    <3>2. OpenJob(v) \/ Send(v) => \A u \in Threads : u # v => pc'[u] = pc[u]
      BY DEF OpenJob, OpenLock, OpenCheck, OpenConnection, SetMessageHandler, SetCloseHandler,
         Send, SendLock, SendCheck, SendImpl
    <3>3. Closed(v) \/ RemoveConnected(v) \/ ReleaseData(v) => \A u \in Threads : u # v => pc'[u] = pc[u]
      BY DEF Closed, RemoveConnected, ReleaseData, Leave
    <3>. QED  BY <1>4, <3>1, <3>2, <3>3 DEF Work
  <2>3. SUFFICES ASSUME pc'[v] = "crash" PROVE ws'[job'[v].conn] \in {"closed", "gone"}
    BY <2>1, <2>2
  <2>4. LogUse(v) \/ SendImpl(v)
    <3>1. ~PopCall(v) /\ ~CheckNotClosed(v) /\ ~Handler(v)
      BY <2>3 DEF PopCall, CheckNotClosed, Handler, HandlerSends, HandlerLogs, HandlerEnds
    <3>2. ~OpenJob(v) /\ ~SendLock(v) /\ ~SendCheck(v)
      BY <2>3 DEF OpenJob, OpenLock, OpenCheck, OpenConnection, SetMessageHandler, SetCloseHandler,
         SendLock, SendCheck
    <3>3. ~Closed(v)  BY <2>3 DEF Closed, WorkerInv, Intact
    <3>4. ~RemoveConnected(v) /\ ~ReleaseData(v)  BY <2>3 DEF RemoveConnected, ReleaseData, Leave
    <3>. QED  BY <1>4, <3>1, <3>2, <3>3, <3>4 DEF Work, Send
  <2>5. ~mWspp[Conn(v)] /\ UNCHANGED <<ws, job>> /\ job[v] \in Jobs
    BY <2>3, <2>4 DEF LogUse, SendImpl
  <2>6. ws[Conn(v)] # "open"  BY <2>5 DEF IntactInv, Intact
  <2>7. ws[Conn(v)] \notin {"none", "closing"}  BY <2>5 DEF UnusedInv
  <2>. QED  BY <2>5, <2>6, <2>7
<1>. QED  BY <1>1, <1>2, <1>3, <1>4 DEF Next, Stopped

\* The null pointer of the finding is used by a worker only, and only when
\* the connection of its job has ended: live connections and the main thread
\* never bring the process down.
THEOREM DiesOnlyAfterEnd == Spec => []CrashesOnlyAfterEnd
<1>1. Init => CrashesOnlyAfterEnd
  BY ConnectionsAssumption DEF Init, CrashesOnlyAfterEnd, At, Threads
<1>. QED  BY <1>1, NextCrashes, Invariance, PTL DEF Spec

-----------------------------------------------------------------------------
(* The mutexes                                                             *)

\* mConnectedAccess is held over a step only by remove_connected of the main
\* thread, when it runs the destructor of a handler.
ConnAccessInv == connAccess = Main <=> At(Main, "destroy")

\* Every other step keeps mConnectedAccess within itself.
LEMMA NextConnAccess == IInv /\ ConnAccessInv /\ [Next]_vars => ConnAccessInv'
<1> SUFFICES ASSUME IInv, ConnAccessInv, [Next]_vars PROVE ConnAccessInv'
  OBVIOUS
<1> USE ConnectionsAssumption DEF IInv, TypeOK, ConnAccessInv, At, Goto, Conn, Busy, Threads,
        netVars, handlerVars
<1>1. CASE UNCHANGED vars  BY <1>1 DEF vars
<1>2. CASE Network
  BY <1>2 DEF Network, OnOpen, CreateConnected, MessageArrives, Terminates, Expires, Dispatch
<1>3. CASE Callback
  <2>1. ASSUME PushOpen \/ CallbackLock \/ CallbackPush \/ CallbackFind \/ Closed(Main) PROVE ConnAccessInv'
    BY <2>1 DEF PushOpen, CallbackLock, CallbackPush, CallbackFind, Closed, BackToLoop
  <2>2. ASSUME RemoveConnected(Main) PROVE ConnAccessInv'
    BY <2>2 DEF RemoveConnected, Leave, BackToLoop
  <2>3. ASSUME DestroyErased(Main) PROVE ConnAccessInv'
    BY <2>3 DEF DestroyErased, Leave, BackToLoop
  <2>. QED  BY <1>3, <2>1, <2>2, <2>3 DEF Callback
<1>4. ASSUME NEW v \in Workers, PopCall(v) \/ Work(v) \/ Handler(v)
      PROVE  ConnAccessInv'
  <2>1. PopCall(v) \/ CheckNotClosed(v) \/ Handler(v) \/ LogUse(v) => ConnAccessInv'
    BY DEF PopCall, CheckNotClosed, Handler, HandlerSends, HandlerLogs, HandlerEnds, LogUse
  <2>2. OpenJob(v) \/ Send(v) => ConnAccessInv'
    BY DEF OpenJob, OpenLock, OpenCheck, OpenConnection, SetMessageHandler, SetCloseHandler,
       Send, SendLock, SendCheck, SendImpl
  <2>3. RemoveConnected(v) => ConnAccessInv'
    \* the worker itself still refers to the handler
    BY DEF RemoveConnected, Referenced, Leave
  <2>4. Closed(v) \/ ReleaseData(v) => ConnAccessInv'
    BY DEF Closed, ReleaseData
  <2>. QED  BY <1>4, <2>1, <2>2, <2>3, <2>4 DEF Work
<1>. QED  BY <1>1, <1>2, <1>3, <1>4 DEF Next, Stopped

\* No threads of the server wait for each other in a circle, whatever their
\* number and that of the connections.
THEOREM NoCircularWait == Spec => []WaitChainsEnd
<1>1. Init => ConnAccessInv
  BY ConnectionsAssumption DEF Init, ConnAccessInv, At, Threads
<1>2. IInv /\ ConnAccessInv => WaitChainsEnd
  <2> SUFFICES ASSUME IInv, ConnAccessInv,
                      NEW t \in Threads, NEW u \in Threads, NEW v \in Threads,
                      WaitsFor(t, u), WaitsFor(u, v)
               PROVE  v = Main /\ At(Main, "destroy") /\ \A h \in Threads : ~WaitsFor(Main, h)
    BY DEF WaitChainsEnd
  <2> USE ConnectionsAssumption DEF IInv, TypeOK, At, Conn, Threads
  <2>1. ASSUME At(Main, "destroy") PROVE \A h \in Threads : ~WaitsFor(Main, h)
    <3>1. access[Conn(Main)] = Free
      <4>1. Conn(Main) \in Conns  BY <2>1 DEF Jobs
      <4>2. access[Conn(Main)] # Main  BY <2>1, <4>1 DEF AccessInv
      <4>3. \A w \in Workers : access[Conn(Main)] # w  BY <2>1, <4>1 DEF AccessInv, MainInv
      <4>. QED  BY <4>1, <4>2, <4>3
    <3>. QED  BY <2>1, <3>1 DEF WaitsFor
  <2>2. connAccess = u => At(Main, "destroy") /\ u = Main
    BY DEF ConnAccessInv
  <2>3. CASE connAccess = u
    BY <2>1, <2>2, <2>3
  <2>4. CASE connAccess # u
    <3>1. pc[t] \in {"lock", "openLock", "sendLock", "destroy", "release"} /\ access[Conn(t)] = u
      BY <2>4 DEF WaitsFor
    <3>2. Conn(t) \in Conns  BY <3>1 DEF Jobs
    <3>3. CASE u = Main
      <4>1. pc[Main] \in {"find", "push"}  BY <3>1, <3>2, <3>3 DEF AccessInv
      <4>. QED  BY <3>3, <4>1 DEF WaitsFor, ConnAccessInv
    <3>4. CASE u \in Workers
      <4>1. pc[u] \in {"openCheck", "openConnection", "closed", "remove", "sendCheck", "sendImpl", "crash"}
        BY <3>1, <3>2, <3>4 DEF AccessInv
      <4>2. connAccess = v  BY <4>1 DEF WaitsFor
      <4>. QED  BY <2>1, <4>2 DEF ConnAccessInv
    <3>. QED  BY <3>3, <3>4
  <2>. QED  BY <2>3, <2>4
<1>. QED  BY <1>1, <1>2, NextConnAccess, Invariance, PTL DEF Spec
-----------------------------------------------------------------------------
(* The order of the jobs of a connection                                   *)

\* Steps that push, pop and wire nothing.
LEMMA KeepsOrder ==
    ASSUME TypeOK, JobsInOrder, UNCHANGED queue,
           \A c \in Conns : wired'[c] \subseteq wired[c],
           \A c \in Conns : ws[c] \in {"closed", "gone"} => ws'[c] \in {"closed", "gone"},
           \A t \in Threads : job'[t] = job[t] \/ job'[t] = NoJob,
           \A w \in Workers : pc'[w] \in BeforeMessages /\ job'[w] # NoJob => pc[w] \in BeforeMessages,
           pc'[Main] \in BeforePush => pc[Main] \in BeforePush /\ job'[Main] = job[Main]
    PROVE  JobsInOrder'
<1> USE ConnectionsAssumption DEF TypeOK, Threads
<1>0. \A c \in Conns : Opening(c) # NoJob  BY DEF Opening, Job, Jobs
<1>1. \A c \in Conns : Unopened(c)' => Unopened(c)
  <2> SUFFICES ASSUME NEW c \in Conns, Unopened(c)' PROVE Unopened(c)
    OBVIOUS
  <2>1. CASE job'[Main] = Opening(c)  BY <1>0, <2>1 DEF Unopened
  <2>2. CASE \E i \in DOMAIN queue : queue[i] = Opening(c)  BY <2>2 DEF Unopened
  <2>3. CASE \E w \in Workers : job'[w] = Opening(c) /\ pc'[w] \in BeforeMessages
    BY <1>0, <2>3 DEF Unopened
  <2>. QED  BY <2>1, <2>2, <2>3 DEF Unopened
<1>2. OpeningFirst'
  BY <1>1 DEF JobsInOrder, OpeningFirst, Busy
<1>3. \A c \in Conns : Pushes(c)' => Pushes(c)
  BY DEF Pushes, Conn
<1>4. \A i \in DOMAIN queue : queue[i] \in Jobs /\ queue[i].conn \in Conns
  <2>1. \A i \in DOMAIN queue : queue[i] \in Jobs  OBVIOUS
  <2>2. \A j \in Jobs : j.conn \in Conns  BY DEF Jobs
  <2>. QED  BY <2>1, <2>2
<1>5. \A w \in Workers : job'[w] # NoJob => job'[w] = job[w] /\ Conn(w) \in Conns
  BY DEF Conn, Jobs
<1>6. AfterCloseLast'
  <2> HIDE DEF TypeOK
  <2>1. \A i \in DOMAIN queue : queue[i].call = "after_close" =>
            ws'[queue[i].conn] \in {"closed", "gone"} /\ ~Pushes(queue[i].conn)'
    BY <1>3, <1>4 DEF JobsInOrder, AfterCloseLast
  <2>2. ASSUME NEW w \in Workers, job'[w] # NoJob, job'[w].call = "after_close"
        PROVE  /\ ws'[Conn(w)] \in {"closed", "gone"} /\ ~Pushes(Conn(w))'
               /\ \A i \in DOMAIN queue : queue[i].conn # Conn(w)
               /\ Conn(w)' = Conn(w)
    BY <1>3, <1>5, <2>2 DEF JobsInOrder, AfterCloseLast, Conn
  <2>3. \A i, j \in DOMAIN queue : i < j /\ queue[i].call = "after_close" => queue[j].conn # queue[i].conn
    BY DEF JobsInOrder, AfterCloseLast
  <2>. QED  BY <2>1, <2>2, <2>3 DEF AfterCloseLast, Pushes, Conn
<1>. QED  BY <1>2, <1>6 DEF JobsInOrder

\* The events of websocketpp: an event of a connection comes after its
\* handlers were set, and nothing comes after its end.
LEMMA EventKeepsOrder ==
    ASSUME IInv, JobsInOrder, NEW c \in Conns, OnOpen(c) \/ MessageArrives(c) \/ Terminates(c)
    PROVE  JobsInOrder'
<1> USE ConnectionsAssumption DEF IInv, TypeOK, At, Threads
<1>1. /\ UNCHANGED <<wired, queue>> /\ pc[Main] = "loop" /\ job[Main] = NoJob
      /\ \A w \in Workers : pc'[w] = pc[w] /\ job'[w] = job[w]
      /\ \A d \in Conns : ws[d] \in {"closed", "gone"} => ws'[d] = ws[d]
      /\ ws[c] \in {"none", "open", "closing"}
  BY DEF OnOpen, MessageArrives, Terminates, Goto, Dispatch, netVars
<1>2. \/ job'[Main] = NoJob /\ pc'[Main] = "loop"
      \/ job'[Main] = Opening(c) /\ pc'[Main] = "pushOpen" /\ ws[c] = "none"
      \/ /\ job'[Main] = Job(c, "message") \/ job'[Main] = Job(c, "after_close")
         /\ pc'[Main] = "lock" /\ wired[c] # {}
  BY DEF OnOpen, CreateConnected, MessageArrives, Terminates, Opening, Goto, Dispatch
<1>3. CASE job'[Main] = NoJob /\ pc'[Main] = "loop"
  BY <1>1, <1>3, KeepsOrder DEF BeforePush
<1>4. CASE job'[Main] \in {Opening(c), Job(c, "message"), Job(c, "after_close")} /\ pc'[Main] # "loop"
  <2>1. \A d \in Conns : d # c \/ job'[Main] # Opening(c) => (Unopened(d)' => Unopened(d))
    <3> SUFFICES ASSUME NEW d \in Conns, d # c \/ job'[Main] # Opening(c), Unopened(d)'
                 PROVE  Unopened(d)
      OBVIOUS
    <3>1. job'[Main] # Opening(d)  BY <1>4 DEF Opening, Job
    <3>. QED  BY <1>1, <3>1 DEF Unopened
  <2>2. \A d \in Conns : d # c => (Busy(Main, d)' => Busy(Main, d))
    BY <1>4 DEF Busy, Opening, Job
  <2>3. \A d \in Conns : Pushes(d)' => d = c
    BY <1>4 DEF Pushes, Conn, Opening, Job
  <2>4. \A i \in DOMAIN queue : queue[i].call = "after_close" => queue[i].conn # c
    BY <1>1 DEF JobsInOrder, AfterCloseLast
  <2>5. \A w \in Workers : job[w] # NoJob /\ job[w].call = "after_close" => job[w].conn # c
    BY <1>1 DEF JobsInOrder, AfterCloseLast, Conn
  <2>6. \A i \in DOMAIN queue : queue[i].conn \in Conns
    <3>1. \A i \in DOMAIN queue : queue[i] \in Jobs  OBVIOUS
    <3>2. \A j \in Jobs : j.conn \in Conns  BY DEF Jobs
    <3>. QED  BY <3>1, <3>2
  <2>7. \A w \in Workers : job[w] # NoJob => job[w].conn \in Conns
    BY DEF Jobs
  <2>8. AfterCloseLast'
    <3>1. \A i \in DOMAIN queue : queue[i].call = "after_close" =>
             ws'[queue[i].conn] \in {"closed", "gone"} /\ ~Pushes(queue[i].conn)'
      BY <1>1, <2>3, <2>4, <2>6 DEF JobsInOrder, AfterCloseLast
    <3>2. \A w \in Workers : job[w] # NoJob /\ job[w].call = "after_close" =>
             /\ ws'[Conn(w)] \in {"closed", "gone"} /\ ~Pushes(Conn(w))'
             /\ Conn(w)' = Conn(w)
             /\ \A i \in DOMAIN queue : queue[i].conn # Conn(w)
      BY <1>1, <2>3, <2>5, <2>7 DEF JobsInOrder, AfterCloseLast, Conn
    <3>3. \A i, j \in DOMAIN queue : i < j /\ queue[i].call = "after_close" => queue[j].conn # queue[i].conn
      BY DEF JobsInOrder, AfterCloseLast
    <3> HIDE DEF TypeOK
    <3>. QED  BY <1>1, <3>1, <3>2, <3>3 DEF AfterCloseLast, Pushes, Conn
  <2>9. OpeningFirst'
    <3> SUFFICES ASSUME NEW d \in Conns, Unopened(d)'
                 PROVE  /\ wired[d] = {}
                        /\ \A i \in DOMAIN queue : queue[i].conn = d => queue[i].call = "opening"
                        /\ \A t \in Threads : Busy(t, d)' => job'[t].call = "opening"
      BY <1>1 DEF OpeningFirst
    <3>1. CASE d # c
      BY <1>1, <2>1, <2>2, <3>1 DEF JobsInOrder, OpeningFirst, Busy
    <3>2. CASE d = c /\ job'[Main] = Opening(c)
      <4>1. ws[c] = "none"
        BY <1>2, <3>2, ConnectionsAssumption DEF Opening, Job, Jobs
      <4>. QED  BY <1>1, <3>2, <4>1 DEF UnusedInv, Busy, Opening, Job
    <3>3. CASE d = c /\ job'[Main] # Opening(c)
      <4>1. wired[c] # {}
        BY <1>2, <1>4, <3>3 DEF Job, Jobs
      <4>. QED  BY <2>1, <3>3, <4>1 DEF JobsInOrder, OpeningFirst
    <3>. QED  BY <3>1, <3>2, <3>3
  <2>. QED  BY <2>8, <2>9 DEF JobsInOrder
<1>. QED  BY <1>2, <1>3, <1>4

\* The push of a job that the main thread has.
LEMMA PushKeepsOrder ==
    ASSUME IInv, JobsInOrder, PushOpen \/ CallbackPush
    PROVE  JobsInOrder'
<1> USE ConnectionsAssumption DEF IInv, TypeOK, At, Threads
<1>1. CallbackPush => ImplAvailable(Conn(Main))
  <2> SUFFICES ASSUME CallbackPush PROVE ImplAvailable(Conn(Main))
    OBVIOUS
  <2>1. job[Main] \in Jobs /\ job[Main].call \in {"message", "after_close"}
    BY DEF CallbackPush, MainInv, Jobs
  <2>. QED  BY <2>1 DEF CallbackPush, MainInv, Intact, ImplAvailable, InCallback
<1>2. /\ UNCHANGED <<ws, wired>> /\ queue' = Append(queue, job[Main]) /\ job[Main] \in Jobs
      /\ \A w \in Workers : pc'[w] = pc[w] /\ job'[w] = job[w]
      /\ job'[Main] = job[Main] \/ job'[Main] = NoJob
      /\ pc[Main] \in {"pushOpen", "push"} /\ pc'[Main] \in {"loop", "closed"}
      /\ job'[Main] = job[Main] => job[Main].call # "opening"
  BY <1>1 DEF PushOpen, CallbackPush, BackToLoop, Goto, netVars, MainInv
<1> DEFINE c == Conn(Main)
<1>3. Pushes(c) /\ c \in Conns /\ job[Main].conn = c /\ job[Main].call \in {"opening", "message", "after_close"}
  BY <1>2 DEF Pushes, BeforePush, Conn, Jobs
<1>4. \A i \in DOMAIN queue' : \/ i \in DOMAIN queue /\ queue'[i] = queue[i]
                               \/ i = Len(queue) + 1 /\ queue'[i] = job[Main]
  BY <1>2, Appended
<1>5. pc'[Main] \notin BeforePush
  BY <1>2 DEF BeforePush
<1>6. \A i \in DOMAIN queue' : queue'[i].conn \in Conns
  <2>1. \A i \in DOMAIN queue : queue[i] \in Jobs  OBVIOUS
  <2>2. \A j \in Jobs : j.conn \in Conns  BY DEF Jobs
  <2>. QED  BY <1>2, <1>4, <2>1, <2>2
<1>7. job[Main].call = "after_close" => ws[c] = "closed"
  BY <1>2, <1>3 DEF MainInv, InCallback
<1>8. DOMAIN queue = 1 .. Len(queue) /\ Len(queue) \in Nat
  OBVIOUS
<1>9. AfterCloseLast'
  <2>1. \A i, j \in DOMAIN queue' : i < j /\ queue'[i].call = "after_close" => queue'[j].conn # queue'[i].conn
    <3> SUFFICES ASSUME NEW i \in DOMAIN queue', NEW j \in DOMAIN queue', i < j,
                        queue'[i].call = "after_close"
                 PROVE  queue'[j].conn # queue'[i].conn
      OBVIOUS
    <3>1. i \in DOMAIN queue /\ queue'[i] = queue[i]
      BY <1>4, <1>8
    <3>2. queue[i].conn # c
      BY <1>3, <3>1 DEF JobsInOrder, AfterCloseLast
    <3>. QED  BY <1>3, <1>4, <3>1, <3>2 DEF JobsInOrder, AfterCloseLast
  <2>2. \A i \in DOMAIN queue' : queue'[i].call = "after_close" =>
            ws'[queue'[i].conn] \in {"closed", "gone"}
    BY <1>2, <1>3, <1>4, <1>7 DEF JobsInOrder, AfterCloseLast
  <2>3. \A w \in Workers : job[w] # NoJob /\ job[w].call = "after_close" =>
            /\ ws[Conn(w)] \in {"closed", "gone"} /\ Conn(w) # c
            /\ \A i \in DOMAIN queue : queue[i].conn # Conn(w)
            /\ Conn(w)' = Conn(w)
    BY <1>2, <1>3 DEF JobsInOrder, AfterCloseLast, Conn
  <2>4. \A w \in Workers : job[w] # NoJob /\ job[w].call = "after_close" =>
            \A i \in DOMAIN queue' : queue'[i].conn # Conn(w)
    BY <1>3, <1>4, <2>3
  <2> HIDE DEF TypeOK
  <2>. QED  BY <1>2, <1>5, <2>1, <2>2, <2>3, <2>4 DEF AfterCloseLast, Pushes, Conn
<1>10. \A d \in Conns : Unopened(d)' => Unopened(d)
  <2> SUFFICES ASSUME NEW d \in Conns, Unopened(d)' PROVE Unopened(d)
    OBVIOUS
  <2>1. Opening(d) # NoJob  BY DEF Opening, Job, Jobs
  <2>2. CASE job'[Main] = Opening(d)  BY <1>2, <2>1, <2>2 DEF Unopened
  <2>3. CASE \E i \in DOMAIN queue' : queue'[i] = Opening(d)  BY <1>4, <2>3 DEF Unopened
  <2>4. CASE \E w \in Workers : job'[w] = Opening(d) /\ pc'[w] \in BeforeMessages
    BY <1>2, <2>4 DEF Unopened
  <2>. QED  BY <2>2, <2>3, <2>4 DEF Unopened
<1>11. OpeningFirst'
  <2> SUFFICES ASSUME NEW d \in Conns, Unopened(d)'
               PROVE  /\ wired[d] = {}
                      /\ \A i \in DOMAIN queue' : queue'[i].conn = d => queue'[i].call = "opening"
                      /\ \A t \in Threads : Busy(t, d)' => job'[t].call = "opening"
    BY <1>2 DEF OpeningFirst
  <2>1. /\ wired[d] = {}
        /\ \A i \in DOMAIN queue : queue[i].conn = d => queue[i].call = "opening"
        /\ \A t \in Threads : Busy(t, d) => job[t].call = "opening"
    BY <1>10 DEF JobsInOrder, OpeningFirst
  <2>2. c = d => job[Main].call = "opening"
    BY <1>2, <1>3, <2>1 DEF Busy
  <2>3. \A i \in DOMAIN queue' : queue'[i].conn = d => queue'[i].call = "opening"
    BY <1>3, <1>4, <2>1, <2>2
  <2>. QED  BY <1>2, <2>1, <2>3 DEF Busy
<1>. QED  BY <1>9, <1>11 DEF JobsInOrder

\* A worker takes the oldest job.
LEMMA PopKeepsOrder == ASSUME IInv, JobsInOrder, NEW v \in Workers, PopCall(v) PROVE JobsInOrder'
<1> USE ConnectionsAssumption DEF IInv, TypeOK, At, Threads
<1>1. /\ UNCHANGED <<ws, wired>> /\ queue # <<>> /\ queue' = Tail(queue)
      /\ \A t \in Threads : t # v => pc'[t] = pc[t] /\ job'[t] = job[t]
      /\ job'[v] = queue[1] /\ pc'[v] = "check" /\ job[v] = NoJob
  BY DEF PopCall, Goto, netVars
<1>2. /\ 1 \in DOMAIN queue /\ DOMAIN queue = 1 .. Len(queue) /\ Len(queue) \in Nat
      /\ \A i \in DOMAIN queue' : i \in Nat /\ i + 1 \in DOMAIN queue /\ i + 1 > 1 /\ queue'[i] = queue[i + 1]
  BY <1>1
<1>3. queue[1] \in Jobs /\ queue[1].conn \in Conns
  <2>1. queue[1] \in Jobs  BY <1>2
  <2>. QED  BY <2>1 DEF Jobs
<1>4. pc'[Main] = pc[Main] /\ job'[Main] = job[Main]
  BY <1>1
<1>5. \A i \in DOMAIN queue : queue[i].conn \in Conns
  <2>1. \A i \in DOMAIN queue : queue[i] \in Jobs  OBVIOUS
  <2>2. \A j \in Jobs : j.conn \in Conns  BY DEF Jobs
  <2>. QED  BY <2>1, <2>2
<1>6. AfterCloseLast'
  <2>1. \A i, j \in DOMAIN queue' : i < j /\ queue'[i].call = "after_close" => queue'[j].conn # queue'[i].conn
    BY <1>2 DEF JobsInOrder, AfterCloseLast
  <2>2. \A i \in DOMAIN queue : queue[i].call = "after_close" =>
            /\ ws[queue[i].conn] \in {"closed", "gone"} /\ ~Pushes(queue[i].conn)
            /\ \A j \in DOMAIN queue : i < j => queue[j].conn # queue[i].conn
    BY DEF JobsInOrder, AfterCloseLast
  <2>3. ASSUME NEW w \in Workers, job'[w] # NoJob, job'[w].call = "after_close"
        PROVE  /\ ws[job'[w].conn] \in {"closed", "gone"} /\ ~Pushes(job'[w].conn)
               /\ \A i \in DOMAIN queue' : queue'[i].conn # job'[w].conn
    <3>1. CASE w = v
      <4>1. ws[queue[1].conn] \in {"closed", "gone"} /\ ~Pushes(queue[1].conn)
        BY <1>1, <1>2, <2>2, <2>3, <3>1
      <4>2. \A i \in DOMAIN queue : 1 < i => queue[i].conn # queue[1].conn
        BY <1>1, <1>2, <2>2, <2>3, <3>1
      <4>3. \A i \in DOMAIN queue' : queue'[i].conn # queue[1].conn
        BY <1>2, <4>2
      <4>. QED  BY <1>1, <3>1, <4>1, <4>3
    <3>2. CASE w # v
      <4>1. job'[w] = job[w]  BY <1>1, <3>2
      <4>2. /\ ws[job[w].conn] \in {"closed", "gone"} /\ ~Pushes(job[w].conn)
            /\ \A i \in DOMAIN queue : queue[i].conn # job[w].conn
        BY <2>3, <4>1 DEF JobsInOrder, AfterCloseLast, Conn
      <4>. QED  BY <1>2, <4>1, <4>2
    <3>. QED  BY <3>1, <3>2
  <2>4. \A i \in DOMAIN queue' : queue'[i].call = "after_close" =>
            ws[queue'[i].conn] \in {"closed", "gone"} /\ ~Pushes(queue'[i].conn)
    BY <1>2, <2>2
  <2> HIDE DEF TypeOK
  <2>. QED  BY <1>1, <1>4, <2>1, <2>3, <2>4 DEF AfterCloseLast, Pushes, Conn
<1>7. \A d \in Conns : Unopened(d)' => Unopened(d)
  <2> SUFFICES ASSUME NEW d \in Conns, Unopened(d)' PROVE Unopened(d)
    OBVIOUS
  <2>1. CASE job'[Main] = Opening(d)  BY <1>1, <2>1 DEF Unopened
  <2>2. CASE \E i \in DOMAIN queue' : queue'[i] = Opening(d)  BY <1>2, <2>2 DEF Unopened
  <2>3. CASE \E w \in Workers : job'[w] = Opening(d) /\ pc'[w] \in BeforeMessages
    BY <1>1, <1>2, <2>3 DEF Unopened
  <2>. QED  BY <2>1, <2>2, <2>3 DEF Unopened
<1>8. OpeningFirst'
  BY <1>1, <1>2, <1>7 DEF JobsInOrder, OpeningFirst, Busy
<1>. QED  BY <1>6, <1>8 DEF JobsInOrder

\* The opening job installs the callbacks.
LEMMA WireKeepsOrder ==
    ASSUME IInv, JobsInOrder, NEW v \in Workers, SetMessageHandler(v) \/ SetCloseHandler(v)
    PROVE  JobsInOrder'
<1> USE ConnectionsAssumption DEF IInv, TypeOK, At, Threads
<1> DEFINE c == Conn(v)
<1>1. /\ UNCHANGED <<ws, queue, job>>
      /\ \A t \in Threads : t # v => pc'[t] = pc[t]
      /\ pc[v] \in {"setMessage", "setClose"} /\ pc'[v] \in {"setClose", "user"}
      /\ \A d \in Conns : d # c => wired'[d] = wired[d]
  BY DEF SetMessageHandler, SetCloseHandler, Goto, Wire, handlerVars
<1>2. job[v] \in Jobs /\ job[v] = Opening(c) /\ c \in Conns
  <2>1. job[v] \in Jobs /\ job[v].call = "opening"
    BY <1>1 DEF WorkerInv, OpenLabels, BeforeWired
  <2>. QED  BY <2>1 DEF Jobs, Opening, Job, Conn
<1>3. ASSUME NEW d \in Conns, d = c PROVE ~Unopened(d)'
  <2>1. job[v] = Opening(d) /\ pc'[v] \notin BeforeMessages
    BY <1>1, <1>2, <1>3 DEF BeforeMessages, BeforeWired, SetMessageHandler, SetCloseHandler, Goto
  <2>2. job'[Main] # Opening(d) /\ \A i \in DOMAIN queue' : queue'[i] # Opening(d)
    BY <1>1, <2>1 DEF OneOpeningInv, Opening, Job
  <2>3. \A w \in Workers : w # v => job'[w] # Opening(d)
    BY <1>1, <2>1 DEF OneOpeningInv, Opening, Job
  <2>. QED  BY <2>1, <2>2, <2>3 DEF Unopened
<1>4. \A d \in Conns : d # c => (Unopened(d)' => Unopened(d))
  BY <1>1, <1>2 DEF Unopened, Opening, Job
<1>5. OpeningFirst'
  <2> SUFFICES ASSUME NEW d \in Conns, Unopened(d)'
               PROVE  /\ wired'[d] = {}
                      /\ \A i \in DOMAIN queue' : queue'[i].conn = d => queue'[i].call = "opening"
                      /\ \A t \in Threads : Busy(t, d)' => job'[t].call = "opening"
    BY DEF OpeningFirst
  <2>1. d # c /\ Unopened(d)  BY <1>3, <1>4
  <2>. QED  BY <1>1, <2>1 DEF JobsInOrder, OpeningFirst, Busy
<1>6. AfterCloseLast'
  <2> HIDE DEF TypeOK
  <2>1. pc'[Main] = pc[Main]  BY <1>1
  <2>. QED  BY <1>1, <2>1 DEF JobsInOrder, AfterCloseLast, Pushes, Conn
<1>. QED  BY <1>5, <1>6 DEF JobsInOrder

\* Every step of the server keeps the order.
LEMMA NextKeepsOrder == IInv /\ JobsInOrder /\ [Next]_vars => JobsInOrder'
<1> SUFFICES ASSUME IInv, JobsInOrder, [Next]_vars PROVE JobsInOrder'
  OBVIOUS
<1> USE ConnectionsAssumption DEF IInv, TypeOK, At, Goto, Threads, netVars, handlerVars,
        BeforeMessages, BeforeWired, BeforePush
<1>1. CASE UNCHANGED vars  BY <1>1, KeepsOrder DEF vars
<1>2. CASE Network
  <2>1. ASSUME NEW c \in Conns, Expires(c) PROVE JobsInOrder'
    BY <2>1, KeepsOrder DEF Expires
  <2>. QED  BY <1>2, <2>1, EventKeepsOrder DEF Network
<1>3. CASE Callback
  <2>1. ASSUME CallbackLock \/ CallbackFind \/ Closed(Main) PROVE JobsInOrder'
    BY <2>1, KeepsOrder DEF CallbackLock, CallbackFind, Closed
  <2>2. ASSUME RemoveConnected(Main) PROVE JobsInOrder'
    BY <2>2, KeepsOrder DEF RemoveConnected, Leave, BackToLoop
  <2>3. ASSUME DestroyErased(Main) PROVE JobsInOrder'
    BY <2>3, KeepsOrder DEF DestroyErased, Destructor, Leave, BackToLoop
  <2>. QED  BY <1>3, <2>1, <2>2, <2>3, PushKeepsOrder DEF Callback
<1>4. ASSUME NEW v \in Workers, PopCall(v) \/ Work(v) \/ Handler(v)
      PROVE  JobsInOrder'
  <2>1. ASSUME CheckNotClosed(v) \/ Handler(v) \/ LogUse(v) PROVE JobsInOrder'
    BY <2>1, KeepsOrder DEF CheckNotClosed, Handler, HandlerSends, HandlerLogs, HandlerEnds, LogUse
  <2>2. ASSUME OpenLock(v) \/ OpenCheck(v) \/ OpenConnection(v) PROVE JobsInOrder'
    BY <2>2, KeepsOrder DEF OpenLock, OpenCheck, OpenConnection
  <2>3. ASSUME Send(v) PROVE JobsInOrder'
    BY <2>3, KeepsOrder DEF Send, SendLock, SendCheck, SendImpl
  <2>4. ASSUME Closed(v) PROVE JobsInOrder'
    BY <2>4, KeepsOrder DEF Closed
  <2>5. ASSUME RemoveConnected(v) PROVE JobsInOrder'
    BY <2>5, KeepsOrder DEF RemoveConnected, Leave
  <2>6. ASSUME ReleaseData(v) PROVE JobsInOrder'
    BY <2>6, KeepsOrder DEF ReleaseData, Destructor
  <2>. QED
    BY <1>4, <2>1, <2>2, <2>3, <2>4, <2>5, <2>6, PopKeepsOrder, WireKeepsOrder DEF Work, OpenJob
<1>. QED  BY <1>1, <1>2, <1>3, <1>4 DEF Next, Stopped

\* The jobs of a connection are queued and taken in their order, opening,
\* messages, after_close, for any number of connections, messages and workers
\* (which may then run beside each other).
THEOREM JobsComeInOrder == Spec => []JobsInOrder
<1>1. Init => JobsInOrder
  <2> SUFFICES ASSUME Init PROVE JobsInOrder
    OBVIOUS
  <2>1. (\A t \in Threads : job[t] = NoJob) /\ DOMAIN queue = {}  BY DEF Init
  <2>2. \A c \in Conns : Opening(c) # NoJob  BY ConnectionsAssumption DEF Opening, Job, Jobs
  <2>. QED  BY <2>1, <2>2 DEF JobsInOrder, OpeningFirst, AfterCloseLast, Unopened, Threads
<1>. QED  BY <1>1, NextKeepsOrder, Invariance, PTL DEF Spec

-----------------------------------------------------------------------------
(* shared_ptrs: handlers are neither destroyed early nor leaked *)

\* Steps that leave the queue, the map and the workers' jobs as they are.
LEMMA KeepsShared ==
    ASSUME LivesWhileShared, UNCHANGED <<handler, connected, queue>>,
           \A w \in Workers : job'[w] = job[w],
           \A c \in Conns : MainShares(c)' => MainShares(c) \/ c \in connected,
           \A c \in Conns : MainShares(c) => MainShares(c)' \/ c \in connected
    PROVE  LivesWhileShared'
  BY DEF LivesWhileShared, Shared, Queued, Busy

\* A push hands the shared_ptr of the main thread to the queue.
LEMMA PushKeepsShared ==
    ASSUME IInv, LivesWhileShared, PushOpen \/ CallbackPush
    PROVE  LivesWhileShared'
<1> USE ConnectionsAssumption DEF IInv, TypeOK, At, Goto, Threads
<1>1. /\ UNCHANGED <<handler, connected>> /\ \A w \in Workers : job'[w] = job[w]
      /\ job[Main] \in Jobs /\ pc[Main] \in {"pushOpen", "push"} /\ pc'[Main] \in {"loop", "closed"}
      /\ queue' = queue \/ queue' = Append(queue, job[Main])
      /\ PushOpen => queue' = Append(queue, job[Main])
  BY DEF PushOpen, CallbackPush, BackToLoop, handlerVars
<1>2. SUFFICES ASSUME NEW d \in Conns PROVE Shared(d)' <=> Shared(d)
  BY <1>1 DEF LivesWhileShared
<1>3. ~MainShares(d)' /\ (MainShares(d) <=> job[Main].conn = d)
  BY <1>1 DEF MainShares
<1>4. CASE job[Main].conn # d
  <2>1. CASE queue' = queue  BY <1>1, <1>3, <1>4, <2>1 DEF Shared, Queued, Busy
  <2>2. CASE queue' = Append(queue, job[Main])
    <3>1. \A i \in DOMAIN queue' : queue'[i].conn = d => i \in DOMAIN queue /\ queue'[i] = queue[i]
      BY <1>1, <1>4, <2>2, Appended
    <3>2. \A i \in DOMAIN queue : i \in DOMAIN queue' /\ queue'[i] = queue[i]
      BY <1>1, <2>2
    <3>3. Queued(d)' <=> Queued(d)  BY <3>1, <3>2 DEF Queued
    <3>. QED  BY <1>1, <1>3, <1>4, <3>3 DEF Shared, Busy
  <2>. QED  BY <1>1, <2>1, <2>2
<1>5. CASE job[Main].conn = d
  <2>1. CASE CallbackPush
    <3>1. d \in connected  BY <1>5, <2>1 DEF CallbackPush, MainInv, Intact, Conn
    <3>. QED  BY <1>1, <3>1 DEF Shared
  <2>2. CASE PushOpen
    <3>1. queue' = Append(queue, job[Main])  BY <1>1, <2>2
    <3>2. Len(queue) + 1 \in DOMAIN queue' /\ queue'[Len(queue) + 1] = job[Main]
      BY <1>1, <3>1
    <3>3. Queued(d)'  BY <1>5, <3>2 DEF Queued
    <3>. QED  BY <1>3, <1>5, <3>3 DEF Shared
  <2>. QED  BY <2>1, <2>2
<1>. QED  BY <1>4, <1>5

\* The main thread takes the local `connected' of a registered handler only,
\* and erases it from the map; then it alone destroys it, or somebody else
\* has a shared_ptr still.
LEMMA MainKeepsShared == ASSUME IInv, LivesWhileShared, Callback PROVE LivesWhileShared'
<1> USE ConnectionsAssumption DEF IInv, TypeOK, At, Goto, Threads, Conn
<1>1. CASE CallbackLock \/ CallbackFind \/ Closed(Main)
  <2>1. /\ UNCHANGED <<handler, connected, queue, job>>
        /\ pc[Main] \in {"lock", "find", "closed"}
        /\ pc'[Main] \in {"pushOpen", "push", "destroy"} => pc'[Main] = "push" /\ job[Main].conn \in connected
    BY <1>1 DEF CallbackLock, CallbackFind, Closed, netVars, handlerVars
  <2>2. \A c \in Conns : ~MainShares(c) /\ (MainShares(c)' => c \in connected)
    BY <2>1 DEF MainShares
  <2>. QED  BY <2>1, <2>2, KeepsShared
<1>2. CASE RemoveConnected(Main)
  <2>1. /\ UNCHANGED <<handler, queue>> /\ pc[Main] = "remove" /\ job[Main] # NoJob
        /\ \A w \in Workers : job'[w] = job[w]
        /\ connected' = connected \ {job[Main].conn} /\ job[Main].conn \in connected
    BY <1>2 DEF RemoveConnected, MainInv, Leave, BackToLoop
  <2>2. \/ /\ ~Referenced(job[Main].conn, {Main})
           /\ pc'[Main] = "destroy" /\ job'[Main] = job[Main]
        \/ /\ Referenced(job[Main].conn, {Main})
           /\ pc'[Main] = "loop" /\ job'[Main] = NoJob
    <3>1. {Main} \ Workers = {Main}  OBVIOUS
    <3>. QED  BY <1>2, <2>1, <3>1 DEF RemoveConnected, Leave, BackToLoop
  <2>3. SUFFICES ASSUME NEW d \in Conns PROVE Shared(d)' <=> Shared(d)
    BY <2>1 DEF LivesWhileShared
  <2>4. ~MainShares(d)  BY <2>1 DEF MainShares
  <2>5. Queued(d)' = Queued(d) /\ \A w \in Workers : Busy(w, d)' = Busy(w, d)
    BY <2>1 DEF Queued, Busy
  <2>6. CASE job[Main].conn # d
    <3>1. ~MainShares(d)'  BY <2>2, <2>6 DEF MainShares
    <3>. QED  BY <2>1, <2>4, <2>5, <2>6, <3>1 DEF Shared
  <2>7. CASE job[Main].conn = d
    <3>1. Shared(d)  BY <2>1, <2>7 DEF Shared
    <3>2. CASE pc'[Main] = "destroy"
      BY <2>1, <2>2, <2>7, <3>1, <3>2 DEF Shared, MainShares
    <3>3. CASE Referenced(d, {Main})
      <4>1. Queued(d) \/ \E w \in Workers : Busy(w, d)  BY <3>3 DEF Referenced, Queued
      <4>. QED  BY <2>5, <3>1, <4>1 DEF Shared
    <3>. QED  BY <2>2, <2>7, <3>2, <3>3
  <2>. QED  BY <2>6, <2>7
<1>3. CASE DestroyErased(Main)
  <2>1. /\ UNCHANGED <<connected, queue>> /\ pc[Main] = "destroy" /\ pc'[Main] = "loop"
        /\ job[Main] # NoJob /\ job'[Main] = NoJob /\ \A w \in Workers : job'[w] = job[w]
        /\ handler' = [handler EXCEPT ![job[Main].conn] = "destroyed"]
    BY <1>3 DEF DestroyErased, Destructor, Leave, BackToLoop
  <2>2. SUFFICES ASSUME NEW d \in Conns PROVE handler'[d] = "alive" <=> Shared(d)'
    BY DEF LivesWhileShared
  <2>3. /\ Queued(d)' = Queued(d) /\ \A w \in Workers : Busy(w, d)' = Busy(w, d)
        /\ ~MainShares(d)'
    BY <2>1 DEF Queued, Busy, MainShares
  <2>4. CASE job[Main].conn = d
    <3>1. d \notin connected /\ ~Queued(d) /\ \A w \in Workers : ~Busy(w, d)
      BY <2>1, <2>4 DEF MainInv, Queued
    <3>. QED  BY <2>1, <2>3, <2>4, <3>1 DEF Shared
  <2>5. CASE job[Main].conn # d
    <3>1. ~MainShares(d)  BY <2>5 DEF MainShares
    <3>. QED  BY <2>1, <2>3, <2>5, <3>1 DEF LivesWhileShared, Shared
  <2>. QED  BY <2>4, <2>5
<1>. QED  BY <1>1, <1>2, <1>3, PushKeepsShared DEF Callback

\* A worker's `data' takes over the shared_ptr of the queue, and dropping it
\* runs the destructor when it is the last one.
LEMMA WorkerKeepsShared ==
    ASSUME IInv, LivesWhileShared, NEW v \in Workers, PopCall(v) \/ ReleaseData(v)
    PROVE  LivesWhileShared'
<1> USE ConnectionsAssumption DEF IInv, TypeOK, At, Goto, Threads, Conn
<1>1. UNCHANGED connected /\ pc'[Main] = pc[Main] /\ job'[Main] = job[Main]
      /\ \A w \in Workers \ {v} : job'[w] = job[w]
  BY DEF PopCall, ReleaseData, handlerVars
<1>2. \A c \in Conns : /\ MainShares(c)' = MainShares(c)
                       /\ \A w \in Workers \ {v} : Busy(w, c)' = Busy(w, c)
  BY <1>1 DEF MainShares, Busy
<1>3. CASE PopCall(v)
  <2>1. /\ UNCHANGED handler /\ job[v] = NoJob /\ job'[v] = queue[1]
        /\ queue # <<>> /\ queue' = Tail(queue)
    BY <1>3 DEF PopCall, handlerVars
  <2>2. /\ 1 \in DOMAIN queue /\ queue[1] \in Jobs /\ queue[1] # NoJob
        /\ \A i \in DOMAIN queue' : i + 1 \in DOMAIN queue /\ queue'[i] = queue[i + 1]
        /\ \A i \in DOMAIN queue : i = 1 \/ (i - 1 \in DOMAIN queue' /\ queue[i] = queue'[i - 1])
    BY <2>1
  <2>3. SUFFICES ASSUME NEW d \in Conns PROVE Shared(d)' <=> Shared(d)
    BY <2>1 DEF LivesWhileShared
  <2>4. ~Busy(v, d) /\ (Busy(v, d)' <=> queue[1].conn = d)
    BY <2>1, <2>2 DEF Busy
  <2>5. Queued(d) <=> queue[1].conn = d \/ Queued(d)'
    BY <2>2 DEF Queued
  <2>. QED  BY <1>1, <1>2, <2>4, <2>5 DEF Shared
<1>4. CASE ReleaseData(v)
  <2>1. UNCHANGED queue /\ job[v] \in Jobs /\ job[v] # NoJob /\ job'[v] = NoJob /\ pc[v] = "release"
    BY <1>4 DEF ReleaseData
  <2>2. SUFFICES ASSUME NEW d \in Conns PROVE handler'[d] = "alive" <=> Shared(d)'
    BY DEF LivesWhileShared
  <2>3. Queued(d)' = Queued(d) /\ ~Busy(v, d)' /\ (Busy(v, d) <=> job[v].conn = d)
    BY <2>1 DEF Queued, Busy
  <2>4. Shared(d)' <=> d \in connected \/ Queued(d) \/ MainShares(d) \/ \E w \in Workers \ {v} : Busy(w, d)
    BY <1>1, <1>2, <2>3 DEF Shared
  <2>5. CASE job[v].conn # d
    <3>1. handler'[d] = handler[d]  BY <1>4, <2>5 DEF ReleaseData, Destructor
    <3>. QED  BY <2>3, <2>4, <2>5, <3>1 DEF LivesWhileShared, Shared
  <2>6. CASE job[v].conn = d
    <3>1. handler[d] = "alive" /\ Busy(v, d)
      BY <2>3, <2>6 DEF LivesWhileShared, Shared
    <3>2. ~(pc[Main] = "destroy" /\ job[Main].conn = d)
      BY <3>1 DEF MainInv
    <3>3. d \in connected \/ Referenced(d, {v}) <=>
             d \in connected \/ Queued(d) \/ MainShares(d) \/ \E w \in Workers \ {v} : Busy(w, d)
      BY <3>2 DEF Referenced, Queued, MainShares, Busy
    <3>4. handler'[d] = IF d \in connected \/ Referenced(d, {v}) THEN "alive" ELSE "destroyed"
      BY <1>4, <2>6, <3>1 DEF ReleaseData, Destructor
    <3>. QED  BY <2>4, <3>3, <3>4
  <2>. QED  BY <2>5, <2>6
<1>. QED  BY <1>3, <1>4

\* Every step of the server keeps it.
LEMMA NextShared == IInv /\ LivesWhileShared /\ [Next]_vars => LivesWhileShared'
<1> SUFFICES ASSUME IInv, LivesWhileShared, [Next]_vars PROVE LivesWhileShared'
  OBVIOUS
<1> USE ConnectionsAssumption DEF IInv, TypeOK, At, Goto, Threads, Conn, netVars, handlerVars
<1>1. CASE UNCHANGED vars
  BY <1>1 DEF vars, LivesWhileShared, Shared, Queued, MainShares, Busy
<1>2. ASSUME NEW c \in Conns, OnOpen(c) PROVE LivesWhileShared'
  <2>1. UNCHANGED queue /\ pc[Main] = "loop" /\ \A w \in Workers : job'[w] = job[w]
    BY <1>2 DEF OnOpen, Dispatch
  <2>2. CASE UNCHANGED <<handler, connected, job, pc>>
    BY <2>1, <2>2, KeepsShared DEF MainShares
  <2>3. CASE CreateConnected(c) /\ Dispatch(c, "opening", "pushOpen")
    <3>1. \A d \in Conns : ~MainShares(d) /\ (MainShares(d)' => d = c)
      BY <2>1, <2>3 DEF MainShares, Dispatch, Job
    <3>. QED  BY <2>1, <2>3, <3>1 DEF CreateConnected, LivesWhileShared, Shared, Queued, Busy
  <2>. QED  BY <1>2, <2>2, <2>3 DEF OnOpen
<1>3. ASSUME NEW c \in Conns, MessageArrives(c) \/ Terminates(c) \/ Expires(c)
      PROVE  LivesWhileShared'
  <2>1. /\ UNCHANGED <<handler, connected, queue>> /\ \A w \in Workers : job'[w] = job[w]
        /\ \/ job'[Main] = job[Main] /\ pc'[Main] = pc[Main]
           \/ pc[Main] = "loop" /\ pc'[Main] = "lock"
    BY <1>3 DEF MessageArrives, Terminates, Expires, Dispatch
  <2>. QED  BY <2>1, KeepsShared DEF MainShares
<1>4. ASSUME NEW v \in Workers, PopCall(v) \/ Work(v) \/ Handler(v)
      PROVE  LivesWhileShared'
  <2>1. CASE PopCall(v) \/ ReleaseData(v)  BY <2>1, WorkerKeepsShared
  <2>2. CASE RemoveConnected(v)
    \* its `data' is a shared_ptr
    <3>1. Busy(v, Conn(v)) /\ {v} \ Workers = {}
      BY <2>2 DEF RemoveConnected, Busy
    <3>2. Referenced(Conn(v), {v} \ Workers)
      BY <3>1 DEF Referenced
    <3>3. /\ UNCHANGED <<handler, queue, job>> /\ pc'[Main] = pc[Main]
          /\ connected' = connected \ {job[v].conn}
      BY <2>2, <3>2 DEF RemoveConnected, Leave
    <3>4. \A d \in Conns : MainShares(d)' = MainShares(d) /\ (d # job[v].conn => (d \in connected' <=> d \in connected))
      BY <3>3 DEF MainShares
    <3>. QED  BY <3>1, <3>3, <3>4 DEF LivesWhileShared, Shared, Queued, Busy
  <2>3. CASE Closed(v) \/ CheckNotClosed(v) \/ OpenJob(v) \/ Send(v) \/ LogUse(v) \/ Handler(v)
    <3>1. UNCHANGED <<handler, connected, queue, job>> /\ pc'[Main] = pc[Main]
      BY <2>3 DEF Closed, CheckNotClosed, OpenJob, OpenLock, OpenCheck, OpenConnection,
         SetMessageHandler, SetCloseHandler, Send, SendLock, SendCheck, SendImpl, LogUse,
         Handler, HandlerSends, HandlerLogs, HandlerEnds
    <3>. QED  BY <3>1, KeepsShared DEF MainShares
  <2>. QED  BY <1>4, <2>1, <2>2, <2>3 DEF Work
<1>. QED  BY <1>1, <1>2, <1>3, <1>4, MainKeepsShared DEF Next, Network, Stopped

\* No handler is destroyed while the map, the queue or a thread shares it, and
\* none is left alive when nobody does, for any number of connections and
\* workers.
THEOREM DestroyedWithLastShare == Spec => []LivesWhileShared
<1>1. Init => LivesWhileShared
  <2> SUFFICES ASSUME Init, NEW c \in Conns PROVE ~Shared(c) /\ handler[c] = "none"
    BY DEF LivesWhileShared
  <2>1. (\A t \in Threads : job[t] = NoJob) /\ DOMAIN queue = {}  BY DEF Init
  <2>. QED  BY <2>1 DEF Init, Shared, Queued, MainShares, Busy, Threads
<1>. QED  BY <1>1, NextShared, Invariance, PTL DEF Spec
=============================================================================
