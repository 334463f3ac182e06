------------------------ MODULE WsppLifecycleProofs ------------------------
(***************************************************************************)
(* Proofs about WsppLifecycle for every number of threads.                 *)
(***************************************************************************)
EXTENDS WsppLifecycle, FiniteSetTheorems, TLAPS

AllComplete == \A k \in Slots : object[k] = "complete"

\* Until the server has its port there are no threads, and an attempt is left
\* when it sleeps.
ListenInv ==
    /\ phase = "sleep" => attempt < MaxAttempts
    /\ phase = "exit(1)" => attempt = MaxAttempts
    /\ phase \in {"settings", "constructed", "listen", "sleep", "exit(1)"} =>
          \A k \in Slots : thread[k] = "none"

\* Jobs come from connections, connections from start_accept, and that waits
\* for all the objects.
JobInv ==
    /\ phase \in {"running", "returned", "destroying", "return 0"} => AllComplete
    /\ jobs # 0 => AllComplete
    /\ \A k \in Slots : thread[k] = "working" => AllComplete

\* Only ~Wspp deletes the log.
DestroyInv == log = "deleted" => phase \in {"destroying", "return 0", "terminated", "crashed"}

IInv == TypeOK /\ ListenInv /\ JobInv /\ DestroyInv /\ AcceptsWithCertificate

\* The server starts with no object and no thread.
LEMMA InitIInv == Init => IInv
<1> SUFFICES ASSUME Init PROVE IInv
  OBVIOUS
<1>1. TypeOK
  <2>1. attempt \in 1 .. MaxAttempts /\ connections \in 0 .. MaxConnections /\ jobs \in 0 .. MaxJobs
    BY LifecycleAssumption DEF Init, MaxAttempts
  <2>. QED  BY <2>1 DEF Init, TypeOK
<1>2. ListenInv  BY DEF Init, ListenInv
<1>3. JobInv /\ DestroyInv /\ AcceptsWithCertificate
  BY DEF Init, JobInv, DestroyInv, AcceptsWithCertificate
<1>. QED  BY <1>1, <1>2, <1>3 DEF IInv

\* Every step of the process keeps the invariant.
LEMMA NextIInv == IInv /\ [Next]_vars => IInv'
<1> SUFFICES ASSUME IInv, [Next]_vars PROVE IInv'
  OBVIOUS
<1> USE LifecycleAssumption DEF IInv, TypeOK, ListenInv, JobInv, DestroyInv, AcceptsWithCertificate,
        AllComplete, MaxAttempts, threadVars, clientVars
<1>1. CASE SetupLogging \/ Run
  <2>1. CASE SetupLogging
    <3>1. log' \in {log, "cout", "cerr", "stream"} /\ phase' \in {"terminated", "constructed"}
      BY <2>1 DEF SetupLogging
    <3>2. phase \in {"settings", "constructed"}
          /\ UNCHANGED <<attempt, keys, context, threadVars, clientVars>>
      BY <2>1 DEF SetupLogging
    <3>3. TypeOK'  BY <3>1, <3>2
    <3>4. ListenInv' /\ JobInv'  BY <3>1, <3>2
    <3>5. DestroyInv' /\ AcceptsWithCertificate'  BY <3>1, <3>2
    <3>. QED  BY <3>3, <3>4, <3>5
  <2>2. CASE Run  BY <2>2 DEF Run
  <2>. QED  BY <1>1, <2>1, <2>2
<1>2. CASE Listen  BY <1>2 DEF Listen
<1>3. CASE ListenFails  BY <1>3 DEF ListenFails, ListenRest
<1>4. CASE SleptFor3s  BY <1>4 DEF SleptFor3s, ListenRest
<1>5. CASE StartThread
  \* some object is missing, so there are no jobs yet
  <2>1. ~AllComplete  BY <1>5 DEF StartThread, Started
  <2>. QED  BY <1>5, <2>1 DEF StartThread
<1>6. CASE StartAccept  BY <1>6 DEF StartAccept, OnTlsInit
<1>7. ASSUME NEW k \in Slots, BeginDerived(k) \/ CompleteObject(k) PROVE IInv'
  <2>1. CASE BeginDerived(k)
    <3>1. ~AllComplete  BY <2>1 DEF BeginDerived
    <3>. QED  BY <2>1, <3>1 DEF BeginDerived, ObjectRest
  <2>2. CASE CompleteObject(k)  BY <2>2 DEF CompleteObject, ObjectRest
  <2>. QED  BY <1>7, <2>1, <2>2
<1>8. CASE Accept
  <2>1. phase = "running" /\ phase' \in {"running", "terminated"}
        /\ UNCHANGED <<attempt, log, keys, threadVars, listening, jobs>>
    BY <1>8 DEF Accept, OnTlsInit
  <2>2. context' \in {"none", "made", "bare"} /\ (phase' = "running" => context' = "made")
    BY <1>8 DEF Accept, OnTlsInit
  <2>3. connections' \in 0 .. MaxConnections
    <3>1. connections \in 0 .. MaxConnections /\ connections < MaxConnections
          /\ connections' = connections + 1
      BY <1>8 DEF Accept
    <3>. HIDE DEF IInv
    <3>. QED  BY <3>1, LifecycleAssumption
  <2>4. TypeOK'  BY <2>1, <2>2, <2>3
  <2>5. ListenInv' /\ JobInv'  BY <2>1
  <2>6. DestroyInv' /\ AcceptsWithCertificate'  BY <2>1, <2>2
  <2>. QED  BY <2>4, <2>5, <2>6
<1>9. CASE ClientEvent  BY <1>9 DEF ClientEvent
<1>10. CASE StopListening \/ RunReturns  BY <1>10 DEF StopListening, RunReturns
<1>11. CASE DeleteLog \/ DestroyThreads \/ KeysChange
  <2>1. CASE DeleteLog  BY <2>1 DEF DeleteLog
  <2>2. CASE DestroyThreads  BY <2>2 DEF DestroyThreads
  <2>3. CASE KeysChange
    <3>1. keys' \in BOOLEAN  BY <2>3 DEF KeysChange
    <3>. QED  BY <2>3, <3>1 DEF KeysChange
  <2>. QED  BY <1>11, <2>1, <2>2, <2>3
<1>12. ASSUME NEW k \in Slots, Initialize(k) PROVE IInv'
  <2>1. phase' \in {phase, "terminated"} /\ Alive
        /\ UNCHANGED <<attempt, log, keys, context, object, clientVars>>
    BY <1>12 DEF Initialize
  <2>2. thread' \in [Slots -> {"none", "started", "waiting", "working"}]
        /\ initialized' \in [Slots -> {"no", "base", "derived"}]
    BY <1>12 DEF Initialize
  <2>3. \A j \in Slots : /\ thread'[j] = "working" <=> thread[j] = "working"
                         /\ thread'[j] = "none" <=> thread[j] = "none"
    BY <1>12 DEF Initialize
  <2>4. TypeOK'  BY <2>1, <2>2
  <2>5. ListenInv' /\ JobInv'  BY <2>1, <2>3 DEF Alive
  <2>6. DestroyInv' /\ AcceptsWithCertificate'  BY <2>1, <2>3 DEF Alive
  <2>. QED  BY <2>4, <2>5, <2>6
<1>13. ASSUME NEW k \in Slots, TakeJob(k) PROVE IInv'
  <2>1. jobs # 0 /\ jobs' \in 0 .. MaxJobs
    <3>1. jobs \in 0 .. MaxJobs /\ jobs > 0 /\ jobs' = jobs - 1  BY <1>13 DEF TakeJob
    <3>. HIDE DEF IInv
    <3>. QED  BY <3>1, LifecycleAssumption
  <2>2. thread' \in [Slots -> {"none", "started", "waiting", "working"}]  BY <1>13 DEF TakeJob
  <2>3. TypeOK'  BY <1>13, <2>1, <2>2 DEF TakeJob
  <2>4. ListenInv' /\ DestroyInv' /\ AcceptsWithCertificate'  BY <1>13 DEF TakeJob, Alive
  <2>5. JobInv'  BY <1>13, <2>1 DEF TakeJob
  <2>. QED  BY <2>3, <2>4, <2>5
<1>14. ASSUME NEW k \in Slots, WriteNoLog(k) PROVE IInv'
  BY <1>14 DEF WriteNoLog, Alive
<1>15. ASSUME NEW k \in Slots, EndJob(k) PROVE IInv'
  BY <1>15 DEF EndJob, Alive
<1>16. CASE UNCHANGED vars
  <2>1. TypeOK'  BY <1>16 DEF vars
  <2>2. ListenInv' /\ JobInv'  BY <1>16 DEF vars
  <2>3. DestroyInv' /\ AcceptsWithCertificate'  BY <1>16 DEF vars
  <2>. QED  BY <2>1, <2>2, <2>3
<1>. QED
  BY <1>1, <1>2, <1>3, <1>4, <1>5, <1>6, <1>7, <1>8, <1>9, <1>10, <1>11, <1>12, <1>13,
     <1>14, <1>15, <1>16
     DEF Next, StartUp, Serving, Ended

\* The inductive invariant holds in every reachable state.
THEOREM Invariance == Spec => []IInv
  BY InitIInv, NextIInv, PTL DEF Spec

\* Every variable keeps its type.
THEOREM TypeCorrect == Spec => []TypeOK
  BY Invariance, PTL DEF IInv

\* No job reaches a worker before all WsppThread objects are complete.
THEOREM JobsWaitForObjects == Spec => []JobsFindCompleteObjects
<1>1. IInv => JobsFindCompleteObjects
  BY DEF IInv, JobInv, AllComplete, JobsFindCompleteObjects
<1>. QED  BY <1>1, Invariance, PTL

\* exit(1) happens after the thirtieth attempt, with no thread started.
THEOREM ExitsAlone == Spec => []ExitsAloneAfter30
<1>1. IInv => ExitsAloneAfter30  BY DEF IInv, ListenInv, ExitsAloneAfter30
<1>. QED  BY <1>1, Invariance, PTL

\* No client is let in without a certificate.
THEOREM ClientsMeetCertificate == Spec => []AcceptsWithCertificate
  BY Invariance, PTL DEF IInv

\* What is left of log_send_receive_ by a step: a stream once set stays one
\* until ~Wspp.
LEMMA LogStep ==
  ASSUME IInv, [Next]_vars
  PROVE  /\ log # "null" /\ phase # "returned" => log' \in {"cout", "cerr", "stream", log}
         /\ phase = "running" /\ phase' = "crashed" => log = "null"
<1> USE DEF threadVars, clientVars
<1>1. CASE SetupLogging \/ Run  BY <1>1 DEF SetupLogging, Run
<1>2. CASE StartUp
  BY <1>2 DEF StartUp, Listen, ListenFails, SleptFor3s, StartThread, StartAccept, BeginDerived,
              CompleteObject, ObjectRest, ListenRest
<1>3. CASE Serving
  BY <1>3 DEF Serving, Accept, ClientEvent, StopListening, RunReturns, OnTlsInit
<1>4. CASE DeleteLog \/ DestroyThreads \/ KeysChange
  BY <1>4 DEF DeleteLog, DestroyThreads, KeysChange
<1>5. ASSUME NEW k \in Slots, Initialize(k) \/ TakeJob(k) \/ EndJob(k)
      PROVE  log' = log /\ ~(phase = "running" /\ phase' = "crashed")
  BY <1>5 DEF Initialize, TakeJob, EndJob
<1>6. ASSUME NEW k \in Slots, WriteNoLog(k)
      PROVE  log' = log /\ (phase = "running" => log = "null")
  BY <1>6 DEF WriteNoLog, IInv, DestroyInv
<1>7. CASE UNCHANGED vars  BY <1>7 DEF vars
<1>. QED  BY <1>1, <1>2, <1>3, <1>4, <1>5, <1>6, <1>7 DEF Next, Ended

\* A log that was set is there for every job until ~Wspp deletes it.
THEOREM LogOutlivesJobs == Spec => LogStaysUntilDestroyed
<1>1. IInv /\ [Next]_vars =>
        [log # "null" /\ phase # "returned" => log' \in {"cout", "cerr", "stream", log}]_vars
  BY LogStep
<1>2. IInv /\ [Next]_vars =>
        [phase = "running" /\ phase' = "crashed" => log = "null"]_vars
  BY LogStep
<1>. QED  BY <1>1, <1>2, Invariance, PTL DEF Spec, LogStaysUntilDestroyed

-----------------------------------------------------------------------------
(* The start of the threads *)

NumberOfSlots == IF NumberOfThreads > 0 THEN NumberOfThreads ELSE 4

\* Threads::start makes the objects one after the other, each slot once, with
\* a thread each; only the last one can be under construction.  A thread that
\* waits for jobs has called initialize().
StartedInTurn ==
    /\ \E n \in 0 .. NumberOfSlots : Started = 1 .. n
    /\ \A k \in Slots : object[k] \in {"base", "derived"} => Started = 1 .. k
    /\ \A k \in Slots : thread[k] = "none" <=> object[k] = "none"
    /\ \A k \in Slots : thread[k] \in {"waiting", "working"} => initialized[k] # "no"

\* The next slot is there, and free, and it is the next.
LEMMA NextSlotIsNext ==
    ASSUME NEW n \in 0 .. NumberOfSlots, Started = 1 .. n, Started # Slots
    PROVE  /\ NextSlot = n + 1 /\ n + 1 \in Slots /\ n + 1 \in 0 .. NumberOfSlots
           /\ n + 1 \notin Started /\ (1 .. n) \cup {n + 1} = 1 .. (n + 1)
<1>1. NumberOfSlots \in Nat /\ Slots = 1 .. NumberOfSlots
  BY LifecycleAssumption DEF Slots, NumberOfSlots
<1>2. n \in Nat /\ n < NumberOfSlots  BY <1>1
<1>3. Cardinality(1 .. n) = n  BY <1>2, FS_Interval
<1>. QED  BY <1>1, <1>2, <1>3 DEF NextSlot

\* Every step of the process keeps it.
LEMMA NextStartedInTurn == IInv /\ StartedInTurn /\ [Next]_vars => StartedInTurn'
<1> SUFFICES ASSUME IInv, StartedInTurn, [Next]_vars PROVE StartedInTurn'
  OBVIOUS
<1> USE DEF IInv, TypeOK, threadVars, clientVars
<1>1. CASE UNCHANGED threadVars  BY <1>1 DEF StartedInTurn, Started
<1>2. CASE StartThread
  <2>1. CASE UNCHANGED <<object, thread, initialized>>  BY <1>1, <2>1
  <2>2. CASE /\ object' = [object EXCEPT ![NextSlot] = "base"]
             /\ thread' = [thread EXCEPT ![NextSlot] = "started"]
    <3>1. PICK n \in 0 .. NumberOfSlots : Started = 1 .. n  BY DEF StartedInTurn
    <3>2. /\ NextSlot = n + 1 /\ n + 1 \in Slots /\ n + 1 \in 0 .. NumberOfSlots
          /\ n + 1 \notin Started /\ (1 .. n) \cup {n + 1} = 1 .. (n + 1)
      BY <1>2, <3>1, NextSlotIsNext DEF StartThread
    <3>3. Started' = Started \cup {n + 1}
      BY <2>2, <3>2 DEF Started
    <3>4. Started' = 1 .. (n + 1) /\ n + 1 \in 0 .. NumberOfSlots  BY <3>1, <3>2, <3>3
    <3>5. \A k \in Slots : object'[k] \in {"base", "derived"} => k = n + 1
      BY <1>2, <2>2, <3>2 DEF StartThread, Started
    <3>. QED  BY <1>2, <2>2, <3>2, <3>4, <3>5 DEF StartedInTurn, StartThread
  <2>. QED  BY <1>2, <2>1, <2>2 DEF StartThread
<1>3. ASSUME NEW k \in Slots, BeginDerived(k) \/ CompleteObject(k) PROVE StartedInTurn'
  <2>1. Started' = Started /\ UNCHANGED <<thread, initialized>>
    BY <1>3 DEF BeginDerived, CompleteObject, ObjectRest, Started
  <2>2. \A j \in Slots : /\ object'[j] = "none" <=> object[j] = "none"
                         /\ object'[j] \in {"base", "derived"} => object[j] \in {"base", "derived"}
    BY <1>3 DEF BeginDerived, CompleteObject, ObjectRest
  <2>. QED  BY <2>1, <2>2 DEF StartedInTurn
<1>4. ASSUME NEW k \in Slots, Initialize(k) \/ TakeJob(k) \/ EndJob(k) PROVE StartedInTurn'
  <2>1. /\ object' = object /\ Started' = Started
        /\ \A j \in Slots : thread'[j] = "none" <=> thread[j] = "none"
        /\ \A j \in Slots : thread'[j] \in {"waiting", "working"} /\ initialized'[j] = "no" =>
              thread[j] \in {"waiting", "working"} /\ initialized[j] = "no"
    BY <1>4 DEF Initialize, TakeJob, EndJob, Started
  <2>. QED  BY <2>1 DEF StartedInTurn
<1>5. ASSUME NEW k \in Slots, WriteNoLog(k) PROVE StartedInTurn'
  BY <1>1, <1>5 DEF WriteNoLog
<1>6. CASE SetupLogging \/ Run \/ Listen \/ ListenFails \/ SleptFor3s \/ StartAccept \/ Serving
           \/ DeleteLog \/ DestroyThreads \/ KeysChange
  BY <1>1, <1>6 DEF SetupLogging, Run, Listen, ListenFails, ListenRest, SleptFor3s, StartAccept,
     Serving, Accept, ClientEvent, StopListening, RunReturns, DeleteLog, DestroyThreads, KeysChange
<1>7. CASE UNCHANGED vars  BY <1>1, <1>7 DEF vars
<1>. QED  BY <1>2, <1>3, <1>4, <1>5, <1>6, <1>7 DEF Next, StartUp, Ended

\* Every worker has one object, one thread and its initialize() before its
\* first job, for every number of threads.
THEOREM ThreadsStartInTurn == Spec => []StartedInTurn
<1>1. Init => StartedInTurn
  <2> SUFFICES ASSUME Init PROVE Started = 1 .. 0 /\ 0 \in 0 .. NumberOfSlots
    BY DEF Init, StartedInTurn
  <2>1. Started = {} /\ 1 .. 0 = {}  BY DEF Init, Started
  <2>2. NumberOfSlots \in Nat  BY LifecycleAssumption DEF NumberOfSlots
  <2>. QED  BY <2>1, <2>2
<1>. QED  BY <1>1, NextStartedInTurn, Invariance, PTL DEF Spec
=============================================================================
