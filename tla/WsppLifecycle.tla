--------------------------- MODULE WsppLifecycle ---------------------------
(***************************************************************************)
(* The life of the server process: the constructors of Wspp and its logs,  *)
(* Wspp::run (listen with retries, start the worker threads, accept), the  *)
(* TLS context made for each connection before its client comes, the       *)
(* WsppThread objects and their threads, the return of mServer.run() after *)
(* stop_listening(), and ~Wspp.                                            *)
(*                                                                         *)
(* A worker thread is started in the constructor of the base class         *)
(* WsppThread, so it runs beside the rest of the constructor of the class  *)
(* the application derives from it.                                        *)
(***************************************************************************)
EXTENDS Naturals, FiniteSets

CONSTANTS
    NumberOfThreads,    \* number_of_threads of the settings
    MaxConnections,     \* bound on the connections open at a time
    MaxJobs             \* bound on the jobs in the queue

ASSUME LifecycleAssumption ==
    /\ NumberOfThreads \in Nat
    /\ MaxConnections \in Nat
    /\ MaxJobs \in Nat

\* Threads: 0 stands for 4
Slots == 1 .. (IF NumberOfThreads > 0 THEN NumberOfThreads ELSE 4)
MaxAttempts == 30

VARIABLES
    phase,      \* where the main thread is
    attempt,    \* the attempt of listen() under way
    log,        \* what log_send_receive_ points to
    keys,       \* the certificate, key and DH files can be read and fit
    context,    \* TLS context of the connection that waits for a client
    object,     \* object[k]: the WsppThread object of slot k
    thread,     \* thread[k]: its std::thread
    initialized,\* initialized[k]: the initialize() that thread k has called
    listening,  \* the acceptor is open
    connections,\* number of open connections
    jobs        \* number of jobs in the queue

threadVars == <<object, thread, initialized>>
clientVars == <<listening, connections, jobs>>
vars == <<phase, attempt, log, keys, context, threadVars, clientVars>>

\* The constructor with settings goes on to read them; the other is done.
Init == /\ phase \in {"settings", "constructed"}
        /\ attempt = 1
        /\ log = "null"
        /\ keys \in BOOLEAN
        /\ context = "none"
        /\ object = [k \in Slots |-> "none"]
        /\ thread = [k \in Slots |-> "none"]
        /\ initialized = [k \in Slots |-> "no"]
        /\ listening = FALSE
        /\ connections = 0
        /\ jobs = 0

-----------------------------------------------------------------------------
(* The main thread: the logs *)

\* variant: a stream that did not open is deleted, and cerr forgotten
SetupLoggingForgets ==
    /\ phase \in {"settings", "constructed"}
    /\ phase' = "constructed"
    /\ log' \in {log, "cout", "cerr", "stream", "deleted"}
    /\ UNCHANGED <<attempt, keys, context, threadVars, clientVars>>

\* setup_logging, called by read_settings and by applications.
\* create_directories throws for any of the three names; for an empty name
\* of the send/receive log it stays what it is.  The ofstream is kept whether
\* it is open or not: the test for that looks at the pointer.
SetupLogging ==
    /\ phase \in {"settings", "constructed"}
    /\ \/ phase' = "terminated" /\ UNCHANGED log
       \/ phase' = "constructed" /\ log' \in {log, "cout", "cerr", "stream"}
    /\ UNCHANGED <<attempt, keys, context, threadVars, clientVars>>

Run == /\ phase = "constructed"
       /\ phase' = "listen"
       /\ UNCHANGED <<attempt, log, keys, context, threadVars, clientVars>>

-----------------------------------------------------------------------------
(* The main thread: listen, start_threads, start_accept, run *)

Listen == /\ phase = "listen"
          /\ phase' = "start"
          /\ listening' = TRUE
          /\ UNCHANGED <<attempt, log, keys, context, threadVars, connections, jobs>>

ListenRest == UNCHANGED <<log, keys, context, threadVars, clientVars>>

\* variant: gives up one attempt late
ListenGivesUpLate ==
    /\ phase = "listen"
    /\ phase' = IF attempt <= MaxAttempts THEN "sleep" ELSE "exit(1)"
    /\ UNCHANGED attempt
    /\ ListenRest

\* variant: gives up one attempt early
ListenGivesUpEarly ==
    /\ phase = "listen"
    /\ phase' = IF attempt < MaxAttempts - 1 THEN "sleep" ELSE "exit(1)"
    /\ UNCHANGED attempt
    /\ ListenRest

\* mServer.listen throws
ListenFails == /\ phase = "listen"
               /\ phase' = IF attempt < MaxAttempts THEN "sleep" ELSE "exit(1)"
               /\ UNCHANGED attempt
               /\ ListenRest

\* variant: the attempts are not counted
SleepUncounted == /\ phase = "sleep"
                  /\ phase' = "listen"
                  /\ UNCHANGED attempt
                  /\ ListenRest

SleptFor3s == /\ phase = "sleep"
              /\ phase' = "listen"
              /\ attempt' = attempt + 1
              /\ ListenRest

Started == {k \in Slots : object[k] # "none"}
NextSlot == Cardinality(Started) + 1

\* Threads::start, base-class constructor: std::thread starts, or throws
\* std::system_error out of run() and of main
StartThread ==
    /\ phase = "start"
    /\ Started # Slots
    /\ \A k \in Started : object[k] = "complete"
    /\ \/ /\ object' = [object EXCEPT ![NextSlot] = "base"]
          /\ thread' = [thread EXCEPT ![NextSlot] = "started"]
          /\ UNCHANGED phase
       \/ /\ phase' = "terminated"
          /\ UNCHANGED <<object, thread>>
    /\ UNCHANGED <<attempt, log, keys, context, initialized, clientVars>>

ObjectRest == UNCHANGED <<attempt, log, keys, context, thread, initialized, clientVars>>

\* the derived class's constructor begins, and the vptr is the derived one
BeginDerived(k) ==
    /\ phase = "start"
    /\ object[k] = "base"
    /\ object' = [object EXCEPT ![k] = "derived"]
    /\ UNCHANGED phase
    /\ ObjectRest

\* it ends, or its exception destroys the base with its joinable thread
CompleteObject(k) ==
    /\ phase = "start"
    /\ object[k] = "derived"
    /\ \/ object' = [object EXCEPT ![k] = "complete"] /\ UNCHANGED phase
       \/ phase' = "terminated" /\ UNCHANGED object
    /\ ObjectRest

\* variant: the exception is printed and the context returned as it is
TlsInitGoesOn == /\ phase' = "running"
                 /\ context' = IF keys THEN "made" ELSE "bare"

\* on_tls_init, for the connection that waits for the next client; its
\* exception leaves start_accept() or mServer.run(), and main
OnTlsInit == IF keys THEN phase' = "running" /\ context' = "made"
             ELSE phase' = "terminated" /\ UNCHANGED context

\* variant: the server accepts before it starts its threads
AcceptEarly == /\ phase = "start"
               /\ OnTlsInit
               /\ UNCHANGED <<attempt, log, keys, threadVars, clientVars>>

StartAccept == /\ phase = "start"
               /\ \A k \in Slots : object[k] = "complete"
               /\ OnTlsInit
               /\ UNCHANGED <<attempt, log, keys, threadVars, clientVars>>

\* A client comes; websocketpp makes the next connection.
Accept == /\ phase = "running"
          /\ listening
          /\ connections < MaxConnections
          /\ connections' = connections + 1
          /\ OnTlsInit
          /\ UNCHANGED <<attempt, log, keys, threadVars, listening, jobs>>

\* A connection opens, has a message or ends; most events push a job.
ClientEvent == /\ phase = "running"
               /\ connections > 0
               /\ connections' \in {connections, connections - 1}
               /\ jobs' \in {jobs, jobs + 1}
               /\ jobs' <= MaxJobs
               /\ UNCHANGED <<phase, attempt, log, keys, context, threadVars, listening>>

\* the application calls stop_listening()
StopListening == /\ phase = "running"
                 /\ listening
                 /\ listening' = FALSE
                 /\ context' = "none"
                 /\ UNCHANGED <<phase, attempt, log, keys, threadVars, connections, jobs>>

\* mServer.run() returns when asio has nothing left to do
RunReturns == /\ phase = "running"
              /\ ~listening
              /\ connections = 0
              /\ phase' = "returned"
              /\ UNCHANGED <<attempt, log, keys, context, threadVars, clientVars>>

\* ~Wspp deletes the log, and then destroys its members
DeleteLog == /\ phase = "returned"
             /\ phase' = "destroying"
             /\ log' = IF log = "stream" THEN "deleted" ELSE log
             /\ UNCHANGED <<attempt, keys, context, threadVars, clientVars>>

\* mThreads: ~std::thread of a joinable thread terminates the process
DestroyThreads == /\ phase = "destroying"
                  /\ phase' = IF \E k \in Slots : thread[k] # "none"
                              THEN "terminated" ELSE "return 0"
                  /\ UNCHANGED <<attempt, log, keys, context, threadVars, clientVars>>

\* Somebody renews the files, or breaks them.
KeysChange == /\ phase \notin {"exit(1)", "return 0", "terminated", "crashed"}
              /\ keys' = ~keys
              /\ UNCHANGED <<phase, attempt, log, context, threadVars, clientVars>>

-----------------------------------------------------------------------------
(* A worker thread: WsppThread::run *)

Alive == phase \notin {"exit(1)", "return 0", "terminated", "crashed"}

DerivedObject(k) == object[k] \in {"derived", "complete"}

\* initialize() is the derived class's from the start of its constructor on,
\* which may still be running; an exception of it is not caught
Initialize(k) ==
    /\ Alive
    /\ thread[k] = "started"
    /\ initialized[k] = "no"
    /\ \/ /\ initialized' = [initialized EXCEPT ![k] =
                                 IF DerivedObject(k) THEN "derived" ELSE "base"]
          /\ thread' = [thread EXCEPT ![k] = "waiting"]
          /\ UNCHANGED phase
       \/ /\ DerivedObject(k)
          /\ phase' = "terminated"
          /\ UNCHANGED <<initialized, thread>>
    /\ UNCHANGED <<attempt, log, keys, context, object, clientVars>>

\* pop_call
TakeJob(k) == /\ Alive
              /\ thread[k] = "waiting"
              /\ jobs > 0
              /\ jobs' = jobs - 1
              /\ thread' = [thread EXCEPT ![k] = "working"]
              /\ UNCHANGED <<phase, attempt, log, keys, context, object, initialized,
                             listening, connections>>

\* The job writes to log_send_receive() where there is no stream.  (To write
\* to a stream changes nothing here.)
WriteNoLog(k) == /\ Alive
                 /\ thread[k] = "working"
                 /\ log \in {"null", "deleted"}
                 /\ phase' = "crashed"
                 /\ UNCHANGED <<attempt, log, keys, context, threadVars, clientVars>>

\* it returns, or its exception is caught and printed
EndJob(k) == /\ Alive
             /\ thread[k] = "working"
             /\ thread' = [thread EXCEPT ![k] = "waiting"]
             /\ UNCHANGED <<phase, attempt, log, keys, context, object, initialized, clientVars>>

-----------------------------------------------------------------------------
Ended == ~Alive /\ UNCHANGED vars

StartUp == \/ Listen \/ ListenFails \/ SleptFor3s \/ StartThread
           \/ StartAccept \/ \E k \in Slots : BeginDerived(k) \/ CompleteObject(k)

Serving == Accept \/ ClientEvent \/ StopListening \/ RunReturns

Next == \/ SetupLogging \/ Run \/ StartUp \/ Serving \/ DeleteLog \/ DestroyThreads
        \/ KeysChange \/ Ended
        \/ \E k \in Slots : Initialize(k) \/ TakeJob(k) \/ WriteNoLog(k) \/ EndJob(k)

Spec == Init /\ [][Next]_vars

\* The main thread does not stop by itself on its way to mServer.run().
FairSpec == Spec /\ WF_vars(StartUp)

-----------------------------------------------------------------------------
(* Properties *)

\* Every variable keeps its type.
TypeOK == /\ phase \in {"settings", "constructed", "listen", "sleep", "start", "running",
                        "returned", "destroying", "exit(1)", "return 0", "terminated", "crashed"}
          /\ attempt \in 1 .. MaxAttempts
          /\ log \in {"null", "cout", "cerr", "stream", "deleted"}
          /\ keys \in BOOLEAN
          /\ context \in {"none", "made", "bare"}
          /\ object \in [Slots -> {"none", "base", "derived", "complete"}]
          /\ thread \in [Slots -> {"none", "started", "waiting", "working"}]
          /\ initialized \in [Slots -> {"no", "base", "derived"}]
          /\ listening \in BOOLEAN
          /\ connections \in 0 .. MaxConnections
          /\ jobs \in 0 .. MaxJobs

\* A job reaches a worker only after every WsppThread object, its own
\* included, has been constructed, although its thread runs earlier.
JobsFindCompleteObjects ==
    (\E k \in Slots : thread[k] = "working") => \A k \in Slots : object[k] = "complete"

\* The process exits for want of a port only after 30 attempts, and then no
\* worker thread runs beside the destructors of static objects.
ExitsAloneAfter30 == phase = "exit(1)" =>
    attempt = MaxAttempts /\ \A k \in Slots : thread[k] = "none"

\* A send/receive log that was set once is there for every job until ~Wspp
\* deletes it, whatever setup_logging is called with after that: a job of a
\* running server can crash on the log only if none was ever set.
LogStaysUntilDestroyed ==
    /\ [][log # "null" /\ phase # "returned" => log' \in {"cout", "cerr", "stream", log}]_vars
    /\ [][phase = "running" /\ phase' = "crashed" => log = "null"]_vars

\* Whenever the server accepts clients, the next one will be met with the
\* certificate and key: files that break while the server runs end it at the
\* next client, and never let a client in without them.
AcceptsWithCertificate == phase = "running" /\ listening => context = "made"

\* listen() does not retry forever: the server gets to run, or ends.
StartUpEnds == phase = "listen" ~> (phase \in {"running", "exit(1)", "terminated"})

-----------------------------------------------------------------------------
(* What a line of the code says and the code does not do *)

\* wspp-test.cc: when wspp.run() has returned, main returns 0.
ReturnsZero == [][phase = "destroying" /\ phase' # phase => phase' = "return 0"]_vars
=============================================================================
