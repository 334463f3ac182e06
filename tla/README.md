# Verification of acmacs-webserver

TLA+ specifications of the server in `src/cc`, TLC configurations that check
them on small instances, and TLAPS proofs of their main properties for every
value of the constants. Everything is translated from the C++ sources; line
numbers are in `PROJECT.json`, under `map`.

## The system

`Wspp` (server.cc, server.hh, server-impl.cc, server-impl.hh) is an HTTP and
websocket server on websocketpp. One thread, *Main* below, calls
`mServer.run()`: asio and all callbacks of websocketpp run in it. A pool of
`WsppThread` workers takes jobs from one task queue. `src/cc/uws` is the older
front end of the same shape on uWebSockets.

| component | state | operations | interacts with |
|---|---|---|---|
| task queue `wspp_internal::Queue` | the `std::queue`, `mMutexForPop`, `mMutexForNotifier`, `mNotifier` | `push`, `pop` | Main pushes, workers pop |
| connections: `WsppWebsocketLocationHandler`, `mConnected` | the handler cloned per connection, its `mWspp`, `mHdl`, `mAccess`; the map and `mConnectedAccess` | `on_open`, `on_message`, `on_close`, `closed`, `open_queue_element_handler`, `call_after_close`, `send`, `pop_call`, the destructor | callbacks in Main, jobs in workers, both through the handler |
| life cycle: `Wspp::run`, `listen`, `Threads`, `WsppThread`, `~Wspp` | listening socket, thread objects and their `std::thread`s | `listen`, `start`, `run`, `stop_listening`, `~Wspp` | starts the workers, owns everything |
| logging: `setup_logging`, `log_send_receive` | `log_send_receive_` | set at start-up, written by jobs, deleted by `~Wspp` | workers use what Main owns |
| TLS: `on_tls_init` | the context of each connection, made of three files | called for the connection that waits for the next client | its exception ends `run()` |
| HTTP locations: `read_settings`, `http_location_handle`, `on_http` | `mHttpLocationHandlers`, the response | reading the settings, the chain of handlers, files opened per request | Main only; the file system changes meanwhile |
| `HttpResource` | location and arguments | the constructor | used by application handlers |
| `WebSocketDispatcher` (uws) | `WebSocketQueue`, `DataSet`, one `Data` per socket with `mWs`, `mMutex` | `connection`, `message`, `disconnection`, `pop_call`, `send` | hub thread pushes, workers pop and send |
| `HttpRequestDispatcher`, `HttpRequestRedirectToHttps` (uws) | `mApps`, `mTargetPort`, the response | `dispatcher`, `HttpApplication::handle`, `reply_404` | hub thread only; an exception ends `hub.run()` |
| printing, wrapper headers, example servers | | | see *Not modelled* |

The hard behaviours are those of Main against the workers. `push()` changes
the `std::queue` with no lock; `pop()` tests it unlocked; the callbacks and the
jobs share the handler, whose life is counted by shared pointers, while
websocketpp keeps a plain `this`; `closed()` is called with `mAccess` locked in
two places and unlocked in two; a connection may end at any moment, and before
its callbacks are bound; a derived `WsppThread` is still being constructed when
its thread runs. The HTTP part is sequential and lives on partial failures
(broken entries, missing files) and on unsigned arithmetic that wraps.
`PROJECT.json` lists the places under `hazards`, each with the properties that
cover it or the reason why none does.

What makes each component correct: the queue loses no element and no wakeup
and never reads an empty queue; a callback never reaches a handler that is
closed or gone, a handler is closed once and then destroyed, and no job of a
live connection is lost; no job meets a half-constructed object, and start-up
ends; every request is answered, in the order of the settings, and one broken
entry does not cost another; jobs find the log until the server goes, no client is
met without a certificate; parsing ends and splits as intended; nothing is
sent on a socket that uWebSockets has destroyed.

## Modules

| module | what it is |
|---|---|
| `TaskQueue` | the abstract promise of a task queue: pushed in order, each element taken by one worker |
| `WsppQueue` | `Queue::push` and `pop`, one step per mutex, condition-variable or `std::queue` operation |
| `WsppConnections` | connections, handlers, callbacks and jobs, on the abstract queue |
| `WsppLifecycle` | logs, listen with retries, thread start-up, TLS contexts, accept, return of `run()`, destruction |
| `WsppHttp` | reading of the settings, the chain of location handlers, files that come and go |
| `HttpResource` | the parsing loop, one turn per step |
| `UwsDispatcher` | the uWebSockets dispatcher, its workers and its queue without a pop mutex |
| `UwsHttp` | the redirect and the chain of applications of the uWebSockets front end |
| `MCWsppHttp`, `MCUwsHttp` | constants for TLC |
| `WsppQueueProofs`, `WsppConnectionsProofs`, `WsppLifecycleProofs`, `WsppHttpProofs`, `HttpResourceProofs`, `UwsDispatcherProofs`, `UwsHttpProofs` | the theorems |
| `LeastElement` | that a least position exists, for the two proofs about `find()` |

`WsppQueue` implements `TaskQueue`; `WsppConnections` is built on a queue of
that kind (it appends at the end and takes the head, by construction), so the
two fit together at `TaskQueue` rather than in one state space. `UwsDispatcher` implements it for
one worker only, which is the point of one of its findings.

Definitions keep the names of the code where there is one. An operator under a
comment that begins with *variant* is an alternative body of the definition
next to it, written as a plausible mistake; `PROJECT.json` (`mutants`) says
which property each of them breaks. They are not part of any `Next`.

### WsppQueue

`items` is the base `std::queue`; `pc[w]` is the place of worker `w` in
`pop()`, `mainPc` that of Main in `push()`; `popMutex` and `notifierMutex` hold
the thread that has locked them. `wait(lock, pred)` is the loop the standard
defines: `TestPredicate`, `Sleep` (release and wait, atomically), a wakeup, and
`LockNotifier` again; `SpuriousWakeup` is allowed at any time.

The unlocked `emplace` races with `empty()`. On x86-64 the store becomes
visible before the pushing thread has the mutex, so between the two `empty()`
may give either answer: `EmptyAnswers`. Below this grain, and not modelled, is
the memory of the `std::deque` itself, whose map may be reallocated by a push
while `pop` works on it.

### WsppConnections

A connection `c` is its `connection_hdl`, the websocketpp object behind it
(`ws[c]`, and `wired[c]`, the callbacks set on it) and the handler cloned for
it (`handler[c]`, `mWspp[c]`, `access[c]`). `connected` is the keys of
`mConnected`. `job[Main]` is the event being dispatched, `job[w]` the worker's
local `data`; the two hold references to the handler, and so do the queue and
`mConnected`. `Referenced` counts them, and the thread that drops the last one
runs `Destructor`: a worker at the end of `pop_call` (`ReleaseData`) or whoever
erases the map entry (`DestroyErased`).

Every lock, unlocked test, call of `wspp_implementation()` and call of
websocketpp is a step. `closed()` is `Closed` (test and clear `mWspp`) followed
by `RemoveConnected`; `Leave` releases the lock of the callers that have one.
An application handler (`opening`, `message`, `after_close`) is any number of
`send()`s, then a return or an exception. `crash` is the use of a null `mWspp`
or an exception that leaves `mServer.run()`; nothing follows it. A handler may
also call `log_send_receive()` (`HandlerLogs`), which tests `mWspp` with no lock
and then uses it (`LogUse`).

websocketpp is external: a message with no message handler is discarded, the
close handler is called if it is set at termination, and the hdl expires some
time after, when no dispatch or local `connection` holds the connection. The
`std::function`s it stores are set by a worker while Main may dispatch: the
dispatch sees the old or the new one. `create_connected` and
`find_connected` hold `mConnectedAccess` throughout and are one step each.

### WsppLifecycle

`phase` is the place of Main from the constructors to the end of the process,
`object[k]` the construction of `WsppThread` number `k`, `thread[k]` its
thread. The thread starts in the base constructor, so `initialize()` is the
base's until the derived constructor begins (`BeginDerived`), and then the
derived one, on an object that may not be complete yet; a constructor or an
`initialize()` that throws ends the process. Jobs and connections
are counters: only their being there matters.

`log` is what `log_send_receive_` points to: null until some `setup_logging`
names a log, and null for good if none does. `setup_logging` is called by
`read_settings` and by applications before `run()`, never later; that is an
assumption about applications. `~Wspp` deletes a log of its own (`DeleteLog`)
before its members, and with them the threads, are destroyed
(`DestroyThreads`): a worker may write to the deleted stream in between
(`WriteNoLog`), so `LogStaysUntilDestroyed` speaks of the time before.
`on_tls_init` is called by websocketpp for the connection it makes ready for
the next client: in `StartAccept` and again at every `Accept`. `keys` says
whether the three files load; anyone may change that at any time.

### WsppHttp and HttpResource

A path of `WsppHttp` stands for a file name and its content; the code looks at
the size and suffix of the name only, which `Name` gives. `settings` is the
`locations` list of the settings file; an entry with no location throws inside
the loop and costs a warning, and so does any entry that is not of the shape
the code expects. A directory of `locked` fails at its first entry or after
some of them, whose handlers stay (`LockedDir`). `DiskChanges` may come between any two steps. A path that has
become a directory opens and then throws when read, and on_http does not catch
it. `TooShort` is the wrap of `filename.size() - n` in the suffix tests, in
their order.

`HttpResource` has positions of type size_t (`0 .. NPos`), with `Succ` and
`Minus` wrapping; `substr` throws for a position past the end. The loop is
compared with a declarative split (`ParsesLikeSplitting`): the set of the places
where chunks start, each chunk cut at its first `=`, and each value at the rank
its chunk has among those with its key (`HoldsChunks`). It has one surprise that it must
share with the code: after a final `&` an empty key is added.

### UwsDispatcher

`dataSet` maps socket addresses to `Data`, which uWS may reuse once it has
destroyed a socket (`alive`). The constructor starts the workers one by one and
binds the callbacks when they are all there; `started` may be any non-empty set
of `Workers`, so a run has every smaller pool too, and a thread that fails to
start ends the model (`failed`). The condition variable is one blocking step (it
is used as in `WsppQueue`): a worker waits while it sees the queue empty. What
differs is kept: no mutex from `wait_for_data` to `pop`. Handlers lock `mMutex`
to use their fields and, in `send()`, to use `mWs`, one after the other; both
unlocks are the step `UnlockData`. A handler returns or throws, and
`WebSocketWorker::run` catches nothing (`HandlerThrows`). `DataSet::find` would make a new `Data` for
an unknown socket; in `Disconnection` it never has to (`DataIsOfItsSocket`).

### UwsHttp

A request comes to one of two groups: the plain one redirects, the TLS one asks
`mApps` in turn. A Host header is a sequence of parts, with the colons parts of
their own, which is all that `find(':')` and `erase` see of it. An application
declines, answers and returns true, or throws; one that answers writes and
ends its response before `handle()` returns (an assumption about applications,
which may keep the response in uWebSockets). `ended` is the end of the process:
`main` catches the exception outside `hub.run()`.

## Runs

| run | bounds | shows |
|---|---|---|
| `WsppQueue` | 3 workers, 4 pushes | `NoLostWakeup`, `FrontNeverEmpty`, `ImplementsTaskQueue`, `PushedIsTaken` |
| `WsppConnections` | 2 connections, 2 workers, 1 message | `CallbacksFindHandler`, `ClosesOnce`, `DestructorNeverBlocks`, `WaitChainsEnd`, `JobsInOrder`, `LivesWhileShared`, `DropsOnlyClosed`, `ClosedIsDestroyed`, no deadlock |
| `WsppLifecycle` | 2 threads, 2 connections, 2 jobs, all 30 attempts | `JobsFindCompleteObjects`, `ExitsAloneAfter30`, `AcceptsWithCertificate`, `LogStaysUntilDestroyed`, `StartUpEnds` |
| `UwsDispatcher` | 1 or 2 workers, 2 addresses, 3 connections, 1 message | `SendsOnLiveSocket`, `DisconnectionFindsNull`, `DataIsOfItsSocket`, `TasksInOrder`, `ImplementsTaskQueue` (with one worker), `DisconnectionEnds` |
| `HttpResource` | every resource of at most 6 of the characters `? & = a` | `NeverThrows`, `EachTurnMovesOn`, `ParsesLikeSplitting`, `ParsingEnds` |
| `MCWsppHttp` | 2 settings files, 5 files, 2 directories, 2 changes of the disk | `EntriesStandAlone`, `AlwaysAnswered`, `AnswersInOrder`, `LongNamesAreServed` |
| `MCUwsHttp` | 3 applications, 7 Host headers, 2 target ports | `OneAnswerInOrder`, `RedirectsToTarget` |

Each passing run checks the module's type invariant too. Deadlock is checked
everywhere: a state without a step is an error unless it is one the module
names (`Quiescent`, `Stopped`, `Ended`, `Returned`: nothing left to do, or the
process has ended).

Why the bounds are enough. Three workers let one sleep, one wait for
`mMutexForPop` and one run; four pushes fill the queue while that happens. Two
connections let a callback of one meet a job of the other under
`mConnectedAccess`; two workers let two jobs of one connection run at once (its
opening and its message or after_close); one message is enough for that, and
the proofs hold for every bound. Three connections over two addresses let an
address be used again while the older `Data` still has tasks. Six characters
hold three chunks, repeated keys, empty chunks and a final `&`; `NPos` is 15,
which positions up to 6 never reach except by wrapping. The settings of
`MCWsppHttp` have a broken entry before good ones, a location with two files, a
directory entry whose first or second directory may fail, and names of the lengths at which
the suffix tests change. The Host headers are the empty one, names with and
without a port, and an address in brackets with and without one, whose own
colons come first.

### Findings

Five runs check one property each that a comment, or a line, of the
repository states and the code does not keep. The traces are short.

- `WsppConnectionsNoNullDereference`. server.hh:203 and :198: "caller needs
  to lock mAccess". `on_close` calls `closed()` after it has released the
  lock, so a worker in `send()` may have tested `mWspp` and use it after it is
  cleared; `log_send_receive()` has the same trace without a lock at all.
  (Keeping the lock is no remedy: `closed()` may run the destructor,
  which locks `mAccess`; `DestructorNeverBlocks` fails for the variant
  `CloseUnderLock`.)
- `WsppConnectionsAfterCloseIsCalled`. `after_close` is meant to be called
  when the connection was closed. `on_close` clears `mWspp` right after the
  push, and `pop_call` drops jobs of handlers with no `mWspp`.
- `WsppConnectionsOpeningOfClosedIsForgotten`. A connection that ends before
  its close handler is set, and whose hdl has not expired when the opening job
  tests it, stays in `mConnected` for good.
- `WsppLifecycleReturnsZero`. When `run()` returns after `stop_listening()`,
  the server's destruction destroys joinable threads: `std::terminate`.
- `UwsDispatcherPopBlocksOnEmpty`. Two workers of the uws queue may both
  pass the wait for one element.

Three oddities have no run, since no line of the repository says otherwise.
The redirect throws for a Host header without a port, which ends the front end
(`RedirectThrows`), and an address in brackets is cut at its first colon, so that
its redirect leads elsewhere; `RedirectsToTarget` says that the two happen to
these Host headers and to no others. The failure test of the send/receive log
(server.cc:177) looks at the pointer, so a log that cannot be opened is kept.
And certificate files that break under a running server end it at the next
client; `AcceptsWithCertificate` shows that it is never served without them.

Two things look wrong in the code and are not. The destructor unsets the
callbacks only if `wspp_implementation()` succeeds, and after `closed()` it
never does, so they stay bound to a dead `this`; but `CallbacksFindHandler`
shows that websocketpp has made its last call by then. And the catch clause of
`on_message` ("may it ever happen??") is not reached: the last conjunct of
`CallbacksFindHandler`.

## Fairness

Only the liveness properties use it.

- `WsppQueue`: Main finishes a `push()` it has begun; handlers return; a
  mutex that is released again and again is granted to each waiter (strong
  fairness of the lock steps), and some worker gets `mMutexForPop`. No fairness
  for `Emplace` (clients need not send) or for wakeups other than
  `notify_one`: `PushedIsTaken` does not lean on spurious ones.
- `WsppConnections`: threads go on inside the server's code, mutexes are
  granted in turn, handlers return. Clients owe nothing: no fairness for
  connecting, sending, ending or expiring.
- `WsppLifecycle`: Main does not stop on its way to `mServer.run()`.
- `UwsDispatcher`: the hub's thread gets a mutex that keeps being released,
  and handlers do not lock and unlock forever, but return or throw.
- `HttpResource`: the constructor keeps running.
- `WsppHttp` and `UwsHttp` assume none.

The standard does not promise starvation freedom of `std::mutex`; the
schedulers of the systems the server is built for give it in practice.

## Proofs

TLAPS checks these for all values of the constants under the modules' named
assumptions (`QueueAssumption`, `ConnectionsAssumption`, `LifecycleAssumption`,
`HttpAssumption`, `ResourceAssumption`, `DispatcherAssumption`,
`UwsHttpAssumption`): thread names differ, bounds are
natural numbers, the tables have their types. In each module `IInv` is the
inductive invariant, with one lemma or step per action.

- `WsppQueueProofs`: `TypeOK`, `NoLostWakeup`, `FrontNeverEmpty`, and that the
  queue implements `TaskQueue`. `NoLostWakeup` alone is not inductive: a worker
  that has evaluated the predicate goes to sleep a step later. `SleepInv` says
  that it then holds the notifier mutex, so the push is still before its
  notification; `MutexInv` ties the holders to the program counters, and gives
  that one worker at a time is inside `pop()`, which is why `notify_one` wakes
  the right one and `front()` stays what it was (`CopyInv`).
  `EachElementOnce` numbers the pushes: the queue holds the last ones, in order
  (`HandedOutOnce`), and no two workers have the same; from it
  `FirstInFirstOut`, that the n-th handler started gets the n-th element.
  `NoDeadlock` follows from `MutexInv` and `NoLostWakeup`: if nobody could go on,
  the holder of `mMutexForPop` would be asleep on a non-empty queue. It needs
  a worker (`Workers # {}`), and `Threads` starts four when asked for none.
- `WsppConnectionsProofs`: `TypeOK`, `CallbacksFindHandler`, `ClosesOnce`,
  `DestructorNeverBlocks`, `DropsOnlyClosed`, `WaitChainsEnd`, `JobsInOrder`,
  `LivesWhileShared`. The argument is that a handler is *intact* (alive, registered,
  `mWspp` set) until one thread enters `closed()`: `OneOpeningInv` (one opening
  job, wherever it is) and `IntactInv` (while it is pending, on_close is not
  bound) keep the worker's path to `closed()` apart from Main's; `MainInv` and
  `WorkerInv` say what each has in hand at each place, `UnusedInv` that a
  connection not opened has nothing, `AccessInv` who can hold `mAccess`.
  Four more theorems rest on it:
  - `DiesOnlyAfterEnd` bounds the first finding: the null `mWspp` is used by a
    worker only, in a job of a connection that has ended.
  - `NoCircularWait`: `mConnectedAccess` is held over a step only for the
    destructor in `remove_connected` of Main (`ConnAccessInv`), which waits for
    nobody; so although the two mutexes are taken in different orders, every
    chain of waits has at most two links and ends at Main.
  - `JobsComeInOrder`: while the opening job is on its way (`Unopened`) no
    message handler is installed, so nothing else of the connection is queued
    (`OpeningFirst`); an `after_close` job is pushed when the connection has
    ended, and ended connections push nothing (`AfterCloseLast`).
    Neither is inductive without the other's facts of `IInv`: one opening job,
    and `ws = "closed"` throughout on_close.
  - `DestroyedWithLastShare`: `handler[c] = "alive"` exactly while somebody has
    a shared_ptr (`Shared`). The two places that run the destructor in the model,
    `DestroyErased` and `ReleaseData`, are thus enough (no leak) and not too
    many (no early destruction).
- `WsppLifecycleProofs`: `TypeOK`, `JobsFindCompleteObjects`,
  `ExitsAloneAfter30`, `AcceptsWithCertificate`,
  `LogStaysUntilDestroyed`. `JobInv`: jobs come of connections, those of
  `start_accept`, and that waits for every constructor. `ListenInv`: no thread
  while the server listens. `DestroyInv`: only `~Wspp` deletes the log.
  `ThreadsStartInTurn`: the objects made are the slots `1 .. n`, so
  `NextSlot` (their number plus one) is always a free slot.
- `HttpResourceProofs`: `TypeOK`, `NeverThrows`, `EachTurnMovesOn` and
  `ParsesLikeSplitting`, for resources of any length over any characters. `PositionInv`: while the loop
  goes on, the next chunk starts inside the resource or just at its end. The
  lemmas say what `Min` (a least position exists), `find` and `substr` return.
  `SplitInv` says that before each turn `argv` holds exactly the chunks that
  start at or before `substart` (`Taken`), the n-th of a key as its n-th
  value, and that the next chunk is one of the split. A turn takes one
  chunk more (`TurnTakes`), which appends to its key's values (`AddArgAdds`,
  `AddArgHoldsOneMore`, by the cardinality of the chunks with that key), so the
  split needs no recursion and the proof no induction over the resource.
- `WsppHttpProofs`: `TypeOK`, `AlwaysAnswered`, `AnswersInOrder`,
  `LongNamesAreServed`, `EntriesStandAlone`, for any settings, files and
  changes. `LastIs404`: the list ends with the 404 handler once `run()` is
  called; `AskedInv`: what was asked before the next handler and file was
  missing; `ReadInv`: directories are read at start-up, for an entry with a
  location. `ReadingInv` carries `EntriesStandAlone` through the reading: the
  directories still to read are a tail of the last entry's, and the entries and
  directories before them have their handlers.
- `UwsDispatcherProofs`: `TypeOK`, `SendsOnLiveSocket`,
  `DisconnectionFindsNull`, `DataIsOfItsSocket`, `TasksInOrder`, for any workers
  and sockets.
  `LockInv`: a worker in a locked part holds the mutex of its `Data`, so
  `mWs` stays set from its test to its use (`SendInv`); `SocketInv`: a `mWs`
  that is set is a live socket, and its `Data` is in the set or being
  disconnected; `GoneInv`: a disconnection task is of a `Data` with no socket;
  `FreshInv`: what is not made yet is nowhere. And that with one worker started
  the queue implements `TaskQueue`: then the element it removes is the one it
  has copied (`CopyInv`), which fails with two.
  `MutexHolderGoesOn` is the converse of `LockInv`: a held `mMutex` is held in the
  locked part, which waits for nothing, so the hub's wait in
  `websocket_disconnected()` ends at a worker that can go on.
  `TasksComeInOrder` says what is left of the queue's order with several
  workers: connection first, disconnection last, for the queue and for what was
  copied from it. A `Data` with a disconnection task is `Past`: made, in no
  set and not being disconnected, so nothing is pushed for it again.
- `UwsHttpProofs`: `TypeOK`, `OneAnswerInOrder`, `RedirectsToTarget`, for any
  number of applications, any hosts and ports. `AskedInv`: those asked so far
  have declined, and nothing is written. For the redirect, `find()` gives a
  least colon, which exists by `LeastExists`. `NameOfHost` relates it to the name
  in the Host header, which ends at the first colon outside brackets: the two
  cuts agree exactly when the name has no colon (`ErasedHost`), and hosts that
  differ there stay different with the port appended (`EndingsCancel`).

Model-checked only: the liveness properties (`PushedIsTaken`,
`ClosedIsDestroyed`, `StartUpEnds`, `DisconnectionEnds`, `ParsingEnds`), since the prover has neither
fairness nor `ENABLED`. Every safety invariant and action property of the passing runs is a
theorem. `EachElementOnce`, `FirstInFirstOut`, `NoDeadlock`, `DiesOnlyAfterEnd`,
`MutexHolderGoesOn` and `ThreadsStartInTurn` state no property of a run; TLC found
them to hold on the bounds of the runs before they were proved.

## Not modelled

- the access and error logs of `setup_logging`, and what is written to any log:
  streams, channels and formats are websocketpp's and the standard library's.
- the options and cipher lists of `on_tls_init`: data for OpenSSL.
- `WebSocketDispatcher::error`, `data_id()`, `operator<<` of a request and the
  access line of `HttpRequestDispatcher::log`: they print. The rest of
  http-request-dispatcher.cc is commented out.
- printing helpers, the asio wrapper header: no state.
- the example servers: their handlers are the application behaviour that the
  models leave open; two of their lines are claims checked above.
- websocketpp, uWebSockets, asio, the JSON reader: external, modelled as far as
  the code uses them (`external` in the map).

## Plan

Order of the work: queue, connections, life cycle (the concurrent core), then
the uws dispatcher, then HTTP, then logs, TLS and the uws HTTP dispatchers. All
of it is done. What could be added:

1. `WsppQueue` put in place of the abstract queue under `WsppConnections`, on
   one connection, to check liveness across the two;
2. `WsppLifecycle` over `WsppConnections`: connections in place of counters, to
   see what the handlers meet while the server is destroyed.
