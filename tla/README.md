# radrpc: a TLA+ model of the RPC library

radrpc is a header-only C++ RPC library over Boost.Beast websockets. A client
keeps one connection on which many threads issue `send` and `send_recv` calls;
a server keeps one session per client on a pool of workers and can broadcast.
This directory models the parts of it where threads, handlers, timers and lost
connections meet, checks them with TLC and proves the safety part with TLAPS.

All paths below are relative to `src/include/radrpc/`.

## 1. Inventory

| Component | State | Operations | Hard behaviour |
|---|---|---|---|
| `data_cache` (`detail/data.hpp`) | table `id -> row`, id counter; per row a state, a buffer, a validity, a mutex, a condition variable | `queue`, `wait`, `swap_notify`, `remove_obsolete`, `clear` | caller threads against the IO thread; late answers; timeouts; full table |
| `data_queue` (`detail/data.hpp`) | deque of entries that point into the caller's memory, each with a weak promise | `queue`, `is_writing`, `front`, `write_next`, `clear` | one write at a time, memory lifetime |
| `client_session` (`impl/client/client_session.hpp`) | cache, queue, error and close flags, ping flags | `send`, `send_recv`, `ping`, `handle_send`, `on_write`, `on_read`, `on_control_callback` | callers on any thread, handlers on one IO thread, several ways to close |
| `session_connect` (same file) | connection state, stream, run promise | `run`, `on_resolve` ... `on_handshake`, `close`, `close_session` | a failing step in the chain; close against a stopping IO context |
| `client` (`client.hpp`) | weak session, expired flag, session lock, IO thread | `connect`, `disconnect`, `send`, `send_recv`, `ping`, `listen_broadcast`, destructor | reconnects and retries of many threads, waiting for the session's destruction |
| `server_session`, `session_accept` (`impl/server/server_session.hpp`) | stream, flags, write queue, timer, ping state | handshake, `on_read`, `call_function`, `send`, `on_write`, `on_timer`, `on_control_callback`, `shutdown` | broadcasts against responses, timer against reads, close from three places |
| `session_manager` (same file) | two maps of weak sessions, message counter, reference count | `add_session`, `remove_session`, `broadcast`, `connections` | destruction against broadcast, counters tested before they are changed |
| `listener`, `detect_session` | acceptor | `on_accept`, `on_detect` | limits tested before the session exists |
| `server` (`server.hpp`) | running flag, workers, condition variable | `start`, `async_start`, `stop`, `bind*`, `broadcast` | stop from inside and outside, restart, waiting workers |
| `operations` (`detail/operations.hpp`) | thread-local timeouts | `weak_post`, `wait_weak_post` | a handler that runs after its object is gone |
| `types`, `config`, `debug` | constants and records | - | - |

How they interact. A caller thread enters `client::send_recv`, which locks the
weak session and calls `client_session::send_recv`: it queues a row in
`data_cache`, posts `handle_send` to the IO thread and waits for a promise. The
IO thread puts the entry into `data_queue` and writes the entries one after the
other; `on_write` resolves the promise. The caller then sleeps in
`data_cache::wait` until `on_read` stores the answer with `swap_notify`, or
`clear()` gives up all rows. On the server `on_read` calls the bound function,
whose response enters the session's own queue; `session_manager::broadcast`
posts messages to every registered session. Sessions on both sides are kept
alive by the handlers of their pending operations and are destroyed with the
last of them.

What makes each component correct is listed with its module below; the hazards
with their lines are in `PROJECT.json`.

## 2. Modules

| Module | Models | Composes |
|---|---|---|
| `RpcCall` | the contract of a `send_recv` call, without cache, queue or locks | - |
| `DataCache` | `data_cache` with the threads in `send_recv` and the read loop | refines `RpcCall` |
| `ClientSession` | an established client session: queue, promises, posted handlers, read loop, close | extends `DataCache`; its actions are the cache's actions conjoined with the session's |
| `ClientPing` | `ping` of a client session: `handle_ping`, `on_ping`, the pong callback | - |
| `ClientLife` | the contract of `client` towards the threads that share it: one session at a time, data used only by an open session, by none when the call returns and after an exception only by a session that is over, nothing after the destructor | - |
| `ServerLife` | the contract of `server` towards the application: generations of workers, one `io_stopped_handler` at the end of each, handlers bound in between | - |
| `Client` | `client` with its locks, retries and destructor; `session_connect::run` and its chain of handlers, `close`, the io_context and its thread | refines `ClientLife`; uses `OneWrite` of `ClientSession` (see below) |
| `ServerSession` | one session of the server from the accepted socket to its destruction | - |
| `SessionManager` | `session_manager`, `listener::on_accept`, `detect_session`, the threads in `broadcast` | uses `OneWrite` of `ServerSession` |
| `Server` | `server`: start, stop, workers, signals, `bind*` | refines `ServerLife` |
| `MCDataCache`, `MCClientSession`, `MCSessionManager`, `MCServer`, `MCClient` | model values and symmetry sets | - |
| `DataCacheProofs`, `ClientSessionProofs`, `ClientPingProofs`, `ClientProofs`, `ServerSessionProofs`, `SessionManagerProofs`, `ServerProofs` | theorems | `ClientSessionProofs` uses `DataCacheProofs` |

Definitions called `Mut...` are plausible defects of the definition that follows
them; no specification uses them. They serve to show that each property fails
when the code it is about is wrong.

### DataCache

A row is named by the call that queued it and an answer by the call it answers,
so "the right answer" is equality of names. Ids are numbers, because whether
they identify calls is one of the questions. Granularity: every critical section
of `m_mtx` is one step, except that of `swap_notify`, which is two. Between them
the row's mutex is free again, and a sleeper that times out can return with the
swapped row before the IO thread has notified it and erased the entry. `wait` is
three steps: entering (`WaitUnknown`, `WaitSwapped`, `WaitSleep`), leaving the
condition variable (`Wake`, `Timeout`) and swapping the buffers (`Take`).
A timeout may fire at any time, a row may expire at any time after it was
queued, an answer may arrive at any time after its id exists (in
`ClientSession`: after the request was handed to the stream), and at most once,
because the server answers a request once. The counter has 64 bits in the code
and is bounded by `MaxId` here, which the finite set of calls never reaches.

### ClientSession

Caller threads interleave with the IO thread; all handlers run on the one IO
thread, so a handler is a step, except `on_read`, whose steps are the cache's
and between which no other handler runs (`IoFree`). `posted` is the io_context's
queue of posted handlers. A promise is `gone` once the caller stopped waiting:
the handler then finds its weak pointer expired. `m_read_error` is not a variable:
it is set exactly where the read loop ends (`ReadError`). Callers enter as long
as the weak session can be locked (`MayCall`); `Close` is `disconnect()`, which
holds the session lock exclusively and therefore finds no caller inside. The
stop and restart of the io_context are left to `Client`: here a posted handler that
no IO thread runs any more is one that drops its message, since `Sendable` is then
false, and no property of this module speaks of it.

### ClientPing

`client::ping` holds the session lock exclusively, so one thread at a time is in
`ping()`. What makes it hard is what earlier calls leave behind: a posted
`handle_ping`, a pending `async_ping` whose frame may be out already, pongs on their
way, `m_pong`. `ping()` is two steps, because `handle_ping` and even the pong may
come between the post and the reset of `m_pong` under `m_ping_mtx`; the pong
callback is two, because the notification follows the unlock. `fresh` is a history
variable: a pong was received since this call began. A pong carries no payload
here or in the code, so a late pong of a call that timed out does count for the next.

### Client

The threads of the application are `Callers`; `call` is the function a thread is in,
`todo` the exclusive function it runs (`send` goes on to `connect` or `disconnect`),
`pc` its place in it. `writer` and `readers` are `m_session_mtx`, which gives no order.
A session is `live` while a caller's `shared_ptr` (`refs`) or a pending operation
(`ops`) refers to it, `dying` while the IO thread, whose handler held the last
reference, is in `on_session_delete`, and `none` afterwards; `m_expired` is a
variable of its own, set there and reset by `construct_session`. When a caller
drops the last reference the deletion is part of its step.

Posted handlers hold weak references. Those left over from a session that is gone
are lumped together as `stale`, since all they do is to keep the io_context from
running out of work. The io_context stops when a handler ends with nothing
pending (`HandlerEnd`); it is restarted by the thread of `run()` (`WorkerRuns`) or by
`close()`, which then runs it on the caller's thread (`inrun`). Between `stopped()`
and the post in `close()` the io_context may stop: `Close` and `ClosePost` are two
steps.

The chain `on_resolve`, `on_connect`, `on_ssl_handshake`, `on_handshake` is one
action each, with success or an error. A handler that fails sets the promise first
and drops its reference later (`ending`), since `run()` may return in between.
`OnConnect` leads to the SSL handshake or, on a plain stream, directly to the
websocket handshake. Reading and writing are as in `ClientSession`; since `OneWrite`
holds there, the queue is represented by the callers whose data is in it. `send`
stands for `send_recv`: to the client they differ only in how long they stay in the
session.

`wait_destruction` ends when the session is deleted (`WaitDestruction`) or gives up
after `deadlock_secs`, at any time (`WaitTimeout`). `disconnect()` and `connect(n)` then
throw: the lock is released, the session stays, and since `send` and `send_recv` call
them the exception leaves these, too, with the data perhaps still in a handler or in
the queue. The thread is then `thrown`. The destructor does not throw; it goes on to the
join, which has no timeout. A thread that calls again while its old data is in use counts
as another member of `Callers`, so that data is named by its thread.
`on_session_delete` deletes the session and sets `m_expired` in one step: `m_expired` is
read only with `m_session_mtx` held, which a deleting caller holds itself, and while the
IO thread is at it the session is `dying`.

### Server

Application threads call `start`, `async_start`, `stop` and `bind*`; workers, and the
thread that called `start`, run the io_context, where handlers may call `stop` (which
then only stops the io_context) or `bind*` (which wait for `m_mtx`). A call that
changes nothing is no step. `m_mtx` is a variable, because `stop()` holds it while it
waits; `m_stop_mtx` is held over more than one step only while `stop()` joins, which is
the guard of `WorkerDone`. `stop()` is five steps: stopping the io_context, `m_mtx`, the
test of the wait's predicate, the sleep, the joins. `listening` is whether the
acceptor is open, `armed` whether a signal is waited for: without either, `run()`
returns by itself. `~server` is a call of `stop()`.

### ServerSession

All handlers run on the session's strand, so a handler is one step. The timer is
modelled by what asio promises: `expires_after` moves the expiry and turns a
pending wait into a handler that is due with `operation_aborted`; the handler may
run after other handlers of the strand. `stream` follows the websocket stream's
status: `async_close` leaves the open state only when it gets the write lock
(`CloseStarts`), so `is_open()` may be true for a while after the shutdown began.
A bound function leaves a response, a close request or nothing. A message that
changes nothing is a stuttering step. The destruction of the session is `~Alive`:
no pending operation, posted handler or armed timer holds it.

### SessionManager

A session is named by the connection it serves; its id is a member of `Addrs`,
because in the code it is the address of its stream, and an address is free for
another session after `Destroyed`. Of a session's life, which `ServerSession`
models, the manager sees the stages: constructed (`handshake`), in the map
(`open`), without owner but still in the map (`dying`: the destructor has begun and
`lock()` fails), out of the map (`removed`) and `gone`. `HandshakeFails` skips the
map, as the destructor does when `m_established` is false. A session is not
destroyed while it holds a message: posted handlers and pending writes hold a
reference to the session, and `OneWrite` of `ServerSession` says that a queue with
messages has a pending write.

`connections()` is computed as in the code, from references: sessions,
messages (the bound deleter holds one) and the temporary of each call of
`connections()` under way, minus the number set by `set_subtract_refs`. The
temporaries are the reason why `is_full()` and the test in `broadcast()` are two
steps each. Left out are the application's own calls of `connections()` and
`bind*`, whose temporaries only make the server look fuller. `broadcast()` is one
step per thing that other threads can see: the limit test, `connections()`, the
message, the increment, the copy of a map under its mutex, each `lock()` and
`send()`, and the return, which drops the caller's reference to the message.
The deleter runs when the last of the sessions and the caller lets go
(`DropPush`). The ids are all of them, for a broadcast to everybody, or what
`get_session_ids()` returned at any earlier time.

## 3. Runs

| Run | Instance | Checks |
|---|---|---|
| `cache` | 3 calls, 2 rows, symmetric | `OwnAnswer`, `NoLostWakeup`, `SuccessErases`, `NoAnswerDropped`, `RefinesRpcCall` |
| `client_session` | 1 `send_recv`, 2 `send`, queue of 2, fair | `OneWrite`, `DataReleased`, `LossServed`, `AnsweredReturns`, `QueuedResolved`, `LossWakesSleepers`, `SessionEnds` |
| `client_ping` | 3 pings, fair | `OnePing`, `FreshPong`, `NoLostPong`, `PongEndsPing` |
| `client` | 2 threads, 2 attempts, any number of calls and sessions, fair | `ExpiredGone`, `NothingLeft`, `HandshakeGuarded`, `WriterServed`, `WriterReturns`, `DisconnectReturns`, `RefinesClientLife` |
| `server_session` | queue of 3, 4 messages, 2 pings, fair | `OneWrite`, `Delivery`, `CloseOnce`, `EndServed`, `SessionEnds`, `SilentPeerRemoved` |
| `manager` | 2 connections, 2 broadcasts, 2 addresses, limits of 1, with and without SSL, symmetric | `RegistryExact`, `NoDeadReceiver`, `MessagesCounted`, `BroadcastReaches`, `SessionLimit` |
| `server` | 2 application threads, 3 workers, any number of starts and stops, fair | `WorkersJoined`, `StopServed`, `JoinSafe`, `StopReturns`, `RefinesServerLife` |

The type invariants are the first conjuncts of the inductive invariants (`CacheInv`,
`SessionInv`, `ClientInv`, `ManagerInv`, `ServerInv`, `PingInv`). These were checked by TLC on the
same instances while the proofs were made; since they are theorems (section 5) the
runs do not repeat them.

What they show:

* `OwnAnswer`, `RefinesRpcCall`: whatever times out, expires or arrives late, a
  call returns its own answer or an error; it returns an empty success only after
  the connection was lost.
* `NoLostWakeup`, `AnsweredReturns`: no order of `wait`, `swap_notify` and `clear`
  leaves a sleeper behind; an answered sleeper returns without its timeout.
* `SuccessErases`, `NoAnswerDropped`: the table is left on success, and an answer
  is never dropped before its row has expired.
* `OneWrite` (both sides), `Delivery`: writes never overlap, no buffer is freed
  under a pending write, and queued messages go out once and in order.
* `DataReleased`: the promise in the comment of `client::send` that the data is
  not used after the call returns without a timeout.
* `QueuedResolved`, `LossWakesSleepers`, `SessionEnds` (both sides),
  `SilentPeerRemoved`, `CloseOnce`: nothing that somebody waits for
  fails to happen when connections end, and sessions end in one way only.
* `LossServed`, `EndServed`: the states on which those rest. On the client nobody is
  asleep and forgotten once reading has ended, although calls still enter after the last
  `clear()`; on both sides whatever ends a session is done or under way. On the server the
  timer runs until the session is closing (`TimerRuns`, a conjunct), and after an error
  it is left to find the closed stream even if a pong has reset the ping state.
* `RegistryExact`, `NoDeadReceiver`, `BroadcastReaches`: reused ids, destructors and
  broadcasts in any order leave the maps exact; a broadcast uses living sessions
  only, and misses none it was meant for that was open from its begin to its end.
* `MessagesCounted`: whichever thread lets go of a message last, it is counted off
  once. Concurrent broadcasts can push the counter
  above `queue_send_max`, since it is tested before it is incremented.
* `SessionLimit`: without SSL, `max_sessions` holds even for sessions in their
  handshake or their destructor.
* `OnePing`, `FreshPong`, `NoLostPong`, `PongEndsPing`: pings that time out and are
  repeated never overlap on the stream, a pong of an answered call is not counted
  again, and one that is received while `ping()` waits ends the wait.
* `ExpiredGone`, `NothingLeft`, `HandshakeGuarded`: whatever fails or throws and
  whoever reconnects, two sessions never share the io_context, no joinable thread is
  overwritten or destroyed, the destructor leaves nothing behind, and what callers and
  handlers share is touched under the lock or when nobody else can.
* `RefinesClientLife`: seen from outside there is one session at a time, opened anew only
  after the one before is deleted. The data of a `send` is given to an open session and
  is unused when the call returns or tries again, after a send that timed out, too,
  because the `disconnect()` in between waits for the session. When that wait itself times
  out the call ends with an exception, and its data may still be in use: but only by a
  session that is over, until that session is deleted, and never by the next one. Nothing
  comes after the destructor, even if its wait times out.
* `WriterServed`: a thread that waits while it holds `m_session_mtx` waits for something
  under way: a handler somebody runs, a thread that leaves the io_context.
* `WriterReturns`: each exclusive section ends provided that the operations it waits for do
  (`StreamAnswers`). This is a premise of the property and no fairness, because the code
  does not guarantee it (section 4).
* `DisconnectReturns`: `disconnect()` ends, by return or exception, without that premise,
  although the io_context that `close()` may run on the caller's thread has no timeout.
* `StopServed`, `JoinSafe`, `WorkersJoined`, `StopReturns`: the handover between workers
  and `stop()` loses no wakeup and cannot block on `m_stop_mtx`, and generations of
  workers do not mix; a `stop()` that finds the io_context still stopped returns, unless
  a handler or the hook waits for `m_mtx`.
* `RefinesServerLife`: each `async_start` that was given an `io_stopped_handler` gets one
  call of it, after the last worker has left the io_context and before `stop()` returns;
  handlers are bound when no worker exists, and no start comes meanwhile.

Deadlock is not checked: a finite set of calls or messages is used up, a session
or a client that is destroyed stops, and `Server` has the deadlock of a handler that
waits for `m_mtx` while `stop()` waits for it, which `StopReturns` excepts.

Bounds. Three calls on a table of two rows give every pairing of a late answer
with a call that came later, and a refused call. The client's queue of two
entries has one being written, one waiting and, with a third, one refused; the
server's queue of three has two waiting, whose order can be confused. In
`client_session` one caller of `send_recv` is enough, since what several of them do to
the table is the question of `cache`; the two calls of `send` give it competitors for the
queue. Two connections with limits of one give a refused connection, a reused
address and two broadcasts that pass the same limit; either may wait in any of its
steps. Three pings let a call meet what two earlier ones left. In `Client` and
`Server` calls are not counted, so sessions and generations of workers follow each
other without bound; two threads give every pair of functions, one of which may
wait for the other's lock, and two attempts a retry that succeeds or is the last.
Three workers give, after `async_start`, a first, a middle and a last one to leave.
Symmetry is used only in the runs without fairness, where calls, connections and
broadcasts are interchangeable.

Five runs are expected to fail: they check what a comment says, and show that
the code does something else.

| Run | The comment | What happens |
|---|---|---|
| `server_stop_race` | `server.hpp:261`: "it will stop the io, wait for and join the workers. [thread-safe]" | a start between the stop of the io_context and `m_mtx` restarts it; `stop()` waits for workers that nothing stops |
| `client_connect_true` | `client.hpp:307`: "True if connected, false if not." | `connect()` returns true for a session that has failed or is being deleted |
| `client_two_runners` | `client_session.hpp:446-447`: "No Strand ("io_context" single threaded)" | `close()` restarts the stopped io_context and runs it on its own thread before the IO thread has left `run()`, which then goes on as well |
| `ping_pong_lost` | `client.hpp:371`: "True if pong received, false if not." | a pong received before `m_pong` is reset is forgotten |
| `manager_max_sessions` | `types.hpp:145`: "The maximum amount of sessions." | with SSL several connections pass `is_full()` before one is a session |

More disagreements are visible in the models and have no run of their own:

* `wait` returns true without data when `clear()` wakes it (`data.hpp:249`: "True if
  data received"; `RpcCall` allows the empty success after a lost connection).
* A `wait` that times out leaves its entry (`data.hpp:332`: "anyway with 'wait()'").
* `remove_obsolete` erases rows that are waited on (`data.hpp:329`: "not being waited
  on"): it tests their age only, and an answer that comes later is dropped.
* `send()` reports success for a message that `data_queue::clear()` dropped
  (`client.hpp:397`: "True if no error occured"): the promise's value is ignored.
* A close requested by a bound function is lost when a ping or pong is read before
  the cancelled timer's handler runs (`server_session.hpp:119`: "Asks the session to
  close"): line 945 resets the ping state. This needs two workers, or a read completion
  queued on the strand before the cancelled wait; asio gives no order between
  handlers that reach a strand from different sources.
* A session's id is the address of its stream and is reused (`server_session.hpp:75`:
  "The unique id"): a broadcast to old ids may reach a later session.
* `is_full()` (`server_session.hpp:538`) counts messages in flight and other threads'
  calls of `connections()`, so that a client may be refused although there are fewer
  sessions than `max_sessions`.
* The thread that called `start()` is not joined by `stop()`: it may still be in a
  handler when `bind*()` succeeds (`RefinesServerLife` and `BindQuiet` are about workers only).
* The timeout of `wait_destruction` "should not happen" (`client.hpp:341`, `:365`). It
  does when a close takes longer than `deadlock_secs`, as it may with the default
  `handshake_timeout` (`types.hpp:112`: none); the exception leaves `send()` with the data
  still referred to; the promise of `client.hpp:391`, "After return the data will not be used
  anymore", covers a return only.

## 4. Fairness

* `ClientSession!Fairness`: the io_context runs ready handlers in the order they
  became ready, so none is overtaken for ever, a notified thread runs, and the IO
  thread finishes the handler it is in; since `IoFree` disables them while
  `on_read` is under way, this is strong fairness. `async_close` ends by the
  stream's handshake timeout, if one is configured (see below); a pending write completes
  or fails, because TCP makes progress or breaks (a peer that keeps the connection but
  never reads is excluded by this assumption); a read on a closed stream fails.
* `ServerSession!Fairness`: workers run ready handlers, time passes, the handshake
  and the close end by their timeouts, if configured, writes complete or fail. The peer
  need not send anything, and a bound function need not be called.
* `ClientPing!Fairness`: a notified thread runs, and the pong callback ends. Nothing
  is assumed of the server, the stream or the timeout.
* `Client!Fairness`: a thread inside a function goes on, its waits time out where the
  code gives them a timeout, the IO thread starts and ends, and handlers that are ready
  run: posted ones, the end of a failed connection, and operations on a stream that is no
  longer read from, which complete at once because Beast finds it closed. Nothing is
  assumed of the resolver, the peer or the timeouts of the stream: `async_resolve` has
  none, the others are off by default, and the code says itself that `run()` "could get
  stuck" (`client_session.hpp:724-725`). That these operations end is the premise
  `StreamAnswers` of `WriterReturns`. Nothing is assumed about who gets `m_session_mtx`
  either, so a thread may wait for it for ever, but none keeps it.
* `Server!Fairness`: bound handlers and hooks return, workers that left the io_context
  go on, and so does a `stop()` that holds `m_mtx`. Nothing is assumed about who gets a
  mutex or about what the application calls.

`DataCache` and `SessionManager` are checked without fairness.

The defaults are weaker than this. `handshake_timeout` of the client (`types.hpp:112`) and
`handshake_or_close_timeout` of the server (`types.hpp:167`) are `duration::max()`: no
timeout. `SessionEnds` of both sides and `SilentPeerRemoved` therefore hold of a session
whose timeout is configured and whose peer reads: without the first, `async_close` may
wait for the peer's close frame for ever, and it waits for the write lock, behind a
pending write, without any timeout.

## 5. Proofs

The constants are arbitrary, within their named assumptions (`CacheAssumption`,
`SessionAssumption`, `ClientAssumption`, `ManagerAssumption`, `CallerAssumption`,
`ServerAssumption`, `PingAssumption`): disjoint kinds of names, limits that are natural
numbers, at least one worker and one attempt (the constructor of `client` enforces the
latter), finite sets of connections and broadcasts. Threads are any set.

* `DataCacheProofs`. `CacheInv` is inductive. `OwnAnswer` alone is not: one needs
  that ids identify calls (`IdsInv`), that an entry is the row queued under its
  id (`EntriesInv`) and that rows hold their own answer (`OwnInv`). `NoLostWakeup`
  needs what the notified set and the success flag say about the table
  (`WaitInv`). The refinement of `RpcCall` needs, in addition, that as long as
  the connection lives a swapped row has its answer where the caller will look
  for it (`AnswerInv`). One lemma per action shows `CacheInv'`; `CacheRefinesRpcCall`
  then maps every step to a step of `RpcCall` or a stutter.
* `ServerSessionProofs`. `SessionInv` ties the numbers of pending writes and
  started closes to the queue and `m_close`, and the timer to the close flags;
  `Delivery` is proved from it for every limit. `EndServed` needs, in addition, that
  nothing has happened to a session that is not open yet (`EndInv`). `TimerRuns` is a
  conjunct of both, and a theorem.
* `ClientSessionProofs`. Every step of the session is a step of the cache or leaves
  it alone, so `Spec => CacheSpec` and everything proved of the cache holds of
  the session, `RefinesRpcCall` included. `ReferenceInv` (a caller's data is
  referenced once, and only while its promise is unresolved) makes `ClientInv`
  inductive and gives `OneWrite` and `DataReleased`. `LossServed` is about calls that
  enter while the session ends and needs `LateInv`: a call that comes after `clear()` is
  not written, its promise stays unresolved, and so it never comes to sleep. The sleepers
  of before are reached by `clear()` because a row that is neither
  answered nor expired is in the table (`AnswerInv`), and an answered one was notified. `EndInv` follows a close from its request to its end.
* `SessionManagerProofs`. `RegistryExact` needs that living sessions have addresses
  of their own (`AddrInv`), which makes the erase of `remove_session` hit its own
  entry. `BroadcastReaches` needs that the ids given cover the open sessions they
  were taken from (`IdsInv`: an id can only change its session after that session
  has died) and that a session still owed the message lies ahead of the broadcast,
  in the copy it works on or in the map to come (`OwedInv`). That a broadcast told
  "no connections" owes nobody is an argument about cardinalities: its own
  temporary is the one reference that is left (`NobodyMeansNone`).

  `MessagesCounted` rests on `MessageInv` (a message exists exactly while
  somebody holds it) and on cardinalities of sets that change by one; `SessionLimit`
  on `LimitInv` (without SSL only the connection in `is_full()` is about to become a
  session, and the count it is told includes all sessions).
* `ServerProofs`. `NoLostStop` needs that `m_workers_done` is the number of workers that
  counted themselves (`CountInv`) and that only the last one notifies (`LastInv`);
  `JoinSafe` follows from `CountInv`, since as many as there are workers have counted
  themselves. That the mutex protects the wait (`MutexInv`, `StopInv`) gives
  `WorkersJoined` and `BindQuiet`. `StopServed` is stronger than `NoLostStop`: if all
  workers had counted themselves and none were about to notify, the count would equal
  the number of workers and the last of them would have notified. `ServerRefinesLife`
  maps the steps of threads to the phases of a generation. The set of workers still in
  the io_context or before their count (`Serving`) empties with the step of the one for
  which `IsLast` holds, by a count of finite sets; every other step of a worker
  leaves the phase alone. `NoLostStop` is a conjunct of the inductive invariant;
  `HookLast` and `BindQuiet` say of single threads what the contract says of generations.
  The three are theorems, and no run repeats them.
* `ClientProofs`. `ClientInv` has five parts: who holds the lock and who a reference
  (`LockInv`), that a session lives exactly while it is referred to (`SessionInv`),
  what the destructor excludes (`ExitInv`), that the connection handlers follow each
  other under the lock of the thread in `run()` (`ChainInv`), and whose data may be in
  a handler or in the queue (`DataInv`). A lemma per group of actions proves each part;
  most properties then follow without further induction.

  `WriterServed` is the safety core of `WriterReturns` and `DisconnectReturns`: no state in
  which the lock is held and nothing that could release it is left. It needs a second
  invariant, and the two are inductive only together: `ClientInv` alone does not survive
  a destructor whose wait timed out, because only `ServedInv` tells that a thread that can
  be joined has left no session behind (`ExitDone`). `ServedInv` says that the io_context runs while it has something
  to do and only then (`IoInv`: this is where the race between `stopped()` and the post
  in `close()`, and the restart in `run()`, have to be right), that a close once begun
  is always at one of its stages (`EndInv`: `close()` before its post, the posted handler,
  `async_close`, a stream that is closed) and what each waiting thread left behind before
  it began to wait (`WaitInv`).

  `ClientRefinesLife` maps every step to a step of `ClientLife` or a stutter. It needs
  `StageInv`: while no connection stands a thread is in `run()`, and a standing
  connection is read from, so that a session whose last reference is dropped is over and
  not merely idle. `CallInv` says which function a thread at a given place is in.
  `DataReleased` is then a fact about the contract: a call throws only when the session
  is over, and a session that is over stays so until it is deleted, with all references
  to data, so that what a thread left behind is always in a session that is over
  (`ThrownOver`).
* `ClientPingProofs`. `PingInv` adds to the properties that a pong `ping()` may see is a
  fresh one.

Every invariant a passing run checks is also proved, and so are the refinements: that
the cache, and the session with it, implement `RpcCall`, that the client implements
`ClientLife` and the server `ServerLife`. The contracts are safety specifications. Only
model-checked is liveness, since TLAPS does not reason about fairness and ENABLED
here: `AnsweredReturns`, `QueuedResolved`, `LossWakesSleepers`, `SessionEnds` (both
sides), `SilentPeerRemoved`, `StopReturns`, `WriterReturns`,
`DisconnectReturns`, `PongEndsPing`. Each has a
proved safety core, the statement that what is waited for is still coming:

| Liveness (TLC) | Safety core (TLAPS) |
|---|---|
| `AnsweredReturns` | `NoLostWakeup` |
| `QueuedResolved` | `OneWrite` (a queue that is not empty has its head being written) |
| `LossWakesSleepers`, `SessionEnds` of the client | `LossServed` |
| `SessionEnds` of the server, `SilentPeerRemoved` | `EndServed` |
| `WriterReturns`, `DisconnectReturns` | `WriterServed` |
| `StopReturns` | `StopServed` |
| `PongEndsPing` | `NoLostPong` |

## 6. Not modelled

Payloads, headers and handshake contents (call ids included), logging, SSL beyond
its handshake step, the arithmetic of durations and the thread-local timeouts (any
timeout may fire at any time), and the inside of Boost.Asio and Beast, whose operations
complete at any time with success or an error. Exceptions (allocation, misuse of
`bind`, `remote_endpoint()` of a peer that is gone) are left out; so are the calls the
code neither supports nor prevents: functions of `client` called by a broadcast handler
on the IO thread, `stop()` called by `io_stopped_handler`, a server with no worker.
An accept that fails only leads to the next one, and is a handler without effect in
`Server`. The examples, the tests and the vendored headers are not modelled.

## 7. Plan

1. Done: all components of the inventory that keep state, their safety properties
   and proofs, the refinements of `RpcCall`, `ClientLife` and `ServerLife`.
2. An end-to-end composition of a client session and a server session over a FIFO
   stream, in which the answers of `ClientSession` come from the other side and a
   call id may collide with a broadcast id (`client_session.hpp:210`).
3. The stream's rule on overlapping pings for the server's `async_ping`, which
   `ServerSession` counts up to `MaxPings`.
4. A proof that `Client`'s view of a session (referred to, closing, deleted) is what
   `ClientSession` implements.
