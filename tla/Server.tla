------------------------------- MODULE Server -------------------------------
(***************************************************************************)
(* server (server.hpp): start(), async_start(), stop() and bind*() called  *)
(* by threads of the application, the workers that run the io_context, the *)
(* signal handler, and the handlers (of the listener, of sessions) that    *)
(* call back into the server.                                              *)
(*                                                                         *)
(* The thread that called start() runs the io_context too, so it has the   *)
(* same states as a worker while it does.  A call that changes nothing     *)
(* (start() of a running server, bind*() that returns false) is no step.   *)
(* connections(), the other condition of bind*(), may have any value.      *)
(***************************************************************************)
EXTENDS Integers, FiniteSets

CONSTANTS Apps,        \* threads of the application
          NumWorkers,  \* server_cfg.workers
          None

Pool == 1..NumWorkers  \* places in m_workers
Threads == Apps \cup Pool

ASSUME ServerAssumption ==
    /\ NumWorkers \in Nat \ {0}
    /\ Apps \cap Pool = {}
    /\ None \notin Threads

VARIABLES
    listening,       \* whether the acceptor could be opened
    m_mtx,           \* the thread that holds it, or None
    m_running,
    m_async_start,
    m_workers_done,
    hook,            \* whether async_start() was given an io_stopped_handler
    armed,           \* whether m_signals waits for a signal
    stopped,         \* m_io_ctx.stopped()
    pc               \* where each thread is

vars == <<listening, m_mtx, m_running, m_async_start, m_workers_done, hook,
          armed, stopped, pc>>
config == <<m_running, m_async_start, m_workers_done, hook>>

\* In m_io_ctx.run():  run: between handlers;  handler;  lock: in a handler that
\* called bind*() and waits for m_mtx.
IoPc == {"run", "handler", "lock"}

\* none: no thread;  left: run() returned;  notify: counted as the last one;
\* hook, hooklock: in io_stopped_handler, and there in bind*();  ended: joinable.
WorkerPc == IoPc \cup {"none", "left", "notify", "hook", "hooklock", "ended"}

\* stop: stop() has stopped the io_context;  wait: holds m_mtx, about to test
\* the number of workers;  sleep: on m_cv_stop;  join;  bind: writes a handler.
AppPc == IoPc \cup {"idle", "stop", "wait", "sleep", "join", "bind"}

InIo(t) == pc[t] \in IoPc
Counted(w) == pc[w] \in {"notify", "hook", "hooklock", "ended"}

\* The threads that a start makes, and that stop() waits for.
Workers == IF m_async_start THEN NumWorkers ELSE NumWorkers - 1

TypeOK ==
    /\ listening \in BOOLEAN /\ m_running \in BOOLEAN
    /\ m_async_start \in BOOLEAN /\ hook \in BOOLEAN
    /\ armed \in BOOLEAN /\ stopped \in BOOLEAN
    /\ m_mtx \in Apps \cup {None}
    /\ m_workers_done \in 0..NumWorkers
    /\ pc \in [Threads -> WorkerPc \cup AppPc]
    /\ \A a \in Apps : pc[a] \in AppPc
    /\ \A w \in Pool : pc[w] \in WorkerPc

\* The constructor opens the listener, which may fail, and waits for a signal.
Init ==
    /\ listening \in BOOLEAN
    /\ m_mtx = None
    /\ m_running = FALSE /\ m_async_start = FALSE
    /\ m_workers_done = 0 /\ hook = FALSE
    /\ armed = TRUE /\ stopped = FALSE
    /\ pc = [t \in Threads |-> IF t \in Apps THEN "idle" ELSE "none"]

-----------------------------------------------------------------------------
(* Each Mut operator is a defect in the definition that follows it. *)

\* every worker believes to be the last
MutIsLast == TRUE
\* the number of workers of async_start() whatever call started the server
MutIsLastAsync == m_workers_done + 1 = NumWorkers
\* notify = ++m_workers_done == workers
IsLast == m_workers_done + 1 = Workers

MutAllDone == m_workers_done >= Workers - 1       \* off by one
\* The predicate of m_cv_stop.
AllDone == m_workers_done = Workers

MutJoined == TRUE                                 \* the workers are detached
Joined == \A w \in Pool : pc[w] \in {"none", "ended"}

MutMayBind == TRUE                                \* m_running is not tested
MayBind == ~m_running

\* start() and async_start() under m_mtx, with run_async_workers().  The caller
\* of start() then runs the io_context as well.
Start(a, async) ==
    LET n == IF async THEN NumWorkers ELSE NumWorkers - 1 IN
    /\ pc[a] = "idle"
    /\ m_mtx = None /\ ~m_running
    /\ stopped' = FALSE
    /\ m_running' = TRUE /\ m_async_start' = async
    /\ m_workers_done' = 0
    /\ hook' \in IF async THEN BOOLEAN ELSE {FALSE}
    /\ pc' = [t \in Threads |->
                IF t \in Pool THEN (IF t <= n THEN "run" ELSE "none")
                ELSE IF t = a /\ ~async THEN "run" ELSE pc[t]]
    /\ UNCHANGED <<listening, m_mtx, armed>>

-----------------------------------------------------------------------------
(* The io_context: workers and the caller of start(). *)

\* A handler of the listener or of a session.
Handler(t) ==
    /\ pc[t] = "run" /\ ~stopped /\ listening
    /\ pc' = [pc EXCEPT ![t] = "handler"]
    /\ UNCHANGED <<listening, m_mtx, config, armed, stopped>>

HandlerEnd(t) ==
    /\ pc[t] = "handler"
    /\ pc' = [pc EXCEPT ![t] = "run"]
    /\ UNCHANGED <<listening, m_mtx, config, armed, stopped>>

\* stop() called by a bound handler: it stops the io_context and no more.
HandlerStop(t) ==
    /\ pc[t] = "handler"
    /\ stopped' = TRUE
    /\ UNCHANGED <<listening, m_mtx, config, armed, pc>>

\* bind*() called by a handler, or by io_stopped_handler.
HandlerBind(t) ==
    /\ pc[t] \in {"handler", "hook"}
    /\ pc' = [pc EXCEPT ![t] = IF @ = "hook" THEN "hooklock" ELSE "lock"]
    /\ UNCHANGED <<listening, m_mtx, config, armed, stopped>>

\* It gets the mutex and returns.
HandlerBound(t) ==
    /\ pc[t] \in {"lock", "hooklock"}
    /\ m_mtx = None
    /\ pc' = [pc EXCEPT ![t] = IF @ = "lock" THEN "handler" ELSE "hook"]
    /\ UNCHANGED <<listening, m_mtx, config, armed, stopped>>

\* on_signal, which does not wait for another signal.
OnSignal(t) ==
    /\ pc[t] = "run" /\ ~stopped /\ armed
    /\ armed' = FALSE /\ stopped' = TRUE
    /\ UNCHANGED <<listening, m_mtx, config, pc>>

\* run() finds nothing to wait for: no acceptor and no signal wait.
OutOfWork(t) ==
    /\ pc[t] = "run" /\ ~stopped /\ ~listening /\ ~armed
    /\ stopped' = TRUE
    /\ UNCHANGED <<listening, m_mtx, config, armed, pc>>

\* run() returns, and so does start() if it called it.
LeaveRun(t) ==
    /\ pc[t] = "run" /\ stopped
    /\ pc' = [pc EXCEPT ![t] = IF t \in Apps THEN "idle" ELSE "left"]
    /\ UNCHANGED <<listening, m_mtx, config, armed, stopped>>

\* The worker counts itself under m_stop_mtx, which stop() holds when it joins.
WorkerDone(w) ==
    /\ pc[w] = "left"
    /\ \A a \in Apps : pc[a] # "join"
    /\ m_workers_done' = m_workers_done + 1
    /\ pc' = [pc EXCEPT ![w] = IF IsLast THEN "notify" ELSE "ended"]
    /\ UNCHANGED <<listening, m_mtx, m_running, m_async_start, hook, armed, stopped>>

\* notify_all(), after which the last worker calls io_stopped_handler.
Notify(w) ==
    /\ pc[w] = "notify"
    /\ pc' = [t \in Threads |->
                IF t = w THEN (IF hook THEN "hook" ELSE "ended")
                ELSE IF pc[t] = "sleep" THEN "wait" ELSE pc[t]]
    /\ UNCHANGED <<listening, m_mtx, config, armed, stopped>>

HookEnd(w) ==
    /\ pc[w] = "hook"
    /\ pc' = [pc EXCEPT ![w] = "ended"]
    /\ UNCHANGED <<listening, m_mtx, config, armed, stopped>>

-----------------------------------------------------------------------------
(* stop() and bind*() called by threads of the application. *)

StopIo(a) ==
    /\ pc[a] = "idle"
    /\ stopped' = TRUE
    /\ pc' = [pc EXCEPT ![a] = "stop"]
    /\ UNCHANGED <<listening, m_mtx, config, armed>>

StopLock(a) ==
    /\ pc[a] = "stop" /\ m_mtx = None
    /\ m_mtx' = IF m_running THEN a ELSE None
    /\ pc' = [pc EXCEPT ![a] = IF m_running THEN "wait" ELSE "idle"]
    /\ UNCHANGED <<listening, config, armed, stopped>>

\* The predicate of the wait under m_stop_mtx.
StopTest(a) ==
    /\ pc[a] = "wait"
    /\ pc' = [pc EXCEPT ![a] = IF AllDone THEN "join" ELSE "sleep"]
    /\ UNCHANGED <<listening, m_mtx, config, armed, stopped>>

SpuriousWakeup(a) ==
    /\ pc[a] = "sleep"
    /\ pc' = [pc EXCEPT ![a] = "wait"]
    /\ UNCHANGED <<listening, m_mtx, config, armed, stopped>>

\* All joins have returned; stop() returns.
StopJoin(a) ==
    /\ pc[a] = "join" /\ Joined
    /\ m_running' = FALSE
    /\ m_mtx' = None
    /\ pc' = [t \in Threads |->
                IF t = a THEN "idle"
                ELSE IF t \in Pool /\ pc[t] = "ended" THEN "none" ELSE pc[t]]
    /\ UNCHANGED <<listening, m_async_start, m_workers_done, hook, armed, stopped>>

\* bind*() has tested its condition under m_mtx and writes the handler.
Bind(a) ==
    /\ pc[a] = "idle" /\ m_mtx = None
    /\ MayBind
    /\ m_mtx' = a
    /\ pc' = [pc EXCEPT ![a] = "bind"]
    /\ UNCHANGED <<listening, config, armed, stopped>>

BindEnd(a) ==
    /\ pc[a] = "bind"
    /\ m_mtx' = None
    /\ pc' = [pc EXCEPT ![a] = "idle"]
    /\ UNCHANGED <<listening, config, armed, stopped>>

-----------------------------------------------------------------------------
IoNext(t) ==
    \/ Handler(t) \/ HandlerEnd(t) \/ HandlerStop(t) \/ HandlerBind(t)
    \/ HandlerBound(t) \/ OnSignal(t) \/ OutOfWork(t) \/ LeaveRun(t)

WorkerNext(w) == WorkerDone(w) \/ Notify(w) \/ HookEnd(w)

AppNext(a) ==
    \/ \E async \in BOOLEAN : Start(a, async)
    \/ StopIo(a) \/ StopLock(a) \/ StopTest(a) \/ SpuriousWakeup(a)
    \/ StopJoin(a) \/ Bind(a) \/ BindEnd(a)

Next ==
    \/ \E t \in Threads : IoNext(t)
    \/ \E w \in Pool : WorkerNext(w)
    \/ \E a \in Apps : AppNext(a)

Spec == Init /\ [][Next]_vars

\* Threads run, bound handlers and hooks return, run() returns when it is stopped
\* or out of work.
\* Nothing is assumed of who gets a mutex.
Fairness ==
    /\ \A t \in Threads : /\ WF_vars(HandlerEnd(t)) /\ WF_vars(LeaveRun(t))
                          /\ WF_vars(OutOfWork(t))
    /\ \A w \in Pool : WF_vars(WorkerNext(w))
    /\ \A a \in Apps : WF_vars(StopTest(a)) /\ WF_vars(StopJoin(a))

FairSpec == Spec /\ Fairness

-----------------------------------------------------------------------------
(* Properties. *)

\* When the server is not running no worker thread exists.  start() may then
\* replace m_workers: it never destroys a joinable thread, which would terminate
\* the program, and two generations of workers never share m_workers_done.
WorkersJoined == ~m_running => \A w \in Pool : pc[w] = "none"

\* stop() does not sleep through the end of the workers: if it sleeps while all
\* of them are done, the last one has not called notify_all() yet.
NoLostStop ==
    \A a \in Apps : pc[a] = "sleep" /\ m_workers_done = Workers =>
        \E w \in Pool : pc[w] = "notify"

\* stop() joins with m_stop_mtx held.  No worker needs that mutex any more.
JoinSafe ==
    \A a \in Apps : pc[a] = "join" => \A w \in Pool : pc[w] # "left" /\ ~InIo(w)

\* io_stopped_handler is called once for each async_start(), when the last
\* worker has left the io_context.
HookLast ==
    \A w \in Pool : pc[w] \in {"hook", "hooklock"} =>
        \A v \in Pool \ {w} : pc[v] = "ended"

\* No worker is in a handler while bind*() writes what handlers read without a
\* lock (bound_funcs, on_listen, on_accept, on_disconnect).
BindQuiet ==
    \A a \in Apps : pc[a] = "bind" => \A w \in Pool : pc[w] = "none"

\* A stop() that sleeps has a worker that will wake it: one that has not counted
\* itself yet, or the last one before its notify_all().
StopServed ==
    \A a \in Apps : pc[a] = "sleep" =>
        \E w \in Pool : InIo(w) \/ pc[w] \in {"left", "notify"}

\* A stop() that got m_mtx while the io_context was still stopped returns, unless
\* a handler or io_stopped_handler waits for m_mtx.
StopReturns ==
    \A a \in Apps :
        pc[a] = "wait" /\ stopped
            ~> pc[a] = "idle" \/ \E t \in Threads : pc[t] \in {"lock", "hooklock"}

-----------------------------------------------------------------------------
(* The contract. *)

\* Workers that have not counted themselves, and the one in the hook.
Serving == {w \in Pool : InIo(w) \/ pc[w] = "left"}
Hooked == {w \in Pool : pc[w] \in {"hook", "hooklock"}}

Phase ==
    IF ~m_running THEN "down"
    ELSE IF Hooked # {} THEN "hook"
    ELSE IF Serving # {} THEN "serving"
    ELSE "quiet"

\* The io_stopped_handler is kept by the workers that may still call it.
Asked == m_running /\ hook /\ \E w \in Pool : w \in Serving \/ pc[w] = "notify"

Life == INSTANCE ServerLife WITH phase <- Phase,
                                 asked <- Asked,
                                 binding <- \E a \in Apps : pc[a] = "bind"

\* The server implements its contract: one io_stopped_handler for each
\* async_start() that was given one, called when all workers have left the
\* io_context and returned before stop() returns, and no bind*() meanwhile.
RefinesServerLife == Life!LifeSpec

-----------------------------------------------------------------------------
(* The inductive invariant. *)

\* m_mtx is held by the stop() or bind*() that is past its lock.
MutexInv ==
    \A a \in Apps : pc[a] \in {"wait", "sleep", "join", "bind"} <=> m_mtx = a

\* Workers that have counted themselves are exactly the counted ones; the places
\* beyond the number of workers are empty.
CountInv ==
    m_running =>
        /\ \A w \in Pool : pc[w] = "none" <=> w > Workers
        /\ m_workers_done = Cardinality({w \in Pool : Counted(w)})

\* Only the last worker notifies, and only then the hook runs.
LastInv ==
    \A w \in Pool : pc[w] \in {"notify", "hook", "hooklock"} =>
        \A v \in Pool \ {w} : pc[v] \in {"none", "ended"}

StopInv ==
    \A a \in Apps :
        /\ pc[a] \in {"wait", "sleep", "join"} => m_running
        /\ pc[a] = "bind" => ~m_running
        /\ pc[a] = "join" => m_workers_done = Workers

HookInv ==
    \A w \in Pool : pc[w] \in {"hook", "hooklock"} => hook /\ m_async_start

HookGiven == hook => m_async_start

ServerInv ==
    /\ TypeOK
    /\ MutexInv
    /\ WorkersJoined
    /\ CountInv
    /\ LastInv
    /\ StopInv
    /\ HookInv
    /\ HookGiven
    /\ NoLostStop

-----------------------------------------------------------------------------
(* What a comment says, and the code does not do. *)

\* stop(): "it will stop the io, wait for and join the workers. [thread-safe]".
StopEnds ==
    \A a \in Apps :
        pc[a] = "wait"
            ~> pc[a] = "idle" \/ \E t \in Threads : pc[t] \in {"lock", "hooklock"}
=============================================================================
