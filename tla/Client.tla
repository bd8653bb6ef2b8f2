------------------------------- MODULE Client -------------------------------
(***************************************************************************)
(* client (client.hpp) and the connecting half of session_connect          *)
(* (impl/client/client_session.hpp): threads that connect, disconnect,     *)
(* ping, send with retries and destroy the client, the thread that runs    *)
(* the io_context, and the life of the session between them.               *)
(*                                                                         *)
(* The session is alive while a caller holds a shared_ptr (refs) or an     *)
(* asynchronous operation is pending (ops); m_session.lock() works while   *)
(* it is "live".  Its last reference is dropped by a caller, or at the end *)
(* of a handler: then the IO thread is in on_session_delete while the      *)
(* session is "dying".  Posted handlers hold weak references; those of     *)
(* former sessions are lumped together as "stale".                         *)
(*                                                                         *)
(* Reading, queueing and writing are as in ClientSession, whose OneWrite   *)
(* allows to represent the write queue by the set of callers in it.  send  *)
(* stands for send_recv too, which only stays longer in the session.       *)
(***************************************************************************)
EXTENDS Integers, FiniteSets

CONSTANTS Callers,   \* threads of the application
          Attempts,  \* send_attempts, and the attempts given to connect()
          None

ChainOps == {"resolve", "connect", "ssl", "handshake"}
SessionOps == ChainOps \cup {"ending", "read", "close", "ping"}
Posts == {"close", "ping", "stale"}
Exclusive == {"connect", "connectN", "disconnect", "ping", "listen", "response",
              "destroy"}

ASSUME CallerAssumption ==
    /\ None \notin Callers
    /\ Callers \cap (SessionOps \cup Posts) = {}
    /\ Attempts \in Nat \ {0}

VARIABLES
    writer, readers,    \* m_session_mtx: exclusive holder or None, shared ones
    m_exit, m_expired,
    pc,                 \* where each thread is
    call,               \* the function each thread is in
    todo,               \* the exclusive function it is in, or will be in next
    left,               \* attempts left
    session,            \* "none", "live" or "dying"
    refs,               \* callers that hold a shared_ptr to it
    ops,                \* its pending operations; a caller: its data is queued
    run,                \* m_run_callback
    flags,              \* bool members of the session that are true
    lost,               \* the stream is closed
    written,            \* callers whose write_callback has a value
    posted,             \* handlers in the io_context's queue
    stopped,            \* m_io_ctx.stopped()
    worker,             \* m_io_worker
    inrun               \* callers inside m_io_ctx.run()

lockVars == <<writer, readers, m_exit>>
callVars == <<pc, call, todo, left>>
streamVars == <<ops, run, flags, lost>>
sessionVars == <<m_expired, session, refs, streamVars, written, posted>>
ioVars == <<stopped, worker, inrun>>
vars == <<lockVars, callVars, sessionVars, ioVars>>

Pcs == {"idle", "send", "post", "sent", "want", "test", "join", "make", "run",
        "lock", "close", "closing", "posted", "inrun", "wait", "exit", "ping", "use",
        "gone", "thrown"}
Flags == {"m_close", "m_close_received", "m_close_initiated"}

TypeOK ==
    /\ writer \in Callers \cup {None} /\ readers \in SUBSET Callers
    /\ m_exit \in BOOLEAN /\ m_expired \in BOOLEAN
    /\ pc \in [Callers -> Pcs]
    /\ call \in [Callers -> Exclusive \cup {"send", "none"}]
    /\ todo \in [Callers -> Exclusive \cup {"none"}]
    /\ left \in [Callers -> 0..Attempts]
    /\ session \in {"none", "live", "dying"}
    /\ refs \in SUBSET Callers
    /\ ops \in SUBSET (SessionOps \cup Callers)
    /\ run \in {"unset", "true", "false"}
    /\ flags \in SUBSET Flags
    /\ lost \in BOOLEAN
    /\ written \in SUBSET Callers
    /\ posted \in SUBSET (Posts \cup Callers)
    /\ stopped \in BOOLEAN
    /\ worker \in {"none", "start", "run", "ended"}
    /\ inrun \in SUBSET Callers

Init ==
    /\ writer = None /\ readers = {} /\ m_exit = FALSE /\ m_expired = TRUE
    /\ pc = [t \in Callers |-> "idle"]
    /\ call = [t \in Callers |-> "none"]
    /\ todo = [t \in Callers |-> "none"]
    /\ left = [t \in Callers |-> 0]
    /\ session = "none" /\ refs = {} /\ ops = {} /\ run = "unset"
    /\ flags = {} /\ lost = FALSE /\ written = {} /\ posted = {}
    /\ stopped = FALSE /\ worker = "none" /\ inrun = {}

Go(t, p) == pc' = [pc EXCEPT ![t] = p]

-----------------------------------------------------------------------------
(* Each Mut operator is a defect in the definition that follows it. *)

\* What stays in the io_context's queue when the session of p is gone.
Orphaned(p) == IF p = {} THEN {} ELSE {"stale"}

\* m_expired is set before the session is deleted
MutHandlerEnd(o, p) ==
    LET dies == session = "live" /\ o = {} /\ refs = {} IN
    /\ ops' = o
    /\ session' = IF dies THEN "dying" ELSE session
    /\ posted' = IF dies THEN Orphaned(p) ELSE p
    /\ stopped' = (o = {} /\ p = {} /\ ~dies)
    /\ m_expired' = (m_expired \/ dies)

\* A handler ends with operations o and posted handlers p: it may drop the last
\* reference to the session, and the io_context stops when it is out of work.
HandlerEnd(o, p) ==
    LET dies == session = "live" /\ o = {} /\ refs = {} IN
    /\ ops' = o
    /\ session' = IF dies THEN "dying" ELSE session
    /\ posted' = IF dies THEN Orphaned(p) ELSE p
    /\ stopped' = (o = {} /\ p = {} /\ ~dies)
    /\ UNCHANGED m_expired

\* The session's members are gone with it.  The delete and the flag are one step:
\* m_expired is read under m_session_mtx only, which a caller that deletes holds;
\* the IO thread is at it for as long as the session is "dying".
Deleted == session' = "none" /\ m_expired' = TRUE /\ run' = "unset" /\ flags' = {}
           /\ lost' = FALSE

\* A caller drops its shared_ptr, and deletes the session if it was the last.
Drop(t) ==
    /\ refs' = refs \ {t}
    /\ IF refs = {t} /\ ops = {}
       THEN Deleted /\ posted' = Orphaned(posted)
       ELSE UNCHANGED <<session, m_expired, run, flags, lost, posted>>
    /\ UNCHANGED ops

MayLock == writer = None /\ readers = {}

MutJoin == UNCHANGED worker                   \* the thread is not joined
\* m_io_worker.join(), if there is a thread, which has to end first.
Join == worker \in {"none", "ended"} /\ worker' = "none"

MutRunReady == TRUE                           \* run() does not wait
RunReady == run # "unset"

MutOverdue == FALSE                           \* it waits without a timeout
\* wait_destruction() gives up after deadlock_secs; time is not modelled.
Overdue == ~m_expired

MutOnError == "connect"                       \* a failed send only reconnects
OnError == "disconnect"

MutRunFails == run                            \* set_value(false) is forgotten
RunFails == "false"

\* The call of t returns to the application.
Finish(t) ==
    /\ Go(t, "idle")
    /\ left' = [left EXCEPT ![t] = 0]
    /\ call' = [call EXCEPT ![t] = "none"]
    /\ todo' = [todo EXCEPT ![t] = "none"]

\* The exclusive function of t returns and releases m_session_mtx; send() goes
\* on with its next attempt.
Return(t) ==
    /\ writer' = None
    /\ IF call[t] = "send" /\ left[t] > 1
       THEN /\ Go(t, "send")
            /\ left' = [left EXCEPT ![t] = @ - 1]
            /\ todo' = [todo EXCEPT ![t] = "none"]
            /\ UNCHANGED call
       ELSE Finish(t)
    /\ UNCHANGED <<readers, m_exit>>

\* The exclusive function of t throws, and releases m_session_mtx; the exception
\* leaves send() and send_recv(), too.
Throw(t) ==
    /\ writer' = None
    /\ Go(t, "thrown")
    /\ left' = [left EXCEPT ![t] = 0]
    /\ call' = [call EXCEPT ![t] = "none"]
    /\ todo' = [todo EXCEPT ![t] = "none"]
    /\ UNCHANGED <<readers, m_exit>>

-----------------------------------------------------------------------------
(* The exclusive functions of client. *)

\* A function is called by the application, which does not call any once the
\* destructor has begun; threads may wait in m_session_mtx when it begins.  A
\* thread whose data is in use after an exception is another one of Callers when
\* it calls again.
Call(t, k) ==
    /\ pc[t] = "idle" \/ (pc[t] = "thrown" /\ t \notin ops \cup posted)
    /\ ~m_exit
    /\ k = "destroy" => \A u \in Callers : call[u] # "destroy"
    /\ call' = [call EXCEPT ![t] = k]
    /\ todo' = [todo EXCEPT ![t] = IF k = "send" THEN @ ELSE k]
    /\ left' = [left EXCEPT ![t] = IF k \in {"send", "connectN"} THEN Attempts ELSE 0]
    /\ Go(t, IF k = "send" THEN "send" ELSE "want")
    /\ UNCHANGED <<lockVars, sessionVars, ioVars>>

\* The exclusive lock; after the destructor every function returns.  All that
\* listen_broadcast() and set_handshake_request() do is to write under it.
Lock(t) ==
    /\ pc[t] = "want" /\ MayLock
    /\ IF m_exit \/ todo[t] = "listen"
       THEN Return(t)
       ELSE /\ writer' = t
            /\ m_exit' = (todo[t] = "destroy")
            /\ Go(t, IF todo[t] \in {"disconnect", "destroy", "response"}
                     THEN "lock" ELSE "test")
            /\ UNCHANGED <<readers, call, todo, left>>
    /\ UNCHANGED <<sessionVars, ioVars>>

\* construct_session() finds a session that is not expired, and returns true.
Connected(t) ==
    /\ pc[t] = "test" /\ ~m_expired
    /\ IF todo[t] = "ping"
       THEN Go(t, "ping") /\ UNCHANGED <<lockVars, call, todo, left>>
       ELSE Return(t)
    /\ UNCHANGED <<sessionVars, ioVars>>

Expired(t) ==
    /\ pc[t] = "test" /\ m_expired
    /\ m_expired' = FALSE
    /\ Go(t, "join")
    /\ UNCHANGED <<lockVars, call, todo, left, session, refs, streamVars,
                   written, posted, ioVars>>

JoinWorker(t) ==
    /\ pc[t] = "join"
    /\ Join
    /\ Go(t, "make")
    /\ UNCHANGED <<lockVars, call, todo, left, sessionVars, stopped, inrun>>

\* The new session, and session_connect::run() up to its wait.
Construct(t) ==
    /\ pc[t] = "make"
    /\ session' = "live" /\ refs' = refs \cup {t}
    /\ ops' = ops \cup {"resolve"}
    /\ run' = "unset" /\ flags' = {} /\ lost' = FALSE
    /\ worker' = "start"
    /\ Go(t, "run")
    /\ UNCHANGED <<lockVars, m_expired, call, todo, left, written, posted,
                   stopped, inrun>>

\* run() returns; construct_session() releases its shared_ptr.
RunReturns(t) ==
    /\ pc[t] = "run" /\ RunReady
    /\ Drop(t)
    /\ IF run = "true" /\ todo[t] = "ping"
       THEN Go(t, "ping") /\ UNCHANGED <<lockVars, call, todo, left>>
       ELSE IF run # "true" /\ todo[t] = "connectN" /\ left[t] > 1
       THEN /\ Go(t, "wait")
            /\ left' = [left EXCEPT ![t] = @ - 1]
            /\ UNCHANGED <<lockVars, call, todo>>
       ELSE Return(t)
    /\ UNCHANGED <<written, ioVars>>

\* ping() posts handle_ping, if there still is a session, and waits.
PingPost(t) ==
    /\ pc[t] = "ping"
    /\ IF session = "live"
       THEN /\ refs' = refs \cup {t} /\ posted' = posted \cup {"ping"}
            /\ Go(t, "use")
            /\ UNCHANGED <<lockVars, call, todo, left>>
       ELSE Return(t) /\ UNCHANGED <<refs, posted>>
    /\ UNCHANGED <<m_expired, session, streamVars, written, ioVars>>

\* get_handshake_response() copies the response from the session, if there is one.
GetResponse(t) ==
    /\ pc[t] = "lock" /\ todo[t] = "response"
    /\ IF session = "live"
       THEN /\ refs' = refs \cup {t}
            /\ Go(t, "use")
            /\ UNCHANGED <<lockVars, call, todo, left>>
       ELSE Return(t) /\ UNCHANGED refs
    /\ UNCHANGED <<m_expired, session, streamVars, written, posted, ioVars>>

\* A pong or the timeout, and the end of get_handshake_response().
UseEnds(t) ==
    /\ pc[t] = "use"
    /\ Drop(t) /\ Return(t)
    /\ UNCHANGED <<written, ioVars>>

-----------------------------------------------------------------------------
(* disconnect() and the destructor. *)

LockSession(t) ==
    /\ pc[t] = "lock" /\ todo[t] # "response"
    /\ refs' = IF session = "live" THEN refs \cup {t} ELSE refs
    /\ Go(t, IF session = "live" THEN "close" ELSE "wait")
    /\ UNCHANGED <<lockVars, m_expired, call, todo, left, session, streamVars,
                   written, posted, ioVars>>

\* close(): it returns at once if it was called before.  If the io_context has
\* stopped it posts close_session, restarts the io_context and runs it here.
Close(t) ==
    /\ pc[t] = "close"
    /\ IF "m_close_initiated" \in flags
       THEN Drop(t) /\ Go(t, "wait") /\ UNCHANGED <<stopped, inrun>>
       ELSE /\ flags' = flags \cup {"m_close_initiated"}
            /\ IF stopped
               THEN /\ posted' = posted \cup {"close"}
                    /\ stopped' = FALSE /\ inrun' = inrun \cup {t}
                    /\ Go(t, "inrun")
               ELSE Go(t, "closing") /\ UNCHANGED <<posted, stopped, inrun>>
            /\ UNCHANGED <<m_expired, session, refs, ops, run, lost>>
    /\ UNCHANGED <<lockVars, call, todo, left, written, worker>>

LeaveRun(t) ==
    /\ pc[t] = "inrun" /\ stopped
    /\ inrun' = inrun \ {t}
    /\ Drop(t) /\ Go(t, "wait")
    /\ UNCHANGED <<lockVars, call, todo, left, written, stopped, worker>>

\* Otherwise it posts close_session to the IO thread ...
ClosePost(t) ==
    /\ pc[t] = "closing"
    /\ posted' = posted \cup {"close"}
    /\ Go(t, "posted")
    /\ UNCHANGED <<lockVars, m_expired, call, todo, left, session, refs,
                   streamVars, written, ioVars>>

\* ... and waits until it has run, or for a timeout.
CloseReturns(t) ==
    /\ pc[t] = "posted"
    /\ Drop(t) /\ Go(t, "wait")
    /\ UNCHANGED <<lockVars, call, todo, left, written, ioVars>>

\* wait_destruction(), in disconnect(), between the attempts of connect() and in
\* the destructor, where the thread is joined afterwards.
WaitDestruction(t) ==
    /\ pc[t] = "wait" /\ m_expired
    /\ IF todo[t] = "disconnect" THEN Return(t)
       ELSE /\ Go(t, IF todo[t] = "destroy" THEN "exit" ELSE "test")
            /\ UNCHANGED <<lockVars, call, todo, left>>
    /\ UNCHANGED <<sessionVars, ioVars>>

\* It times out: disconnect() and connect() throw with the session still there,
\* and the destructor goes on.
WaitTimeout(t) ==
    /\ pc[t] = "wait" /\ Overdue
    /\ IF todo[t] = "destroy"
       THEN Go(t, "exit") /\ UNCHANGED <<lockVars, call, todo, left>>
       ELSE Throw(t)
    /\ UNCHANGED <<sessionVars, ioVars>>

Destroy(t) ==
    /\ pc[t] = "exit"
    /\ Join
    /\ writer' = None
    /\ Go(t, "gone")
    /\ UNCHANGED <<readers, m_exit, call, todo, left, sessionVars, stopped, inrun>>

-----------------------------------------------------------------------------
(* send() and send_recv(). *)

\* The shared lock, m_exit and m_session.lock(); without a session: connect().
SendLock(t) ==
    /\ pc[t] = "send" /\ writer = None
    /\ \/ m_exit /\ Finish(t) /\ UNCHANGED <<lockVars, refs>>
       \/ /\ ~m_exit /\ session = "live"
          /\ readers' = readers \cup {t} /\ refs' = refs \cup {t}
          /\ Go(t, "post")
          /\ UNCHANGED <<writer, m_exit, call, todo, left>>
       \/ /\ ~m_exit /\ session # "live"
          /\ todo' = [todo EXCEPT ![t] = "connect"]
          /\ Go(t, "want")
          /\ UNCHANGED <<lockVars, call, left, refs>>
    /\ UNCHANGED <<m_expired, session, streamVars, written, posted, ioVars>>

SendPost(t) ==
    /\ pc[t] = "post"
    /\ posted' = posted \cup {t}
    /\ Go(t, "sent")
    /\ UNCHANGED <<lockVars, m_expired, call, todo, left, session, refs,
                   streamVars, written, ioVars>>

\* The session's send returns without an error, and so does the client's.
SendReturns(t) ==
    /\ pc[t] = "sent" /\ t \in written
    /\ Drop(t)
    /\ written' = written \ {t}
    /\ readers' = readers \ {t}
    /\ Finish(t)
    /\ UNCHANGED <<writer, m_exit, ioVars>>

\* It timed out, or send_recv found a full cache: disconnect().
SendFails(t) ==
    /\ pc[t] \in {"post", "sent"}
    /\ Drop(t)
    /\ written' = written \ {t}
    /\ readers' = readers \ {t}
    /\ todo' = [todo EXCEPT ![t] = OnError]
    /\ Go(t, "want")
    /\ UNCHANGED <<writer, m_exit, call, left, ioVars>>

-----------------------------------------------------------------------------
(* Handlers, on whatever thread runs the io_context. *)

IoReady == ~stopped /\ (worker = "run" \/ inrun # {})

MayCloseSession == flags \cap {"m_close", "m_close_received"} = {}

\* close_session() at the end of a handler that leaves operations o.
CloseSession(o, p) ==
    /\ HandlerEnd(IF MayCloseSession THEN o \cup {"close"} ELSE o, p)
    /\ flags' = IF MayCloseSession THEN flags \cup {"m_close"} ELSE flags

\* on_resolve, on_connect, on_ssl_handshake, on_handshake: the next operation, or
\* the promise is set to false and the handler ends.
Chain(from, next) ==
    /\ IoReady /\ from \in ops
    /\ \/ \E op \in next :
            /\ HandlerEnd((ops \ {from}) \cup {op}, posted)
            /\ run' = IF op = "read" THEN "true" ELSE run
       \/ /\ HandlerEnd((ops \ {from}) \cup {"ending"}, posted)
          /\ run' = RunFails
    /\ UNCHANGED <<lockVars, callVars, refs, flags, lost, written, worker, inrun>>

OnResolve == Chain("resolve", {"connect"})
OnConnect == Chain("connect", {"ssl", "handshake"})
OnSslHandshake == Chain("ssl", {"handshake"})
OnHandshake == Chain("handshake", {"read"})

\* The failed handler releases the session.
ChainEnd ==
    /\ IoReady /\ "ending" \in ops
    /\ HandlerEnd(ops \ {"ending"}, posted)
    /\ UNCHANGED <<lockVars, callVars, refs, run, flags, lost, written, worker, inrun>>

\* handle_send; a closing session and a full queue drop the message.
OnPostedSend(t) ==
    /\ IoReady /\ t \in posted
    /\ \/ MayCloseSession /\ HandlerEnd(ops \cup {t}, posted \ {t})
       \/ HandlerEnd(ops, posted \ {t})
    /\ UNCHANGED <<lockVars, callVars, refs, run, flags, lost, written, worker, inrun>>

OnPostedClose ==
    /\ IoReady /\ "close" \in posted
    /\ CloseSession(ops, posted \ {"close"})
    /\ UNCHANGED <<lockVars, callVars, refs, run, lost, written, worker, inrun>>

\* handle_ping
OnPostedPing ==
    /\ IoReady /\ "ping" \in posted
    /\ HandlerEnd(ops \cup {"ping"}, posted \ {"ping"})
    /\ UNCHANGED <<lockVars, callVars, refs, run, flags, lost, written, worker, inrun>>

\* A posted handler whose session is gone does nothing.
OnStale ==
    /\ IoReady /\ "stale" \in posted /\ session # "dying"
    /\ HandlerEnd(ops, posted \ {"stale"})
    /\ UNCHANGED <<lockVars, callVars, refs, run, flags, lost, written, worker, inrun>>

OnPing ==
    /\ IoReady /\ "ping" \in ops
    /\ HandlerEnd(ops \ {"ping"}, posted)
    /\ UNCHANGED <<lockVars, callVars, refs, run, flags, lost, written, worker, inrun>>

Waiting == {t \in Callers : pc[t] = "sent"}

\* on_write without an error: the caller is told.
OnWrite(t) ==
    /\ IoReady /\ t \in ops
    /\ MayCloseSession /\ "read" \in ops
    /\ written' = written \cup ({t} \cap Waiting)
    /\ HandlerEnd(ops \ {t}, posted)
    /\ UNCHANGED <<lockVars, callVars, refs, run, flags, lost, worker, inrun>>

\* on_write with an error, or on a closing session: the queue is cleared.
OnWriteError ==
    /\ IoReady /\ ops \cap Callers # {}
    /\ \/ lost' = TRUE
       \/ lost' = lost /\ (~MayCloseSession \/ "read" \notin ops)
    /\ written' = written \cup (ops \cap Waiting)
    /\ CloseSession(ops \ Callers, posted)
    /\ UNCHANGED <<lockVars, callVars, refs, run, worker, inrun>>

\* on_read with an error or after a close frame.  Other reads change nothing here.
OnReadError ==
    /\ IoReady /\ "read" \in ops
    /\ lost \/ "m_close_received" \in flags
    /\ CloseSession(ops \ {"read"}, posted)
    /\ UNCHANGED <<lockVars, callVars, refs, run, lost, written, worker, inrun>>

\* on_control_callback with a close frame.
OnControlClose ==
    /\ IoReady /\ "read" \in ops /\ ~lost
    /\ flags' = flags \cup {"m_close_received"}
    /\ lost' = TRUE
    /\ UNCHANGED <<lockVars, m_expired, callVars, session, refs, ops, run,
                   written, posted, ioVars>>

OnClose ==
    /\ IoReady /\ "close" \in ops
    /\ lost' = TRUE
    /\ HandlerEnd(ops \ {"close"}, posted)
    /\ UNCHANGED <<lockVars, callVars, refs, run, flags, written, worker, inrun>>

\* The connection breaks.
StreamFails ==
    /\ "read" \in ops /\ ~lost
    /\ lost' = TRUE
    /\ UNCHANGED <<lockVars, m_expired, callVars, session, refs, ops, run,
                   flags, written, posted, ioVars>>

\* on_session_delete on the IO thread, at the end of the session's last handler.
OnSessionDelete ==
    /\ session = "dying"
    /\ Deleted
    /\ stopped' = (posted = {})
    /\ UNCHANGED <<lockVars, callVars, refs, ops, written, posted, worker, inrun>>

-----------------------------------------------------------------------------
(* The thread started by run(). *)

WorkerRuns ==
    /\ worker = "start"
    /\ worker' = "run" /\ stopped' = FALSE
    /\ UNCHANGED <<lockVars, callVars, sessionVars, inrun>>

WorkerEnds ==
    /\ worker = "run" /\ stopped
    /\ worker' = "ended"
    /\ UNCHANGED <<lockVars, callVars, sessionVars, stopped, inrun>>

-----------------------------------------------------------------------------
\* What a thread inside a function of the client does next.
Inside(t) ==
    \/ Connected(t) \/ Expired(t) \/ JoinWorker(t) \/ Construct(t) \/ RunReturns(t)
    \/ PingPost(t) \/ GetResponse(t) \/ UseEnds(t)
    \/ LockSession(t) \/ Close(t) \/ LeaveRun(t) \/ ClosePost(t) \/ CloseReturns(t)
    \/ WaitDestruction(t) \/ WaitTimeout(t) \/ Destroy(t)
    \/ SendPost(t) \/ SendReturns(t) \/ SendFails(t)

CallerNext(t) ==
    \/ \E k \in Exclusive \cup {"send"} : Call(t, k)
    \/ Lock(t) \/ SendLock(t) \/ Inside(t)

\* Handlers that are ready, or whose operation completes.
Handlers ==
    \/ OnResolve \/ OnConnect \/ OnSslHandshake \/ OnHandshake \/ ChainEnd
    \/ OnPostedClose \/ OnPostedPing \/ OnStale \/ OnPing \/ OnWriteError
    \/ OnReadError \/ OnClose
    \/ \E t \in Callers : OnPostedSend(t) \/ OnWrite(t)

Next ==
    \/ \E t \in Callers : CallerNext(t)
    \/ Handlers \/ OnControlClose \/ StreamFails \/ OnSessionDelete
    \/ WorkerRuns \/ WorkerEnds

Spec == Init /\ [][Next]_vars

\* Handlers that wait for nothing but a thread to run them: posted ones, the end of
\* a failed connection, and operations on a stream that is no longer read from.
Ready ==
    \/ ChainEnd \/ OnPostedClose \/ OnPostedPing \/ OnStale
    \/ \E t \in Callers : OnPostedSend(t)
    \/ "read" \notin ops /\ (OnPing \/ OnClose \/ OnWriteError)

\* Threads inside the client and the IO thread go on, and timeouts of waits fire.
\* Nothing is assumed of who gets m_session_mtx, nor of operations that depend on
\* a resolver, a peer or a timeout of the stream, which is off by default.
Fairness ==
    /\ \A t \in Callers : WF_vars(Inside(t))
    /\ WF_vars(WorkerRuns \/ WorkerEnds)
    /\ WF_vars(OnSessionDelete)
    /\ WF_vars(Ready)

FairSpec == Spec /\ Fairness

-----------------------------------------------------------------------------
(* Properties. *)

\* m_expired says that the session is deleted: no pending handler can read the
\* bound functions that listen_broadcast() is then allowed to change.
ExpiredGone == m_expired => session = "none" /\ ops = {} /\ refs = {}

\* When construct_session() makes a session, and when the destructor is done, the
\* session before is deleted, its thread joined and nobody left in the io_context:
\* sessions never share it, no joinable thread is overwritten or destroyed, and
\* nothing uses the members of a client that is gone.
NothingLeft ==
    \A t \in Callers : pc[t] \in {"make", "gone"} =>
        session = "none" /\ ops = {} /\ inrun = {} /\ worker = "none"

\* The handlers that read m_req_handshake and write res_handshake run only while
\* the thread in run() holds m_session_mtx, which guards them.
HandshakeGuarded ==
    ops \cap ChainOps # {} => writer # None /\ pc[writer] = "run"

\* The io_context has something to do; somebody does it.
Pending == ops # {} \/ posted # {} \/ session = "dying"
IoServed == worker = "start" \/ IoReady

\* A thread that waits with m_session_mtx held waits for something under way.  In
\* run(): a handler of the connection, which somebody will run.  In a join: a
\* thread that leaves the io_context, as does one inside close().  In
\* wait_destruction(), and in the destructor after its timeout: operations, and
\* never just the read of a connection that nobody closes.
WriterServed ==
    \A t \in Callers :
        /\ pc[t] = "run" /\ run = "unset" => ops \cap ChainOps # {} /\ IoServed
        /\ pc[t] \in {"join", "exit"} /\ worker \notin {"none", "ended"} =>
              worker = "run" /\ (stopped \/ Pending)
        /\ pc[t] = "inrun" => stopped \/ Pending
        /\ pc[t] \in {"wait", "exit"} /\ ~m_expired =>
              /\ IoServed
              /\ session = "dying" \/ ops # {}
              /\ "read" \in ops => lost \/ "close" \in ops \cup posted

\* What resolver, peer and the timeouts of the stream (handshake_timeout) have to
\* give: resolving, connecting, the handshakes, the close, writes and pings end,
\* and so does the read of a connection that is lost.
StreamAnswers ==
    /\ \A op \in ChainOps \cup {"close", "ping"} \cup Callers : []<>(op \notin ops)
    /\ []<>("read" \notin ops \/ ~lost)

\* Then every exclusive section ends: run() gets its answer, a join its thread and
\* the io_context run by close() comes to its end.  The next holder locks the mutex
\* when it is free, so it is free again and again.
WriterReturns == StreamAnswers => []<>(writer = None)

\* disconnect() returns or throws whatever the peer does, although close() may have
\* to run the io_context itself, which has no timeout.
DisconnectReturns == []<>(\A t \in Callers : writer = t => todo[t] # "disconnect")

-----------------------------------------------------------------------------
(* The contract. *)

Stage ==
    IF \E t \in Callers : pc[t] = "gone" THEN "gone"
    ELSE IF session = "none" THEN "none"
    ELSE IF session = "live" /\ run = "unset" THEN "connecting"
    ELSE IF session = "live" /\ run = "true" /\ ~lost
            /\ "m_close_initiated" \notin flags THEN "up"
    ELSE "over"

InUse == Callers \cap (ops \cup posted)
Sending == {t \in Callers : call[t] = "send"}
Thrown == {t \in Callers : pc[t] = "thrown"}

Contract == INSTANCE ClientLife
            WITH life <- Stage, users <- InUse, sending <- Sending, thrown <- Thrown

\* The client implements its contract: one session at a time, data used only by
\* an open session and by none when send() or send_recv() returns; after an
\* exception by a session that is over, and never by the next one; nothing after
\* the destructor.
RefinesClientLife == Contract!LifeSpec

\* "After return the data will not be used anymore": neither a send() that returned
\* nor one that starts its next attempt has data in a handler or in the queue.
\* After an exception it may have, but only in a session that is over.
DataReleased ==
    \A t \in InUse : pc[t] \notin {"idle", "send"} /\ (pc[t] = "thrown" => Stage = "over")

-----------------------------------------------------------------------------
(* The inductive invariant behind them. *)

WriterPcs == {"test", "join", "make", "run", "lock", "close", "closing", "posted",
              "inrun", "wait", "exit", "ping", "use"}
SharedPcs == {"post", "sent"}
RefPcs == {"run", "close", "closing", "posted", "inrun", "use", "post", "sent"}
ClosePcs == {"want", "lock", "close", "closing", "posted", "inrun", "wait"}

\* Who holds m_session_mtx, and who a reference to the session.
LockInv ==
    /\ writer # None => readers = {}
    /\ \A t \in Callers : writer = t <=> pc[t] \in WriterPcs
    /\ \A t \in Callers : t \in readers <=> pc[t] \in SharedPcs
    /\ \A t \in Callers : t \in refs <=> pc[t] \in RefPcs

\* The session is alive exactly while somebody refers to it; m_expired is set
\* after its deletion and reset by the thread that makes the next one.
SessionInv ==
    /\ session = "live" <=> refs # {} \/ ops # {}
    /\ m_expired => session = "none"
    /\ session # "live" => posted \subseteq {"stale"}
    /\ \A t \in Callers :
          /\ pc[t] \in {"join", "make"} => session = "none" /\ ~m_expired
          /\ pc[t] = "make" => worker = "none"
          /\ t \in inrun <=> pc[t] = "inrun"

\* From the destructor's lock on nobody else gets inside, and when it is done
\* there is nothing left.
ExitInv ==
    /\ m_exit => readers = {}
    /\ m_exit /\ writer # None => todo[writer] = "destroy"
    /\ m_exit /\ writer = None => m_expired /\ worker = "none"
    /\ \A t \in Callers :
          /\ todo[t] = "destroy" => pc[t] \in ClosePcs \cup {"exit", "gone"}
          /\ todo[t] = "destroy" /\ pc[t] # "want" => m_exit
          /\ pc[t] = "exit" => m_exit
          /\ pc[t] = "gone" => m_exit /\ writer = None

\* The handlers of the connection follow each other, and m_run_callback is set
\* by the last of them.
ChainInv ==
    /\ \A a, b \in ops \cap ChainOps : a = b
    /\ run # "unset" => ops \cap ChainOps = {}
    /\ HandshakeGuarded

\* Data in a handler or in the queue belongs to a thread that waits for it, that
\* disconnects after an error, or that got an exception from that.
DataInv ==
    \A t \in Callers :
        /\ t \in ops \cup posted =>
              \/ pc[t] \in {"sent", "thrown"}
              \/ todo[t] = "disconnect" /\ pc[t] \in ClosePcs
        /\ t \in written => pc[t] = "sent" /\ t \notin ops \cup posted
        /\ t \in ops => t \notin posted

ClientInv ==
    /\ TypeOK
    /\ LockInv
    /\ SessionInv
    /\ ExitInv
    /\ ChainInv
    /\ DataInv

-----------------------------------------------------------------------------
(* The inductive invariant behind WriterServed, on top of ClientInv. *)

\* The io_context runs while there is something to do, and only then.
IoInv ==
    /\ worker = "start" => ops \cap ChainOps # {}
    /\ IoReady => Pending
    /\ stopped /\ worker # "start" => ops = {} /\ session # "dying"
    /\ ops # {} \/ session = "dying" => worker \in {"start", "run"} \/ inrun # {}

\* A close that was begun goes on: from the flag of close() to close_session, from
\* there to async_close, and from on_close to the end of the read.
EndInv ==
    /\ "read" \in ops => run = "true"
    /\ "m_close" \in flags => lost \/ "close" \in ops
    /\ "m_close_received" \in flags => lost
    /\ session = "live" /\ "m_close_initiated" \in flags =>
          \/ ~MayCloseSession \/ "close" \in posted
          \/ \E t \in Callers : pc[t] = "closing"

\* What the waiting threads rely on.
WaitInv ==
    /\ session = "none" /\ ~m_expired => \E t \in Callers : pc[t] \in {"join", "make"}
    /\ \A t \in Callers :
          /\ pc[t] = "run" /\ run = "unset" => ops \cap ChainOps # {}
          /\ pc[t] \in {"closing", "posted", "inrun"} => "m_close_initiated" \in flags
          /\ pc[t] \in {"wait", "exit"} /\ session = "live" =>
                "m_close_initiated" \in flags \/ run = "false"

\* The session's stages, for RefinesClientLife: run() stays until the connection
\* stands or has failed, and a standing connection is read from.
StageInv ==
    session = "live" =>
        /\ run = "unset" => \E t \in Callers : pc[t] = "run"
        /\ run = "true" /\ ~lost => "read" \in ops

ServedInv == IoInv /\ EndInv /\ WaitInv

\* The function a thread is in, where it is used outside the exclusive ones.
CallInv ==
    \A t \in Callers :
        /\ pc[t] \in {"idle", "thrown"} => call[t] = "none"
        /\ pc[t] \in {"send"} \cup SharedPcs => call[t] = "send"

-----------------------------------------------------------------------------
(* What a comment says, and the code does not do. *)

\* connect(): "True if connected, false if not."
ConnectTrue ==
    \A t \in Callers : pc[t] = "test" /\ todo[t] = "connect" /\ ~m_expired =>
        session = "live" /\ run = "true"

\* m_resolver and m_stream: "No Strand ("io_context" single threaded)".
SingleThreaded == worker = "run" /\ ~stopped => inrun = {}
=============================================================================
