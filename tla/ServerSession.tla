---------------------------- MODULE ServerSession ----------------------------
(***************************************************************************)
(* One session of the server: session_accept with its base server_session  *)
(* (impl/server/server_session.hpp), from the accepted socket to the       *)
(* destructor.                                                             *)
(*                                                                         *)
(* All handlers of a session run on its strand, so a handler is one step.  *)
(* The session object lives as long as a pending operation, a posted send  *)
(* or an armed timer holds a shared_ptr to it (Alive).  The websocket      *)
(* stream and the timer are external: an operation completes at any time,  *)
(* with success or with an error, after it was started.                    *)
(* Messages to the client are numbered in the order they are made.         *)
(***************************************************************************)
EXTENDS Integers, Sequences

CONSTANTS QueueMax,   \* config::queue_send_max
          MaxMsgs,    \* bound: messages made for this client
          MaxPings    \* bound: pings outstanding at the same time

ASSUME SessionAssumption ==
    QueueMax \in Nat \ {0} /\ MaxMsgs \in Nat /\ MaxPings \in Nat \ {0}

VARIABLES
    stage,             \* pending handshake step, then "open", or "rejected"
    ping_delay,        \* m_config.ping_delay: zero or not
    stream,            \* status of m_stream
    flags,             \* the bool members that are true (m_close apart)
    m_close,           \* "no", then async_close "pending", then "done"
    closes,            \* number of async_close operations started
    writes,            \* number of pending async_write operations
    pings,             \* number of pending async_ping operations
    posted,            \* handle_send handlers posted to the strand
    m_queue,
    m_ping_state,
    timer,             \* async_wait: "off", "armed" or handler "due"
    expiry,            \* whether m_timer.expiry() is in the future
    made,              \* number of messages made
    accepted,          \* history: messages that entered m_queue
    wire               \* history: messages handed to async_write

queueVars == <<writes, m_queue, accepted, wire>>
closeVars == <<m_close, closes>>
timerVars == <<m_ping_state, timer, expiry>>
vars == <<stage, ping_delay, stream, flags, pings, posted, made,
          queueVars, closeVars, timerVars>>

Msgs == 1..MaxMsgs
Flags == {"m_close_received", "m_read_error", "m_write_error", "m_bound_close"}

TypeOK ==
    /\ stage \in {"ssl", "http", "accept", "open", "rejected"}
    /\ ping_delay \in {0, 1}
    /\ stream \in {"none", "open", "closing", "closed"}
    /\ flags \in SUBSET Flags
    /\ m_close \in {"no", "pending", "done"}
    /\ closes \in Nat /\ writes \in Nat /\ pings \in 0..MaxPings
    /\ posted \in Seq(Msgs) /\ m_queue \in Seq(Msgs)
    /\ m_ping_state \in {"ping_next", "ping_send", "ping_close"}
    /\ timer \in {"off", "armed", "due"}
    /\ expiry \in {"future", "past"}
    /\ made \in 0..MaxMsgs
    /\ accepted \in Seq(Msgs) /\ wire \in Seq(Msgs)

\* A plain session starts with reading the HTTP upgrade, an SSL session with
\* the SSL handshake.
Init ==
    /\ stage \in {"ssl", "http"}
    /\ ping_delay = 0
    /\ stream = "none" /\ flags = {} /\ m_close = "no" /\ closes = 0
    /\ writes = 0 /\ pings = 0 /\ posted = <<>> /\ m_queue = <<>>
    /\ m_ping_state = "ping_next" /\ timer = "off" /\ expiry = "future"
    /\ made = 0 /\ accepted = <<>> /\ wire = <<>>

Is(flag) == flag \in flags

\* An async_read is pending from on_accept until on_read meets an error.
Reading == stage = "open" /\ ~Is("m_read_error")

\* The session is shutting down, from either side.
Closing == m_close # "no" \/ Is("m_close_received")

\* Some handler still holds the session.
Alive ==
    \/ stage \in {"ssl", "http", "accept"}
    \/ Reading \/ writes > 0 \/ m_close = "pending" \/ pings > 0
    \/ posted # <<>> \/ timer # "off"

-----------------------------------------------------------------------------
(* Functions called inside handlers.  Each Mut operator is a defect in the *)
(* definition that follows it.                                             *)

\* expires_after(): moves the expiry and cancels a pending wait, whose handler
\* then runs with operation_aborted.
ExpiresAfter(when) ==
    /\ expiry' = when
    /\ timer' = IF timer = "armed" THEN "due" ELSE timer

MutMayShutdown == ~Is("m_close_received")    \* close started more than once
MayShutdown == ~Closing

Shutdown ==
    IF MayShutdown
    THEN m_close' = "pending" /\ closes' = closes + 1
    ELSE UNCHANGED closeVars

\* With a ping delay the running timer does the shutdown.
CloseSession ==
    IF ping_delay # 0
    THEN /\ m_ping_state' = "ping_close"
         /\ ExpiresAfter("past")
         /\ UNCHANGED closeVars
    ELSE Shutdown /\ UNCHANGED timerVars

MutFront(q) == q[Len(q)]                     \* the newest message overtakes
Front(q) == Head(q)

\* write(): the front of the queue is handed to async_write.
Write(q) ==
    /\ writes' = writes + 1
    /\ wire' = Append(wire, Front(q))

MutWriteBusy == Len(m_queue) > 1             \* tested before the push_back
WriteBusy == Len(m_queue) > 0

Sendable ==
    /\ ~Closing /\ ~Is("m_write_error") /\ ~Is("m_read_error")
    /\ Len(m_queue) < QueueMax

\* handle_send()
HandleSend(m) ==
    IF Sendable
    THEN /\ m_queue' = Append(m_queue, m)
         /\ accepted' = Append(accepted, m)
         /\ IF WriteBusy THEN UNCHANGED <<writes, wire>> ELSE Write(m_queue')
    ELSE UNCHANGED queueVars

-----------------------------------------------------------------------------
(* Handshake. *)

OnSslHandshake ==
    /\ stage = "ssl"
    /\ stage' \in {"http", "rejected"}
    /\ UNCHANGED <<ping_delay, stream, flags, pings, posted, made, queueVars,
                   closeVars, timerVars>>

\* The on_accept handler of the user may reject the client and may set the
\* session's ping delay.
OnReadHandshake ==
    /\ stage = "http"
    /\ stage' \in {"accept", "rejected"}
    /\ ping_delay' \in {0, 1}
    /\ UNCHANGED <<stream, flags, pings, posted, made, queueVars, closeVars,
                   timerVars>>

OnAcceptError ==
    /\ stage = "accept"
    /\ stage' = "rejected"
    /\ UNCHANGED <<ping_delay, stream, flags, pings, posted, made, queueVars,
                   closeVars, timerVars>>

\* The session starts its timer, is added to the manager and starts to read.
OnAccept ==
    /\ stage = "accept"
    /\ stage' = "open"
    /\ stream' = "open"
    /\ timer' = IF ping_delay # 0 THEN "armed" ELSE "off"
    /\ UNCHANGED <<ping_delay, flags, pings, posted, made, queueVars,
                   closeVars, m_ping_state, expiry>>

-----------------------------------------------------------------------------
(* Reading.  Messages are delivered only before the stream is closed. *)

Readable == Reading /\ stream # "closed" /\ ~Is("m_close_received")

\* on_read with an error, or after a close frame: reading ends.
OnReadError ==
    /\ Reading
    /\ stream = "closed" \/ Is("m_close_received")
    /\ flags' = flags \cup {"m_read_error"}
    /\ CloseSession
    /\ UNCHANGED <<stage, ping_delay, stream, pings, posted, made, queueVars>>

CallsFunction == Readable /\ ~Closing /\ ~Is("m_write_error")

\* on_read whose bound function leaves a response: it is queued at once.
OnReadReply ==
    /\ CallsFunction /\ ~Is("m_bound_close")
    /\ made < MaxMsgs
    /\ made' = made + 1
    /\ HandleSend(made')
    /\ UNCHANGED <<stage, ping_delay, stream, flags, pings, posted, closeVars,
                   timerVars>>

\* on_read whose bound function calls close(), or one earlier did.
OnReadClose ==
    /\ CallsFunction
    /\ flags' = flags \cup {"m_bound_close"}
    /\ CloseSession
    /\ UNCHANGED <<stage, ping_delay, stream, pings, posted, made, queueVars>>

\* A message that changes nothing (unbound id, no response, or the session is
\* closing) is on_read followed by the next read(): a stuttering step.

\* on_control_callback, called by the stream while it reads.
OnControlClose ==
    /\ Reading /\ stream # "closed"
    /\ flags' = flags \cup {"m_close_received"}
    /\ stream' = "closed"
    /\ UNCHANGED <<stage, ping_delay, pings, posted, made, queueVars,
                   closeVars, timerVars>>

OnControlPing ==
    /\ Reading /\ stream # "closed"
    /\ m_ping_state' = "ping_next"
    /\ ExpiresAfter("future")
    /\ UNCHANGED <<stage, ping_delay, stream, flags, pings, posted, made,
                   queueVars, closeVars>>

-----------------------------------------------------------------------------
(* Sending. *)

\* send(): called by session_manager::broadcast on a registered session.
Send ==
    /\ stage = "open" /\ Alive
    /\ made < MaxMsgs
    /\ made' = made + 1
    /\ posted' = Append(posted, made')
    /\ UNCHANGED <<stage, ping_delay, stream, flags, pings, queueVars,
                   closeVars, timerVars>>

OnPosted ==
    /\ posted # <<>>
    /\ HandleSend(Head(posted))
    /\ posted' = Tail(posted)
    /\ UNCHANGED <<stage, ping_delay, stream, flags, pings, made, closeVars,
                   timerVars>>

\* on_write without an error on a session that is not closing.
OnWrite ==
    /\ writes > 0
    /\ ~Closing /\ ~Is("m_read_error")
    /\ m_queue' = Tail(m_queue)
    /\ IF m_queue' # <<>>
       THEN writes' = writes /\ wire' = Append(wire, Front(m_queue'))
       ELSE writes' = writes - 1 /\ UNCHANGED wire
    /\ UNCHANGED <<stage, ping_delay, stream, flags, pings, posted, made,
                   accepted, closeVars, timerVars>>

\* on_write with an error (which fails the stream) or on a closing session.
OnWriteError ==
    /\ writes > 0
    /\ \/ stream' = "closed"
       \/ (Closing \/ Is("m_read_error")) /\ stream' = stream
    /\ writes' = writes - 1
    /\ flags' = flags \cup {"m_write_error"}
    /\ m_queue' = <<>>
    /\ CloseSession
    /\ UNCHANGED <<stage, ping_delay, pings, posted, made, accepted, wire>>
-----------------------------------------------------------------------------
(* Timer and close. *)

\* on_timer re-arms itself with the ping delay.
MutRearm == timer' = "off" /\ expiry' = "future"       \* async_wait forgotten
Rearm == timer' = "armed" /\ expiry' = "future"

\* on_timer returns without another async_wait.
MutTimerEnds == Rearm                                  \* return forgotten
TimerEnds == timer' = "off" /\ UNCHANGED expiry

\* a ping that was not answered is followed by another one
MutMayPing == stream = "open" /\ m_ping_state # "ping_close"
MayPing == stream = "open" /\ m_ping_state = "ping_next"

\* on_timer before the deadline: it was cancelled because the deadline moved.
OnTimerMoved ==
    /\ timer = "due" /\ expiry = "future"
    /\ Rearm
    /\ UNCHANGED <<stage, ping_delay, stream, flags, pings, posted, made,
                   queueVars, closeVars, m_ping_state>>

OnTimerPing ==
    /\ timer = "due" /\ expiry = "past"
    /\ MayPing
    /\ pings < MaxPings
    /\ pings' = pings + 1
    /\ m_ping_state' = "ping_send"
    /\ Rearm
    /\ UNCHANGED <<stage, ping_delay, stream, flags, posted, made, queueVars,
                   closeVars>>

\* on_timer with no pong since the last ping, or a requested close.
OnTimerShutdown ==
    /\ timer = "due" /\ expiry = "past"
    /\ ~MayPing
    /\ Shutdown
    /\ TimerEnds
    /\ UNCHANGED <<stage, ping_delay, stream, flags, pings, posted, made,
                   queueVars, m_ping_state>>

OnPing ==
    /\ pings > 0
    /\ pings' = pings - 1
    /\ UNCHANGED <<stage, ping_delay, stream, flags, posted, made, queueVars,
                   closeVars, timerVars>>

\* on_shutdown: the close handshake is over, or has timed out.
OnShutdown ==
    /\ m_close = "pending"
    /\ m_close' = "done"
    /\ stream' = "closed"
    /\ UNCHANGED <<stage, ping_delay, flags, pings, posted, made, queueVars,
                   closes, timerVars>>

-----------------------------------------------------------------------------
(* The environment. *)

\* The deadline of the timer passes; a pending wait completes.
Tick ==
    /\ timer # "off" /\ expiry = "future"
    /\ expiry' = "past"
    /\ timer' = "due"
    /\ UNCHANGED <<stage, ping_delay, stream, flags, pings, posted, made,
                   queueVars, closeVars, m_ping_state>>

\* async_close has taken the stream's write lock and left the open state.
CloseStarts ==
    /\ m_close = "pending" /\ stream = "open"
    /\ stream' = "closing"
    /\ UNCHANGED <<stage, ping_delay, flags, pings, posted, made, queueVars,
                   closeVars, timerVars>>

StreamFails ==
    /\ stream \in {"open", "closing"}
    /\ stream' = "closed"
    /\ UNCHANGED <<stage, ping_delay, flags, pings, posted, made, queueVars,
                   closeVars, timerVars>>

-----------------------------------------------------------------------------
Handshake == OnSslHandshake \/ OnReadHandshake \/ OnAcceptError \/ OnAccept
OnRead == OnReadError \/ OnReadReply \/ OnReadClose
OnControl == OnControlClose \/ OnControlPing
OnTimer == OnTimerMoved \/ OnTimerPing \/ OnTimerShutdown
Writing == OnWrite \/ OnWriteError

Next ==
    \/ Handshake \/ OnRead \/ OnControl \/ Send \/ OnPosted \/ Writing
    \/ OnTimer \/ OnPing \/ OnShutdown
    \/ Tick \/ CloseStarts \/ StreamFails

Spec == Init /\ [][Next]_vars

\* Workers run the handlers that are ready, time passes, and an operation on
\* the stream completes: the handshake and async_close by the stream's
\* timeouts (handshake_or_close_timeout, off by default), a write because TCP
\* makes progress or fails, a read once the stream is closed.  The peer need not send anything.
Fairness ==
    /\ WF_vars(Handshake) /\ WF_vars(OnReadError) /\ WF_vars(OnPosted)
    /\ WF_vars(Writing) /\ WF_vars(OnTimer) /\ WF_vars(OnPing)
    /\ WF_vars(OnShutdown) /\ WF_vars(Tick)

FairSpec == Spec /\ Fairness

-----------------------------------------------------------------------------
(* Properties. *)

\* At most one async_write is pending, and exactly while the queue is not
\* empty: the buffers of a pending write are those of m_queue.front(), which
\* no other handler frees or writes a second time (write(), on_write()).
OneWrite == writes = IF m_queue = <<>> THEN 0 ELSE 1

\* Every message that entered the queue is handed to the stream exactly once
\* and in queueing order, or still waits behind the one being written; only a
\* write error or a close gives messages up.
Delivery ==
    ~Is("m_write_error") =>
        accepted = wire \o (IF m_queue = <<>> THEN <<>> ELSE Tail(m_queue))

\* async_close is started at most once although on_read, on_write and the
\* timer may each ask for it.
CloseOnce == closes <= 1

\* On an open session with a ping delay the timer runs until the session is
\* closing: close_session(), which leaves the work to the timer, never finds
\* it stopped.
TimerRuns ==
    stage = "open" /\ ping_delay # 0 /\ timer = "off" => Closing

\* What ends a session is always under way: with a ping delay the timer runs
\* until the session is closing; after an error the session is closing, or its
\* stream is closed and the timer is left to find that out, whatever pings and
\* pongs do to m_ping_state; and a closing session is closed or in async_close.
EndServed ==
    stage = "open" =>
        /\ TimerRuns
        /\ Is("m_read_error") \/ Is("m_write_error") =>
              Closing \/ (stream = "closed" /\ timer # "off")
        /\ Closing => stream = "closed" \/ m_close = "pending"

\* Once the peer's close, an error or the shutdown has hit the session, all its
\* operations end and it is destroyed (on_disconnect, remove_session).
SessionEnds ==
    (Closing \/ Is("m_read_error") \/ Is("m_write_error")) ~> ~Alive

\* With a ping delay, a peer that stops answering pings loses its session.
SilentPeerRemoved ==
    <>[][~OnControlPing]_vars => (stage = "open" /\ ping_delay # 0) ~> ~Alive

\* The inductive invariant behind OneWrite, CloseOnce and TimerRuns: the counts
\* of operations follow from the queue and from m_close.
SessionInv ==
    /\ TypeOK
    /\ OneWrite
    /\ TimerRuns
    /\ closes = IF m_close = "no" THEN 0 ELSE 1

\* The inductive invariant behind EndServed, on top of SessionInv: nothing has
\* happened to a session that is not open yet.
EndInv ==
    /\ stage # "open" => /\ flags = {} /\ m_close = "no" /\ timer = "off"
                         /\ posted = <<>> /\ m_queue = <<>>
    /\ stage = "open" => stream # "none"
    /\ EndServed
=============================================================================
