---------------------------- MODULE ClientSession ----------------------------
(***************************************************************************)
(* An established client session (impl/client/client_session.hpp): the     *)
(* data_cache of module DataCache with the write queue (data_queue), the   *)
(* read loop, the posted handlers and the close of the session around it.  *)
(*                                                                         *)
(* Threads inside client::send and client::send_recv call the session      *)
(* concurrently; all handlers run on the one IO thread.  A handler is one  *)
(* step, except on_read, whose steps are those of DataCache: no other      *)
(* handler runs between them (IoFree).  close() is called by               *)
(* client::disconnect, which excludes the other callers by m_session_mtx.  *)
(***************************************************************************)
EXTENDS DataCache, Sequences

CONSTANTS SendCalls,   \* the send calls made on the session
          SendMax,     \* config::queue_send_max
          CloseReq     \* the posted close_session handler

Callers == Calls \cup SendCalls

ASSUME ClientAssumption ==
    /\ Calls \cap SendCalls = {}
    /\ NoCall \notin SendCalls
    /\ CloseReq \notin Callers \cup {NoCall}
    /\ SendMax \in Nat

VARIABLES
    promise,   \* write_callback of each caller: "none", "unset", its value, or
               \* "gone" when the caller stopped waiting for it
    ret,       \* what each send call returned
    posted,    \* handlers posted to the io_context, in order
    m_queue,   \* data_queue::m_entries
    writes,    \* number of pending async_write operations
    wire,      \* history: callers whose data was handed to async_write
    m_close,   \* "no", then async_close "pending", then "done"
    flags,     \* the bool members that are true
    stream     \* "open" or "closed"

promiseVars == <<promise, ret>>
queueVars == <<m_queue, writes, wire>>
stateVars == <<m_close, flags, stream>>
sessionVars == <<promiseVars, posted, queueVars, stateVars>>
vars == <<cacheVars, sessionVars>>

Flags == {"m_close_received", "m_write_error", "m_close_initiated"}

SessionTypeOK ==
    /\ promise \in [Callers -> {"none", "unset", "true", "false", "gone"}]
    /\ ret \in [SendCalls -> {"none", "ok", "timed_out"}]
    /\ posted \in Seq(Callers \cup {CloseReq})
    /\ m_queue \in Seq(Callers)
    /\ writes \in Nat
    /\ wire \in Seq(Callers)
    /\ m_close \in {"no", "pending", "done"}
    /\ flags \in SUBSET Flags
    /\ stream \in {"open", "closed"}

Init ==
    /\ CacheInit
    /\ promise = [c \in Callers |-> "none"]
    /\ ret = [c \in SendCalls |-> "none"]
    /\ posted = <<>> /\ m_queue = <<>> /\ writes = 0 /\ wire = <<>>
    /\ m_close = "no" /\ flags = {} /\ stream = "open"

Is(flag) == flag \in flags
Elems(s) == {s[i] : i \in DOMAIN s}

\* on_read sets m_read_error exactly when it ends the read loop.
ReadError == reader = "ended"
IoFree == reader \in {"reading", "ended"}
Closing == m_close # "no" \/ Is("m_close_received")

\* The caller is inside send or send_recv and holds the session.
InCall(c) == IF c \in Calls THEN pc[c] \notin {"start", "done"}
             ELSE promise[c] # "none" /\ ret[c] = "none"

\* No operation is pending on the stream.
Quiet == ReadError /\ writes = 0 /\ m_close # "pending"

\* client::m_session can be locked, and disconnect() has not taken over.
MayCall == /\ ~Is("m_close_initiated")
           /\ ~Quiet \/ \E c \in Callers : InCall(c)

-----------------------------------------------------------------------------
(* Functions called inside handlers.  Each Mut operator is a defect in the *)
(* definition that follows it.                                             *)

MutMayClose == ~Closing /\ m_queue = <<>>    \* a pending write is waited for
MayClose == ~Closing

CloseSession ==
    IF MayClose THEN m_close' = "pending" ELSE UNCHANGED m_close

\* write(): the front of the queue is handed to async_write.
Write(q) ==
    /\ writes' = writes + 1
    /\ wire' = Append(wire, Head(q))

MutIsWriting == Len(m_queue) > 1             \* tested before the entry is added
IsWriting == Len(m_queue) > 0

Sendable ==
    ~Closing /\ ~Is("m_write_error") /\ ~ReadError /\ Len(m_queue) < SendMax

\* set_value on the promises of the callers S that still wait for them.
Resolve(S, v) == [c \in Callers |-> IF c \in S /\ promise[c] = "unset"
                                    THEN v ELSE promise[c]]

\* clear() drops the entries without a word to their callers
MutDropped == promise
Dropped == Resolve(Elems(m_queue), "false")

\* handle_send() acknowledges the entry when it is queued
MutHandleSend(c) ==
    IF Sendable
    THEN /\ m_queue' = Append(m_queue, c)
         /\ promise' = Resolve({c}, "true")
         /\ IF IsWriting THEN UNCHANGED <<writes, wire>> ELSE Write(m_queue')
    ELSE UNCHANGED <<queueVars, promise>>

\* handle_send(): an entry that cannot be queued is dropped silently.
HandleSend(c) ==
    IF Sendable
    THEN /\ m_queue' = Append(m_queue, c)
         /\ IF IsWriting THEN UNCHANGED <<writes, wire>> ELSE Write(m_queue')
         /\ UNCHANGED promise
    ELSE UNCHANGED <<queueVars, promise>>

-----------------------------------------------------------------------------
(* The callers. *)

\* send_recv: queue a row; on a full cache return operation_aborted.
SendRecv(c) ==
    /\ MayCall
    /\ QueueFull(c) \/ Queue(c)
    /\ UNCHANGED sessionVars

\* send_recv posts handle_send with a promise.
PostRecv(c) ==
    /\ pc[c] = "queued" /\ promise[c] = "none"
    /\ promise' = [promise EXCEPT ![c] = "unset"]
    /\ posted' = Append(posted, c)
    /\ UNCHANGED <<cacheVars, ret, queueVars, stateVars>>

\* send_recv gives up the write; the entry stays queued with its data.
SendTimeoutRecv(c) ==
    /\ promise[c] = "unset"
    /\ SendTimeout(c)
    /\ promise' = [promise EXCEPT ![c] = "gone"]
    /\ UNCHANGED <<ret, posted, queueVars, stateVars>>

\* send_recv once the future is ready, whatever its value.
WaitRecv(c) ==
    /\ promise[c] \in {"true", "false"}
    /\ WaitUnknown(c) \/ WaitSwapped(c) \/ WaitSleep(c)
    /\ UNCHANGED sessionVars

FinishRecv(c) ==
    /\ Wake(c) \/ Take(c)
    /\ UNCHANGED sessionVars

TimeoutRecv(c) == Timeout(c) /\ UNCHANGED sessionVars

\* send posts handle_send with a promise.
PostSend(c) ==
    /\ MayCall
    /\ promise[c] = "none"
    /\ promise' = [promise EXCEPT ![c] = "unset"]
    /\ posted' = Append(posted, c)
    /\ UNCHANGED <<cacheVars, ret, queueVars, stateVars>>

\* send returns without an error once the future is ready, whatever its value.
ReturnSend(c) ==
    /\ promise[c] \in {"true", "false"} /\ ret[c] = "none"
    /\ ret' = [ret EXCEPT ![c] = "ok"]
    /\ UNCHANGED <<cacheVars, promise, posted, queueVars, stateVars>>

TimeoutSend(c) ==
    /\ promise[c] = "unset"
    /\ promise' = [promise EXCEPT ![c] = "gone"]
    /\ ret' = [ret EXCEPT ![c] = "timed_out"]
    /\ UNCHANGED <<cacheVars, posted, queueVars, stateVars>>

\* close(), called with m_session_mtx held exclusively.
Close ==
    /\ ~Is("m_close_initiated")
    /\ \A c \in Callers : ~InCall(c)
    /\ flags' = flags \cup {"m_close_initiated"}
    /\ posted' = Append(posted, CloseReq)
    /\ UNCHANGED <<cacheVars, promiseVars, queueVars, m_close, stream>>

-----------------------------------------------------------------------------
(* The IO thread. *)

OnPostedSend ==
    /\ IoFree
    /\ posted # <<>> /\ Head(posted) # CloseReq
    /\ HandleSend(Head(posted))
    /\ posted' = Tail(posted)
    /\ UNCHANGED <<cacheVars, ret, stateVars>>

OnPostedClose ==
    /\ IoFree
    /\ posted # <<>> /\ Head(posted) = CloseReq
    /\ CloseSession
    /\ posted' = Tail(posted)
    /\ UNCHANGED <<cacheVars, promiseVars, queueVars, flags, stream>>

\* on_write without an error on a session that is not closing (write_next).
OnWrite ==
    /\ IoFree
    /\ writes > 0
    /\ ~Closing /\ ~ReadError
    /\ promise' = Resolve({Head(m_queue)}, "true")
    /\ m_queue' = Tail(m_queue)
    /\ IF m_queue' # <<>>
       THEN writes' = writes /\ wire' = Append(wire, Head(m_queue'))
       ELSE writes' = writes - 1 /\ UNCHANGED wire
    /\ UNCHANGED <<cacheVars, ret, posted, stateVars>>

\* on_write with an error (which fails the stream) or on a closing session.
OnWriteError ==
    /\ IoFree
    /\ writes > 0
    /\ \/ stream' = "closed"
       \/ (Closing \/ ReadError) /\ stream' = stream
    /\ promise' = Dropped
    /\ m_queue' = <<>>
    /\ writes' = writes - 1
    /\ flags' = flags \cup {"m_write_error"}
    /\ CloseSession
    /\ UNCHANGED <<cacheVars, ret, posted, wire>>

\* on_read with the answer to c, whose request has been handed to the stream.
OnReadAnswer(c) ==
    /\ stream = "open"
    /\ c \in Elems(wire)
    /\ SwapNotify(c) \/ SwapNotifyUnknown(c)
    /\ UNCHANGED sessionVars

\* on_read with a broadcast or a short frame.
OnReadBroadcast ==
    /\ stream = "open"
    /\ OnReadOther
    /\ UNCHANGED sessionVars

\* The rest of on_read.
OnReadRest ==
    /\ SwapNotifyEnd \/ RemoveObsolete
    /\ UNCHANGED sessionVars

\* on_read with an error, or after a close frame: the cache is cleared.
OnReadError ==
    /\ stream = "closed" \/ Is("m_close_received")
    /\ Clear
    /\ CloseSession
    /\ UNCHANGED <<promiseVars, posted, queueVars, flags, stream>>

\* on_control_callback with a close frame, called by the stream while it reads.
OnControlClose ==
    /\ reader = "reading" /\ stream = "open"
    /\ flags' = flags \cup {"m_close_received"}
    /\ stream' = "closed"
    /\ UNCHANGED <<cacheVars, promiseVars, posted, queueVars, m_close>>

\* on_close: the close handshake is over, or has timed out.
OnClose ==
    /\ IoFree
    /\ m_close = "pending"
    /\ m_close' = "done"
    /\ stream' = "closed"
    /\ UNCHANGED <<cacheVars, promiseVars, posted, queueVars, flags>>

-----------------------------------------------------------------------------
(* The environment. *)

StreamFails ==
    /\ stream = "open"
    /\ stream' = "closed"
    /\ UNCHANGED <<cacheVars, promiseVars, posted, queueVars, m_close, flags>>

RowExpires(c) == Expire(c) /\ UNCHANGED sessionVars

-----------------------------------------------------------------------------
RecvNext(c) ==
    \/ SendRecv(c) \/ PostRecv(c) \/ SendTimeoutRecv(c) \/ WaitRecv(c)
    \/ FinishRecv(c) \/ TimeoutRecv(c) \/ OnReadAnswer(c) \/ RowExpires(c)

SendNext(c) == PostSend(c) \/ ReturnSend(c) \/ TimeoutSend(c)

Writing == OnWrite \/ OnWriteError

Next ==
    \/ \E c \in Calls : RecvNext(c)
    \/ \E c \in SendCalls : SendNext(c)
    \/ Close \/ OnPostedSend \/ OnPostedClose \/ Writing
    \/ OnReadBroadcast \/ OnReadRest \/ OnReadError
    \/ OnControlClose \/ OnClose \/ StreamFails

Spec == Init /\ [][Next]_vars

\* The io_context runs ready handlers in the order they became ready, so a
\* handler is not overtaken for ever by on_read: strong fairness, since a
\* handler that waits is disabled while on_read runs.  async_close completes by
\* the stream's timeout (handshake_timeout, off by default), a write because TCP makes progress or fails, a read
\* once the stream is closed; a caller that can go on does.  Nothing is assumed
\* of the server, of the callers' timeouts, or of a thread calling close().
Fairness ==
    /\ SF_vars(OnPostedSend) /\ SF_vars(OnPostedClose) /\ SF_vars(Writing)
    /\ SF_vars(OnClose) /\ WF_vars(OnReadRest) /\ WF_vars(OnReadError)
    /\ \A c \in Calls : WF_vars(FinishRecv(c))

FairSpec == Spec /\ Fairness

-----------------------------------------------------------------------------
(* Properties. *)

\* At most one async_write is pending, and exactly while the queue is not
\* empty: no handler frees or writes a second time the entry whose buffers the
\* pending write uses (write(), data_queue::clear).
OneWrite == writes = IF m_queue = <<>> THEN 0 ELSE 1

\* "After return the data will not be used anymore": a call that was told its
\* message is dealt with, and so may return without an error and without
\* waiting for the session's destruction, has no entry left in a posted
\* handler, in the queue or in the pending write.
DataReleased ==
    \A c \in Callers : promise[c] \in {"true", "false"} =>
        c \notin Elems(posted) \cup Elems(m_queue)

\* A message that entered the queue is resolved, without any help from the
\* caller's timeout: written, or dropped with promise(false).
QueuedResolved ==
    \A c \in Callers : c \in Elems(m_queue) ~> promise[c] # "unset"

\* When the connection is gone, a thread asleep in send_recv is woken by clear()
\* and returns without waiting for its timeout, provided that remove_obsolete()
\* has not taken its row out of clear()'s reach: a message that was dropped with
\* promise(false), after which send_recv still waits for an answer, included.
LossWakesSleepers ==
    \A c \in Calls : []<>(pc[c] = "sleep" /\ stream = "closed" => c \in expired)

\* The state on which LossWakesSleepers and SessionEnds rest, for every thread.
\* When reading has ended every thread asleep in send_recv has been notified,
\* unless remove_obsolete() could take its row away: none falls asleep after
\* clear(), although calls still enter.  And after disconnect() or an error the
\* stream is closed, or its async_close is pending or posted.
LossServed ==
    /\ ReadError => \A c \in Calls : pc[c] = "sleep" => c \in notified \cup expired
    /\ ReadError \/ Is("m_write_error") \/ Is("m_close_initiated") =>
          stream = "closed" \/ m_close = "pending" \/ CloseReq \in Elems(posted)

\* After disconnect() or a loss of the connection, which are for ever, every
\* operation of the session ends, so that it is destroyed.
SessionEnds == []<>(Is("m_close_initiated") \/ stream = "closed" => Quiet)

-----------------------------------------------------------------------------
(* The inductive invariant behind OneWrite and DataReleased. *)

\* A caller occurs at most once in a sequence of entries.
Once(s) == \A i, j \in DOMAIN s : s[i] = s[j] /\ s[i] \in Callers => i = j

\* A caller's data is referenced at most once, by a posted handler or by the
\* queue, and not before the caller made its promise.
ReferenceInv ==
    /\ Once(posted) /\ Once(m_queue)
    /\ Elems(posted) \cap Elems(m_queue) = {}
    /\ \A c \in Elems(posted) \cup Elems(m_queue) :
          c \in Callers => promise[c] \in {"unset", "gone"}

ClientInv == SessionTypeOK /\ OneWrite /\ ReferenceInv

-----------------------------------------------------------------------------
(* The inductive invariant behind LossServed, on top of CacheInv and       *)
(* ClientInv.                                                              *)

\* A call that comes after clear() is not written, so that its promise is not
\* resolved and it does not come to wait for an answer.
LateInv ==
    /\ \A c \in Calls : pc[c] = "start" => promise[c] = "none"
    /\ ReadError => \A c \in Rows : /\ promise[c] \notin {"true", "false"}
                                    /\ c \notin Elems(m_queue)
    /\ ReadError => \A c \in Calls : pc[c] = "sleep" => c \in notified \cup expired

\* An error ends in close_session, and so does disconnect().
EndInv ==
    /\ ReadError \/ Is("m_write_error") => Closing
    /\ Is("m_close_initiated") => Closing \/ CloseReq \in Elems(posted)
    /\ m_close = "done" \/ Is("m_close_received") => stream = "closed"
=============================================================================
