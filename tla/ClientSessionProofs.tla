------------------------- MODULE ClientSessionProofs -------------------------
(***************************************************************************)
(* Proofs about ClientSession, for any number of callers and any limits:   *)
(* the session uses its cache as module DataCache says, so that what is    *)
(* proved there holds of the session; there is one write at a time; and a  *)
(* caller that is released has no data left in the session.                *)
(***************************************************************************)
EXTENDS ClientSession, DataCacheProofs

(* A step of the session is a step of its cache or does not touch it. *)
LEMMA CacheStep == [Next]_vars => [CacheNext]_cacheVars
<1> SUFFICES ASSUME [Next]_vars PROVE [CacheNext]_cacheVars
  OBVIOUS
<1>1. ASSUME NEW c \in Calls, RecvNext(c) PROVE [CacheNext]_cacheVars
  BY <1>1 DEF RecvNext, SendRecv, PostRecv, SendTimeoutRecv, WaitRecv,
              FinishRecv, TimeoutRecv, OnReadAnswer, RowExpires,
              CacheNext, CallNext, ReaderNext
<1>2. ASSUME NEW c \in SendCalls, SendNext(c) PROVE UNCHANGED cacheVars
  BY <1>2 DEF SendNext, PostSend, ReturnSend, TimeoutSend
<1>3. CASE \/ Close \/ OnPostedSend \/ OnPostedClose \/ Writing
           \/ OnControlClose \/ OnClose \/ StreamFails
  BY <1>3 DEF Close, OnPostedSend, OnPostedClose, Writing, OnWrite,
              OnWriteError, OnControlClose, OnClose, StreamFails
<1>4. CASE OnReadBroadcast \/ OnReadRest \/ OnReadError
  BY <1>4 DEF OnReadBroadcast, OnReadRest, OnReadError, CacheNext, ReaderNext
<1>5. CASE UNCHANGED vars
  BY <1>5 DEF vars
<1> QED
  BY <1>1, <1>2, <1>3, <1>4, <1>5 DEF Next

(* The session uses the cache as its specification allows: whatever the    *)
(* order of posts, writes, answers and closes, the cache's table, rows and *)
(* sleepers behave as in DataCache.                                        *)
THEOREM SessionImplementsCache == Spec => CacheSpec
<1>1. Init => CacheInit
  BY DEF Init
<1>2. [Next]_vars => [CacheNext]_cacheVars
  BY CacheStep
<1> QED
  BY <1>1, <1>2, PTL DEF Spec, CacheSpec

(* A send_recv on a session returns its own answer or fails, and an empty *)
(* success only after the connection was lost.                           *)
THEOREM SessionRefinesRpcCall == Spec => RefinesRpcCall
BY SessionImplementsCache, CacheRefinesRpcCall, PTL

-----------------------------------------------------------------------------
(* Sequences of entries. *)

LEMMA AppendElems ==
    ASSUME NEW S, NEW s \in Seq(S), NEW m \in S
    PROVE  /\ Append(s, m) \in Seq(S) /\ Append(s, m) # <<>>
           /\ Elems(Append(s, m)) = Elems(s) \cup {m}
           /\ Once(s) /\ m \notin Elems(s) \cap Callers => Once(Append(s, m))
<1>1. /\ Append(s, m) \in Seq(S) /\ Len(Append(s, m)) = Len(s) + 1
      /\ DOMAIN s = 1..Len(s) /\ DOMAIN Append(s, m) = 1..(Len(s) + 1)
      /\ \A i \in 1..Len(s) : Append(s, m)[i] = s[i]
      /\ Append(s, m)[Len(s) + 1] = m /\ Len(s) \in Nat
  OBVIOUS
<1>2. Append(s, m) # <<>>
  <2>1. Len(<<>>) = 0
    OBVIOUS
  <2> QED
    BY <1>1, <2>1
<1>3. Elems(Append(s, m)) = Elems(s) \cup {m}
  BY <1>1 DEF Elems
<1>4. ASSUME Once(s), m \notin Elems(s) \cap Callers PROVE Once(Append(s, m))
  BY <1>1, <1>4 DEF Once, Elems
<1> QED
  BY <1>1, <1>2, <1>3, <1>4

LEMMA TailElems ==
    ASSUME NEW S, NEW s \in Seq(S), s # <<>>
    PROVE  /\ Tail(s) \in Seq(S) /\ Head(s) \in S
           /\ Elems(Tail(s)) \subseteq Elems(s) /\ Head(s) \in Elems(s)
           /\ Once(s) => Once(Tail(s))
           /\ Once(s) /\ Head(s) \in Callers => Head(s) \notin Elems(Tail(s))
<1>1. /\ Tail(s) \in Seq(S) /\ Head(s) = s[1] /\ Len(s) \in Nat \ {0}
      /\ DOMAIN s = 1..Len(s) /\ DOMAIN Tail(s) = 1..(Len(s) - 1)
      /\ \A i \in 1..(Len(s) - 1) : Tail(s)[i] = s[i + 1]
      /\ Head(s) \in S
  OBVIOUS
<1>2. Elems(Tail(s)) \subseteq Elems(s) /\ Head(s) \in Elems(s)
  BY <1>1 DEF Elems
<1>3. ASSUME Once(s)
      PROVE  Once(Tail(s)) /\ (Head(s) \in Callers => Head(s) \notin Elems(Tail(s)))
  BY <1>1, <1>3 DEF Once, Elems
<1> QED
  BY <1>1, <1>2, <1>3

-----------------------------------------------------------------------------
(* ClientInv is inductive. *)

USE DEF Callers

(* The types of the sequences and of the count alone, for the leaves that *)
(* reason about sequences.                                               *)
LEMMA QueueTypes ==
    ASSUME SessionTypeOK
    PROVE  /\ posted \in Seq(Callers \cup {CloseReq})
           /\ m_queue \in Seq(Callers) /\ wire \in Seq(Callers) /\ writes \in Nat
BY DEF SessionTypeOK

LEMMA ElemsOfQueue ==
    ASSUME NEW s \in Seq(Callers) PROVE Elems(s) \subseteq Callers
<1>1. DOMAIN s = 1..Len(s) /\ \A i \in 1..Len(s) : s[i] \in Callers
  OBVIOUS
<1> QED
  BY <1>1 DEF Elems

LEMMA EmptyOnce == Once(<<>>) /\ Elems(<<>>) = {}
<1>1. DOMAIN <<>> = {}
  OBVIOUS
<1> QED
  BY <1>1 DEF Once, Elems

LEMMA ClientInitInv == Init => ClientInv
<1> SUFFICES ASSUME Init PROVE ClientInv
  OBVIOUS
<1>1. SessionTypeOK
  BY DEF Init, SessionTypeOK
<1>2. OneWrite
  BY DEF Init, OneWrite
<1>3. ReferenceInv
  <2>1. posted = <<>> /\ m_queue = <<>>
    BY DEF Init
  <2> QED
    BY <2>1, EmptyOnce DEF ReferenceInv
<1> QED
  BY <1>1, <1>2, <1>3 DEF ClientInv

(* A new promise, and the caller's entry at the end of the posted handlers. *)
LEMMA PostKeeps ==
    ASSUME ClientInv, ClientAssumption, NEW c \in Callers, promise[c] = "none",
           promise' = [promise EXCEPT ![c] = "unset"],
           posted' = Append(posted, c), UNCHANGED <<ret, queueVars, stateVars>>
    PROVE  ClientInv'
<1>1. c \notin Elems(posted) \cup Elems(m_queue)
  BY DEF ClientInv, ReferenceInv
<1>2. /\ posted' \in Seq(Callers \cup {CloseReq})
      /\ Elems(posted') = Elems(posted) \cup {c} /\ Once(posted')
  <2>1. Once(posted) /\ posted \in Seq(Callers \cup {CloseReq})
    BY QueueTypes DEF ClientInv, ReferenceInv
  <2> QED
    BY <1>1, <2>1, AppendElems
<1>3. SessionTypeOK'
  BY <1>2 DEF ClientInv, SessionTypeOK, queueVars, stateVars
<1>4. OneWrite'
  BY DEF ClientInv, OneWrite, queueVars
<1>5. ReferenceInv'
  <2>1. /\ Once(m_queue) /\ Elems(posted) \cap Elems(m_queue) = {}
        /\ \A d \in Elems(posted) \cup Elems(m_queue) :
              d \in Callers => promise[d] \in {"unset", "gone"}
    BY DEF ClientInv, ReferenceInv
  <2>2. m_queue' = m_queue /\ promise'[c] = "unset"
        /\ \A d \in Callers \ {c} : promise'[d] = promise[d]
    BY DEF queueVars, ClientInv, SessionTypeOK
  <2> QED
    BY <1>1, <1>2, <2>1, <2>2 DEF ReferenceInv, Elems, Once
<1> QED
  BY <1>3, <1>4, <1>5 DEF ClientInv

(* A caller gives up its promise: what references its data stays. *)
LEMMA GiveUpKeeps ==
    ASSUME ClientInv, NEW c \in Callers, promise[c] = "unset",
           promise' = [promise EXCEPT ![c] = "gone"],
           ret' \in [SendCalls -> {"none", "ok", "timed_out"}],
           UNCHANGED <<posted, queueVars, stateVars>>
    PROVE  ClientInv'
<1>1. SessionTypeOK'
  BY DEF ClientInv, SessionTypeOK, queueVars, stateVars
<1>2. OneWrite'
  BY DEF ClientInv, OneWrite, queueVars
<1>3. ReferenceInv'
  <2>1. /\ promise'[c] = "gone"
        /\ \A d \in Callers \ {c} : promise'[d] = promise[d]
    BY DEF ClientInv, SessionTypeOK
  <2> QED
    BY <2>1 DEF ClientInv, ReferenceInv, queueVars, Once, Elems
<1> QED
  BY <1>1, <1>2, <1>3 DEF ClientInv

(* A step that leaves promises and queues alone. *)
LEMMA FrameKeeps ==
    ASSUME ClientInv, UNCHANGED <<promise, posted, queueVars>>,
           ret' \in [SendCalls -> {"none", "ok", "timed_out"}],
           m_close' \in {"no", "pending", "done"}, flags' \in SUBSET Flags,
           stream' \in {"open", "closed"}
    PROVE  ClientInv'
<1>1. SessionTypeOK'
  BY DEF ClientInv, SessionTypeOK, queueVars
<1>2. OneWrite' /\ ReferenceInv'
  BY DEF ClientInv, OneWrite, ReferenceInv, Once, Elems, queueVars
<1> QED
  BY <1>1, <1>2 DEF ClientInv

LEMMA CloseSessionTypes ==
    ASSUME SessionTypeOK, CloseSession
    PROVE  m_close' \in {"no", "pending", "done"}
BY DEF SessionTypeOK, CloseSession

(* disconnect() posts the close, which references no caller's data. *)
LEMMA CloseKeeps ==
    ASSUME ClientInv, ClientAssumption, Close PROVE ClientInv'
<1>1. /\ posted' \in Seq(Callers \cup {CloseReq})
      /\ Elems(posted') = Elems(posted) \cup {CloseReq} /\ Once(posted')
  <2>1. /\ Once(posted) /\ posted \in Seq(Callers \cup {CloseReq})
        /\ CloseReq \notin Callers /\ posted' = Append(posted, CloseReq)
    BY QueueTypes DEF ClientInv, ReferenceInv, ClientAssumption, Close
  <2> QED
    BY <2>1, AppendElems
<1>2. SessionTypeOK'
  BY <1>1 DEF ClientInv, SessionTypeOK, Close, promiseVars, queueVars, Flags
<1>3. OneWrite'
  BY DEF ClientInv, OneWrite, Close, queueVars
<1>4. ReferenceInv'
  <2>1. /\ Once(m_queue) /\ Elems(posted) \cap Elems(m_queue) = {}
        /\ \A d \in Elems(posted) \cup Elems(m_queue) :
              d \in Callers => promise[d] \in {"unset", "gone"}
    BY DEF ClientInv, ReferenceInv
  <2>2. m_queue' = m_queue /\ promise' = promise
    BY DEF Close, queueVars, promiseVars
  <2>3. CloseReq \notin Callers /\ CloseReq \notin Elems(m_queue)
    BY QueueTypes, ElemsOfQueue DEF ClientInv, ClientAssumption
  <2>4. Elems(m_queue') = Elems(m_queue) /\ Once(m_queue')
    BY <2>1, <2>2
  <2> QED
    BY <1>1, <2>1, <2>2, <2>3, <2>4 DEF ReferenceInv
<1> QED
  BY <1>2, <1>3, <1>4 DEF ClientInv

(* handle_send(): the entry moves from the posted handler to the queue, with *)
(* a write if none was pending, or is dropped.                              *)
LEMMA OnPostedSendKeeps ==
    ASSUME ClientInv, ClientAssumption, OnPostedSend PROVE ClientInv'
<1> DEFINE c == Head(posted)
<1>1. /\ posted \in Seq(Callers \cup {CloseReq}) /\ posted # <<>>
      /\ m_queue \in Seq(Callers) /\ wire \in Seq(Callers) /\ writes \in Nat
      /\ posted' = Tail(posted) /\ promise' = promise
      /\ c # CloseReq /\ HandleSend(c)
  BY QueueTypes DEF ClientInv, OnPostedSend, HandleSend
<1>2. /\ posted' \in Seq(Callers \cup {CloseReq}) /\ c \in Callers
      /\ Elems(posted') \subseteq Elems(posted) /\ c \in Elems(posted)
      /\ Once(posted') /\ c \notin Elems(posted')
  <2>1. Once(posted)
    BY DEF ClientInv, ReferenceInv
  <2>2. /\ Tail(posted) \in Seq(Callers \cup {CloseReq})
        /\ c \in Callers \cup {CloseReq}
        /\ Elems(Tail(posted)) \subseteq Elems(posted) /\ c \in Elems(posted)
        /\ Once(Tail(posted)) /\ (c \in Callers => c \notin Elems(Tail(posted)))
    BY <1>1, <2>1, TailElems
  <2> QED
    BY <1>1, <2>2
<1>3. /\ Once(m_queue) /\ Elems(posted) \cap Elems(m_queue) = {}
      /\ \A d \in Elems(posted) \cup Elems(m_queue) :
            d \in Callers => promise[d] \in {"unset", "gone"}
  BY DEF ClientInv, ReferenceInv
<1>4. CASE Sendable
  <2>1. m_queue' = Append(m_queue, c)
    BY <1>1, <1>4 DEF HandleSend
  <2>2. /\ m_queue' \in Seq(Callers) /\ m_queue' # <<>> /\ Once(m_queue')
        /\ Elems(m_queue') = Elems(m_queue) \cup {c}
    BY <1>1, <1>2, <1>3, <2>1, AppendElems
  <2>3. Head(m_queue') \in Callers
    BY <2>2, TailElems
  <2>4. writes' = 1 /\ wire' \in Seq(Callers)
    <3>1. writes = IF m_queue = <<>> THEN 0 ELSE 1
      BY DEF ClientInv, OneWrite
    <3>2. IF IsWriting THEN UNCHANGED <<writes, wire>> ELSE Write(m_queue')
      BY <1>1, <1>4 DEF HandleSend
    <3>3. IsWriting <=> m_queue # <<>>
      BY <1>1 DEF IsWriting
    <3>4. CASE m_queue = <<>>
      <4>1. writes' = writes + 1 /\ wire' = Append(wire, Head(m_queue'))
        BY <3>2, <3>3, <3>4 DEF Write
      <4>2. Append(wire, Head(m_queue')) \in Seq(Callers)
        BY <1>1, <2>3, AppendElems
      <4> QED
        BY <3>1, <3>4, <4>1, <4>2
    <3>5. CASE m_queue # <<>>
      BY <1>1, <3>1, <3>2, <3>3, <3>5
    <3> QED
      BY <3>4, <3>5
  <2>5. SessionTypeOK'
    BY <1>1, <1>2, <2>2, <2>4 DEF ClientInv, SessionTypeOK, OnPostedSend, stateVars
  <2>6. OneWrite'
    BY <2>2, <2>4 DEF OneWrite
  <2>7. ReferenceInv'
    BY <1>1, <1>2, <1>3, <2>2 DEF ReferenceInv
  <2> QED
    BY <2>5, <2>6, <2>7 DEF ClientInv
<1>5. CASE ~Sendable
  <2>1. UNCHANGED <<m_queue, writes, wire>>
    BY <1>1, <1>5 DEF HandleSend, queueVars
  <2>2. SessionTypeOK'
    BY <1>1, <1>2, <2>1 DEF ClientInv, SessionTypeOK, OnPostedSend, stateVars
  <2>3. OneWrite'
    BY <2>1 DEF ClientInv, OneWrite
  <2>4. Once(m_queue') /\ Elems(m_queue') = Elems(m_queue)
    BY <1>3, <2>1
  <2>5. ReferenceInv'
    BY <1>1, <1>2, <1>3, <2>4 DEF ReferenceInv
  <2> QED
    BY <2>2, <2>3, <2>5 DEF ClientInv
<1> QED
  BY <1>4, <1>5

LEMMA OnPostedCloseKeeps ==
    ASSUME ClientInv, OnPostedClose PROVE ClientInv'
<1>1. /\ posted \in Seq(Callers \cup {CloseReq}) /\ posted # <<>>
      /\ posted' = Tail(posted) /\ promise' = promise
      /\ UNCHANGED <<m_queue, writes, wire, ret, flags, stream>>
  BY QueueTypes DEF ClientInv, OnPostedClose, promiseVars, queueVars
<1>2. /\ posted' \in Seq(Callers \cup {CloseReq})
      /\ Elems(posted') \subseteq Elems(posted) /\ Once(posted')
  <2>1. Once(posted)
    BY DEF ClientInv, ReferenceInv
  <2> QED
    BY <1>1, <2>1, TailElems
<1>3. SessionTypeOK'
  <2>1. m_close' \in {"no", "pending", "done"}
    BY CloseSessionTypes DEF ClientInv, OnPostedClose
  <2> QED
    BY <1>1, <1>2, <2>1 DEF ClientInv, SessionTypeOK
<1>4. OneWrite'
  BY <1>1 DEF ClientInv, OneWrite
<1>5. ReferenceInv'
  <2>1. Once(m_queue') /\ Elems(m_queue') = Elems(m_queue)
    BY <1>1 DEF ClientInv, ReferenceInv
  <2> QED
    BY <1>1, <1>2, <2>1 DEF ClientInv, ReferenceInv
<1> QED
  BY <1>3, <1>4, <1>5 DEF ClientInv

(* Resolving the promises of callers with no entry left. *)
LEMMA ResolveKeeps ==
    ASSUME ClientInv, NEW S, NEW v \in {"true", "false"},
           promise' = Resolve(S, v)
    PROVE  /\ promise' \in [Callers -> {"none", "unset", "true", "false", "gone"}]
           /\ \A d \in Callers \ S : promise'[d] = promise[d]
BY DEF ClientInv, SessionTypeOK, Resolve

(* write_next(): the front leaves the queue and is resolved; the next entry, *)
(* if there is one, is written.                                             *)
LEMMA OnWriteKeeps ==
    ASSUME ClientInv, OnWrite PROVE ClientInv'
<1>1. /\ m_queue \in Seq(Callers) /\ wire \in Seq(Callers) /\ writes \in Nat
      /\ writes > 0 /\ m_queue' = Tail(m_queue)
      /\ promise' = Resolve({Head(m_queue)}, "true")
      /\ posted' = posted
      /\ IF m_queue' # <<>>
         THEN writes' = writes /\ wire' = Append(wire, Head(m_queue'))
         ELSE writes' = writes - 1 /\ UNCHANGED wire
  BY QueueTypes DEF ClientInv, OnWrite
<1>2. m_queue # <<>> /\ writes = 1
  BY <1>1 DEF ClientInv, OneWrite
<1>3. /\ Once(m_queue) /\ Elems(posted) \cap Elems(m_queue) = {}
      /\ \A d \in Elems(posted) \cup Elems(m_queue) :
            d \in Callers => promise[d] \in {"unset", "gone"}
  BY DEF ClientInv, ReferenceInv
<1>4. /\ m_queue' \in Seq(Callers) /\ Head(m_queue) \in Callers
      /\ Elems(m_queue') \subseteq Elems(m_queue) /\ Once(m_queue')
      /\ Head(m_queue) \in Elems(m_queue) /\ Head(m_queue) \notin Elems(m_queue')
  BY <1>1, <1>2, <1>3, TailElems
<1>5. /\ promise' \in [Callers -> {"none", "unset", "true", "false", "gone"}]
      /\ \A d \in Callers \ {Head(m_queue)} : promise'[d] = promise[d]
  BY <1>1, ResolveKeeps
<1>6. writes' \in Nat /\ wire' \in Seq(Callers)
      /\ writes' = IF m_queue' = <<>> THEN 0 ELSE 1
  <2>1. CASE m_queue' = <<>>
    BY <1>1, <1>2, <2>1
  <2>2. CASE m_queue' # <<>>
    <3>1. Head(m_queue') \in Callers
      BY <1>4, <2>2, TailElems
    <3>2. Append(wire, Head(m_queue')) \in Seq(Callers)
      BY <1>1, <3>1, AppendElems
    <3> QED
      BY <1>1, <1>2, <2>2, <3>2
  <2> QED
    BY <2>1, <2>2
<1>7. SessionTypeOK'
  BY <1>1, <1>4, <1>5, <1>6 DEF ClientInv, SessionTypeOK, OnWrite, stateVars
<1>8. OneWrite'
  BY <1>6 DEF OneWrite
<1>9. ReferenceInv'
  <2>1. Once(posted') /\ Elems(posted') = Elems(posted)
    BY <1>1 DEF ClientInv, ReferenceInv
  <2> QED
    BY <1>3, <1>4, <1>5, <2>1 DEF ReferenceInv
<1> QED
  BY <1>7, <1>8, <1>9 DEF ClientInv

(* clear(): every entry of the queue is dropped and its caller told. *)
LEMMA OnWriteErrorKeeps ==
    ASSUME ClientInv, OnWriteError PROVE ClientInv'
<1>1. /\ writes \in Nat /\ writes > 0 /\ writes' = writes - 1
      /\ m_queue' = <<>> /\ posted' = posted /\ wire' = wire /\ ret' = ret
      /\ promise' = Resolve(Elems(m_queue), "false")
  BY QueueTypes DEF ClientInv, OnWriteError, Dropped
<1>2. writes = 1
  BY <1>1 DEF ClientInv, OneWrite
<1>3. /\ promise' \in [Callers -> {"none", "unset", "true", "false", "gone"}]
      /\ \A d \in Callers \ Elems(m_queue) : promise'[d] = promise[d]
  BY <1>1, ResolveKeeps
<1>4. SessionTypeOK'
  <2>1. /\ m_close' \in {"no", "pending", "done"} /\ stream' \in {"open", "closed"}
        /\ flags' \in SUBSET Flags
    BY CloseSessionTypes DEF ClientInv, OnWriteError, SessionTypeOK, Flags
  <2>2. m_queue' \in Seq(Callers) /\ writes' \in Nat
    BY <1>1, <1>2
  <2> QED
    BY <1>1, <1>3, <2>1, <2>2 DEF ClientInv, SessionTypeOK
<1>5. OneWrite'
  BY <1>1, <1>2 DEF OneWrite
<1>6. ReferenceInv'
  <2>1. Once(m_queue') /\ Elems(m_queue') = {}
    BY <1>1, EmptyOnce
  <2>2. Once(posted') /\ Elems(posted') = Elems(posted)
    BY <1>1 DEF ClientInv, ReferenceInv
  <2> QED
    BY <1>1, <1>3, <2>1, <2>2 DEF ClientInv, ReferenceInv
<1> QED
  BY <1>4, <1>5, <1>6 DEF ClientInv

LEMMA ClientStepInv == ClientInv /\ [Next]_vars => ClientInv'
<1> SUFFICES ASSUME ClientInv, [Next]_vars PROVE ClientInv'
  OBVIOUS
<1> USE ClientAssumption
<1>0. /\ ret \in [SendCalls -> {"none", "ok", "timed_out"}]
      /\ m_close \in {"no", "pending", "done"} /\ flags \in SUBSET Flags
      /\ stream \in {"open", "closed"}
  BY DEF ClientInv, SessionTypeOK
<1>1. CASE UNCHANGED sessionVars
  BY <1>0, <1>1, FrameKeeps DEF sessionVars, promiseVars, queueVars, stateVars
<1>2. ASSUME NEW c \in Calls, RecvNext(c) PROVE ClientInv'
  <2>1. CASE PostRecv(c)
    BY <2>1, PostKeeps DEF PostRecv
  <2>2. CASE SendTimeoutRecv(c)
    BY <1>0, <2>2, GiveUpKeeps DEF SendTimeoutRecv
  <2>3. CASE \/ SendRecv(c) \/ WaitRecv(c) \/ FinishRecv(c) \/ TimeoutRecv(c)
             \/ OnReadAnswer(c) \/ RowExpires(c)
    BY <1>1, <2>3 DEF SendRecv, WaitRecv, FinishRecv, TimeoutRecv,
                      OnReadAnswer, RowExpires
  <2> QED
    BY <1>2, <2>1, <2>2, <2>3 DEF RecvNext
<1>3. ASSUME NEW c \in SendCalls, SendNext(c) PROVE ClientInv'
  <2>1. CASE PostSend(c)
    BY <2>1, PostKeeps DEF PostSend
  <2>2. CASE ReturnSend(c)
    <3>1. ret' \in [SendCalls -> {"none", "ok", "timed_out"}]
      BY <1>0, <2>2 DEF ReturnSend
    <3> QED
      BY <1>0, <2>2, <3>1, FrameKeeps DEF ReturnSend, stateVars
  <2>3. CASE TimeoutSend(c)
    <3>1. ret' \in [SendCalls -> {"none", "ok", "timed_out"}]
      BY <1>0, <2>3 DEF TimeoutSend
    <3> QED
      BY <2>3, <3>1, GiveUpKeeps DEF TimeoutSend
  <2> QED
    BY <1>3, <2>1, <2>2, <2>3 DEF SendNext
<1>4. CASE OnReadBroadcast \/ OnReadRest
  BY <1>1, <1>4 DEF OnReadBroadcast, OnReadRest
<1>5. CASE OnReadError
  <2>1. m_close' \in {"no", "pending", "done"}
    BY <1>5, CloseSessionTypes DEF ClientInv, OnReadError
  <2> QED
    BY <1>0, <1>5, <2>1, FrameKeeps DEF OnReadError, promiseVars, queueVars
<1>6. CASE OnControlClose \/ OnClose \/ StreamFails
  BY <1>0, <1>6, FrameKeeps
  DEF OnControlClose, OnClose, StreamFails, promiseVars, Flags
<1> QED
  BY <1>1, <1>2, <1>3, <1>4, <1>5, <1>6, CloseKeeps, OnPostedSendKeeps,
     OnPostedCloseKeeps, OnWriteKeeps, OnWriteErrorKeeps
  DEF Next, Writing, vars

(* ClientInv is an invariant of a session with any callers and any limits. *)
THEOREM ClientInvHolds == Spec => []ClientInv
BY ClientInitInv, ClientStepInv, PTL DEF Spec

(* write() never starts a second async_write and no handler frees the entry *)
(* that is being written.                                                   *)
THEOREM ClientOneWriteHolds == Spec => []OneWrite
<1>1. ClientInv => OneWrite
  BY DEF ClientInv
<1> QED
  BY <1>1, ClientInvHolds, PTL

(* A caller whose promise has a value may free its data: neither a posted   *)
(* handler nor the queue refers to it.                                     *)
THEOREM DataReleasedHolds == Spec => []DataReleased
<1>1. ClientInv => DataReleased
  BY DEF ClientInv, ReferenceInv, DataReleased
<1> QED
  BY <1>1, ClientInvHolds, PTL
-----------------------------------------------------------------------------
(* LossServed.  The cache's invariant and ClientInv hold besides.          *)

LEMMA RestElems ==
    ASSUME NEW S, NEW s \in Seq(S), s # <<>>
    PROVE  Elems(s) \subseteq {Head(s)} \cup Elems(Tail(s))
<1>1. /\ Head(s) = s[1] /\ Len(s) \in Nat \ {0}
      /\ DOMAIN s = 1..Len(s) /\ DOMAIN Tail(s) = 1..(Len(s) - 1)
      /\ \A i \in 1..(Len(s) - 1) : Tail(s)[i] = s[i + 1]
  OBVIOUS
<1>2. ASSUME NEW i \in 1..Len(s), i # 1 PROVE s[i] \in Elems(Tail(s))
  <2>1. i - 1 \in 1..(Len(s) - 1) /\ s[i] = Tail(s)[i - 1]
    BY <1>1, <1>2
  <2> QED
    BY <1>1, <2>1 DEF Elems
<1> QED
  BY <1>1, <1>2 DEF Elems

(* A call finds its own row in the table, or none. *)
LEMMA OwnRow ==
    ASSUME CacheInv, NEW c \in Calls, id[c] # 0, m_entries[id[c]] # NoCall
    PROVE  m_entries[id[c]] = c /\ c \in Rows
<1>1. id[c] \in Ids /\ m_entries[id[c]] \in Calls
  BY DEF CacheInv, TypeOK, Ids, OrNone
<1>2. id[m_entries[id[c]]] = id[c]
  BY <1>1 DEF CacheInv, EntriesInv
<1>3. m_entries[id[c]] = c
  BY <1>1, <1>2 DEF CacheInv, IdsInv
<1> QED
  BY <1>1, <1>3 DEF Rows, UsedIds

LEMMA RowsTyped == ASSUME CacheInv PROVE Rows \subseteq Calls
BY DEF CacheInv, TypeOK, OrNone, Rows, UsedIds

(* clear() notifies every sleeper whose row has not expired: it is in the  *)
(* table, or its answer came and the notification with it.                 *)
LEMMA ClearReaches ==
    ASSUME CacheInv, Clear, NEW c \in Calls, pc[c] = "sleep", c \notin expired
    PROVE  c \in notified'
<1>1. row[c] = c /\ id[c] # 0 /\ reader = "reading" /\ c \in Sleepers(c)
  BY DEF CacheInv, OwnInv, IdsInv, Clear, Sleepers
<1>2. CASE c \in answered
  <2>1. state[c] = "swapped"
    BY <1>2 DEF CacheInv, AnswerInv
  <2>2. c \in notified
    BY <1>1, <2>1 DEF CacheInv, NoLostWakeup
  <2> QED
    BY <2>2 DEF Clear
<1>3. CASE c \notin answered
  <2>1. m_entries[id[c]] = c
    BY <1>1, <1>3 DEF CacheInv, AnswerInv
  <2>2. c \in Rows
    BY <1>1, <2>1, OwnRow, CacheAssumption DEF CacheAssumption
  <2> QED
    BY <1>1, <2>2 DEF Clear
<1> QED
  BY <1>2, <1>3

(* The callers' steps in the cache. *)
LEMMA LateCache ==
    ASSUME CacheInv, ClientInv, LateInv, NEW c \in Calls,
           \/ SendRecv(c) \/ WaitRecv(c) \/ FinishRecv(c) \/ TimeoutRecv(c)
           \/ RowExpires(c)
    PROVE  LateInv'
<1> USE DEF LateInv, ReadError
<1>0. pc \in [Calls -> CallPc] /\ Rows \subseteq Calls /\ UNCHANGED <<promise, m_queue, reader>>
      /\ Elems(m_queue') = Elems(m_queue)
  BY RowsTyped DEF CacheInv, TypeOK, SendRecv, WaitRecv, FinishRecv, TimeoutRecv, RowExpires,
     QueueFull, Queue, WaitUnknown, WaitSwapped, WaitSleep, Wake, Take, Timeout, Expire,
     sessionVars, promiseVars, queueVars, ioVars
<1>1. CASE QueueFull(c) \/ WaitUnknown(c) \/ Take(c)
  <2>1. UNCHANGED <<m_entries, notified, expired>> /\ pc' = [pc EXCEPT ![c] = "done"]
    BY <1>1 DEF QueueFull, WaitUnknown, Take, tableVars
  <2> QED
    BY <1>0, <2>1 DEF Rows, UsedIds
<1>2. CASE Queue(c)
  <2>1. /\ pc[c] = "start" /\ pc' = [pc EXCEPT ![c] = "queued"]
        /\ m_entries' = [m_entries EXCEPT ![NextId] = c] /\ UNCHANGED <<notified, expired>>
    BY <1>2 DEF Queue
  <2>2. promise[c] = "none" /\ c \notin Elems(m_queue)
    BY <2>1 DEF ClientInv, ReferenceInv
  <2>3. Rows' \subseteq Rows \cup {c}
    BY <2>1 DEF Rows, UsedIds, CacheInv, TypeOK
  <2> QED
    BY <1>0, <2>1, <2>2, <2>3
<1>3. CASE WaitSwapped(c)
  <2>1. /\ pc' = [pc EXCEPT ![c] = "take"] /\ UNCHANGED <<notified, expired>>
        /\ m_entries' = [m_entries EXCEPT ![id[c]] = NoCall]
    BY <1>3 DEF WaitSwapped, Erase
  <2>2. Rows' \subseteq Rows
    BY <2>1 DEF Rows, UsedIds, CacheInv, TypeOK
  <2> QED
    BY <1>0, <2>1, <2>2
<1>4. CASE WaitRecv(c) /\ WaitSleep(c)
  <2>1. /\ pc[c] = "queued" /\ m_entries[id[c]] # NoCall /\ promise[c] \in {"true", "false"}
        /\ UNCHANGED m_entries /\ pc' = [pc EXCEPT ![c] = "sleep"]
    BY <1>4 DEF WaitRecv, WaitSleep, tableVars
  <2>2. c \in Rows
    BY <2>1, OwnRow DEF CacheInv, IdsInv
  <2>3. reader # "ended"
    BY <2>1, <2>2
  <2> QED
    BY <1>0, <2>1, <2>3
<1>5. CASE Wake(c) \/ Timeout(c)
  <2>1. /\ pc' = [pc EXCEPT ![c] = "take"] /\ notified' = notified \ {c}
        /\ UNCHANGED <<m_entries, expired>>
    BY <1>5 DEF Wake, Timeout, tableVars
  <2> QED
    BY <1>0, <2>1 DEF Rows, UsedIds
<1>6. CASE Expire(c)
  <2>1. UNCHANGED <<m_entries, pc, notified>> /\ expired \subseteq expired'
    BY <1>6 DEF Expire, tableVars, callVars
  <2> QED
    BY <1>0, <2>1 DEF Rows, UsedIds
<1> QED
  BY <1>1, <1>2, <1>3, <1>4, <1>5, <1>6
     DEF SendRecv, WaitRecv, FinishRecv, TimeoutRecv, RowExpires

(* A step that leaves the cache alone. *)
LEMMA LateQueue ==
    ASSUME CacheInv, LateInv,
           UNCHANGED <<pc, m_entries, notified, expired, reader>>,
           \A d \in Calls : /\ pc[d] = "start" => promise'[d] = promise[d]
                            /\ ReadError /\ d \in Rows =>
                                  /\ promise'[d] \in {promise[d], "unset", "gone"}
                                  /\ d \in Elems(m_queue') => d \in Elems(m_queue)
    PROVE  LateInv'
<1>1. Rows' = Rows /\ Rows \subseteq Calls
  BY RowsTyped DEF Rows, UsedIds
<1> QED
  BY <1>1 DEF LateInv, ReadError

LEMMA LateStep ==
    ASSUME CacheInv, ClientInv, LateInv, [Next]_vars
    PROVE  LateInv'
<1> USE ClientAssumption DEF ReadError
<1>0. promise \in [Callers -> {"none", "unset", "true", "false", "gone"}]
      /\ pc \in [Calls -> CallPc] /\ Calls \cap SendCalls = {}
  BY DEF ClientInv, SessionTypeOK, CacheInv, TypeOK, ClientAssumption
<1>1. CASE UNCHANGED <<cacheVars, promise, m_queue>>
  BY <1>1, LateQueue DEF cacheVars, callVars, tableVars, ioVars
<1>2. ASSUME NEW c \in Calls, RecvNext(c) PROVE LateInv'
  <2>1. CASE PostRecv(c)
    <3>1. /\ pc[c] = "queued" /\ promise' = [promise EXCEPT ![c] = "unset"]
          /\ UNCHANGED <<pc, m_entries, notified, expired, reader, m_queue>>
      BY <2>1 DEF PostRecv, queueVars, cacheVars, callVars, tableVars, ioVars
    <3> QED
      BY <1>0, <3>1, LateQueue
  <2>2. CASE SendTimeoutRecv(c)
    <3>1. /\ pc[c] = "queued" /\ pc' = [pc EXCEPT ![c] = "done"]
          /\ promise' = [promise EXCEPT ![c] = "gone"]
          /\ UNCHANGED <<m_entries, notified, expired, reader, m_queue>>
      BY <2>2 DEF SendTimeoutRecv, SendTimeout, queueVars, tableVars, ioVars
    <3>2. Rows' = Rows /\ Rows \subseteq Calls
      BY <3>1, RowsTyped DEF Rows, UsedIds
    <3> QED
      BY <1>0, <3>1, <3>2 DEF LateInv
  <2>3. CASE OnReadAnswer(c)
    <3>1. reader' # "ended" /\ UNCHANGED <<pc, promise>>
      BY <2>3 DEF OnReadAnswer, SwapNotify, SwapNotifyUnknown, callVars, sessionVars, promiseVars
    <3> QED
      BY <3>1 DEF LateInv
  <2> QED
    BY <1>2, <2>1, <2>2, <2>3, LateCache DEF RecvNext
<1>3. ASSUME NEW c \in SendCalls, SendNext(c) PROVE LateInv'
  <2>1. /\ UNCHANGED <<pc, m_entries, notified, expired, reader, m_queue>>
        /\ \A d \in Calls : promise'[d] = promise[d]
    BY <1>0, <1>3 DEF SendNext, PostSend, ReturnSend, TimeoutSend, queueVars, cacheVars,
       callVars, tableVars, ioVars
  <2> QED
    BY <2>1, LateQueue
<1>4. CASE Close \/ OnPostedClose \/ OnControlClose \/ OnClose \/ StreamFails
  BY <1>1, <1>4 DEF Close, OnPostedClose, OnControlClose, OnClose, StreamFails,
     promiseVars, queueVars
<1>5. CASE OnPostedSend
  <2>1. UNCHANGED <<cacheVars, promise>> /\ (reader = "ended" => m_queue' = m_queue)
    BY <1>5 DEF OnPostedSend, HandleSend, Sendable, queueVars
  <2>2. UNCHANGED <<pc, m_entries, notified, expired, reader>>
    BY <2>1 DEF cacheVars, callVars, tableVars, ioVars
  <2> QED
    BY <2>1, <2>2, LateQueue
<1>6. CASE OnWrite \/ OnWriteError
  <2>1. UNCHANGED <<pc, m_entries, notified, expired, reader>>
    BY <1>6 DEF OnWrite, OnWriteError, cacheVars, callVars, tableVars, ioVars
  <2>2. \A d \in Calls : pc[d] = "start" => promise'[d] = promise[d]
    BY <1>0, <1>6 DEF OnWrite, OnWriteError, Resolve, Dropped, LateInv
  <2>3. ASSUME NEW d \in Calls, reader = "ended", d \in Rows
        PROVE  promise'[d] = promise[d] /\ d \notin Elems(m_queue')
    <3>1. OnWriteError /\ d \notin Elems(m_queue)
      BY <1>6, <2>3 DEF OnWrite, LateInv
    <3> QED
      BY <1>0, <3>1, EmptyOnce DEF OnWriteError, Dropped, Resolve
  <2> QED
    BY <2>1, <2>2, <2>3, LateQueue
<1>7. CASE OnReadBroadcast \/ OnReadRest
  <2>1. reader' # "ended" /\ UNCHANGED <<pc, promise>>
    BY <1>7 DEF OnReadBroadcast, OnReadRest, OnReadOther, SwapNotifyEnd, RemoveObsolete,
       callVars, sessionVars, promiseVars
  <2> QED
    BY <2>1 DEF LateInv
<1>8. CASE OnReadError
  <2>1. Clear /\ UNCHANGED <<pc, promise, expired>> /\ m_entries' = [i \in Ids |-> NoCall]
    BY <1>8 DEF OnReadError, Clear, promiseVars
  <2>2. Rows' = {}
    BY <2>1 DEF Rows, UsedIds
  <2> QED
    BY <2>1, <2>2, ClearReaches DEF LateInv
<1>9. CASE UNCHANGED vars
  BY <1>1, <1>9 DEF vars, sessionVars, promiseVars, queueVars
<1> QED
  BY <1>2, <1>3, <1>4, <1>5, <1>6, <1>7, <1>8, <1>9 DEF Next, Writing

(* Whoever asks for a close, close_session() is reached or on its way. *)
LEMMA EndStep ==
    ASSUME ClientInv, EndInv, [Next]_vars
    PROVE  EndInv'
<1> USE DEF EndInv, Closing, Is, ReadError
<1>0. posted \in Seq(Callers \cup {CloseReq}) /\ flags \subseteq Flags
      /\ m_close \in {"no", "pending", "done"} /\ stream \in {"open", "closed"}
  BY QueueTypes DEF ClientInv, SessionTypeOK
<1>1. CASE /\ UNCHANGED stateVars /\ (reader' = "ended" => reader = "ended")
           /\ CloseReq \in Elems(posted) => CloseReq \in Elems(posted')
  BY <1>1 DEF stateVars
<1>2. ASSUME NEW c \in Callers, posted' = Append(posted, c), UNCHANGED <<cacheVars, stateVars>>
      PROVE  EndInv'
  <2>1. Elems(posted') = Elems(posted) \cup {c}
    BY <1>0, <1>2, AppendElems
  <2> QED
    BY <1>1, <1>2, <2>1 DEF cacheVars, ioVars
<1>3. ASSUME NEW c \in Calls, RecvNext(c) PROVE EndInv'
  <2>1. CASE PostRecv(c)
    BY <1>2, <2>1 DEF PostRecv
  <2>2. CASE \/ SendRecv(c) \/ SendTimeoutRecv(c) \/ WaitRecv(c) \/ FinishRecv(c)
             \/ TimeoutRecv(c) \/ OnReadAnswer(c) \/ RowExpires(c)
    <3>1. UNCHANGED <<stateVars, posted>> /\ (reader' = "ended" => reader = "ended")
      BY <2>2 DEF SendRecv, SendTimeoutRecv, WaitRecv, FinishRecv, TimeoutRecv, OnReadAnswer,
         RowExpires, QueueFull, Queue, SendTimeout, WaitUnknown, WaitSwapped, WaitSleep, Wake,
         Take, Timeout, SwapNotify, SwapNotifyUnknown, Expire, sessionVars, ioVars
    <3> QED
      BY <1>1, <3>1
  <2> QED
    BY <1>3, <2>1, <2>2 DEF RecvNext
<1>4. ASSUME NEW c \in SendCalls, SendNext(c) PROVE EndInv'
  <2>1. CASE PostSend(c)
    BY <1>2, <2>1 DEF PostSend
  <2>2. CASE ReturnSend(c) \/ TimeoutSend(c)
    BY <1>1, <2>2 DEF ReturnSend, TimeoutSend, cacheVars, ioVars
  <2> QED
    BY <1>4, <2>1, <2>2 DEF SendNext
<1>5. CASE Close
  <2>1. CloseReq \in Elems(posted')
    BY <1>0, <1>5, AppendElems DEF Close
  <2> QED
    BY <1>0, <1>5, <2>1 DEF Close, cacheVars, ioVars
<1>6. CASE OnPostedSend
  <2>1. /\ UNCHANGED <<stateVars, reader>>
        /\ posted # <<>> /\ Head(posted) # CloseReq /\ posted' = Tail(posted)
    BY <1>6 DEF OnPostedSend, cacheVars, ioVars
  <2>2. CloseReq \in Elems(posted) => CloseReq \in Elems(posted')
    BY <1>0, <2>1, RestElems
  <2> QED
    BY <1>1, <2>1, <2>2
<1>7. CASE OnPostedClose
  BY <1>7 DEF OnPostedClose, CloseSession, MayClose, cacheVars, ioVars
<1>8. CASE OnWrite
  BY <1>1, <1>8 DEF OnWrite, cacheVars, ioVars
<1>9. CASE OnWriteError
  BY <1>0, <1>9 DEF OnWriteError, CloseSession, MayClose, cacheVars, ioVars
<1>10. CASE OnReadError
  BY <1>10 DEF OnReadError, CloseSession, MayClose, Clear
<1>11. CASE OnReadBroadcast \/ OnReadRest
  BY <1>1, <1>11 DEF OnReadBroadcast, OnReadRest, OnReadOther, SwapNotifyEnd, RemoveObsolete,
     sessionVars
<1>12. CASE OnControlClose \/ OnClose \/ StreamFails
  BY <1>0, <1>12 DEF OnControlClose, OnClose, StreamFails, cacheVars, ioVars, Flags
<1>13. CASE UNCHANGED vars
  BY <1>1, <1>13 DEF vars, sessionVars, cacheVars, ioVars
<1> QED
  BY <1>3, <1>4, <1>5, <1>6, <1>7, <1>8, <1>9, <1>10, <1>11, <1>12, <1>13
     DEF Next, Writing

(* When reading has ended nobody is left asleep, and a session that was hit *)
(* by an error or a disconnect() is closed or about to be.                 *)
THEOREM LossServedHolds == Spec => []LossServed
<1>1. Init => LateInv /\ EndInv
  <2> SUFFICES ASSUME Init PROVE LateInv /\ EndInv
    OBVIOUS
  <2>1. /\ reader = "reading" /\ promise = [c \in Callers |-> "none"]
        /\ flags = {} /\ m_close = "no"
    BY DEF Init, CacheInit
  <2> QED
    BY <2>1 DEF LateInv, EndInv, ReadError, Is
<1>2. CacheInv /\ ClientInv /\ LateInv /\ EndInv /\ [Next]_vars => LateInv' /\ EndInv'
  BY LateStep, EndStep
<1>3. ClientInv /\ LateInv /\ EndInv => LossServed
  BY DEF LossServed, LateInv, EndInv, Closing, ClientInv, SessionTypeOK
<1> QED
  BY <1>1, <1>2, <1>3, ClientInvHolds, SessionImplementsCache, CacheInvHolds, PTL DEF Spec
=============================================================================
