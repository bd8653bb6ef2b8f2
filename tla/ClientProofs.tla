---------------------------- MODULE ClientProofs ----------------------------
(***************************************************************************)
(* The safety properties of Client, for any number of threads and attempts.*)
(* ClientInv is inductive: there is a lemma for each step of a caller, one *)
(* for what all handlers have in common, and one for each kind of handler. *)
(***************************************************************************)
EXTENDS Client, TLAPS

USE CallerAssumption
    DEF lockVars, callVars, streamVars, sessionVars, ioVars, Go,
        WriterPcs, SharedPcs, RefPcs, ClosePcs

LEMMA ClientInit == Init => ClientInv
<1> SUFFICES ASSUME Init PROVE ClientInv
    OBVIOUS
<1> USE DEF Init
<1>1. /\ pc \in [Callers -> Pcs] /\ left \in [Callers -> 0..Attempts]
      /\ call \in [Callers -> Exclusive \cup {"send", "none"}]
      /\ todo \in [Callers -> Exclusive \cup {"none"}]
      BY DEF Pcs
<1>2. TypeOK
      BY <1>1 DEF TypeOK
<1>3. LockInv /\ SessionInv /\ ExitInv
      BY DEF LockInv, SessionInv, ExitInv
<1>4. ChainInv /\ DataInv
      BY DEF ChainInv, HandshakeGuarded, DataInv
<1>5. QED
      BY <1>2, <1>3, <1>4 DEF ClientInv

\* TypeOK in three parts: the threads and their lock, the session, the rest.
CallTyped ==
    /\ writer \in Callers \cup {None} /\ readers \in SUBSET Callers
    /\ m_exit \in BOOLEAN
    /\ pc \in [Callers -> Pcs]
    /\ call \in [Callers -> Exclusive \cup {"send", "none"}]
    /\ todo \in [Callers -> Exclusive \cup {"none"}]
    /\ left \in [Callers -> 0..Attempts]

SessionTyped ==
    /\ refs \in SUBSET Callers
    /\ session \in {"none", "live", "dying"}
    /\ m_expired \in BOOLEAN
    /\ run \in {"unset", "true", "false"}
    /\ flags \in SUBSET Flags
    /\ lost \in BOOLEAN
    /\ posted \in SUBSET (Posts \cup Callers)
    /\ ops \in SUBSET (SessionOps \cup Callers)

IoTyped ==
    /\ written \in SUBSET Callers
    /\ stopped \in BOOLEAN
    /\ worker \in {"none", "start", "run", "ended"}
    /\ inrun \in SUBSET Callers

LEMMA TypeParts == TypeOK => CallTyped /\ SessionTyped /\ IoTyped
BY DEF TypeOK, CallTyped, SessionTyped, IoTyped

LEMMA PartsType ==
    ASSUME CallTyped', SessionTyped', IoTyped'
    PROVE  TypeOK'
BY DEF TypeOK, CallTyped, SessionTyped, IoTyped

\* What changes when a function of the client returns keeps its type ...
LEMMA ReturnType ==
    ASSUME TypeOK, NEW t \in Callers, Return(t)
    PROVE  CallTyped'
BY DEF TypeOK, CallTyped, Return, Finish, Pcs, Exclusive

\* ... and so does what changes when a reference to the session is dropped.
LEMMA DropType ==
    ASSUME TypeOK, NEW t \in Callers, Drop(t)
    PROVE  SessionTyped'
<1> USE DEF SessionTyped
<1>1. refs' \in SUBSET Callers /\ ops' \in SUBSET (SessionOps \cup Callers)
      BY DEF TypeOK, Drop
<1>2. CASE refs = {t} /\ ops = {}
      BY <1>1, <1>2 DEF TypeOK, Drop, Deleted, Orphaned, Posts
<1>3. CASE ~(refs = {t} /\ ops = {})
      BY <1>1, <1>3 DEF TypeOK, Drop
<1>4. QED
      BY <1>2, <1>3

-----------------------------------------------------------------------------
(* The application calls a function. *)

LEMMA CallStep ==
    ASSUME ClientInv, NEW t \in Callers,
           NEW k \in Exclusive \cup {"send"}, Call(t, k)
    PROVE  ClientInv'
<1> USE DEF ClientInv, Call
<1>1. TypeOK'
      BY DEF TypeOK, Pcs, Exclusive, Flags, Posts
<1>2. LockInv'
      BY DEF TypeOK, LockInv
<1>3. SessionInv'
      BY DEF TypeOK, LockInv, SessionInv
<1>4. ExitInv'
      BY DEF TypeOK, LockInv, SessionInv, ExitInv
<1>5. ChainInv'
      BY DEF TypeOK, LockInv, SessionInv, ChainInv, HandshakeGuarded, ChainOps
<1>6. DataInv'
      BY DEF TypeOK, LockInv, SessionInv, ExitInv, DataInv, Posts, SessionOps
<1>7. QED
      BY <1>1, <1>2, <1>3, <1>4, <1>5, <1>6

LEMMA LockStep ==
    ASSUME ClientInv, NEW t \in Callers, Lock(t)
    PROVE  ClientInv'
<1> USE DEF ClientInv, Lock, MayLock, Return, Finish
<1>1. TypeOK'
  <2>1. CASE m_exit \/ todo[t] = "listen"
        BY <2>1, ReturnType DEF TypeOK, CallTyped
  <2>2. CASE ~(m_exit \/ todo[t] = "listen")
        BY <2>2 DEF TypeOK, Pcs
  <2>3. QED
        BY <2>1, <2>2
<1>2. LockInv'
      BY DEF TypeOK, LockInv
<1>3. SessionInv'
      BY DEF TypeOK, LockInv, SessionInv
<1>4. ExitInv'
  <2>1. CASE m_exit \/ todo[t] = "listen"
        BY <2>1 DEF TypeOK, LockInv, ExitInv
  <2>2. CASE ~(m_exit \/ todo[t] = "listen")
    <3>1. pc' = [pc EXCEPT ![t] = IF todo[t] \in {"disconnect", "destroy", "response"}
                                  THEN "lock" ELSE "test"]
          BY <2>2
    <3>2. /\ writer' = t /\ todo' = todo /\ readers' = {}
          /\ m_exit' = (todo[t] = "destroy") /\ ~m_exit
          /\ \A u \in Callers : u # t => pc'[u] = pc[u]
          BY <2>2 DEF TypeOK
    <3>3. pc'[t] = IF todo[t] \in {"disconnect", "destroy", "response"}
                   THEN "lock" ELSE "test"
          BY <3>1 DEF TypeOK
    <3>4. \A u \in Callers : todo[u] = "destroy" /\ u # t => pc[u] = "want"
          BY <3>2 DEF ExitInv
    <3>5. \A u \in Callers : u # t => pc[u] \notin {"exit", "gone"}
          BY <3>2 DEF ExitInv
    <3>6. QED
          BY <3>2, <3>3, <3>4, <3>5 DEF ExitInv
  <2>3. QED
        BY <2>1, <2>2
<1>5. ChainInv'
      BY DEF TypeOK, LockInv, SessionInv, ChainInv, HandshakeGuarded, ChainOps
<1>6. DataInv'
  <2>1. CASE m_exit \/ todo[t] = "listen"
    <3>1. t \notin ops \cup posted
          BY <2>1 DEF SessionInv, ExitInv, DataInv, Posts
    <3>2. QED
          BY <2>1, <3>1 DEF TypeOK, DataInv
  <2>2. CASE ~(m_exit \/ todo[t] = "listen")
        BY <2>2 DEF TypeOK, DataInv
  <2>3. QED
        BY <2>1, <2>2
<1>7. QED
      BY <1>1, <1>2, <1>3, <1>4, <1>5, <1>6

-----------------------------------------------------------------------------
(* construct_session() and run(). *)

LEMMA ConnectedStep ==
    ASSUME ClientInv, NEW t \in Callers, Connected(t)
    PROVE  ClientInv'
<1> USE DEF ClientInv, Connected, Return, Finish
<1>1. TypeOK'
      BY DEF TypeOK, Pcs, Exclusive, Flags, Posts
<1>2. LockInv'
      BY DEF TypeOK, LockInv
<1>3. SessionInv'
      BY DEF TypeOK, LockInv, SessionInv
<1>4. ExitInv'
      BY DEF TypeOK, LockInv, SessionInv, ExitInv
<1>5. ChainInv'
      BY DEF TypeOK, LockInv, SessionInv, ChainInv, HandshakeGuarded, ChainOps
<1>6. DataInv'
      BY DEF TypeOK, LockInv, SessionInv, ExitInv, DataInv, Posts, SessionOps
<1>7. QED
      BY <1>1, <1>2, <1>3, <1>4, <1>5, <1>6

LEMMA ExpiredStep ==
    ASSUME ClientInv, NEW t \in Callers, Expired(t)
    PROVE  ClientInv'
<1> USE DEF ClientInv, Expired
<1>1. TypeOK'
  <2>1. pc' \in [Callers -> Pcs] /\ m_expired' \in BOOLEAN
        BY DEF TypeOK, Pcs, Go
  <2>2. QED
        BY <2>1 DEF TypeOK
<1>2. LockInv'
      BY DEF TypeOK, LockInv
<1>3. SessionInv'
      BY DEF TypeOK, LockInv, SessionInv
<1>4. ExitInv'
      BY DEF TypeOK, LockInv, SessionInv, ExitInv
<1>5. ChainInv'
      BY DEF TypeOK, LockInv, SessionInv, ChainInv, HandshakeGuarded, ChainOps
<1>6. DataInv'
      BY DEF TypeOK, LockInv, SessionInv, ExitInv, DataInv, Posts, SessionOps
<1>7. QED
      BY <1>1, <1>2, <1>3, <1>4, <1>5, <1>6

LEMMA JoinWorkerStep ==
    ASSUME ClientInv, NEW t \in Callers, JoinWorker(t)
    PROVE  ClientInv'
<1> USE DEF ClientInv, JoinWorker, Join
<1>1. TypeOK'
      BY DEF TypeOK, Pcs, Exclusive, Flags, Posts
<1>2. LockInv'
      BY DEF TypeOK, LockInv
<1>3. SessionInv'
      BY DEF TypeOK, LockInv, SessionInv
<1>4. ExitInv'
      BY DEF TypeOK, LockInv, SessionInv, ExitInv
<1>5. ChainInv'
      BY DEF TypeOK, LockInv, SessionInv, ChainInv, HandshakeGuarded, ChainOps
<1>6. DataInv'
      BY DEF TypeOK, LockInv, SessionInv, ExitInv, DataInv, Posts, SessionOps
<1>7. QED
      BY <1>1, <1>2, <1>3, <1>4, <1>5, <1>6

LEMMA ConstructStep ==
    ASSUME ClientInv, NEW t \in Callers, Construct(t)
    PROVE  ClientInv'
<1> USE DEF ClientInv, Construct
<1>1. TypeOK'
  <2>1. ops' \in SUBSET (SessionOps \cup Callers) /\ refs' \in SUBSET Callers
        BY DEF TypeOK, SessionOps, ChainOps
  <2>2. pc' \in [Callers -> Pcs]
        BY DEF TypeOK, Pcs
  <2>3. QED
        BY <2>1, <2>2 DEF TypeOK
<1>2. LockInv'
      BY DEF TypeOK, LockInv
<1>3. SessionInv'
      BY DEF TypeOK, LockInv, SessionInv
<1>4. ExitInv'
      BY DEF TypeOK, LockInv, SessionInv, ExitInv
<1>5. ChainInv'
      BY DEF TypeOK, LockInv, SessionInv, ChainInv, HandshakeGuarded, ChainOps
<1>6. DataInv'
  <2>1. "resolve" \notin Callers
        BY DEF SessionOps, ChainOps
  <2>2. QED
        BY <2>1 DEF TypeOK, DataInv
<1>7. QED
      BY <1>1, <1>2, <1>3, <1>4, <1>5, <1>6

LEMMA RunReturnsStep ==
    ASSUME ClientInv, NEW t \in Callers, RunReturns(t)
    PROVE  ClientInv'
<1>1. TypeOK'
  <2>1. CallTyped'
    <3>1. CASE Return(t)
          BY <3>1, ReturnType DEF ClientInv
    <3>2. CASE ~Return(t)
          BY <3>2, TypeParts DEF ClientInv, RunReturns, CallTyped, Pcs
    <3>3. QED
          BY <3>1, <3>2
  <2>2. SessionTyped'
        BY DropType DEF ClientInv, RunReturns
  <2>3. IoTyped'
        BY TypeParts DEF ClientInv, RunReturns, IoTyped
  <2>4. QED
        BY <2>1, <2>2, <2>3, PartsType
<1> USE DEF ClientInv, RunReturns, RunReady, Drop, Deleted, Orphaned, Return, Finish
<1>2. LockInv'
      BY DEF TypeOK, LockInv
<1>3. SessionInv'
      BY DEF TypeOK, LockInv, SessionInv
<1>4. ExitInv'
      BY DEF TypeOK, LockInv, SessionInv, ExitInv
<1>5. ChainInv'
      BY DEF TypeOK, LockInv, SessionInv, ChainInv, HandshakeGuarded, ChainOps
<1>6. DataInv'
      BY DEF TypeOK, LockInv, SessionInv, ExitInv, DataInv, Posts, SessionOps
<1>7. QED
      BY <1>1, <1>2, <1>3, <1>4, <1>5, <1>6

-----------------------------------------------------------------------------
(* ping() and get_handshake_response(). *)

LEMMA PingPostStep ==
    ASSUME ClientInv, NEW t \in Callers, PingPost(t)
    PROVE  ClientInv'
<1> USE DEF ClientInv, PingPost, Return, Finish
<1>1. TypeOK'
  <2>1. CASE session = "live"
    <3>1. "ping" \in Posts
          BY DEF Posts
    <3>2. posted' \in SUBSET (Posts \cup Callers) /\ refs' \in SUBSET Callers
          BY <2>1, <3>1 DEF TypeOK
    <3>3. pc' \in [Callers -> Pcs]
          BY <2>1 DEF TypeOK, Pcs
    <3>4. QED
          BY <2>1, <3>2, <3>3 DEF TypeOK
  <2>2. CASE session # "live"
        BY <2>2, ReturnType DEF TypeOK, CallTyped
  <2>3. QED
        BY <2>1, <2>2
<1>2. LockInv'
      BY DEF TypeOK, LockInv
<1>3. SessionInv'
      BY DEF TypeOK, LockInv, SessionInv
<1>4. ExitInv'
      BY DEF TypeOK, LockInv, SessionInv, ExitInv
<1>5. ChainInv'
      BY DEF TypeOK, LockInv, SessionInv, ChainInv, HandshakeGuarded, ChainOps
<1>6. DataInv'
      BY DEF TypeOK, LockInv, SessionInv, ExitInv, DataInv, Posts, SessionOps
<1>7. QED
      BY <1>1, <1>2, <1>3, <1>4, <1>5, <1>6

LEMMA GetResponseStep ==
    ASSUME ClientInv, NEW t \in Callers, GetResponse(t)
    PROVE  ClientInv'
<1> USE DEF ClientInv, GetResponse, Return, Finish
<1>1. TypeOK'
      BY DEF TypeOK, Pcs, Exclusive, Flags, Posts
<1>2. LockInv'
      BY DEF TypeOK, LockInv
<1>3. SessionInv'
      BY DEF TypeOK, LockInv, SessionInv
<1>4. ExitInv'
      BY DEF TypeOK, LockInv, SessionInv, ExitInv
<1>5. ChainInv'
      BY DEF TypeOK, LockInv, SessionInv, ChainInv, HandshakeGuarded, ChainOps
<1>6. DataInv'
      BY DEF TypeOK, LockInv, SessionInv, ExitInv, DataInv, Posts, SessionOps
<1>7. QED
      BY <1>1, <1>2, <1>3, <1>4, <1>5, <1>6

LEMMA UseEndsStep ==
    ASSUME ClientInv, NEW t \in Callers, UseEnds(t)
    PROVE  ClientInv'
<1>1. TypeOK'
  <2>1. CallTyped'
        BY ReturnType DEF ClientInv, UseEnds
  <2>2. SessionTyped'
        BY DropType DEF ClientInv, UseEnds
  <2>3. IoTyped'
        BY TypeParts DEF ClientInv, UseEnds, IoTyped
  <2>4. QED
        BY <2>1, <2>2, <2>3, PartsType
<1> USE DEF ClientInv, UseEnds, Drop, Deleted, Orphaned, Return, Finish
<1>2. LockInv'
      BY DEF TypeOK, LockInv
<1>3. SessionInv'
      BY DEF TypeOK, LockInv, SessionInv
<1>4. ExitInv'
      BY DEF TypeOK, LockInv, SessionInv, ExitInv
<1>5. ChainInv'
      BY DEF TypeOK, LockInv, SessionInv, ChainInv, HandshakeGuarded, ChainOps
<1>6. DataInv'
      BY DEF TypeOK, LockInv, SessionInv, ExitInv, DataInv, Posts, SessionOps
<1>7. QED
      BY <1>1, <1>2, <1>3, <1>4, <1>5, <1>6

-----------------------------------------------------------------------------
(* disconnect() and the destructor. *)

LEMMA LockSessionStep ==
    ASSUME ClientInv, NEW t \in Callers, LockSession(t)
    PROVE  ClientInv'
<1> USE DEF ClientInv, LockSession
<1>1. TypeOK'
      BY DEF TypeOK, Pcs, Exclusive, Flags, Posts
<1>2. LockInv'
      BY DEF TypeOK, LockInv
<1>3. SessionInv'
      BY DEF TypeOK, LockInv, SessionInv
<1>4. ExitInv'
      BY DEF TypeOK, LockInv, SessionInv, ExitInv
<1>5. ChainInv'
      BY DEF TypeOK, LockInv, SessionInv, ChainInv, HandshakeGuarded, ChainOps
<1>6. DataInv'
      BY DEF TypeOK, LockInv, SessionInv, ExitInv, DataInv, Posts, SessionOps
<1>7. QED
      BY <1>1, <1>2, <1>3, <1>4, <1>5, <1>6

LEMMA CloseStep ==
    ASSUME ClientInv, NEW t \in Callers, Close(t)
    PROVE  ClientInv'
<1>1. TypeOK'
  <2>1. CallTyped'
        BY TypeParts DEF ClientInv, Close, CallTyped, Pcs, Exclusive
  <2>2. SessionTyped'
    <3>1. CASE "m_close_initiated" \in flags
          BY <3>1, DropType DEF ClientInv, Close
    <3>2. CASE "m_close_initiated" \notin flags
          BY <3>2, TypeParts DEF ClientInv, Close, SessionTyped, Flags, Posts
    <3>3. QED
          BY <3>1, <3>2
  <2>3. IoTyped'
        BY TypeParts DEF ClientInv, Close, IoTyped
  <2>4. QED
        BY <2>1, <2>2, <2>3, PartsType
<1> USE DEF ClientInv, Close, Drop, Deleted, Orphaned
<1>2. LockInv'
      BY DEF TypeOK, LockInv
<1>3. SessionInv'
      BY DEF TypeOK, LockInv, SessionInv
<1>4. ExitInv'
      BY DEF TypeOK, LockInv, SessionInv, ExitInv
<1>5. ChainInv'
      BY DEF TypeOK, LockInv, SessionInv, ChainInv, HandshakeGuarded, ChainOps
<1>6. DataInv'
      BY DEF TypeOK, LockInv, SessionInv, ExitInv, DataInv, Posts, SessionOps
<1>7. QED
      BY <1>1, <1>2, <1>3, <1>4, <1>5, <1>6

LEMMA LeaveRunStep ==
    ASSUME ClientInv, NEW t \in Callers, LeaveRun(t)
    PROVE  ClientInv'
<1>1. TypeOK'
  <2>1. CallTyped'
        BY TypeParts DEF ClientInv, LeaveRun, CallTyped, Pcs, Exclusive
  <2>2. SessionTyped'
        BY DropType DEF ClientInv, LeaveRun
  <2>3. IoTyped'
        BY TypeParts DEF ClientInv, LeaveRun, IoTyped
  <2>4. QED
        BY <2>1, <2>2, <2>3, PartsType
<1> USE DEF ClientInv, LeaveRun, Drop, Deleted, Orphaned
<1>2. LockInv'
      BY DEF TypeOK, LockInv
<1>3. SessionInv'
      BY DEF TypeOK, LockInv, SessionInv
<1>4. ExitInv'
      BY DEF TypeOK, LockInv, SessionInv, ExitInv
<1>5. ChainInv'
      BY DEF TypeOK, LockInv, SessionInv, ChainInv, HandshakeGuarded, ChainOps
<1>6. DataInv'
      BY DEF TypeOK, LockInv, SessionInv, ExitInv, DataInv, Posts, SessionOps
<1>7. QED
      BY <1>1, <1>2, <1>3, <1>4, <1>5, <1>6

LEMMA ClosePostStep ==
    ASSUME ClientInv, NEW t \in Callers, ClosePost(t)
    PROVE  ClientInv'
<1> USE DEF ClientInv, ClosePost
<1>1. TypeOK'
      BY DEF TypeOK, Pcs, Exclusive, Flags, Posts
<1>2. LockInv'
      BY DEF TypeOK, LockInv
<1>3. SessionInv'
      BY DEF TypeOK, LockInv, SessionInv
<1>4. ExitInv'
      BY DEF TypeOK, LockInv, SessionInv, ExitInv
<1>5. ChainInv'
      BY DEF TypeOK, LockInv, SessionInv, ChainInv, HandshakeGuarded, ChainOps
<1>6. DataInv'
      BY DEF TypeOK, LockInv, SessionInv, ExitInv, DataInv, Posts, SessionOps
<1>7. QED
      BY <1>1, <1>2, <1>3, <1>4, <1>5, <1>6

LEMMA CloseReturnsStep ==
    ASSUME ClientInv, NEW t \in Callers, CloseReturns(t)
    PROVE  ClientInv'
<1>1. TypeOK'
  <2>1. CallTyped'
        BY TypeParts DEF ClientInv, CloseReturns, CallTyped, Pcs, Exclusive
  <2>2. SessionTyped'
        BY DropType DEF ClientInv, CloseReturns
  <2>3. IoTyped'
        BY TypeParts DEF ClientInv, CloseReturns, IoTyped
  <2>4. QED
        BY <2>1, <2>2, <2>3, PartsType
<1> USE DEF ClientInv, CloseReturns, Drop, Deleted, Orphaned
<1>2. LockInv'
      BY DEF TypeOK, LockInv
<1>3. SessionInv'
      BY DEF TypeOK, LockInv, SessionInv
<1>4. ExitInv'
      BY DEF TypeOK, LockInv, SessionInv, ExitInv
<1>5. ChainInv'
      BY DEF TypeOK, LockInv, SessionInv, ChainInv, HandshakeGuarded, ChainOps
<1>6. DataInv'
      BY DEF TypeOK, LockInv, SessionInv, ExitInv, DataInv, Posts, SessionOps
<1>7. QED
      BY <1>1, <1>2, <1>3, <1>4, <1>5, <1>6

LEMMA WaitDestructionStep ==
    ASSUME ClientInv, NEW t \in Callers, WaitDestruction(t)
    PROVE  ClientInv'
<1> USE DEF ClientInv, WaitDestruction, Return, Finish
<1>1. TypeOK'
      BY DEF TypeOK, Pcs, Exclusive, Flags, Posts
<1>2. LockInv'
      BY DEF TypeOK, LockInv
<1>3. SessionInv'
      BY DEF TypeOK, LockInv, SessionInv
<1>4. ExitInv'
      BY DEF TypeOK, LockInv, SessionInv, ExitInv
<1>5. ChainInv'
      BY DEF TypeOK, LockInv, SessionInv, ChainInv, HandshakeGuarded, ChainOps
<1>6. DataInv'
  <2>1. t \notin ops \cup posted
        BY DEF SessionInv, Posts
  <2>2. QED
        BY <2>1 DEF TypeOK, DataInv
<1>7. QED
      BY <1>1, <1>2, <1>3, <1>4, <1>5, <1>6

LEMMA WaitTimeoutStep ==
    ASSUME ClientInv, NEW t \in Callers, WaitTimeout(t)
    PROVE  ClientInv'
<1> USE DEF ClientInv, WaitTimeout, Overdue, Throw
<1>1. TypeOK'
      BY DEF TypeOK, Pcs, Exclusive, Flags, Posts
<1>2. LockInv'
      BY DEF TypeOK, LockInv
<1>3. SessionInv'
      BY DEF TypeOK, LockInv, SessionInv
<1>4. ExitInv'
      BY DEF TypeOK, LockInv, SessionInv, ExitInv
<1>5. ChainInv'
      BY DEF TypeOK, LockInv, SessionInv, ChainInv, HandshakeGuarded, ChainOps
<1>6. DataInv'
      BY DEF TypeOK, LockInv, SessionInv, ExitInv, DataInv, Posts, SessionOps
<1>7. QED
      BY <1>1, <1>2, <1>3, <1>4, <1>5, <1>6

-----------------------------------------------------------------------------
(* send() and send_recv(). *)

LEMMA SendLockStep ==
    ASSUME ClientInv, NEW t \in Callers, SendLock(t)
    PROVE  ClientInv'
<1> USE DEF ClientInv, SendLock, Finish
<1>1. TypeOK'
      BY DEF TypeOK, Pcs, Exclusive, Flags, Posts
<1>2. LockInv'
      BY DEF TypeOK, LockInv
<1>3. SessionInv'
      BY DEF TypeOK, LockInv, SessionInv
<1>4. ExitInv'
      BY DEF TypeOK, LockInv, SessionInv, ExitInv
<1>5. ChainInv'
      BY DEF TypeOK, LockInv, SessionInv, ChainInv, HandshakeGuarded, ChainOps
<1>6. DataInv'
      BY DEF TypeOK, LockInv, SessionInv, ExitInv, DataInv, Posts, SessionOps
<1>7. QED
      BY <1>1, <1>2, <1>3, <1>4, <1>5, <1>6

LEMMA SendPostStep ==
    ASSUME ClientInv, NEW t \in Callers, SendPost(t)
    PROVE  ClientInv'
<1>1. TypeOK'
  <2>1. CallTyped'
        BY TypeParts DEF ClientInv, SendPost, CallTyped, Pcs, Exclusive
  <2>2. SessionTyped'
        BY TypeParts DEF ClientInv, SendPost, SessionTyped
  <2>3. IoTyped'
        BY TypeParts DEF ClientInv, SendPost, IoTyped
  <2>4. QED
        BY <2>1, <2>2, <2>3, PartsType
<1> USE DEF ClientInv, SendPost
<1>2. LockInv'
      BY DEF TypeOK, LockInv
<1>3. SessionInv'
      BY DEF TypeOK, LockInv, SessionInv
<1>4. ExitInv'
      BY DEF TypeOK, LockInv, SessionInv, ExitInv
<1>5. ChainInv'
      BY DEF TypeOK, LockInv, SessionInv, ChainInv, HandshakeGuarded, ChainOps
<1>6. DataInv'
      BY DEF TypeOK, LockInv, SessionInv, ExitInv, DataInv, Posts, SessionOps
<1>7. QED
      BY <1>1, <1>2, <1>3, <1>4, <1>5, <1>6

LEMMA SendReturnsStep ==
    ASSUME ClientInv, NEW t \in Callers, SendReturns(t)
    PROVE  ClientInv'
<1>1. TypeOK'
  <2>1. CallTyped'
        BY TypeParts DEF ClientInv, SendReturns, Finish, CallTyped, Pcs, Exclusive
  <2>2. SessionTyped'
        BY DropType DEF ClientInv, SendReturns
  <2>3. IoTyped'
        BY TypeParts DEF ClientInv, SendReturns, IoTyped
  <2>4. QED
        BY <2>1, <2>2, <2>3, PartsType
<1> USE DEF ClientInv, SendReturns, Drop, Deleted, Orphaned, Finish
<1>2. LockInv'
      BY DEF TypeOK, LockInv
<1>3. SessionInv'
      BY DEF TypeOK, LockInv, SessionInv
<1>4. ExitInv'
      BY DEF TypeOK, LockInv, SessionInv, ExitInv
<1>5. ChainInv'
      BY DEF TypeOK, LockInv, SessionInv, ChainInv, HandshakeGuarded, ChainOps
<1>6. DataInv'
      BY DEF TypeOK, LockInv, SessionInv, ExitInv, DataInv, Posts, SessionOps
<1>7. QED
      BY <1>1, <1>2, <1>3, <1>4, <1>5, <1>6

LEMMA SendFailsStep ==
    ASSUME ClientInv, NEW t \in Callers, SendFails(t)
    PROVE  ClientInv'
<1>1. TypeOK'
  <2>1. CallTyped'
        BY TypeParts DEF ClientInv, SendFails, OnError, CallTyped, Pcs, Exclusive
  <2>2. SessionTyped'
        BY DropType DEF ClientInv, SendFails
  <2>3. IoTyped'
        BY TypeParts DEF ClientInv, SendFails, IoTyped
  <2>4. QED
        BY <2>1, <2>2, <2>3, PartsType
<1> USE DEF ClientInv, SendFails, Drop, Deleted, Orphaned, OnError
<1>2. LockInv'
      BY DEF TypeOK, LockInv
<1>3. SessionInv'
      BY DEF TypeOK, LockInv, SessionInv
<1>4. ExitInv'
      BY DEF TypeOK, LockInv, SessionInv, ExitInv
<1>5. ChainInv'
      BY DEF TypeOK, LockInv, SessionInv, ChainInv, HandshakeGuarded, ChainOps
<1>6. DataInv'
      BY DEF TypeOK, LockInv, SessionInv, ExitInv, DataInv, Posts, SessionOps
<1>7. QED
      BY <1>1, <1>2, <1>3, <1>4, <1>5, <1>6

-----------------------------------------------------------------------------
(* Handlers. *)

\* What a handler that leaves operations o and posted handlers p may do: it
\* queues posted data and takes data out, goes on with the connection and adds
\* flags.
HandlerMay(o, p) ==
    /\ UNCHANGED <<lockVars, callVars, refs, worker, inrun>>
    /\ session = "live" \/ o = ops
    /\ o \subseteq SessionOps \cup Callers
    /\ p \subseteq posted
    /\ \A t \in o \cap Callers : t \in ops \cup posted /\ t \notin p
    /\ \A a, b \in o \cap ChainOps : a = b
    /\ o \cap ChainOps # {} => ops \cap ChainOps # {} /\ run' = "unset"
    /\ run' \in {"unset", "true", "false"}
    /\ flags \subseteq flags' /\ flags' \subseteq Flags
    /\ lost' \in BOOLEAN
    /\ written' \subseteq Callers
    /\ \A t \in written' : pc[t] = "sent" /\ t \notin o \cup p

LEMMA HandlerStep ==
    ASSUME ClientInv, NEW o, NEW p, HandlerEnd(o, p), HandlerMay(o, p)
    PROVE  ClientInv'
<1> USE DEF ClientInv, HandlerEnd, HandlerMay
<1>1. TypeOK'
      BY DEF TypeOK, Orphaned, Posts
<1>2. LockInv'
      BY DEF LockInv
<1>3. SessionInv'
      BY DEF TypeOK, SessionInv, Orphaned
<1>4. ExitInv'
      BY DEF ExitInv
<1>5. ChainInv'
      BY DEF ChainInv, HandshakeGuarded
<1>6. DataInv'
      BY DEF TypeOK, DataInv, Orphaned, Posts
<1>7. QED
      BY <1>1, <1>2, <1>3, <1>4, <1>5, <1>6

\* A session with an operation or with a handler that is not stale is alive.
LEMMA HandlerLive ==
    ASSUME ClientInv, ops # {} \/ \E x \in posted : x # "stale"
    PROVE  session = "live"
BY DEF ClientInv, SessionInv

LEMMA ChainStep ==
    ASSUME ClientInv, NEW from \in ChainOps, NEW next \in SUBSET (ChainOps \cup {"read"}),
           Chain(from, next)
    PROVE  ClientInv'
<1> USE DEF ClientInv, Chain
<1>1. session = "live"
      BY HandlerLive
<1>2. ASSUME NEW op \in next, HandlerEnd((ops \ {from}) \cup {op}, posted),
             run' = IF op = "read" THEN "true" ELSE run
      PROVE  ClientInv'
  <2>1. HandlerMay((ops \ {from}) \cup {op}, posted)
        BY <1>1, <1>2 DEF HandlerMay, TypeOK, ChainInv, DataInv, ChainOps, SessionOps
  <2>2. QED
        BY <1>2, <2>1, HandlerStep
<1>3. ASSUME HandlerEnd((ops \ {from}) \cup {"ending"}, posted), run' = RunFails
      PROVE  ClientInv'
  <2>1. HandlerMay((ops \ {from}) \cup {"ending"}, posted)
        BY <1>1, <1>3 DEF HandlerMay, RunFails, TypeOK, ChainInv, DataInv, ChainOps,
                          SessionOps
  <2>2. QED
        BY <1>3, <2>1, HandlerStep
<1>4. QED
      BY <1>2, <1>3

LEMMA ConnectSteps ==
    ASSUME ClientInv, OnResolve \/ OnConnect \/ OnSslHandshake \/ OnHandshake
    PROVE  ClientInv'
<1>1. CASE OnResolve
      BY <1>1, ChainStep DEF OnResolve, ChainOps
<1>2. CASE OnConnect
      BY <1>2, ChainStep DEF OnConnect, ChainOps
<1>3. CASE OnSslHandshake
      BY <1>3, ChainStep DEF OnSslHandshake, ChainOps
<1>4. CASE OnHandshake
      BY <1>4, ChainStep DEF OnHandshake, ChainOps
<1>5. QED
      BY <1>1, <1>2, <1>3, <1>4

\* Handlers that drop one operation, or one that is posted and adds one.
LEMMA PlainSteps ==
    ASSUME ClientInv, ChainEnd \/ OnPostedPing \/ OnStale \/ OnPing \/ OnClose
    PROVE  ClientInv'
<1>1. CASE ChainEnd
  <2>1. HandlerMay(ops \ {"ending"}, posted)
        BY <1>1, HandlerLive DEF ChainEnd,
           ClientInv, TypeOK, ChainInv, DataInv, HandlerMay, SessionOps, ChainOps, Posts
  <2>2. QED
        BY <1>1, <2>1, HandlerStep DEF ChainEnd
<1>2. CASE OnPostedPing
  <2>1. HandlerMay(ops \cup {"ping"}, posted \ {"ping"})
        BY <1>2, HandlerLive DEF OnPostedPing,
           ClientInv, TypeOK, ChainInv, DataInv, HandlerMay, SessionOps, ChainOps, Posts
  <2>2. QED
        BY <1>2, <2>1, HandlerStep DEF OnPostedPing
<1>3. CASE OnStale
  <2>1. HandlerMay(ops, posted \ {"stale"})
        BY <1>3 DEF OnStale,
           ClientInv, TypeOK, ChainInv, DataInv, HandlerMay, SessionOps, ChainOps, Posts
  <2>2. QED
        BY <1>3, <2>1, HandlerStep DEF OnStale
<1>4. CASE OnPing
  <2>1. HandlerMay(ops \ {"ping"}, posted)
        BY <1>4, HandlerLive DEF OnPing,
           ClientInv, TypeOK, ChainInv, DataInv, HandlerMay, SessionOps, ChainOps, Posts
  <2>2. QED
        BY <1>4, <2>1, HandlerStep DEF OnPing
<1>5. CASE OnClose
  <2>1. HandlerMay(ops \ {"close"}, posted)
        BY <1>5, HandlerLive DEF OnClose,
           ClientInv, TypeOK, ChainInv, DataInv, HandlerMay, SessionOps, ChainOps, Posts
  <2>2. QED
        BY <1>5, <2>1, HandlerStep DEF OnClose
<1>6. QED
      BY <1>1, <1>2, <1>3, <1>4, <1>5

\* handle_send and on_write.
LEMMA WriteSteps ==
    ASSUME ClientInv, NEW t \in Callers, OnPostedSend(t) \/ OnWrite(t)
    PROVE  ClientInv'
<1>1. CASE OnPostedSend(t)
  <2>1. session = "live"
        BY <1>1, HandlerLive DEF OnPostedSend, Posts
  <2>2. HandlerMay(ops \cup {t}, posted \ {t}) /\ HandlerMay(ops, posted \ {t})
        BY <1>1, <2>1 DEF OnPostedSend,
           ClientInv, TypeOK, ChainInv, DataInv, HandlerMay, SessionOps, ChainOps, Posts
  <2>3. QED
        BY <1>1, <2>2, HandlerStep DEF OnPostedSend
<1>2. CASE OnWrite(t)
  <2>1. session = "live"
        BY <1>2, HandlerLive DEF OnWrite
  <2>2. HandlerMay(ops \ {t}, posted)
    <3>1. /\ t \in ops /\ written' = written \cup ({t} \cap Waiting)
          /\ UNCHANGED <<lockVars, callVars, refs, run, flags, lost, worker, inrun>>
          BY <1>2 DEF OnWrite
    <3>2. written' \subseteq Callers
          BY <3>1 DEF ClientInv, TypeOK
    <3>3. \A u \in written' : pc[u] = "sent" /\ u \notin (ops \ {t}) \cup posted
          BY <3>1, <3>2 DEF ClientInv, DataInv, Waiting
    <3>4. /\ \A a, b \in (ops \ {t}) \cap ChainOps : a = b
          /\ (ops \ {t}) \cap ChainOps # {} => ops \cap ChainOps # {} /\ run' = "unset"
          BY <3>1 DEF ClientInv, TypeOK, ChainInv
    <3>5. \A u \in (ops \ {t}) \cap Callers : u \in ops \cup posted /\ u \notin posted
          BY DEF ClientInv, DataInv
    <3>6. QED
          BY <2>1, <3>1, <3>2, <3>3, <3>4, <3>5 DEF ClientInv, TypeOK, HandlerMay
  <2>3. QED
        BY <1>2, <2>2, HandlerStep DEF OnWrite
<1>3. QED
      BY <1>1, <1>2

\* Handlers that end in close_session().
LEMMA CloseSteps ==
    ASSUME ClientInv, OnPostedClose \/ OnReadError \/ OnWriteError
    PROVE  ClientInv'
<1> DEFINE Left(o) == IF MayCloseSession THEN o \cup {"close"} ELSE o
<1>1. session = "live"
      BY HandlerLive DEF OnPostedClose, OnReadError, OnWriteError
<1>2. flags' \subseteq Flags /\ flags \subseteq flags'
      BY DEF OnPostedClose, OnReadError, OnWriteError, CloseSession, ClientInv,
             TypeOK, Flags
<1>3. CASE OnPostedClose
  <2>1. HandlerMay(Left(ops), posted \ {"close"})
        BY <1>1, <1>2, <1>3 DEF OnPostedClose,
           ClientInv, TypeOK, ChainInv, DataInv, HandlerMay, SessionOps, ChainOps, Posts
  <2>2. QED
        BY <1>3, <2>1, HandlerStep DEF OnPostedClose, CloseSession
<1>4. CASE OnReadError
  <2>1. HandlerMay(Left(ops \ {"read"}), posted)
        BY <1>1, <1>2, <1>4 DEF OnReadError,
           ClientInv, TypeOK, ChainInv, DataInv, HandlerMay, SessionOps, ChainOps, Posts
  <2>2. QED
        BY <1>4, <2>1, HandlerStep DEF OnReadError, CloseSession
<1>5. CASE OnWriteError
  <2>1. HandlerMay(Left(ops \ Callers), posted)
        BY <1>1, <1>2, <1>5 DEF OnWriteError, Waiting,
           ClientInv, TypeOK, ChainInv, DataInv, HandlerMay, SessionOps, ChainOps, Posts
  <2>2. QED
        BY <1>5, <2>1, HandlerStep DEF OnWriteError, CloseSession
<1>6. QED
      BY <1>3, <1>4, <1>5

-----------------------------------------------------------------------------
(* The stream, on_session_delete and the IO thread. *)

LEMMA StreamSteps ==
    ASSUME ClientInv, OnControlClose \/ StreamFails
    PROVE  ClientInv'
<1>1. TypeOK'
  <2>1. CallTyped'
        BY TypeParts DEF ClientInv, OnControlClose, StreamFails, CallTyped
  <2>2. SessionTyped'
        BY TypeParts DEF ClientInv, OnControlClose, StreamFails, SessionTyped, Flags
  <2>3. IoTyped'
        BY TypeParts DEF ClientInv, OnControlClose, StreamFails, IoTyped
  <2>4. QED
        BY <2>1, <2>2, <2>3, PartsType
<1> USE DEF ClientInv, OnControlClose, StreamFails
<1>2. LockInv' /\ SessionInv' /\ ExitInv'
      BY DEF LockInv, SessionInv, ExitInv
<1>3. ChainInv' /\ DataInv'
      BY DEF ChainInv, HandshakeGuarded, DataInv
<1>4. QED
      BY <1>1, <1>2, <1>3

LEMMA OnSessionDeleteStep ==
    ASSUME ClientInv, OnSessionDelete
    PROVE  ClientInv'
<1> USE DEF ClientInv, OnSessionDelete, Deleted
<1>1. TypeOK'
      BY DEF TypeOK
<1>2. LockInv' /\ SessionInv'
      BY DEF TypeOK, LockInv, SessionInv
<1>3. ExitInv'
      BY DEF ExitInv
<1>4. ChainInv' /\ DataInv'
      BY DEF SessionInv, ChainInv, HandshakeGuarded, DataInv
<1>5. QED
      BY <1>1, <1>2, <1>3, <1>4

LEMMA WorkerSteps ==
    ASSUME ClientInv, WorkerRuns \/ WorkerEnds
    PROVE  ClientInv'
<1> USE DEF ClientInv, WorkerRuns, WorkerEnds
<1>1. TypeOK'
      BY DEF TypeOK
<1>2. LockInv' /\ SessionInv' /\ ExitInv'
      BY DEF LockInv, SessionInv, ExitInv
<1>3. ChainInv' /\ DataInv'
      BY DEF ChainInv, HandshakeGuarded, DataInv
<1>4. QED
      BY <1>1, <1>2, <1>3

-----------------------------------------------------------------------------
(* ServedInv on top of ClientInv.  ClientInv in turn needs it where the    *)
(* destructor ends: a join that succeeds shows that the session is gone,   *)
(* because the IO thread does not end before.                              *)

LEMMA ServedInit == Init => ServedInv
BY DEF Init, ServedInv, IoInv, IoReady, EndInv, WaitInv

\* Only one thread is in an exclusive section.
LEMMA OneWriter ==
    ASSUME ClientInv, NEW t \in Callers, pc[t] \in WriterPcs, NEW u \in Callers, u # t
    PROVE  pc[u] \notin WriterPcs \cup SharedPcs
BY DEF ClientInv, LockInv

\* Before its thread is in the io_context nobody else is.
LEMMA ReadyRuns ==
    ASSUME ClientInv, ServedInv, IoReady
    PROVE  worker # "start" /\ ~stopped /\ (worker = "run" \/ inrun # {})
<1>1. SUFFICES ASSUME worker = "start" PROVE FALSE
      BY DEF IoReady
<1>2. PICK t \in Callers : t \in inrun /\ pc[t] = "inrun"
      BY <1>1 DEF IoReady, ClientInv, TypeOK, SessionInv
<1>3. writer # None /\ pc[writer] = "run" /\ writer \in Callers
      BY <1>1 DEF ServedInv, IoInv, ClientInv, ChainInv, HandshakeGuarded, TypeOK
<1>4. QED
      BY <1>2, <1>3 DEF ClientInv, LockInv

\* A step of one caller that leaves the session alone, but may post a handler.
LEMMA CallerFrame ==
    ASSUME ClientInv, ServedInv, NEW t \in Callers,
           UNCHANGED <<session, m_expired, streamVars, ioVars>>,
           posted \subseteq posted',
           \A u \in Callers : u # t => pc'[u] = pc[u],
           pc[t] \notin {"join", "make"}, pc'[t] # "run",
           pc[t] = "closing" => "close" \in posted',
           pc'[t] \in {"closing", "posted", "inrun"} => "m_close_initiated" \in flags,
           pc'[t] \in {"wait", "exit"} => session # "live" \/ pc[t] = "wait"
    PROVE  ServedInv'
<1> USE DEF ServedInv
<1>1. IoInv'
      BY DEF IoInv, IoReady, Pending
<1>2. EndInv'
      BY DEF EndInv, MayCloseSession
<1>3. WaitInv'
      BY DEF WaitInv
<1>4. QED
      BY <1>1, <1>2, <1>3

\* A caller drops its reference, and perhaps leaves the io_context.
LEMMA DropFrame ==
    ASSUME ClientInv, ServedInv, NEW t \in Callers, Drop(t), t \in refs,
           UNCHANGED <<stopped, worker>>,
           inrun' = inrun \/ (inrun' \subseteq inrun /\ stopped),
           \A u \in Callers : u # t => pc'[u] = pc[u],
           pc[t] # "closing",
           pc'[t] \notin {"join", "make", "run", "closing", "posted", "inrun", "exit"},
           pc'[t] = "wait" => "m_close_initiated" \in flags \/ run = "false"
    PROVE  ServedInv'
<1> USE DEF ServedInv
<1>1. session = "live" /\ pc[t] \notin {"join", "make"}
      BY DEF ClientInv, LockInv, SessionInv
<1>2. CASE refs = {t} /\ ops = {}
  <2>1. /\ session' = "none" /\ m_expired' = TRUE /\ run' = "unset" /\ flags' = {}
        /\ ops' = {} /\ posted' = Orphaned(posted)
        BY <1>2 DEF Drop, Deleted
  <2>2. worker # "start"
        BY <1>2 DEF IoInv
  <2>3. IoInv'
        BY <1>1, <1>2, <2>1, <2>2 DEF IoInv, IoReady, Pending, Orphaned
  <2>4. EndInv'
        BY <2>1 DEF EndInv
  <2>5. \A u \in Callers : pc'[u] \notin {"run", "closing", "posted", "inrun"}
        BY <1>2 DEF ClientInv, LockInv
  <2>6. WaitInv'
        BY <2>1, <2>5 DEF WaitInv
  <2>7. QED
        BY <2>3, <2>4, <2>6
<1>3. CASE ~(refs = {t} /\ ops = {})
  <2>1. UNCHANGED <<session, m_expired, run, flags, lost, posted, ops>>
        BY <1>3 DEF Drop
  <2>2. IoInv'
        BY <2>1 DEF IoInv, IoReady, Pending
  <2>3. EndInv'
        BY <2>1 DEF EndInv, MayCloseSession
  <2>4. WaitInv'
        BY <1>1, <2>1 DEF WaitInv
  <2>5. QED
        BY <2>2, <2>3, <2>4
<1>4. QED
      BY <1>2, <1>3

-----------------------------------------------------------------------------
(* Callers that do not touch the session's members, or only post to it.    *)
LEMMA QuietServed ==
    ASSUME ClientInv, ServedInv, NEW t \in Callers,
           \/ \E k \in Exclusive \cup {"send"} : Call(t, k)
           \/ Lock(t) \/ SendLock(t) \/ Connected(t) \/ PingPost(t) \/ GetResponse(t)
           \/ LockSession(t) \/ ClosePost(t) \/ WaitDestruction(t) \/ WaitTimeout(t)
           \/ SendPost(t)
    PROVE  ServedInv'
<1> USE DEF ClientInv, TypeOK
<1>1. UNCHANGED <<session, m_expired, streamVars, ioVars>> /\ posted \subseteq posted'
      BY DEF Call, Lock, SendLock, Connected, PingPost, GetResponse, LockSession,
             ClosePost, WaitDestruction, WaitTimeout, SendPost
<1>2. /\ \A u \in Callers : u # t => pc'[u] = pc[u]
      /\ \/ /\ pc[t] \notin {"join", "make", "closing"}
            /\ pc'[t] \notin {"run", "closing", "posted", "inrun", "wait", "exit"}
         \/ pc[t] = "wait" /\ pc'[t] = "exit"
         \/ pc[t] = "lock" /\ pc'[t] = "wait" /\ session # "live"
         \/ pc[t] = "closing" /\ pc'[t] = "posted" /\ "close" \in posted'
  <2>1. CASE \E k \in Exclusive \cup {"send"} : Call(t, k)
    <3>1. PICK k \in Exclusive \cup {"send"} : Call(t, k)
          BY <2>1
    <3>2. QED
          BY <3>1 DEF Call
  <2>2. CASE Lock(t)
        BY <2>2 DEF Lock, Return, Finish
  <2>3. CASE SendLock(t)
        BY <2>3 DEF SendLock, Finish
  <2>4. CASE Connected(t)
        BY <2>4 DEF Connected, Return, Finish
  <2>5. CASE PingPost(t) \/ GetResponse(t)
        BY <2>5 DEF PingPost, GetResponse, Return, Finish
  <2>6. CASE LockSession(t)
        BY <2>6 DEF LockSession
  <2>7. CASE ClosePost(t)
        BY <2>7 DEF ClosePost
  <2>8. CASE WaitDestruction(t)
        BY <2>8 DEF WaitDestruction, Return, Finish
  <2>9. CASE SendPost(t)
        BY <2>9 DEF SendPost
  <2>10. CASE WaitTimeout(t)
        BY <2>10 DEF WaitTimeout, Throw
  <2>11. QED
        BY <2>1, <2>2, <2>3, <2>4, <2>5, <2>6, <2>7, <2>8, <2>9, <2>10
<1>3. pc[t] = "closing" => "m_close_initiated" \in flags
      BY DEF ServedInv, WaitInv
<1>4. QED
      BY <1>1, <1>2, <1>3, CallerFrame

\* Callers that release the session.
LEMMA ReleaseServed ==
    ASSUME ClientInv, ServedInv, NEW t \in Callers,
           \/ RunReturns(t) \/ UseEnds(t) \/ LeaveRun(t) \/ CloseReturns(t)
           \/ SendReturns(t) \/ SendFails(t)
           \/ Close(t) /\ "m_close_initiated" \in flags
    PROVE  ServedInv'
<1> USE DEF ClientInv, TypeOK
<1>1. /\ Drop(t) /\ UNCHANGED <<stopped, worker>>
      /\ inrun' = inrun \/ (inrun' \subseteq inrun /\ stopped)
  <2>1. CASE LeaveRun(t)
        BY <2>1 DEF LeaveRun
  <2>2. CASE Close(t) /\ "m_close_initiated" \in flags
        BY <2>2 DEF Close
  <2>3. CASE RunReturns(t) \/ UseEnds(t) \/ CloseReturns(t) \/ SendReturns(t) \/ SendFails(t)
        BY <2>3 DEF RunReturns, UseEnds, CloseReturns, SendReturns, SendFails
  <2>4. QED
        BY <2>1, <2>2, <2>3
<1>2. PICK p : /\ pc' = [pc EXCEPT ![t] = p]
               /\ pc[t] \in RefPcs \ {"closing"}
               /\ \/ p \in {"idle", "send", "want", "ping"}
                  \/ p = "wait" /\ pc[t] = "run" /\ run = "false"
                  \/ p = "wait" /\ pc[t] \in {"posted", "inrun"}
                  \/ p = "wait" /\ "m_close_initiated" \in flags
  <2>1. CASE RunReturns(t)
    <3>1. run \in {"true", "false"}
          BY <2>1 DEF RunReturns, RunReady
    <3>2. QED
          BY <2>1, <3>1 DEF RunReturns, Return, Finish
  <2>2. CASE UseEnds(t)
        BY <2>2 DEF UseEnds, Return, Finish
  <2>3. CASE LeaveRun(t) \/ CloseReturns(t)
        BY <2>3 DEF LeaveRun, CloseReturns
  <2>4. CASE SendReturns(t)
        BY <2>4 DEF SendReturns, Finish
  <2>5. CASE SendFails(t)
        BY <2>5 DEF SendFails
  <2>6. CASE Close(t) /\ "m_close_initiated" \in flags
        BY <2>6 DEF Close
  <2>7. QED
        BY <2>1, <2>2, <2>3, <2>4, <2>5, <2>6
<1>3. pc'[t] = p /\ t \in refs /\ \A u \in Callers : u # t => pc'[u] = pc[u]
      BY <1>2 DEF LockInv
<1>4. pc[t] \in {"posted", "inrun"} => "m_close_initiated" \in flags
      BY DEF ServedInv, WaitInv
<1>5. QED
      BY <1>1, <1>2, <1>3, <1>4, DropFrame

\* construct_session() up to the wait of run().
LEMMA ConstructServed ==
    ASSUME ClientInv, ServedInv, NEW t \in Callers,
           Expired(t) \/ JoinWorker(t) \/ Construct(t) \/ Destroy(t)
    PROVE  ServedInv'
<1> USE DEF ServedInv
<1>1. pc[t] \in WriterPcs
      BY DEF Expired, JoinWorker, Construct, Destroy
<1>2. \A u \in Callers : u # t => pc[u] \notin WriterPcs \cup SharedPcs
      BY <1>1, OneWriter
<1>3. \A u \in Callers : u # t => pc'[u] = pc[u]
      BY DEF Expired, JoinWorker, Construct, Destroy, ClientInv, TypeOK
<1>4. inrun = {}
      BY <1>1, <1>2 DEF Expired, JoinWorker, Construct, Destroy, ClientInv, TypeOK, SessionInv
<1>5. CASE Expired(t)
  <2>1. /\ pc'[t] = "join"
        /\ UNCHANGED <<session, ops, run, flags, lost, posted, stopped, worker, inrun>>
        BY <1>5 DEF Expired, ClientInv, TypeOK
  <2>2. IoInv' /\ EndInv'
        BY <1>2, <1>3, <1>5, <2>1 DEF Expired, IoInv, IoReady, Pending, EndInv, MayCloseSession
  <2>3. WaitInv'
        BY <1>2, <1>3, <2>1 DEF WaitInv
  <2>4. QED
        BY <2>2, <2>3
<1>6. CASE JoinWorker(t)
  <2>1. /\ pc[t] = "join" /\ pc'[t] = "make" /\ worker' = "none" /\ worker \in {"none", "ended"}
        /\ UNCHANGED <<session, m_expired, ops, run, flags, lost, posted, stopped, inrun>>
        BY <1>6 DEF JoinWorker, Join, ClientInv, TypeOK
  <2>2. IoInv'
        BY <1>4, <2>1 DEF IoInv, IoReady
  <2>3. EndInv'
        BY <1>2, <1>3, <2>1 DEF EndInv, MayCloseSession
  <2>4. WaitInv'
        BY <1>2, <1>3, <2>1 DEF WaitInv
  <2>5. QED
        BY <2>2, <2>3, <2>4
<1>7. CASE Construct(t)
  <2>1. /\ pc'[t] = "run" /\ session' = "live" /\ run' = "unset" /\ flags' = {}
        /\ worker' = "start" /\ "resolve" \in ops' /\ UNCHANGED <<stopped, inrun>>
        BY <1>7 DEF Construct, ClientInv, TypeOK
  <2>2. ops = {} /\ "read" \notin ops'
        BY <1>7 DEF Construct, ClientInv, SessionInv
  <2>3. IoInv'
        BY <1>4, <2>1 DEF IoInv, IoReady, ChainOps
  <2>4. EndInv'
        BY <2>1, <2>2 DEF EndInv
  <2>5. WaitInv'
        BY <1>2, <1>3, <2>1 DEF WaitInv, ChainOps
  <2>6. QED
        BY <2>3, <2>4, <2>5
<1>8. CASE Destroy(t)
  <2>1. /\ pc[t] = "exit" /\ pc'[t] = "gone" /\ worker' = "none" /\ worker \in {"none", "ended"}
        /\ UNCHANGED <<session, m_expired, ops, run, flags, lost, posted, stopped, inrun>>
        BY <1>8 DEF Destroy, Join, ClientInv, TypeOK
  <2>2. IoInv'
        BY <1>4, <2>1 DEF IoInv, IoReady
  <2>3. EndInv' /\ WaitInv'
        BY <1>2, <1>3, <2>1 DEF EndInv, MayCloseSession, WaitInv
  <2>4. QED
        BY <2>2, <2>3
<1>9. QED
      BY <1>5, <1>6, <1>7, <1>8

\* close() for the first time: to the IO thread, or on this one.
LEMMA CloseServed ==
    ASSUME ClientInv, ServedInv, NEW t \in Callers, Close(t),
           "m_close_initiated" \notin flags
    PROVE  ServedInv'
<1> USE DEF ServedInv
<1>1. /\ flags' = flags \cup {"m_close_initiated"} /\ pc[t] = "close"
      /\ UNCHANGED <<m_expired, session, ops, run, lost, worker>>
      /\ \A u \in Callers : u # t => pc'[u] = pc[u] /\ pc[u] \notin WriterPcs \cup SharedPcs
  <2>1. \A u \in Callers : u # t => pc[u] \notin WriterPcs \cup SharedPcs
        BY OneWriter DEF Close
  <2>2. QED
        BY <2>1 DEF Close, ClientInv, TypeOK
<1>2. CASE stopped
  <2>1. /\ posted' = posted \cup {"close"} /\ stopped' = FALSE /\ inrun' = inrun \cup {t}
        /\ pc'[t] = "inrun"
        BY <1>2 DEF Close, ClientInv, TypeOK
  <2>2. IoInv'
        BY <1>1, <2>1 DEF IoInv, IoReady, Pending
  <2>3. EndInv'
        BY <1>1, <2>1 DEF EndInv
  <2>4. WaitInv'
        BY <1>1, <2>1 DEF WaitInv
  <2>5. QED
        BY <2>2, <2>3, <2>4
<1>3. CASE ~stopped
  <2>1. UNCHANGED <<posted, stopped, inrun>> /\ pc'[t] = "closing"
        BY <1>3 DEF Close, ClientInv, TypeOK
  <2>2. IoInv'
        BY <1>1, <2>1 DEF IoInv, IoReady, Pending
  <2>3. EndInv'
        BY <1>1, <2>1 DEF EndInv
  <2>4. WaitInv'
        BY <1>1, <2>1 DEF WaitInv
  <2>5. QED
        BY <2>2, <2>3, <2>4
<1>4. QED
      BY <1>2, <1>3

-----------------------------------------------------------------------------
(* Handlers: a running io_context stops exactly when it is out of work.    *)
LEMMA HandlerServed ==
    ASSUME ClientInv, ServedInv, NEW o, NEW p, HandlerEnd(o, p), IoReady,
           session # "dying",
           UNCHANGED <<callVars, refs, worker, inrun>>,
           "read" \in o => run' = "true",
           "m_close" \in flags' => lost' \/ "close" \in o,
           "m_close_received" \in flags' => lost',
           flags \subseteq flags', "m_close_initiated" \in flags' => "m_close_initiated" \in flags,
           "close" \in posted => "close" \in p \/ ~MayCloseSession',
           run # "unset" => run' = run,
           run' = "unset" => ops \cap ChainOps \subseteq {} \/ o \cap ChainOps # {}
    PROVE  ServedInv'
<1> USE DEF ServedInv, HandlerEnd
<1>1. worker # "start" /\ ~stopped /\ (worker = "run" \/ inrun # {})
      BY ReadyRuns
<1>2. IoInv'
      BY <1>1 DEF IoInv, IoReady, Pending, Orphaned
<1>3. EndInv'
  <2>1. ~MayCloseSession => ~MayCloseSession'
        BY DEF MayCloseSession
  <2>2. QED
        BY <2>1 DEF EndInv
<1>4. WaitInv'
      BY DEF WaitInv
<1>5. QED
      BY <1>2, <1>3, <1>4

LEMMA ChainServed ==
    ASSUME ClientInv, ServedInv, NEW from \in ChainOps,
           NEW next \in SUBSET (ChainOps \cup {"read"}), Chain(from, next)
    PROVE  ServedInv'
<1> USE DEF Chain
<1>1. session = "live"
      BY HandlerLive
<1>2. run = "unset" /\ "read" \notin ops
      BY DEF ClientInv, ChainInv, ServedInv, EndInv
<1>3. ASSUME NEW op \in next, HandlerEnd((ops \ {from}) \cup {op}, posted),
             run' = IF op = "read" THEN "true" ELSE run
      PROVE  ServedInv'
  <2> DEFINE o == (ops \ {from}) \cup {op}
  <2>1. run' = "unset" => o \cap ChainOps # {}
        BY <1>2, <1>3
  <2>2. "read" \in o => run' = "true"
        BY <1>2, <1>3
  <2>3. /\ "m_close" \in flags' => lost' \/ "close" \in o
        /\ "m_close_received" \in flags' => lost' /\ flags' = flags
        BY DEF ServedInv, EndInv, ChainOps
  <2>4. UNCHANGED <<callVars, refs, worker, inrun, flags>> /\ IoReady
        OBVIOUS
  <2>5. QED
        BY <1>1, <1>2, <1>3, <2>1, <2>2, <2>3, <2>4, HandlerServed
<1>4. ASSUME HandlerEnd((ops \ {from}) \cup {"ending"}, posted), run' = RunFails
      PROVE  ServedInv'
  <2> DEFINE o == (ops \ {from}) \cup {"ending"}
  <2>1. run' = "false" /\ "read" \notin o
        BY <1>2, <1>4 DEF RunFails
  <2>2. /\ "m_close" \in flags' => lost' \/ "close" \in o
        /\ "m_close_received" \in flags' => lost' /\ flags' = flags
        BY DEF ServedInv, EndInv, ChainOps
  <2>3. UNCHANGED <<callVars, refs, worker, inrun, flags>> /\ IoReady
        OBVIOUS
  <2>4. QED
        BY <1>1, <1>2, <1>4, <2>1, <2>2, <2>3, HandlerServed
<1>5. QED
      BY <1>3, <1>4

\* Handlers that leave the flags and the connection chain alone.
LEMMA PlainServed ==
    ASSUME ClientInv, ServedInv, NEW o, NEW p, HandlerEnd(o, p), IoReady,
           session # "dying", UNCHANGED <<callVars, refs, run, flags, worker, inrun>>,
           lost' = lost \/ lost' = TRUE,
           "read" \in o => "read" \in ops,
           "close" \in ops => "close" \in o \/ lost',
           "close" \in posted => "close" \in p,
           ops \cap ChainOps \subseteq o
    PROVE  ServedInv'
<1>1. /\ "m_close" \in flags' => lost' \/ "close" \in o
      /\ "m_close_received" \in flags' => lost'
      /\ "read" \in o => run' = "true"
      BY DEF ServedInv, EndInv, ClientInv, TypeOK
<1>2. QED
      BY <1>1, HandlerServed

LEMMA PlainHandlersServed ==
    ASSUME ClientInv, ServedInv,
           \/ ChainEnd \/ OnPostedPing \/ OnStale \/ OnPing \/ OnClose
           \/ \E t \in Callers : OnPostedSend(t) \/ OnWrite(t)
    PROVE  ServedInv'
<1> USE DEF ChainOps
<1>1. CASE ChainEnd
      BY <1>1, HandlerLive, PlainServed DEF ChainEnd
<1>2. CASE OnPostedPing
      BY <1>2, HandlerLive, PlainServed DEF OnPostedPing
<1>3. CASE OnStale
      BY <1>3, PlainServed DEF OnStale
<1>4. CASE OnPing
      BY <1>4, HandlerLive, PlainServed DEF OnPing
<1>5. CASE OnClose
      BY <1>5, HandlerLive, PlainServed DEF OnClose
<1>6. ASSUME NEW t \in Callers, OnPostedSend(t) PROVE ServedInv'
  <2>1. t \notin {"read", "close", "stale"} /\ session = "live"
        BY <1>6, HandlerLive DEF OnPostedSend, SessionOps, Posts
  <2>2. QED
        BY <1>6, <2>1, PlainServed DEF OnPostedSend
<1>7. ASSUME NEW t \in Callers, OnWrite(t) PROVE ServedInv'
  <2>1. t \notin ChainOps \cup {"read", "close"} /\ session = "live"
        BY <1>7, HandlerLive DEF OnWrite, SessionOps
  <2>2. QED
        BY <1>7, <2>1, PlainServed DEF OnWrite
<1>8. QED
      BY <1>1, <1>2, <1>3, <1>4, <1>5, <1>6, <1>7

\* A handler that ends in close_session(), whatever it leaves of the reads and writes.
LEMMA CloseSessionServed ==
    ASSUME ClientInv, ServedInv, NEW o, NEW p, CloseSession(o, p), IoReady,
           session = "live", UNCHANGED <<callVars, refs, run, worker, inrun>>,
           o \subseteq ops, ops \ o \subseteq {"read"} \cup Callers,
           lost => lost'
    PROVE  ServedInv'
<1> DEFINE End == IF MayCloseSession THEN o \cup {"close"} ELSE o
<1>1. /\ HandlerEnd(End, p)
      /\ flags' = IF MayCloseSession THEN flags \cup {"m_close"} ELSE flags
      BY DEF CloseSession
<1>2. ~MayCloseSession' /\ flags \subseteq flags'
      BY <1>1 DEF MayCloseSession
<1>3. "m_close" \in flags' => lost' \/ "close" \in End
  <2>1. "close" \in ops => "close" \in o
        BY DEF SessionOps
  <2>2. QED
        BY <1>1, <2>1 DEF ServedInv, EndInv, MayCloseSession
<1>4. "m_close_received" \in flags' => lost'
      BY <1>1 DEF ServedInv, EndInv
<1>5. "read" \in End => run' = "true"
      BY DEF ServedInv, EndInv
<1>6. ops \cap ChainOps # {} => End \cap ChainOps # {}
      BY DEF SessionOps, ChainOps
<1>7. "m_close_initiated" \in flags' => "m_close_initiated" \in flags
      BY <1>1
<1>8. QED
      BY <1>1, <1>2, <1>3, <1>4, <1>5, <1>6, <1>7, HandlerServed

LEMMA CloseHandlersServed ==
    ASSUME ClientInv, ServedInv, OnPostedClose \/ OnReadError \/ OnWriteError
    PROVE  ServedInv'
<1>1. session = "live" /\ UNCHANGED <<callVars, refs, run, worker, inrun>> /\ IoReady
      BY HandlerLive DEF OnPostedClose, OnReadError, OnWriteError
<1>2. CASE OnPostedClose
      BY <1>1, <1>2, CloseSessionServed DEF OnPostedClose
<1>3. CASE OnReadError
      BY <1>1, <1>3, CloseSessionServed DEF OnReadError
<1>4. CASE OnWriteError
      BY <1>1, <1>4, CloseSessionServed DEF OnWriteError
<1>5. QED
      BY <1>2, <1>3, <1>4

-----------------------------------------------------------------------------
LEMMA OtherServed ==
    ASSUME ClientInv, ServedInv,
           \/ OnControlClose \/ StreamFails \/ OnSessionDelete
           \/ WorkerRuns \/ WorkerEnds \/ UNCHANGED vars
    PROVE  ServedInv'
<1> USE DEF ServedInv
<1>1. CASE OnControlClose \/ StreamFails
  <2>1. /\ UNCHANGED <<m_expired, callVars, session, ops, run, posted, ioVars>>
        /\ lost' = TRUE /\ flags \subseteq flags'
        /\ "m_close_initiated" \in flags' => "m_close_initiated" \in flags
        BY <1>1 DEF OnControlClose, StreamFails
  <2>2. IoInv'
        BY <2>1 DEF IoInv, IoReady, Pending
  <2>3. EndInv'
        BY <2>1 DEF EndInv, MayCloseSession
  <2>4. WaitInv'
        BY <2>1 DEF WaitInv
  <2>5. QED
        BY <2>2, <2>3, <2>4
<1>2. CASE OnSessionDelete
  <2>1. /\ session = "dying" /\ session' = "none" /\ m_expired' = TRUE /\ run' = "unset"
        /\ flags' = {} /\ stopped' = (posted = {})
        /\ UNCHANGED <<callVars, ops, posted, worker, inrun>>
        BY <1>2 DEF OnSessionDelete, Deleted
  <2>2. ops = {} /\ refs = {}
        BY <2>1 DEF ClientInv, SessionInv
  <2>3. IoInv'
        BY <2>1, <2>2 DEF IoInv, IoReady, Pending
  <2>4. EndInv'
        BY <2>1, <2>2 DEF EndInv
  <2>5. \A t \in Callers : pc[t] \notin RefPcs
        BY <2>2 DEF ClientInv, LockInv
  <2>6. WaitInv'
        BY <2>1, <2>5 DEF WaitInv
  <2>7. QED
        BY <2>3, <2>4, <2>6
<1>3. CASE WorkerRuns \/ WorkerEnds
  <2>1. IoInv'
        BY <1>3 DEF WorkerRuns, WorkerEnds, IoInv, IoReady, Pending
  <2>2. EndInv' /\ WaitInv'
        BY <1>3 DEF WorkerRuns, WorkerEnds, EndInv, MayCloseSession, WaitInv
  <2>3. QED
        BY <2>1, <2>2
<1>4. CASE UNCHANGED vars
  <2>1. IoInv'
        BY <1>4 DEF vars, IoInv, IoReady, Pending
  <2>2. EndInv' /\ WaitInv'
        BY <1>4 DEF vars, EndInv, MayCloseSession, WaitInv
  <2>3. QED
        BY <2>1, <2>2
<1>5. QED
      BY <1>1, <1>2, <1>3, <1>4

LEMMA ServedStep == ClientInv /\ ServedInv /\ [Next]_vars => ServedInv'
<1> SUFFICES ASSUME ClientInv, ServedInv, [Next]_vars PROVE ServedInv'
    OBVIOUS
<1>1. ASSUME NEW t \in Callers, CallerNext(t) PROVE ServedInv'
      BY <1>1, QuietServed, ReleaseServed, ConstructServed, CloseServed, Zenon
         DEF CallerNext, Inside
<1>2. CASE OnResolve \/ OnConnect \/ OnSslHandshake \/ OnHandshake
      BY <1>2, ChainServed DEF OnResolve, OnConnect, OnSslHandshake, OnHandshake, ChainOps
<1>3. CASE Handlers
      BY <1>2, <1>3, PlainHandlersServed, CloseHandlersServed, Zenon DEF Handlers
<1>4. QED
      BY <1>1, <1>3, OtherServed, Zenon DEF Next

-----------------------------------------------------------------------------
(* The theorems that follow from the invariants. *)

\* The destructor has joined the IO thread, perhaps after a timeout: the thread does
\* not leave the io_context while there is a session.
LEMMA ExitDone ==
    ASSUME ClientInv, ServedInv, NEW t \in Callers, pc[t] = "exit",
           worker \in {"none", "ended"}
    PROVE  session = "none" /\ ops = {} /\ m_expired
<1>1. \A u \in Callers : pc[u] \notin WriterPcs \cup SharedPcs \/ u = t
      BY OneWriter
<1>2. inrun = {} /\ refs = {}
      BY <1>1 DEF ClientInv, TypeOK, LockInv, SessionInv
<1>3. ops = {} /\ session # "dying"
      BY <1>2 DEF ServedInv, IoInv
<1>4. session = "none"
      BY <1>2, <1>3 DEF ClientInv, TypeOK, SessionInv
<1>5. m_expired
      BY <1>1, <1>4 DEF ServedInv, WaitInv
<1>6. QED
      BY <1>3, <1>4, <1>5

LEMMA DestroyStep ==
    ASSUME ClientInv, ServedInv, NEW t \in Callers, Destroy(t)
    PROVE  ClientInv'
<1> USE DEF ClientInv, Destroy, Join
<1>1. TypeOK'
      BY DEF TypeOK, Pcs, Exclusive, Flags, Posts
<1>2. LockInv'
      BY DEF TypeOK, LockInv
<1>3. SessionInv'
      BY DEF TypeOK, LockInv, SessionInv
<1>4. ExitInv'
  <2>1. m_expired
        BY ExitDone
  <2>2. QED
        BY <2>1 DEF TypeOK, LockInv, SessionInv, ExitInv
<1>5. ChainInv'
      BY DEF TypeOK, LockInv, SessionInv, ChainInv, HandshakeGuarded, ChainOps
<1>6. DataInv'
      BY DEF TypeOK, LockInv, SessionInv, ExitInv, DataInv, Posts, SessionOps
<1>7. QED
      BY <1>1, <1>2, <1>3, <1>4, <1>5, <1>6

LEMMA CallerStep ==
    ASSUME ClientInv, ServedInv, NEW t \in Callers, CallerNext(t)
    PROVE  ClientInv'
<1>1. CASE Inside(t)
      BY <1>1, ConnectedStep, ExpiredStep, JoinWorkerStep, ConstructStep,
         RunReturnsStep, PingPostStep, GetResponseStep, UseEndsStep,
         LockSessionStep, CloseStep, LeaveRunStep, ClosePostStep,
         CloseReturnsStep, WaitDestructionStep, WaitTimeoutStep, DestroyStep, SendPostStep,
         SendReturnsStep, SendFailsStep, Zenon DEF Inside
<1>2. CASE Lock(t) \/ SendLock(t)
      BY <1>2, LockStep, SendLockStep, Zenon
<1>3. CASE \E k \in Exclusive \cup {"send"} : Call(t, k)
      BY <1>3, CallStep, Zenon
<1>4. QED
      BY <1>1, <1>2, <1>3, Zenon DEF CallerNext

\* ClientInv, the conjunction of what holds of the lock, the session's life, the
\* destructor, the connection chain and the callers' data, and ServedInv, what a
\* waiting thread relies on, are inductive together.
THEOREM ClientInvHolds == Spec => [](ClientInv /\ ServedInv)
<1>1. ClientInv /\ ServedInv /\ [Next]_vars => ClientInv'
  <2> SUFFICES ASSUME ClientInv, ServedInv, [Next]_vars PROVE ClientInv'
      OBVIOUS
  <2>1. CASE \E t \in Callers : CallerNext(t)
        BY <2>1, CallerStep, Zenon
  <2>2. CASE Handlers
        BY <2>2, ConnectSteps, PlainSteps, WriteSteps, CloseSteps, Zenon DEF Handlers
  <2>3. CASE OnControlClose \/ StreamFails \/ OnSessionDelete
        BY <2>3, StreamSteps, OnSessionDeleteStep, Zenon
  <2>4. CASE WorkerRuns \/ WorkerEnds
        BY <2>4, WorkerSteps, Zenon
  <2>5. CASE UNCHANGED vars
    <3> USE <2>5 DEF ClientInv, vars
    <3>1. TypeOK' /\ LockInv' /\ SessionInv' /\ ExitInv'
          BY DEF TypeOK, LockInv, SessionInv, ExitInv
    <3>2. ChainInv' /\ DataInv'
          BY DEF ChainInv, HandshakeGuarded, DataInv
    <3>3. QED
          BY <3>1, <3>2
  <2>6. QED
        BY <2>1, <2>2, <2>3, <2>4, <2>5, Zenon DEF Next
<1>2. QED
      BY ClientInit, ServedInit, ServedStep, <1>1, PTL DEF Spec

\* m_expired is only ever read as true when no handler of the session is left
\* (on_session_delete, listen_broadcast).
THEOREM ExpiredGoneHolds == Spec => []ExpiredGone
<1>1. ClientInv => ExpiredGone
      BY DEF ClientInv, SessionInv, ExpiredGone
<1>2. QED
      BY ClientInvHolds, <1>1, PTL

\* Neither construct_session() nor the end of the destructor meets the remains of
\* a session.
THEOREM NothingLeftHolds == Spec => []NothingLeft
<1>1. ClientInv => NothingLeft
      BY DEF ClientInv, TypeOK, LockInv, SessionInv, ExitInv, NothingLeft
<1>2. QED
      BY ClientInvHolds, <1>1, PTL

\* Handshake requests and responses are used under m_session_mtx.
THEOREM HandshakeGuardedHolds == Spec => []HandshakeGuarded
<1>1. ClientInv => HandshakeGuarded
      BY DEF ClientInv, ChainInv
<1>2. QED
      BY ClientInvHolds, <1>1, PTL

\* Whatever thread holds m_session_mtx and waits, in run(), in wait_destruction(),
\* in a join or in the io_context, what it waits for is under way: no order of
\* connects, errors, closes and posts leaves it waiting for nobody.
THEOREM WriterServedHolds == Spec => []WriterServed
<1>1. ClientInv /\ ServedInv => WriterServed
  <2> SUFFICES ASSUME ClientInv, ServedInv PROVE WriterServed
      OBVIOUS
  <2> USE DEF ServedInv
  <2>1. ops # {} \/ session = "dying" => IoServed
        BY DEF IoInv, IoServed, IoReady
  <2>2. ASSUME NEW t \in Callers, pc[t] \in {"join", "exit"},
               worker \notin {"none", "ended"}
        PROVE  worker = "run" /\ (stopped \/ Pending)
    <3>1. worker # "start"
      <4>1. writer = t
            BY <2>2 DEF ClientInv, LockInv
      <4>2. ops \cap ChainOps = {}
            BY <2>2, <4>1 DEF ClientInv, ChainInv, HandshakeGuarded
      <4>3. QED
            BY <4>2 DEF IoInv
    <3>2. QED
          BY <2>2, <3>1 DEF IoInv, IoReady, ClientInv, TypeOK
  <2>3. ASSUME NEW t \in Callers, pc[t] = "inrun" PROVE stopped \/ Pending
        BY <2>3 DEF IoInv, IoReady, ClientInv, SessionInv
  <2>4. ASSUME NEW t \in Callers, pc[t] \in {"wait", "exit"}, ~m_expired
        PROVE  /\ IoServed
               /\ session = "dying" \/ ops # {}
               /\ "read" \in ops => lost \/ "close" \in ops \cup posted
    <3>1. \A u \in Callers : u # t => pc[u] \notin WriterPcs \cup SharedPcs
          BY <2>4, OneWriter
    <3>2. session # "none"
          BY <2>4, <3>1 DEF WaitInv
    <3>3. refs = {}
          BY <2>4, <3>1 DEF ClientInv, TypeOK, LockInv
    <3>4. session = "dying" \/ (session = "live" /\ ops # {})
          BY <3>2, <3>3 DEF ClientInv, TypeOK, SessionInv
    <3>5. ASSUME "read" \in ops PROVE lost \/ "close" \in ops \cup posted
      <4>1. session = "live" /\ run = "true"
            BY <3>5 DEF EndInv, ClientInv, SessionInv
      <4>2. "m_close_initiated" \in flags
            BY <2>4, <4>1 DEF WaitInv
      <4>3. ~MayCloseSession \/ "close" \in posted
            BY <2>4, <3>1, <4>1, <4>2 DEF EndInv
      <4>4. QED
            BY <4>3 DEF EndInv, MayCloseSession
    <3>6. QED
          BY <2>1, <3>4, <3>5
  <2>5. ASSUME NEW t \in Callers, pc[t] = "run", run = "unset"
        PROVE  ops \cap ChainOps # {} /\ IoServed
        BY <2>1, <2>5 DEF WaitInv
  <2>6. QED
        BY <2>2, <2>3, <2>4, <2>5 DEF WriterServed
<1>2. QED
      BY ClientInvHolds, <1>1, PTL

-----------------------------------------------------------------------------
(* The contract ClientLife.  A step keeps StageInv and is a step of the    *)
(* contract, or changes nothing of it.                                     *)
RefStep == StageInv' /\ [Contract!LifeNext]_(Contract!lifeVars)

\* Nothing goes on when the destructor is done.
LEMMA NotGone ==
    ASSUME ClientInv,
           session # "none" \/ \E t \in Callers : pc[t] \in WriterPcs \cup SharedPcs
    PROVE  \A u \in Callers : pc[u] # "gone"
BY DEF ClientInv, LockInv, SessionInv, ExitInv

LEMMA SameStage ==
    ASSUME UNCHANGED <<session, run, lost>>,
           "m_close_initiated" \in flags' <=> "m_close_initiated" \in flags,
           \A u \in Callers : pc'[u] = "gone" <=> pc[u] = "gone"
    PROVE  Stage' = Stage
BY DEF Stage

\* A caller's step deletes the session or leaves it alone, and may end its call.
LEMMA CallerRef ==
    ASSUME ClientInv, ClientInv', StageInv', NEW t \in Callers,
           \/ Stage' = Stage /\ InUse' = InUse
           \/ Stage = "over" /\ Stage' = "none" /\ InUse' = {},
           \A u \in Callers : u # t => call'[u] = call[u],
           call'[t] = call[t] \/ (call'[t] = "none" /\ pc'[t] = "idle"),
           Thrown' = Thrown
    PROVE  RefStep
<1>1. CASE Sending' = Sending
  <2>1. UNCHANGED Contract!lifeVars \/ Contract!Delete
        BY <1>1 DEF Contract!Delete, Contract!lifeVars
  <2>2. QED
        BY <2>1 DEF RefStep, Contract!LifeNext
<1>2. CASE Sending' # Sending
  <2>1. call[t] = "send" /\ call'[t] = "none" /\ pc'[t] = "idle"
        BY <1>2 DEF Sending
  <2>2. Sending' = Sending \ {t} /\ t \in Sending
        BY <2>1 DEF Sending
  <2>3. t \notin InUse'
        BY <2>1 DEF InUse, ClientInv, DataInv
  <2>4. Contract!Return(t)
        BY <2>2, <2>3 DEF Contract!Return
  <2>5. QED
        BY <2>4 DEF RefStep, Contract!LifeNext
<1>3. QED
      BY <1>1, <1>2

\* ... in particular if it does not touch the session.
LEMMA QuietRef ==
    ASSUME ClientInv, ClientInv', StageInv, NEW t \in Callers,
           UNCHANGED <<session, run, flags, lost, ops>>, posted' \cap Callers = posted \cap Callers,
           \A u \in Callers : u # t => call'[u] = call[u] /\ pc'[u] = pc[u],
           call'[t] = call[t] \/ (call'[t] = "none" /\ pc'[t] = "idle"),
           pc[t] \notin {"run", "gone", "thrown"}, pc'[t] \notin {"gone", "thrown"}
    PROVE  RefStep
<1>1. Stage' = Stage
      BY SameStage
<1>2. InUse' = InUse /\ Thrown' = Thrown
      BY DEF InUse, Thrown
<1>3. StageInv'
      BY DEF StageInv
<1>4. QED
      BY <1>1, <1>2, <1>3, CallerRef

\* ... or releases it.
LEMMA DropRef ==
    ASSUME ClientInv, ClientInv', StageInv, NEW t \in Callers, Drop(t), t \in refs,
           \A u \in Callers : u # t => call'[u] = call[u] /\ pc'[u] = pc[u],
           call'[t] = call[t] \/ (call'[t] = "none" /\ pc'[t] = "idle"),
           pc[t] = "run" => run # "unset", pc'[t] \notin {"gone", "thrown"}
    PROVE  RefStep
<1>0. Thrown' = Thrown
      BY DEF Thrown, ClientInv, LockInv
<1>1. session = "live" /\ \A u \in Callers : pc[u] # "gone" /\ pc'[u] # "gone"
  <2>1. session = "live"
        BY DEF ClientInv, SessionInv
  <2>2. QED
        BY <2>1, NotGone
<1>2. CASE refs = {t} /\ ops = {}
  <2>1. session' = "none" /\ ops' = {} /\ posted' \subseteq {"stale"}
        BY <1>2 DEF Drop, Deleted, Orphaned
  <2>2. Stage' = "none"
        BY <1>1, <2>1 DEF Stage
  <2>3. InUse' = {}
        BY <2>1 DEF InUse, Posts
  <2>4. Stage = "over"
    <3>1. run # "unset"
      <4>1. \A u \in Callers : pc[u] = "run" => u = t
            BY <1>2 DEF ClientInv, LockInv
      <4>2. QED
            BY <1>1, <4>1 DEF StageInv
    <3>2. ~(run = "true" /\ ~lost)
          BY <1>1, <1>2 DEF StageInv
    <3>3. QED
          BY <1>1, <3>1, <3>2 DEF Stage
  <2>5. StageInv'
        BY <2>1 DEF StageInv
  <2>6. QED
        BY <1>0, <2>2, <2>3, <2>4, <2>5, CallerRef
<1>3. CASE ~(refs = {t} /\ ops = {})
  <2>1. UNCHANGED <<session, run, flags, lost, ops, posted>>
        BY <1>3 DEF Drop
  <2>2. Stage' = Stage
        BY <1>1, <2>1, SameStage
  <2>3. InUse' = InUse
        BY <2>1 DEF InUse
  <2>4. StageInv'
        BY <2>1 DEF StageInv
  <2>5. QED
        BY <1>0, <2>2, <2>3, <2>4, CallerRef
<1>4. QED
      BY <1>2, <1>3

-----------------------------------------------------------------------------
LEMMA QuietRefs ==
    ASSUME ClientInv, ClientInv', StageInv, NEW t \in Callers,
           \/ Lock(t) \/ SendLock(t) \/ Connected(t) \/ Expired(t) \/ JoinWorker(t)
           \/ PingPost(t) \/ GetResponse(t) \/ LockSession(t) \/ ClosePost(t)
           \/ WaitDestruction(t)
           \/ WaitTimeout(t) /\ todo[t] = "destroy"
    PROVE  RefStep
<1> USE DEF ClientInv, TypeOK
<1>1. UNCHANGED <<session, run, flags, lost, ops>>
      BY DEF Lock, SendLock, Connected, Expired, JoinWorker, PingPost, GetResponse,
             LockSession, ClosePost, WaitDestruction, WaitTimeout
<1>2. posted' \cap Callers = posted \cap Callers
  <2>1. "close" \notin Callers /\ "ping" \notin Callers
        BY DEF Posts
  <2>2. posted' = posted \/ posted' = posted \cup {"close"} \/ posted' = posted \cup {"ping"}
        BY DEF Lock, SendLock, Connected, Expired, JoinWorker, PingPost, GetResponse,
               LockSession, ClosePost, WaitDestruction, WaitTimeout
  <2>3. QED
        BY <2>1, <2>2
<1>3. /\ \A u \in Callers : u # t => call'[u] = call[u] /\ pc'[u] = pc[u]
      /\ call'[t] = call[t] \/ (call'[t] = "none" /\ pc'[t] = "idle")
      /\ pc[t] \notin {"run", "gone", "thrown"} /\ pc'[t] \notin {"gone", "thrown"}
  <2>1. CASE Lock(t) \/ Connected(t) \/ WaitDestruction(t)
        BY <2>1 DEF Lock, Connected, WaitDestruction, Return, Finish
  <2>2. CASE SendLock(t)
        BY <2>2 DEF SendLock, Finish
  <2>3. CASE PingPost(t) \/ GetResponse(t)
        BY <2>3 DEF PingPost, GetResponse, Return, Finish
  <2>4. CASE Expired(t) \/ JoinWorker(t) \/ LockSession(t) \/ ClosePost(t)
        BY <2>4 DEF Expired, JoinWorker, LockSession, ClosePost
  <2>5. CASE WaitTimeout(t) /\ todo[t] = "destroy"
        BY <2>5 DEF WaitTimeout
  <2>6. QED
        BY <2>1, <2>2, <2>3, <2>4, <2>5
<1>4. QED
      BY <1>1, <1>2, <1>3, QuietRef

\* close() for the first time: the session is over.
LEMMA CloseRef ==
    ASSUME ClientInv, StageInv, NEW t \in Callers, Close(t),
           "m_close_initiated" \notin flags
    PROVE  RefStep
<1>1. /\ pc[t] = "close" /\ pc'[t] \in {"inrun", "closing"} /\ flags \subseteq flags'
      /\ \A u \in Callers : u # t => pc'[u] = pc[u]
      /\ UNCHANGED <<session, run, lost, ops, call>>
      /\ posted' = posted \/ posted' = posted \cup {"close"}
      BY DEF Close, ClientInv, TypeOK
<1>2. session = "live" /\ \A u \in Callers : pc[u] # "gone"
  <2>1. session = "live"
        BY <1>1 DEF ClientInv, LockInv, SessionInv
  <2>2. QED
        BY <2>1, NotGone
<1>3. Stage \in {"connecting", "up", "over"} /\ Stage' \in {Stage, "over"}
      BY <1>1, <1>2 DEF Stage
<1>4. InUse' = InUse /\ Sending' = Sending /\ Thrown' = Thrown
      BY <1>1 DEF InUse, Sending, Thrown, Posts
<1>5. Contract!LetGo
      BY <1>3, <1>4 DEF Contract!LetGo
<1>6. StageInv'
      BY <1>1 DEF StageInv
<1>7. QED
      BY <1>5, <1>6 DEF RefStep, Contract!LifeNext

\* disconnect() and connect() throw while the session is still there, but over.
LEMMA ThrowRef ==
    ASSUME ClientInv, ServedInv, StageInv, CallInv, NEW t \in Callers, WaitTimeout(t),
           todo[t] # "destroy"
    PROVE  RefStep
<1>1. /\ pc[t] = "wait" /\ pc'[t] = "thrown" /\ call'[t] = "none" /\ ~m_expired
      /\ \A u \in Callers : u # t => call'[u] = call[u] /\ pc'[u] = pc[u]
      /\ UNCHANGED <<session, run, flags, lost, ops, posted>>
      BY DEF WaitTimeout, Overdue, Throw, ClientInv, TypeOK
<1>2. \A u \in Callers : u # t => pc[u] \notin WriterPcs \cup SharedPcs
      BY <1>1, OneWriter
<1>3. session # "none"
      BY <1>1, <1>2 DEF ServedInv, WaitInv
<1>4. \A u \in Callers : pc[u] # "gone"
      BY <1>3, NotGone
<1>5. session = "live" => run # "unset"
      BY <1>1, <1>2 DEF StageInv
<1>6. session = "live" => "m_close_initiated" \in flags \/ run = "false"
      BY <1>1 DEF ServedInv, WaitInv
<1>7. Stage = "over"
      BY <1>3, <1>4, <1>5, <1>6 DEF Stage
<1>8. Stage' = Stage
      BY <1>1, SameStage
<1>9. InUse' = InUse /\ Sending' = Sending \ {t} /\ Thrown' = Thrown \cup {t}
      BY <1>1 DEF InUse, Sending, Thrown
<1>10. Contract!Throw(t)
      BY <1>7, <1>8, <1>9 DEF Contract!Throw
<1>11. StageInv'
      BY <1>1 DEF StageInv
<1>12. QED
      BY <1>10, <1>11 DEF RefStep, Contract!LifeNext

LEMMA DropRefs ==
    ASSUME ClientInv, ClientInv', StageInv, NEW t \in Callers,
           \/ RunReturns(t) \/ UseEnds(t) \/ LeaveRun(t) \/ CloseReturns(t)
           \/ SendReturns(t) \/ SendFails(t)
           \/ Close(t) /\ "m_close_initiated" \in flags
    PROVE  RefStep
<1> USE DEF ClientInv, TypeOK
<1>1. Drop(t) /\ pc[t] \in RefPcs /\ (pc[t] = "run" => run # "unset")
  <2>1. CASE RunReturns(t) \/ UseEnds(t) \/ LeaveRun(t) \/ CloseReturns(t)
        BY <2>1 DEF RunReturns, RunReady, UseEnds, LeaveRun, CloseReturns
  <2>2. CASE SendReturns(t) \/ SendFails(t)
        BY <2>2 DEF SendReturns, SendFails
  <2>3. CASE Close(t) /\ "m_close_initiated" \in flags
        BY <2>3 DEF Close
  <2>4. QED
        BY <2>1, <2>2, <2>3
<1>2. t \in refs
      BY <1>1 DEF LockInv
<1>3. /\ \A u \in Callers : u # t => call'[u] = call[u] /\ pc'[u] = pc[u]
      /\ call'[t] = call[t] \/ (call'[t] = "none" /\ pc'[t] = "idle")
      /\ pc'[t] \notin {"gone", "thrown"}
  <2>1. CASE RunReturns(t)
        BY <2>1 DEF RunReturns, Return, Finish
  <2>2. CASE UseEnds(t)
        BY <2>2 DEF UseEnds, Return, Finish
  <2>3. CASE LeaveRun(t) \/ CloseReturns(t) \/ SendFails(t)
        BY <2>3 DEF LeaveRun, CloseReturns, SendFails
  <2>4. CASE SendReturns(t)
        BY <2>4 DEF SendReturns, Finish
  <2>5. CASE Close(t) /\ "m_close_initiated" \in flags
        BY <2>5 DEF Close
  <2>6. QED
        BY <2>1, <2>2, <2>3, <2>4, <2>5
<1>4. QED
      BY <1>1, <1>2, <1>3, DropRef

LEMMA CallRef ==
    ASSUME ClientInv, CallInv, StageInv, NEW t \in Callers,
           NEW k \in Exclusive \cup {"send"}, Call(t, k)
    PROVE  RefStep
<1> USE DEF ClientInv, TypeOK
<1>1. /\ pc[t] = "idle" \/ (pc[t] = "thrown" /\ t \notin ops \cup posted)
      /\ pc'[t] \in {"send", "want"} /\ call'[t] = k /\ ~m_exit
      /\ \A u \in Callers : u # t => call'[u] = call[u] /\ pc'[u] = pc[u]
      /\ UNCHANGED <<session, run, flags, lost, ops, posted>>
      BY DEF Call
<1>2. Stage' = Stage /\ InUse' = InUse /\ StageInv'
  <2>1. Stage' = Stage
        BY <1>1, SameStage
  <2>2. QED
        BY <1>1, <2>1 DEF InUse, StageInv
<1>3. Stage # "gone"
      BY <1>1 DEF ExitInv, Stage
<1>4. t \notin InUse
      BY <1>1 DEF InUse, DataInv
<1>5. call[t] = "none"
      BY <1>1 DEF CallInv
<1>6. t \notin Sending /\ Sending' \in {Sending, Sending \cup {t}}
      BY <1>1, <1>5 DEF Sending
<1>7. Thrown' = Thrown \ {t}
      BY <1>1 DEF Thrown
<1>8. Contract!Call(t)
      BY <1>2, <1>3, <1>4, <1>6, <1>7 DEF Contract!Call
<1>9. QED
      BY <1>2, <1>8 DEF RefStep, Contract!LifeNext

\* A new session, the data of a call, and the end of the destructor.
LEMMA MakeRefs ==
    ASSUME ClientInv, ServedInv, CallInv, StageInv, NEW t \in Callers,
           Construct(t) \/ SendPost(t) \/ Destroy(t)
    PROVE  RefStep
<1> USE DEF ClientInv
<1>1. \A u \in Callers : pc[u] # "gone"
      BY NotGone DEF Construct, SendPost, Destroy
<1>2. CASE Construct(t)
  <2>1. /\ session' = "live" /\ run' = "unset" /\ ops' = ops \cup {"resolve"}
        /\ pc[t] = "make" /\ pc'[t] = "run" /\ session = "none" /\ UNCHANGED <<posted, call>>
        /\ \A u \in Callers : u # t => pc'[u] = pc[u]
        BY <1>2 DEF Construct, SessionInv, TypeOK
  <2>2. ops = {} /\ posted \subseteq {"stale"}
        BY <2>1 DEF SessionInv
  <2>3. InUse = {} /\ InUse' = {}
        BY <2>1, <2>2 DEF InUse, Posts, SessionOps, ChainOps
  <2>4. Stage = "none" /\ Stage' = "connecting"
        BY <1>1, <2>1 DEF Stage
  <2>5. Sending' = Sending /\ Thrown' = Thrown
        BY <2>1 DEF Sending, Thrown
  <2>6. Contract!Open
        BY <2>3, <2>4, <2>5 DEF Contract!Open
  <2>7. StageInv'
        BY <2>1 DEF StageInv
  <2>8. QED
        BY <2>6, <2>7 DEF RefStep, Contract!LifeNext
<1>3. CASE SendPost(t)
  <2>1. /\ pc[t] = "post" /\ pc'[t] = "sent" /\ posted' = posted \cup {t}
        /\ \A u \in Callers : u # t => pc'[u] = pc[u]
        /\ UNCHANGED <<session, run, flags, lost, ops, call>>
        BY <1>3 DEF SendPost, TypeOK
  <2>2. Stage' = Stage
        BY <1>1, <2>1, SameStage
  <2>3. t \notin InUse /\ InUse' = InUse \cup {t}
        BY <2>1 DEF InUse, DataInv
  <2>4. Sending' = Sending /\ t \in Sending /\ Thrown' = Thrown
        BY <2>1 DEF Sending, CallInv, Thrown
  <2>5. session = "live" /\ run # "unset"
    <3>1. session = "live"
          BY <2>1 DEF LockInv, SessionInv
    <3>2. \A u \in Callers : pc[u] # "run"
          BY <2>1 DEF LockInv
    <3>3. QED
          BY <3>1, <3>2 DEF StageInv
  <2>6. Stage \in {"up", "over"}
        BY <1>1, <2>5 DEF Stage
  <2>7. Contract!Submit(t)
        BY <2>2, <2>3, <2>4, <2>6 DEF Contract!Submit
  <2>8. StageInv'
        BY <2>1 DEF StageInv
  <2>9. QED
        BY <2>7, <2>8 DEF RefStep, Contract!LifeNext
<1>4. CASE Destroy(t)
  <2>0. session = "none"
        BY <1>4, ExitDone DEF Destroy, Join
  <2>1. /\ pc[t] = "exit" /\ pc'[t] = "gone" /\ session = "none"
        /\ UNCHANGED <<session, run, lost, ops, posted, call>>
        /\ \A u \in Callers : u # t => pc'[u] = pc[u]
        BY <1>4, <2>0 DEF Destroy, TypeOK
  <2>2. Stage = "none" /\ Stage' = "gone"
        BY <1>1, <2>1 DEF Stage
  <2>3. InUse' = InUse /\ Sending' = Sending /\ Thrown' = Thrown
        BY <2>1 DEF InUse, Sending, Thrown
  <2>4. Contract!Destroy
        BY <2>2, <2>3 DEF Contract!Destroy
  <2>5. StageInv'
        BY <2>1 DEF StageInv
  <2>6. QED
        BY <2>4, <2>5 DEF RefStep, Contract!LifeNext
<1>5. QED
      BY <1>2, <1>3, <1>4

-----------------------------------------------------------------------------
(* Handlers only let go of data, and may end the session. *)
LEMMA HandlerRef ==
    ASSUME ClientInv, StageInv, NEW o, NEW p, HandlerEnd(o, p), session = "live",
           UNCHANGED <<callVars, refs, run>>, lost => lost', flags \subseteq flags',
           o \cap Callers \subseteq ops \cup posted, p \cap Callers \subseteq posted,
           "read" \in ops => "read" \in o \/ lost'
    PROVE  RefStep
<1> USE DEF HandlerEnd
<1>1. \A u \in Callers : pc[u] # "gone" /\ pc'[u] # "gone"
      BY NotGone
<1>2. InUse' \subseteq InUse
      BY DEF InUse, Orphaned, Posts
<1>3. Stage \in {"connecting", "up", "over"} /\ Stage' \in {Stage, "over"}
      BY <1>1 DEF Stage
<1>4. Sending' = Sending /\ Thrown' = Thrown
      BY DEF Sending, Thrown
<1>5. Contract!LetGo
      BY <1>2, <1>3, <1>4 DEF Contract!LetGo
<1>6. StageInv'
      BY DEF StageInv
<1>7. QED
      BY <1>5, <1>6 DEF RefStep, Contract!LifeNext

LEMMA ChainRef ==
    ASSUME ClientInv, StageInv, NEW from \in ChainOps,
           NEW next \in SUBSET (ChainOps \cup {"read"}), Chain(from, next)
    PROVE  RefStep
<1> USE DEF Chain, HandlerEnd
<1>1. session = "live" /\ run = "unset"
      BY HandlerLive DEF ClientInv, ChainInv
<1>2. \A u \in Callers : pc[u] # "gone" /\ pc'[u] # "gone"
      BY <1>1, NotGone
<1>3. Stage = "connecting" /\ Sending' = Sending /\ Thrown' = Thrown
      BY <1>1, <1>2 DEF Stage, Sending, Thrown
<1>4. PICK op \in ChainOps \cup {"read", "ending"} :
          /\ ops' = (ops \ {from}) \cup {op}
          /\ run' = IF op = "read" THEN "true" ELSE IF op = "ending" THEN "false" ELSE run
          /\ posted' = posted /\ session' = "live" /\ lost' = lost
      BY <1>1 DEF RunFails, ChainOps
<1>5. InUse' = InUse
  <2>1. from \notin Callers /\ op \notin Callers
        BY DEF SessionOps, ChainOps
  <2>2. QED
        BY <1>4, <2>1 DEF InUse
<1>6. Contract!Connect \/ Contract!LetGo
  <2>1. Stage' \in {"connecting", "up", "over"}
        BY <1>1, <1>2, <1>4 DEF Stage
  <2>2. QED
        BY <1>3, <1>5, <2>1 DEF Contract!Connect, Contract!LetGo
<1>7. StageInv'
      BY <1>1, <1>4 DEF StageInv
<1>8. QED
      BY <1>6, <1>7 DEF RefStep, Contract!LifeNext

LEMMA HandlerRefs ==
    ASSUME ClientInv, ServedInv, StageInv,
           \/ ChainEnd \/ OnPostedPing \/ OnPing \/ OnClose
           \/ OnPostedClose \/ OnReadError \/ OnWriteError
           \/ \E t \in Callers : OnPostedSend(t) \/ OnWrite(t)
    PROVE  RefStep
<1>1. session = "live"
  <2>1. \A t \in Callers : t # "stale"
        BY DEF Posts
  <2>2. QED
        BY <2>1, HandlerLive DEF ChainEnd, OnPostedPing, OnPing, OnClose, OnPostedClose,
           OnReadError, OnWriteError, OnPostedSend, OnWrite
<1>2. "close" \notin Callers /\ "ping" \notin Callers /\ "read" \notin Callers
      BY DEF Posts, SessionOps
<1>3. CASE ChainEnd
      BY <1>1, <1>3, HandlerRef DEF ChainEnd
<1>4. CASE OnPostedPing
      BY <1>1, <1>2, <1>4, HandlerRef DEF OnPostedPing
<1>5. CASE OnPing
      BY <1>1, <1>5, HandlerRef DEF OnPing
<1>6. CASE OnClose
      BY <1>1, <1>6, HandlerRef DEF OnClose
<1>7. ASSUME NEW t \in Callers, OnPostedSend(t) \/ OnWrite(t) PROVE RefStep
      BY <1>1, <1>2, <1>7, HandlerRef DEF OnPostedSend, OnWrite
<1>8. CASE OnPostedClose
      BY <1>1, <1>2, <1>8, HandlerRef DEF OnPostedClose, CloseSession
<1>9. CASE OnReadError
  <2>1. lost'
        BY <1>9 DEF OnReadError, ServedInv, EndInv
  <2>2. QED
        BY <1>1, <1>2, <1>9, <2>1, HandlerRef DEF OnReadError, CloseSession
<1>10. CASE OnWriteError
      BY <1>1, <1>2, <1>10, HandlerRef DEF OnWriteError, CloseSession
<1>11. QED
      BY <1>3, <1>4, <1>5, <1>6, <1>7, <1>8, <1>9, <1>10

LEMMA OtherRefs ==
    ASSUME ClientInv, StageInv,
           \/ OnStale \/ OnControlClose \/ StreamFails \/ OnSessionDelete
           \/ WorkerRuns \/ WorkerEnds \/ UNCHANGED vars
    PROVE  RefStep
<1>1. UNCHANGED <<pc, call>> /\ Sending' = Sending /\ Thrown' = Thrown
      BY DEF OnStale, OnControlClose, StreamFails, OnSessionDelete, WorkerRuns,
             WorkerEnds, vars, Sending, Thrown
<1>2. CASE OnStale \/ WorkerRuns \/ WorkerEnds \/ UNCHANGED vars
  <2>1. UNCHANGED <<session, run, flags, lost, ops>>
    <3>1. CASE OnStale
          BY <3>1 DEF OnStale, HandlerEnd, ClientInv, SessionInv
    <3>2. CASE WorkerRuns \/ WorkerEnds \/ UNCHANGED vars
          BY <3>2 DEF WorkerRuns, WorkerEnds, vars
    <3>3. QED
          BY <1>2, <3>1, <3>2
  <2>2. InUse' = InUse
    <3>1. CASE OnStale
          BY <2>1, <3>1 DEF OnStale, HandlerEnd, InUse, Posts, ClientInv, SessionInv
    <3>2. CASE WorkerRuns \/ WorkerEnds \/ UNCHANGED vars
          BY <3>2 DEF WorkerRuns, WorkerEnds, vars, InUse
    <3>3. QED
          BY <1>2, <3>1, <3>2
  <2>3. Stage' = Stage
        BY <1>1, <2>1, SameStage
  <2>4. StageInv'
        BY <1>1, <2>1 DEF StageInv
  <2>5. QED
        BY <1>1, <2>2, <2>3, <2>4 DEF RefStep, Contract!lifeVars
<1>3. CASE OnControlClose \/ StreamFails
  <2>1. /\ "read" \in ops /\ lost' = TRUE /\ flags \subseteq flags'
        /\ UNCHANGED <<session, run, ops, posted>>
        BY <1>3 DEF OnControlClose, StreamFails
  <2>2. session = "live" /\ \A u \in Callers : pc[u] # "gone"
    <3>1. session = "live"
          BY <2>1, HandlerLive
    <3>2. QED
          BY <3>1, NotGone
  <2>3. Stage \in {"connecting", "up", "over"} /\ Stage' \in {Stage, "over"}
        BY <1>1, <2>1, <2>2 DEF Stage
  <2>4. InUse' = InUse
        BY <2>1 DEF InUse
  <2>5. Contract!LetGo
        BY <1>1, <2>3, <2>4 DEF Contract!LetGo
  <2>6. StageInv'
        BY <1>1, <2>1 DEF StageInv
  <2>7. QED
        BY <2>5, <2>6 DEF RefStep, Contract!LifeNext
<1>4. CASE OnSessionDelete
  <2>1. session = "dying" /\ session' = "none" /\ UNCHANGED <<ops, posted>>
        BY <1>4 DEF OnSessionDelete, Deleted
  <2>2. ops = {} /\ posted \subseteq {"stale"} /\ \A u \in Callers : pc[u] # "gone"
        BY <2>1, NotGone DEF ClientInv, SessionInv
  <2>3. Stage = "over" /\ Stage' = "none"
        BY <1>1, <2>1, <2>2 DEF Stage
  <2>4. InUse' = {}
        BY <2>1, <2>2 DEF InUse, Posts
  <2>5. Contract!Delete
        BY <1>1, <2>3, <2>4 DEF Contract!Delete
  <2>6. StageInv'
        BY <2>1 DEF StageInv
  <2>7. QED
        BY <2>5, <2>6 DEF RefStep, Contract!LifeNext
<1>5. QED
      BY <1>2, <1>3, <1>4

LEMMA ContractStep ==
    ClientInv /\ ClientInv' /\ ServedInv /\ CallInv /\ StageInv /\ [Next]_vars => RefStep
<1> SUFFICES ASSUME ClientInv, ClientInv', ServedInv, CallInv, StageInv, [Next]_vars
             PROVE  RefStep
    OBVIOUS
<1>1. ASSUME NEW t \in Callers, CallerNext(t) PROVE RefStep
  <2>1. CASE Close(t)
        BY <2>1, CloseRef, DropRefs
  <2>2. CASE WaitTimeout(t)
        BY <2>2, ThrowRef, QuietRefs
  <2>3. CASE \E k \in Exclusive \cup {"send"} : Call(t, k)
        BY <2>3, CallRef, Zenon
  <2>4. CASE \/ Lock(t) \/ SendLock(t) \/ Connected(t) \/ Expired(t) \/ JoinWorker(t)
             \/ PingPost(t) \/ GetResponse(t) \/ LockSession(t) \/ ClosePost(t)
             \/ WaitDestruction(t)
        BY <2>4, QuietRefs, Zenon
  <2>5. CASE \/ RunReturns(t) \/ UseEnds(t) \/ LeaveRun(t) \/ CloseReturns(t)
             \/ SendReturns(t) \/ SendFails(t)
        BY <2>5, DropRefs, Zenon
  <2>6. CASE Construct(t) \/ SendPost(t) \/ Destroy(t)
        BY <2>6, MakeRefs, Zenon
  <2>7. QED
        BY <1>1, <2>1, <2>2, <2>3, <2>4, <2>5, <2>6, Zenon DEF CallerNext, Inside
<1>2. CASE OnResolve \/ OnConnect \/ OnSslHandshake \/ OnHandshake
      BY <1>2, ChainRef DEF OnResolve, OnConnect, OnSslHandshake, OnHandshake, ChainOps
<1>3. CASE Handlers
      BY <1>2, <1>3, HandlerRefs, OtherRefs, Zenon DEF Handlers
<1>4. QED
      BY <1>1, <1>3, OtherRefs, Zenon DEF Next

LEMMA CallInvStep == TypeOK /\ CallInv /\ [Next]_vars => CallInv'
<1> SUFFICES ASSUME TypeOK, CallInv, [Next]_vars PROVE CallInv'
    OBVIOUS
<1>1. CASE UNCHANGED <<pc, call>>
      BY <1>1 DEF CallInv
<1>2. ASSUME NEW t \in Callers, CallerNext(t) PROVE CallInv'
  <2> USE DEF TypeOK, CallInv, SharedPcs
  <2>1. CASE \E k \in Exclusive \cup {"send"} : Call(t, k)
        BY <2>1 DEF Call, Go
  <2>2. CASE Lock(t) \/ Connected(t) \/ PingPost(t) \/ GetResponse(t)
        BY <2>2 DEF Lock, Connected, PingPost, GetResponse, Return, Finish, Go
  <2>3. CASE RunReturns(t) \/ UseEnds(t) \/ WaitDestruction(t) \/ WaitTimeout(t)
        BY <2>3 DEF RunReturns, UseEnds, WaitDestruction, WaitTimeout, Throw, Return,
                    Finish, Go
  <2>4. CASE Expired(t) \/ JoinWorker(t) \/ Construct(t) \/ LockSession(t) \/ Destroy(t)
        BY <2>4 DEF Expired, JoinWorker, Construct, LockSession, Destroy, Go
  <2>5. CASE Close(t) \/ LeaveRun(t) \/ ClosePost(t) \/ CloseReturns(t)
        BY <2>5 DEF Close, LeaveRun, ClosePost, CloseReturns, Go
  <2>6. CASE SendLock(t) \/ SendPost(t) \/ SendReturns(t) \/ SendFails(t)
        BY <2>6 DEF SendLock, SendPost, SendReturns, SendFails, Finish, Go
  <2>7. QED
        BY <1>2, <2>1, <2>2, <2>3, <2>4, <2>5, <2>6, Zenon DEF CallerNext, Inside
<1>3. ASSUME \/ Handlers \/ OnControlClose \/ StreamFails \/ OnSessionDelete
             \/ WorkerRuns \/ WorkerEnds \/ UNCHANGED vars
      PROVE  UNCHANGED <<pc, call>>
      BY <1>3 DEF Handlers, OnResolve, OnConnect, OnSslHandshake, OnHandshake, Chain, ChainEnd,
             OnPostedClose, OnPostedPing, OnStale, OnPing, OnWriteError, OnReadError,
             OnClose, OnPostedSend, OnWrite, OnControlClose, StreamFails,
             OnSessionDelete, WorkerRuns, WorkerEnds, callVars, vars
<1>4. QED
      BY <1>1, <1>2, <1>3 DEF Next

LEMMA CallInvHolds == Spec => []CallInv
<1>1. Init => CallInv
      BY DEF Init, CallInv, SharedPcs
<1>2. ClientInv => TypeOK
      BY DEF ClientInv
<1>3. QED
      BY <1>1, <1>2, CallInvStep, ClientInvHolds, PTL DEF Spec

\* The client with its threads, its sessions and its IO thread implements the
\* contract ClientLife, for any number of threads and attempts: whatever of its
\* waits time out, and whether a call returns or throws.
THEOREM ClientRefinesLife == Spec => RefinesClientLife
<1>1. Init => Contract!LifeInit /\ StageInv
  <2> SUFFICES ASSUME Init PROVE Contract!LifeInit /\ StageInv
      OBVIOUS
  <2>1. Stage = "none" /\ InUse = {} /\ Sending = {} /\ Thrown = {} /\ StageInv
        BY DEF Init, Stage, InUse, Sending, Thrown, StageInv
  <2>2. QED
        BY <2>1 DEF Contract!LifeInit
<1>2. ClientInv /\ ClientInv' /\ ServedInv /\ CallInv /\ StageInv /\ [Next]_vars =>
          StageInv' /\ [Contract!LifeNext]_(Contract!lifeVars)
      BY ContractStep DEF RefStep
<1>3. QED
      BY <1>1, <1>2, ClientInvHolds, CallInvHolds, PTL
         DEF Spec, RefinesClientLife, Contract!LifeSpec

\* Data left in use by a call that threw is used by a session that is over.
ThrownOver == \A t \in InUse \cap Thrown : Stage = "over"

LEMMA ThrownOverStep ==
    ASSUME CallInv, ThrownOver, [Contract!LifeNext]_(Contract!lifeVars)
    PROVE  ThrownOver'
<1>1. Sending \cap Thrown = {}
      BY DEF CallInv, Sending, Thrown
<1>2. CASE UNCHANGED Contract!lifeVars
      BY <1>2 DEF ThrownOver, Contract!lifeVars
<1>3. CASE Contract!Open \/ Contract!Connect \/ Contract!LetGo
      BY <1>3 DEF ThrownOver, Contract!Open, Contract!Connect, Contract!LetGo
<1>4. CASE Contract!Delete \/ Contract!Destroy
      BY <1>4 DEF ThrownOver, Contract!Delete, Contract!Destroy
<1>5. ASSUME NEW t \in Callers, Contract!Call(t) \/ Contract!Submit(t)
      PROVE  ThrownOver'
      BY <1>1, <1>5 DEF ThrownOver, Contract!Call, Contract!Submit
<1>6. ASSUME NEW t \in Callers, Contract!Return(t) \/ Contract!Throw(t)
      PROVE  ThrownOver'
      BY <1>6 DEF ThrownOver, Contract!Return, Contract!Throw
<1>7. QED
      BY <1>2, <1>3, <1>4, <1>5, <1>6 DEF Contract!LifeNext

\* The caller's data is not used after send() and send_recv() have returned, whatever
\* timed out; if wait_destruction() did and they threw, by no new session.
THEOREM DataReleasedHolds == Spec => []DataReleased
<1>1. Init => ThrownOver /\ StageInv
      BY DEF Init, ThrownOver, InUse, StageInv
<1>2. ClientInv /\ ClientInv' /\ ServedInv /\ CallInv /\ StageInv /\ [Next]_vars =>
          StageInv' /\ [Contract!LifeNext]_(Contract!lifeVars)
      BY ContractStep DEF RefStep
<1>3. CallInv /\ ThrownOver /\ [Contract!LifeNext]_(Contract!lifeVars) => ThrownOver'
      BY ThrownOverStep
<1>4. ClientInv /\ ThrownOver => DataReleased
      BY DEF ClientInv, DataInv, ThrownOver, InUse, Thrown, DataReleased
<1>5. QED
      BY <1>1, <1>2, <1>3, <1>4, ClientInvHolds, CallInvHolds, PTL DEF Spec
=============================================================================
