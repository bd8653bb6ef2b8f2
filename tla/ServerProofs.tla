---------------------------- MODULE ServerProofs ----------------------------
(***************************************************************************)
(* Proofs about Server, for any threads of the application and any number  *)
(* of workers: the count of finished workers is exact, stop() does not     *)
(* sleep through it or deadlock on m_stop_mtx, no thread is left joinable. *)
(***************************************************************************)
EXTENDS Server, FiniteSetTheorems, TLAPS

Done == {w \in Pool : Counted(w)}

LEMMA PoolFinite ==
    /\ IsFiniteSet(Pool) /\ Cardinality(Pool) = NumWorkers
    /\ \A S \in SUBSET Pool : IsFiniteSet(S) /\ Cardinality(S) \in 0..NumWorkers
<1> USE ServerAssumption
<1>1. IsFiniteSet(Pool) /\ Cardinality(Pool) = NumWorkers
  BY FS_Interval DEF Pool
<1>2. ASSUME NEW S \in SUBSET Pool
      PROVE  IsFiniteSet(S) /\ Cardinality(S) \in 0..NumWorkers
  BY <1>1, FS_Subset, FS_CardinalityType
<1> QED
  BY <1>1, <1>2

(* When as many workers are counted as a start made, each of them is.      *)
LEMMA AllCounted ==
    ASSUME NEW n \in 0..NumWorkers, NEW S \in SUBSET Pool,
           \A w \in S : w <= n, Cardinality(S) = n
    PROVE  \A w \in Pool : w <= n => w \in S
<1> USE ServerAssumption
<1>1. IsFiniteSet(1..n) /\ Cardinality(1..n) = n
  BY FS_Interval
<1>2. S \subseteq 1..n
  BY DEF Pool
<1>3. S = 1..n
  BY <1>1, <1>2, FS_Subset
<1> QED
  BY <1>3 DEF Pool

LEMMA WorkersType == ASSUME TypeOK PROVE Workers \in 0..NumWorkers
BY ServerAssumption DEF TypeOK, Workers

LEMMA InitInv == Init => ServerInv
<1> SUFFICES ASSUME Init PROVE ServerInv
  OBVIOUS
<1> USE ServerAssumption
<1>1. /\ \A a \in Apps : pc[a] = "idle"
      /\ \A w \in Pool : pc[w] = "none"
  BY DEF Init, Threads
<1>2. TypeOK
  <2>1. pc \in [Threads -> WorkerPc \cup AppPc]
    BY <1>1 DEF Init, WorkerPc, AppPc, Threads
  <2>2. m_workers_done \in 0..NumWorkers
    BY DEF Init
  <2> QED
    BY <1>1, <2>1, <2>2 DEF Init, TypeOK, WorkerPc, AppPc
<1>3. MutexInv
  BY <1>1 DEF Init, MutexInv, Threads
<1>4. WorkersJoined /\ CountInv
  BY <1>1 DEF Init, WorkersJoined, CountInv
<1>5. LastInv /\ HookInv /\ HookGiven
  BY <1>1 DEF Init, LastInv, HookInv, HookGiven
<1>6. StopInv /\ NoLostStop
  BY <1>1 DEF StopInv, NoLostStop
<1> QED
  BY <1>2, <1>3, <1>4, <1>5, <1>6 DEF ServerInv

-----------------------------------------------------------------------------
(* A step that neither counts a worker nor takes or releases m_mtx. *)
LEMMA Frame ==
    ASSUME ServerInv, TypeOK', UNCHANGED <<m_mtx, config>>,
           \A w \in Pool :
              /\ Counted(w)' <=> Counted(w)
              /\ pc'[w] = "none" <=> pc[w] = "none"
              /\ pc[w] = "ended" => pc'[w] = "ended"
              /\ pc[w] = "notify" <=> pc'[w] = "notify"
              /\ pc'[w] \in {"hook", "hooklock"} => pc[w] \in {"hook", "hooklock"},
           \A a \in Apps :
              \/ pc'[a] = pc[a]
              \/ {pc[a], pc'[a]} \subseteq {"idle", "run", "handler", "lock", "stop"}
    PROVE  ServerInv'
<1>1. MutexInv'
  BY DEF ServerInv, MutexInv, config
<1>2. WorkersJoined'
  BY DEF ServerInv, WorkersJoined, config
<1>3. Workers' = Workers
  BY DEF Workers, config
<1>4. CountInv'
  <2>1. {w \in Pool : Counted(w)'} = {w \in Pool : Counted(w)}
    OBVIOUS
  <2> QED
    BY <1>3, <2>1 DEF ServerInv, CountInv, config
<1>5. LastInv'
  BY DEF ServerInv, LastInv
<1>6. StopInv'
  BY <1>3 DEF ServerInv, StopInv, config
<1>7. HookInv' /\ HookGiven'
  BY DEF ServerInv, HookInv, HookGiven, config
<1>8. NoLostStop'
  BY <1>3 DEF ServerInv, NoLostStop, config
<1> QED
  BY <1>1, <1>2, <1>4, <1>5, <1>6, <1>7, <1>8 DEF ServerInv

(* Handlers, signals and the end of run(). *)
LEMMA IoKeeps ==
    ASSUME ServerInv, NEW t \in Threads, IoNext(t) PROVE ServerInv'
<1> USE ServerAssumption
<1>1. PICK p : /\ pc' = [pc EXCEPT ![t] = p]
               /\ \/ {pc[t], p} \subseteq IoPc
                  \/ t \in Apps /\ pc[t] = "run" /\ p = "idle"
                  \/ t \in Pool /\ pc[t] = "run" /\ p = "left"
                  \/ {pc[t], p} \subseteq {"hook", "hooklock"}
  <2>1. CASE Handler(t)
    BY <2>1 DEF Handler, IoPc
  <2>2. CASE HandlerEnd(t)
    BY <2>2 DEF HandlerEnd, IoPc
  <2>3. CASE HandlerStop(t)
    <3>1. pc' = [pc EXCEPT ![t] = "handler"] /\ pc[t] = "handler"
      BY <2>3 DEF HandlerStop, ServerInv, TypeOK
    <3> QED
      BY <3>1 DEF IoPc
  <2>4. CASE HandlerBind(t)
    BY <2>4 DEF HandlerBind, IoPc
  <2>5. CASE HandlerBound(t)
    BY <2>5 DEF HandlerBound, IoPc
  <2>6. CASE OnSignal(t) \/ OutOfWork(t)
    <3>1. pc' = [pc EXCEPT ![t] = "run"] /\ pc[t] = "run"
      BY <2>6 DEF OnSignal, OutOfWork, ServerInv, TypeOK
    <3> QED
      BY <3>1 DEF IoPc
  <2>7. CASE LeaveRun(t)
    BY <2>7 DEF LeaveRun, Threads
  <2> QED
    BY <2>1, <2>2, <2>3, <2>4, <2>5, <2>6, <2>7 DEF IoNext
<1>2. UNCHANGED <<listening, m_mtx, config>> /\ armed' \in BOOLEAN /\ stopped' \in BOOLEAN
  BY DEF IoNext, Handler, HandlerEnd, HandlerStop, HandlerBind, HandlerBound,
     OnSignal, OutOfWork, LeaveRun, ServerInv, TypeOK
<1>3. /\ pc'[t] = p
      /\ \A u \in Threads \ {t} : pc'[u] = pc[u]
  BY <1>1 DEF ServerInv, TypeOK
<1>4. pc[t] \in {"hook", "hooklock"} => t \in Pool
  BY DEF ServerInv, TypeOK, AppPc, IoPc, Threads
<1>5. TypeOK'
  <2>1. p \in WorkerPc \cup AppPc
    BY <1>1 DEF WorkerPc, AppPc, IoPc
  <2>2. (t \in Apps => p \in AppPc) /\ (t \in Pool => p \in WorkerPc)
    BY <1>1, <1>4 DEF WorkerPc, AppPc, IoPc
  <2>3. pc' \in [Threads -> WorkerPc \cup AppPc]
    BY <1>1, <2>1 DEF ServerInv, TypeOK
  <2> QED
    BY <1>2, <1>3, <2>2, <2>3 DEF ServerInv, TypeOK, config, Threads
<1>6. \A w \in Pool :
          /\ Counted(w)' <=> Counted(w)
          /\ pc'[w] = "none" <=> pc[w] = "none"
          /\ pc[w] = "ended" => pc'[w] = "ended"
          /\ pc[w] = "notify" <=> pc'[w] = "notify"
          /\ pc'[w] \in {"hook", "hooklock"} => pc[w] \in {"hook", "hooklock"}
  BY <1>1, <1>3 DEF Counted, IoPc, Threads
<1>7. \A a \in Apps :
          \/ pc'[a] = pc[a]
          \/ {pc[a], pc'[a]} \subseteq {"idle", "run", "handler", "lock", "stop"}
  BY <1>1, <1>3, <1>4 DEF IoPc, Threads
<1> QED
  BY <1>2, <1>5, <1>6, <1>7, Frame

-----------------------------------------------------------------------------
(* A worker counts itself; if it is the last, all others have ended.       *)
LEMMA WorkerDoneKeeps ==
    ASSUME ServerInv, NEW w \in Pool, WorkerDone(w) PROVE ServerInv'
<1> USE ServerAssumption
<1>0. /\ w \in Threads /\ pc[w] = "left"
      /\ m_workers_done' = m_workers_done + 1
      /\ pc' = [pc EXCEPT ![w] = IF IsLast THEN "notify" ELSE "ended"]
      /\ UNCHANGED <<listening, m_mtx, m_running, m_async_start, hook, armed, stopped>>
      /\ \A a \in Apps : pc[a] # "join"
  BY DEF WorkerDone, Threads
<1>1. /\ pc'[w] = IF IsLast THEN "notify" ELSE "ended"
      /\ \A t \in Threads \ {w} : pc'[t] = pc[t]
      /\ \A a \in Apps : pc'[a] = pc[a]
      /\ \A v \in Pool \ {w} : pc'[v] = pc[v]
  BY <1>0 DEF ServerInv, TypeOK, Threads
<1>2. m_running /\ w <= Workers /\ Workers' = Workers
  BY <1>0 DEF ServerInv, WorkersJoined, CountInv, Workers, Pool
<1>3. m_workers_done' = Cardinality({v \in Pool : Counted(v)'})
  <2>1. {v \in Pool : Counted(v)'} = Done \cup {w} /\ w \notin Done
    BY <1>0, <1>1 DEF Counted, Done
  <2>2. IsFiniteSet(Done) /\ m_workers_done = Cardinality(Done)
    BY <1>2, PoolFinite DEF ServerInv, CountInv, Done
  <2> QED
    BY <1>0, <2>1, <2>2, FS_AddElement
<1>4. TypeOK'
  <2>1. m_workers_done' \in 0..NumWorkers
    BY <1>3, PoolFinite
  <2>2. pc'[w] \in WorkerPc
    BY <1>1 DEF WorkerPc
  <2>3. pc' \in [Threads -> WorkerPc \cup AppPc]
    BY <1>0, <1>1, <2>2 DEF ServerInv, TypeOK
  <2> QED
    BY <1>0, <1>1, <2>1, <2>2, <2>3 DEF ServerInv, TypeOK
<1>5. MutexInv' /\ WorkersJoined'
  BY <1>0, <1>1, <1>2 DEF ServerInv, MutexInv, WorkersJoined
<1>6. CountInv'
  BY <1>0, <1>1, <1>2, <1>3 DEF ServerInv, CountInv, Pool
<1>7. LastInv'
  <2>1. \A v \in Pool : pc[v] \notin {"notify", "hook", "hooklock"}
    BY <1>0 DEF ServerInv, LastInv
  <2>2. ASSUME IsLast, NEW v \in Pool \ {w} PROVE pc[v] \in {"none", "ended"}
    <3> DEFINE S == {u \in Pool : Counted(u)'}
    <3>1. Cardinality(S) = Workers
      BY <1>0, <1>3, <2>2 DEF IsLast
    <3>2. \A u \in S : u <= Workers
      <4>1. \A u \in Pool : pc'[u] # "none" => ~(u > Workers)
        BY <1>0, <1>2, <1>6 DEF CountInv
      <4> QED
        BY <4>1, WorkersType DEF Counted, Pool, ServerInv
    <3>3. v <= Workers => v \in S
      BY <3>1, <3>2, AllCounted, WorkersType DEF ServerInv
    <3>4. v > Workers => pc[v] = "none"
      BY <1>2 DEF ServerInv, CountInv
    <3>5. v \in S => pc[v] = "ended"
      BY <1>1, <2>1 DEF Counted
    <3> QED
      BY <3>3, <3>4, <3>5, WorkersType DEF ServerInv, Pool
  <2> QED
    BY <1>1, <2>1, <2>2 DEF LastInv
<1>8. StopInv'
  BY <1>0, <1>1, <1>2 DEF ServerInv, StopInv
<1>9. HookInv' /\ HookGiven'
  BY <1>0, <1>1 DEF ServerInv, HookInv, HookGiven
<1>10. NoLostStop'
  <2>1. m_workers_done' = Workers' => IsLast
    BY <1>0, <1>2 DEF IsLast
  <2> QED
    BY <1>1, <2>1 DEF NoLostStop
<1> QED
  BY <1>4, <1>5, <1>6, <1>7, <1>8, <1>9, <1>10 DEF ServerInv

(* notify_all() by the last worker, and the end of its hook. *)
LEMMA NotifyKeeps ==
    ASSUME ServerInv, NEW w \in Pool, Notify(w) PROVE ServerInv'
<1> USE ServerAssumption
<1>0. /\ pc[w] = "notify" /\ UNCHANGED <<listening, m_mtx, config, armed, stopped>>
      /\ \A v \in Pool \ {w} : pc'[v] = pc[v]
      /\ pc'[w] = IF hook THEN "hook" ELSE "ended"
      /\ \A a \in Apps : pc'[a] = IF pc[a] = "sleep" THEN "wait" ELSE pc[a]
  BY DEF Notify, Threads, ServerInv, TypeOK, WorkerPc, IoPc
<1>1. Workers' = Workers /\ m_running
  BY <1>0 DEF Workers, config, ServerInv, WorkersJoined
<1>2. TypeOK'
  <2>1. \A a \in Apps : pc'[a] \in AppPc
    BY <1>0 DEF ServerInv, TypeOK, AppPc
  <2>2. \A v \in Pool : pc'[v] \in WorkerPc
    BY <1>0 DEF ServerInv, TypeOK, WorkerPc
  <2>3. pc' \in [Threads -> WorkerPc \cup AppPc]
    BY <2>1, <2>2 DEF Notify, Threads
  <2> QED
    BY <1>0, <2>1, <2>2, <2>3 DEF ServerInv, TypeOK, config
<1>3. MutexInv' /\ WorkersJoined'
  BY <1>0, <1>1 DEF ServerInv, MutexInv, WorkersJoined, config
<1>4. CountInv'
  <2>1. {v \in Pool : Counted(v)'} = {v \in Pool : Counted(v)}
    BY <1>0 DEF Counted
  <2> QED
    BY <1>0, <1>1, <2>1 DEF ServerInv, CountInv, config
<1>5. LastInv'
  BY <1>0 DEF ServerInv, LastInv
<1>6. StopInv'
  BY <1>0, <1>1 DEF ServerInv, StopInv, config
<1>7. HookInv' /\ HookGiven'
  BY <1>0 DEF ServerInv, HookInv, HookGiven, config
<1>8. NoLostStop'
  BY <1>0 DEF NoLostStop
<1> QED
  BY <1>2, <1>3, <1>4, <1>5, <1>6, <1>7, <1>8 DEF ServerInv

LEMMA HookEndKeeps ==
    ASSUME ServerInv, NEW w \in Pool, HookEnd(w) PROVE ServerInv'
<1> USE ServerAssumption
<1>0. /\ pc[w] = "hook" /\ UNCHANGED <<listening, m_mtx, config, armed, stopped>>
      /\ pc' = [pc EXCEPT ![w] = "ended"] /\ w \in Threads
  BY DEF HookEnd, Threads
<1>1. /\ pc'[w] = "ended" /\ \A v \in Pool \ {w} : pc'[v] = pc[v]
      /\ \A a \in Apps : pc'[a] = pc[a]
  BY <1>0 DEF ServerInv, TypeOK, Threads
<1>2. TypeOK'
  BY <1>0, <1>1 DEF ServerInv, TypeOK, config, WorkerPc
<1> QED
  BY <1>0, <1>1, <1>2, Frame DEF Counted

-----------------------------------------------------------------------------
(* start() and async_start(): all workers of the last generation are gone. *)
LEMMA StartKeeps ==
    ASSUME ServerInv, NEW a \in Apps, NEW async \in BOOLEAN, Start(a, async)
    PROVE  ServerInv'
<1> USE ServerAssumption
<1>0. /\ pc[a] = "idle" /\ m_mtx = None /\ ~m_running /\ m_workers_done' = 0
      /\ m_running' = TRUE /\ m_async_start' = async /\ stopped' = FALSE
      /\ UNCHANGED <<listening, m_mtx, armed>>
      /\ hook' \in BOOLEAN /\ (hook' => async)
  BY DEF Start
<1>1. /\ Workers' \in 0..NumWorkers
      /\ \A w \in Pool : pc'[w] = IF w <= Workers' THEN "run" ELSE "none"
      /\ \A b \in Apps : pc'[b] = pc[b] \/ (pc'[b] = "run" /\ b = a)
  <2>1. Workers' = IF async THEN NumWorkers ELSE NumWorkers - 1
    BY <1>0 DEF Workers
  <2>2. \A w \in Pool : w \in Threads /\ w # a
    BY DEF Threads
  <2>3. \A b \in Apps : b \in Threads /\ b \notin Pool
    BY DEF Threads
  <2> QED
    BY <2>1, <2>2, <2>3 DEF Start
<1>2. TypeOK'
  <2>1. \A b \in Apps : pc'[b] \in AppPc
    BY <1>1 DEF ServerInv, TypeOK, AppPc, IoPc
  <2>2. \A v \in Pool : pc'[v] \in WorkerPc
    BY <1>1 DEF WorkerPc, IoPc
  <2>3. pc' \in [Threads -> WorkerPc \cup AppPc]
    BY <2>1, <2>2 DEF Start, Threads
  <2>4. m_workers_done' \in 0..NumWorkers
    BY <1>0
  <2>5. /\ listening' \in BOOLEAN /\ m_running' \in BOOLEAN /\ m_async_start' \in BOOLEAN
        /\ hook' \in BOOLEAN /\ armed' \in BOOLEAN /\ stopped' \in BOOLEAN
        /\ m_mtx' \in Apps \cup {None}
    BY <1>0, Zenon DEF ServerInv, TypeOK
  <2> QED
    BY <2>1, <2>2, <2>3, <2>4, <2>5 DEF TypeOK
<1>3. \A b \in Apps : pc'[b] \notin {"wait", "sleep", "join", "bind"}
  BY <1>0, <1>1 DEF ServerInv, MutexInv, Threads
<1>4. MutexInv' /\ StopInv' /\ NoLostStop'
  BY <1>0, <1>3 DEF MutexInv, StopInv, NoLostStop, Threads
<1>5. CountInv'
  <2>1. {w \in Pool : Counted(w)'} = {}
    BY <1>1 DEF Counted
  <2>2. \A w \in Pool : pc'[w] = "none" <=> w > Workers'
    BY <1>1 DEF Pool
  <2> QED
    BY <1>0, <2>1, <2>2, FS_EmptySet DEF CountInv
<1>6. WorkersJoined' /\ LastInv' /\ HookInv' /\ HookGiven'
  BY <1>0, <1>1 DEF WorkersJoined, LastInv, HookInv, HookGiven
<1> QED
  BY <1>2, <1>4, <1>5, <1>6 DEF ServerInv

(* The steps of stop() and bind*() up to the join move one thread only. *)
LEMMA AppKeeps ==
    ASSUME ServerInv, NEW a \in Apps,
           \/ StopIo(a) \/ StopLock(a) \/ StopTest(a) \/ SpuriousWakeup(a)
           \/ Bind(a) \/ BindEnd(a)
    PROVE  ServerInv'
<1> USE ServerAssumption
<1>0. UNCHANGED <<listening, config, armed>> /\ stopped' \in BOOLEAN
  BY DEF StopIo, StopLock, StopTest, SpuriousWakeup, Bind, BindEnd, ServerInv, TypeOK
<1>1. PICK p \in AppPc :
        /\ pc' = [pc EXCEPT ![a] = p]
        /\ \/ pc[a] = "idle" /\ p = "stop" /\ m_mtx' = m_mtx
           \/ pc[a] = "stop" /\ p = "idle" /\ m_mtx = None /\ m_mtx' = None
           \/ pc[a] = "stop" /\ p = "wait" /\ m_mtx = None /\ m_mtx' = a /\ m_running
           \/ pc[a] = "wait" /\ p = "join" /\ m_mtx' = m_mtx /\ m_workers_done = Workers
           \/ pc[a] = "wait" /\ p = "sleep" /\ m_mtx' = m_mtx /\ m_workers_done # Workers
           \/ pc[a] = "sleep" /\ p = "wait" /\ m_mtx' = m_mtx
           \/ pc[a] = "idle" /\ p = "bind" /\ m_mtx = None /\ m_mtx' = a /\ ~m_running
           \/ pc[a] = "bind" /\ p = "idle" /\ m_mtx' = None
  <2>1. CASE StopIo(a)
    BY <2>1 DEF StopIo, AppPc
  <2>2. CASE StopLock(a)
    BY <2>2 DEF StopLock, AppPc
  <2>3. CASE StopTest(a)
    BY <2>3 DEF StopTest, AppPc, AllDone
  <2>4. CASE SpuriousWakeup(a)
    BY <2>4 DEF SpuriousWakeup, AppPc
  <2>5. CASE Bind(a)
    BY <2>5 DEF Bind, AppPc, MayBind
  <2>6. CASE BindEnd(a)
    BY <2>6 DEF BindEnd, AppPc
  <2> QED
    BY <2>1, <2>2, <2>3, <2>4, <2>5, <2>6
<1>2. /\ pc'[a] = p
      /\ \A b \in Apps \ {a} : pc'[b] = pc[b]
      /\ \A w \in Pool : pc'[w] = pc[w]
      /\ Workers' = Workers
  BY <1>0, <1>1 DEF ServerInv, TypeOK, Threads, Workers, config
<1>3. TypeOK'
  BY <1>0, <1>1, <1>2 DEF ServerInv, TypeOK, config
<1>4. MutexInv'
  BY <1>1, <1>2 DEF ServerInv, MutexInv, Threads
<1>5. CountInv' /\ WorkersJoined' /\ LastInv'
  <2>1. {w \in Pool : Counted(w)'} = {w \in Pool : Counted(w)}
    BY <1>2 DEF Counted
  <2> QED
    BY <1>0, <1>2, <2>1 DEF ServerInv, CountInv, WorkersJoined, LastInv, config
<1>6. StopInv' /\ HookInv' /\ HookGiven'
  BY <1>0, <1>1, <1>2 DEF ServerInv, StopInv, HookInv, HookGiven, config
<1>7. NoLostStop'
  BY <1>0, <1>1, <1>2 DEF ServerInv, NoLostStop, config
<1> QED
  BY <1>3, <1>4, <1>5, <1>6, <1>7 DEF ServerInv

(* stop() has joined every worker. *)
LEMMA StopJoinKeeps ==
    ASSUME ServerInv, NEW a \in Apps, StopJoin(a) PROVE ServerInv'
<1> USE ServerAssumption
<1>0. /\ pc[a] = "join" /\ m_mtx = a /\ m_running' = FALSE /\ m_mtx' = None
      /\ UNCHANGED <<listening, m_async_start, m_workers_done, hook, armed, stopped>>
      /\ \A w \in Pool : pc[w] \in {"none", "ended"}
  BY DEF StopJoin, Joined, ServerInv, MutexInv
<1>1. /\ \A w \in Pool : pc'[w] = "none"
      /\ pc'[a] = "idle"
      /\ \A b \in Apps \ {a} : pc'[b] = pc[b]
  <2>1. \A t \in Threads :
            pc'[t] = IF t = a THEN "idle"
                     ELSE IF t \in Pool /\ pc[t] = "ended" THEN "none" ELSE pc[t]
    BY DEF StopJoin
  <2>2. \A w \in Pool : w \in Threads /\ w # a
    BY DEF Threads
  <2>3. \A b \in Apps : b \in Threads /\ b \notin Pool
    BY DEF Threads
  <2> QED
    BY <1>0, <2>1, <2>2, <2>3
<1>2. TypeOK'
  <2>1. \A b \in Apps : pc'[b] \in AppPc
    BY <1>1 DEF ServerInv, TypeOK, AppPc
  <2>2. \A v \in Pool : pc'[v] \in WorkerPc
    BY <1>1 DEF WorkerPc
  <2>3. pc' \in [Threads -> WorkerPc \cup AppPc]
    BY <2>1, <2>2 DEF StopJoin, Threads
  <2> QED
    BY <1>0, <2>1, <2>2, <2>3 DEF ServerInv, TypeOK
<1>3. \A b \in Apps : pc'[b] \notin {"wait", "sleep", "join", "bind"}
  BY <1>0, <1>1 DEF ServerInv, MutexInv
<1>4. MutexInv' /\ StopInv' /\ NoLostStop'
  BY <1>0, <1>3 DEF MutexInv, StopInv, NoLostStop, Threads
<1>5. WorkersJoined' /\ CountInv' /\ LastInv' /\ HookInv' /\ HookGiven'
  BY <1>0, <1>1 DEF ServerInv, WorkersJoined, CountInv, LastInv, HookInv, HookGiven
<1> QED
  BY <1>2, <1>4, <1>5 DEF ServerInv

-----------------------------------------------------------------------------
LEMMA StepInv == ServerInv /\ [Next]_vars => ServerInv'
<1> SUFFICES ASSUME ServerInv, [Next]_vars PROVE ServerInv'
  OBVIOUS
<1>1. ASSUME NEW t \in Threads, IoNext(t) PROVE ServerInv'
  BY <1>1, IoKeeps
<1>2. ASSUME NEW w \in Pool, WorkerNext(w) PROVE ServerInv'
  BY <1>2, WorkerDoneKeeps, NotifyKeeps, HookEndKeeps DEF WorkerNext
<1>3. ASSUME NEW a \in Apps, AppNext(a) PROVE ServerInv'
  BY <1>3, StartKeeps, AppKeeps, StopJoinKeeps DEF AppNext
<1>4. CASE UNCHANGED vars
  <2>1. UNCHANGED <<m_mtx, config>> /\ pc' = pc /\ TypeOK'
    BY <1>4 DEF vars, config, ServerInv, TypeOK
  <2> QED
    BY <2>1, Frame DEF Counted
<1> QED
  BY <1>1, <1>2, <1>3, <1>4 DEF Next

(* In every state of the server m_workers_done is the number of workers    *)
(* that have left the io_context, and m_mtx, the workers and m_running     *)
(* agree: the inductive invariant of start(), stop() and the workers.      *)
THEOREM ServerInvHolds == Spec => []ServerInv
BY InitInv, StepInv, PTL DEF Spec

(* run_async_workers() never replaces a thread that was not joined.        *)
THEOREM WorkersJoinedHolds == Spec => []WorkersJoined
<1>1. ServerInv => WorkersJoined
  BY DEF ServerInv
<1> QED
  BY <1>1, ServerInvHolds, PTL

(* stop() never sleeps on m_cv_stop after the notification it waits for.   *)
THEOREM NoLostStopHolds == Spec => []NoLostStop
<1>1. ServerInv => NoLostStop
  BY DEF ServerInv
<1> QED
  BY <1>1, ServerInvHolds, PTL

(* stop() holds m_stop_mtx only when no worker needs it any more.          *)
THEOREM JoinSafeHolds == Spec => []JoinSafe
<1>1. ServerInv => JoinSafe
  <2> SUFFICES ASSUME ServerInv, NEW a \in Apps, pc[a] = "join", NEW w \in Pool
               PROVE  pc[w] # "left" /\ ~InIo(w)
    BY DEF JoinSafe
  <2>1. m_running /\ m_workers_done = Workers
    BY DEF ServerInv, StopInv
  <2>2. Workers \in 0..NumWorkers /\ Workers \in Nat /\ w \in Nat
    BY WorkersType, ServerAssumption DEF ServerInv, Pool
  <2>3. \A v \in Done : v <= Workers
    BY <2>1, WorkersType, ServerAssumption DEF ServerInv, CountInv, Done, Counted, Pool
  <2>4. w <= Workers => w \in Done
    BY <2>1, <2>2, <2>3, AllCounted DEF ServerInv, CountInv, Done
  <2>5. w > Workers => pc[w] = "none"
    BY <2>1 DEF ServerInv, CountInv
  <2> QED
    BY <2>2, <2>4, <2>5 DEF Done, Counted, InIo, IoPc
<1> QED
  BY <1>1, ServerInvHolds, PTL

(* io_stopped_handler runs on the last worker only, after all others ended. *)
THEOREM HookLastHolds == Spec => []HookLast
<1>1. ServerInv => HookLast
  <2> SUFFICES ASSUME ServerInv, NEW w \in Pool, pc[w] \in {"hook", "hooklock"},
                      NEW v \in Pool \ {w}
               PROVE  pc[v] = "ended"
    BY DEF HookLast
  <2>1. m_running /\ m_async_start
    BY DEF ServerInv, WorkersJoined, HookInv
  <2>2. pc[v] # "none"
    BY <2>1, ServerAssumption DEF ServerInv, CountInv, Workers, Pool
  <2> QED
    BY <2>2 DEF ServerInv, LastInv
<1> QED
  BY <1>1, ServerInvHolds, PTL

(* bind*() never writes while a worker may be in a handler.                *)
THEOREM BindQuietHolds == Spec => []BindQuiet
<1>1. ServerInv => BindQuiet
  BY DEF ServerInv, BindQuiet, StopInv, WorkersJoined
<1> QED
  BY <1>1, ServerInvHolds, PTL

-----------------------------------------------------------------------------
(* As long as workers are missing in the count, one of them is in the      *)
(* io_context or about to count itself.                                    *)
LEMMA Missing ==
    ServerInv /\ m_running /\ m_workers_done # Workers => Serving # {}
<1> SUFFICES ASSUME ServerInv, m_running, m_workers_done # Workers
             PROVE  Serving # {}
  OBVIOUS
<1> USE ServerAssumption DEF ServerInv
<1>1. Workers \in 0..NumWorkers /\ IsFiniteSet(1..Workers) /\ Cardinality(1..Workers) = Workers
  BY WorkersType, FS_Interval
<1>2. SUFFICES ASSUME Serving = {} PROVE FALSE
  OBVIOUS
<1>3. \A w \in Pool : Counted(w) <=> w <= Workers
  <2>1. \A w \in Pool : pc[w] = "none" \/ Counted(w)
    BY <1>2 DEF Serving, InIo, IoPc, Counted, TypeOK, WorkerPc
  <2> QED
    BY <1>1, <2>1 DEF CountInv, Counted, Pool
<1>4. {w \in Pool : Counted(w)} = 1..Workers
  BY <1>1, <1>3 DEF Pool
<1> QED
  BY <1>1, <1>4 DEF CountInv

(* A stop() that sleeps on m_cv_stop has a worker that is going to wake it. *)
THEOREM StopServedHolds == Spec => []StopServed
<1>1. ServerInv => StopServed
  <2> SUFFICES ASSUME ServerInv, NEW a \in Apps, pc[a] = "sleep"
               PROVE  \E w \in Pool : InIo(w) \/ pc[w] \in {"left", "notify"}
    BY DEF StopServed
  <2>1. CASE m_workers_done = Workers
    BY <2>1 DEF ServerInv, NoLostStop
  <2>2. CASE m_workers_done # Workers
    BY <2>2, Missing DEF ServerInv, StopInv, Serving
  <2> QED
    BY <2>1, <2>2
<1> QED
  BY <1>1, ServerInvHolds, PTL

-----------------------------------------------------------------------------
(* The contract.  A step that leaves the three mapped values alone is a    *)
(* stuttering step of ServerLife.                                          *)
Binding == \E a \in Apps : pc[a] = "bind"

LEMMA LifeStutters ==
    ASSUME Phase' = Phase, Asked' = Asked, Binding' = Binding
    PROVE  UNCHANGED Life!lifeVars
BY DEF Life!lifeVars, Binding

(* The last worker and the workers that serve exclude each other.          *)
LEMMA Exclusive ==
    ASSUME ServerInv
    PROVE  /\ Serving # {} => Hooked = {} /\ m_running
           /\ Hooked # {} => Serving = {} /\ m_running /\ hook
           /\ \A w \in Pool : pc[w] = "notify" => Hooked = {} /\ Serving = {} /\ m_running
BY DEF ServerInv, LastInv, HookInv, WorkersJoined, Serving, Hooked, InIo, IoPc

LEMMA IoStutters ==
    ASSUME ServerInv, NEW t \in Threads, IoNext(t) PROVE UNCHANGED Life!lifeVars
<1> USE ServerAssumption
<1>1. UNCHANGED config
  BY DEF IoNext, Handler, HandlerEnd, HandlerStop, HandlerBind, HandlerBound,
     OnSignal, OutOfWork, LeaveRun
<1>2. /\ \A u \in Threads \ {t} : pc'[u] = pc[u]
      /\ t \in Pool => \/ pc[t] \in IoPc /\ pc'[t] \in IoPc \cup {"left"}
                       \/ {pc[t], pc'[t]} \subseteq {"hook", "hooklock"}
      /\ pc[t] # "bind" /\ pc'[t] # "bind"
  <2>1. t \in Pool => t \notin Apps
    OBVIOUS
  <2>2. CASE Handler(t) \/ HandlerEnd(t) \/ HandlerStop(t)
    BY <2>2 DEF Handler, HandlerEnd, HandlerStop, ServerInv, TypeOK, IoPc
  <2>3. CASE HandlerBind(t) \/ HandlerBound(t)
    BY <2>3 DEF HandlerBind, HandlerBound, ServerInv, TypeOK, IoPc
  <2>4. CASE OnSignal(t) \/ OutOfWork(t)
    BY <2>4 DEF OnSignal, OutOfWork, ServerInv, TypeOK, IoPc
  <2>5. CASE LeaveRun(t)
    BY <2>1, <2>5 DEF LeaveRun, ServerInv, TypeOK, IoPc
  <2> QED
    BY <2>2, <2>3, <2>4, <2>5 DEF IoNext
<1>3. Serving' = Serving /\ Hooked' = Hooked
  BY <1>2 DEF Serving, Hooked, InIo, IoPc, Threads
<1>4. Binding' = Binding
  BY <1>2 DEF Binding, Threads
<1>5. Asked' = Asked
  BY <1>1, <1>2, <1>3 DEF Asked, config, Threads, IoPc
<1>6. Phase' = Phase
  BY <1>1, <1>3 DEF Phase, config
<1> QED
  BY <1>4, <1>5, <1>6, LifeStutters

(* A worker that counts itself leaves others behind, or drains the server. *)
LEMMA WorkerDoneLife ==
    ASSUME ServerInv, NEW w \in Pool, WorkerDone(w) PROVE [Life!LifeNext]_(Life!lifeVars)
<1> USE ServerAssumption
<1>1. /\ pc[w] = "left" /\ pc'[w] = IF IsLast THEN "notify" ELSE "ended"
      /\ \A v \in Pool \ {w} : pc'[v] = pc[v]
      /\ \A a \in Apps : pc'[a] = pc[a]
      /\ m_workers_done' = m_workers_done + 1
      /\ UNCHANGED <<m_running, m_async_start, hook>>
  BY DEF WorkerDone, ServerInv, TypeOK, Threads
<1>2. Binding' = Binding
  BY <1>1 DEF Binding
<1>3. w \in Serving /\ Hooked = {} /\ m_running
  BY <1>1, Exclusive DEF Serving
<1>4. Hooked' = {} /\ Serving' = Serving \ {w}
  BY <1>1, <1>3 DEF Hooked, Serving, InIo, IoPc
<1>5. Phase = "serving" /\ Asked = hook
  BY <1>3 DEF Phase, Asked, ServerInv, TypeOK
<1>6. CASE IsLast
  <2>1. \A v \in Pool \ {w} : pc[v] \in {"none", "ended"}
    <3>1. ServerInv' /\ pc'[w] = "notify"
      BY <1>1, <1>6, WorkerDoneKeeps
    <3> QED
      BY <1>1, <3>1 DEF ServerInv, LastInv
  <2>2. Serving' = {}
    BY <1>4, <2>1 DEF Serving, InIo, IoPc
  <2>3. Phase' = "quiet" /\ Asked' = hook
    BY <1>1, <1>3, <1>4, <1>6, <2>2 DEF Phase, Asked, ServerInv, TypeOK
  <2>4. Life!LifeDrain
    BY <1>2, <1>5, <2>3 DEF Life!LifeDrain, Binding
  <2> QED
    BY <2>4 DEF Life!LifeNext
<1>7. CASE ~IsLast
  <2>1. ServerInv'
    BY WorkerDoneKeeps
  <2>2. m_running' /\ m_workers_done' # Workers'
    BY <1>1, <1>3, <1>7 DEF IsLast, Workers
  <2>3. Serving' # {}
    <3>1. (ServerInv /\ m_running /\ m_workers_done # Workers => Serving # {})'
      BY Missing, PTL
    <3> QED
      BY <2>1, <2>2, <3>1
  <2>4. Phase' = "serving" /\ Asked' = hook
    <3>1. \E v \in Pool : v \in Serving'
      BY <2>3 DEF Serving
    <3> QED
      BY <1>1, <1>3, <1>4, <2>3, <3>1 DEF Phase, Asked, ServerInv, TypeOK
  <2>5. UNCHANGED Life!lifeVars
    BY <1>2, <1>5, <2>4, LifeStutters
  <2> QED
    BY <2>5
<1> QED
  BY <1>6, <1>7

(* notify_all() and the hook of the last worker. *)
LEMMA NotifyLife ==
    ASSUME ServerInv, NEW w \in Pool, Notify(w) PROVE [Life!LifeNext]_(Life!lifeVars)
<1> USE ServerAssumption
<1>1. /\ pc[w] = "notify" /\ UNCHANGED config
      /\ \A v \in Pool \ {w} : pc'[v] = pc[v]
      /\ pc'[w] = IF hook THEN "hook" ELSE "ended"
      /\ \A a \in Apps : pc'[a] = IF pc[a] = "sleep" THEN "wait" ELSE pc[a]
  BY DEF Notify, Threads, ServerInv, TypeOK, WorkerPc, IoPc
<1>2. Binding' = Binding
  BY <1>1 DEF Binding
<1>3. m_running /\ Hooked = {} /\ Serving = {} /\ Serving' = {}
  BY <1>1, Exclusive DEF Serving, InIo, IoPc
<1>4. Phase = "quiet" /\ Asked = hook
  BY <1>1, <1>3 DEF Phase, Asked, ServerInv, TypeOK
<1>5. \A v \in Pool : pc'[v] # "notify"
  BY <1>1 DEF ServerInv, LastInv
<1>6. Asked' = FALSE
  BY <1>3, <1>5 DEF Asked
<1>7. CASE hook
  <2>1. w \in Hooked'
    BY <1>1, <1>7 DEF Hooked
  <2>2. Phase' = "hook"
    BY <1>1, <1>3, <2>1 DEF Phase, config
  <2>3. Life!LifeHook
    BY <1>2, <1>4, <1>6, <1>7, <2>2 DEF Life!LifeHook, Binding
  <2> QED
    BY <2>3 DEF Life!LifeNext
<1>8. CASE ~hook
  <2>1. Hooked' = {}
    BY <1>1, <1>3, <1>8 DEF Hooked
  <2>2. Phase' = "quiet"
    BY <1>1, <1>3, <2>1 DEF Phase, config
  <2>3. UNCHANGED Life!lifeVars
    BY <1>2, <1>4, <1>6, <1>8, <2>2, LifeStutters DEF ServerInv, TypeOK
  <2> QED
    BY <2>3
<1> QED
  BY <1>7, <1>8

LEMMA HookEndLife ==
    ASSUME ServerInv, NEW w \in Pool, HookEnd(w) PROVE Life!LifeNext
<1> USE ServerAssumption
<1>1. /\ pc[w] = "hook" /\ UNCHANGED config /\ pc'[w] = "ended"
      /\ \A v \in Pool \ {w} : pc'[v] = pc[v]
      /\ \A a \in Apps : pc'[a] = pc[a]
  BY DEF HookEnd, Threads, ServerInv, TypeOK
<1>2. Binding' = Binding
  BY <1>1 DEF Binding
<1>3. \A v \in Pool \ {w} : pc[v] \in {"none", "ended"}
  BY <1>1 DEF ServerInv, LastInv
<1>4. /\ w \in Hooked /\ Hooked' = {} /\ Serving = {} /\ Serving' = {} /\ m_running
      /\ \A v \in Pool : pc[v] # "notify" /\ pc'[v] # "notify"
  <2>1. w \in Hooked
    BY <1>1 DEF Hooked
  <2> QED
    BY <1>1, <1>3, <2>1, Exclusive DEF Hooked, Serving, InIo, IoPc
<1>5. Phase = "hook" /\ Phase' = "quiet" /\ Asked = FALSE /\ Asked' = FALSE
  BY <1>1, <1>4 DEF Phase, Asked, config
<1>6. Life!LifeHookEnd
  BY <1>2, <1>5 DEF Life!LifeHookEnd, Binding
<1> QED
  BY <1>6 DEF Life!LifeNext

(* start() comes only when the server is down and nobody binds.            *)
LEMMA StartLife ==
    ASSUME ServerInv, NEW a \in Apps, NEW async \in BOOLEAN, Start(a, async)
    PROVE  Life!LifeNext
<1> USE ServerAssumption
<1>1. /\ m_mtx = None /\ ~m_running /\ m_running' = TRUE
      /\ hook' \in BOOLEAN /\ (hook' => async) /\ m_async_start' = async
      /\ \A w \in Pool : pc'[w] = IF w <= Workers' THEN "run" ELSE "none"
      /\ \A b \in Apps : pc'[b] = pc[b] \/ pc'[b] = "run"
  <2>1. Workers' = IF async THEN NumWorkers ELSE NumWorkers - 1
    BY DEF Start, Workers
  <2>2. \A w \in Pool : w \in Threads /\ w # a
    BY DEF Threads
  <2>3. \A b \in Apps : b \in Threads /\ b \notin Pool
    BY DEF Threads
  <2> QED
    BY <2>1, <2>2, <2>3 DEF Start
<1>2. Binding = FALSE /\ Binding' = FALSE
  BY <1>1 DEF Binding, ServerInv, MutexInv, Threads
<1>3. Phase = "down" /\ Asked = FALSE /\ Hooked' = {}
  BY <1>1 DEF Phase, Asked, Hooked
<1>4. CASE Serving' # {}
  <2>1. Phase' = "serving" /\ Asked' = hook'
    BY <1>1, <1>3, <1>4 DEF Phase, Asked, Serving
  <2>2. Life!LifeStart
    BY <1>1, <1>2, <1>3, <2>1 DEF Life!LifeStart, Binding
  <2> QED
    BY <2>2 DEF Life!LifeNext
<1>5. CASE Serving' = {}
  <2>1. \A w \in Pool : pc'[w] = "none"
    BY <1>1, <1>5 DEF Serving, InIo, IoPc
  <2>2. Phase' = "quiet" /\ Asked' = FALSE
    BY <1>1, <1>3, <1>5, <2>1 DEF Phase, Asked
  <2>3. Life!LifeStart
    BY <1>1, <1>2, <1>3, <2>2 DEF Life!LifeStart, Binding
  <2> QED
    BY <2>3 DEF Life!LifeNext
<1> QED
  BY <1>4, <1>5

(* stop() up to the join changes nothing the application is promised.      *)
LEMMA StopStutters ==
    ASSUME ServerInv, NEW a \in Apps,
           StopIo(a) \/ StopLock(a) \/ StopTest(a) \/ SpuriousWakeup(a)
    PROVE  UNCHANGED Life!lifeVars
<1> USE ServerAssumption
<1>1. /\ UNCHANGED config
      /\ \A w \in Pool : pc'[w] = pc[w]
      /\ \A b \in Apps : pc'[b] = "bind" <=> pc[b] = "bind"
  BY DEF StopIo, StopLock, StopTest, SpuriousWakeup, ServerInv, TypeOK, Threads
<1>2. Serving' = Serving /\ Hooked' = Hooked /\ Binding' = Binding
  BY <1>1 DEF Serving, Hooked, InIo, Binding
<1>3. Phase' = Phase /\ Asked' = Asked
  BY <1>1, <1>2 DEF Phase, Asked, config
<1> QED
  BY <1>2, <1>3, LifeStutters

LEMMA StopJoinLife ==
    ASSUME ServerInv, NEW a \in Apps, StopJoin(a) PROVE Life!LifeNext
<1> USE ServerAssumption
<1>1. /\ m_running /\ ~m_running' /\ \A w \in Pool : pc[w] \in {"none", "ended"}
      /\ \A b \in Apps : pc'[b] = "bind" <=> pc[b] = "bind"
  BY DEF StopJoin, Joined, ServerInv, StopInv, Threads
<1>2. Serving = {} /\ Hooked = {} /\ \A w \in Pool : pc[w] # "notify"
  BY <1>1 DEF Serving, Hooked, InIo, IoPc
<1>3. Binding' = Binding
  BY <1>1 DEF Binding
<1>4. Phase = "quiet" /\ Asked = FALSE /\ Phase' = "down" /\ Asked' = FALSE
  BY <1>1, <1>2 DEF Phase, Asked
<1>5. Life!LifeStop
  BY <1>3, <1>4 DEF Life!LifeStop, Binding
<1> QED
  BY <1>5 DEF Life!LifeNext

(* bind*() writes only while the server is down, one at a time. *)
LEMMA BindLife ==
    ASSUME ServerInv, NEW a \in Apps, Bind(a) \/ BindEnd(a) PROVE Life!LifeNext
<1> USE ServerAssumption
<1>1. /\ UNCHANGED config /\ a \in Threads
      /\ \A w \in Pool : pc'[w] = pc[w]
      /\ \A b \in Apps \ {a} : pc'[b] = pc[b]
  BY DEF Bind, BindEnd, ServerInv, TypeOK, Threads
<1>2. Serving' = Serving /\ Hooked' = Hooked
  BY <1>1 DEF Serving, Hooked, InIo
<1>3. Phase' = Phase /\ Asked' = Asked
  BY <1>1, <1>2 DEF Phase, Asked, config
<1>4. CASE Bind(a)
  <2>1. Phase = "down" /\ Binding = FALSE /\ Binding' = TRUE
    BY <1>1, <1>4 DEF Bind, MayBind, Phase, Binding, ServerInv, TypeOK, MutexInv, Threads
  <2>2. Life!LifeBind
    BY <1>3, <2>1 DEF Life!LifeBind, Binding
  <2> QED
    BY <2>2 DEF Life!LifeNext
<1>5. CASE BindEnd(a)
  <2>1. Binding = TRUE /\ Binding' = FALSE
    <3>1. pc[a] = "bind" /\ pc'[a] = "idle" /\ m_mtx = a
      BY <1>1, <1>5 DEF BindEnd, ServerInv, TypeOK, MutexInv
    <3>2. \A b \in Apps \ {a} : pc[b] # "bind"
      BY <3>1 DEF ServerInv, MutexInv
    <3> QED
      BY <1>1, <3>1, <3>2 DEF Binding
  <2>2. Life!LifeBound
    BY <1>3, <2>1 DEF Life!LifeBound, Binding
  <2> QED
    BY <2>2 DEF Life!LifeNext
<1> QED
  BY <1>4, <1>5

LEMMA LifeStep == ServerInv /\ [Next]_vars => [Life!LifeNext]_(Life!lifeVars)
<1> SUFFICES ASSUME ServerInv, [Next]_vars PROVE [Life!LifeNext]_(Life!lifeVars)
  OBVIOUS
<1>1. ASSUME NEW t \in Threads, IoNext(t) PROVE UNCHANGED Life!lifeVars
  BY <1>1, IoStutters
<1>2. ASSUME NEW w \in Pool, WorkerNext(w) PROVE [Life!LifeNext]_(Life!lifeVars)
  BY <1>2, WorkerDoneLife, NotifyLife, HookEndLife DEF WorkerNext
<1>3. ASSUME NEW a \in Apps, AppNext(a) PROVE [Life!LifeNext]_(Life!lifeVars)
  BY <1>3, StartLife, StopStutters, StopJoinLife, BindLife DEF AppNext
<1>4. CASE UNCHANGED vars
  <2>1. Serving' = Serving /\ Hooked' = Hooked /\ Binding' = Binding
    BY <1>4 DEF vars, Serving, Hooked, InIo, Binding
  <2>2. Phase' = Phase /\ Asked' = Asked
    BY <1>4, <2>1 DEF vars, Phase, Asked
  <2> QED
    BY <2>1, <2>2, LifeStutters
<1> QED
  BY <1>1, <1>2, <1>3, <1>4 DEF Next

(* start(), stop(), the workers and bind*() together implement ServerLife: *)
(* one io_stopped_handler for each async_start() that has one, after every *)
(* worker has left the io_context and before stop() returns.               *)
THEOREM ServerRefinesLife == Spec => RefinesServerLife
<1>1. Init => Life!LifeInit
  <2> SUFFICES ASSUME Init PROVE Life!LifeInit
    OBVIOUS
  <2>1. \A a \in Apps : pc[a] = "idle"
    BY DEF Init, Threads
  <2>2. Phase = "down" /\ Asked = FALSE /\ Binding = FALSE
    BY <2>1 DEF Init, Phase, Asked, Binding
  <2> QED
    BY <2>2 DEF Life!LifeInit, Binding
<1>2. ServerInv /\ [Next]_vars => [Life!LifeNext]_(Life!lifeVars)
  BY LifeStep
<1> QED
  BY <1>1, <1>2, ServerInvHolds, PTL DEF Spec, RefinesServerLife, Life!LifeSpec
=============================================================================
