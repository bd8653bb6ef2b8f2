------------------------- MODULE SessionManagerProofs -------------------------
(***************************************************************************)
(* Proofs about SessionManager, for any connections, broadcasts, addresses *)
(* and limits: the maps of sessions are exact, messages go to living       *)
(* sessions only, and a broadcast reaches the sessions it owes.            *)
(***************************************************************************)
EXTENDS SessionManager, FiniteSetTheorems, TLAPS

LEMMA InitInv == Init => ManagerInv
<1> SUFFICES ASSUME Init PROVE ManagerInv
  OBVIOUS
<1> USE ManagerAssumption
<1>1. TypeOK
  BY DEF Init, TypeOK, Stages, Kinds, CallPc
<1>2. AddrInv /\ NoDeadReceiver
  BY DEF Init, AddrInv, Objects, NoDeadReceiver
<1>3. RegistryExact
  BY DEF Init, RegistryExact
<1>4. IdsInv /\ OwedInv
  BY DEF Init, IdsInv, OwedInv
<1> QED
  BY <1>1, <1>2, <1>3, <1>4 DEF ManagerInv

(* A call that is inside connections() and is told zero: there are no      *)
(* sessions, since its own reference is the only one above the base count. *)
LEMMA NobodyMeansNone ==
    ASSUME TypeOK, NEW b \in Broadcasts, pc[b] = "count", Nobody
    PROVE  Open = {}
<1> DEFINE C == {d \in Broadcasts : pc[d] = "count"}
<1> USE ManagerAssumption
<1>1. IsFiniteSet(Objects) /\ IsFiniteSet(push) /\ IsFiniteSet(C)
  <2>1. Objects \subseteq Conns /\ push \subseteq Broadcasts /\ C \subseteq Broadcasts
    BY DEF Objects, TypeOK
  <2> QED
    BY <2>1, FS_Subset DEF ManagerAssumption
<1>2. /\ Cardinality(Objects) \in Nat /\ Cardinality(push) \in Nat
      /\ Cardinality(C) \in Nat /\ Cardinality(C) # 0
  <2>1. C # {}
    OBVIOUS
  <2> QED
    BY <1>1, <2>1, FS_CardinalityType, FS_EmptySet
<1>3. Cardinality(Objects) = 0
  <2>1. Cardinality(Objects) + Cardinality(push)
          + (Cardinality(C) + (IF listener = None THEN 0 ELSE 1)) - 1 = 0
    BY DEF Nobody, Connections, Counting
  <2> QED
    BY <1>2, <2>1
<1>4. Objects = {}
  BY <1>1, <1>3, FS_EmptySet
<1> QED
  BY <1>4 DEF Objects, Open

-----------------------------------------------------------------------------
(* The life of a session.  A step that changes sessions leaves the         *)
(* broadcasts alone.                                                       *)

(* A new session takes an address nobody has. *)
LEMMA ConstructKeeps ==
    ASSUME ManagerInv, NEW c \in Conns, NEW k \in Kinds,
           stage[c] \in {"new", "detect"}, Construct(c, k),
           listener' \in {None, listener}, listener' # c,
           UNCHANGED <<detects, m_sessions, pushVars, callVars>>
    PROVE  ManagerInv'
<1> USE ManagerAssumption
<1>0. PICK a \in Addrs : /\ \A d \in Conns : addr[d] # a
                         /\ addr' = [addr EXCEPT ![c] = a]
                         /\ kind' = [kind EXCEPT ![c] = k]
                         /\ stage' = [stage EXCEPT ![c] = "handshake"]
  BY DEF Construct
<1>1. TypeOK'
  BY <1>0 DEF ManagerInv, TypeOK, Stages, pushVars, callVars
<1>2. /\ \A d \in Conns \ {c} : /\ addr'[d] = addr[d] /\ kind'[d] = kind[d]
                                /\ stage'[d] = stage[d]
      /\ addr'[c] = a /\ stage'[c] = "handshake" /\ a # None
  BY <1>0 DEF ManagerInv, TypeOK
<1>3. AddrInv'
  BY <1>0, <1>2 DEF ManagerInv, AddrInv, Objects, TypeOK
<1>4. RegistryExact' /\ NoDeadReceiver'
  BY <1>2 DEF ManagerInv, RegistryExact, NoDeadReceiver, pushVars
<1>5. IdsInv'
  BY <1>2, SMTT(20) DEF ManagerInv, IdsInv, callVars, TypeOK
<1>6. OwedInv'
  BY <1>2 DEF ManagerInv, OwedInv, callVars, TypeOK
<1> QED
  BY <1>1, <1>3, <1>4, <1>5, <1>6 DEF ManagerInv

(* A connection that never becomes a session. *)
LEMMA RefuseKeeps ==
    ASSUME ManagerInv, NEW c \in Conns, NEW s \in {"refused", "full", "detect", "gone"},
           stage[c] \in {"new", "detect"}, stage' = [stage EXCEPT ![c] = s],
           listener' \in {None, listener}, listener' # c,
           UNCHANGED <<detects, kind, addr, m_sessions, pushVars, callVars>>
    PROVE  ManagerInv'
<1> USE ManagerAssumption
<1>1. TypeOK'
  BY DEF ManagerInv, TypeOK, Stages, pushVars, callVars
<1>2. /\ \A d \in Conns \ {c} : stage'[d] = stage[d]
      /\ stage'[c] = s
  BY DEF ManagerInv, TypeOK
<1>3. AddrInv'
  BY <1>2 DEF ManagerInv, AddrInv, Objects, TypeOK
<1>4. RegistryExact' /\ NoDeadReceiver'
  BY <1>2 DEF ManagerInv, RegistryExact, NoDeadReceiver, pushVars
<1>5. IdsInv'
  BY <1>2 DEF ManagerInv, IdsInv, callVars, TypeOK
<1>6. OwedInv'
  BY <1>2 DEF ManagerInv, OwedInv, callVars, TypeOK
<1> QED
  BY <1>1, <1>3, <1>4, <1>5, <1>6 DEF ManagerInv

(* add_session(): the new entry is under an address of its own. *)
LEMMA AddSessionKeeps ==
    ASSUME ManagerInv, NEW c \in Conns, AddSession(c) PROVE ManagerInv'
<1> USE ManagerAssumption
<1>0. /\ stage[c] = "handshake" /\ addr[c] \in Addrs /\ kind[c] \in Kinds
      /\ stage' = [stage EXCEPT ![c] = "open"]
      /\ m_sessions' = [m_sessions EXCEPT ![kind[c]][addr[c]] = c]
      /\ UNCHANGED <<detects, listener, kind, addr, pushVars, callVars>>
  BY DEF AddSession, ManagerInv, TypeOK, AddrInv, Objects
<1>1. TypeOK'
  BY <1>0 DEF ManagerInv, TypeOK, Stages, pushVars, callVars
<1>2. /\ \A d \in Conns \ {c} : stage'[d] = stage[d]
      /\ stage'[c] = "open"
      /\ \A k \in Kinds, a \in Addrs :
            m_sessions'[k][a] = IF k = kind[c] /\ a = addr[c] THEN c
                                ELSE m_sessions[k][a]
  BY <1>0 DEF ManagerInv, TypeOK
<1>3. AddrInv'
  BY <1>0, <1>2 DEF ManagerInv, AddrInv, Objects
<1>4. RegistryExact'
  <2>1. \A d \in Conns : addr[d] = addr[c] => d = c
    BY <1>0 DEF ManagerInv, AddrInv
  <2> QED
    BY <1>0, <1>2, <2>1 DEF ManagerInv, RegistryExact
<1>5. NoDeadReceiver'
  BY <1>0, <1>2 DEF ManagerInv, NoDeadReceiver, pushVars
<1>6. IdsInv'
  BY <1>0, <1>2 DEF ManagerInv, IdsInv, callVars, TypeOK
<1>7. OwedInv'
  <2>1. \A b \in Broadcasts : \A d \in owed[b] : d \in Conns \ {c}
    BY <1>0 DEF ManagerInv, OwedInv, TypeOK
  <2>2. \A b \in Broadcasts : \A d \in owed[b] : stage'[d] = stage[d]
    BY <1>2, <2>1
  <2> QED
    BY <1>0, <2>2 DEF ManagerInv, OwedInv, callVars
<1> QED
  BY <1>1, <1>3, <1>4, <1>5, <1>6, <1>7 DEF ManagerInv

(* A session on its way out, before or after it has left its map. *)
LEMMA LeaveKeeps ==
    ASSUME ManagerInv, NEW c \in Conns, HandshakeFails(c) \/ LastReference(c)
    PROVE  ManagerInv'
<1> USE ManagerAssumption
<1>0. PICK s \in {"removed", "dying"} :
        /\ stage' = [stage EXCEPT ![c] = s]
        /\ \/ stage[c] = "handshake" /\ s = "removed"
           \/ stage[c] = "open" /\ s = "dying" /\ holds[c] = {}
  BY DEF HandshakeFails, LastReference
<1>1. UNCHANGED <<detects, listener, kind, addr, m_sessions, pushVars, callVars>>
  BY DEF HandshakeFails, LastReference
<1>2. TypeOK'
  BY <1>0, <1>1 DEF ManagerInv, TypeOK, Stages, pushVars, callVars
<1>3. /\ \A d \in Conns \ {c} : stage'[d] = stage[d]
      /\ stage'[c] = s
  BY <1>0 DEF ManagerInv, TypeOK
<1>4. AddrInv'
  BY <1>0, <1>1, <1>3 DEF ManagerInv, AddrInv, Objects
<1>5. RegistryExact' /\ NoDeadReceiver'
  BY <1>0, <1>1, <1>3 DEF ManagerInv, RegistryExact, NoDeadReceiver, pushVars
<1>6. IdsInv'
  BY <1>0, <1>1, <1>3 DEF ManagerInv, IdsInv, callVars, TypeOK
<1>7. OwedInv'
  BY <1>0, <1>1, <1>3 DEF ManagerInv, OwedInv, callVars, TypeOK
<1> QED
  BY <1>2, <1>4, <1>5, <1>6, <1>7 DEF ManagerInv

(* remove_session(): the entry under the id is the session's own, because  *)
(* the memory is not given to another session before Destroyed.            *)
LEMMA RemoveSessionKeeps ==
    ASSUME ManagerInv, NEW c \in Conns, RemoveSession(c) PROVE ManagerInv'
<1> USE ManagerAssumption
<1>0. /\ stage[c] = "dying" /\ addr[c] \in Addrs /\ kind[c] \in Kinds
      /\ stage' = [stage EXCEPT ![c] = "removed"]
      /\ m_sessions' = [m_sessions EXCEPT ![kind[c]][addr[c]] = None]
      /\ UNCHANGED <<detects, listener, kind, addr, pushVars, callVars>>
  BY DEF RemoveSession, Unregister, ManagerInv, TypeOK, AddrInv, Objects
<1>1. TypeOK'
  BY <1>0 DEF ManagerInv, TypeOK, Stages, pushVars, callVars
<1>2. /\ \A d \in Conns \ {c} : stage'[d] = stage[d]
      /\ stage'[c] = "removed"
      /\ \A k \in Kinds, a \in Addrs :
            m_sessions'[k][a] = IF k = kind[c] /\ a = addr[c] THEN None
                                ELSE m_sessions[k][a]
  BY <1>0 DEF ManagerInv, TypeOK
<1>3. AddrInv'
  BY <1>0, <1>2 DEF ManagerInv, AddrInv, Objects
<1>4. RegistryExact'
  <2>1. \A d \in Conns : addr[d] = addr[c] => d = c
    BY <1>0 DEF ManagerInv, AddrInv
  <2> QED
    BY <1>0, <1>2, <2>1 DEF ManagerInv, RegistryExact
<1>5. NoDeadReceiver'
  BY <1>0, <1>2 DEF ManagerInv, NoDeadReceiver, pushVars
<1>6. IdsInv'
  BY <1>0, <1>2 DEF ManagerInv, IdsInv, callVars, TypeOK
<1>7. OwedInv'
  BY <1>0, <1>2 DEF ManagerInv, OwedInv, callVars, TypeOK
<1> QED
  BY <1>1, <1>3, <1>4, <1>5, <1>6, <1>7 DEF ManagerInv

LEMMA DestroyedKeeps ==
    ASSUME ManagerInv, NEW c \in Conns, Destroyed(c) PROVE ManagerInv'
<1> USE ManagerAssumption
<1>0. /\ stage[c] = "removed"
      /\ stage' = [stage EXCEPT ![c] = "gone"]
      /\ addr' = [addr EXCEPT ![c] = None]
      /\ UNCHANGED <<detects, listener, kind, m_sessions, pushVars, callVars>>
  BY DEF Destroyed
<1>1. TypeOK'
  BY <1>0 DEF ManagerInv, TypeOK, Stages, pushVars, callVars
<1>2. /\ \A d \in Conns \ {c} : stage'[d] = stage[d] /\ addr'[d] = addr[d]
      /\ stage'[c] = "gone" /\ addr'[c] = None
  BY <1>0 DEF ManagerInv, TypeOK
<1>3. AddrInv'
  BY <1>0, <1>2 DEF ManagerInv, AddrInv, Objects
<1>4. RegistryExact' /\ NoDeadReceiver'
  BY <1>0, <1>2 DEF ManagerInv, RegistryExact, NoDeadReceiver, pushVars
<1>5. IdsInv'
  BY <1>0, <1>2 DEF ManagerInv, IdsInv, callVars, TypeOK
<1>6. OwedInv'
  BY <1>0, <1>2 DEF ManagerInv, OwedInv, callVars, TypeOK
<1> QED
  BY <1>1, <1>3, <1>4, <1>5, <1>6 DEF ManagerInv

(* The listener. *)
LEMMA ListenerKeeps ==
    ASSUME ManagerInv, OnAcceptEnd \/ \E c \in Conns : OnAccept(c) \/ OnDetect(c)
    PROVE  ManagerInv'
<1> USE ManagerAssumption
<1>1. CASE OnAcceptEnd
  <2>1. /\ listener \in Conns /\ stage[listener] = "new" /\ listener' = None
        /\ listener' # listener
        /\ UNCHANGED <<detects, m_sessions, pushVars, callVars>>
    BY <1>1 DEF OnAcceptEnd, ManagerInv, TypeOK, AddrInv
  <2>2. CASE Construct(listener, "plain")
    BY <2>1, <2>2, ConstructKeeps DEF Kinds
  <2>3. ASSUME NEW s \in {"full", "detect"},
               stage' = [stage EXCEPT ![listener] = s], UNCHANGED <<kind, addr>>
        PROVE  ManagerInv'
    BY <2>1, <2>3, RefuseKeeps
  <2> QED
    BY <1>1, <2>2, <2>3 DEF OnAcceptEnd
<1>2. ASSUME NEW c \in Conns, OnAccept(c) PROVE ManagerInv'
  <2>1. CASE listener' = None /\ stage' = [stage EXCEPT ![c] = "refused"]
    BY <1>2, <2>1, RefuseKeeps DEF OnAccept
  <2>2. CASE listener' = c /\ stage' = stage
    <3>1. stage[c] = "new" /\ UNCHANGED <<detects, kind, addr, m_sessions, pushVars, callVars>>
      BY <1>2 DEF OnAccept
    <3>2. TypeOK' /\ AddrInv'
      BY <2>2, <3>1 DEF ManagerInv, TypeOK, AddrInv, Objects, pushVars, callVars
    <3>3. RegistryExact' /\ NoDeadReceiver' /\ IdsInv' /\ OwedInv'
      BY <2>2, <3>1 DEF ManagerInv, RegistryExact, NoDeadReceiver, IdsInv,
                        OwedInv, pushVars, callVars
    <3> QED
      BY <3>2, <3>3 DEF ManagerInv
  <2> QED
    BY <1>2, <2>1, <2>2 DEF OnAccept
<1>3. ASSUME NEW c \in Conns, OnDetect(c) PROVE ManagerInv'
  <2>1. /\ stage[c] = "detect" /\ listener' = listener /\ listener' # c
        /\ UNCHANGED <<detects, m_sessions, pushVars, callVars>>
    BY <1>3 DEF OnDetect, ManagerInv, AddrInv
  <2>2. ASSUME NEW k \in Mode, Construct(c, k) PROVE ManagerInv'
    BY <2>1, <2>2, ConstructKeeps DEF ManagerAssumption
  <2>3. CASE stage' = [stage EXCEPT ![c] = "gone"] /\ UNCHANGED <<kind, addr>>
    BY <2>1, <2>3, RefuseKeeps
  <2> QED
    BY <1>3, <2>2, <2>3 DEF OnDetect
<1> QED
  BY <1>1, <1>2, <1>3

-----------------------------------------------------------------------------
(* Broadcasts.  They leave the sessions alone. *)

LEMMA SessionFrame ==
    ASSUME ManagerInv, UNCHANGED sessionVars
    PROVE  AddrInv' /\ RegistryExact'
BY DEF ManagerInv, sessionVars, AddrInv, RegistryExact, Objects

LEMMA ReleaseKeeps ==
    ASSUME ManagerInv, NEW c \in Conns, NEW b \in Broadcasts, Release(c, b)
    PROVE  ManagerInv'
<1>0. /\ UNCHANGED <<sessionVars, callVars>>
      /\ holds' = [holds EXCEPT ![c] = holds[c] \ {b}]
      /\ push' \in SUBSET Broadcasts /\ m_msg_queued' \in Int
  BY DEF Release, DropPush, ManagerInv, TypeOK
<1>1. TypeOK'
  BY <1>0 DEF ManagerInv, TypeOK, sessionVars, callVars
<1>2. NoDeadReceiver'
  BY <1>0 DEF ManagerInv, NoDeadReceiver, TypeOK, sessionVars
<1>3. IdsInv' /\ OwedInv'
  BY <1>0 DEF ManagerInv, IdsInv, OwedInv, sessionVars, callVars
<1> QED
  BY <1>0, <1>1, <1>2, <1>3, SessionFrame DEF ManagerInv

(* get_session_ids(): the ids are those of sessions in the maps. *)
LEMMA CollectKeeps ==
    ASSUME ManagerInv, NEW b \in Broadcasts, Collect(b) PROVE ManagerInv'
<1> USE ManagerAssumption
<1>0. /\ pc[b] = "idle" /\ pc' = [pc EXCEPT ![b] = "start"]
      /\ UNCHANGED <<sessionVars, pushVars, at, tmp, owed>>
  BY DEF Collect
<1>1. PICK I \in SUBSET Addrs, M \in SUBSET Conns :
        /\ ids' = [ids EXCEPT ![b] = I] /\ meant' = [meant EXCEPT ![b] = M]
        /\ \/ I = Addrs
           \/ \A c \in M : stage[c] \in {"open", "dying"} /\ addr[c] \in I
  <2>1. CASE /\ ids' = [ids EXCEPT ![b] = Addrs]
             /\ meant' = [meant EXCEPT ![b] = Conns]
    BY <2>1
  <2>2. CASE /\ ids' = [ids EXCEPT ![b] = {a \in Addrs : \E k \in Kinds :
                                              m_sessions[k][a] # None}]
             /\ meant' = [meant EXCEPT ![b] = UNION {Registered(k) : k \in Kinds}]
    <3> DEFINE I == {a \in Addrs : \E k \in Kinds : m_sessions[k][a] # None}
               M == UNION {Registered(k) : k \in Kinds}
    <3>1. ASSUME NEW c \in M
          PROVE  c \in Conns /\ stage[c] \in {"open", "dying"} /\ addr[c] \in I
      <4>1. PICK k \in Kinds : c \in Registered(k)
        OBVIOUS
      <4>2. PICK a \in Addrs : m_sessions[k][a] = c /\ c # None
        BY <4>1 DEF Registered
      <4>3. c \in Conns
        BY <4>2 DEF ManagerInv, TypeOK
      <4>4. stage[c] \in {"open", "dying"} /\ addr[c] = a
        BY <4>2, <4>3 DEF ManagerInv, RegistryExact
      <4>5. addr[c] \in I
        BY <4>2, <4>4
      <4> QED
        BY <4>3, <4>4, <4>5
    <3>2. I \in SUBSET Addrs /\ M \in SUBSET Conns
      BY <3>1
    <3> HIDE DEF I, M
    <3>3. ids' = [ids EXCEPT ![b] = I] /\ meant' = [meant EXCEPT ![b] = M]
      BY <2>2 DEF I, M
    <3> QED
      BY <3>1, <3>2, <3>3
  <2> QED
    BY <2>1, <2>2 DEF Collect
<1>2. TypeOK'
  BY <1>0, <1>1 DEF ManagerInv, TypeOK, CallPc, sessionVars, pushVars
<1>3. /\ pc'[b] = "start" /\ ids'[b] = I /\ meant'[b] = M
      /\ \A d \in Broadcasts \ {b} : /\ pc'[d] = pc[d] /\ ids'[d] = ids[d]
                                     /\ meant'[d] = meant[d]
  BY <1>0, <1>1 DEF ManagerInv, TypeOK
<1>4. NoDeadReceiver'
  BY <1>0 DEF ManagerInv, NoDeadReceiver, sessionVars, pushVars
<1>5. IdsInv'
  BY <1>0, <1>1, <1>3 DEF ManagerInv, IdsInv, sessionVars
<1>6. OwedInv'
  BY <1>0, <1>3 DEF ManagerInv, OwedInv, sessionVars
<1> QED
  BY <1>0, <1>2, <1>4, <1>5, <1>6, SessionFrame DEF ManagerInv

(* The steps of broadcast() that change neither sessions, nor what they    *)
(* hold, nor the ids: OwedInv is what is left to show.                     *)
LEMMA CallKeeps ==
    ASSUME ManagerInv, UNCHANGED <<sessionVars, holds, ids, meant>>, OwedInv',
           push' \in SUBSET Broadcasts, m_msg_queued' \in Int,
           pc' \in [Broadcasts -> CallPc], at' \in [Broadcasts -> Kinds],
           tmp' \in [Broadcasts -> SUBSET Conns],
           owed' \in [Broadcasts -> SUBSET Conns]
    PROVE  ManagerInv'
<1>1. TypeOK'
  BY DEF ManagerInv, TypeOK, sessionVars
<1>2. NoDeadReceiver' /\ IdsInv'
  BY DEF ManagerInv, NoDeadReceiver, IdsInv, sessionVars
<1> QED
  BY <1>1, <1>2, SessionFrame DEF ManagerInv

LEMMA BeginKeeps ==
    ASSUME ManagerInv, NEW b \in Broadcasts,
           BroadcastFull(b) \/ BroadcastCount(b) \/ BroadcastNobody(b)
    PROVE  ManagerInv'
<1>1. /\ UNCHANGED <<sessionVars, pushVars, at, ids, tmp, meant>>
      /\ pc' = [pc EXCEPT ![b] = pc'[b]] /\ pc'[b] \in {"dropped", "count", "done"}
  BY DEF BroadcastFull, BroadcastCount, BroadcastNobody, ManagerInv, TypeOK
<1>2. /\ owed' \in [Broadcasts -> SUBSET Conns]
      /\ \A d \in Broadcasts \ {b} : owed'[d] = owed[d] /\ pc'[d] = pc[d]
  BY <1>1 DEF BroadcastFull, BroadcastCount, BroadcastNobody, ManagerInv, TypeOK, Open
<1>3. OwedInv'
  <2>1. CASE BroadcastFull(b)
    BY <1>1, <1>2, <2>1 DEF BroadcastFull, ManagerInv, TypeOK, OwedInv, sessionVars
  <2>2. CASE BroadcastCount(b)
    <3>1. /\ owed'[b] = Open \cap meant[b] /\ pc[b] = "start" /\ pc'[b] = "count"
          /\ at[b] = "plain"
      BY <2>2 DEF BroadcastCount, ManagerInv, TypeOK, OwedInv
    <3> QED
      BY <1>1, <1>2, <3>1 DEF ManagerInv, OwedInv, sessionVars, Open
  <2>3. CASE BroadcastNobody(b)
    <3>1. Open = {} /\ owed' = owed /\ pc'[b] = "done" /\ pc[b] = "count"
      BY <2>3, NobodyMeansNone DEF BroadcastNobody, ManagerInv, TypeOK
    <3>2. \A c \in Conns : stage[c] # "open"
      BY <3>1 DEF Open
    <3>3. owed[b] \subseteq Conns
      BY DEF ManagerInv, TypeOK
    <3> QED
      BY <1>1, <1>2, <3>1, <3>2, <3>3 DEF ManagerInv, OwedInv, sessionVars
  <2> QED
    BY <2>1, <2>2, <2>3
<1>4. pc' \in [Broadcasts -> CallPc]
  BY <1>1 DEF ManagerInv, TypeOK, CallPc
<1> QED
  BY <1>1, <1>2, <1>3, <1>4, CallKeeps DEF ManagerInv, TypeOK, pushVars

(* The message is made and counted. *)
LEMMA MakeKeeps ==
    ASSUME ManagerInv, NEW b \in Broadcasts, BroadcastMake(b) \/ BroadcastQueue(b)
    PROVE  ManagerInv'
<1>1. /\ UNCHANGED <<sessionVars, holds, at, ids, tmp, meant, owed>>
      /\ pc[b] \in {"count", "queue"} /\ pc'[b] \in {"queue", "copy"}
      /\ pc' = [pc EXCEPT ![b] = pc'[b]]
      /\ push' \in SUBSET Broadcasts /\ m_msg_queued' \in Int
  BY DEF BroadcastMake, BroadcastQueue, ManagerInv, TypeOK
<1>2. /\ pc' \in [Broadcasts -> CallPc]
      /\ \A d \in Broadcasts \ {b} : pc'[d] = pc[d]
  BY <1>1 DEF ManagerInv, TypeOK, CallPc
<1>3. OwedInv'
  BY <1>1, <1>2 DEF ManagerInv, OwedInv, sessionVars
<1> QED
  BY <1>1, <1>2, <1>3, CallKeeps DEF ManagerInv, TypeOK

(* An open session of the map that broadcast() owes the message is among   *)
(* the copied ones: its entry is in the map under one of the ids.          *)
LEMMA CopyKeeps ==
    ASSUME ManagerInv, NEW b \in Broadcasts, BroadcastCopy(b) PROVE ManagerInv'
<1> USE ManagerAssumption
<1> DEFINE T == {m_sessions[at[b]][a] : a \in ids[b]} \ {None}
<1>1. /\ UNCHANGED <<sessionVars, pushVars, at, ids, meant, owed>>
      /\ pc[b] = "copy" /\ pc' = [pc EXCEPT ![b] = "send"]
      /\ tmp' = [tmp EXCEPT ![b] = T]
  BY DEF BroadcastCopy
<1>2. T \in SUBSET Conns
  BY DEF ManagerInv, TypeOK
<1>3. ASSUME NEW c \in owed[b], stage[c] = "open", kind[c] = at[b] PROVE c \in T
  <2>1. c \in Conns /\ c \in meant[b] /\ addr[c] \in Addrs /\ at[b] \in Kinds
    BY <1>3 DEF ManagerInv, TypeOK, OwedInv, AddrInv, Objects
  <2>2. addr[c] \in ids[b]
    BY <1>3, <2>1 DEF ManagerInv, IdsInv
  <2>3. m_sessions[at[b]][addr[c]] = c
    BY <1>3, <2>1 DEF ManagerInv, RegistryExact
  <2> QED
    BY <2>1, <2>2, <2>3 DEF ManagerAssumption
<1>4. \A c \in owed[b] : c \in Conns /\ kind[c] \in {"plain", "ssl"} /\ at[b] \in {"plain", "ssl"}
  BY DEF ManagerInv, TypeOK, Kinds
<1> HIDE DEF T
<1>5. /\ pc' \in [Broadcasts -> CallPc] /\ tmp' \in [Broadcasts -> SUBSET Conns]
      /\ pc'[b] = "send" /\ tmp'[b] = T
      /\ \A d \in Broadcasts \ {b} : pc'[d] = pc[d] /\ tmp'[d] = tmp[d]
  BY <1>1, <1>2 DEF ManagerInv, TypeOK, CallPc
<1>6. OwedInv'
  BY <1>1, <1>3, <1>4, <1>5 DEF ManagerInv, OwedInv, sessionVars
<1> QED
  BY <1>1, <1>5, <1>6, CallKeeps DEF ManagerInv, TypeOK, pushVars

(* A session that lock() does not find is not open any more. *)
LEMMA SendKeeps ==
    ASSUME ManagerInv, NEW b \in Broadcasts, NEW c \in Conns, BroadcastSend(b, c)
    PROVE  ManagerInv'
<1>1. /\ UNCHANGED <<sessionVars, m_msg_queued, push, pc, at, ids, meant>>
      /\ pc[b] = "send" /\ tmp' = [tmp EXCEPT ![b] = tmp[b] \ {c}]
  BY DEF BroadcastSend
<1>2. \/ /\ stage[c] = "open"
         /\ holds' = [holds EXCEPT ![c] = holds[c] \cup {b}]
         /\ owed' = [owed EXCEPT ![b] = owed[b] \ {c}]
      \/ stage[c] # "open" /\ UNCHANGED <<holds, owed>>
  BY DEF BroadcastSend, Lock
<1>3. TypeOK'
  <2>1. /\ holds' \in [Conns -> SUBSET Broadcasts]
        /\ owed' \in [Broadcasts -> SUBSET Conns]
    <3>1. CASE /\ holds' = [holds EXCEPT ![c] = holds[c] \cup {b}]
               /\ owed' = [owed EXCEPT ![b] = owed[b] \ {c}]
      BY <3>1 DEF ManagerInv, TypeOK
    <3>2. CASE UNCHANGED <<holds, owed>>
      BY <3>2 DEF ManagerInv, TypeOK
    <3> QED
      BY <1>2, <3>1, <3>2
  <2>2. tmp' \in [Broadcasts -> SUBSET Conns]
    BY <1>1 DEF ManagerInv, TypeOK
  <2> QED
    BY <1>1, <2>1, <2>2 DEF ManagerInv, TypeOK, sessionVars
<1>4. NoDeadReceiver'
  BY <1>1, <1>2 DEF ManagerInv, TypeOK, NoDeadReceiver, sessionVars
<1>5. IdsInv'
  BY <1>1 DEF ManagerInv, IdsInv, sessionVars
<1>6. OwedInv'
  <2>1. \A d \in Broadcasts \ {b} : owed'[d] = owed[d] /\ tmp'[d] = tmp[d]
    BY <1>1, <1>2 DEF ManagerInv, TypeOK
  <2>2. tmp'[b] = tmp[b] \ {c} /\ owed'[b] \subseteq owed[b]
    BY <1>1, <1>2 DEF ManagerInv, TypeOK
  <2>3. stage[c] = "open" => c \notin owed'[b]
    BY <1>2 DEF ManagerInv, TypeOK
  <2> QED
    BY <1>1, <2>1, <2>2, <2>3 DEF ManagerInv, OwedInv, sessionVars
<1> QED
  BY <1>1, <1>3, <1>4, <1>5, <1>6, SessionFrame DEF ManagerInv

(* With nothing left to send to, the sessions still owed are in the next   *)
(* map, and after the last one there are none.                             *)
LEMMA EndKeeps ==
    ASSUME ManagerInv, NEW b \in Broadcasts, BroadcastNextMap(b) \/ BroadcastEnd(b)
    PROVE  ManagerInv'
<1>1. /\ UNCHANGED <<sessionVars, holds, ids, tmp, meant, owed>>
      /\ pc[b] = "send" /\ tmp[b] = {}
      /\ pc' = [pc EXCEPT ![b] = pc'[b]] /\ at' = [at EXCEPT ![b] = "ssl"]
      /\ \/ at[b] = "plain" /\ pc'[b] = "copy"
         \/ at[b] = "ssl" /\ pc'[b] = "done"
  BY DEF BroadcastNextMap, BroadcastEnd, ManagerInv, TypeOK, pushVars
<1>2. push' \in SUBSET Broadcasts /\ m_msg_queued' \in Int
  BY DEF BroadcastNextMap, BroadcastEnd, DropPush, ManagerInv, TypeOK, pushVars
<1>3. /\ pc' \in [Broadcasts -> CallPc] /\ at' \in [Broadcasts -> Kinds]
      /\ at'[b] = "ssl"
      /\ \A d \in Broadcasts \ {b} : pc'[d] = pc[d] /\ at'[d] = at[d]
  BY <1>1 DEF ManagerInv, TypeOK, CallPc, Kinds
<1>4. OwedInv'
  BY <1>1, <1>3 DEF ManagerInv, OwedInv, sessionVars
<1> QED
  BY <1>1, <1>2, <1>3, <1>4, CallKeeps DEF ManagerInv, TypeOK

-----------------------------------------------------------------------------
LEMMA StepInv == ManagerInv /\ [Next]_vars => ManagerInv'
<1> SUFFICES ASSUME ManagerInv, [Next]_vars PROVE ManagerInv'
  OBVIOUS
<1>1. CASE OnAcceptEnd
  BY <1>1, ListenerKeeps
<1>2. ASSUME NEW c \in Conns, SessionNext(c) PROVE ManagerInv'
  BY <1>2, ListenerKeeps, AddSessionKeeps, LeaveKeeps, RemoveSessionKeeps,
     DestroyedKeeps DEF SessionNext
<1>3. ASSUME NEW b \in Broadcasts, Collect(b) \/ BroadcastNext(b) PROVE ManagerInv'
  BY <1>3, CollectKeeps, BeginKeeps, MakeKeeps, CopyKeeps, SendKeeps, EndKeeps
     DEF BroadcastNext
<1>4. ASSUME NEW c \in Conns, NEW b \in Broadcasts, Release(c, b) PROVE ManagerInv'
  BY <1>4, ReleaseKeeps
<1>5. CASE UNCHANGED vars
  <2>1. UNCHANGED <<sessionVars, pushVars, callVars>>
    BY <1>5 DEF vars
  <2>2. OwedInv'
    BY <2>1 DEF ManagerInv, OwedInv, sessionVars, callVars
  <2> QED
    BY <2>1, <2>2, CallKeeps DEF ManagerInv, TypeOK, pushVars, callVars
<1> QED
  BY <1>1, <1>2, <1>3, <1>4, <1>5 DEF Next

(* In every state sessions have an address of their own, the maps are      *)
(* exact, and what a broadcast owes is still ahead of it: the inductive    *)
(* invariant of session_manager, the listener and broadcast().             *)
THEOREM ManagerInvHolds == Spec => []ManagerInv
BY InitInv, StepInv, PTL DEF Spec

(* add_session() and remove_session() keep the maps exact although ids are *)
(* addresses that are used again.                                          *)
THEOREM RegistryExactHolds == Spec => []RegistryExact
<1>1. ManagerInv => RegistryExact
  BY DEF ManagerInv
<1> QED
  BY <1>1, ManagerInvHolds, PTL

(* The weak pointers of broadcast() never give a message to a session whose *)
(* destructor has begun.                                                   *)
THEOREM NoDeadReceiverHolds == Spec => []NoDeadReceiver
<1>1. ManagerInv => NoDeadReceiver
  BY DEF ManagerInv
<1> QED
  BY <1>1, ManagerInvHolds, PTL

(* A broadcast() that returns has sent to every session it was meant for   *)
(* that was open when it began and still is.                               *)
THEOREM BroadcastReachesHolds == Spec => []BroadcastReaches
<1>1. ManagerInv => BroadcastReaches
  <2> SUFFICES ASSUME ManagerInv, NEW b \in Broadcasts, pc[b] = "done",
                      NEW c \in owed[b] \cap Open
               PROVE  FALSE
    BY DEF BroadcastReaches
  <2> QED
    BY DEF ManagerInv, OwedInv, Open
<1> QED
  BY <1>1, ManagerInvHolds, PTL

-----------------------------------------------------------------------------
(* Messages: who owns them, and how many there are. *)

LEMMA CountedFinite ==
    ASSUME TypeOK
    PROVE  IsFiniteSet(Counted) /\ Cardinality(Counted) \in Nat
<1>1. Counted \in SUBSET Broadcasts
  BY DEF TypeOK, Counted
<1> QED
  BY <1>1, ManagerAssumption, FS_Subset, FS_CardinalityType

(* A broadcast that goes on without touching messages: nobody has one of   *)
(* its own yet, or it keeps the one it made.                               *)
LEMMA PcKeepsMessages ==
    ASSUME ManagerInv, MessageInv, NEW b \in Broadcasts, UNCHANGED pushVars,
           NEW x, pc' = [pc EXCEPT ![b] = x],
           \/ pc[b] \in {"idle", "start", "count"}
              /\ x \in {"start", "count", "done", "dropped"}
           \/ pc[b] \in {"copy", "send"} /\ x \in {"copy", "send"}
    PROVE  MessageInv'
<1>1. pc'[b] = x /\ \A d \in Broadcasts \ {b} : pc'[d] = pc[d]
  BY DEF ManagerInv, TypeOK
<1>2. push \subseteq Broadcasts /\ \A c \in Conns : holds[c] \subseteq Broadcasts
  BY DEF ManagerInv, TypeOK
<1>3. pc[b] \in {"idle", "start", "count"} => b \notin push /\ \A c \in Conns : b \notin holds[c]
  BY DEF MessageInv, PushInv, SentInv
<1>4. PushInv' /\ SentInv'
  BY <1>1, <1>2, <1>3 DEF MessageInv, PushInv, SentInv, pushVars
<1>5. Counted' = Counted
  BY <1>1, <1>2, <1>3 DEF Counted, pushVars
<1> QED
  BY <1>4, <1>5 DEF MessageInv, MessagesCounted, pushVars

(* data_push is made ... *)
LEMMA MakeMessage ==
    ASSUME ManagerInv, MessageInv, NEW b \in Broadcasts, BroadcastMake(b)
    PROVE  MessageInv'
<1>1. /\ pc[b] = "count" /\ pc'[b] = "queue" /\ push' = push \cup {b}
      /\ UNCHANGED <<holds, m_msg_queued>>
      /\ \A d \in Broadcasts \ {b} : pc'[d] = pc[d]
  BY DEF BroadcastMake, ManagerInv, TypeOK
<1>2. push \subseteq Broadcasts /\ \A c \in Conns : holds[c] \subseteq Broadcasts
  BY DEF ManagerInv, TypeOK
<1>3. b \notin push /\ \A c \in Conns : b \notin holds[c]
  BY <1>1 DEF MessageInv, PushInv, SentInv
<1>4. PushInv' /\ SentInv'
  BY <1>1, <1>2, <1>3 DEF MessageInv, PushInv, SentInv
<1>5. Counted' = Counted
  BY <1>1, <1>2, <1>3 DEF Counted
<1> QED
  BY <1>1, <1>4, <1>5 DEF MessageInv, MessagesCounted

(* ... and counted. *)
LEMMA CountMessage ==
    ASSUME ManagerInv, MessageInv, NEW b \in Broadcasts, BroadcastQueue(b)
    PROVE  MessageInv'
<1>1. /\ pc[b] = "queue" /\ pc'[b] = "copy" /\ m_msg_queued' = m_msg_queued + 1
      /\ UNCHANGED <<holds, push>>
      /\ \A d \in Broadcasts \ {b} : pc'[d] = pc[d]
  BY DEF BroadcastQueue, ManagerInv, TypeOK
<1>2. push \subseteq Broadcasts /\ \A c \in Conns : holds[c] \subseteq Broadcasts
  BY DEF ManagerInv, TypeOK
<1>3. PushInv' /\ SentInv'
  BY <1>1, <1>2 DEF MessageInv, PushInv, SentInv
<1>4. b \in push /\ b \notin Counted /\ Counted' = Counted \cup {b}
  BY <1>1, <1>2 DEF MessageInv, PushInv, Counted
<1>5. Cardinality(Counted') = Cardinality(Counted) + 1
  BY <1>4, CountedFinite, FS_AddElement DEF ManagerInv
<1> QED
  BY <1>1, <1>3, <1>5 DEF MessageInv, MessagesCounted

(* A session gets it while broadcast() has it. *)
LEMMA SendMessage ==
    ASSUME ManagerInv, MessageInv, NEW b \in Broadcasts, NEW c \in Conns,
           BroadcastSend(b, c)
    PROVE  MessageInv'
<1>1. /\ pc[b] = "send" /\ UNCHANGED <<pc, push, m_msg_queued>>
      /\ \A d \in Conns : holds'[d] = holds[d] \/ holds'[d] = holds[d] \cup {b}
      /\ \A d \in Conns : holds[d] \subseteq Broadcasts
  BY DEF BroadcastSend, ManagerInv, TypeOK
<1>2. PushInv' /\ SentInv'
  BY <1>1 DEF MessageInv, PushInv, SentInv
<1>3. Counted' = Counted
  BY <1>1 DEF Counted
<1> QED
  BY <1>1, <1>2, <1>3 DEF MessageInv, MessagesCounted

(* The last owner lets go: the deleter counts the message off, once. *)
LEMMA DropMessage ==
    ASSUME ManagerInv, MessageInv, NEW b \in Broadcasts, b \in push,
           pc[b] # "queue", pc'[b] # "queue",
           \A d \in Broadcasts \ {b} : pc'[d] = pc[d],
           NEW others, DropPush(b, others)
    PROVE  MessagesCounted'
<1>0. push \subseteq Broadcasts
  BY DEF ManagerInv, TypeOK
<1>1. CASE others = {}
  <2>1. push' = push \ {b} /\ m_msg_queued' = m_msg_queued - 1
    BY <1>1 DEF DropPush
  <2>2. b \in Counted /\ Counted' = Counted \ {b}
    BY <1>0, <2>1 DEF Counted
  <2>3. Cardinality(Counted') = Cardinality(Counted) - 1
    BY <2>2, CountedFinite, FS_RemoveElement DEF ManagerInv
  <2> QED
    BY <2>1, <2>3 DEF MessageInv, MessagesCounted
<1>2. CASE others # {}
  <2>1. UNCHANGED <<push, m_msg_queued>>
    BY <1>2 DEF DropPush
  <2>2. Counted' = Counted
    BY <1>0, <2>1 DEF Counted
  <2> QED
    BY <2>1, <2>2 DEF MessageInv, MessagesCounted
<1> QED
  BY <1>1, <1>2

(* broadcast() lets go of the message, first or last. *)
LEMMA EndMessage ==
    ASSUME ManagerInv, MessageInv, NEW b \in Broadcasts, BroadcastEnd(b)
    PROVE  MessageInv'
<1>1. /\ pc[b] = "send" /\ pc'[b] = "done" /\ DropPush(b, Holders(b))
      /\ holds' = holds
      /\ \A d \in Broadcasts \ {b} : pc'[d] = pc[d]
      /\ \A c \in Conns : holds[c] \subseteq Broadcasts
  BY DEF BroadcastEnd, ManagerInv, TypeOK
<1>2. b \in push
  BY <1>1 DEF MessageInv, PushInv
<1>3. MessagesCounted'
  BY <1>1, <1>2, DropMessage
<1>4. Holders(b) = {} <=> \A c \in Conns : b \notin holds[c]
  BY DEF Holders
<1>5. push' = IF Holders(b) = {} THEN push \ {b} ELSE push
  BY <1>1 DEF DropPush
<1>6. PushInv' /\ SentInv'
  BY <1>1, <1>2, <1>4, <1>5 DEF MessageInv, PushInv, SentInv
<1> QED
  BY <1>3, <1>6 DEF MessageInv

(* A session lets go of it. *)
LEMMA ReleaseMessage ==
    ASSUME ManagerInv, MessageInv, NEW c \in Conns, NEW b \in Broadcasts,
           Release(c, b)
    PROVE  MessageInv'
<1>1. /\ b \in holds[c] /\ pc' = pc
      /\ holds'[c] = holds[c] \ {b}
      /\ \A d \in Conns \ {c} : holds'[d] = holds[d]
      /\ \A d \in Conns : holds[d] \subseteq Broadcasts
  BY DEF Release, callVars, ManagerInv, TypeOK
<1>2. b \in push /\ pc[b] \in {"copy", "send", "done"}
  BY <1>1 DEF MessageInv, PushInv, SentInv
<1>3. SentInv'
  BY <1>1 DEF MessageInv, SentInv
<1>4. CASE pc[b] = "done"
  <2>1. DropPush(b, Holders(b) \ {c})
    BY <1>4 DEF Release
  <2>2. MessagesCounted'
    BY <1>1, <1>2, <1>4, <2>1, DropMessage
  <2>3. push' = IF Holders(b) \ {c} = {} THEN push \ {b} ELSE push
    BY <2>1 DEF DropPush
  <2>4. Holders(b) \ {c} = {} <=> \A d \in Conns : b \notin holds'[d]
    BY <1>1 DEF Holders
  <2>5. PushInv'
    BY <1>1, <1>2, <1>4, <2>3, <2>4 DEF MessageInv, PushInv
  <2> QED
    BY <1>3, <2>2, <2>5 DEF MessageInv
<1>5. CASE pc[b] # "done"
  <2>1. UNCHANGED <<push, m_msg_queued>>
    BY <1>5 DEF Release
  <2>2. PushInv'
    BY <1>1, <1>2, <1>5, <2>1 DEF MessageInv, PushInv
  <2>3. Counted' = Counted
    BY <1>1, <2>1 DEF Counted
  <2> QED
    BY <1>3, <2>1, <2>2, <2>3 DEF MessageInv, MessagesCounted
<1> QED
  BY <1>4, <1>5

LEMMA MessageStep ==
    ASSUME ManagerInv, MessageInv, [Next]_vars PROVE MessageInv'
<1>1. ASSUME UNCHANGED <<pushVars, callVars>> PROVE MessageInv'
  BY <1>1 DEF MessageInv, PushInv, SentInv, MessagesCounted, Counted, pushVars,
              callVars
<1>2. CASE OnAcceptEnd \/ \E c \in Conns : SessionNext(c)
  BY <1>1, <1>2 DEF OnAcceptEnd, SessionNext, OnAccept, OnDetect, AddSession,
     HandshakeFails, LastReference, RemoveSession, Destroyed
<1>3. ASSUME NEW b \in Broadcasts, Collect(b) \/ BroadcastNext(b) PROVE MessageInv'
  <2>1. CASE \/ Collect(b) \/ BroadcastFull(b) \/ BroadcastCount(b)
             \/ BroadcastNobody(b) \/ BroadcastCopy(b) \/ BroadcastNextMap(b)
    BY <2>1, PcKeepsMessages DEF Collect, BroadcastFull, BroadcastCount,
       BroadcastNobody, BroadcastCopy, BroadcastNextMap
  <2> QED
    BY <1>3, <2>1, MakeMessage, CountMessage, SendMessage, EndMessage
       DEF BroadcastNext
<1>4. ASSUME NEW c \in Conns, NEW b \in Broadcasts, Release(c, b) PROVE MessageInv'
  BY <1>4, ReleaseMessage
<1>5. CASE UNCHANGED vars
  BY <1>1, <1>5 DEF vars
<1> QED
  BY <1>2, <1>3, <1>4, <1>5 DEF Next

LEMMA MessageInit == Init => MessageInv
<1> SUFFICES ASSUME Init PROVE MessageInv
  OBVIOUS
<1>1. PushInv /\ SentInv
  BY DEF Init, PushInv, SentInv
<1>2. Counted = {}
  BY DEF Init, Counted
<1> QED
  BY <1>1, <1>2, FS_EmptySet DEF MessageInv, MessagesCounted, Init

LEMMA MessageInvHolds == Spec => []MessageInv
BY MessageInit, MessageStep, ManagerInvHolds, PTL DEF Spec

(* m_msg_queued is exact, whichever thread drops the last reference.       *)
THEOREM MessagesCountedHolds == Spec => []MessagesCounted
<1>1. MessageInv => MessagesCounted
  BY DEF MessageInv
<1> QED
  BY <1>1, MessageInvHolds, PTL

-----------------------------------------------------------------------------
(* The limit of sessions. *)

LEMMA ObjectsFinite ==
    ASSUME TypeOK
    PROVE  IsFiniteSet(Objects) /\ Cardinality(Objects) \in Nat
<1>1. Objects \in SUBSET Conns
  BY DEF Objects
<1> QED
  BY <1>1, ManagerAssumption, FS_Subset, FS_CardinalityType

(* is_full() counts its own temporary and at least the sessions.           *)
LEMMA NotFullHasRoom ==
    ASSUME TypeOK, listener # None, ~IsFull
    PROVE  Cardinality(Objects) + 1 <= MaxSessions
<1> DEFINE C == {d \in Broadcasts : pc[d] = "count"}
<1>1. push \in SUBSET Broadcasts /\ C \in SUBSET Broadcasts
  BY DEF TypeOK
<1>2. IsFiniteSet(push) /\ IsFiniteSet(C)
  BY <1>1, FS_Subset, ManagerAssumption
<1>3. Cardinality(push) \in Nat /\ Cardinality(C) \in Nat
  BY <1>2, FS_CardinalityType
<1>4. Cardinality(Objects) + Cardinality(push) + (Cardinality(C) + 1) - 1 < MaxSessions
  <2>1. Connections = Cardinality(Objects) + Cardinality(push) + (Cardinality(C) + 1) - 1
    BY DEF Connections, Counting
  <2>2. Connections \in Int
    BY <1>3, <2>1, ObjectsFinite
  <2> QED
    BY <2>1, <2>2, ManagerAssumption DEF IsFull
<1> QED
  BY <1>3, <1>4, ObjectsFinite, ManagerAssumption

LEMMA LimitStep ==
    ASSUME ManagerInv, LimitInv, [Next]_vars PROVE LimitInv'
<1> USE ManagerAssumption
<1>0. detects' = detects
  BY DEF Next, OnAcceptEnd, SessionNext, OnAccept, OnDetect, AddSession,
     HandshakeFails, LastReference, RemoveSession, Destroyed, Collect,
     BroadcastNext, BroadcastFull, BroadcastCount, BroadcastNobody,
     BroadcastMake, BroadcastQueue, BroadcastCopy, BroadcastSend,
     BroadcastNextMap, BroadcastEnd, Release, vars, sessionVars
<1>1. ASSUME Objects' \subseteq Objects,
             \A c \in Conns : stage'[c] = "detect" => detects
      PROVE  LimitInv'
  <2>1. Cardinality(Objects') \in Nat /\ Cardinality(Objects') <= Cardinality(Objects)
    BY <1>1, ObjectsFinite, FS_Subset, FS_CardinalityType DEF ManagerInv
  <2> QED
    BY <1>0, <1>1, <2>1, ObjectsFinite DEF ManagerInv, LimitInv, SessionLimit
<1>2. CASE OnAcceptEnd
  <2>1. listener \in Conns /\ listener # None /\ stage[listener] = "new"
    BY <1>2 DEF OnAcceptEnd, ManagerInv, TypeOK, AddrInv
  <2>2. CASE stage' = [stage EXCEPT ![listener] = "full"]
    BY <1>1, <2>1, <2>2 DEF Objects, LimitInv, ManagerInv, TypeOK
  <2>3. CASE detects /\ stage' = [stage EXCEPT ![listener] = "detect"]
    BY <1>1, <2>1, <2>3 DEF Objects, LimitInv, ManagerInv, TypeOK
  <2>4. CASE ~IsFull /\ stage' = [stage EXCEPT ![listener] = "handshake"]
    <3>1. Objects' = Objects \cup {listener}
      BY <2>1, <2>4 DEF Objects, ManagerInv, TypeOK
    <3>2. Cardinality(Objects') <= MaxSessions
      <4>1. Cardinality(Objects') \in {Cardinality(Objects), Cardinality(Objects) + 1}
        BY <3>1, ObjectsFinite, FS_AddElement DEF ManagerInv
      <4>2. Cardinality(Objects) + 1 <= MaxSessions
        BY <2>1, <2>4, NotFullHasRoom DEF ManagerInv
      <4> QED
        BY <4>1, <4>2, ObjectsFinite DEF ManagerInv
    <3>3. \A c \in Conns : stage'[c] = "detect" => detects
      BY <2>1, <2>4 DEF LimitInv, ManagerInv, TypeOK
    <3> QED
      BY <1>0, <3>2, <3>3 DEF LimitInv, SessionLimit
  <2> QED
    BY <1>2, <2>2, <2>3, <2>4 DEF OnAcceptEnd, Construct
<1>3. ASSUME NEW c \in Conns, OnDetect(c) PROVE LimitInv'
  <2>1. detects
    BY <1>3 DEF OnDetect, LimitInv
  <2> QED
    BY <1>0, <2>1 DEF LimitInv, SessionLimit
<1>4. ASSUME NEW c \in Conns,
             \/ OnAccept(c) \/ AddSession(c) \/ HandshakeFails(c)
             \/ LastReference(c) \/ RemoveSession(c) \/ Destroyed(c)
      PROVE  LimitInv'
  <2>1. /\ Objects' \subseteq Objects
        /\ \A d \in Conns : stage'[d] = "detect" => stage[d] = "detect"
    BY <1>4 DEF OnAccept, AddSession, HandshakeFails, LastReference, RemoveSession,
       Destroyed, Objects, ManagerInv, TypeOK
  <2> QED
    BY <1>1, <2>1 DEF LimitInv
<1>5. ASSUME UNCHANGED sessionVars PROVE LimitInv'
  BY <1>5 DEF sessionVars, LimitInv, SessionLimit, Objects
<1>6. CASE \/ \E b \in Broadcasts : Collect(b) \/ BroadcastNext(b)
           \/ \E c \in Conns, b \in Broadcasts : Release(c, b)
  BY <1>5, <1>6 DEF Collect, BroadcastNext, BroadcastFull, BroadcastCount,
     BroadcastNobody, BroadcastMake, BroadcastQueue, BroadcastCopy, BroadcastSend,
     BroadcastNextMap, BroadcastEnd, Release
<1>7. CASE UNCHANGED vars
  BY <1>5, <1>7 DEF vars
<1> QED
  BY <1>2, <1>3, <1>4, <1>6, <1>7 DEF Next, SessionNext

(* Without SSL max_sessions is never passed, not even by sessions in their *)
(* handshake or in their destructor (is_full, listener::on_accept).        *)
THEOREM SessionLimitHolds == Spec => []SessionLimit
<1>1. Init => LimitInv
  <2> SUFFICES ASSUME Init PROVE LimitInv
    OBVIOUS
  <2>1. Objects = {}
    BY DEF Init, Objects
  <2>2. \A c \in Conns : stage[c] # "detect"
    BY DEF Init
  <2> QED
    BY <2>1, <2>2, FS_EmptySet, ManagerAssumption DEF LimitInv, SessionLimit
<1>2. LimitInv => SessionLimit
  BY DEF LimitInv
<1> QED
  BY <1>1, <1>2, LimitStep, ManagerInvHolds, PTL DEF Spec
=============================================================================
