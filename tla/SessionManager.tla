--------------------------- MODULE SessionManager ---------------------------
(***************************************************************************)
(* session_manager with the listener and detect_session that create its    *)
(* sessions (impl/server/server_session.hpp, listener.hpp) and the threads *)
(* that broadcast.                                                         *)
(*                                                                         *)
(* A session is named by the connection it serves; its id is the address   *)
(* of its stream.  Of a session's own life, which ServerSession models,    *)
(* only its birth, its registration and its destruction matter here.  A    *)
(* message (data_push) is named by the broadcast that made it; sessions    *)
(* share it, and its deleter holds a reference to the manager.             *)
(*                                                                         *)
(* connections() is the manager's reference count minus the one set by     *)
(* set_subtract_refs: sessions, messages and the calls of connections()    *)
(* under way (counting), each of which holds a temporary reference.        *)
(***************************************************************************)
EXTENDS Integers, FiniteSets

CONSTANTS Conns,        \* the connections made to the server
          Broadcasts,   \* the calls of broadcast()
          Addrs,        \* memory addresses of sessions
          None,
          Mode,         \* server_cfg.mode, a set of kinds
          MaxSessions,  \* server_cfg.max_sessions
          MsgMax        \* config::queue_send_max

Kinds == {"plain", "ssl"}

ASSUME ManagerAssumption ==
    /\ None \notin Conns /\ None \notin Addrs
    /\ IsFiniteSet(Conns) /\ IsFiniteSet(Broadcasts)
    /\ Mode \subseteq Kinds
    /\ MaxSessions \in Nat /\ MsgMax \in Nat

VARIABLES
    detects,       \* whether the listener has an ssl context
    listener,      \* the connection whose on_accept is inside is_full(), or None
    stage,         \* of each connection and its session
    kind,          \* stream type of each session
    addr,          \* address of each session, None if it has no memory
    m_sessions,    \* m_plain_sessions and m_ssl_sessions: id -> session
    m_msg_queued,
    push,          \* messages that exist
    holds,         \* messages that each session holds, posted or queued
    pc,            \* where each broadcast is
    at,            \* the map each broadcast works on
    ids,           \* the session ids given to each broadcast
    tmp,           \* plain_sessions_tmp or ssl_sessions_tmp of each broadcast
    meant,         \* history: the sessions the ids stood for when collected
    owed           \* history: of these, the ones that were open when broadcast()
                   \* began and have not been sent the message yet

sessionVars == <<detects, listener, stage, kind, addr, m_sessions>>
pushVars == <<m_msg_queued, push, holds>>
callVars == <<pc, at, ids, tmp, meant, owed>>
vars == <<sessionVars, pushVars, callVars>>

\* detect: detect_session reads;  handshake: session_accept exists;  open:
\* registered;  dying: no reference left, destructor entered;  removed: out of
\* the map;  gone: memory freed;  refused, full: the listener closed the socket.
Stages == {"new", "detect", "handshake", "open", "dying", "removed", "gone",
           "refused", "full"}
CallPc == {"idle", "start", "count", "queue", "copy", "send", "done", "dropped"}

TypeOK ==
    /\ detects \in BOOLEAN
    /\ listener \in Conns \cup {None}
    /\ stage \in [Conns -> Stages]
    /\ kind \in [Conns -> Kinds]
    /\ addr \in [Conns -> Addrs \cup {None}]
    /\ m_sessions \in [Kinds -> [Addrs -> Conns \cup {None}]]
    /\ m_msg_queued \in Int
    /\ push \in SUBSET Broadcasts
    /\ holds \in [Conns -> SUBSET Broadcasts]
    /\ pc \in [Broadcasts -> CallPc]
    /\ at \in [Broadcasts -> Kinds]
    /\ ids \in [Broadcasts -> SUBSET Addrs]
    /\ tmp \in [Broadcasts -> SUBSET Conns]
    /\ meant \in [Broadcasts -> SUBSET Conns]
    /\ owed \in [Broadcasts -> SUBSET Conns]

Init ==
    /\ detects \in BOOLEAN
    /\ listener = None
    /\ stage = [c \in Conns |-> "new"]
    /\ kind = [c \in Conns |-> "plain"]
    /\ addr = [c \in Conns |-> None]
    /\ m_sessions = [k \in Kinds |-> [a \in Addrs |-> None]]
    /\ m_msg_queued = 0 /\ push = {} /\ holds = [c \in Conns |-> {}]
    /\ pc = [b \in Broadcasts |-> "idle"]
    /\ at = [b \in Broadcasts |-> "plain"]
    /\ ids = [b \in Broadcasts |-> {}]
    /\ tmp = [b \in Broadcasts |-> {}]
    /\ meant = [b \in Broadcasts |-> {}]
    /\ owed = [b \in Broadcasts |-> {}]

Objects == {c \in Conns : stage[c] \in {"handshake", "open", "dying", "removed"}}
Open == {c \in Conns : stage[c] = "open"}
Registered(k) == {m_sessions[k][a] : a \in Addrs} \ {None}

\* The calls of connections() that hold a reference to the manager.
Counting == Cardinality({b \in Broadcasts : pc[b] = "count"})
            + (IF listener = None THEN 0 ELSE 1)

\* What connections() returns to one of them.
Connections == Cardinality(Objects) + Cardinality(push) + Counting - 1

-----------------------------------------------------------------------------
(* Each Mut operator is a defect in the definition that follows it. *)

MutIsFull == Connections > MaxSessions        \* one session too many
IsFull == Connections >= MaxSessions

MutNobody == Connections <= 1                 \* the caller counts itself
Nobody == Connections = 0

MutUnregister(c) == m_sessions                \* the erase is forgotten
Unregister(c) == [m_sessions EXCEPT ![kind[c]][addr[c]] = None]

MutLock(c) == stage[c] \in {"open", "dying"}  \* a raw pointer instead
Lock(c) == stage[c] = "open"

Holders(b) == {c \in Conns : b \in holds[c]}

\* A session gets memory; its constructor takes a reference to the manager.
Construct(c, k) ==
    \E a \in Addrs :
        /\ \A d \in Conns : addr[d] # a
        /\ addr' = [addr EXCEPT ![c] = a]
        /\ kind' = [kind EXCEPT ![c] = k]
        /\ stage' = [stage EXCEPT ![c] = "handshake"]

\* the message has the default deleter
MutDropPush(b, others) ==
    /\ push' = IF others = {} THEN push \ {b} ELSE push
    /\ UNCHANGED m_msg_queued

\* on_msg_sent(), the deleter of the message, once nobody else has it.
DropPush(b, others) ==
    IF others = {}
    THEN push' = push \ {b} /\ m_msg_queued' = m_msg_queued - 1
    ELSE UNCHANGED <<push, m_msg_queued>>

-----------------------------------------------------------------------------
(* The listener and the life of a session. *)

\* listener::on_accept up to is_full(); the user's on_listen may refuse.
OnAccept(c) ==
    /\ listener = None /\ stage[c] = "new"
    /\ \/ listener' = c /\ stage' = stage
       \/ listener' = None /\ stage' = [stage EXCEPT ![c] = "refused"]
    /\ UNCHANGED <<detects, kind, addr, m_sessions, pushVars, callVars>>

\* The rest of on_accept: close the socket, detect, or make a session.
OnAcceptEnd ==
    /\ listener # None
    /\ \/ /\ IsFull
          /\ stage' = [stage EXCEPT ![listener] = "full"]
          /\ UNCHANGED <<kind, addr>>
       \/ /\ ~IsFull /\ detects
          /\ stage' = [stage EXCEPT ![listener] = "detect"]
          /\ UNCHANGED <<kind, addr>>
       \/ ~IsFull /\ ~detects /\ Construct(listener, "plain")
    /\ listener' = None
    /\ UNCHANGED <<detects, m_sessions, pushVars, callVars>>

\* detect_session::on_detect
OnDetect(c) ==
    /\ stage[c] = "detect"
    /\ \/ \E k \in Mode : Construct(c, k)
       \/ stage' = [stage EXCEPT ![c] = "gone"] /\ UNCHANGED <<kind, addr>>
    /\ UNCHANGED <<detects, listener, m_sessions, pushVars, callVars>>

\* session_accept::on_accept calls add_session().
AddSession(c) ==
    /\ stage[c] = "handshake"
    /\ stage' = [stage EXCEPT ![c] = "open"]
    /\ m_sessions' = [m_sessions EXCEPT ![kind[c]][addr[c]] = c]
    /\ UNCHANGED <<detects, listener, kind, addr, pushVars, callVars>>

\* A failed handshake ends a session that never was in the map.
HandshakeFails(c) ==
    /\ stage[c] = "handshake"
    /\ stage' = [stage EXCEPT ![c] = "removed"]
    /\ UNCHANGED <<detects, listener, kind, addr, m_sessions, pushVars, callVars>>

\* The last handler of an open session is gone: lock() fails from now on.
LastReference(c) ==
    /\ stage[c] = "open" /\ holds[c] = {}
    /\ stage' = [stage EXCEPT ![c] = "dying"]
    /\ UNCHANGED <<detects, listener, kind, addr, m_sessions, pushVars, callVars>>

\* ~session_accept calls remove_session() with the id.
RemoveSession(c) ==
    /\ stage[c] = "dying"
    /\ stage' = [stage EXCEPT ![c] = "removed"]
    /\ m_sessions' = Unregister(c)
    /\ UNCHANGED <<detects, listener, kind, addr, pushVars, callVars>>

\* ~server_session: on_disconnect, then the manager and the memory are released.
Destroyed(c) ==
    /\ stage[c] = "removed"
    /\ stage' = [stage EXCEPT ![c] = "gone"]
    /\ addr' = [addr EXCEPT ![c] = None]
    /\ UNCHANGED <<detects, listener, kind, m_sessions, pushVars, callVars>>

\* The session has written or dropped a message.
Release(c, b) ==
    /\ b \in holds[c]
    /\ holds' = [holds EXCEPT ![c] = @ \ {b}]
    /\ IF pc[b] = "done" THEN DropPush(b, Holders(b) \ {c})
       ELSE UNCHANGED <<push, m_msg_queued>>
    /\ UNCHANGED <<sessionVars, callVars>>

-----------------------------------------------------------------------------
(* broadcast(), called by threads of the application. *)

\* A broadcast to all, or to ids that get_session_ids() returns now.
Collect(b) ==
    /\ pc[b] = "idle"
    /\ pc' = [pc EXCEPT ![b] = "start"]
    /\ \/ /\ ids' = [ids EXCEPT ![b] = Addrs]
          /\ meant' = [meant EXCEPT ![b] = Conns]
       \/ /\ ids' = [ids EXCEPT ![b] = {a \in Addrs : \E k \in Kinds :
                                            m_sessions[k][a] # None}]
          /\ meant' = [meant EXCEPT ![b] = UNION {Registered(k) : k \in Kinds}]
    /\ UNCHANGED <<sessionVars, pushVars, at, tmp, owed>>

BroadcastFull(b) ==
    /\ pc[b] = "start"
    /\ m_msg_queued >= MsgMax
    /\ pc' = [pc EXCEPT ![b] = "dropped"]
    /\ UNCHANGED <<sessionVars, pushVars, at, ids, tmp, meant, owed>>

\* Below the limit: broadcast() enters connections().
BroadcastCount(b) ==
    /\ pc[b] = "start"
    /\ m_msg_queued < MsgMax
    /\ pc' = [pc EXCEPT ![b] = "count"]
    /\ owed' = [owed EXCEPT ![b] = Open \cap meant[b]]
    /\ UNCHANGED <<sessionVars, pushVars, at, ids, tmp, meant>>

BroadcastNobody(b) ==
    /\ pc[b] = "count"
    /\ Nobody
    /\ pc' = [pc EXCEPT ![b] = "done"]
    /\ UNCHANGED <<sessionVars, pushVars, at, ids, tmp, meant, owed>>

BroadcastMake(b) ==
    /\ pc[b] = "count"
    /\ ~Nobody
    /\ push' = push \cup {b}
    /\ pc' = [pc EXCEPT ![b] = "queue"]
    /\ UNCHANGED <<sessionVars, m_msg_queued, holds, at, ids, tmp, meant, owed>>

BroadcastQueue(b) ==
    /\ pc[b] = "queue"
    /\ m_msg_queued' = m_msg_queued + 1
    /\ pc' = [pc EXCEPT ![b] = "copy"]
    /\ UNCHANGED <<sessionVars, push, holds, at, ids, tmp, meant, owed>>

\* The sessions with the given ids are copied under the map's mutex.
BroadcastCopy(b) ==
    /\ pc[b] = "copy"
    /\ tmp' = [tmp EXCEPT ![b] = {m_sessions[at[b]][a] : a \in ids[b]} \ {None}]
    /\ pc' = [pc EXCEPT ![b] = "send"]
    /\ UNCHANGED <<sessionVars, pushVars, at, ids, meant, owed>>

\* lock() and send() on one of the copied weak pointers.
BroadcastSend(b, c) ==
    /\ pc[b] = "send" /\ c \in tmp[b]
    /\ tmp' = [tmp EXCEPT ![b] = @ \ {c}]
    /\ IF Lock(c)
       THEN /\ holds' = [holds EXCEPT ![c] = @ \cup {b}]
            /\ owed' = [owed EXCEPT ![b] = @ \ {c}]
       ELSE UNCHANGED <<holds, owed>>
    /\ UNCHANGED <<sessionVars, m_msg_queued, push, pc, at, ids, meant>>

BroadcastNextMap(b) ==
    /\ pc[b] = "send" /\ tmp[b] = {} /\ at[b] = "plain"
    /\ at' = [at EXCEPT ![b] = "ssl"]
    /\ pc' = [pc EXCEPT ![b] = "copy"]
    /\ UNCHANGED <<sessionVars, pushVars, ids, tmp, meant, owed>>

\* broadcast() returns and drops its own reference to the message.
BroadcastEnd(b) ==
    /\ pc[b] = "send" /\ tmp[b] = {} /\ at[b] = "ssl"
    /\ pc' = [pc EXCEPT ![b] = "done"]
    /\ DropPush(b, Holders(b))
    /\ UNCHANGED <<sessionVars, holds, at, ids, tmp, meant, owed>>

-----------------------------------------------------------------------------
SessionNext(c) ==
    \/ OnAccept(c) \/ OnDetect(c) \/ AddSession(c) \/ HandshakeFails(c)
    \/ LastReference(c) \/ RemoveSession(c) \/ Destroyed(c)

BroadcastNext(b) ==
    \/ BroadcastFull(b) \/ BroadcastCount(b) \/ BroadcastNobody(b)
    \/ BroadcastMake(b) \/ BroadcastQueue(b) \/ BroadcastCopy(b)
    \/ BroadcastNextMap(b) \/ BroadcastEnd(b)
    \/ \E c \in Conns : BroadcastSend(b, c)

Next ==
    \/ OnAcceptEnd
    \/ \E c \in Conns : SessionNext(c)
    \/ \E b \in Broadcasts : Collect(b) \/ BroadcastNext(b)
    \/ \E c \in Conns, b \in Broadcasts : Release(c, b)

Spec == Init /\ [][Next]_vars

-----------------------------------------------------------------------------
(* Properties. *)

\* The maps are exact although ids are memory addresses that are used again: a
\* session is in its map under its id from add_session() to remove_session(),
\* and the destructor of one session never takes out another.
RegistryExact ==
    \A k \in Kinds, a \in Addrs, c \in Conns :
        m_sessions[k][a] = c <=>
            stage[c] \in {"open", "dying"} /\ kind[c] = k /\ addr[c] = a

\* Only sessions with a living owner are given messages: broadcast() never
\* revives or uses a session whose destructor has begun.
NoDeadReceiver == \A c \in Conns : holds[c] # {} => stage[c] = "open"

\* m_msg_queued is the number of messages that exist, those about to be counted
\* excepted: the deleter runs once for each, in whichever thread lets go last.
Counted == {b \in push : pc[b] # "queue"}
MessagesCounted == m_msg_queued = Cardinality(Counted)

\* When broadcast() returns it has sent to every session it was meant for that
\* was open when it began and still is, whatever sessions came and went.
BroadcastReaches ==
    \A b \in Broadcasts : pc[b] = "done" => owed[b] \cap Open = {}

\* Without SSL, where is_full() and the construction of the session are one
\* handler of the listener, there are never more than max_sessions sessions,
\* the ones in their handshake and in their destructor included.
SessionLimit == ~detects => Cardinality(Objects) <= MaxSessions

-----------------------------------------------------------------------------
(* The inductive invariants: ManagerInv is behind RegistryExact,           *)
(* NoDeadReceiver and BroadcastReaches, MessageInv behind MessagesCounted, *)
(* LimitInv behind SessionLimit.                                           *)

\* Sessions have memory, each its own; the connection in is_full() has none yet.
AddrInv ==
    /\ \A c \in Conns : addr[c] # None <=> c \in Objects
    /\ \A c, d \in Conns : addr[c] # None /\ addr[c] = addr[d] => c = d
    /\ listener # None => stage[listener] = "new"

\* The ids of a broadcast cover the open sessions it is meant for.
IdsInv ==
    \A b \in Broadcasts :
        \/ ids[b] = Addrs
        \/ \A c \in meant[b] :
              \/ stage[c] \in {"dying", "removed", "gone"}
              \/ stage[c] = "open" /\ addr[c] \in ids[b]

\* An open session that has not been sent the message is still to come, in the
\* map being sent to or in the next one.
OwedInv ==
    \A b \in Broadcasts :
        /\ owed[b] \subseteq meant[b]
        /\ pc[b] \in {"idle", "start"} => owed[b] = {} /\ at[b] = "plain"
        /\ \A c \in owed[b] : stage[c] \in {"open", "dying", "removed", "gone"}
        /\ \A c \in owed[b] : stage[c] = "open" =>
              /\ pc[b] # "done"
              /\ pc[b] \in {"count", "queue"} => at[b] = "plain"
              /\ pc[b] = "copy" => at[b] = "plain" \/ kind[c] = "ssl"
              /\ pc[b] = "send" => \/ c \in tmp[b]
                                   \/ at[b] = "plain" /\ kind[c] = "ssl"

ManagerInv ==
    /\ TypeOK
    /\ AddrInv
    /\ RegistryExact
    /\ NoDeadReceiver
    /\ IdsInv
    /\ OwedInv

\* Sessions get a message after it was made and counted.
SentInv ==
    \A c \in Conns : \A b \in holds[c] : pc[b] \in {"copy", "send", "done"}

\* shared_ptr: a message exists exactly while somebody holds it.
PushInv ==
    \A b \in Broadcasts :
        b \in push <=> \/ pc[b] \in {"queue", "copy", "send"}
                       \/ \E c \in Conns : b \in holds[c]

MessageInv == PushInv /\ SentInv /\ MessagesCounted

\* detect_session runs only where the limit may be passed.
LimitInv == SessionLimit /\ \A c \in Conns : stage[c] = "detect" => detects

-----------------------------------------------------------------------------
(* What a comment says, and the code does not do. *)

\* types.hpp: max_sessions is "The maximum amount of sessions."
MaxSessionsKept == Cardinality(Objects) <= MaxSessions
=============================================================================
