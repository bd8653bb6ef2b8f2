----------------------------- MODULE ClientPing -----------------------------
(***************************************************************************)
(* client_session::ping with handle_ping, on_ping and the pong branch of   *)
(* on_control_callback (impl/client/client_session.hpp), on an established *)
(* session.  client::ping holds m_session_mtx exclusively, so one thread   *)
(* at a time is inside; calls that follow each other meet what the earlier *)
(* ones left behind: posted handlers, a pending async_ping, pongs under    *)
(* way.                                                                    *)
(***************************************************************************)
EXTENDS Integers

CONSTANT MaxPings   \* bound: calls of ping()

ASSUME PingAssumption == MaxPings \in Nat

VARIABLES
    calls,      \* calls of ping() so far
    pc,         \* the calling thread: "idle", "posted" or "asleep"
    notified,   \* m_ping_cv has been notified while it sleeps
    ret,        \* what the last call returned: "none", "true" or "false"
    posts,      \* posted handle_ping handlers
    m_ping, m_pong,
    pending,    \* async_ping operations that have not completed
    sent,       \* the frame of the pending one is on its way
    flight,     \* pings and pongs between client and server
    reader,     \* "notify": on_control_callback between unlock and notify_all
    fresh       \* history: a pong was received during this call of ping()

callerVars == <<calls, pc, ret>>
ioVars == <<posts, m_ping, pending, sent, flight>>
vars == <<callerVars, notified, ioVars, m_pong, reader, fresh>>

TypeOK ==
    /\ calls \in 0..MaxPings
    /\ pc \in {"idle", "posted", "asleep"}
    /\ notified \in BOOLEAN
    /\ ret \in {"none", "true", "false"}
    /\ posts \in Nat /\ pending \in Nat /\ flight \in Nat
    /\ m_ping \in BOOLEAN /\ m_pong \in BOOLEAN /\ sent \in BOOLEAN
    /\ reader \in {"reading", "notify"}
    /\ fresh \in BOOLEAN

Init ==
    /\ calls = 0 /\ pc = "idle" /\ notified = FALSE /\ ret = "none"
    /\ posts = 0 /\ m_ping = FALSE /\ m_pong = FALSE
    /\ pending = 0 /\ sent = FALSE /\ flight = 0
    /\ reader = "reading" /\ fresh = FALSE

-----------------------------------------------------------------------------
(* ping().  Each Mut operator is a defect in the definition that follows.  *)

Ping ==
    /\ pc = "idle" /\ calls < MaxPings
    /\ calls' = calls + 1
    /\ posts' = posts + 1
    /\ pc' = "posted" /\ ret' = "none" /\ fresh' = FALSE
    /\ UNCHANGED <<notified, m_ping, m_pong, pending, sent, flight, reader>>

MutPongBefore == m_pong                       \* the pong of the last ping counts
\* m_pong under m_ping_mtx when the thread begins to wait.
PongBefore == FALSE

PingWait ==
    /\ pc = "posted"
    /\ m_pong' = PongBefore
    /\ IF m_pong' THEN pc' = "idle" /\ ret' = "true"
       ELSE pc' = "asleep" /\ UNCHANGED ret
    /\ notified' = FALSE
    /\ UNCHANGED <<calls, ioVars, reader, fresh>>

\* The thread wakes up with m_ping_mtx and tests m_pong.
PingWake ==
    /\ pc = "asleep" /\ notified
    /\ notified' = FALSE
    /\ pc' = IF m_pong THEN "idle" ELSE "asleep"
    /\ ret' = IF m_pong THEN "true" ELSE ret
    /\ UNCHANGED <<calls, ioVars, m_pong, reader, fresh>>

PingTimeout ==
    /\ pc = "asleep"
    /\ pc' = "idle" /\ notified' = FALSE
    /\ ret' = IF m_pong THEN "true" ELSE "false"
    /\ UNCHANGED <<calls, ioVars, m_pong, reader, fresh>>

-----------------------------------------------------------------------------
(* Handlers on the IO thread. *)

IoFree == reader = "reading"

MutMayPing == TRUE                            \* the guard is forgotten
MayPing == ~m_ping

HandlePing ==
    /\ IoFree /\ posts > 0
    /\ posts' = posts - 1
    /\ IF MayPing THEN m_ping' = TRUE /\ pending' = pending + 1
       ELSE UNCHANGED <<m_ping, pending>>
    /\ UNCHANGED <<callerVars, notified, m_pong, sent, flight, reader, fresh>>

\* The stream writes the ping frame.
PingSent ==
    /\ pending > 0 /\ ~sent
    /\ sent' = TRUE
    /\ flight' = flight + 1
    /\ UNCHANGED <<callerVars, notified, posts, m_ping, m_pong, pending, reader, fresh>>

\* on_ping, with or without an error.
OnPing(ok) ==
    /\ IoFree /\ pending > 0
    /\ ok => sent
    /\ pending' = pending - 1
    /\ m_ping' = FALSE
    /\ sent' = FALSE
    /\ UNCHANGED <<callerVars, notified, posts, m_pong, flight, reader, fresh>>

\* on_control_callback with a pong, up to the unlock ...
OnPong ==
    /\ IoFree /\ flight > 0
    /\ flight' = flight - 1
    /\ m_pong' = TRUE /\ fresh' = (fresh \/ pc # "idle")
    /\ reader' = "notify"
    /\ UNCHANGED <<callerVars, notified, posts, m_ping, pending, sent>>

\* nobody is told
MutNotified == notified
Notified == notified \/ pc = "asleep"

\* ... and its notify_all().
OnPongNotify ==
    /\ reader = "notify"
    /\ reader' = "reading"
    /\ notified' = Notified
    /\ UNCHANGED <<callerVars, ioVars, m_pong, fresh>>

-----------------------------------------------------------------------------
Next ==
    \/ Ping \/ PingWait \/ PingWake \/ PingTimeout
    \/ HandlePing \/ PingSent \/ (\E ok \in BOOLEAN : OnPing(ok))
    \/ OnPong \/ OnPongNotify

Spec == Init /\ [][Next]_vars

\* A notified thread runs, and the IO thread finishes its handler.  Nothing is
\* assumed of the server or of timeouts.
Fairness == WF_vars(PingWake) /\ WF_vars(OnPongNotify)

FairSpec == Spec /\ Fairness

-----------------------------------------------------------------------------
(* Properties. *)

\* One async_ping at a time on the stream, although ping() may give up and be
\* called again before the first one has completed; and the flag that ensures it
\* does not stay set after an error, which would silence all later pings.
OnePing == pending = IF m_ping THEN 1 ELSE 0

\* ping() returns true only if a pong was received during the call: the pong of
\* an earlier, answered call is forgotten.
FreshPong == ret = "true" => fresh

\* A thread that sleeps although a pong was received is about to be notified.
NoLostPong ==
    pc = "asleep" /\ m_pong => notified \/ reader = "notify"

\* A pong received while ping() waits ends the wait without the timeout.
PongEndsPing == pc = "asleep" /\ m_pong ~> pc # "asleep"

\* The inductive invariant: a pong in m_pong that ping() may see is a fresh one.
PingInv ==
    /\ TypeOK
    /\ OnePing
    /\ FreshPong
    /\ NoLostPong
    /\ pc = "asleep" /\ m_pong => fresh
    /\ sent => pending = 1

-----------------------------------------------------------------------------
(* What a comment says, and the code does not do. *)

\* ping(): "True if pong received, false if not."
PongReported == ret = "false" => ~fresh
=============================================================================
