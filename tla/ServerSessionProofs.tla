------------------------- MODULE ServerSessionProofs -------------------------
(***************************************************************************)
(* Proofs about ServerSession, for any queue limit and any number of       *)
(* messages and pings.                                                     *)
(***************************************************************************)
EXTENDS ServerSession, TLAPS

USE SessionAssumption DEF Msgs

(* What the queue operations do to sequences. *)
LEMMA TailAppend ==
    ASSUME NEW S, NEW s \in Seq(S), s # <<>>, NEW m \in S
    PROVE  Tail(Append(s, m)) = Append(Tail(s), m)
OBVIOUS

LEMMA ConcatAppend ==
    ASSUME NEW S, NEW s \in Seq(S), NEW t \in Seq(S), NEW m \in S
    PROVE  s \o Append(t, m) = Append(s \o t, m)
OBVIOUS

LEMMA ConcatHead ==
    ASSUME NEW S, NEW s \in Seq(S), NEW t \in Seq(S), t # <<>>
    PROVE  Append(s, Head(t)) \o Tail(t) = s \o t
OBVIOUS

LEMMA AppendNonEmpty ==
    ASSUME NEW S, NEW s \in Seq(S), NEW m \in S
    PROVE  Append(s, m) \in Seq(S) /\ Append(s, m) # <<>>
<1>1. Append(s, m) \in Seq(S) /\ Len(Append(s, m)) = Len(s) + 1
  OBVIOUS
<1>2. Len(s) \in Nat /\ Len(<<>>) = 0
  OBVIOUS
<1> QED
  BY <1>1, <1>2

(* The types of the send queue and its histories. *)
QueueTypes ==
    /\ m_queue \in Seq(Msgs) /\ accepted \in Seq(Msgs) /\ wire \in Seq(Msgs)
    /\ writes \in Nat

\* The messages that were accepted and not handed to the stream.
Behind(q) == IF q = <<>> THEN <<>> ELSE Tail(q)

(* handle_send: one write per non-empty queue, and the new message goes to *)
(* the stream at once or waits last.                                       *)
LEMMA HandleSendKeeps ==
    ASSUME QueueTypes, OneWrite, NEW m \in Msgs, HandleSend(m)
    PROVE  /\ QueueTypes' /\ OneWrite'
           /\ accepted = wire \o Behind(m_queue) =>
                 accepted' = wire' \o Behind(m_queue')
<1>1. CASE ~Sendable
  BY <1>1 DEF HandleSend, queueVars, QueueTypes, OneWrite
<1>2. CASE Sendable /\ m_queue = <<>>
  <2>1. m_queue' = <<m>> /\ accepted' = Append(accepted, m)
    BY <1>2 DEF HandleSend
  <2>2. writes' = 1 /\ wire' = Append(wire, m)
    BY <1>2, <2>1 DEF HandleSend, WriteBusy, Write, Front, OneWrite
  <2> QED
    BY <1>2, <2>1, <2>2 DEF QueueTypes, OneWrite, Behind
<1>3. CASE Sendable /\ m_queue # <<>>
  <2>1. /\ m_queue' = Append(m_queue, m) /\ accepted' = Append(accepted, m)
        /\ UNCHANGED <<writes, wire>>
    BY <1>3 DEF HandleSend, WriteBusy, QueueTypes
  <2>2. m_queue' # <<>>
    BY <2>1, AppendNonEmpty DEF QueueTypes
  <2>3. Behind(m_queue) = Tail(m_queue) /\ Tail(m_queue) \in Seq(Msgs)
    BY <1>3 DEF QueueTypes, Behind
  <2>4. Behind(m_queue') = Append(Tail(m_queue), m)
    BY <1>3, <2>1, <2>2, TailAppend DEF QueueTypes, Behind
  <2>5. wire \o Behind(m_queue') = Append(wire \o Tail(m_queue), m)
    BY <2>3, <2>4, ConcatAppend, SMTT(20) DEF QueueTypes
  <2>6. QueueTypes'
    BY <2>1, AppendNonEmpty DEF QueueTypes
  <2>7. OneWrite'
    BY <1>3, <2>1, <2>2 DEF OneWrite
  <2> QED
    BY <2>1, <2>3, <2>5, <2>6, <2>7
<1> QED
  BY <1>1, <1>2, <1>3

(* on_write: the written message leaves, the next one goes to the stream. *)
LEMMA OnWriteKeeps ==
    ASSUME QueueTypes, OneWrite, OnWrite
    PROVE  /\ QueueTypes' /\ OneWrite'
           /\ accepted = wire \o Behind(m_queue) =>
                 accepted' = wire' \o Behind(m_queue')
<1>1. /\ m_queue # <<>> /\ writes = 1
      /\ m_queue' = Tail(m_queue) /\ accepted' = accepted
  BY DEF OnWrite, OneWrite
<1>2. m_queue' \in Seq(Msgs) /\ Behind(m_queue) = m_queue'
  BY <1>1 DEF QueueTypes, Behind
<1>3. CASE m_queue' = <<>>
  <2>1. writes' = 0 /\ wire' = wire
    BY <1>1, <1>3 DEF OnWrite
  <2> QED
    BY <1>1, <1>2, <1>3, <2>1 DEF QueueTypes, OneWrite, Behind
<1>4. CASE m_queue' # <<>>
  <2>1. writes' = 1 /\ wire' = Append(wire, Head(m_queue'))
    BY <1>1, <1>4 DEF OnWrite, Front
  <2>2. Head(m_queue') \in Msgs
    BY <1>2, <1>4
  <2>3. wire' \o Tail(m_queue') = wire \o m_queue'
    BY <1>2, <1>4, <2>1, ConcatHead DEF QueueTypes
  <2>4. QueueTypes'
    BY <1>1, <1>2, <2>1, <2>2, AppendNonEmpty DEF QueueTypes
  <2>5. OneWrite'
    BY <1>4, <2>1 DEF OneWrite
  <2> QED
    BY <1>1, <1>2, <1>4, <2>3, <2>4, <2>5 DEF Behind
<1> QED
  BY <1>3, <1>4

(* The initial state satisfies the inductive invariant. *)
LEMMA InitInv == Init => SessionInv
BY DEF Init, SessionInv, TypeOK, OneWrite, TimerRuns, Flags, Is

(* Every step of the session preserves the inductive invariant. *)
LEMMA StepInv == SessionInv /\ [Next]_vars => SessionInv'
<1> SUFFICES ASSUME SessionInv, [Next]_vars PROVE SessionInv'
  OBVIOUS
<1> USE DEF SessionInv, TypeOK, OneWrite, TimerRuns, Flags, Is,
            Closing, queueVars, closeVars, timerVars
<1>1. CASE OnSslHandshake
  BY <1>1 DEF OnSslHandshake
<1>2. CASE OnReadHandshake
  BY <1>2 DEF OnReadHandshake
<1>3. CASE OnAcceptError
  BY <1>3 DEF OnAcceptError
<1>4. CASE OnAccept
  BY <1>4 DEF OnAccept
<1>5. CASE OnReadError
  BY <1>5 DEF OnReadError, CloseSession, Shutdown, MayShutdown, ExpiresAfter
<1>6. CASE OnReadReply
  BY <1>6, HandleSendKeeps DEF OnReadReply, QueueTypes
<1>7. CASE OnReadClose
  BY <1>7 DEF OnReadClose, CloseSession, Shutdown, MayShutdown, ExpiresAfter, CallsFunction, Readable
<1>8. CASE OnControlClose
  BY <1>8 DEF OnControlClose
<1>9. CASE OnControlPing
  BY <1>9 DEF OnControlPing, ExpiresAfter
<1>10. CASE Send
  BY <1>10 DEF Send
<1>11. CASE OnPosted
  BY <1>11, HandleSendKeeps DEF OnPosted, QueueTypes
<1>12. CASE OnWrite
  <2>1. QueueTypes' /\ OneWrite'
    BY <1>12, OnWriteKeeps DEF QueueTypes
  <2>2. UNCHANGED <<stage, ping_delay, stream, flags, pings, posted, made,
                    accepted, closeVars, timerVars>>
    BY <1>12 DEF OnWrite
  <2> QED
    BY <2>1, <2>2 DEF QueueTypes
<1>13. CASE OnWriteError
  BY <1>13 DEF OnWriteError, CloseSession, Shutdown, MayShutdown, ExpiresAfter
<1>14. CASE OnTimerMoved
  BY <1>14 DEF OnTimerMoved, Rearm
<1>15. CASE OnTimerPing
  BY <1>15 DEF OnTimerPing, Rearm
<1>16. CASE OnTimerShutdown
  BY <1>16 DEF OnTimerShutdown, Shutdown, MayShutdown, TimerEnds
<1>17. CASE OnPing
  BY <1>17 DEF OnPing
<1>18. CASE OnShutdown
  BY <1>18 DEF OnShutdown
<1>19. CASE Tick
  BY <1>19 DEF Tick
<1>20. CASE CloseStarts
  BY <1>20 DEF CloseStarts
<1>21. CASE StreamFails
  BY <1>21 DEF StreamFails
<1>22. CASE UNCHANGED vars
  BY <1>22 DEF vars
<1> QED
  BY <1>1, <1>2, <1>3, <1>4, <1>5, <1>6, <1>7, <1>8, <1>9, <1>10, <1>11, <1>12, <1>13, <1>14, <1>15, <1>16, <1>17, <1>18, <1>19, <1>20, <1>21, <1>22
     DEF Next, Handshake, OnRead, OnControl, OnTimer, Writing

(* Every step keeps accepted messages in order and loses none of them, *)
(* except by a write error.                                            *)
LEMMA StepDelivery ==
    SessionInv /\ Delivery /\ [Next]_vars => Delivery'
<1> SUFFICES ASSUME SessionInv, Delivery, [Next]_vars PROVE Delivery'
  OBVIOUS
<1>1. QueueTypes /\ OneWrite /\ posted \in Seq(Msgs) /\ made \in 0..MaxMsgs
  BY DEF SessionInv, TypeOK, QueueTypes
<1>2. Delivery <=> (~Is("m_write_error") => accepted = wire \o Behind(m_queue))
  BY DEF Delivery, Behind
<1>3. Delivery' <=>
        (~Is("m_write_error")' => accepted' = wire' \o Behind(m_queue'))
  BY DEF Delivery, Behind
<1>4. CASE OnReadReply
  <2>1. made' \in Msgs /\ HandleSend(made') /\ flags' = flags
    BY <1>1, <1>4 DEF OnReadReply
  <2> QED
    BY <1>1, <1>2, <1>3, <2>1, HandleSendKeeps DEF Is
<1>5. CASE OnPosted
  <2>1. Head(posted) \in Msgs /\ HandleSend(Head(posted)) /\ flags' = flags
    BY <1>1, <1>5 DEF OnPosted
  <2> QED
    BY <1>1, <1>2, <1>3, <2>1, HandleSendKeeps DEF Is
<1>6. CASE OnWrite
  <2>1. flags' = flags
    BY <1>6 DEF OnWrite
  <2> QED
    BY <1>1, <1>2, <1>3, <1>6, <2>1, OnWriteKeeps DEF Is
<1>7. CASE OnWriteError
  BY <1>7 DEF OnWriteError, Delivery, Is
<1>8. CASE UNCHANGED queueVars /\ flags \subseteq flags'
  BY <1>8 DEF queueVars, Delivery, Is
<1>9. CASE \/ Handshake \/ OnReadError \/ OnReadClose \/ OnControl \/ Send
           \/ OnTimer \/ OnPing \/ OnShutdown \/ Tick \/ CloseStarts
           \/ StreamFails \/ UNCHANGED vars
  BY <1>8, <1>9
     DEF Handshake, OnSslHandshake, OnReadHandshake, OnAcceptError, OnAccept,
         OnReadError, OnReadClose, OnControl, OnControlClose, OnControlPing,
         Send, OnTimer, OnTimerMoved, OnTimerPing, OnTimerShutdown, OnPing,
         OnShutdown, Tick, CloseStarts, StreamFails, vars
<1> QED
  BY <1>4, <1>5, <1>6, <1>7, <1>9 DEF Next, OnRead, Writing

(* The inductive invariant holds in every reachable state: the session's   *)
(* counts of pending writes and of started closes follow from its queue    *)
(* and its flags (server_session.hpp, handle_send to on_write, shutdown).  *)
THEOREM SessionInvHolds == Spec => []SessionInv
<1>1. Init => SessionInv
  BY InitInv
<1>2. SessionInv /\ [Next]_vars => SessionInv'
  BY StepInv
<1> QED
  BY <1>1, <1>2, PTL DEF Spec

(* At most one async_write is pending, exactly while m_queue is not empty. *)
THEOREM OneWriteHolds == Spec => []OneWrite
BY SessionInvHolds, PTL DEF SessionInv

(* async_close is started at most once, whoever asks for it. *)
THEOREM CloseOnceHolds == Spec => []CloseOnce
<1>1. SessionInv => CloseOnce
  BY DEF SessionInv, CloseOnce
<1> QED
  BY <1>1, SessionInvHolds, PTL

(* The timer that close_session() relies on runs until the session closes. *)
THEOREM TimerRunsHolds == Spec => []TimerRuns
BY SessionInvHolds, PTL DEF SessionInv

(* Messages go to the stream once, in order, and none is lost before a *)
(* write error.                                                        *)
THEOREM DeliveryHolds == Spec => []Delivery
<1>1. Init => Delivery
  BY DEF Init, Delivery, Is
<1>2. SessionInv /\ Delivery /\ [Next]_vars => Delivery'
  BY StepDelivery
<1> QED
  BY <1>1, <1>2, SessionInvHolds, PTL DEF Spec
-----------------------------------------------------------------------------
(* Nothing is written or asked for before the session is open, and nothing *)
(* that has to end it is forgotten afterwards.                             *)
LEMMA EndStep == SessionInv /\ EndInv /\ [Next]_vars => EndInv'
<1> SUFFICES ASSUME SessionInv, EndInv, [Next]_vars PROVE EndInv'
  OBVIOUS
<1> USE DEF EndInv, EndServed, TimerRuns, Is, Closing
<1>0. /\ stage # "open" => writes = 0
      /\ m_close \in {"no", "pending", "done"} /\ ping_delay \in {0, 1}
      /\ timer \in {"off", "armed", "due"}
  BY DEF SessionInv, TypeOK, OneWrite
<1>1. CASE OnSslHandshake \/ OnReadHandshake \/ OnAcceptError
  BY <1>1 DEF OnSslHandshake, OnReadHandshake, OnAcceptError, queueVars, closeVars, timerVars
<1>2. CASE OnAccept
  BY <1>2 DEF OnAccept, closeVars
<1>3. CASE OnReadError
  BY <1>0, <1>3 DEF OnReadError, Reading, CloseSession, Shutdown, MayShutdown, ExpiresAfter,
     closeVars, timerVars
<1>4. CASE OnReadReply \/ OnPosted
  BY <1>4 DEF OnReadReply, CallsFunction, Readable, Reading, OnPosted, closeVars, timerVars
<1>5. CASE OnReadClose
  BY <1>0, <1>5 DEF OnReadClose, CallsFunction, Readable, Reading, CloseSession, Shutdown,
     MayShutdown, ExpiresAfter, closeVars, timerVars
<1>6. CASE OnControlClose \/ OnControlPing
  BY <1>0, <1>6 DEF OnControlClose, OnControlPing, Reading, ExpiresAfter, closeVars, timerVars
<1>7. CASE Send \/ OnWrite
  BY <1>0, <1>7 DEF Send, OnWrite, closeVars, timerVars
<1>8. CASE OnWriteError
  BY <1>0, <1>8 DEF OnWriteError, CloseSession, Shutdown, MayShutdown, ExpiresAfter,
     closeVars, timerVars
<1>9. CASE OnTimerMoved \/ OnTimerPing
  BY <1>9 DEF OnTimerMoved, OnTimerPing, Rearm, queueVars, closeVars
<1>10. CASE OnTimerShutdown
  BY <1>0, <1>10 DEF OnTimerShutdown, Shutdown, MayShutdown, TimerEnds, queueVars, closeVars
<1>11. CASE OnPing \/ OnShutdown \/ Tick
  BY <1>11 DEF OnPing, OnShutdown, Tick, queueVars, closeVars, timerVars
<1>12. CASE CloseStarts \/ StreamFails
  BY <1>12 DEF CloseStarts, StreamFails, queueVars, closeVars, timerVars
<1>13. CASE UNCHANGED vars
  BY <1>13 DEF vars, queueVars, closeVars, timerVars
<1> QED
  BY <1>1, <1>2, <1>3, <1>4, <1>5, <1>6, <1>7, <1>8, <1>9, <1>10, <1>11, <1>12, <1>13
     DEF Next, Handshake, OnRead, OnControl, Writing, OnTimer

(* After an error or a close, from either side, what ends the session is   *)
(* done or under way: async_close, or the timer that starts it.            *)
THEOREM EndServedHolds == Spec => []EndServed
<1>1. Init => EndInv
  BY DEF Init, EndInv, EndServed
<1>2. EndInv => EndServed
  BY DEF EndInv
<1> QED
  BY <1>1, <1>2, EndStep, SessionInvHolds, PTL DEF Spec
=============================================================================
