-------------------------- MODULE ClientPingProofs --------------------------
(* ping() for any number of calls. *)
EXTENDS ClientPing, TLAPS

LEMMA PingInit == Init => PingInv
<1> SUFFICES ASSUME Init PROVE PingInv
    OBVIOUS
<1>1. 0 \in 0..MaxPings /\ 0 \in Nat
      BY PingAssumption
<1>2. TypeOK
      BY <1>1 DEF Init, TypeOK
<1>3. OnePing /\ FreshPong /\ NoLostPong
      BY DEF Init, OnePing, FreshPong, NoLostPong
<1>4. QED
      BY <1>2, <1>3 DEF Init, PingInv

\* The calling thread.  Its reset of m_pong, under the mutex under which it then
\* waits, is what FreshPong rests on.
LEMMA PingCaller ==
    ASSUME PingInv, Ping \/ PingWait \/ PingWake \/ PingTimeout
    PROVE  PingInv'
<1> USE PingAssumption
         DEF PingInv, TypeOK, OnePing, FreshPong, NoLostPong, ioVars, callerVars
<1>1. CASE Ping
  <2>1. calls' \in 0..MaxPings /\ posts' \in Nat
        BY <1>1 DEF Ping
  <2>2. QED
        BY <1>1, <2>1, Zenon DEF Ping
<1>2. CASE PingWait
      BY <1>2 DEF PingWait, PongBefore
<1>3. CASE PingWake
      BY <1>3 DEF PingWake
<1>4. CASE PingTimeout
      BY <1>4 DEF PingTimeout
<1>5. QED
      BY <1>1, <1>2, <1>3, <1>4

\* The handlers.  m_ping is set exactly while an async_ping is pending.
LEMMA PingHandlers ==
    ASSUME PingInv,
           \/ HandlePing \/ PingSent \/ (\E ok \in BOOLEAN : OnPing(ok))
           \/ OnPong \/ OnPongNotify
    PROVE  PingInv'
<1> USE PingAssumption
         DEF PingInv, TypeOK, OnePing, FreshPong, NoLostPong, ioVars, callerVars
<1>1. CASE HandlePing
  <2>1. posts' \in Nat /\ pending' \in Nat
        BY <1>1 DEF HandlePing
  <2>2. OnePing' /\ (sent' => pending' = 1)
        BY <1>1 DEF HandlePing, MayPing
  <2>3. m_ping' \in BOOLEAN
        BY <1>1 DEF HandlePing
  <2>4. QED
        BY <1>1, <2>1, <2>2, <2>3, Zenon DEF HandlePing
<1>2. CASE PingSent
      BY <1>2 DEF PingSent
<1>3. CASE \E ok \in BOOLEAN : OnPing(ok)
  <2>1. pending = 1 /\ pending' = 0 /\ m_ping' = FALSE /\ sent' = FALSE
        BY <1>3 DEF OnPing
  <2>2. UNCHANGED <<callerVars, notified, posts, m_pong, flight, reader, fresh>>
        BY <1>3 DEF OnPing
  <2>3. pending' \in Nat
        BY <2>1
  <2>4. QED
        BY <2>1, <2>2, <2>3, Zenon
<1>4. CASE OnPong
  <2>1. flight' \in Nat
        BY <1>4 DEF OnPong
  <2>2. fresh' \in BOOLEAN /\ (pc # "idle" => fresh') /\ (fresh => fresh')
        BY <1>4 DEF OnPong
  <2>3. QED
        BY <1>4, <2>1, <2>2, Zenon DEF OnPong
<1>5. CASE OnPongNotify
      BY <1>5 DEF OnPongNotify, Notified
<1>6. QED
      BY <1>1, <1>2, <1>3, <1>4, <1>5

\* PingInv is an inductive invariant of ping() and its handlers.
THEOREM PingInvHolds == Spec => []PingInv
<1>1. PingInv /\ [Next]_vars => PingInv'
  <2> SUFFICES ASSUME PingInv, [Next]_vars PROVE PingInv'
      OBVIOUS
  <2>1. CASE Next
        BY <2>1, PingCaller, PingHandlers DEF Next
  <2>2. CASE UNCHANGED vars
        BY <2>2 DEF vars, ioVars, callerVars, PingInv, TypeOK, OnePing, FreshPong,
                    NoLostPong
  <2>3. QED
        BY <2>1, <2>2
<1>2. QED
      BY PingInit, <1>1, PTL DEF Spec

\* The stream never has two pending pings, and m_ping does not stay set after an
\* error (handle_ping, on_ping).
THEOREM OnePingHolds == Spec => []OnePing
<1>1. PingInv => OnePing
      BY DEF PingInv
<1>2. QED
      BY PingInvHolds, <1>1, PTL

\* ping() reports no pong that was received before it was called.
THEOREM FreshPongHolds == Spec => []FreshPong
<1>1. PingInv => FreshPong
      BY DEF PingInv
<1>2. QED
      BY PingInvHolds, <1>1, PTL

\* The pong callback and the waiting thread cannot miss each other.
THEOREM NoLostPongHolds == Spec => []NoLostPong
<1>1. PingInv => NoLostPong
      BY DEF PingInv
<1>2. QED
      BY PingInvHolds, <1>1, PTL
=============================================================================
