----------------------------- MODULE ClientLife -----------------------------
(***************************************************************************)
(* What client promises to the threads that share it, without locks,       *)
(* references, handlers and the IO thread.                                 *)
(*                                                                         *)
(* There is one session at a time, and it is opened anew only after the    *)
(* one before is deleted.  A thread inside send() or send_recv() gives its *)
(* data to an open session, once for each attempt, and does not return     *)
(* while the data is in use.  A call may throw instead, and leave its data *)
(* in use, but only by a session that is over.  The destructor ends with   *)
(* no session left, and none comes after it.                               *)
(***************************************************************************)
CONSTANT Callers

VARIABLES life,     \* of the session: none, connecting, up, over; gone: no client
          users,    \* threads whose data the session may use
          sending,  \* threads inside send() or send_recv()
          thrown    \* threads whose last call ended with an exception

lifeVars == <<life, users, sending, thrown>>

LifeInit == life = "none" /\ users = {} /\ sending = {} /\ thrown = {}

Open ==
    /\ life = "none" /\ users = {}
    /\ life' = "connecting"
    /\ UNCHANGED <<users, sending, thrown>>

Connect ==
    /\ life = "connecting"
    /\ life' = "up"
    /\ UNCHANGED <<users, sending, thrown>>

\* The session lets go of data, when it is sent or the connection is over.
LetGo ==
    /\ life \in {"connecting", "up", "over"}
    /\ life' \in {life, "over"}
    /\ users' \in SUBSET users
    /\ UNCHANGED <<sending, thrown>>

Delete ==
    /\ life = "over"
    /\ life' = "none" /\ users' = {}
    /\ UNCHANGED <<sending, thrown>>

Destroy ==
    /\ life = "none"
    /\ life' = "gone"
    /\ UNCHANGED <<users, sending, thrown>>

\* A thread begins a call, which may be one that sends.
Call(c) ==
    /\ life # "gone" /\ c \notin sending \cup users
    /\ sending' \in {sending, sending \cup {c}}
    /\ thrown' = thrown \ {c}
    /\ UNCHANGED <<life, users>>

Submit(c) ==
    /\ c \in sending /\ c \notin users
    /\ life \in {"up", "over"}
    /\ users' = users \cup {c}
    /\ UNCHANGED <<life, sending, thrown>>

\* The thread that returns may be the last to hold the session.
Return(c) ==
    /\ c \in sending
    /\ sending' = sending \ {c}
    /\ \/ UNCHANGED <<life, users>>
       \/ life = "over" /\ life' = "none" /\ users' = {}
    /\ c \notin users'
    /\ UNCHANGED thrown

\* The call of c ends with the exception of disconnect() or connect().
Throw(c) ==
    /\ life = "over"
    /\ sending' = sending \ {c}
    /\ thrown' = thrown \cup {c}
    /\ UNCHANGED <<life, users>>

LifeNext ==
    \/ Open \/ Connect \/ LetGo \/ Delete \/ Destroy
    \/ \E c \in Callers : Call(c) \/ Submit(c) \/ Return(c) \/ Throw(c)

LifeSpec == LifeInit /\ [][LifeNext]_lifeVars
=============================================================================
