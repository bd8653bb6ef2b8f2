------------------------------- MODULE RpcCall -------------------------------
(***************************************************************************)
(* What client_session::send_recv promises to the threads that call it,    *)
(* without its cache, its queue or its locks.                               *)
(*                                                                         *)
(* A call is open from its invocation to its return.  The server's answer  *)
(* to it may reach the client at any time after the invocation, also too   *)
(* late, and at most once.  A call that returns with the answer got its    *)
(* OWN answer; a call that returns success with an empty buffer does so    *)
(* only after the connection was lost; a call may always fail.             *)
(***************************************************************************)
CONSTANT Calls

VARIABLES result,    \* what each call has returned so far
          answered,  \* the calls whose answer has reached the client
          lost       \* whether the connection has been lost

rpcVars == <<result, answered, lost>>

Results == {"idle", "open", "reply", "empty", "error"}

RpcInit ==
    /\ result = [c \in Calls |-> "idle"]
    /\ answered = {}
    /\ lost = FALSE

Invoke(c) ==
    /\ result[c] = "idle"
    /\ result' = [result EXCEPT ![c] = "open"]
    /\ UNCHANGED <<answered, lost>>

\* The call is turned down before anything is sent.
Reject(c) ==
    /\ result[c] = "idle"
    /\ result' = [result EXCEPT ![c] = "error"]
    /\ UNCHANGED <<answered, lost>>

Answer(c) ==
    /\ result[c] # "idle"
    /\ ~lost
    /\ c \notin answered
    /\ answered' = answered \cup {c}
    /\ UNCHANGED <<result, lost>>

Lose ==
    /\ ~lost
    /\ lost' = TRUE
    /\ UNCHANGED <<result, answered>>

Return(c, r) ==
    /\ result[c] = "open"
    /\ r = "reply" => c \in answered
    /\ r = "empty" => lost
    /\ result' = [result EXCEPT ![c] = r]
    /\ UNCHANGED <<answered, lost>>

RpcNext ==
    \/ Lose
    \/ \E c \in Calls :
          \/ Invoke(c)
          \/ Reject(c)
          \/ Answer(c)
          \/ \E r \in {"reply", "empty", "error"} : Return(c, r)

RpcSpec == RpcInit /\ [][RpcNext]_rpcVars
=============================================================================
