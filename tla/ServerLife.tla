----------------------------- MODULE ServerLife -----------------------------
(***************************************************************************)
(* What server promises to the application, without its threads, mutexes   *)
(* and counters.                                                           *)
(*                                                                         *)
(* A server is down, or one generation of workers serves.  When every      *)
(* worker has left the io_context the io_stopped_handler of async_start(), *)
(* if there is one, runs once; only then stop() returns and the next start *)
(* may come.  Handlers are bound only while the server is down, and no     *)
(* start comes in between.                                                 *)
(***************************************************************************)
VARIABLES phase,    \* where the generation of workers is
          asked,    \* whether it has an io_stopped_handler that has not begun
          binding   \* whether a bind*() is writing a handler

lifeVars == <<phase, asked, binding>>

LifeInit == phase = "down" /\ asked = FALSE /\ binding = FALSE

\* start() of a server with a single worker makes no threads: nothing to wait for.
LifeStart ==
    /\ phase = "down" /\ ~binding
    /\ \/ phase' = "serving" /\ asked' \in BOOLEAN
       \/ phase' = "quiet" /\ asked' = FALSE
    /\ UNCHANGED binding

\* The last worker has left the io_context.
LifeDrain ==
    /\ phase = "serving"
    /\ phase' = "quiet"
    /\ UNCHANGED <<asked, binding>>

LifeHook ==
    /\ phase = "quiet" /\ asked
    /\ phase' = "hook" /\ asked' = FALSE
    /\ UNCHANGED binding

LifeHookEnd ==
    /\ phase = "hook"
    /\ phase' = "quiet"
    /\ UNCHANGED <<asked, binding>>

\* stop() returns.
LifeStop ==
    /\ phase = "quiet" /\ ~asked
    /\ phase' = "down"
    /\ UNCHANGED <<asked, binding>>

LifeBind ==
    /\ phase = "down" /\ ~binding
    /\ binding' = TRUE
    /\ UNCHANGED <<phase, asked>>

LifeBound ==
    /\ binding
    /\ binding' = FALSE
    /\ UNCHANGED <<phase, asked>>

LifeNext ==
    \/ LifeStart \/ LifeDrain \/ LifeHook \/ LifeHookEnd \/ LifeStop
    \/ LifeBind \/ LifeBound

LifeSpec == LifeInit /\ [][LifeNext]_lifeVars
=============================================================================
