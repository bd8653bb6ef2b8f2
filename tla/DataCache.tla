------------------------------ MODULE DataCache ------------------------------
(***************************************************************************)
(* detail::data_cache (detail/data.hpp) as client_session uses it: threads *)
(* inside send_recv queue a row, have the request written and wait for the *)
(* row; the IO thread's read loop (on_read) stores the answers.            *)
(*                                                                         *)
(* A row (data_read object) is named by the call that queued it, and an    *)
(* answer by the call it answers; NoCall stands for a null row, an empty   *)
(* buffer, an id with no entry.  The table mutex m_mtx is held across one  *)
(* step only in swap_notify, between the row's update and the notification *)
(* (reader = "notify"); every other critical section is one step, because  *)
(* nothing blocks inside it.  Row mutexes guard only single steps.         *)
(***************************************************************************)
EXTENDS Integers, FiniteSets

CONSTANTS Calls,       \* the send_recv calls made on one session
          NoCall,
          MaxEntries,  \* config::queue_recv_max
          MaxId        \* bound on m_id_counter, never reached if >= |Calls|

ASSUME CacheAssumption ==
    /\ NoCall \notin Calls
    /\ MaxEntries \in Nat
    /\ MaxId \in Nat

VARIABLES
    m_entries,     \* the table: id -> row
    m_id_counter,
    state,         \* data_read::state of each row
    read_buffer,   \* data_read::read_buffer of each row
    expired,       \* rows whose valid() has become false
    id,            \* result_id of each call, 0 before queue() or if it failed
    row,           \* the row pointer each call obtained in wait()
    buffer,        \* recv_bytes of each call
    success,       \* what wait() is about to return, or has returned
    pc,            \* where each call is
    notified,      \* calls whose condition variable was notified in their sleep
    reader,        \* where the IO thread is in on_read
    io_id,         \* swap_notify's cache_itr while reader = "notify"
    io_state,      \* swap_notify's local copy of the row's state
    answered       \* calls whose answer has been read from the stream

tableVars == <<m_entries, m_id_counter>>
rowVars == <<state, read_buffer>>
callVars == <<id, row, buffer, success, pc, notified>>
ioVars == <<reader, io_id, io_state, answered>>
cacheVars == <<tableVars, rowVars, expired, callVars, ioVars>>

Ids == 1..MaxId
OrNone(S) == S \cup {NoCall}

\* start: before queue();  queued: queue() has returned an id;
\* sleep: in cv.wait_for;  take: wait(row) returned, buffers not swapped yet.
CallPc == {"start", "queued", "sleep", "take", "done"}

TypeOK ==
    /\ m_entries \in [Ids -> OrNone(Calls)]
    /\ m_id_counter \in 0..MaxId
    /\ state \in [Calls -> {"none", "queued", "waiting", "swapped"}]
    /\ read_buffer \in [Calls -> OrNone(Calls)]
    /\ expired \in SUBSET Calls
    /\ id \in [Calls -> 0..MaxId]
    /\ row \in [Calls -> OrNone(Calls)]
    /\ buffer \in [Calls -> OrNone(Calls)]
    /\ success \in [Calls -> BOOLEAN]
    /\ pc \in [Calls -> CallPc]
    /\ notified \in SUBSET Calls
    /\ reader \in {"reading", "notify", "obsolete", "ended"}
    /\ io_id \in Ids \cup {0}
    /\ io_state \in {"none", "queued", "waiting", "swapped"}
    /\ answered \in SUBSET Calls

CacheInit ==
    /\ m_entries = [i \in Ids |-> NoCall]
    /\ m_id_counter = 0
    /\ state = [c \in Calls |-> "none"]
    /\ read_buffer = [c \in Calls |-> NoCall]
    /\ expired = {}
    /\ id = [c \in Calls |-> 0]
    /\ row = [c \in Calls |-> NoCall]
    /\ buffer = [c \in Calls |-> NoCall]
    /\ success = [c \in Calls |-> FALSE]
    /\ pc = [c \in Calls |-> "start"]
    /\ notified = {}
    /\ reader = "reading"
    /\ io_id = 0
    /\ io_state = "none"
    /\ answered = {}

UsedIds == {i \in Ids : m_entries[i] # NoCall}
Full == Cardinality(UsedIds) >= MaxEntries
TableFree == reader # "notify"
Rows == {m_entries[i] : i \in UsedIds}

\* Each Mut operator is a defect in the definition that follows it.
MutSleepers(r) == {}                         \* notify_all() is forgotten
Sleepers(r) == {d \in Calls : pc[d] = "sleep" /\ row[d] = r}

MutNextId == Cardinality(UsedIds) + 1        \* ids taken from the table's size
NextId == m_id_counter + 1

MutErase(i) == m_entries                     \* the erase is forgotten
Erase(i) == [m_entries EXCEPT ![i] = NoCall]

MutValid(r) == r \in expired                 \* the validity test inverted
Valid(r) == r \notin expired

MutPredicate(r) == state[r] # "queued"       \* a row merely waited on passes
Predicate(r) == state[r] = "swapped"

\* the state is read after the swap instead of before
MutWasWaiting == state[m_entries[io_id]] = "waiting"
WasWaiting == io_state = "waiting"

-----------------------------------------------------------------------------
(* The calling threads. *)

\* queue() when the table is full: id 0, send_recv returns operation_aborted.
QueueFull(c) ==
    /\ pc[c] = "start" /\ TableFree
    /\ Full
    /\ pc' = [pc EXCEPT ![c] = "done"]
    /\ UNCHANGED <<tableVars, rowVars, expired, id, row, buffer, success,
                   notified, ioVars>>

\* queue(): a fresh row under the next id.
Queue(c) ==
    /\ pc[c] = "start" /\ TableFree
    /\ ~Full
    /\ NextId \in Ids
    /\ m_id_counter' = NextId
    /\ m_entries' = [m_entries EXCEPT ![NextId] = c]
    /\ state' = [state EXCEPT ![c] = "queued"]
    /\ id' = [id EXCEPT ![c] = NextId]
    /\ pc' = [pc EXCEPT ![c] = "queued"]
    /\ UNCHANGED <<read_buffer, expired, row, buffer, success, notified, ioVars>>

\* send_recv's early return when the request was not written in time.
SendTimeout(c) ==
    /\ pc[c] = "queued"
    /\ pc' = [pc EXCEPT ![c] = "done"]
    /\ UNCHANGED <<tableVars, rowVars, expired, id, row, buffer, success,
                   notified, ioVars>>

\* wait() with an id that is no longer in the table.
WaitUnknown(c) ==
    /\ pc[c] = "queued" /\ TableFree
    /\ m_entries[id[c]] = NoCall
    /\ pc' = [pc EXCEPT ![c] = "done"]
    /\ UNCHANGED <<tableVars, rowVars, expired, id, row, buffer, success,
                   notified, ioVars>>

\* wait() whose answer is already there: erase the entry and do not sleep.
WaitSwapped(c) ==
    /\ pc[c] = "queued" /\ TableFree
    /\ m_entries[id[c]] # NoCall
    /\ state[m_entries[id[c]]] = "swapped"
    /\ row' = [row EXCEPT ![c] = m_entries[id[c]]]
    /\ m_entries' = Erase(id[c])
    /\ success' = [success EXCEPT ![c] = TRUE]
    /\ pc' = [pc EXCEPT ![c] = "take"]
    /\ UNCHANGED <<m_id_counter, rowVars, expired, id, buffer, notified, ioVars>>

\* wait() that goes to sleep; the row's mutex is released by cv.wait_for.
WaitSleep(c) ==
    /\ pc[c] = "queued" /\ TableFree
    /\ m_entries[id[c]] # NoCall
    /\ state[m_entries[id[c]]] # "swapped"
    /\ row' = [row EXCEPT ![c] = m_entries[id[c]]]
    /\ state' = [state EXCEPT ![m_entries[id[c]]] = "waiting"]
    /\ pc' = [pc EXCEPT ![c] = "sleep"]
    /\ UNCHANGED <<tableVars, read_buffer, expired, id, buffer, success,
                   notified, ioVars>>

\* A notified sleeper re-evaluates the predicate of wait_for.
Wake(c) ==
    /\ pc[c] = "sleep"
    /\ c \in notified
    /\ Predicate(row[c])
    /\ success' = [success EXCEPT ![c] = TRUE]
    /\ pc' = [pc EXCEPT ![c] = "take"]
    /\ notified' = notified \ {c}
    /\ UNCHANGED <<tableVars, rowVars, expired, id, row, buffer, ioVars>>

\* wait_for times out and returns the predicate's value.
Timeout(c) ==
    /\ pc[c] = "sleep"
    /\ success' = [success EXCEPT ![c] = Predicate(row[c])]
    /\ pc' = [pc EXCEPT ![c] = "take"]
    /\ notified' = notified \ {c}
    /\ UNCHANGED <<tableVars, rowVars, expired, id, row, buffer, ioVars>>

\* The outer wait(): swap the buffers, on success and after a timeout alike.
Take(c) ==
    /\ pc[c] = "take"
    /\ buffer' = [buffer EXCEPT ![c] = read_buffer[row[c]]]
    /\ read_buffer' = [read_buffer EXCEPT ![row[c]] = buffer[c]]
    /\ pc' = [pc EXCEPT ![c] = "done"]
    /\ UNCHANGED <<tableVars, state, expired, id, row, success, notified, ioVars>>

-----------------------------------------------------------------------------
(* The IO thread: client_session::on_read. *)

\* swap_notify() up to the release of the row's mutex, for the answer to c.
SwapNotify(c) ==
    /\ reader = "reading"
    /\ id[c] # 0 /\ c \notin answered
    /\ m_entries[id[c]] # NoCall
    /\ answered' = answered \cup {c}
    /\ io_id' = id[c]
    /\ io_state' = state[m_entries[id[c]]]
    /\ read_buffer' = [read_buffer EXCEPT ![m_entries[id[c]]] = c]
    /\ state' = [state EXCEPT ![m_entries[id[c]]] = "swapped"]
    /\ reader' = "notify"
    /\ UNCHANGED <<tableVars, expired, callVars>>

\* The rest of swap_notify(): a row that was waited on is notified and erased.
SwapNotifyEnd ==
    /\ reader = "notify"
    /\ IF WasWaiting
       THEN /\ notified' = notified \cup Sleepers(m_entries[io_id])
            /\ m_entries' = Erase(io_id)
       ELSE UNCHANGED <<notified, m_entries>>
    /\ reader' = "obsolete"
    /\ io_id' = 0
    /\ io_state' = "none"
    /\ UNCHANGED <<m_id_counter, rowVars, expired, id, row, buffer, success,
                   pc, answered>>

\* swap_notify() for an answer whose row has left the table: it is dropped.
SwapNotifyUnknown(c) ==
    /\ reader = "reading"
    /\ id[c] # 0 /\ c \notin answered
    /\ m_entries[id[c]] = NoCall
    /\ answered' = answered \cup {c}
    /\ reader' = "obsolete"
    /\ UNCHANGED <<tableVars, rowVars, expired, callVars, io_id, io_state>>

\* A broadcast, or a frame too short for an io_header.
OnReadOther ==
    /\ reader = "reading"
    /\ reader' = "obsolete"
    /\ UNCHANGED <<tableVars, rowVars, expired, callVars, io_id, io_state,
                   answered>>

\* remove_obsolete(), then the next async_read.
RemoveObsolete ==
    /\ reader = "obsolete"
    /\ m_entries' = [i \in Ids |-> IF Valid(m_entries[i])
                                   THEN m_entries[i] ELSE NoCall]
    /\ reader' = "reading"
    /\ UNCHANGED <<m_id_counter, rowVars, expired, callVars, io_id, io_state,
                   answered>>

\* on_read with an error: clear() wakes every sleeper; reading has ended.
Clear ==
    /\ reader = "reading"
    /\ state' = [r \in Calls |-> IF r \in Rows THEN "swapped" ELSE state[r]]
    /\ notified' = notified \cup UNION {Sleepers(r) : r \in Rows}
    /\ m_entries' = [i \in Ids |-> NoCall]
    /\ reader' = "ended"
    /\ UNCHANGED <<m_id_counter, read_buffer, expired, id, row, buffer,
                   success, pc, io_id, io_state, answered>>

\* Time passes until a row's valid() is false.
Expire(c) ==
    /\ id[c] # 0 /\ c \notin expired
    /\ expired' = expired \cup {c}
    /\ UNCHANGED <<tableVars, rowVars, callVars, ioVars>>

-----------------------------------------------------------------------------
CallNext(c) ==
    \/ QueueFull(c) \/ Queue(c) \/ SendTimeout(c)
    \/ WaitUnknown(c) \/ WaitSwapped(c) \/ WaitSleep(c)
    \/ Wake(c) \/ Timeout(c) \/ Take(c)

ReaderNext ==
    \/ SwapNotifyEnd \/ OnReadOther \/ RemoveObsolete \/ Clear
    \/ \E c \in Calls : SwapNotify(c) \/ SwapNotifyUnknown(c)

CacheNext ==
    \/ ReaderNext
    \/ \E c \in Calls : CallNext(c) \/ Expire(c)

CacheSpec == CacheInit /\ [][CacheNext]_cacheVars

-----------------------------------------------------------------------------
(* Properties. *)

\* No call ever receives another call's answer, whatever the order in which
\* calls time out, rows expire and late answers come in: result ids are not
\* reused (data_cache::queue) and a late answer finds no row (swap_notify).
OwnAnswer == \A c \in Calls : buffer[c] \in {NoCall, c}

\* A thread asleep in wait() on a row that has been swapped has been notified,
\* or the IO thread is in swap_notify about to notify it: the state the row
\* had before the swap decides the notification, and no order of wait(),
\* swap_notify() and clear() leaves a sleeper behind.
NoLostWakeup ==
    \A c \in Calls :
        pc[c] = "sleep" /\ state[row[c]] = "swapped" =>
            \/ c \in notified
            \/ reader = "notify" /\ m_entries[io_id] = row[c] /\ io_state = "waiting"

\* Once wait() has returned true the row is out of the table, so that it no
\* longer counts against queue_recv_max; only a call that times out while the
\* IO thread is between the swap and the erase may be ahead of the erase.
SuccessErases ==
    \A c \in Calls :
        pc[c] = "done" /\ success[c] /\ row[c] \in Rows =>
            reader = "notify" /\ m_entries[io_id] = row[c] /\ io_state = "waiting"

\* An answer read before its row expired is stored in the row: neither an
\* earlier remove_obsolete() nor another call's wait() takes the entry away.
NoAnswerDropped == \A c \in answered \ expired : state[c] = "swapped"

\* Without any help from timeouts, a thread asleep on an answered row leaves
\* wait() and returns.
AnsweredReturns ==
    \A c \in Calls :
        pc[c] = "sleep" /\ state[row[c]] = "swapped" ~> pc[c] = "done"

\* The outcome of a call as its caller sees it.
Outcome(c) ==
    IF pc[c] = "start" THEN "idle"
    ELSE IF pc[c] # "done" THEN "open"
    ELSE IF ~success[c] THEN "error"
    ELSE IF buffer[c] = c THEN "reply"
    ELSE IF buffer[c] = NoCall THEN "empty"
    ELSE "foreign"

Rpc == INSTANCE RpcCall WITH result <- [c \in Calls |-> Outcome(c)],
                             answered <- answered,
                             lost <- (reader = "ended")

\* The cache with its callers implements the call: own answer or failure, and
\* an empty success only after the connection was lost.
RefinesRpcCall == Rpc!RpcSpec

-----------------------------------------------------------------------------
(* The inductive invariant behind OwnAnswer, NoLostWakeup, SuccessErases,  *)
(* NoAnswerDropped and RefinesRpcCall.                                     *)

\* Ids identify calls, and a call has one as soon as it is past queue().
IdsInv ==
    \A c \in Calls :
        /\ id[c] <= m_id_counter
        /\ pc[c] = "start" => id[c] = 0 /\ state[c] = "none"
        /\ pc[c] \in {"queued", "sleep", "take"} => id[c] # 0
        /\ id[c] = 0 => c \notin answered
        /\ \A d \in Calls : id[c] # 0 /\ id[c] = id[d] => c = d

\* An entry is the row queued under its id.
EntriesInv ==
    /\ \A i \in Ids : m_entries[i] # NoCall => id[m_entries[i]] = i
    /\ reader = "notify" =>
          /\ io_id # 0
          /\ m_entries[io_id] # NoCall
          /\ state[m_entries[io_id]] = "swapped"

\* Rows and buffers hold the answer of their own call or nothing.
OwnInv ==
    \A c \in Calls :
        /\ row[c] \in {NoCall, c}
        /\ pc[c] \in {"sleep", "take"} => row[c] = c
        /\ read_buffer[c] \in {NoCall, c}
        /\ buffer[c] \in {NoCall, c}
        /\ c \in {read_buffer[c], buffer[c]} => c \in answered
        /\ pc[c] # "done" => buffer[c] = NoCall

\* Who is told what: notifications, success and the table.
WaitInv ==
    \A c \in Calls :
        /\ pc[c] = "sleep" => state[c] \in {"waiting", "swapped"}
        /\ pc[c] \in {"start", "queued", "sleep"} => ~success[c]
        /\ c \in notified => pc[c] = "sleep" /\ m_entries[id[c]] = NoCall
        /\ success[c] => /\ id[c] # 0 /\ row[c] = c
                         /\ \/ m_entries[id[c]] = NoCall
                            \/ /\ reader = "notify" /\ io_id = id[c]
                               /\ io_state = "waiting"

\* As long as the connection lives, swapped means answered, the answer is
\* where its caller will look for it, and unanswered rows stay in the table.
AnswerInv ==
    \A c \in Calls :
        /\ c \in answered \ expired => state[c] = "swapped"
        /\ reader # "ended" =>
              /\ state[c] = "swapped" => c \in answered
              /\ state[c] = "swapped" /\ pc[c] # "done" => read_buffer[c] = c
              /\ success[c] => state[c] = "swapped"
              /\ success[c] /\ pc[c] = "done" => buffer[c] = c
              /\ id[c] # 0 /\ c \notin answered \cup expired =>
                    m_entries[id[c]] = c

CacheInv ==
    /\ TypeOK
    /\ IdsInv
    /\ EntriesInv
    /\ OwnInv
    /\ NoLostWakeup
    /\ WaitInv
    /\ AnswerInv
=============================================================================
