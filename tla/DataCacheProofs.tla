--------------------------- MODULE DataCacheProofs ---------------------------
(***************************************************************************)
(* Proofs about DataCache, for any set of calls, any table size and any    *)
(* bound on the ids: the inductive invariant CacheInv, the safety           *)
(* properties it implies, and the refinement of RpcCall.                   *)
(***************************************************************************)
EXTENDS DataCache, TLAPS

USE CacheAssumption DEF Ids, OrNone, CallPc

(* The initial state satisfies the inductive invariant. *)
LEMMA InitInv == CacheInit => CacheInv
BY DEF CacheInit, CacheInv, TypeOK, IdsInv, EntriesInv, OwnInv, NoLostWakeup,
       WaitInv, AnswerInv

(* QueueFull preserves the inductive invariant. *)
LEMMA QueueFullInv == ASSUME CacheInv, NEW c \in Calls, QueueFull(c) PROVE CacheInv'
<1> USE DEF QueueFull, TableFree, tableVars, rowVars, callVars, ioVars
<1>1. TypeOK'
  BY DEF CacheInv, TypeOK
<1>2. IdsInv'
  BY DEF CacheInv, IdsInv
<1>3. EntriesInv'
  BY DEF CacheInv, EntriesInv
<1>4. OwnInv'
  BY DEF CacheInv, OwnInv
<1>5. NoLostWakeup'
  BY DEF CacheInv, NoLostWakeup
<1>6. WaitInv'
  BY DEF CacheInv, TypeOK, IdsInv, EntriesInv, OwnInv, NoLostWakeup, WaitInv
<1>7. AnswerInv'
  BY DEF CacheInv, IdsInv, AnswerInv
<1> QED BY <1>1, <1>2, <1>3, <1>4, <1>5, <1>6, <1>7 DEF CacheInv

(* Queue preserves the inductive invariant. *)
LEMMA QueueInv == ASSUME CacheInv, NEW c \in Calls, Queue(c) PROVE CacheInv'
<1> USE DEF Queue, Full, NextId, TableFree, tableVars, rowVars, callVars, ioVars
<1>1. TypeOK'
  BY DEF CacheInv, TypeOK
<1>2. IdsInv'
  BY DEF CacheInv, TypeOK, IdsInv
<1>3. EntriesInv'
  BY DEF CacheInv, TypeOK, IdsInv, EntriesInv
<1>4. OwnInv'
  BY DEF CacheInv, OwnInv
<1>5. NoLostWakeup'
  BY DEF CacheInv, NoLostWakeup
<1>6. WaitInv'
  BY DEF CacheInv, TypeOK, IdsInv, WaitInv
<1>7. AnswerInv'
  BY DEF CacheInv, TypeOK, IdsInv, AnswerInv
<1> QED BY <1>1, <1>2, <1>3, <1>4, <1>5, <1>6, <1>7 DEF CacheInv

(* SendTimeout preserves the inductive invariant. *)
LEMMA SendTimeoutInv == ASSUME CacheInv, NEW c \in Calls, SendTimeout(c) PROVE CacheInv'
<1> USE DEF SendTimeout, TableFree, tableVars, rowVars, callVars, ioVars
<1>1. TypeOK'
  BY DEF CacheInv, TypeOK
<1>2. IdsInv'
  BY DEF CacheInv, IdsInv
<1>3. EntriesInv'
  BY DEF CacheInv, EntriesInv
<1>4. OwnInv'
  BY DEF CacheInv, OwnInv
<1>5. NoLostWakeup'
  BY DEF CacheInv, NoLostWakeup
<1>6. WaitInv'
  BY DEF CacheInv, WaitInv
<1>7. AnswerInv'
  BY DEF CacheInv, WaitInv, AnswerInv
<1> QED BY <1>1, <1>2, <1>3, <1>4, <1>5, <1>6, <1>7 DEF CacheInv

(* WaitUnknown preserves the inductive invariant. *)
LEMMA WaitUnknownInv == ASSUME CacheInv, NEW c \in Calls, WaitUnknown(c) PROVE CacheInv'
<1> USE DEF WaitUnknown, TableFree, tableVars, rowVars, callVars, ioVars
<1>1. TypeOK'
  BY DEF CacheInv, TypeOK
<1>2. IdsInv'
  BY DEF CacheInv, IdsInv
<1>3. EntriesInv'
  BY DEF CacheInv, EntriesInv
<1>4. OwnInv'
  BY DEF CacheInv, OwnInv
<1>5. NoLostWakeup'
  BY DEF CacheInv, NoLostWakeup
<1>6. WaitInv'
  BY DEF CacheInv, WaitInv
<1>7. AnswerInv'
  BY DEF CacheInv, WaitInv, AnswerInv
<1> QED BY <1>1, <1>2, <1>3, <1>4, <1>5, <1>6, <1>7 DEF CacheInv

(* WaitSwapped preserves the inductive invariant. *)
LEMMA WaitSwappedInv == ASSUME CacheInv, NEW c \in Calls, WaitSwapped(c) PROVE CacheInv'
<1> USE DEF WaitSwapped, Erase, TableFree, tableVars, rowVars, callVars, ioVars
<1>1. TypeOK'
  BY DEF CacheInv, TypeOK, IdsInv
<1>2. IdsInv'
  BY DEF CacheInv, IdsInv
<1>3. EntriesInv'
  BY DEF CacheInv, EntriesInv
<1>4. OwnInv'
  BY DEF CacheInv, TypeOK, IdsInv, EntriesInv, OwnInv
<1>5. NoLostWakeup'
  BY DEF CacheInv, NoLostWakeup
<1>6. WaitInv'
  BY DEF CacheInv, TypeOK, IdsInv, EntriesInv, WaitInv
<1>7. AnswerInv'
  BY DEF CacheInv, TypeOK, IdsInv, EntriesInv, AnswerInv
<1> QED BY <1>1, <1>2, <1>3, <1>4, <1>5, <1>6, <1>7 DEF CacheInv

(* WaitSleep preserves the inductive invariant. *)
LEMMA WaitSleepInv == ASSUME CacheInv, NEW c \in Calls, WaitSleep(c) PROVE CacheInv'
<1> USE DEF WaitSleep, TableFree, tableVars, rowVars, callVars, ioVars
<1>1. TypeOK'
  BY DEF CacheInv, TypeOK, IdsInv
<1>2. IdsInv'
  BY DEF CacheInv, TypeOK, IdsInv, EntriesInv
<1>3. EntriesInv'
  BY DEF CacheInv, EntriesInv
<1>4. OwnInv'
  BY DEF CacheInv, TypeOK, IdsInv, EntriesInv, OwnInv, NoLostWakeup, WaitInv
<1>5. NoLostWakeup'
  BY DEF CacheInv, TypeOK, NoLostWakeup
<1>6. WaitInv'
  BY DEF CacheInv, TypeOK, IdsInv, EntriesInv, WaitInv
<1>7. AnswerInv'
  BY DEF CacheInv, AnswerInv
<1> QED BY <1>1, <1>2, <1>3, <1>4, <1>5, <1>6, <1>7 DEF CacheInv

(* Wake preserves the inductive invariant. *)
LEMMA WakeInv == ASSUME CacheInv, NEW c \in Calls, Wake(c) PROVE CacheInv'
<1> USE DEF Wake, Predicate, TableFree, tableVars, rowVars, callVars, ioVars
<1>1. TypeOK'
  BY DEF CacheInv, TypeOK
<1>2. IdsInv'
  BY DEF CacheInv, IdsInv
<1>3. EntriesInv'
  BY DEF CacheInv, EntriesInv
<1>4. OwnInv'
  BY DEF CacheInv, OwnInv
<1>5. NoLostWakeup'
  BY DEF CacheInv, TypeOK, NoLostWakeup
<1>6. WaitInv'
  BY DEF CacheInv, TypeOK, IdsInv, OwnInv, WaitInv
<1>7. AnswerInv'
  BY DEF CacheInv, OwnInv, AnswerInv
<1> QED BY <1>1, <1>2, <1>3, <1>4, <1>5, <1>6, <1>7 DEF CacheInv

(* Timeout preserves the inductive invariant. *)
LEMMA TimeoutInv == ASSUME CacheInv, NEW c \in Calls, Timeout(c) PROVE CacheInv'
<1> USE DEF Timeout, Predicate, TableFree, tableVars, rowVars, callVars, ioVars
<1>1. TypeOK'
  BY DEF CacheInv, TypeOK
<1>2. IdsInv'
  BY DEF CacheInv, IdsInv
<1>3. EntriesInv'
  BY DEF CacheInv, EntriesInv
<1>4. OwnInv'
  BY DEF CacheInv, OwnInv
<1>5. NoLostWakeup'
  BY DEF CacheInv, TypeOK, NoLostWakeup
<1>6. WaitInv'
  BY DEF CacheInv, TypeOK, IdsInv, EntriesInv, OwnInv, NoLostWakeup, WaitInv
<1>7. AnswerInv'
  BY DEF CacheInv, TypeOK, OwnInv, AnswerInv
<1> QED BY <1>1, <1>2, <1>3, <1>4, <1>5, <1>6, <1>7 DEF CacheInv

(* Take preserves the inductive invariant. *)
LEMMA TakeInv == ASSUME CacheInv, NEW c \in Calls, Take(c) PROVE CacheInv'
<1> USE DEF Take, TableFree, tableVars, rowVars, callVars, ioVars
<1>1. TypeOK'
  BY DEF CacheInv, TypeOK, OwnInv
<1>2. IdsInv'
  BY DEF CacheInv, IdsInv
<1>3. EntriesInv'
  BY DEF CacheInv, EntriesInv
<1>4. OwnInv'
  BY DEF CacheInv, TypeOK, OwnInv
<1>5. NoLostWakeup'
  BY DEF CacheInv, NoLostWakeup
<1>6. WaitInv'
  BY DEF CacheInv, WaitInv
<1>7. AnswerInv'
  BY DEF CacheInv, TypeOK, OwnInv, AnswerInv
<1> QED BY <1>1, <1>2, <1>3, <1>4, <1>5, <1>6, <1>7 DEF CacheInv

(* SwapNotify preserves the inductive invariant. *)
LEMMA SwapNotifyInv == ASSUME CacheInv, NEW c \in Calls, SwapNotify(c) PROVE CacheInv'
<1> USE DEF SwapNotify, TableFree, tableVars, rowVars, callVars, ioVars
<1>1. TypeOK'
  BY DEF CacheInv, TypeOK
<1>2. IdsInv'
  BY DEF CacheInv, TypeOK, IdsInv, EntriesInv
<1>3. EntriesInv'
  BY DEF CacheInv, TypeOK, EntriesInv
<1>4. OwnInv'
  BY DEF CacheInv, TypeOK, IdsInv, EntriesInv, OwnInv
<1>5. NoLostWakeup'
  BY DEF CacheInv, OwnInv, NoLostWakeup, WaitInv
<1>6. WaitInv'
  BY DEF CacheInv, WaitInv
<1>7. AnswerInv'
  BY DEF CacheInv, TypeOK, IdsInv, EntriesInv, AnswerInv
<1> QED BY <1>1, <1>2, <1>3, <1>4, <1>5, <1>6, <1>7 DEF CacheInv

(* SwapNotifyEnd preserves the inductive invariant. *)
LEMMA SwapNotifyEndInv == ASSUME CacheInv, SwapNotifyEnd PROVE CacheInv'
<1> USE DEF SwapNotifyEnd, WasWaiting, Sleepers, Erase, TableFree, tableVars, rowVars, callVars, ioVars
<1>1. TypeOK'
  BY DEF CacheInv, TypeOK, EntriesInv
<1>2. IdsInv'
  BY DEF CacheInv, IdsInv
<1>3. EntriesInv'
  BY DEF CacheInv, TypeOK, EntriesInv
<1>4. OwnInv'
  BY DEF CacheInv, OwnInv
<1>5. NoLostWakeup'
  BY DEF CacheInv, NoLostWakeup
<1>6. WaitInv'
  BY DEF CacheInv, TypeOK, IdsInv, EntriesInv, OwnInv, WaitInv
<1>7. AnswerInv'
  BY DEF CacheInv, TypeOK, EntriesInv, AnswerInv
<1> QED BY <1>1, <1>2, <1>3, <1>4, <1>5, <1>6, <1>7 DEF CacheInv

(* SwapNotifyUnknown preserves the inductive invariant. *)
LEMMA SwapNotifyUnknownInv == ASSUME CacheInv, NEW c \in Calls, SwapNotifyUnknown(c) PROVE CacheInv'
<1> USE DEF SwapNotifyUnknown, TableFree, tableVars, rowVars, callVars, ioVars
<1>1. TypeOK'
  BY DEF CacheInv, TypeOK
<1>2. IdsInv'
  BY DEF CacheInv, IdsInv
<1>3. EntriesInv'
  BY DEF CacheInv, EntriesInv
<1>4. OwnInv'
  BY DEF CacheInv, OwnInv
<1>5. NoLostWakeup'
  BY DEF CacheInv, NoLostWakeup
<1>6. WaitInv'
  BY DEF CacheInv, WaitInv
<1>7. AnswerInv'
  BY DEF CacheInv, AnswerInv
<1> QED BY <1>1, <1>2, <1>3, <1>4, <1>5, <1>6, <1>7 DEF CacheInv

(* OnReadOther preserves the inductive invariant. *)
LEMMA OnReadOtherInv == ASSUME CacheInv, OnReadOther PROVE CacheInv'
<1> USE DEF OnReadOther, TableFree, tableVars, rowVars, callVars, ioVars
<1>1. TypeOK'
  BY DEF CacheInv, TypeOK
<1>2. IdsInv'
  BY DEF CacheInv, IdsInv
<1>3. EntriesInv'
  BY DEF CacheInv, EntriesInv
<1>4. OwnInv'
  BY DEF CacheInv, OwnInv
<1>5. NoLostWakeup'
  BY DEF CacheInv, NoLostWakeup
<1>6. WaitInv'
  BY DEF CacheInv, TypeOK, IdsInv, EntriesInv, OwnInv, NoLostWakeup, WaitInv
<1>7. AnswerInv'
  BY DEF CacheInv, AnswerInv
<1> QED BY <1>1, <1>2, <1>3, <1>4, <1>5, <1>6, <1>7 DEF CacheInv

(* RemoveObsolete preserves the inductive invariant. *)
LEMMA RemoveObsoleteInv == ASSUME CacheInv, RemoveObsolete PROVE CacheInv'
<1> USE DEF RemoveObsolete, Valid, TableFree, tableVars, rowVars, callVars, ioVars
<1>1. TypeOK'
  BY DEF CacheInv, TypeOK
<1>2. IdsInv'
  BY DEF CacheInv, IdsInv
<1>3. EntriesInv'
  BY DEF CacheInv, EntriesInv
<1>4. OwnInv'
  BY DEF CacheInv, OwnInv
<1>5. NoLostWakeup'
  BY DEF CacheInv, NoLostWakeup
<1>6. WaitInv'
  BY DEF CacheInv, TypeOK, IdsInv, WaitInv
<1>7. AnswerInv'
  BY DEF CacheInv, TypeOK, AnswerInv
<1> QED BY <1>1, <1>2, <1>3, <1>4, <1>5, <1>6, <1>7 DEF CacheInv

(* Clear preserves the inductive invariant. *)
LEMMA ClearInv == ASSUME CacheInv, Clear PROVE CacheInv'
<1> USE DEF Clear, Rows, UsedIds, Sleepers, TableFree, tableVars, rowVars, callVars, ioVars
<1>1. TypeOK'
  BY DEF CacheInv, TypeOK
<1>2. IdsInv'
  BY DEF CacheInv, IdsInv, EntriesInv
<1>3. EntriesInv'
  BY DEF CacheInv, EntriesInv
<1>4. OwnInv'
  BY DEF CacheInv, OwnInv
<1>5. NoLostWakeup'
  BY DEF CacheInv, OwnInv, NoLostWakeup
<1>6. WaitInv'
  BY DEF CacheInv, TypeOK, IdsInv, WaitInv
<1>7. AnswerInv'
  BY DEF CacheInv, AnswerInv
<1> QED BY <1>1, <1>2, <1>3, <1>4, <1>5, <1>6, <1>7 DEF CacheInv

(* Expire preserves the inductive invariant. *)
LEMMA ExpireInv == ASSUME CacheInv, NEW c \in Calls, Expire(c) PROVE CacheInv'
<1> USE DEF Expire, TableFree, tableVars, rowVars, callVars, ioVars
<1>1. TypeOK'
  BY DEF CacheInv, TypeOK
<1>2. IdsInv'
  BY DEF CacheInv, IdsInv
<1>3. EntriesInv'
  BY DEF CacheInv, EntriesInv
<1>4. OwnInv'
  BY DEF CacheInv, OwnInv
<1>5. NoLostWakeup'
  BY DEF CacheInv, NoLostWakeup
<1>6. WaitInv'
  BY DEF CacheInv, WaitInv
<1>7. AnswerInv'
  BY DEF CacheInv, AnswerInv
<1> QED BY <1>1, <1>2, <1>3, <1>4, <1>5, <1>6, <1>7 DEF CacheInv

(* Every step of the cache preserves the inductive invariant. *)
LEMMA StepInv == CacheInv /\ [CacheNext]_cacheVars => CacheInv'
<1> SUFFICES ASSUME CacheInv, [CacheNext]_cacheVars PROVE CacheInv'
  OBVIOUS
<1>1. CASE ReaderNext
  BY <1>1, SwapNotifyInv, SwapNotifyEndInv, SwapNotifyUnknownInv,
     OnReadOtherInv, RemoveObsoleteInv, ClearInv DEF ReaderNext
<1>2. ASSUME NEW c \in Calls, CallNext(c) PROVE CacheInv'
  BY <1>2, QueueFullInv, QueueInv, SendTimeoutInv, WaitUnknownInv,
     WaitSwappedInv, WaitSleepInv, WakeInv, TimeoutInv, TakeInv DEF CallNext
<1>3. ASSUME NEW c \in Calls, Expire(c) PROVE CacheInv'
  BY <1>3, ExpireInv
<1>4. CASE UNCHANGED cacheVars
  BY <1>4 DEF CacheInv, TypeOK, IdsInv, EntriesInv, OwnInv, NoLostWakeup,
              WaitInv, AnswerInv, cacheVars, tableVars, rowVars, callVars, ioVars
<1> QED
  BY <1>1, <1>2, <1>3, <1>4 DEF CacheNext

(* The inductive invariant holds in every reachable state of the cache and *)
(* its callers: data_cache's table, rows and sleepers stay consistent.     *)
THEOREM CacheInvHolds == CacheSpec => []CacheInv
<1>1. CacheInit => CacheInv
  BY InitInv
<1>2. CacheInv /\ [CacheNext]_cacheVars => CacheInv'
  BY StepInv
<1> QED
  BY <1>1, <1>2, PTL DEF CacheSpec

(* No send_recv ever returns another call's answer. *)
THEOREM OwnAnswerHolds == CacheSpec => []OwnAnswer
<1>1. CacheInv => OwnAnswer
  BY DEF CacheInv, OwnInv, OwnAnswer
<1> QED
  BY <1>1, CacheInvHolds, PTL

(* No thread sleeps in wait() on a row that is already swapped without a *)
(* notification on its way.                                              *)
THEOREM NoLostWakeupHolds == CacheSpec => []NoLostWakeup
<1>1. CacheInv => NoLostWakeup
  BY DEF CacheInv
<1> QED
  BY <1>1, CacheInvHolds, PTL

(* wait() returns true only with its row out of the table. *)
THEOREM SuccessErasesHolds == CacheSpec => []SuccessErases
<1>1. CacheInv => SuccessErases
  <2> SUFFICES ASSUME CacheInv, NEW c \in Calls, pc[c] = "done", success[c],
                      row[c] \in Rows
               PROVE  /\ reader = "notify" /\ m_entries[io_id] = row[c]
                      /\ io_state = "waiting"
    BY DEF SuccessErases
  <2>1. PICK i \in Ids : m_entries[i] = row[c] /\ row[c] # NoCall
    BY DEF Rows, UsedIds
  <2>2. row[c] = c /\ id[c] = i
    BY <2>1 DEF CacheInv, OwnInv, EntriesInv
  <2> QED
    BY <2>1, <2>2 DEF CacheInv, WaitInv
<1> QED
  BY <1>1, CacheInvHolds, PTL

(* An answer that is read before its row expired is stored in its row. *)
THEOREM NoAnswerDroppedHolds == CacheSpec => []NoAnswerDropped
<1>1. CacheInv => NoAnswerDropped
  BY DEF CacheInv, TypeOK, AnswerInv, NoAnswerDropped
<1> QED
  BY <1>1, CacheInvHolds, PTL

-----------------------------------------------------------------------------
(* The refinement of RpcCall. *)

(* The calls' results, as RpcCall names them, change only where the calls' *)
(* own state changes.                                                      *)
LEMMA SameOutcome ==
    ASSUME UNCHANGED <<pc, success, buffer>>
    PROVE  [c \in Calls |-> Outcome(c)]' = [c \in Calls |-> Outcome(c)]
BY DEF Outcome

(* A step of call c that changes only c's own state changes only c's result. *)
LEMMA OneOutcome ==
    ASSUME NEW c \in Calls, NEW r,
           \A d \in Calls \ {c} : /\ pc'[d] = pc[d] /\ success'[d] = success[d]
                                  /\ buffer'[d] = buffer[d],
           Outcome(c)' = r
    PROVE  [d \in Calls |-> Outcome(d)]'
             = [[d \in Calls |-> Outcome(d)] EXCEPT ![c] = r]
<1>1. \A d \in Calls \ {c} : Outcome(d)' = Outcome(d)
  BY DEF Outcome
<1> QED
  BY <1>1

(* A call returns: any failure, its own answer, or nothing after a loss. *)
LEMMA ReturnStep ==
    ASSUME NEW c \in Calls, NEW r \in {"reply", "empty", "error"},
           pc[c] \in {"queued", "take"}, Outcome(c)' = r,
           r = "reply" => c \in answered, r = "empty" => reader = "ended",
           \A d \in Calls \ {c} : /\ pc'[d] = pc[d] /\ success'[d] = success[d]
                                  /\ buffer'[d] = buffer[d],
           UNCHANGED <<answered, reader>>
    PROVE  Rpc!RpcNext
<1>1. Outcome(c) = "open"
  BY DEF Outcome
<1>2. Rpc!Return(c, r)
  BY <1>1, OneOutcome DEF Rpc!Return
<1> QED
  BY <1>2 DEF Rpc!RpcNext

(* Every step of the cache is a step of RpcCall or leaves it unchanged. *)
LEMMA RpcStep ==
    CacheInv /\ [CacheNext]_cacheVars => [Rpc!RpcNext]_(Rpc!rpcVars)
<1> SUFFICES ASSUME CacheInv, [CacheNext]_cacheVars
             PROVE  [Rpc!RpcNext]_(Rpc!rpcVars)
  OBVIOUS
<1> USE DEF tableVars, rowVars, callVars, ioVars
<1>1. CASE UNCHANGED <<pc, success, buffer, answered, reader>>
  BY <1>1, SameOutcome DEF Rpc!rpcVars
<1>2. ASSUME NEW c \in Calls, QueueFull(c) PROVE Rpc!RpcNext
  <2>1. Outcome(c) = "idle" /\ Outcome(c)' = "error"
    BY <1>2 DEF QueueFull, CacheInv, TypeOK, WaitInv, Outcome
  <2>2. Rpc!Reject(c)
    BY <1>2, <2>1, OneOutcome DEF QueueFull, CacheInv, TypeOK, Rpc!Reject
  <2> QED
    BY <2>2 DEF Rpc!RpcNext
<1>3. ASSUME NEW c \in Calls, Queue(c) PROVE Rpc!RpcNext
  <2>1. Outcome(c) = "idle" /\ Outcome(c)' = "open"
    BY <1>3 DEF Queue, CacheInv, TypeOK, Outcome
  <2>2. Rpc!Invoke(c)
    BY <1>3, <2>1, OneOutcome DEF Queue, CacheInv, TypeOK, Rpc!Invoke
  <2> QED
    BY <2>2 DEF Rpc!RpcNext
<1>4. ASSUME NEW c \in Calls, SendTimeout(c) \/ WaitUnknown(c)
      PROVE  Rpc!RpcNext
  <2>1. Outcome(c)' = "error"
    BY <1>4 DEF SendTimeout, WaitUnknown, CacheInv, TypeOK, WaitInv, Outcome
  <2> QED
    BY <1>4, <2>1, ReturnStep DEF SendTimeout, WaitUnknown, CacheInv, TypeOK
<1>5. ASSUME NEW c \in Calls,
             \/ WaitSwapped(c) \/ WaitSleep(c) \/ Wake(c) \/ Timeout(c)
      PROVE  UNCHANGED Rpc!rpcVars
  <2>1. Outcome(c) = "open" /\ Outcome(c)' = "open"
    BY <1>5 DEF WaitSwapped, WaitSleep, Wake, Timeout, CacheInv, TypeOK, Outcome
  <2>2. /\ UNCHANGED <<answered, reader, buffer>>
        /\ \A d \in Calls \ {c} : pc'[d] = pc[d] /\ success'[d] = success[d]
    BY <1>5 DEF WaitSwapped, WaitSleep, Wake, Timeout, CacheInv, TypeOK
  <2>3. [d \in Calls |-> Outcome(d)]'
          = [[d \in Calls |-> Outcome(d)] EXCEPT ![c] = "open"]
    BY <2>1, <2>2, OneOutcome
  <2> QED
    BY <2>1, <2>2, <2>3 DEF Rpc!rpcVars
<1>6. ASSUME NEW c \in Calls, Take(c) PROVE Rpc!RpcNext
  <2>1. /\ row[c] = c /\ read_buffer[c] \in {NoCall, c}
        /\ read_buffer[c] = c => c \in answered
        /\ success[c] /\ reader # "ended" => read_buffer[c] = c
    BY <1>6 DEF Take, CacheInv, OwnInv, AnswerInv
  <2>2. /\ pc'[c] = "done" /\ success'[c] = success[c]
        /\ buffer'[c] = read_buffer[c]
    BY <1>6, <2>1 DEF Take, CacheInv, TypeOK
  <2>3. /\ UNCHANGED <<answered, reader>> /\ pc[c] = "take"
        /\ \A d \in Calls \ {c} : /\ pc'[d] = pc[d] /\ success'[d] = success[d]
                                  /\ buffer'[d] = buffer[d]
    BY <1>6 DEF Take, CacheInv, TypeOK
  <2>4. CASE ~success[c]
    BY <2>2, <2>3, <2>4, ReturnStep DEF Outcome
  <2>5. CASE success[c] /\ read_buffer[c] = c
    BY <2>1, <2>2, <2>3, <2>5, ReturnStep DEF Outcome
  <2>6. CASE success[c] /\ read_buffer[c] = NoCall
    BY <2>1, <2>2, <2>3, <2>6, ReturnStep DEF Outcome
  <2> QED
    BY <2>1, <2>4, <2>5, <2>6
<1>7. ASSUME NEW c \in Calls, SwapNotify(c) \/ SwapNotifyUnknown(c)
      PROVE  Rpc!RpcNext
  <2>1. Outcome(c) # "idle"
    BY <1>7 DEF SwapNotify, SwapNotifyUnknown, CacheInv, IdsInv, Outcome
  <2>2. [d \in Calls |-> Outcome(d)]' = [d \in Calls |-> Outcome(d)]
    BY <1>7, SameOutcome DEF SwapNotify, SwapNotifyUnknown
  <2>3. Rpc!Answer(c)
    BY <1>7, <2>1, <2>2 DEF SwapNotify, SwapNotifyUnknown, Rpc!Answer
  <2> QED
    BY <2>3 DEF Rpc!RpcNext
<1>8. ASSUME SwapNotifyEnd \/ OnReadOther \/ RemoveObsolete
      PROVE  UNCHANGED Rpc!rpcVars
  <2>1. [d \in Calls |-> Outcome(d)]' = [d \in Calls |-> Outcome(d)]
    BY <1>8, SameOutcome DEF SwapNotifyEnd, OnReadOther, RemoveObsolete
  <2> QED
    BY <1>8, <2>1 DEF SwapNotifyEnd, OnReadOther, RemoveObsolete, Rpc!rpcVars
<1>9. ASSUME Clear PROVE Rpc!RpcNext
  <2>1. [d \in Calls |-> Outcome(d)]' = [d \in Calls |-> Outcome(d)]
    BY <1>9, SameOutcome DEF Clear
  <2>2. Rpc!Lose
    BY <1>9, <2>1 DEF Clear, Rpc!Lose
  <2> QED
    BY <2>2 DEF Rpc!RpcNext
<1>10. ASSUME NEW c \in Calls, Expire(c) PROVE UNCHANGED Rpc!rpcVars
  <2>1. [d \in Calls |-> Outcome(d)]' = [d \in Calls |-> Outcome(d)]
    BY <1>10, SameOutcome DEF Expire
  <2> QED
    BY <1>10, <2>1 DEF Expire, Rpc!rpcVars
<1>11. UNCHANGED cacheVars => UNCHANGED <<pc, success, buffer, answered, reader>>
  BY DEF cacheVars
<1> QED
  BY <1>1, <1>2, <1>3, <1>4, <1>5, <1>6, <1>7, <1>8, <1>9, <1>10, <1>11
     DEF CacheNext, ReaderNext, CallNext

(* The cache with its callers implements the call interface RpcCall: a     *)
(* send_recv returns its own answer or fails, and an empty success only    *)
(* after the connection was lost.                                          *)
THEOREM CacheRefinesRpcCall == CacheSpec => RefinesRpcCall
<1>1. CacheInit => Rpc!RpcInit
  BY DEF CacheInit, Rpc!RpcInit, Outcome
<1>2. CacheInv /\ [CacheNext]_cacheVars => [Rpc!RpcNext]_(Rpc!rpcVars)
  BY RpcStep
<1> QED
  BY <1>1, <1>2, CacheInvHolds, PTL DEF CacheSpec, RefinesRpcCall, Rpc!RpcSpec
=============================================================================
