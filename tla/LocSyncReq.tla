------------------------------ MODULE LocSyncReq ------------------------------
(***************************************************************************)
(* Synchronous requests to the modem (loc_api_sync_req.c).  A caller takes *)
(* one of the slots of loc_sync_array, sends its request, and sleeps until *)
(* the response indication arrives or a timeout expires.                   *)
(*                                                                         *)
(*   callers     threads inside loc_sync_send_req                          *)
(*   indication  the thread of the QMI client, in loc_sync_process_ind:    *)
(*               it holds loc_sync_call_mutex while it visits the slots    *)
(*   modem       answers in any order, late, or never                      *)
(*                                                                         *)
(* An indication has an id and no request number: it answers whichever     *)
(* slot waits for its id.  There is one client handle, and every caller    *)
(* passes a payload to copy the answer to, as every caller in the code.    *)
(***************************************************************************)
EXTENDS Naturals, FiniteSets

CONSTANTS
    Callers,                    \* threads that send synchronous requests
    Inds,                       \* ids of response indications
    LOC_SYNC_REQ_BUFFER_SIZE,   \* slots of loc_sync_array
    MaxCalls,                   \* bound: calls a thread makes
    None                        \* no caller, no answer, no id

Slots == 1 .. LOC_SYNC_REQ_BUFFER_SIZE

\* What the modem sends: the id, and the call it answers, which only the
\* model knows.
Answers == [ind : Inds, to : Callers, call : 1 .. MaxCalls]

ASSUME SyncAssumption ==
    /\ LOC_SYNC_REQ_BUFFER_SIZE \in Nat \ {0}
    /\ MaxCalls \in Nat
    /\ None \notin Callers /\ None \notin Inds /\ None \notin Answers

VARIABLES
    slot_in_use, in_use,    \* loc_sync_array
    slots,                  \* what a slot waits for, and whether it came
    pc, select_id,          \* callers: where they are, their slot
    calls, want, result,    \* callers: calls made, id waited for, status
    copied,                 \* callers: answers copied to the payload, this call
    pending,                \* answers the modem may still send
    cur, at, seen           \* indication thread: answer, next slot, in_use

arrayVars  == <<slot_in_use, in_use>>
callVars   == <<calls, want>>
indVars    == <<cur, at, seen>>
vars == <<arrayVars, slots, pc, select_id, callVars, result, copied, pending, indVars>>

FreeSlot == [recv_ind_id |-> None, ind_is_waiting |-> FALSE,
             ind_has_arrived |-> FALSE, recv_ind_payload_ptr |-> None]
Slot == [recv_ind_id : Inds \cup {None}, ind_is_waiting : BOOLEAN,
         ind_has_arrived : BOOLEAN, recv_ind_payload_ptr : Callers \cup {None}]

\* Where a caller that has a slot can be.
InCall == {"allocated", "selected", "sent", "waiting", "signalled", "expired", "freeing"}

TypeOK ==
    /\ slot_in_use \in [Slots -> BOOLEAN] /\ in_use \in BOOLEAN
    /\ slots \in [Slots -> Slot]
    /\ pc \in [Callers -> InCall \cup {"idle", "full"}]
    /\ select_id \in [Callers -> Slots \cup {0}]
    /\ calls \in [Callers -> 0 .. MaxCalls]
    /\ want \in [Callers -> Inds \cup {None}]
    /\ result \in [Callers -> {"none", "success", "timeout", "failure"}]
    /\ copied \in [Callers -> SUBSET Answers]
    /\ pending \subseteq Answers
    /\ cur \in Answers \cup {None} /\ at \in Slots /\ seen \in BOOLEAN

(* After loc_sync_req_init.                                                *)
Init ==
    /\ slot_in_use = [i \in Slots |-> FALSE] /\ in_use = FALSE
    /\ slots = [i \in Slots |-> FreeSlot]
    /\ pc = [c \in Callers |-> "idle"] /\ select_id = [c \in Callers |-> 0]
    /\ calls = [c \in Callers |-> 0] /\ want = [c \in Callers |-> None]
    /\ result = [c \in Callers |-> "none"]
    /\ copied = [c \in Callers |-> {}]
    /\ pending = {}
    /\ cur = None /\ at = 1 /\ seen = FALSE

\* loc_sync_call_mutex is free: the indication thread is not in its loop.
MutexFree == cur = None

Goes(c, from, to) == pc[c] = from /\ pc' = [pc EXCEPT ![c] = to]

-----------------------------------------------------------------------------
(* A caller in loc_sync_send_req                                           *)

\* The slot loc_alloc_slot takes: the first that is free.
FirstFree(i) == ~slot_in_use[i] /\ \A j \in 1 .. i - 1 : slot_in_use[j]

(* loc_alloc_slot, in one critical section of loc_sync_call_mutex.         *)
AllocSlot(c, ind) ==
    /\ calls[c] < MaxCalls /\ MutexFree
    /\ \E i \in Slots :
        /\ FirstFree(i)
        /\ slot_in_use' = [slot_in_use EXCEPT ![i] = TRUE]
        /\ select_id' = [select_id EXCEPT ![c] = i]
    /\ in_use' = TRUE
    /\ Goes(c, "idle", "allocated")
    /\ calls' = [calls EXCEPT ![c] = @ + 1]
    /\ want' = [want EXCEPT ![c] = ind]
    /\ UNCHANGED <<slots, result, copied, pending, indVars>>

(* Every slot is taken: loc_sync_send_req returns the status it was        *)
(* initialised with, which is success, and sends nothing.                  *)
BufferFull(c) ==
    /\ calls[c] < MaxCalls /\ MutexFree
    /\ \A i \in Slots : slot_in_use[i]
    /\ Goes(c, "idle", "full")
    /\ calls' = [calls EXCEPT ![c] = @ + 1]
    /\ result' = [result EXCEPT ![c] = "success"]
    /\ UNCHANGED <<arrayVars, slots, select_id, want, copied, pending, indVars>>

(* The rest of loc_sync_select_ind, under the lock of the slot.            *)
SelectInd(c) ==
    /\ Goes(c, "allocated", "selected")
    /\ slots' = [slots EXCEPT ![select_id[c]] =
         [recv_ind_id |-> want[c], ind_is_waiting |-> FALSE,
          ind_has_arrived |-> FALSE, recv_ind_payload_ptr |-> c]]
    /\ UNCHANGED <<arrayVars, select_id, callVars, result, copied, pending, indVars>>

(* locClientSendReq: the request is acknowledged, or it failed, and then   *)
(* it may still have reached the modem (the acknowledgement timed out).    *)
LocClientSendReq(c, acknowledged) ==
    LET answer == [ind |-> want[c], to |-> c, call |-> calls[c]] IN
    \/ pending' = pending \cup {answer}
    \/ ~acknowledged /\ UNCHANGED pending

(* loc_sync_send_req sends the request, and gives up if that fails.        *)
SendReq(c) ==
    /\ \/ /\ Goes(c, "selected", "sent")
          /\ LocClientSendReq(c, TRUE)
          /\ UNCHANGED result
       \/ /\ Goes(c, "selected", "freeing")
          /\ LocClientSendReq(c, FALSE)
          /\ result' = [result EXCEPT ![c] = "failure"]
    /\ UNCHANGED <<arrayVars, slots, select_id, callVars, copied, indVars>>

\* A mistake: the wait does not ask whether the indication came first.
WaitAnyway(c) ==
    LET i == select_id[c] IN
    /\ Goes(c, "sent", "waiting")
    /\ slots' = [slots EXCEPT ![i].ind_is_waiting = TRUE]
    /\ UNCHANGED <<arrayVars, select_id, callVars, result, copied, pending, indVars>>

(* loc_sync_wait_for_ind, until pthread_cond_timedwait gives up the lock   *)
(* of the slot.  That the slot is waited on already (-EBUSY) never         *)
(* happens: SlotOwned.                                                     *)
WaitForInd(c) ==
    LET i == select_id[c] IN
    /\ \/ /\ Goes(c, "sent", "freeing")
          /\ slots[i].ind_has_arrived
          /\ result' = [result EXCEPT ![c] = "success"]
          /\ UNCHANGED slots
       \/ /\ Goes(c, "sent", "waiting")
          /\ ~slots[i].ind_has_arrived
          /\ slots' = [slots EXCEPT ![i].ind_is_waiting = TRUE]
          /\ UNCHANGED result
    /\ UNCHANGED <<arrayVars, select_id, callVars, copied, pending, indVars>>

(* The timeout of the wait expires, or the wait ends for no reason, as     *)
(* pthread_cond_timedwait may: the thread now wants the lock of the slot.  *)
WakeUp(c) ==
    /\ Goes(c, "waiting", "expired") \/ Goes(c, "waiting", "signalled")
    /\ UNCHANGED <<arrayVars, slots, select_id, callVars, result, copied, pending, indVars>>

\* A mistake: the wait starts again, with a new deadline, when it expires.
WaitAgain(c) ==
    /\ \/ /\ Goes(c, "signalled", "freeing")
          /\ result' = [result EXCEPT ![c] = "success"]
       \/ Goes(c, "expired", "sent") /\ UNCHANGED result
    /\ slots' = [slots EXCEPT ![select_id[c]].ind_is_waiting = FALSE]
    /\ UNCHANGED <<arrayVars, select_id, callVars, copied, pending, indVars>>

(* The rest of loc_sync_wait_for_ind: the wait is not repeated, and a      *)
(* timeout stays a timeout if the indication came meanwhile.               *)
Woken(c) ==
    /\ \/ /\ Goes(c, "signalled", "freeing")
          /\ result' = [result EXCEPT ![c] = "success"]
       \/ /\ Goes(c, "expired", "freeing")
          /\ result' = [result EXCEPT ![c] = "timeout"]
    /\ slots' = [slots EXCEPT ![select_id[c]].ind_is_waiting = FALSE]
    /\ UNCHANGED <<arrayVars, select_id, callVars, copied, pending, indVars>>

\* The call returns, and the payload and the status are the caller's own.
Forget(c) ==
    /\ select_id' = [select_id EXCEPT ![c] = 0]
    /\ want' = [want EXCEPT ![c] = None]
    /\ result' = [result EXCEPT ![c] = "none"]
    /\ copied' = [copied EXCEPT ![c] = {}]

\* The call that found no slot returns.
ReturnFull(c) ==
    /\ Goes(c, "full", "idle")
    /\ Forget(c)
    /\ UNCHANGED <<arrayVars, slots, calls, pending, indVars>>

\* A mistake: no slot is in use once this one is free.
FreeTheLast(c) ==
    LET i == select_id[c] IN
    /\ MutexFree /\ Goes(c, "freeing", "idle")
    /\ slot_in_use' = [slot_in_use EXCEPT ![i] = FALSE]
    /\ slots' = [slots EXCEPT ![i] = FreeSlot]
    /\ in_use' = FALSE
    /\ Forget(c)
    /\ UNCHANGED <<calls, pending, indVars>>

\* A mistake: the slot is not cleared when it is given back.
FreeDirty(c) ==
    LET i == select_id[c] IN
    /\ MutexFree /\ Goes(c, "freeing", "idle")
    /\ slot_in_use' = [slot_in_use EXCEPT ![i] = FALSE]
    /\ in_use' = \E j \in Slots : slot_in_use'[j]
    /\ Forget(c)
    /\ UNCHANGED <<slots, calls, pending, indVars>>

(* loc_free_slot, and the return of the call.                              *)
FreeTheSlot(c) ==
    LET i == select_id[c] IN
    /\ MutexFree /\ Goes(c, "freeing", "idle")
    /\ slot_in_use' = [slot_in_use EXCEPT ![i] = FALSE]
    /\ slots' = [slots EXCEPT ![i] = FreeSlot]
    /\ in_use' = \E j \in Slots : slot_in_use'[j]
    /\ Forget(c)
    /\ UNCHANGED <<calls, pending, indVars>>

-----------------------------------------------------------------------------
(* The indication thread in loc_sync_process_ind                           *)

(* An indication arrives and is decoded (locClientIndCb), and goes through *)
(* globalRespCb to loc_sync_process_ind, which drops it when no slot is in *)
(* use.                                                                    *)
ReceiveInd(a) ==
    /\ MutexFree /\ a \in pending
    /\ pending' = pending \ {a}
    /\ cur' = IF in_use THEN a ELSE None
    /\ at' = 1 /\ seen' = FALSE
    /\ UNCHANGED <<arrayVars, slots, pc, select_id, callVars, result, copied>>

\* The slot waits for the indication that is being processed.
Matches(i) ==
    /\ slot_in_use[i]
    /\ slots[i].recv_ind_id = cur.ind
    /\ ~slots[i].ind_has_arrived

\* A mistake: an answer that was copied is offered to the next slot too.
VisitAll ==
    /\ cur # None
    /\ seen' = (seen \/ slot_in_use[at])
    /\ LET to == slots[at].recv_ind_payload_ptr IN
       \/ /\ Matches(at)
          /\ copied' = [copied EXCEPT ![to] = @ \cup {cur}]
          /\ IF slots[at].ind_is_waiting
             THEN /\ pc' = [pc EXCEPT ![to] = IF @ = "waiting" THEN "signalled" ELSE @]
                  /\ UNCHANGED slots
             ELSE /\ slots' = [slots EXCEPT ![at].ind_has_arrived = TRUE]
                  /\ UNCHANGED pc
       \/ ~Matches(at) /\ UNCHANGED <<slots, pc, copied>>
    /\ IF at = LOC_SYNC_REQ_BUFFER_SIZE
       THEN cur' = None /\ at' = 1 /\ in_use' = (in_use /\ seen')
       ELSE at' = at + 1 /\ UNCHANGED <<cur, in_use>>
    /\ UNCHANGED <<slot_in_use, select_id, callVars, result, pending>>

(* One slot, under its lock: the answer is copied, and the caller is woken *)
(* up or the arrival is remembered.  The loop ends with the slot that took *)
(* the answer or with the last; the array is then no longer in use if no   *)
(* slot on the way was.                                                    *)
VisitSlot ==
    /\ cur # None
    /\ seen' = (seen \/ slot_in_use[at])
    /\ LET to == slots[at].recv_ind_payload_ptr IN
       \/ /\ Matches(at)
          /\ copied' = [copied EXCEPT ![to] = @ \cup {cur}]
          /\ IF slots[at].ind_is_waiting
             THEN /\ pc' = [pc EXCEPT ![to] = IF @ = "waiting" THEN "signalled" ELSE @]
                  /\ UNCHANGED slots
             ELSE /\ slots' = [slots EXCEPT ![at].ind_has_arrived = TRUE]
                  /\ UNCHANGED pc
       \/ ~Matches(at) /\ UNCHANGED <<slots, pc, copied>>
    /\ IF Matches(at) \/ at = LOC_SYNC_REQ_BUFFER_SIZE
       THEN cur' = None /\ at' = 1 /\ in_use' = (in_use /\ seen')
       ELSE at' = at + 1 /\ UNCHANGED <<cur, in_use>>
    /\ UNCHANGED <<slot_in_use, select_id, callVars, result, pending>>

-----------------------------------------------------------------------------

CallerStep(c) ==
    \/ SelectInd(c) \/ SendReq(c) \/ WaitForInd(c) \/ WakeUp(c) \/ Woken(c)
    \/ FreeTheSlot(c) \/ ReturnFull(c)

Next ==
    \/ \E c \in Callers :
        \/ \E ind \in Inds : AllocSlot(c, ind)
        \/ BufferFull(c)
        \/ CallerStep(c)
    \/ \E a \in pending : ReceiveInd(a)
    \/ VisitSlot

Spec == Init /\ [][Next]_vars

(* Threads are scheduled: a caller inside a call goes on, its timeout      *)
(* expires, and the indication thread finishes its loop.  Nothing makes    *)
(* the modem answer.                                                       *)
Fairness == WF_vars(VisitSlot) /\ \A c \in Callers : WF_vars(CallerStep(c))

FairSpec == Spec /\ Fairness

-----------------------------------------------------------------------------
(* Properties                                                              *)

\* What slot i holds is of the call of c.
Holds(c, i) ==
    /\ pc[c] \in InCall \ {"allocated"} /\ select_id[c] = i
    /\ slots[i].recv_ind_payload_ptr = c /\ slots[i].recv_ind_id = want[c]
    /\ slots[i].ind_is_waiting => pc[c] \in {"waiting", "signalled", "expired"}

(* A slot in use belongs to exactly one call, and what it holds is of that *)
(* call: loc_sync_process_ind writes through recv_ind_payload_ptr, a       *)
(* buffer on the stack of the caller, only while the caller is inside      *)
(* loc_sync_send_req.  A slot that is free waits for nothing.              *)
SlotOwned ==
    /\ \A c \in Callers : pc[c] \in InCall => slot_in_use[select_id[c]]
    /\ \A c, d \in Callers :
        pc[c] \in InCall /\ pc[d] \in InCall /\ select_id[c] = select_id[d] => c = d
    /\ \A i \in Slots : slots[i] = FreeSlot \/ \E c \in Callers : Holds(c, i)

(* loc_sync_array.in_use, which loc_sync_process_ind trusts before it      *)
(* looks at any slot, is set whenever a slot is: no indication somebody    *)
(* waits for is dropped at the door.                                       *)
InUseCovers == (\E i \in Slots : slot_in_use[i]) => in_use

(* No wakeup is lost between the request and the wait: a caller that       *)
(* sleeps, and was not woken up, has had no answer.                        *)
SleepsUnanswered == \A c \in Callers : pc[c] = "waiting" => copied[c] = {}

(* An indication is consumed by the first slot that takes it: it is never  *)
(* the answer of two calls.                                                *)
OneCallPerAnswer ==
    \A c, d \in Callers : c # d => copied[c] \cap copied[d] = {}

\* A caller with a slot waits for an id, and is at its first call or later.
CallersKnown ==
    \A c \in Callers :
        /\ pc[c] \in InCall => select_id[c] \in Slots /\ want[c] \in Inds
        /\ pc[c] # "idle" => calls[c] >= 1

\* From the selection of the indication on, the slot points at its caller.
SlotPoints ==
    \A c \in Callers :
        /\ pc[c] \in InCall \ {"allocated"} => slots[select_id[c]].recv_ind_payload_ptr = c
        /\ pc[c] = "waiting" => slots[select_id[c]].ind_is_waiting

\* An answer that came before the wait is remembered.
EarlyIsKept ==
    \A c \in Callers :
        /\ pc[c] \in {"idle", "full", "allocated"} => copied[c] = {}
        /\ pc[c] \in {"selected", "sent"} /\ copied[c] # {}
            => slots[select_id[c]].ind_has_arrived

\* The loop of the indication thread has seen the slots in use so far.
SeenSoFar == cur # None => \A i \in 1 .. at - 1 : slot_in_use[i] => seen

\* An answer is at one place, and of a call that was sent.
AnswersApart ==
    /\ cur \notin pending
    /\ \A c \in Callers : copied[c] \cap pending = {} /\ cur \notin copied[c]
    /\ \A a \in pending \cup {cur} \cup UNION {copied[c] : c \in Callers} :
        \/ a = None
        \/ pc[a.to] \in {"allocated", "selected"} /\ a.call < calls[a.to]
        \/ pc[a.to] \notin {"allocated", "selected"} /\ a.call <= calls[a.to]

\* The inductive invariant.
IInv ==
    /\ TypeOK /\ CallersKnown /\ SlotOwned /\ SlotPoints
    /\ EarlyIsKept /\ SleepsUnanswered
    /\ SeenSoFar /\ InUseCovers
    /\ AnswersApart /\ OneCallPerAnswer

(* Every call returns, whatever the modem does.                            *)
CallEnds == \A c \in Callers : pc[c] # "idle" ~> pc[c] = "idle"

(* What "thread safe" (loc_api_sync_req.c:478) would need: a call takes    *)
(* one answer, and leaves the others to the calls that wait for them.      *)
OneAnswerPerCall == \A c \in Callers : Cardinality(copied[c]) <= 1

(* What the error of a full buffer (loc_api_sync_req.c:360) and the wait   *)
(* would need: a call that succeeded got an answer.                        *)
SuccessIsAnswered ==
    \A c \in Callers : result[c] = "success" => copied[c] # {}
=============================================================================
