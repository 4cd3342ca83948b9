-------------------------- MODULE LocSyncReqProofs --------------------------
(***************************************************************************)
(* The safety of the synchronous requests, for every number of callers,    *)
(* slots and calls: each slot in use is of one call, no indication         *)
(* somebody waits for is dropped because the array looks idle, no wakeup   *)
(* is lost, and an answer is given to one call only.                       *)
(***************************************************************************)
EXTENDS LocSyncReq, TLAPS

\* From the selection on, what a caller's slot holds is the caller's.
LEMMA HoldsMine ==
    ASSUME IInv, NEW c \in Callers, pc[c] \in InCall \ {"allocated"}
    PROVE  Holds(c, select_id[c]) /\ select_id[c] \in Slots
<1>1. select_id[c] \in Slots /\ slots[select_id[c]].recv_ind_payload_ptr = c
  BY DEF IInv, CallersKnown, SlotPoints
<1>2. slots[select_id[c]] # FreeSlot
  BY <1>1, SyncAssumption DEF FreeSlot
<1> QED  BY <1>1, <1>2 DEF IInv, SlotOwned, Holds

\* Slots stay owned when a caller moves on inside its call.
LEMMA OwnedMove ==
    ASSUME IInv, NEW c \in Callers, pc[c] \in InCall,
           NEW to \in InCall \ {"allocated"}, pc' = [pc EXCEPT ![c] = to],
           UNCHANGED <<slot_in_use, select_id, want>>,
           \A j \in Slots \ {select_id[c]} : slots'[j] = slots[j],
           Holds(c, select_id[c])'
    PROVE  SlotOwned'
<1> USE DEF IInv
<1>1. pc \in [Callers -> InCall \cup {"idle", "full"}]
  BY DEF TypeOK
<1>2. \A d \in Callers : pc'[d] \in InCall <=> pc[d] \in InCall
  BY <1>1
<1>3. \A i \in Slots \ {select_id[c]} :
        slots'[i] = FreeSlot \/ \E d \in Callers : Holds(d, i)'
  <2> SUFFICES ASSUME NEW i \in Slots \ {select_id[c]}, slots[i] # FreeSlot
               PROVE  \E d \in Callers : Holds(d, i)'
    OBVIOUS
  <2>1. PICK d \in Callers : Holds(d, i)
    BY DEF SlotOwned
  <2>2. d # c
    BY <2>1 DEF Holds
  <2> QED  BY <1>1, <2>1, <2>2 DEF Holds
<1> QED  BY <1>2, <1>3 DEF SlotOwned

LEMMA FreeSlotIsSlot == FreeSlot \in Slot
BY DEF FreeSlot, Slot

LEMMA InitHolds == Init => IInv
<1> SUFFICES ASSUME Init PROVE IInv
  OBVIOUS
<1> USE SyncAssumption DEF Init
<1>1. TypeOK
  <2>1. slots \in [Slots -> Slot] /\ at \in Slots
    BY FreeSlotIsSlot DEF Slots
  <2>2. copied \in [Callers -> SUBSET Answers] /\ calls \in [Callers -> 0 .. MaxCalls]
    OBVIOUS
  <2> QED  BY <2>1, <2>2 DEF TypeOK
<1>2. CallersKnown /\ SlotOwned /\ SlotPoints /\ EarlyIsKept /\ SleepsUnanswered
  BY DEF CallersKnown, SlotOwned, SlotPoints, EarlyIsKept, SleepsUnanswered, InCall
<1>3. SeenSoFar /\ InUseCovers /\ AnswersApart /\ OneCallPerAnswer
  BY DEF SeenSoFar, InUseCovers, AnswersApart, OneCallPerAnswer
<1> QED  BY <1>1, <1>2, <1>3 DEF IInv

LEMMA AllocSlotStep ==
    ASSUME IInv, NEW c \in Callers, NEW ind \in Inds, AllocSlot(c, ind)
    PROVE  IInv'
<1> USE SyncAssumption DEF IInv, AllocSlot, MutexFree, FirstFree, Goes, arrayVars, callVars, indVars
<1>1. TypeOK'
  BY DEF TypeOK, CallersKnown, Slots, Slot, FreeSlot, InCall, Answers
<1>2. CallersKnown'
  BY DEF TypeOK, CallersKnown, InCall
<1>3. SlotOwned'
  BY DEF TypeOK, CallersKnown, SlotOwned, Holds, SlotPoints, Slots, Slot, FreeSlot, InCall
<1>4. SlotPoints'
  BY DEF TypeOK, CallersKnown, SlotOwned, Holds, SlotPoints, Slots, Slot, FreeSlot, InCall
<1>5. EarlyIsKept'
  BY DEF TypeOK, CallersKnown, SlotOwned, Holds, SlotPoints, EarlyIsKept, Slots, Slot, FreeSlot, InCall
<1>6. SleepsUnanswered'
  BY DEF TypeOK, CallersKnown, SlotOwned, Holds, SlotPoints, EarlyIsKept, SleepsUnanswered, Slots, Slot, FreeSlot, InCall
<1>7. SeenSoFar' /\ InUseCovers'
  BY DEF TypeOK, SeenSoFar, InUseCovers, Slots, CallersKnown, InCall
<1>8. AnswersApart'
  BY DEF TypeOK, CallersKnown, AnswersApart, InCall, Answers
<1>9. OneCallPerAnswer'
  BY DEF TypeOK, AnswersApart, OneCallPerAnswer
<1> QED  BY <1>1, <1>2, <1>3, <1>4, <1>5, <1>6, <1>7, <1>8, <1>9

LEMMA BufferFullStep ==
    ASSUME IInv, NEW c \in Callers, BufferFull(c)
    PROVE  IInv'
<1> USE SyncAssumption DEF IInv, BufferFull, MutexFree, Goes, arrayVars, callVars, indVars
<1>1. TypeOK'
  BY DEF TypeOK, CallersKnown, Slots, Slot, FreeSlot, InCall, Answers
<1>2. CallersKnown'
  BY DEF TypeOK, CallersKnown, InCall
<1>3. SlotOwned'
  BY DEF TypeOK, CallersKnown, SlotOwned, Holds, SlotPoints, Slots, Slot, FreeSlot, InCall
<1>4. SlotPoints'
  BY DEF TypeOK, CallersKnown, SlotOwned, Holds, SlotPoints, Slots, Slot, FreeSlot, InCall
<1>5. EarlyIsKept'
  BY DEF TypeOK, CallersKnown, SlotOwned, Holds, SlotPoints, EarlyIsKept, Slots, Slot, FreeSlot, InCall
<1>6. SleepsUnanswered'
  BY DEF TypeOK, CallersKnown, SlotOwned, Holds, SlotPoints, EarlyIsKept, SleepsUnanswered, Slots, Slot, FreeSlot, InCall
<1>7. SeenSoFar' /\ InUseCovers'
  BY DEF TypeOK, SeenSoFar, InUseCovers, Slots, CallersKnown, InCall
<1>8. AnswersApart'
  BY DEF TypeOK, CallersKnown, AnswersApart, InCall, Answers
<1>9. OneCallPerAnswer'
  BY DEF TypeOK, AnswersApart, OneCallPerAnswer
<1> QED  BY <1>1, <1>2, <1>3, <1>4, <1>5, <1>6, <1>7, <1>8, <1>9

LEMMA SelectIndStep ==
    ASSUME IInv, NEW c \in Callers, SelectInd(c)
    PROVE  IInv'
<1> USE SyncAssumption DEF IInv, SelectInd, Goes, arrayVars, callVars, indVars
<1>1. TypeOK'
  BY DEF TypeOK, CallersKnown, Slots, Slot, FreeSlot, InCall, Answers
<1>2. CallersKnown'
  BY DEF TypeOK, CallersKnown, InCall
<1>3. SlotOwned'
  <2>1. select_id[c] \in Slots /\ pc[c] \in InCall /\ c # None
    BY DEF CallersKnown, InCall
  <2>2. slots'[select_id[c]].recv_ind_payload_ptr = c
        /\ slots'[select_id[c]].recv_ind_id = want[c]
        /\ slots'[select_id[c]].ind_is_waiting = FALSE
    BY <2>1 DEF TypeOK
  <2>3. pc'[c] = "selected"
    BY DEF TypeOK
  <2>4. Holds(c, select_id[c])'
    BY <2>2, <2>3 DEF Holds, InCall
  <2> QED  BY <2>1, <2>4, OwnedMove DEF TypeOK, InCall
<1>4. SlotPoints'
  BY DEF TypeOK, CallersKnown, SlotOwned, Holds, SlotPoints, Slots, Slot, FreeSlot, InCall
<1>5. EarlyIsKept'
  BY DEF TypeOK, CallersKnown, SlotOwned, Holds, SlotPoints, EarlyIsKept, Slots, Slot, FreeSlot, InCall
<1>6. SleepsUnanswered'
  BY DEF TypeOK, CallersKnown, SlotOwned, Holds, SlotPoints, EarlyIsKept, SleepsUnanswered, Slots, Slot, FreeSlot, InCall
<1>7. SeenSoFar' /\ InUseCovers'
  BY DEF TypeOK, SeenSoFar, InUseCovers, Slots, CallersKnown, InCall
<1>8. AnswersApart'
  BY DEF TypeOK, CallersKnown, AnswersApart, InCall, Answers
<1>9. OneCallPerAnswer'
  BY DEF TypeOK, AnswersApart, OneCallPerAnswer
<1> QED  BY <1>1, <1>2, <1>3, <1>4, <1>5, <1>6, <1>7, <1>8, <1>9

LEMMA SendReqStep ==
    ASSUME IInv, NEW c \in Callers, SendReq(c)
    PROVE  IInv'
<1> USE SyncAssumption DEF IInv, SendReq, LocClientSendReq, Goes, arrayVars, callVars, indVars
<1> DEFINE answer == [ind |-> want[c], to |-> c, call |-> calls[c]]
<1>1. answer \in Answers
  BY DEF TypeOK, CallersKnown, InCall, Answers
<1>2. pc[c] = "selected" /\ pc[c] \in InCall \ {"allocated"} /\ pc'[c] \in {"sent", "freeing"}
      /\ pc' = [pc EXCEPT ![c] = pc'[c]]
  BY DEF TypeOK, InCall
<1>3. pending' = pending \cup {answer} \/ pending' = pending
  OBVIOUS
<1> HIDE DEF SendReq, LocClientSendReq, Goes
<1>a. UNCHANGED <<arrayVars, slots, select_id, callVars, copied, indVars>>
      /\ result' \in [Callers -> {"none", "success", "timeout", "failure"}]
  BY DEF SendReq, Goes, TypeOK
<1>4. TypeOK'
  BY <1>1, <1>2, <1>3, <1>a DEF TypeOK, InCall
<1>5. CallersKnown' /\ SlotPoints' /\ SleepsUnanswered'
  BY <1>2, <1>a DEF TypeOK, CallersKnown, SlotPoints, SleepsUnanswered, InCall
<1>6. SlotOwned'
  <2>1. Holds(c, select_id[c])'
    BY <1>2, <1>a, HoldsMine DEF Holds, InCall
  <2> QED  BY <1>2, <1>a, <2>1, OwnedMove DEF InCall
<1>7. EarlyIsKept'
  BY <1>2, <1>a DEF TypeOK, EarlyIsKept
<1>8. SeenSoFar' /\ InUseCovers' /\ OneCallPerAnswer'
  BY <1>a DEF SeenSoFar, InUseCovers, OneCallPerAnswer
<1>9. AnswersApart'
  <2>1. ~ \E a \in pending \cup {cur} \cup UNION {copied[d] : d \in Callers} : a = answer
    <3> SUFFICES ASSUME answer \in pending \cup {cur} \cup UNION {copied[d] : d \in Callers}
                 PROVE  FALSE
      OBVIOUS
    <3>1. answer # None /\ answer.to = c /\ answer.call = calls[c] /\ calls[c] \in Nat
      BY <1>1 DEF TypeOK
    <3>2. answer = None \/ answer.call < calls[c] \/ pc[c] \notin {"allocated", "selected"}
      BY <3>1 DEF AnswersApart
    <3> QED  BY <3>1, <3>2, <1>2
  <2> QED  BY <1>1, <1>2, <1>3, <1>a, <2>1 DEF AnswersApart, TypeOK, CallersKnown, Answers
<1> QED  BY <1>4, <1>5, <1>6, <1>7, <1>8, <1>9

LEMMA WaitForIndStep ==
    ASSUME IInv, NEW c \in Callers, WaitForInd(c)
    PROVE  IInv'
<1> USE SyncAssumption DEF IInv, arrayVars, callVars, indVars
<1> DEFINE i == select_id[c]
<1>1. pc[c] = "sent" /\ pc[c] \in InCall \ {"allocated"} /\ i \in Slots /\ Holds(c, i)
  BY HoldsMine DEF WaitForInd, Goes, InCall
<1>2. UNCHANGED <<arrayVars, select_id, callVars, copied, pending, indVars>>
  BY DEF WaitForInd
<1>3. result' \in [Callers -> {"none", "success", "timeout", "failure"}]
  BY DEF WaitForInd, TypeOK
<1>4. SeenSoFar' /\ InUseCovers' /\ OneCallPerAnswer'
  BY <1>2 DEF SeenSoFar, InUseCovers, OneCallPerAnswer
<1>5. CASE slots[i].ind_has_arrived
  <2>1. pc' = [pc EXCEPT ![c] = "freeing"] /\ UNCHANGED slots /\ pc'[c] = "freeing"
    BY <1>5 DEF WaitForInd, Goes, TypeOK
  <2>2. SlotOwned'
    <3>1. Holds(c, i)'
      BY <1>1, <1>2, <2>1 DEF Holds, InCall, SlotOwned, TypeOK
    <3> QED  BY <1>1, <1>2, <2>1, <3>1, OwnedMove DEF InCall
  <2>3. TypeOK' /\ CallersKnown' /\ SlotPoints'
    BY <1>1, <1>2, <1>3, <2>1 DEF TypeOK, CallersKnown, SlotPoints, InCall
  <2>4. EarlyIsKept' /\ SleepsUnanswered'
    BY <1>2, <2>1 DEF TypeOK, EarlyIsKept, SleepsUnanswered
  <2>5. AnswersApart'
    BY <1>1, <1>2, <2>1 DEF TypeOK, AnswersApart
  <2> QED  BY <1>4, <2>2, <2>3, <2>4, <2>5
<1>6. CASE ~slots[i].ind_has_arrived
  <2>1. pc' = [pc EXCEPT ![c] = "waiting"] /\ pc'[c] = "waiting"
        /\ slots' = [slots EXCEPT ![i].ind_is_waiting = TRUE]
    BY <1>6 DEF WaitForInd, Goes, TypeOK
  <2>2. /\ slots' \in [Slots -> Slot]
        /\ \A j \in Slots \ {i} : slots'[j] = slots[j]
        /\ slots'[i].ind_is_waiting = TRUE
        /\ slots'[i].ind_has_arrived = slots[i].ind_has_arrived
        /\ slots'[i].recv_ind_id = slots[i].recv_ind_id
        /\ slots'[i].recv_ind_payload_ptr = slots[i].recv_ind_payload_ptr
    <3>1. slots'[i] = [slots[i] EXCEPT !.ind_is_waiting = TRUE] /\ slots[i] \in Slot
      BY <1>1, <2>1 DEF TypeOK
    <3>2. slots'[i] \in Slot
      BY <3>1 DEF Slot
    <3> QED  BY <1>1, <2>1, <3>1, <3>2 DEF Slot, TypeOK
  <2>3. SlotOwned'
    <3>1. Holds(c, i)'
      BY <1>1, <1>2, <2>1, <2>2 DEF Holds, InCall
    <3> QED  BY <1>1, <1>2, <2>1, <2>2, <3>1, OwnedMove DEF InCall
  <2>4. TypeOK' /\ CallersKnown'
    BY <1>1, <1>2, <1>3, <2>1, <2>2 DEF TypeOK, CallersKnown, InCall
  <2>5. \A d \in Callers \ {c} : pc'[d] = pc[d] /\ (pc[d] \in InCall => select_id[d] \in Slots \ {i})
    BY <1>1, <2>1 DEF TypeOK, CallersKnown, SlotOwned
  <2>6. SlotPoints' /\ EarlyIsKept' /\ SleepsUnanswered'
    BY <1>1, <1>2, <1>6, <2>1, <2>2, <2>5
       DEF TypeOK, SlotPoints, EarlyIsKept, SleepsUnanswered, Holds, InCall
  <2>7. AnswersApart'
    BY <1>1, <1>2, <2>1 DEF TypeOK, AnswersApart
  <2> QED  BY <1>4, <2>3, <2>4, <2>6, <2>7
<1> QED  BY <1>5, <1>6

LEMMA WakeUpStep ==
    ASSUME IInv, NEW c \in Callers, WakeUp(c)
    PROVE  IInv'
<1> USE SyncAssumption DEF IInv, arrayVars, callVars, indVars
<1>1. pc[c] = "waiting" /\ pc[c] \in InCall \ {"allocated"}
      /\ select_id[c] \in Slots /\ Holds(c, select_id[c])
  BY HoldsMine DEF WakeUp, Goes, InCall
<1>2. UNCHANGED <<arrayVars, slots, select_id, callVars, result, copied, pending, indVars>>
  BY DEF WakeUp
<1>3. PICK to \in {"expired", "signalled"} : pc' = [pc EXCEPT ![c] = to]
  BY DEF WakeUp, Goes
<1>4. pc'[c] = to /\ to \in InCall \ {"allocated"}
  BY <1>3 DEF TypeOK, InCall
<1>5. SlotOwned'
  <2>1. Holds(c, select_id[c])'
    BY <1>1, <1>2, <1>4 DEF Holds, InCall
  <2> QED  BY <1>1, <1>2, <1>3, <1>4, <2>1, OwnedMove
<1>6. TypeOK' /\ CallersKnown' /\ SlotPoints'
  BY <1>1, <1>2, <1>3, <1>4 DEF TypeOK, CallersKnown, SlotPoints, InCall
<1>7. EarlyIsKept' /\ SleepsUnanswered'
  BY <1>2, <1>3, <1>4 DEF TypeOK, EarlyIsKept, SleepsUnanswered
<1>8. SeenSoFar' /\ InUseCovers' /\ OneCallPerAnswer'
  BY <1>2 DEF SeenSoFar, InUseCovers, OneCallPerAnswer
<1>9. AnswersApart'
  BY <1>1, <1>2, <1>3, <1>4 DEF TypeOK, AnswersApart
<1> QED  BY <1>5, <1>6, <1>7, <1>8, <1>9

LEMMA WokenStep ==
    ASSUME IInv, NEW c \in Callers, Woken(c)
    PROVE  IInv'
<1> USE SyncAssumption DEF IInv, arrayVars, callVars, indVars
<1> DEFINE i == select_id[c]
<1>1. pc[c] \in {"signalled", "expired"} /\ pc[c] \in InCall \ {"allocated"}
      /\ i \in Slots /\ Holds(c, i)
  BY HoldsMine DEF Woken, Goes, InCall
<1>2. UNCHANGED <<arrayVars, select_id, callVars, copied, pending, indVars>>
  BY DEF Woken
<1>3. pc' = [pc EXCEPT ![c] = "freeing"] /\ pc'[c] = "freeing"
      /\ slots' = [slots EXCEPT ![i].ind_is_waiting = FALSE]
      /\ result' \in [Callers -> {"none", "success", "timeout", "failure"}]
  BY DEF Woken, Goes, TypeOK
<1>4. /\ slots' \in [Slots -> Slot]
      /\ \A j \in Slots \ {i} : slots'[j] = slots[j]
      /\ slots'[i].ind_is_waiting = FALSE
      /\ slots'[i].ind_has_arrived = slots[i].ind_has_arrived
      /\ slots'[i].recv_ind_id = slots[i].recv_ind_id
      /\ slots'[i].recv_ind_payload_ptr = slots[i].recv_ind_payload_ptr
  <2>1. slots'[i] = [slots[i] EXCEPT !.ind_is_waiting = FALSE] /\ slots[i] \in Slot
    BY <1>1, <1>3 DEF TypeOK
  <2>2. slots'[i] \in Slot
    BY <2>1 DEF Slot
  <2> QED  BY <1>1, <1>3, <2>1, <2>2 DEF Slot, TypeOK
<1>5. SlotOwned'
  <2>1. Holds(c, i)'
    BY <1>1, <1>2, <1>3, <1>4 DEF Holds, InCall
  <2> QED  BY <1>1, <1>2, <1>3, <1>4, <2>1, OwnedMove DEF InCall
<1>6. TypeOK' /\ CallersKnown'
  BY <1>1, <1>2, <1>3, <1>4 DEF TypeOK, CallersKnown, InCall
<1>7. \A d \in Callers \ {c} : pc'[d] = pc[d] /\ (pc[d] \in InCall => select_id[d] \in Slots \ {i})
  BY <1>1, <1>3 DEF TypeOK, CallersKnown, SlotOwned
<1>8. SlotPoints' /\ EarlyIsKept' /\ SleepsUnanswered'
  BY <1>1, <1>2, <1>3, <1>4, <1>7
     DEF TypeOK, SlotPoints, EarlyIsKept, SleepsUnanswered, Holds, InCall
<1>9. SeenSoFar' /\ InUseCovers' /\ OneCallPerAnswer'
  BY <1>2 DEF SeenSoFar, InUseCovers, OneCallPerAnswer
<1>10. AnswersApart'
  BY <1>1, <1>2, <1>3 DEF TypeOK, AnswersApart
<1> QED  BY <1>5, <1>6, <1>8, <1>9, <1>10

LEMMA FreeTheSlotStep ==
    ASSUME IInv, NEW c \in Callers, FreeTheSlot(c)
    PROVE  IInv'
<1> USE SyncAssumption DEF IInv, FreeTheSlot, Forget, MutexFree, Goes, arrayVars, callVars, indVars
<1>1. TypeOK'
  BY DEF TypeOK, CallersKnown, Slots, Slot, FreeSlot, InCall, Answers
<1>2. CallersKnown'
  BY DEF TypeOK, CallersKnown, InCall
<1>3. SlotOwned'
  <2>1. select_id[c] \in Slots /\ pc[c] \in InCall /\ pc'[c] = "idle"
    BY DEF TypeOK, CallersKnown, InCall
  <2>2. \A d \in Callers \ {c} : /\ pc'[d] = pc[d] /\ select_id'[d] = select_id[d] /\ want'[d] = want[d]
                               /\ pc[d] \in InCall => select_id[d] \in Slots \ {select_id[c]}
    BY <2>1 DEF TypeOK, CallersKnown, SlotOwned
  <2>3. slots'[select_id[c]] = FreeSlot /\ \A j \in Slots \ {select_id[c]} : slots'[j] = slots[j]
    BY <2>1 DEF TypeOK
  <2>4. \A j \in Slots \ {select_id[c]} : slot_in_use'[j] = slot_in_use[j]
    BY DEF TypeOK
  <2>5. \A j \in Slots \ {select_id[c]} :
          slots'[j] = FreeSlot \/ \E d \in Callers : Holds(d, j)'
    BY <2>2, <2>3 DEF SlotOwned, Holds
  <2>6. pc'[c] \notin InCall
    BY <2>1 DEF InCall
  <2> QED  BY <2>2, <2>3, <2>4, <2>5, <2>6 DEF SlotOwned
<1>4. SlotPoints'
  BY DEF TypeOK, CallersKnown, SlotOwned, Holds, SlotPoints, Slots, Slot, FreeSlot, InCall
<1>5. EarlyIsKept'
  BY DEF TypeOK, CallersKnown, SlotOwned, Holds, SlotPoints, EarlyIsKept, Slots, Slot, FreeSlot, InCall
<1>6. SleepsUnanswered'
  BY DEF TypeOK, CallersKnown, SlotOwned, Holds, SlotPoints, EarlyIsKept, SleepsUnanswered, Slots, Slot, FreeSlot, InCall
<1>7. SeenSoFar' /\ InUseCovers'
  BY DEF TypeOK, SeenSoFar, InUseCovers, Slots, CallersKnown, InCall
<1>8. AnswersApart'
  BY DEF TypeOK, CallersKnown, AnswersApart, InCall, Answers
<1>9. OneCallPerAnswer'
  BY DEF TypeOK, AnswersApart, OneCallPerAnswer
<1> QED  BY <1>1, <1>2, <1>3, <1>4, <1>5, <1>6, <1>7, <1>8, <1>9

LEMMA ReturnFullStep ==
    ASSUME IInv, NEW c \in Callers, ReturnFull(c)
    PROVE  IInv'
<1> USE SyncAssumption DEF IInv, ReturnFull, Forget, Goes, arrayVars, callVars, indVars
<1>1. TypeOK'
  BY DEF TypeOK, CallersKnown, Slots, Slot, FreeSlot, InCall, Answers
<1>2. CallersKnown'
  BY DEF TypeOK, CallersKnown, InCall
<1>3. SlotOwned'
  BY DEF TypeOK, CallersKnown, SlotOwned, Holds, SlotPoints, Slots, Slot, FreeSlot, InCall
<1>4. SlotPoints'
  BY DEF TypeOK, CallersKnown, SlotOwned, Holds, SlotPoints, Slots, Slot, FreeSlot, InCall
<1>5. EarlyIsKept'
  BY DEF TypeOK, CallersKnown, SlotOwned, Holds, SlotPoints, EarlyIsKept, Slots, Slot, FreeSlot, InCall
<1>6. SleepsUnanswered'
  BY DEF TypeOK, CallersKnown, SlotOwned, Holds, SlotPoints, EarlyIsKept, SleepsUnanswered, Slots, Slot, FreeSlot, InCall
<1>7. SeenSoFar' /\ InUseCovers'
  BY DEF TypeOK, SeenSoFar, InUseCovers, Slots, CallersKnown, InCall
<1>8. AnswersApart'
  BY DEF TypeOK, CallersKnown, AnswersApart, InCall, Answers
<1>9. OneCallPerAnswer'
  BY DEF TypeOK, AnswersApart, OneCallPerAnswer
<1> QED  BY <1>1, <1>2, <1>3, <1>4, <1>5, <1>6, <1>7, <1>8, <1>9

LEMMA ReceiveIndStep ==
    ASSUME IInv, NEW a \in pending, ReceiveInd(a)
    PROVE  IInv'
<1> USE SyncAssumption DEF IInv, ReceiveInd, MutexFree, arrayVars, callVars, indVars
<1>1. TypeOK'
  <2>1. a \in Answers /\ 1 \in Slots
    BY DEF TypeOK, Slots
  <2> QED  BY <2>1 DEF TypeOK
<1>2. CallersKnown'
  BY DEF TypeOK, CallersKnown, InCall
<1>3. SlotOwned'
  BY DEF TypeOK, CallersKnown, SlotOwned, Holds, SlotPoints, Slots, Slot, FreeSlot, InCall
<1>4. SlotPoints'
  BY DEF TypeOK, CallersKnown, SlotOwned, Holds, SlotPoints, Slots, Slot, FreeSlot, InCall
<1>5. EarlyIsKept'
  BY DEF TypeOK, CallersKnown, SlotOwned, Holds, SlotPoints, EarlyIsKept, Slots, Slot, FreeSlot, InCall
<1>6. SleepsUnanswered'
  BY DEF TypeOK, CallersKnown, SlotOwned, Holds, SlotPoints, EarlyIsKept, SleepsUnanswered, Slots, Slot, FreeSlot, InCall
<1>7. SeenSoFar' /\ InUseCovers'
  BY DEF TypeOK, SeenSoFar, InUseCovers, Slots, CallersKnown, InCall
<1>8. AnswersApart'
  BY DEF TypeOK, CallersKnown, AnswersApart, InCall, Answers
<1>9. OneCallPerAnswer'
  BY DEF TypeOK, AnswersApart, OneCallPerAnswer
<1> QED  BY <1>1, <1>2, <1>3, <1>4, <1>5, <1>6, <1>7, <1>8, <1>9

LEMMA VisitSlotStep ==
    ASSUME IInv, VisitSlot
    PROVE  IInv'
<1> USE SyncAssumption DEF IInv
<1>k. PICK k \in Slots : k = at
  BY DEF TypeOK
<1>1. /\ cur # None /\ cur \in Answers /\ at \in Slots
      /\ UNCHANGED <<slot_in_use, select_id, calls, want, result, pending>>
      /\ seen' = (seen \/ slot_in_use[at]) /\ seen' \in BOOLEAN
  BY DEF VisitSlot, TypeOK, callVars
<1>2. \/ /\ Matches(at) \/ at = LOC_SYNC_REQ_BUFFER_SIZE
         /\ cur' = None /\ at' = 1 /\ in_use' = (in_use /\ seen')
      \/ /\ ~Matches(at) /\ at # LOC_SYNC_REQ_BUFFER_SIZE
         /\ at' = at + 1 /\ cur' = cur /\ in_use' = in_use
  BY DEF VisitSlot
<1>3. Matches(at) => slot_in_use[at]
  BY DEF Matches
<1>4. at' \in Slots /\ in_use' \in BOOLEAN /\ cur' \in {cur, None}
  BY <1>1, <1>2 DEF TypeOK, Slots
<1>5. SeenSoFar' /\ InUseCovers'
  <2>1. \A i \in 1 .. at : slot_in_use[i] => seen'
    BY <1>1 DEF SeenSoFar, Slots, TypeOK
  <2>2. CASE cur' = None /\ at' = 1 /\ in_use' = (in_use /\ seen') /\ (Matches(at) \/ at = LOC_SYNC_REQ_BUFFER_SIZE)
    <3>1. (\E i \in Slots : slot_in_use[i]) => seen'
      BY <1>1, <1>3, <2>1, <2>2 DEF Slots
    <3> QED  BY <1>1, <2>2, <3>1 DEF SeenSoFar, InUseCovers
  <2>3. CASE at' = at + 1 /\ cur' = cur /\ in_use' = in_use
    BY <1>1, <2>1, <2>3 DEF SeenSoFar, InUseCovers, Slots
  <2> QED  BY <1>2, <2>2, <2>3
<1>6. CASE ~Matches(at)
  <2>1. UNCHANGED <<slots, pc, copied>>
    BY <1>6 DEF VisitSlot
  <2>2. TypeOK'
    BY <1>1, <1>4, <2>1 DEF TypeOK
  <2>3. CallersKnown' /\ SlotOwned' /\ SlotPoints' /\ EarlyIsKept' /\ SleepsUnanswered'
    BY <1>1, <2>1 DEF CallersKnown, SlotOwned, Holds, SlotPoints, EarlyIsKept, SleepsUnanswered
  <2>4. AnswersApart' /\ OneCallPerAnswer'
    BY <1>1, <1>4, <2>1 DEF TypeOK, AnswersApart, OneCallPerAnswer
  <2> QED  BY <1>5, <2>2, <2>3, <2>4
<1>7. CASE Matches(at)
  <2>1. slots[k] # FreeSlot
    BY <1>1, <1>7, <1>k DEF Matches, FreeSlot, Answers
  <2>2. PICK to \in Callers : to = slots[at].recv_ind_payload_ptr /\ Holds(to, k)
    BY <1>k, <2>1 DEF SlotOwned, Holds
  <2>3. pc[to] \in InCall \ {"allocated"} /\ select_id[to] = k
    BY <2>2 DEF Holds
  <2>4. copied' = [copied EXCEPT ![to] = @ \cup {cur}] /\ cur' = None
    BY <1>2, <1>7, <2>2 DEF VisitSlot
  <2>5. copied' \in [Callers -> SUBSET Answers]
    BY <1>1, <2>4 DEF TypeOK
  <2>6. \A d \in Callers \ {to} : copied'[d] = copied[d] /\ (pc[d] \in InCall => select_id[d] \in Slots \ {k})
    BY <2>2, <2>3, <2>4 DEF TypeOK, CallersKnown, SlotOwned
  <2>7. copied'[to] = copied[to] \cup {cur}
    BY <2>2, <2>4 DEF TypeOK
  <2>8. OneCallPerAnswer'
    BY <2>6, <2>7 DEF OneCallPerAnswer, AnswersApart, TypeOK
  <2>9. CASE slots[k].ind_is_waiting
    <3>1. UNCHANGED slots /\ pc' = [pc EXCEPT ![to] = IF @ = "waiting" THEN "signalled" ELSE @]
      BY <1>7, <1>k, <2>2, <2>9 DEF VisitSlot
    <3>2. pc[to] \in {"waiting", "signalled", "expired"}
      BY <2>2, <2>9 DEF Holds
    <3>3. PICK next \in {"signalled", "expired"} : pc' = [pc EXCEPT ![to] = next]
      BY <3>1, <3>2
    <3>4. pc'[to] = next /\ next \in InCall \ {"allocated"} /\ \A d \in Callers \ {to} : pc'[d] = pc[d]
      BY <2>2, <3>3 DEF TypeOK, InCall
    <3>5. SlotOwned'
      <4>1. Holds(to, k)'
        BY <1>1, <2>2, <3>1, <3>4 DEF Holds, InCall
      <4> QED  BY <1>1, <2>2, <2>3, <3>1, <3>3, <3>4, <4>1, OwnedMove
    <3>6. TypeOK'
      BY <1>1, <1>4, <2>5, <3>1, <3>3, <3>4 DEF TypeOK, InCall
    <3>7. CallersKnown' /\ SlotPoints'
      BY <1>1, <2>2, <2>3, <3>1, <3>2, <3>4 DEF CallersKnown, SlotPoints, InCall
    <3>8. EarlyIsKept' /\ SleepsUnanswered'
      BY <1>1, <2>6, <3>1, <3>4 DEF EarlyIsKept, SleepsUnanswered
    <3>9. AnswersApart'
      BY <1>1, <2>4, <2>6, <2>7, <3>2, <3>4 DEF AnswersApart, TypeOK, Answers
    <3> QED  BY <1>5, <2>8, <3>5, <3>6, <3>7, <3>8, <3>9
  <2>10. CASE ~slots[k].ind_is_waiting
    <3>1. UNCHANGED pc /\ slots' = [slots EXCEPT ![k].ind_has_arrived = TRUE]
      BY <1>7, <1>k, <2>10 DEF VisitSlot
    <3>2. /\ slots' \in [Slots -> Slot]
          /\ \A j \in Slots \ {k} : slots'[j] = slots[j]
          /\ slots'[k].ind_is_waiting = slots[k].ind_is_waiting
          /\ slots'[k].ind_has_arrived = TRUE
          /\ slots'[k].recv_ind_id = slots[k].recv_ind_id
          /\ slots'[k].recv_ind_payload_ptr = slots[k].recv_ind_payload_ptr
      <4>1. slots'[k] = [slots[k] EXCEPT !.ind_has_arrived = TRUE] /\ slots[k] \in Slot
        BY <1>k, <3>1 DEF TypeOK
      <4>2. slots'[k] \in Slot
        BY <4>1 DEF Slot
      <4> QED  BY <1>k, <3>1, <4>1, <4>2 DEF Slot, TypeOK
    <3>3. SlotOwned'
      <4>1. Holds(to, k)'
        BY <1>1, <2>2, <3>1, <3>2 DEF Holds
      <4>2. pc' = [pc EXCEPT ![to] = pc[to]]
        BY <3>1 DEF TypeOK
      <4> QED  BY <1>1, <2>2, <2>3, <3>2, <4>1, <4>2, OwnedMove
    <3>4. TypeOK'
      BY <1>1, <1>4, <2>5, <3>1, <3>2 DEF TypeOK
    <3>5. CallersKnown' /\ SlotPoints'
      BY <1>1, <2>2, <2>3, <2>6, <2>10, <3>1, <3>2 DEF CallersKnown, SlotPoints, InCall
    <3>6. pc[to] # "waiting"
      BY <2>3, <2>10 DEF SlotPoints
    <3>7. EarlyIsKept' /\ SleepsUnanswered'
      BY <1>1, <2>2, <2>3, <2>6, <3>1, <3>2, <3>6 DEF EarlyIsKept, SleepsUnanswered, InCall
    <3>8. AnswersApart'
      BY <1>1, <2>4, <2>6, <2>7, <3>1 DEF AnswersApart, TypeOK, Answers
    <3> QED  BY <1>5, <2>8, <3>3, <3>4, <3>5, <3>7, <3>8
  <2> QED  BY <2>9, <2>10
<1> QED  BY <1>6, <1>7

-----------------------------------------------------------------------------
(* Theorems                                                                *)

THEOREM NextKeeps == IInv /\ [Next]_vars => IInv'
<1> SUFFICES ASSUME IInv, [Next]_vars PROVE IInv'
  OBVIOUS
<1>1. CASE UNCHANGED vars
  BY <1>1 DEF vars, arrayVars, callVars, indVars, IInv, TypeOK, CallersKnown, SlotOwned, Holds,
              SlotPoints, EarlyIsKept, SleepsUnanswered, SeenSoFar, InUseCovers,
              AnswersApart, OneCallPerAnswer
<1>2. ASSUME NEW c \in Callers, NEW ind \in Inds, AllocSlot(c, ind) PROVE IInv'
  BY <1>2, AllocSlotStep
<1>3. ASSUME NEW c \in Callers, BufferFull(c) PROVE IInv'
  BY <1>3, BufferFullStep
<1>4. ASSUME NEW c \in Callers, CallerStep(c) PROVE IInv'
  BY <1>4, SelectIndStep, SendReqStep, WaitForIndStep, WakeUpStep, WokenStep,
     FreeTheSlotStep, ReturnFullStep DEF CallerStep
<1>5. ASSUME NEW a \in pending, ReceiveInd(a) PROVE IInv'
  BY <1>5, ReceiveIndStep
<1>6. CASE VisitSlot
  BY <1>6, VisitSlotStep
<1> QED  BY <1>1, <1>2, <1>3, <1>4, <1>5, <1>6 DEF Next

(* The inductive invariant holds of every behaviour of the two kinds of    *)
(* threads.                                                                *)
THEOREM Invariance == Spec => []IInv
<1> QED  BY InitHolds, NextKeeps, PTL DEF Spec

(* A slot in use is of one call of loc_sync_send_req, and an indication is *)
(* copied only to the buffer of a caller that is still inside its call.    *)
THEOREM SlotsAreOwned == Spec => []SlotOwned
<1>1. IInv => SlotOwned
  BY DEF IInv
<1> QED  BY <1>1, Invariance, PTL

(* loc_sync_process_ind never finds the array idle while a slot is in use. *)
THEOREM InUseIsTrue == Spec => []InUseCovers
<1>1. IInv => InUseCovers
  BY DEF IInv
<1> QED  BY <1>1, Invariance, PTL

(* loc_sync_wait_for_ind never sleeps on an answer that has come.          *)
THEOREM NoLostWakeup == Spec => []SleepsUnanswered
<1>1. IInv => SleepsUnanswered
  BY DEF IInv
<1> QED  BY <1>1, Invariance, PTL

(* loc_sync_process_ind gives an indication to one call at most.           *)
THEOREM AnswersAreNotShared == Spec => []OneCallPerAnswer
<1>1. IInv => OneCallPerAnswer
  BY DEF IInv
<1> QED  BY <1>1, Invariance, PTL
=============================================================================
