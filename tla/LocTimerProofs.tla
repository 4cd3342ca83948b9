---------------------------- MODULE LocTimerProofs ----------------------------
(***************************************************************************)
(* The invariants of LocTimer for every set of clients and of delegates,   *)
(* every set of delays and every clock: no timer object is leaked or used  *)
(* after it was deleted, and no expiration is lost between the threads.    *)
(***************************************************************************)
EXTENDS LocTimer, TLAPS

IInv == TypeOK /\ Owned /\ Headed /\ Armed

USE NoneAssumption, TimeAssumption, DeletableAssumption

-----------------------------------------------------------------------------
(* The queue                                                               *)

\* The messages are told apart by their type and their timer.
LEMMA Messages ==
    /\ ExpireMsg \in Msg
    /\ \A d \in Delegates :
         /\ PushMsg(d) \in Msg /\ RemoveMsg(d) \in Msg
         /\ PushMsg(d) # ExpireMsg /\ RemoveMsg(d) # ExpireMsg
         /\ \A e \in Delegates : /\ PushMsg(d) # RemoveMsg(e)
                                 /\ PushMsg(d) = PushMsg(e) => d = e
                                 /\ RemoveMsg(d) = RemoveMsg(e) => d = e
    /\ \A x \in Msg : /\ x.type = "PUSH" => x.timer \in Delegates /\ x = PushMsg(x.timer)
                      /\ x.type = "REMOVE" => x.timer \in Delegates /\ x = RemoveMsg(x.timer)
                      /\ x.type = "EXPIRE" => x = ExpireMsg
<1>1. /\ ExpireMsg \in Msg
      /\ \A d \in Delegates :
           /\ PushMsg(d) \in Msg /\ RemoveMsg(d) \in Msg
           /\ PushMsg(d).type = "PUSH" /\ RemoveMsg(d).type = "REMOVE"
           /\ PushMsg(d).timer = d /\ RemoveMsg(d).timer = d
      /\ ExpireMsg.type = "EXPIRE"
  BY DEF Msg, PushMsg, RemoveMsg, ExpireMsg
<1>2. \A x \in Msg : /\ x.type = "PUSH" => x.timer \in Delegates /\ x = PushMsg(x.timer)
                     /\ x.type = "REMOVE" => x.timer \in Delegates /\ x = RemoveMsg(x.timer)
                     /\ x.type = "EXPIRE" => x = ExpireMsg
  BY DEF Msg, PushMsg, RemoveMsg, ExpireMsg
<1> QED  BY <1>1, <1>2

\* Appending x adds x; the removals keep the last word when x is not about a
\* timer whose removal is under way.
LEMMA Appended ==
    ASSUME NEW q \in Seq(Msg), NEW x \in Msg
    PROVE  /\ Append(q, x) \in Seq(Msg)
           /\ \A y : Contains(Append(q, x), y) <=> Contains(q, y) \/ x = y
           /\ LastWord(q) /\ (\A d \in Delegates : x \in {PushMsg(d), RemoveMsg(d)}
                                => ~ Contains(q, RemoveMsg(d)))
                => LastWord(Append(q, x))
<1> DEFINE p == Append(q, x)
<1>1. /\ Len(p) = Len(q) + 1
      /\ \A i \in 1 .. Len(q) : p[i] = q[i]
      /\ p[Len(q) + 1] = x
      /\ p \in Seq(Msg)
      /\ Len(q) \in Nat
  OBVIOUS
<1> HIDE DEF p
<1>2. \A y : Contains(p, y) <=> Contains(q, y) \/ x = y
  BY <1>1 DEF Contains
<1>3. ASSUME LastWord(q),
             \A d \in Delegates : x \in {PushMsg(d), RemoveMsg(d)} => ~ Contains(q, RemoveMsg(d))
      PROVE  LastWord(p)
  <2>1. SUFFICES ASSUME NEW i \in 1 .. Len(p), NEW j \in 1 .. Len(p), NEW d \in Delegates,
                        i < j, p[i] = RemoveMsg(d)
                 PROVE  p[j] \notin {PushMsg(d), RemoveMsg(d)}
    BY DEF LastWord
  <2>2. i \in 1 .. Len(q) /\ p[i] = q[i]
    BY <1>1, <2>1
  <2>3. CASE j \in 1 .. Len(q)
    BY <1>1, <1>3, <2>1, <2>2, <2>3 DEF LastWord
  <2>4. CASE j = Len(q) + 1
    <3>1. Contains(q, RemoveMsg(d))
      BY <2>1, <2>2 DEF Contains
    <3> QED  BY <1>1, <1>3, <2>4, <3>1
  <2> QED  BY <1>1, <2>3, <2>4
<1> QED  BY <1>1, <1>2, <1>3 DEF p

\* Taking the head removes one message; a removal that is taken was the last
\* message about its timer.
LEMMA Taken ==
    ASSUME NEW q \in Seq(Msg), q # <<>>
    PROVE  /\ Head(q) \in Msg
           /\ Tail(q) \in Seq(Msg)
           /\ Contains(q, Head(q))
           /\ \A y : /\ Contains(Tail(q), y) => Contains(q, y)
                     /\ Contains(q, y) => Contains(Tail(q), y) \/ Head(q) = y
           /\ LastWord(q) =>
                /\ LastWord(Tail(q))
                /\ \A d \in Delegates : Head(q) = RemoveMsg(d) =>
                     ~ Contains(Tail(q), PushMsg(d)) /\ ~ Contains(Tail(q), RemoveMsg(d))
<1> DEFINE p == Tail(q)
<1>1. /\ Len(q) \in Nat \ {0}
      /\ Len(p) = Len(q) - 1
      /\ \A i \in 1 .. Len(q) - 1 : p[i] = q[i + 1]
      /\ Head(q) = q[1]
      /\ Head(q) \in Msg
      /\ p \in Seq(Msg)
  OBVIOUS
<1> HIDE DEF p
<1>2. Contains(q, Head(q))
  BY <1>1 DEF Contains
<1>3. ASSUME NEW y, Contains(p, y) PROVE Contains(q, y)
  <2>1. PICK i \in 1 .. Len(p) : p[i] = y
    BY <1>3 DEF Contains
  <2>2. i + 1 \in 1 .. Len(q) /\ q[i + 1] = y
    BY <1>1, <2>1
  <2> QED  BY <2>2 DEF Contains
<1>4. ASSUME NEW y, Contains(q, y), Head(q) # y PROVE Contains(p, y)
  <2>1. PICK i \in 1 .. Len(q) : q[i] = y
    BY <1>4 DEF Contains
  <2>2. i - 1 \in 1 .. Len(p) /\ p[i - 1] = y
    BY <1>1, <1>4, <2>1
  <2> QED  BY <2>2 DEF Contains
<1>5. ASSUME LastWord(q) PROVE LastWord(p)
  <2>1. SUFFICES ASSUME NEW i \in 1 .. Len(p), NEW j \in 1 .. Len(p), NEW d \in Delegates,
                        i < j, p[i] = RemoveMsg(d)
                 PROVE  p[j] \notin {PushMsg(d), RemoveMsg(d)}
    BY DEF LastWord
  <2>2. /\ i + 1 \in 1 .. Len(q) /\ j + 1 \in 1 .. Len(q) /\ i + 1 < j + 1
        /\ p[i] = q[i + 1] /\ p[j] = q[j + 1]
    BY <1>1, <2>1
  <2> QED  BY <1>5, <2>1, <2>2 DEF LastWord
<1>6. ASSUME LastWord(q), NEW d \in Delegates, Head(q) = RemoveMsg(d),
             NEW y \in {PushMsg(d), RemoveMsg(d)}, Contains(p, y)
      PROVE  FALSE
  <2>1. PICK i \in 1 .. Len(p) : p[i] = y
    BY <1>6 DEF Contains
  <2>2. 1 \in 1 .. Len(q) /\ i + 1 \in 1 .. Len(q) /\ 1 < i + 1 /\ q[i + 1] = y /\ q[1] = RemoveMsg(d)
    BY <1>1, <1>6, <2>1
  <2> QED  BY <1>6, <2>2 DEF LastWord
<1> QED  BY <1>1, <1>2, <1>3, <1>4, <1>5, <1>6 DEF p

-----------------------------------------------------------------------------
(* Who owns a delegate                                                     *)

\* Owned reads the clients, the allocation, the heap and the queue only.
LEMMA OwnedFrame ==
    ASSUME Owned, UNCHANGED <<mTimer, mClient, live, heap, msgQ>>
    PROVE  Owned'
BY DEF Owned, Known, Removed

\* An Expire message is about no timer.
LEMMA OwnedByAnnouncement ==
    ASSUME TypeOK, Owned, Send(ExpireMsg), UNCHANGED <<mTimer, mClient, live, heap>>
    PROVE  Owned' /\ msgQ' \in Seq(Msg) /\ Contains(msgQ', ExpireMsg)
<1>1. /\ msgQ' = Append(msgQ, ExpireMsg) /\ msgQ \in Seq(Msg) /\ ExpireMsg \in Msg
      /\ \A d \in Delegates : PushMsg(d) # ExpireMsg /\ RemoveMsg(d) # ExpireMsg
  BY Messages DEF Send, TypeOK
<1>2. /\ msgQ' \in Seq(Msg) /\ Contains(msgQ', ExpireMsg)
      /\ \A d \in Delegates : /\ Contains(msgQ', PushMsg(d)) <=> Contains(msgQ, PushMsg(d))
                              /\ Contains(msgQ', RemoveMsg(d)) <=> Contains(msgQ, RemoveMsg(d))
      /\ LastWord(msgQ')
  BY <1>1, Appended DEF Owned
<1> QED  BY <1>2 DEF Owned, Known, Removed, TypeOK

\* Stopping a running timer leaves its delegate to its removal.
LEMMA OwnedByStop ==
    ASSUME TypeOK, Owned, NEW c \in Clients, mTimer[c] # None, StopRunning(c),
           UNCHANGED <<live, heap>>
    PROVE  /\ Owned' /\ msgQ' \in Seq(Msg)
           /\ mTimer' \in [Clients -> Delegates \cup {None}]
           /\ mClient' \in [Delegates -> Clients \cup {None}]
           /\ Contains(msgQ', ExpireMsg) <=> Contains(msgQ, ExpireMsg)
<1>1. PICK d \in Delegates : d = mTimer[c] /\ mClient[d] = c /\ d \in live /\ ~ Removed(d)
  BY DEF TypeOK, Owned
<1>2. /\ mTimer' = [mTimer EXCEPT ![c] = None]
      /\ mClient' = [mClient EXCEPT ![d] = None]
      /\ msgQ' = Append(msgQ, RemoveMsg(d))
      /\ msgQ \in Seq(Msg)
  BY <1>1 DEF StopRunning, Send, TypeOK
<1>3. /\ mTimer' \in [Clients -> Delegates \cup {None}]
      /\ mTimer'[c] = None
      /\ \A b \in Clients \ {c} : mTimer'[b] = mTimer[b]
      /\ mClient' \in [Delegates -> Clients \cup {None}]
      /\ mClient'[d] = None
      /\ \A e \in Delegates \ {d} : mClient'[e] = mClient[e]
  BY <1>1, <1>2 DEF TypeOK
<1>4. \A e \in Delegates : RemoveMsg(d) \in {PushMsg(e), RemoveMsg(e)} => e = d
  BY <1>1, Messages
<1>5. /\ msgQ' \in Seq(Msg)
      /\ LastWord(msgQ')
      /\ \A y : Contains(msgQ', y) <=> Contains(msgQ, y) \/ RemoveMsg(d) = y
  BY <1>1, <1>2, <1>4, Appended, Messages DEF Owned, Removed
<1>6. /\ Removed(d)'
      /\ \A e \in Delegates \ {d} : (Removed(e)' <=> Removed(e)) /\ (Known(e)' <=> Known(e))
      /\ Contains(msgQ', ExpireMsg) <=> Contains(msgQ, ExpireMsg)
  BY <1>1, <1>5, Messages DEF Removed, Known
<1>7. \A b \in Clients \ {c} : mTimer[b] # d
  BY <1>1 DEF Owned
<1>8. Owned'
  <2>1. \A b \in Clients : mTimer'[b] # None => mClient'[mTimer'[b]] = b
    BY <1>3, <1>7 DEF Owned, TypeOK
  <2>2. \A e \in Delegates : mClient'[e] # None =>
          mTimer'[mClient'[e]] = e /\ e \in live' /\ ~ Removed(e)'
    BY <1>1, <1>3, <1>6 DEF Owned, TypeOK
  <2>3. \A e \in live' : mClient'[e] = None => Removed(e)'
    BY <1>3, <1>6 DEF Owned, TypeOK
  <2>4. \A e \in Delegates : Known(e)' => e \in live'
    BY <1>1, <1>6 DEF Owned
  <2> QED  BY <1>5, <2>1, <2>2, <2>3, <2>4 DEF Owned
<1> QED  BY <1>3, <1>5, <1>6, <1>8

\* A delegate that is allocated is known to nobody but its client.
LEMMA OwnedByStart ==
    ASSUME TypeOK, Owned, NEW c \in Clients, mTimer[c] = None,
           NEW d \in Delegates \ live,
           live' = live \cup {d},
           mTimer' = [mTimer EXCEPT ![c] = d],
           mClient' = [mClient EXCEPT ![d] = c],
           Send(PushMsg(d)), UNCHANGED heap
    PROVE  /\ Owned' /\ msgQ' \in Seq(Msg)
           /\ Contains(msgQ', ExpireMsg) <=> Contains(msgQ, ExpireMsg)
<1>1. /\ ~ Known(d) /\ mClient[d] = None /\ d # None
      /\ msgQ' = Append(msgQ, PushMsg(d)) /\ msgQ \in Seq(Msg)
  BY DEF Owned, Send, TypeOK
<1>2. /\ mTimer'[c] = d
      /\ \A b \in Clients \ {c} : mTimer'[b] = mTimer[b]
      /\ mClient'[d] = c
      /\ \A e \in Delegates \ {d} : mClient'[e] = mClient[e]
  BY DEF TypeOK
<1>3. \A e \in Delegates : PushMsg(d) \in {PushMsg(e), RemoveMsg(e)} => e = d
  BY Messages
<1>4. /\ msgQ' \in Seq(Msg)
      /\ LastWord(msgQ')
      /\ \A y : Contains(msgQ', y) <=> Contains(msgQ, y) \/ PushMsg(d) = y
  BY <1>1, <1>3, Appended, Messages DEF Owned, Known, Removed
<1>5. /\ \A e \in Delegates : Removed(e)' <=> Removed(e)
      /\ \A e \in Delegates \ {d} : Known(e)' <=> Known(e)
      /\ Contains(msgQ', ExpireMsg) <=> Contains(msgQ, ExpireMsg)
  BY <1>4, Messages DEF Removed, Known
<1>6. \A b \in Clients : mTimer[b] # d
  BY <1>1 DEF Owned, TypeOK
<1>7. Owned'
  <2>1. \A b \in Clients : mTimer'[b] # None => mClient'[mTimer'[b]] = b
    BY <1>2, <1>6 DEF Owned, TypeOK
  <2>2. \A e \in Delegates : mClient'[e] # None =>
          mTimer'[mClient'[e]] = e /\ e \in live' /\ ~ Removed(e)'
    <3>1. \A e \in Delegates \ {d} : mClient[e] # c
      BY DEF Owned, TypeOK
    <3> QED  BY <1>1, <1>2, <1>5, <3>1 DEF Owned, TypeOK, Known
  <2>3. \A e \in live' : mClient'[e] = None => Removed(e)'
    BY <1>2, <1>5 DEF Owned, TypeOK
  <2>4. \A e \in Delegates : Known(e)' => e \in live'
    BY <1>5 DEF Owned
  <2> QED  BY <1>4, <2>1, <2>2, <2>3, <2>4 DEF Owned
<1> QED  BY <1>4, <1>5, <1>7

\* The head of the queue becomes known to the heap, or is forgotten.
LEMMA OwnedByPush ==
    ASSUME TypeOK, Owned, NEW d \in Delegates, msgQ # <<>>, Head(msgQ) = PushMsg(d),
           msgQ' = Tail(msgQ), heap' = heap \cup {d}, UNCHANGED <<mTimer, mClient, live>>
    PROVE  Owned'
<1>1. /\ Contains(msgQ, PushMsg(d))
      /\ \A y : /\ Contains(msgQ', y) => Contains(msgQ, y)
                /\ Contains(msgQ, y) => Contains(msgQ', y) \/ PushMsg(d) = y
      /\ LastWord(msgQ')
  BY Taken DEF TypeOK, Owned
<1>2. d \in live
  BY <1>1 DEF Owned, Known
<1>3. \A e \in Delegates : Removed(e)' <=> Removed(e)
  BY <1>1, Messages DEF Removed
<1>4. \A e \in Delegates : Known(e)' => Known(e) \/ e = d
  BY <1>1 DEF Known, Removed
<1> QED  BY <1>1, <1>2, <1>3, <1>4 DEF Owned, TypeOK

\* A delegate whose removal is taken is forgotten by everybody.
LEMMA OwnedByRemove ==
    ASSUME TypeOK, Owned, NEW d \in Delegates, msgQ # <<>>, Head(msgQ) = RemoveMsg(d),
           msgQ' = Tail(msgQ), heap' = heap \ {d}, live' = live \ {d},
           UNCHANGED <<mTimer, mClient>>
    PROVE  Owned'
<1>1. /\ Contains(msgQ, RemoveMsg(d))
      /\ \A y : /\ Contains(msgQ', y) => Contains(msgQ, y)
                /\ Contains(msgQ, y) => Contains(msgQ', y) \/ RemoveMsg(d) = y
      /\ LastWord(msgQ')
      /\ ~ Contains(msgQ', PushMsg(d)) /\ ~ Contains(msgQ', RemoveMsg(d))
  BY Taken DEF TypeOK, Owned
<1>2. mClient[d] = None
  BY <1>1 DEF Owned, Removed
<1>3. \A e \in Delegates \ {d} : Removed(e)' <=> Removed(e)
  BY <1>1, Messages DEF Removed
<1>4. \A e \in Delegates : Known(e)' => Known(e) /\ e # d
  BY <1>1 DEF Known, Removed
<1> QED  BY <1>1, <1>2, <1>3, <1>4 DEF Owned, TypeOK

\* An Expire message, and the heap that it shortens, concern no ownership.
LEMMA OwnedByExpire ==
    ASSUME TypeOK, Owned, msgQ # <<>>, Head(msgQ) = ExpireMsg, msgQ' = Tail(msgQ),
           heap' \subseteq heap, UNCHANGED <<mTimer, mClient, live>>
    PROVE  Owned'
<1>1. /\ \A y : /\ Contains(msgQ', y) => Contains(msgQ, y)
                /\ Contains(msgQ, y) => Contains(msgQ', y) \/ ExpireMsg = y
      /\ LastWord(msgQ')
  BY Taken DEF TypeOK, Owned
<1>2. \A e \in Delegates : Removed(e)' <=> Removed(e)
  BY <1>1, Messages DEF Removed
<1>3. \A e \in Delegates : Known(e)' => Known(e)
  BY <1>1 DEF Known, Removed
<1> QED  BY <1>1, <1>2, <1>3 DEF Owned, TypeOK

LEMMA OwnedByPop ==
    ASSUME Owned, heap' \subseteq heap, UNCHANGED <<mTimer, mClient, live, msgQ>>
    PROVE  Owned'
BY DEF Owned, Known, Removed

-----------------------------------------------------------------------------
(* The heap                                                                *)

\* The heap without one of its members, or without a stranger, is headed by
\* one of the soonest again; times change outside it only.
LEMMA HeadedWithout ==
    ASSUME TypeOK, Headed, NEW d \in Delegates, HeapWithout(d),
           \A e \in heap \ {d} : due'[e] = due[e]
    PROVE  /\ Headed' /\ heap' = heap \ {d} /\ top' \in heap' \cup {None}
           /\ d # top => top' = top
<1>1. CASE d = top
  BY <1>1 DEF HeapWithout, SoonestOf, Headed, TypeOK
<1>2. CASE d # top
  BY <1>2 DEF HeapWithout, Headed, TypeOK
<1> QED  BY <1>1, <1>2

-----------------------------------------------------------------------------
(* The steps of the clients                                                *)

\* The heap and the threads, when a client acts.
LEMMA ClientFrame ==
    ASSUME TypeOK, Owned, Headed, Armed, msgQ' \in Seq(Msg),
           Contains(msgQ', ExpireMsg) <=> Contains(msgQ, ExpireMsg),
           \A d \in live : due'[d] = due[d],
           UNCHANGED <<heapVars, task, poll, kernelVars>>
    PROVE  Headed' /\ Armed'
<1>1. \A d \in heap : d \in live /\ due'[d] = due[d]
  BY DEF Owned, Known, TypeOK
<1>2. Headed'
  BY <1>1 DEF Headed, heapVars
<1>3. heap # {} => due'[top] = due[top]
  BY <1>1 DEF Headed
<1> QED  BY <1>2, <1>3 DEF Armed, Expiring, heapVars, kernelVars

LEMMA StartStep ==
    ASSUME IInv, NEW c \in Clients, NEW delay \in Delays, Start(c, delay)
    PROVE  IInv'
<1> USE DEF IInv
<1>1. PICK d \in Delegates \ live :
        /\ live' = live \cup {d}
        /\ mTimer' = [mTimer EXCEPT ![c] = d]
        /\ mClient' = [mClient EXCEPT ![d] = c]
        /\ due' = [due EXCEPT ![d] = now + delay]
        /\ Send(PushMsg(d))
  BY DEF Start
<1>2. mTimer[c] = None /\ now + delay <= MaxTime
      /\ UNCHANGED <<now, dead, heapVars, task, poll, kernelVars>>
  BY DEF Start
<1>3. /\ Owned' /\ msgQ' \in Seq(Msg)
      /\ Contains(msgQ', ExpireMsg) <=> Contains(msgQ, ExpireMsg)
  BY <1>1, <1>2, OwnedByStart DEF heapVars
<1>4. Headed' /\ Armed'
  <2>1. \A e \in live : due'[e] = due[e]
    BY <1>1 DEF TypeOK
  <2> QED  BY <1>2, <1>3, <2>1, ClientFrame
<1>5. TypeOK'
  <2>1. now + delay \in 0 .. MaxTime
    BY <1>2 DEF TypeOK
  <2> QED  BY <1>1, <1>2, <1>3, <2>1 DEF TypeOK, heapVars, kernelVars
<1> QED  BY <1>3, <1>4, <1>5

LEMMA StopStep ==
    ASSUME IInv, NEW c \in Clients, Stop(c)
    PROVE  IInv'
<1> USE DEF IInv
<1>1. /\ mTimer[c] # None /\ StopRunning(c)
      /\ UNCHANGED <<now, dead, live, due, heapVars, task, poll, kernelVars>>
  BY DEF Stop
<1>2. /\ Owned' /\ msgQ' \in Seq(Msg)
      /\ mTimer' \in [Clients -> Delegates \cup {None}]
      /\ mClient' \in [Delegates -> Clients \cup {None}]
      /\ Contains(msgQ', ExpireMsg) <=> Contains(msgQ, ExpireMsg)
  BY <1>1, OwnedByStop DEF heapVars
<1>3. Headed' /\ Armed'
  BY <1>1, <1>2, ClientFrame
<1> QED  BY <1>1, <1>2, <1>3 DEF TypeOK, heapVars, kernelVars

LEMMA DeleteStep ==
    ASSUME IInv, NEW c \in Clients, Delete(c)
    PROVE  IInv'
<1> USE DEF IInv
<1>1. /\ c \in Deletable /\ dead' = dead \cup {c}
      /\ UNCHANGED <<now, live, due, heapVars, task, poll, kernelVars>>
  BY DEF Delete
<1>2. CASE mTimer[c] # None
  <2>1. StopRunning(c)
    BY <1>2 DEF Delete
  <2>2. /\ Owned' /\ msgQ' \in Seq(Msg)
        /\ mTimer' \in [Clients -> Delegates \cup {None}]
        /\ mClient' \in [Delegates -> Clients \cup {None}]
        /\ Contains(msgQ', ExpireMsg) <=> Contains(msgQ, ExpireMsg)
    BY <1>1, <1>2, <2>1, OwnedByStop DEF heapVars
  <2>3. Headed' /\ Armed'
    BY <1>1, <2>2, ClientFrame
  <2> QED  BY <1>1, <2>2, <2>3 DEF TypeOK, heapVars, kernelVars
<1>3. CASE mTimer[c] = None
  <2>1. UNCHANGED <<mTimer, mClient, msgQ>>
    BY <1>3 DEF Delete
  <2>2. Owned' /\ Headed' /\ Armed'
    BY <1>1, <2>1, OwnedFrame, ClientFrame DEF heapVars, TypeOK
  <2> QED  BY <1>1, <2>1, <2>2 DEF TypeOK, heapVars, kernelVars
<1> QED  BY <1>2, <1>3

-----------------------------------------------------------------------------
(* The steps of the task thread                                            *)

LEMMA PushStep ==
    ASSUME IInv, ProcPush
    PROVE  IInv'
<1> USE DEF IInv
<1>1. PICK d \in Delegates : Head(msgQ) = PushMsg(d) /\ Head(msgQ).timer = d
  BY Taken, Messages DEF ProcPush, Take, TypeOK
<1> DEFINE cur == IF top = None THEN d ELSE IF due[d] < due[top] THEN d ELSE top
<1>2. /\ msgQ # <<>> /\ msgQ' = Tail(msgQ) /\ task.pc = "idle"
      /\ heap' = heap \cup {d} /\ top' = cur
      /\ UpdateSoonestTime(top, cur)
      /\ UNCHANGED <<now, clientVars, live, due, poll, kernelVars>>
  BY <1>1 DEF ProcPush, Take
<1>3. Owned'
  BY <1>1, <1>2, OwnedByPush DEF clientVars
<1>4. Headed'
  BY <1>2 DEF Headed, TypeOK
<1>5. task' \in {[task EXCEPT !.pc = "addPoll"], [task EXCEPT !.pc = "idle"]}
  BY <1>2 DEF UpdateSoonestTime, Go
<1>6. TypeOK'
  <2>1. msgQ' \in Seq(Msg)
    BY <1>2, Taken DEF TypeOK
  <2> QED  BY <1>2, <1>5, <2>1 DEF TypeOK, clientVars, kernelVars
<1>7. Armed'
  <2>1. task'.pc \in {"addPoll", "idle"} /\ heap' # {}
    BY <1>2, <1>5 DEF TypeOK
  <2>2. Expiring => Expiring'
    BY <1>1, <1>2, Taken, Messages DEF Expiring, TypeOK
  <2>3. ASSUME task'.pc = "idle" PROVE Expiring' \/ (polled' /\ fd' = due'[top'])
    <3>1. top = cur /\ top # None
      BY <1>2, <2>3 DEF UpdateSoonestTime, Go, TypeOK
    <3>2. heap # {}
      BY <3>1 DEF Headed
    <3> QED  BY <1>2, <2>2, <3>1, <3>2 DEF Armed, kernelVars
  <2> QED  BY <2>1, <2>3 DEF Armed
<1> QED  BY <1>3, <1>4, <1>6, <1>7

LEMMA RemoveStep ==
    ASSUME IInv, ProcRemove
    PROVE  IInv'
<1> USE DEF IInv
<1>1. PICK d \in Delegates : Head(msgQ) = RemoveMsg(d) /\ Head(msgQ).timer = d
  BY Taken, Messages DEF ProcRemove, Take, TypeOK
<1>2. /\ msgQ # <<>> /\ msgQ' = Tail(msgQ) /\ task.pc = "idle"
      /\ HeapWithout(d)
      /\ IF top = (IF d \in heap THEN d ELSE None)
         THEN UpdateSoonestTime(None, top') ELSE Go("idle")
      /\ live' = live \ {d} /\ due' = [due EXCEPT ![d] = 0]
      /\ UNCHANGED <<now, clientVars, poll, kernelVars>>
  BY <1>1 DEF ProcRemove, Take
<1>3. /\ Headed' /\ heap' = heap \ {d} /\ top' \in heap' \cup {None}
      /\ d # top => top' = top
  BY <1>2, HeadedWithout DEF TypeOK
<1>4. Owned'
  BY <1>1, <1>2, <1>3, OwnedByRemove DEF clientVars
<1>5. task' \in {[task EXCEPT !.pc = "addPoll"], [task EXCEPT !.pc = "idle"]}
  BY <1>2 DEF UpdateSoonestTime, Go
<1>6. TypeOK'
  <2>1. msgQ' \in Seq(Msg)
    BY <1>2, Taken DEF TypeOK
  <2>2. due' \in [Delegates -> 0 .. MaxTime]
    BY <1>2 DEF TypeOK
  <2> QED  BY <1>2, <1>3, <1>5, <2>1, <2>2 DEF TypeOK, clientVars, kernelVars
<1>7. Armed'
  <2>1. Expiring => Expiring'
    BY <1>1, <1>2, Taken, Messages DEF Expiring, TypeOK
  <2>2. CASE top = (IF d \in heap THEN d ELSE None)
    <3>1. /\ heap' # {} => task'.pc = "addPoll"
          /\ heap' = {} => task'.pc = "idle"
      BY <1>2, <1>3, <2>2 DEF UpdateSoonestTime, Go, TypeOK, Headed
    <3> QED  BY <3>1 DEF Armed
  <2>3. CASE top # (IF d \in heap THEN d ELSE None)
    <3>1. task'.pc = "idle"
      BY <1>2, <2>3 DEF Go, TypeOK
    <3>2. top' = top /\ top # None /\ top # d
      BY <1>3, <2>3 DEF Headed, TypeOK
    <3>3. due'[top'] = due[top] /\ heap # {}
      BY <1>2, <3>2 DEF TypeOK
    <3> QED  BY <1>2, <2>1, <3>1, <3>3 DEF Armed, kernelVars
  <2> QED  BY <2>2, <2>3
<1> QED  BY <1>3, <1>4, <1>6, <1>7

\* After a pop the task thread is busy, and there is nothing to arm yet.
LEMMA PopKeeps ==
    ASSUME IInv, NEW t \in 0 .. MaxTime, top # None, Pop(t), UNCHANGED due
    PROVE  /\ Headed' /\ heap' \subseteq heap /\ top' \in heap' \cup {None}
           /\ task' \in [pc : {"stop", "next"}, now : 0 .. MaxTime, client : Clients \cup {None}]
           /\ task'.pc = "stop" => task'.client # None
<1>1. top \in Delegates
  BY DEF IInv, TypeOK
<1>2. HeapWithout(top) /\ task' = [pc |-> IF mClient[top] = None THEN "next" ELSE "stop",
                                   now |-> t, client |-> mClient[top]]
  BY DEF Pop
<1>3. Headed' /\ heap' = heap \ {top} /\ top' \in heap' \cup {None}
  BY <1>1, <1>2, HeadedWithout DEF IInv
<1>4. mClient[top] \in Clients \cup {None}
  BY <1>1 DEF IInv, TypeOK
<1> QED  BY <1>2, <1>3, <1>4

LEMMA ExpireStep ==
    ASSUME IInv, ProcExpire
    PROVE  IInv'
<1> USE DEF IInv
<1>1. Head(msgQ) = ExpireMsg
  BY Taken, Messages DEF ProcExpire, Take, TypeOK
<1>2. /\ msgQ # <<>> /\ msgQ' = Tail(msgQ) /\ task.pc = "idle"
      /\ IF top # None THEN Pop(now) ELSE UNCHANGED <<heapVars, task>>
      /\ UNCHANGED <<now, clientVars, live, due, poll, kernelVars>>
  BY DEF ProcExpire, Take
<1>3. msgQ' \in Seq(Msg) /\ now \in 0 .. MaxTime
  BY <1>2, Taken DEF TypeOK
<1>4. CASE top # None
  <2>1. /\ Headed' /\ heap' \subseteq heap /\ top' \in heap' \cup {None}
        /\ task' \in [pc : {"stop", "next"}, now : 0 .. MaxTime, client : Clients \cup {None}]
        /\ task'.pc = "stop" => task'.client # None
    BY <1>2, <1>3, <1>4, PopKeeps
  <2>2. Owned'
    BY <1>1, <1>2, <2>1, OwnedByExpire DEF clientVars
  <2>3. TypeOK'
    BY <1>2, <1>3, <2>1 DEF TypeOK, clientVars, kernelVars
  <2>4. Armed'
    BY <2>1 DEF Armed
  <2> QED  BY <2>1, <2>2, <2>3, <2>4
<1>5. CASE top = None
  <2>1. UNCHANGED <<heapVars, task>> /\ heap = {}
    BY <1>2, <1>5 DEF Headed, TypeOK
  <2>2. Owned'
    BY <1>1, <1>2, <2>1, OwnedByExpire DEF clientVars, heapVars
  <2> QED  BY <1>2, <1>3, <2>1, <2>2 DEF TypeOK, Headed, Armed, heapVars, clientVars, kernelVars
<1> QED  BY <1>4, <1>5

LEMMA NextStep ==
    ASSUME IInv, PopIfOutRanks
    PROVE  IInv'
<1> USE DEF IInv
<1>1. UNCHANGED <<now, clientVars, live, due, msgQ, poll, kernelVars>>
  BY DEF PopIfOutRanks
<1>2. CASE top # None /\ due[top] <= task.now
  <2>1. Pop(task.now) /\ task.now \in 0 .. MaxTime
    BY <1>2 DEF PopIfOutRanks, TypeOK
  <2>2. /\ Headed' /\ heap' \subseteq heap /\ top' \in heap' \cup {None}
        /\ task' \in [pc : {"stop", "next"}, now : 0 .. MaxTime, client : Clients \cup {None}]
        /\ task'.pc = "stop" => task'.client # None
    BY <1>1, <1>2, <2>1, PopKeeps
  <2>3. Owned'
    BY <1>1, <2>2, OwnedByPop DEF clientVars
  <2>4. TypeOK' /\ Armed'
    BY <1>1, <2>2 DEF TypeOK, Armed, clientVars, kernelVars
  <2> QED  BY <2>2, <2>3, <2>4
<1>3. CASE ~ (top # None /\ due[top] <= task.now)
  <2>1. /\ UNCHANGED heapVars
        /\ task' = [pc |-> IF top = None THEN "idle" ELSE "addPoll", now |-> 0, client |-> None]
    BY <1>3 DEF PopIfOutRanks
  <2>2. Owned'
    BY <1>1, <2>1, OwnedFrame DEF clientVars, heapVars
  <2>3. TypeOK' /\ Headed'
    BY <1>1, <2>1 DEF TypeOK, Headed, clientVars, heapVars, kernelVars
  <2>4. Armed'
    BY <1>1, <2>1 DEF Armed, Headed, TypeOK, heapVars
  <2> QED  BY <2>2, <2>3, <2>4
<1> QED  BY <1>2, <1>3

LEMMA ExpireStopStep ==
    ASSUME IInv, ExpireStop
    PROVE  IInv'
<1> USE DEF IInv
<1> DEFINE c == task.client
<1>1. /\ task.pc = "stop" /\ c \in Clients
      /\ UNCHANGED <<now, dead, live, due, heapVars, poll, kernelVars>>
  BY DEF ExpireStop, TypeOK
<1>2. CASE c \notin dead /\ mTimer[c] # None
  <2>1. StopRunning(c) /\ Go("callback")
    BY <1>2 DEF ExpireStop
  <2>2. /\ Owned' /\ msgQ' \in Seq(Msg)
        /\ mTimer' \in [Clients -> Delegates \cup {None}]
        /\ mClient' \in [Delegates -> Clients \cup {None}]
    BY <1>1, <1>2, <2>1, OwnedByStop DEF heapVars
  <2>3. task' \in [pc : {"callback"}, now : 0 .. MaxTime, client : Clients]
    BY <1>1, <2>1 DEF Go, TypeOK
  <2>4. TypeOK'
    BY <1>1, <2>2, <2>3 DEF TypeOK, heapVars, kernelVars
  <2>5. Headed' /\ Armed'
    BY <1>1, <2>3 DEF Headed, Armed, heapVars
  <2> QED  BY <2>2, <2>4, <2>5
<1>3. CASE c \in dead \/ mTimer[c] = None
  <2>1. /\ UNCHANGED <<mTimer, mClient, msgQ>>
        /\ task' \in [pc : {"crashed", "next"}, now : 0 .. MaxTime, client : Clients \cup {None}]
    BY <1>3 DEF ExpireStop, Go, NextTimer, TypeOK
  <2>2. Owned'
    BY <1>1, <2>1, OwnedFrame DEF heapVars
  <2> QED  BY <1>1, <2>1, <2>2 DEF TypeOK, Headed, Armed, heapVars, kernelVars
<1> QED  BY <1>2, <1>3

LEMMA CallbackStep ==
    ASSUME IInv, TimeOutCallback
    PROVE  IInv'
<1> USE DEF IInv
<1>1. /\ UNCHANGED <<now, clientVars, live, due, heapVars, msgQ, poll, kernelVars>>
      /\ task' \in [pc : {"crashed", "next"}, now : 0 .. MaxTime, client : Clients \cup {None}]
  BY DEF TimeOutCallback, Go, NextTimer, TypeOK
<1>2. Owned'
  BY <1>1, OwnedFrame DEF heapVars, clientVars
<1> QED  BY <1>1, <1>2 DEF TypeOK, Headed, Armed, heapVars, clientVars, kernelVars

LEMMA ArmSteps ==
    ASSUME IInv, AddPoll \/ SetTime
    PROVE  IInv'
<1> USE DEF IInv
<1>1. UNCHANGED <<now, clientVars, live, due, heapVars, msgQ, poll>> /\ heap # {}
  BY DEF AddPoll, SetTime, Armed
<1>2. Owned' /\ Headed'
  BY <1>1, OwnedFrame DEF heapVars, clientVars, Headed
<1>3. CASE AddPoll
  BY <1>1, <1>2, <1>3 DEF AddPoll, Go, TypeOK, Armed, heapVars, clientVars
<1>4. CASE SetTime
  <2>1. top \in Delegates /\ due[top] \in 0 .. MaxTime
    BY <1>1 DEF Headed, TypeOK
  <2>2. Expiring \/ polled
    BY <1>4 DEF SetTime, Armed
  <2>3. /\ fd' = due[top] /\ polled' = polled
        /\ task' = [task EXCEPT !.pc = "idle"]
    BY <1>4 DEF SetTime, Go
  <2>4. TypeOK'
    BY <1>1, <2>1, <2>3 DEF TypeOK, heapVars, clientVars
  <2>5. task'.pc = "idle"
    BY <2>3 DEF TypeOK
  <2>6. Armed'
    BY <1>1, <2>2, <2>3, <2>5 DEF Armed, Expiring, heapVars
  <2> QED  BY <1>2, <2>4, <2>6
<1> QED  BY <1>3, <1>4

-----------------------------------------------------------------------------
(* The steps of the poll thread, and the clock                             *)

LEMMA PollSteps ==
    ASSUME IInv, PollStep
    PROVE  IInv'
<1> USE DEF IInv
<1>1. PollOnly
  BY DEF PollStep, EpollWait, Disarm, RemovePoll, SendExpire
<1>2. CASE EpollWait \/ Disarm \/ RemovePoll
  <2>1. /\ UNCHANGED msgQ /\ poll' \in {"disarm", "removePoll", "send"}
        /\ fd' \in {fd, 0} /\ polled' \in {polled, FALSE}
    BY <1>2 DEF EpollWait, Disarm, RemovePoll, kernelVars
  <2>2. Owned' /\ Headed'
    BY <1>1, <2>1, OwnedFrame DEF PollOnly, heapVars, clientVars, Headed
  <2>3. TypeOK'
    <3>1. polled' \in BOOLEAN
      BY <2>1, Zenon DEF TypeOK
    <3> QED  BY <1>1, <2>1, <3>1 DEF TypeOK, PollOnly, heapVars, clientVars
  <2>4. Expiring'
    BY <2>1 DEF Expiring
  <2>5. Armed'
    BY <1>1, <2>4 DEF Armed, PollOnly, heapVars
  <2> QED  BY <2>2, <2>3, <2>5
<1>3. CASE SendExpire
  <2>1. Owned' /\ msgQ' \in Seq(Msg) /\ Contains(msgQ', ExpireMsg)
    BY <1>1, <1>3, OwnedByAnnouncement DEF SendExpire, PollOnly, heapVars, clientVars
  <2> QED  BY <1>1, <1>3, <2>1 DEF SendExpire, TypeOK, Headed, Armed, Expiring, PollOnly,
                                   heapVars, clientVars, kernelVars
<1> QED  BY <1>2, <1>3 DEF PollStep

LEMMA TickStep ==
    ASSUME IInv, Tick \/ UNCHANGED vars
    PROVE  IInv'
<1> USE DEF IInv
<1>1. /\ now' \in 1 .. MaxTime
      /\ UNCHANGED <<clientVars, live, due, heapVars, msgQ, task, poll, kernelVars>>
  BY DEF Tick, TypeOK, vars
<1>2. Owned'
  BY <1>1, OwnedFrame DEF heapVars, clientVars
<1> QED  BY <1>1, <1>2 DEF TypeOK, Headed, Armed, Expiring, heapVars, clientVars, kernelVars

-----------------------------------------------------------------------------
(* The theorems                                                            *)

LEMMA Initially == Init => IInv
<1> SUFFICES ASSUME Init PROVE IInv
  OBVIOUS
<1>1. TypeOK
  <2>1. 1 \in 1 .. MaxTime /\ 0 \in 0 .. MaxTime
    OBVIOUS
  <2>2. task \in [pc : {"idle"}, now : 0 .. MaxTime, client : Clients \cup {None}]
    BY <2>1 DEF Init
  <2>3. polled \in BOOLEAN
    BY Zenon DEF Init
  <2> QED  BY <2>1, <2>2, <2>3 DEF Init, TypeOK
<1>2. \A y : ~ Contains(msgQ, y)
  BY DEF Init, Contains
<1>3. Owned
  BY <1>2 DEF Init, Owned, Known, Removed, LastWord
<1> QED  BY <1>1, <1>3 DEF Init, IInv, Headed, Armed

LEMMA Inductive == IInv /\ [Next]_vars => IInv'
<1> SUFFICES ASSUME IInv, [Next]_vars PROVE IInv'
  OBVIOUS
<1>1. ASSUME NEW c \in Clients, Stop(c) \/ Delete(c) \/ \E delay \in Delays : Start(c, delay)
      PROVE  IInv'
  BY <1>1, StopStep, DeleteStep, StartStep
<1>2. CASE TaskStep
  BY <1>2, PushStep, RemoveStep, ExpireStep, NextStep, ExpireStopStep, CallbackStep, ArmSteps
     DEF TaskStep
<1>3. CASE PollStep
  BY <1>3, PollSteps
<1>4. CASE Tick \/ UNCHANGED vars
  BY <1>4, TickStep
<1> QED  BY <1>1, <1>2, <1>3, <1>4 DEF Next

\* The four invariants hold in every state of every behaviour.
THEOREM Invariance == Spec => []IInv
BY Initially, Inductive, PTL DEF Spec

\* Type correctness of the timers.
THEOREM TypeCorrect == Spec => []TypeOK
<1>1. IInv => TypeOK
  BY DEF IInv
<1> QED  BY <1>1, Invariance, PTL

\* No LocTimerDelegate is leaked, deleted twice or used after its deletion.
THEOREM NothingLeaks == Spec => []Owned
<1>1. IInv => Owned
  BY DEF IInv
<1> QED  BY <1>1, Invariance, PTL

\* Whenever the task thread waits and a timer is in the heap, the kernel is
\* armed for the soonest one or the poll thread will have it armed.
THEOREM NoExpirationLost == Spec => [](Headed /\ Armed)
<1>1. IInv => Headed /\ Armed
  BY DEF IInv
<1> QED  BY <1>1, Invariance, PTL
=============================================================================
