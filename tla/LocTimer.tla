------------------------------- MODULE LocTimer -------------------------------
(***************************************************************************)
(* The timers of the GPS HAL (utils/LocTimer.cpp): one LocTimerContainer,  *)
(* its timerfd, and the three kinds of threads that work on them.          *)
(*                                                                         *)
(*   clients       LocTimer::start, stop, ~LocTimer   (under mLock)        *)
(*   task thread   the messages PUSH, REMOVE, EXPIRE  (the heap is its own)*)
(*   poll thread   epoll_wait, and on expiration disarm, removePoll, send  *)
(*                                                                         *)
(* A step is what a thread does between two accesses to what it shares     *)
(* with another: a critical section of mLock, a system call on the timerfd *)
(* or the epoll, the unlocked read of mClient in LocTimerDelegate::expire. *)
(* Time is in seconds, the unit of LocTimerDelegate::ranks.                *)
(***************************************************************************)
EXTENDS Naturals, SequencesExt

CONSTANTS
    Clients,         \* the LocTimer objects
    Deletable,       \* those that may be deleted
    Delegates,       \* the LocTimerDelegate objects (memory to allocate)
    None,            \* NULL
    Delays,          \* the delays clients ask for
    MaxTime,         \* bound on the clock
    MaxMsgs          \* bound on the messages queued when a client acts

ASSUME DeletableAssumption == Deletable \subseteq Clients
ASSUME NoneAssumption == None \notin Clients \cup Delegates
ASSUME TimeAssumption == MaxTime \in Nat \ {0} /\ Delays \subseteq Nat
ASSUME MaxMsgsAssumption == MaxMsgs \in Nat

VARIABLES
    now,        \* CLOCK_BOOTTIME
    mTimer,     \* LocTimer::mTimer
    dead,       \* LocTimers deleted
    live,       \* LocTimerDelegates allocated
    mClient,    \* LocTimerDelegate::mClient
    due,        \* LocTimerDelegate::mFutureTime
    heap, top,  \* the LocHeap: its contents and its head
    msgQ,       \* the queue of the task thread
    task,       \* where the task thread is, the `now' of its Expire message,
                \* and the copy of mClient it keeps on the stack
    poll,       \* where the poll thread is
    fd, polled  \* the timerfd: when it expires (0: disarmed), is it in the epoll

clientVars == <<mTimer, mClient, dead>>
heapVars   == <<heap, top>>
kernelVars == <<fd, polled>>
vars == <<now, clientVars, live, due, heapVars, msgQ, task, poll, kernelVars>>

Msg == [type : {"PUSH", "REMOVE"}, timer : Delegates] \cup [type : {"EXPIRE"}]
PushMsg(d)   == [type |-> "PUSH", timer |-> d]
RemoveMsg(d) == [type |-> "REMOVE", timer |-> d]
ExpireMsg    == [type |-> "EXPIRE"]

TypeOK ==
    /\ now \in 1 .. MaxTime
    /\ mTimer \in [Clients -> Delegates \cup {None}]
    /\ dead \subseteq Deletable
    /\ live \subseteq Delegates
    /\ mClient \in [Delegates -> Clients \cup {None}]
    /\ due \in [Delegates -> 0 .. MaxTime]
    /\ heap \subseteq Delegates /\ top \in heap \cup {None}
    /\ msgQ \in Seq(Msg)
    /\ task \in [pc : {"idle", "addPoll", "setTime", "stop", "callback", "next", "crashed"},
                 now : 0 .. MaxTime, client : Clients \cup {None}]
    /\ task.pc \in {"stop", "callback"} => task.client # None
    /\ poll \in {"wait", "disarm", "removePoll", "send"}
    /\ fd \in 0 .. MaxTime /\ polled \in BOOLEAN

Init ==
    /\ now = 1
    /\ mTimer = [c \in Clients |-> None]
    /\ dead = {}
    /\ live = {}
    /\ mClient = [d \in Delegates |-> None]
    /\ due = [d \in Delegates |-> 0]
    /\ heap = {} /\ top = None
    /\ msgQ = <<>>
    /\ task = [pc |-> "idle", now |-> 0, client |-> None]
    /\ poll = "wait"
    /\ fd = 0 /\ polled = FALSE

-----------------------------------------------------------------------------
(* Clients                                                                 *)

Send(m) == msgQ' = Append(msgQ, m)
Room == Len(msgQ) < MaxMsgs

Start(c, delay) ==
    /\ Room
    /\ c \notin dead /\ mTimer[c] = None
    /\ now + delay <= MaxTime
    /\ \E d \in Delegates \ live :
         /\ live' = live \cup {d}
         /\ mTimer' = [mTimer EXCEPT ![c] = d]
         /\ mClient' = [mClient EXCEPT ![d] = c]
         /\ due' = [due EXCEPT ![d] = now + delay]
         /\ Send(PushMsg(d))
    /\ UNCHANGED <<now, dead, heapVars, task, poll, kernelVars>>

\* A mistake: the delegate keeps its client.
StopKeepingClient(c) ==
    /\ mTimer' = [mTimer EXCEPT ![c] = None]
    /\ Send(RemoveMsg(mTimer[c]))
    /\ UNCHANGED mClient

(* LocTimer::stop when a timer is running: the delegate forgets its client *)
(* (destroyLocked) and will be removed and deleted by the task thread.     *)
StopRunning(c) ==
    /\ mTimer' = [mTimer EXCEPT ![c] = None]
    /\ mClient' = [mClient EXCEPT ![mTimer[c]] = None]
    /\ Send(RemoveMsg(mTimer[c]))

Stop(c) ==
    /\ Room
    /\ c \notin dead /\ mTimer[c] # None
    /\ StopRunning(c)
    /\ UNCHANGED <<now, dead, live, due, heapVars, task, poll, kernelVars>>

Delete(c) ==
    /\ Room
    /\ c \in Deletable \ dead
    /\ dead' = dead \cup {c}
    /\ IF mTimer[c] # None THEN StopRunning(c) ELSE UNCHANGED <<mTimer, mClient, msgQ>>
    /\ UNCHANGED <<now, live, due, heapVars, task, poll, kernelVars>>

-----------------------------------------------------------------------------
(* The task thread                                                         *)

Go(pc) == task' = [task EXCEPT !.pc = pc]

\* The head of a heap of contents h is one of the soonest.
SoonestOf(h) == IF h = {} THEN {None}
                ELSE {d \in h : \A e \in h : due[d] <= due[e]}

\* A mistake: a container that was empty is not polled.
UpdateUnlessEmpty(prior, cur) ==
    IF cur # None /\ prior # None /\ due[cur] < due[prior]
    THEN Go("addPoll") ELSE Go("idle")

(* updateSoonestTime(prior), the head being cur now.  The branch that      *)
(* removes the poll and disarms the timer takes a prior head and no head   *)
(* now: the callers that empty the heap pass NULL, so it is never taken.   *)
UpdateSoonestTime(prior, cur) ==
    IF cur # prior /\ cur # None /\ (prior = None \/ due[cur] < due[prior])
    THEN Go("addPoll") ELSE Go("idle")

Take(type) == task.pc = "idle" /\ msgQ # <<>> /\ Head(msgQ).type = type

(* MsgTimerPush: only a timer that outranks the head replaces it.          *)
ProcPush ==
    /\ Take("PUSH")
    /\ msgQ' = Tail(msgQ)
    /\ LET d == Head(msgQ).timer
           cur == IF top = None THEN d ELSE IF due[d] < due[top] THEN d ELSE top
       IN /\ heap' = heap \cup {d}
          /\ top' = cur
          /\ UpdateSoonestTime(top, cur)
    /\ UNCHANGED <<now, clientVars, live, due, poll, kernelVars>>

\* The heap without d.
HeapWithout(d) ==
    /\ heap' = heap \ {d}
    /\ IF d = top THEN top' \in SoonestOf(heap \ {d}) ELSE UNCHANGED top

\* A mistake: the kernel is not told that the head was removed.
ProcRemoveQuietly ==
    /\ Take("REMOVE")
    /\ msgQ' = Tail(msgQ)
    /\ HeapWithout(Head(msgQ).timer)
    /\ live' = live \ {Head(msgQ).timer}
    /\ due' = [due EXCEPT ![Head(msgQ).timer] = 0]
    /\ UNCHANGED <<now, clientVars, task, poll, kernelVars>>

(* MsgTimerRemove                                                          *)
ProcRemove ==
    /\ Take("REMOVE")
    /\ msgQ' = Tail(msgQ)
    /\ LET d == Head(msgQ).timer
           removed == IF d \in heap THEN d ELSE None
       IN /\ HeapWithout(d)
          /\ IF top = removed THEN UpdateSoonestTime(None, top') ELSE Go("idle")
          /\ live' = live \ {d}
          /\ due' = [due EXCEPT ![d] = 0]         \* deleted, nobody reads it
    /\ UNCHANGED <<now, clientVars, poll, kernelVars>>

\* pop, and the reading of mClient in LocTimerDelegate::expire
Pop(sampled) ==
    /\ HeapWithout(top)
    /\ task' = [pc |-> IF mClient[top] = None THEN "next" ELSE "stop",
                now |-> sampled, client |-> mClient[top]]

(* MsgTimerExpire: the head is popped, whatever its time, and then every   *)
(* head that is not later than the time at which the message was taken.    *)
ProcExpire ==
    /\ Take("EXPIRE")
    /\ msgQ' = Tail(msgQ)
    /\ IF top # None THEN Pop(now) ELSE UNCHANGED <<heapVars, task>>
    /\ UNCHANGED <<now, clientVars, live, due, poll, kernelVars>>

PopIfOutRanks ==
    /\ task.pc = "next"
    /\ IF top # None
       THEN IF due[top] <= task.now
            THEN Pop(task.now)
            ELSE task' = [pc |-> "addPoll", now |-> 0, client |-> None] /\ UNCHANGED heapVars
       ELSE task' = [pc |-> "idle", now |-> 0, client |-> None] /\ UNCHANGED heapVars
    /\ UNCHANGED <<now, clientVars, live, due, msgQ, poll, kernelVars>>

NextTimer == task' = [task EXCEPT !.pc = "next", !.client = None]

(* client->stop(), of whatever timer that client is running by now; on a   *)
(* deleted client the lock is NULL.                                        *)
ExpireStop ==
    /\ task.pc = "stop"
    /\ LET c == task.client
       IN IF c \in dead THEN Go("crashed") /\ UNCHANGED <<mTimer, mClient, msgQ>>
          ELSE IF mTimer[c] # None THEN StopRunning(c) /\ Go("callback")
          ELSE NextTimer /\ UNCHANGED <<mTimer, mClient, msgQ>>
    /\ UNCHANGED <<now, dead, live, due, heapVars, poll, kernelVars>>

TimeOutCallback ==
    /\ task.pc = "callback"
    /\ IF task.client \in dead THEN Go("crashed") ELSE NextTimer
    /\ UNCHANGED <<now, clientVars, live, due, heapVars, msgQ, poll, kernelVars>>

AddPoll ==
    /\ task.pc = "addPoll"
    /\ polled' = TRUE
    /\ Go("setTime")
    /\ UNCHANGED <<now, clientVars, live, due, heapVars, msgQ, poll, fd>>

SetTime ==
    /\ task.pc = "setTime"
    /\ fd' = due[top]
    /\ Go("idle")
    /\ UNCHANGED <<now, clientVars, live, due, heapVars, msgQ, poll, polled>>

-----------------------------------------------------------------------------
(* The poll thread: LocTimerPollTask::run and LocTimerContainer::expire    *)

PollOnly == UNCHANGED <<now, clientVars, live, due, heapVars, task>>

EpollWait ==
    /\ poll = "wait"
    /\ polled /\ fd # 0 /\ fd <= now
    /\ poll' = "disarm"
    /\ PollOnly /\ UNCHANGED <<msgQ, kernelVars>>

Disarm ==
    /\ poll = "disarm"
    /\ poll' = "removePoll"
    /\ fd' = 0
    /\ PollOnly /\ UNCHANGED <<msgQ, polled>>

RemovePoll ==
    /\ poll = "removePoll"
    /\ poll' = "send"
    /\ polled' = FALSE
    /\ PollOnly /\ UNCHANGED <<msgQ, fd>>

SendExpire ==
    /\ poll = "send"
    /\ poll' = "wait"
    /\ Send(ExpireMsg)
    /\ PollOnly /\ UNCHANGED kernelVars

Tick ==
    /\ now < MaxTime
    /\ now' = now + 1
    /\ UNCHANGED <<clientVars, live, due, heapVars, msgQ, task, poll, kernelVars>>

-----------------------------------------------------------------------------
TaskStep ==
    \/ ProcPush \/ ProcRemove \/ ProcExpire
    \/ PopIfOutRanks \/ ExpireStop \/ TimeOutCallback \/ AddPoll \/ SetTime

PollStep == EpollWait \/ Disarm \/ RemovePoll \/ SendExpire

Next ==
    \/ \E c \in Clients : Stop(c) \/ Delete(c) \/ \E delay \in Delays : Start(c, delay)
    \/ TaskStep \/ PollStep \/ Tick

Spec == Init /\ [][Next]_vars

Fairness == WF_vars(TaskStep) /\ WF_vars(PollStep) /\ WF_vars(Tick)

FairSpec == Spec /\ Fairness
-----------------------------------------------------------------------------
(* Properties                                                              *)

Removed(d) == Contains(msgQ, RemoveMsg(d))
Known(d)   == d \in heap \/ Contains(msgQ, PushMsg(d)) \/ Removed(d)

\* No message follows the removal of the timer it is about.
LastWord(q) ==
    \A i, j \in 1 .. Len(q) : \A d \in Delegates :
        i < j /\ q[i] = RemoveMsg(d) => q[j] \notin {PushMsg(d), RemoveMsg(d)}

\* No timer is leaked, deleted twice or used after it was deleted: an
\* allocated delegate is either the running timer of its client or has one
\* removal under way, after which nobody knows it.
Owned ==
    /\ \A c \in Clients : mTimer[c] # None => mClient[mTimer[c]] = c
    /\ \A d \in Delegates : mClient[d] # None =>
         mTimer[mClient[d]] = d /\ d \in live /\ ~ Removed(d)
    /\ \A d \in live : mClient[d] = None => Removed(d)
    /\ \A d \in Delegates : Known(d) => d \in live
    /\ LastWord(msgQ)

\* The head of the heap is one of the soonest timers in it.
Headed ==
    IF heap = {} THEN top = None
    ELSE top \in heap /\ \A d \in heap : due[top] <= due[d]

\* No expiration is lost between the two threads: while a timer is in the
\* heap and the task thread waits, the kernel is armed and polled for the
\* soonest one, unless the poll thread is about to announce an expiration,
\* whose message will arm it.
Expiring == poll # "wait" \/ Contains(msgQ, ExpireMsg)
Armed ==
    /\ task.pc = "idle" /\ heap # {} => Expiring \/ (polled /\ fd = due[top])
    /\ task.pc \in {"addPoll", "setTime"} => heap # {}
    /\ task.pc = "setTime" => Expiring \/ polled

\* Every timer that is started is called back or stopped, unless a deleted
\* client (NoDeadClient) has brought the task thread down.
EveryTimerEnds ==
    \A c \in Clients : \A d \in Delegates :
        mTimer[c] = d ~> mTimer[c] # d \/ task.pc = "crashed"

\* "pop everything in the heap that outRanks now, i.e. has time older than
\* now": an Expire message pops no timer before its time.
PopsOnlyDue ==
    [][heap' # heap /\ heap' \subseteq heap /\ live' = live => due[top] <= now]_vars

\* "only if stop() returns true, i.e. it hasn't been stopped already": the
\* timer that expire() stops is one that was popped, and not another one
\* its client has started since.
CallsBackThePopped ==
    [][task.pc = "stop" /\ task'.pc = "callback" =>
         ~ Contains(msgQ, PushMsg(mTimer[task.client]))]_vars

\* "Nulling this handle so that expire() won't call the callback on the dead
\* handle any more": expire() works on no deleted client.
NoDeadClient == task.pc \in {"stop", "callback"} => task.client \notin dead

\* "if tree is empty now, we remove poll and disarm timer"
DisarmedWhenEmpty ==
    heap = {} /\ msgQ = <<>> /\ task.pc = "idle" /\ poll = "wait" => fd = 0
=============================================================================
