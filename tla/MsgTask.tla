------------------------------- MODULE MsgTask -------------------------------
(***************************************************************************)
(* The message thread of the GPS HAL and how it ends: MsgTask, its queue   *)
(* (msg_q), and the LocThread whose LocThreadDelegate the owner and the    *)
(* spawned thread share.                                                   *)
(*                                                                         *)
(*   owner    sendMsg, and once MsgTask::destroy: unblock the queue, then  *)
(*            delete the LocThread, that is stop and join, or let go       *)
(*   worker   LocThreadDelegate::threadMain: MsgTask::run until it fails   *)
(*            or the thread is stopped, then delete the MsgTask            *)
(*                                                                         *)
(* A step is one access to what both see: a critical section of the queue  *)
(* or of the delegate, or an unlocked read or write of a member.           *)
(***************************************************************************)
EXTENDS Naturals, SequencesExt

CONSTANT Msgs       \* the messages that may be sent

VARIABLES
    owner, worker,          \* where the two threads are
    mJoinable,              \* how the thread was created
    created,                \* whether pthread_create succeeded
    q, unblocked, woken,    \* msg_q: the list, the flag, the condition
    held,                   \* the message the worker processes, if any
    sent, handled,          \* messages sent, and processed, in that order
    isRunning,              \* LocThreadDelegate::mRunnable is not NULL
    mRefCount,              \* LocThreadDelegate::mRefCount
    freed                   \* the objects deleted

qVars      == <<q, unblocked, woken>>
logVars    == <<sent, handled>>
threadVars == <<isRunning, mRefCount>>
taskVars == <<owner, worker, mJoinable, created, qVars, held, logVars, threadVars, freed>>

Objects == {"MsgTask", "LocThreadDelegate"}

TaskTypeOK ==
    /\ owner \in {"using", "readThread", "bye", "stop", "join", "release", "done", "crashed"}
    /\ worker \in {"begin", "loop", "receive", "waiting", "proc", "clear",
                   "delete", "release", "done"}
    /\ mJoinable \in BOOLEAN /\ created \in BOOLEAN
    /\ q \in Seq(Msgs) /\ unblocked \in BOOLEAN /\ woken \in BOOLEAN
    /\ held \in Seq(Msgs) /\ Len(held) <= 1
    /\ sent \in Seq(Msgs) /\ handled \in Seq(Msgs)
    /\ isRunning \in BOOLEAN
    /\ mRefCount \in 0 .. 2
    /\ freed \subseteq Objects

(* After the constructor.  When no thread can be created the delegate is   *)
(* deleted at once and the MsgTask is left without a LocThread.            *)
TaskInit ==
    /\ mJoinable \in BOOLEAN /\ created \in BOOLEAN
    /\ owner = "using"
    /\ worker = IF created THEN "begin" ELSE "done"
    /\ q = <<>> /\ unblocked = FALSE /\ woken = FALSE
    /\ held = <<>> /\ sent = <<>> /\ handled = <<>>
    /\ isRunning = created
    /\ mRefCount = IF created THEN 2 ELSE 0
    /\ freed = IF created THEN {} ELSE {"LocThreadDelegate"}

\* A mistake: the count is compared after it was decremented.
DestroyEarly ==
    /\ mRefCount > 0
    /\ mRefCount' = mRefCount - 1
    /\ freed' = IF mRefCount - 1 = 1 THEN freed \cup {"LocThreadDelegate"} ELSE freed

(* LocThreadDelegate::destroy                                              *)
Destroy ==
    /\ mRefCount > 0
    /\ mRefCount' = mRefCount - 1
    /\ freed' = IF mRefCount = 1 THEN freed \cup {"LocThreadDelegate"} ELSE freed

-----------------------------------------------------------------------------
(* The owner                                                               *)

OwnerGoes(from, to) == owner = from /\ owner' = to /\ UNCHANGED <<worker, mJoinable, created>>

Add(m) == q' = Append(q, m)                     \* linked_list_add

SendMsg(m) ==
    /\ OwnerGoes("using", "using")
    /\ m \notin ToSet(sent)
    /\ Add(m)
    /\ sent' = Append(sent, m)
    /\ woken' = TRUE
    /\ UNCHANGED <<unblocked, held, handled, threadVars, freed>>

\* A mistake: the waiting thread is not woken.
UnblockQuietly == unblocked' = TRUE /\ UNCHANGED woken

Unblock == unblocked' = TRUE /\ woken' = TRUE   \* msg_q_unblock

DestroyTask ==
    /\ OwnerGoes("using", "readThread")
    /\ Unblock
    /\ UNCHANGED <<q, held, logVars, threadVars, freed>>

(* MsgTask::destroy reads and clears mThread, of an object that the worker *)
(* may have deleted by now; without a thread it deletes the object itself. *)
ReadThread ==
    /\ UNCHANGED <<qVars, held, logVars, threadVars>>
    /\ \/ /\ "MsgTask" \in freed
          /\ OwnerGoes("readThread", "crashed") /\ UNCHANGED freed
       \/ /\ "MsgTask" \notin freed /\ created
          /\ OwnerGoes("readThread", "bye") /\ UNCHANGED freed
       \/ /\ "MsgTask" \notin freed /\ ~ created
          /\ OwnerGoes("readThread", "done") /\ freed' = freed \cup {"MsgTask"}

\* A mistake: a detached thread is stopped as well.
ByeStopping ==
    /\ OwnerGoes("bye", "stop")
    /\ UNCHANGED <<qVars, held, logVars, threadVars, freed>>

(* ~LocThread and LocThreadDelegate::bye                                   *)
Bye ==
    /\ OwnerGoes("bye", IF mJoinable THEN "stop" ELSE "release")
    /\ UNCHANGED <<qVars, held, logVars, threadVars, freed>>

Stop ==
    /\ OwnerGoes("stop", "join")
    /\ isRunning' = FALSE
    /\ UNCHANGED <<qVars, held, logVars, mRefCount, freed>>

Join ==
    /\ OwnerGoes("join", "release")
    /\ worker = "done"
    /\ UNCHANGED <<qVars, held, logVars, threadVars, freed>>

Release ==
    /\ OwnerGoes("release", "done")
    /\ Destroy
    /\ UNCHANGED <<qVars, held, logVars, isRunning>>

-----------------------------------------------------------------------------
(* The worker: LocThreadDelegate::threadMain                               *)

WorkerGoes(from, to) == worker = from /\ worker' = to /\ UNCHANGED <<owner, mJoinable, created>>

Begin ==
    /\ WorkerGoes("begin", IF isRunning THEN "loop" ELSE "release")
    /\ UNCHANGED <<qVars, held, logVars, threadVars, freed>>

Loop ==
    /\ WorkerGoes("loop", IF isRunning THEN "receive" ELSE "clear")
    /\ UNCHANGED <<qVars, held, logVars, threadVars, freed>>

\* linked_list_remove, and what run() does of its result
TakeMsg == IF q # <<>>
        THEN held' = <<Head(q)>> /\ q' = Tail(q) /\ worker' = "proc"
        ELSE worker' = "clear" /\ UNCHANGED <<held, q>>

(* msg_q_rcv up to its wait                                                *)
Receive ==
    /\ worker = "receive"
    /\ IF unblocked THEN worker' = "clear" /\ UNCHANGED <<q, woken, held>>
       ELSE IF q = <<>> THEN worker' = "waiting" /\ woken' = FALSE /\ UNCHANGED <<q, held>>
       ELSE TakeMsg /\ UNCHANGED woken
    /\ UNCHANGED <<owner, mJoinable, created, unblocked, logVars, threadVars, freed>>

(* and from it.                                                            *)
WakeUp ==
    /\ worker = "waiting" /\ woken
    /\ IF q = <<>> /\ ~ unblocked THEN woken' = FALSE /\ UNCHANGED <<worker, q, held>>
                                  ELSE TakeMsg /\ UNCHANGED woken
    /\ UNCHANGED <<owner, mJoinable, created, unblocked, logVars, threadVars, freed>>

Proc ==
    /\ WorkerGoes("proc", "loop")
    /\ handled' = handled \o held
    /\ held' = <<>>
    /\ UNCHANGED <<qVars, sent, threadVars, freed>>

Clear ==
    /\ WorkerGoes("clear", "delete")
    /\ isRunning' = FALSE
    /\ UNCHANGED <<qVars, held, logVars, mRefCount, freed>>

DeleteTask ==                                   \* ~MsgTask flushes the queue
    /\ WorkerGoes("delete", "release")
    /\ freed' = freed \cup {"MsgTask"}
    /\ q' = <<>>
    /\ UNCHANGED <<unblocked, woken, held, logVars, threadVars>>

LeaveThread ==
    /\ WorkerGoes("release", "done")
    /\ Destroy
    /\ UNCHANGED <<qVars, held, logVars, isRunning>>

-----------------------------------------------------------------------------
OwnerEnds == ReadThread \/ Bye \/ Stop \/ Join \/ Release
WorkerStep == Begin \/ Loop \/ Receive \/ WakeUp \/ Proc \/ Clear \/ DeleteTask \/ LeaveThread

TaskNext == (\E m \in Msgs : SendMsg(m)) \/ DestroyTask \/ OwnerEnds \/ WorkerStep

TaskSpec == TaskInit /\ [][TaskNext]_taskVars

(* Both threads are scheduled, and no message is processed forever.        *)
TaskFairSpec == TaskSpec /\ WF_taskVars(OwnerEnds) /\ WF_taskVars(WorkerStep)

-----------------------------------------------------------------------------
(* Properties                                                              *)

\* The delegate goes with the last of the two threads that lets go of it,
\* and neither finds it deleted.
DelegateShared ==
    /\ mRefCount = (IF created /\ owner # "done" THEN 1 ELSE 0)
                   + (IF worker # "done" THEN 1 ELSE 0)
    /\ "LocThreadDelegate" \in freed <=> mRefCount = 0

\* Messages are processed in the order they were sent, none twice and none
\* left out, whatever is going on around the queue; only the deletion of
\* the MsgTask drops the rest.
InOrder ==
    LET seen == handled \o held
    IN IF "MsgTask" \in freed THEN IsPrefix(seen, sent) ELSE seen \o q = sent

\* destroy() ends the thread, and returns when it has a LocThread to delete.
DestroyEnds ==
    /\ unblocked ~> worker = "done"
    /\ owner = "bye" ~> owner = "done"

\* The inductive invariant behind them.  Who is where tells what was done:
\* only an owner with a thread goes past ReadThread, only a joinable thread
\* is stopped, and the MsgTask is deleted by a worker that is leaving.
Places ==
    /\ owner \in {"bye", "stop", "join", "release"} => created
    /\ owner \in {"stop", "join"} => mJoinable
    /\ ~ created => worker = "done"
    /\ ~ mJoinable /\ created =>
         /\ worker \in {"begin", "loop", "receive", "waiting", "proc"} => isRunning
         /\ worker \in {"release", "done"} => "MsgTask" \in freed
    /\ "MsgTask" \in freed => worker \in {"release", "done"}
    /\ held # <<>> => worker = "proc"

IInv == TaskTypeOK /\ DelegateShared /\ InOrder /\ Places

\* "this obj will be deleted once thread is deleted": not before the owner
\* is at it.
DeletedWithThread == "MsgTask" \in freed => owner \notin {"using", "readThread"}

\* "The obj will be deleted by LocThread if start() returns true."
DeletedByThread == created /\ worker = "done" => "MsgTask" \in freed

\* It is, of a thread that nobody stops: a detached one.
DetachedIsDeleted == ~ mJoinable => DeletedByThread
=============================================================================
