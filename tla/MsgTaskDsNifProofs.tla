----------------------------- MODULE MsgTaskDsNifProofs -----------------------------
(***************************************************************************)
(* The safety of MsgTask for every set of messages: the delegate the two   *)
(* threads share is deleted once, by the last of them, and messages are    *)
(* processed in the order they were sent.  Then that of DsNif, whose       *)
(* events are such messages: state and list of the emergency machine       *)
(* agree, for every set of connections, every number of retries, and       *)
(* whether or not the modem reuses handles.  The two share no name, and    *)
(* no proof uses both.                                                     *)
(***************************************************************************)
EXTENDS MsgTask, DsNif, SequenceTheorems, TLAPS

-----------------------------------------------------------------------------
(* Sequences                                                               *)

\* What is left out at the end leaves a prefix.
LEMMA PrefixOfConcat ==
    ASSUME NEW S, NEW s \in Seq(S), NEW t \in Seq(S)
    PROVE  IsPrefix(s, s \o t)
<1>1. Len(s) \in Nat /\ Len(t) \in Nat /\ Len(s \o t) = Len(s) + Len(t)
  BY LenProperties, ConcatProperties
<1>2. SubSeq(s, 1, Len(s)) = SubSeq(s \o t, 1, Len(s))
  <2>1. CASE Len(s) = 0
    BY <2>1, SubSeqEmpty
  <2>2. CASE Len(s) # 0
    BY <1>1, <2>2, SubSeqOfConcat1
  <2> QED  BY <2>1, <2>2
<1> QED  BY <1>1, <1>2 DEF IsPrefix

\* Moving the first of the waiting messages to the end of the others keeps
\* the sequence they make together.
LEMMA TakeKeepsOrder ==
    ASSUME NEW S, NEW h \in Seq(S), NEW w \in Seq(S), w # <<>>
    PROVE  /\ <<Head(w)>> \in Seq(S) /\ Tail(w) \in Seq(S)
           /\ (h \o <<Head(w)>>) \o Tail(w) = (h \o <<>>) \o w
<1>1. Head(w) \in S /\ Tail(w) \in Seq(S)
  BY HeadTailProperties
<1>2. <<Head(w)>> \in Seq(S)
  BY <1>1
<1>3. <<Head(w)>> \o Tail(w) = w
  <2>1. Len(w) \in Nat \ {0}
    BY EmptySeq
  <2>2. SubSeq(w, 1, Len(w)) = <<w[1]>> \o SubSeq(w, 2, Len(w))
    BY <2>1, SubSeqRecursiveFirst
  <2> QED  BY <2>2, SubSeqFull, TailIsSubSeq
<1>4. (h \o <<Head(w)>>) \o Tail(w) = h \o (<<Head(w)>> \o Tail(w))
  BY <1>1, <1>2, ConcatAssociative
<1> QED  BY <1>1, <1>2, <1>3, <1>4, ConcatEmptySeq

-----------------------------------------------------------------------------
(* The reference count                                                     *)

\* A thread that lets go of the delegate leaves the count of the other.
LEMMA DestroyShares ==
    ASSUME TaskTypeOK, DelegateShared, Destroy, UNCHANGED created,
           \/ created /\ owner # "done" /\ owner' = "done" /\ UNCHANGED worker
           \/ worker # "done" /\ worker' = "done" /\ UNCHANGED owner
    PROVE  /\ DelegateShared'
           /\ mRefCount' \in 0 .. 2
           /\ freed' \subseteq Objects
           /\ "MsgTask" \in freed' <=> "MsgTask" \in freed
BY DEF TaskTypeOK, DelegateShared, Destroy, Objects

\* The count and the deletion stay when neither thread arrives at its end.
LEMMA SharedFrame ==
    ASSUME DelegateShared, UNCHANGED <<created, mRefCount>>,
           owner' = "done" <=> owner = "done", worker' = "done" <=> worker = "done",
           "LocThreadDelegate" \in freed' <=> "LocThreadDelegate" \in freed
    PROVE  DelegateShared'
BY DEF DelegateShared

\* The order stays when the queue, the logs and the MsgTask stay.
LEMMA OrderFrame ==
    ASSUME InOrder, UNCHANGED <<q, held, sent, handled>>,
           "MsgTask" \in freed' <=> "MsgTask" \in freed
    PROVE  InOrder'
BY DEF InOrder

-----------------------------------------------------------------------------
(* The owner                                                               *)

LEMMA SendStep ==
    ASSUME IInv, NEW m \in Msgs, SendMsg(m)
    PROVE  IInv'
<1> USE DEF IInv
<1>1. /\ UNCHANGED <<owner, worker, mJoinable, created, unblocked, held, handled,
                     isRunning, mRefCount, freed>>
      /\ q' = Append(q, m) /\ sent' = Append(sent, m) /\ woken' = TRUE
  BY DEF SendMsg, OwnerGoes, Add, threadVars
<1>2. TaskTypeOK'
  BY <1>1, AppendProperties DEF TaskTypeOK
<1>3. DelegateShared' /\ Places'
  BY <1>1 DEF DelegateShared, Places
<1>4. InOrder'
  <2> DEFINE seen == handled \o held
  <2>1. seen \in Seq(Msgs) /\ q \in Seq(Msgs) /\ sent \in Seq(Msgs) /\ <<m>> \in Seq(Msgs)
    BY ConcatProperties DEF TaskTypeOK
  <2>2. seen' = seen
    BY <1>1
  <2> HIDE DEF seen
  <2>3. CASE "MsgTask" \in freed
    <3>1. IsPrefix(seen, sent)
      BY <2>3 DEF InOrder, seen
    <3>2. /\ Len(seen) \in Nat /\ Len(sent) \in Nat /\ Len(Append(sent, m)) = Len(sent) + 1
          /\ Append(sent, m) = sent \o <<m>>
      BY <2>1, LenProperties, AppendProperties, AppendIsConcat
    <3>3. SubSeq(sent \o <<m>>, 1, Len(seen)) = SubSeq(sent, 1, Len(seen))
      <4>1. CASE Len(seen) = 0
        BY <4>1, SubSeqEmpty
      <4>2. CASE Len(seen) # 0
        <5>1. 1 \in 1 .. Len(sent) /\ Len(seen) \in 1 .. Len(sent)
          BY <3>1, <3>2, <4>2 DEF IsPrefix
        <5> QED  BY <2>1, <5>1, SubSeqOfConcat1
      <4> QED  BY <4>1, <4>2
    <3>4. IsPrefix(seen, Append(sent, m))
      BY <3>1, <3>2, <3>3 DEF IsPrefix
    <3> QED  BY <1>1, <2>2, <2>3, <3>4 DEF InOrder, seen
  <2>4. CASE "MsgTask" \notin freed
    <3>1. seen \o q = sent
      BY <2>4 DEF InOrder, seen
    <3>2. seen \o (q \o <<m>>) = (seen \o q) \o <<m>>
      BY <2>1, ConcatAssociative
    <3>3. seen \o Append(q, m) = Append(sent, m)
      BY <2>1, <3>1, <3>2, AppendIsConcat
    <3> QED  BY <1>1, <2>2, <2>4, <3>3 DEF InOrder, seen
  <2> QED  BY <2>3, <2>4
<1> QED  BY <1>2, <1>3, <1>4

LEMMA DestroyTaskStep ==
    ASSUME IInv, DestroyTask
    PROVE  IInv'
<1> USE DEF IInv
<1>1. /\ UNCHANGED <<worker, mJoinable, created, q, held, sent, handled,
                     isRunning, mRefCount, freed>>
      /\ owner = "using" /\ owner' = "readThread" /\ unblocked' = TRUE /\ woken' = TRUE
  BY DEF DestroyTask, OwnerGoes, Unblock, logVars, threadVars
<1> QED  BY <1>1, SharedFrame, OrderFrame DEF TaskTypeOK, Places

LEMMA ReadThreadStep ==
    ASSUME IInv, ReadThread
    PROVE  IInv'
<1> USE DEF IInv
<1>1. /\ UNCHANGED <<worker, mJoinable, created, q, unblocked, woken, held, sent, handled,
                     isRunning, mRefCount>>
      /\ owner = "readThread" /\ owner' \in {"crashed", "bye", "done"}
      /\ owner' = "bye" => created
      /\ owner' = "done" => ~ created /\ "MsgTask" \notin freed
      /\ freed' = IF owner' = "done" THEN freed \cup {"MsgTask"} ELSE freed
  BY DEF ReadThread, OwnerGoes, qVars, logVars, threadVars
<1>2. TaskTypeOK'
  BY <1>1 DEF TaskTypeOK, Objects
<1>3. DelegateShared'
  BY <1>1 DEF DelegateShared, TaskTypeOK
<1>4. InOrder'
  <2>1. CASE owner' = "done"
    <3>1. IsPrefix(handled \o held, (handled \o held) \o q)
      BY ConcatProperties, PrefixOfConcat DEF TaskTypeOK
    <3> QED  BY <1>1, <2>1, <3>1 DEF InOrder
  <2>2. CASE owner' # "done"
    BY <1>1, <2>2, OrderFrame
  <2> QED  BY <2>1, <2>2
<1>5. Places'
  BY <1>1 DEF Places
<1> QED  BY <1>2, <1>3, <1>4, <1>5

LEMMA EndSteps ==
    ASSUME IInv, Bye \/ Stop \/ Join \/ Release
    PROVE  IInv'
<1> USE DEF IInv
<1>1. /\ UNCHANGED <<worker, mJoinable, created, q, unblocked, woken, held, sent, handled>>
      /\ owner \in {"bye", "stop", "join", "release"}
  BY DEF Bye, Stop, Join, Release, OwnerGoes, qVars, logVars
<1>2. created
  BY <1>1 DEF Places
<1>3. CASE Bye
  <2>1. /\ UNCHANGED <<isRunning, mRefCount, freed>>
        /\ owner = "bye" /\ owner' \in {"stop", "release"} /\ (owner' = "stop" => mJoinable)
    BY <1>3 DEF Bye, OwnerGoes, threadVars
  <2> QED  BY <1>1, <1>2, <2>1, SharedFrame, OrderFrame DEF TaskTypeOK, Places
<1>4. CASE Stop
  <2>1. /\ UNCHANGED <<mRefCount, freed>> /\ isRunning' = FALSE
        /\ owner = "stop" /\ owner' = "join"
    BY <1>4 DEF Stop, OwnerGoes
  <2> QED  BY <1>1, <1>2, <2>1, SharedFrame, OrderFrame DEF TaskTypeOK, Places
<1>5. CASE Join
  <2>1. /\ UNCHANGED <<isRunning, mRefCount, freed>>
        /\ owner = "join" /\ owner' = "release"
    BY <1>5 DEF Join, OwnerGoes, threadVars
  <2> QED  BY <1>1, <1>2, <2>1, SharedFrame, OrderFrame DEF TaskTypeOK, Places
<1>6. CASE Release
  <2>1. /\ UNCHANGED isRunning /\ Destroy
        /\ owner = "release" /\ owner' = "done"
    BY <1>6 DEF Release, OwnerGoes
  <2>2. /\ DelegateShared' /\ mRefCount' \in 0 .. 2 /\ freed' \subseteq Objects
        /\ "MsgTask" \in freed' <=> "MsgTask" \in freed
    BY <1>1, <1>2, <2>1, DestroyShares
  <2> QED  BY <1>1, <1>2, <2>1, <2>2, OrderFrame DEF TaskTypeOK, Places
<1> QED  BY <1>3, <1>4, <1>5, <1>6

-----------------------------------------------------------------------------
(* The worker                                                              *)

LEMMA TakeStep ==
    ASSUME IInv, worker \in {"receive", "waiting"}, TakeMsg,
           UNCHANGED <<owner, mJoinable, created, unblocked, woken, logVars, threadVars, freed>>
    PROVE  IInv'
<1> USE DEF IInv
<1>1. held = <<>> /\ "MsgTask" \notin freed /\ created
  BY DEF Places
<1>2. CASE q # <<>>
  <2>1. held' = <<Head(q)>> /\ q' = Tail(q) /\ worker' = "proc"
    BY <1>2 DEF TakeMsg
  <2>2. /\ <<Head(q)>> \in Seq(Msgs) /\ Tail(q) \in Seq(Msgs)
        /\ (handled \o <<Head(q)>>) \o Tail(q) = (handled \o <<>>) \o q
    BY <1>2, TakeKeepsOrder DEF TaskTypeOK
  <2>3. TaskTypeOK'
    BY <2>1, <2>2 DEF TaskTypeOK, logVars, threadVars
  <2>4. InOrder'
    BY <1>1, <2>1, <2>2 DEF InOrder, logVars
  <2>5. DelegateShared'
    BY <2>1, SharedFrame DEF threadVars
  <2>6. Places'
    BY <1>1, <2>1 DEF Places, threadVars
  <2> QED  BY <2>3, <2>4, <2>5, <2>6
<1>3. CASE q = <<>>
  <2>1. worker' = "clear" /\ UNCHANGED <<held, q>>
    BY <1>3 DEF TakeMsg
  <2> QED  BY <1>1, <2>1, SharedFrame, OrderFrame DEF TaskTypeOK, Places, logVars, threadVars
<1> QED  BY <1>2, <1>3

LEMMA ReceiveSteps ==
    ASSUME IInv, Receive \/ WakeUp
    PROVE  IInv'
<1>1. UNCHANGED <<owner, mJoinable, created, unblocked, logVars, threadVars, freed>>
  BY DEF Receive, WakeUp
<1>2. CASE TakeMsg /\ UNCHANGED woken
  BY <1>1, <1>2, TakeStep DEF Receive, WakeUp
<1>3. CASE ~ (TakeMsg /\ UNCHANGED woken)
  <2>1. /\ worker \in {"receive", "waiting"} /\ worker' \in {"clear", "waiting"}
        /\ UNCHANGED <<q, held>> /\ woken' \in {woken, FALSE}
        /\ UNCHANGED <<owner, mJoinable, created, unblocked, sent, handled,
                       isRunning, mRefCount, freed>>
    BY <1>1, <1>3 DEF Receive, WakeUp, logVars, threadVars
  <2> QED  BY <2>1, SharedFrame, OrderFrame DEF IInv, TaskTypeOK, Places
<1> QED  BY <1>2, <1>3

LEMMA ProcStep ==
    ASSUME IInv, Proc
    PROVE  IInv'
<1> USE DEF IInv
<1>1. /\ UNCHANGED <<owner, mJoinable, created, q, unblocked, woken, sent,
                     isRunning, mRefCount, freed>>
      /\ worker = "proc" /\ worker' = "loop" /\ handled' = handled \o held /\ held' = <<>>
  BY DEF Proc, WorkerGoes, qVars, threadVars
<1>2. /\ handled \o held \in Seq(Msgs) /\ (handled \o held) \o <<>> = handled \o held
      /\ <<>> \in Seq(Msgs) /\ Len(<<>>) = 0
  BY ConcatProperties, ConcatEmptySeq, EmptySeq DEF TaskTypeOK
<1>3. TaskTypeOK'
  BY <1>1, <1>2 DEF TaskTypeOK
<1>4. InOrder'
  BY <1>1, <1>2 DEF InOrder
<1> QED  BY <1>1, <1>3, <1>4, SharedFrame DEF Places

LEMMA LeaveSteps ==
    ASSUME IInv, Begin \/ Loop \/ Clear \/ DeleteTask \/ LeaveThread
    PROVE  IInv'
<1> USE DEF IInv
<1>1. /\ UNCHANGED <<owner, mJoinable, created, unblocked, woken, held, sent, handled>>
      /\ worker # "done"
  BY DEF Begin, Loop, Clear, DeleteTask, LeaveThread, WorkerGoes, qVars, logVars
<1>2. created
  BY <1>1 DEF Places
<1>3. CASE Begin \/ Loop
  <2>1. /\ UNCHANGED <<q, isRunning, mRefCount, freed>>
        /\ worker \in {"begin", "loop"} /\ worker' \in {"loop", "receive", "clear", "release"}
        /\ worker' = "release" => worker = "begin"
        /\ worker' \in {"clear", "release"} => ~ isRunning
    BY <1>3 DEF Begin, Loop, WorkerGoes, qVars, threadVars
  <2> QED  BY <1>1, <1>2, <2>1, SharedFrame, OrderFrame DEF TaskTypeOK, Places
<1>4. CASE Clear
  <2>1. /\ UNCHANGED <<q, mRefCount, freed>> /\ isRunning' = FALSE
        /\ worker = "clear" /\ worker' = "delete"
    BY <1>4 DEF Clear, WorkerGoes, qVars
  <2> QED  BY <1>1, <1>2, <2>1, SharedFrame, OrderFrame DEF TaskTypeOK, Places
<1>5. CASE DeleteTask
  <2>1. /\ UNCHANGED <<isRunning, mRefCount>>
        /\ q' = <<>> /\ freed' = freed \cup {"MsgTask"}
        /\ worker = "delete" /\ worker' = "release"
    BY <1>5 DEF DeleteTask, WorkerGoes, threadVars
  <2>2. TaskTypeOK' /\ Places'
    BY <1>1, <1>2, <2>1, EmptySeq DEF TaskTypeOK, Places, Objects
  <2>3. InOrder'
    <3>1. "MsgTask" \notin freed
      BY <2>1 DEF Places
    <3>2. IsPrefix(handled \o held, (handled \o held) \o q)
      BY ConcatProperties, PrefixOfConcat DEF TaskTypeOK
    <3> QED  BY <1>1, <2>1, <3>1, <3>2 DEF InOrder
  <2> QED  BY <1>1, <2>1, <2>2, <2>3, SharedFrame
<1>6. CASE LeaveThread
  <2>1. /\ UNCHANGED <<q, isRunning>> /\ Destroy
        /\ worker = "release" /\ worker' = "done"
    BY <1>6 DEF LeaveThread, WorkerGoes, qVars
  <2>2. /\ DelegateShared' /\ mRefCount' \in 0 .. 2 /\ freed' \subseteq Objects
        /\ "MsgTask" \in freed' <=> "MsgTask" \in freed
    BY <1>1, <2>1, DestroyShares
  <2> QED  BY <1>1, <1>2, <2>1, <2>2, OrderFrame DEF TaskTypeOK, Places
<1> QED  BY <1>3, <1>4, <1>5, <1>6

-----------------------------------------------------------------------------
LEMMA Initially == TaskInit => IInv
<1> SUFFICES ASSUME TaskInit PROVE IInv
  OBVIOUS
<1>1. <<>> \in Seq(Msgs) /\ Len(<<>>) = 0 /\ (<<>> \o <<>>) \o <<>> = <<>>
  BY EmptySeq, ConcatEmptySeq
<1>2. created \in BOOLEAN /\ worker \in {"begin", "done"} /\ freed \subseteq {"LocThreadDelegate"}
  BY DEF TaskInit
<1>3. TaskTypeOK
  <2>1. /\ mJoinable \in BOOLEAN /\ created \in BOOLEAN /\ isRunning \in BOOLEAN
        /\ unblocked \in BOOLEAN /\ woken \in BOOLEAN
    BY Zenon DEF TaskInit
  <2>2. mRefCount \in 0 .. 2 /\ owner = "using"
    BY DEF TaskInit
  <2>3. q = <<>> /\ held = <<>> /\ sent = <<>> /\ handled = <<>>
    BY DEF TaskInit
  <2> HIDE DEF TaskInit
  <2> QED  BY <1>1, <1>2, <2>1, <2>2, <2>3 DEF TaskTypeOK, Objects
<1>4. DelegateShared
  BY DEF TaskInit, DelegateShared
<1>5. InOrder
  BY <1>1, <1>2 DEF TaskInit, InOrder
<1>6. Places
  BY <1>2 DEF TaskInit, Places
<1> QED  BY <1>3, <1>4, <1>5, <1>6 DEF IInv

LEMMA Inductive == IInv /\ [TaskNext]_taskVars => IInv'
<1> SUFFICES ASSUME IInv, [TaskNext]_taskVars PROVE IInv'
  OBVIOUS
<1>1. ASSUME NEW m \in Msgs, SendMsg(m) PROVE IInv'
  BY <1>1, SendStep
<1>2. CASE DestroyTask
  BY <1>2, DestroyTaskStep
<1>3. CASE OwnerEnds
  BY <1>3, ReadThreadStep, EndSteps DEF OwnerEnds
<1>4. CASE WorkerStep
  BY <1>4, ReceiveSteps, ProcStep, LeaveSteps DEF WorkerStep
<1>5. CASE UNCHANGED taskVars
  BY <1>5, SharedFrame, OrderFrame
     DEF IInv, TaskTypeOK, Places, taskVars, qVars, logVars, threadVars
<1> QED  BY <1>1, <1>2, <1>3, <1>4, <1>5 DEF TaskNext

\* The inductive invariant of the message thread, for every set of messages.
THEOREM Invariance == TaskSpec => []IInv
BY Initially, Inductive, PTL DEF TaskSpec

\* The LocThreadDelegate is deleted once, by the last of the owner and the
\* spawned thread to let go of it (LocThreadDelegate::destroy).
THEOREM SharedDelegate == TaskSpec => []DelegateShared
<1>1. IInv => DelegateShared
  BY DEF IInv
<1> QED  BY <1>1, Invariance, PTL

\* Messages are processed in the order they were sent (msg_q, MsgTask::run).
THEOREM ProcessedInOrder == TaskSpec => []InOrder
<1>1. IInv => InOrder
  BY DEF IInv
<1> QED  BY <1>1, Invariance, PTL

\* A detached thread that has ended has deleted its MsgTask (~MsgTask by
\* LocThreadDelegate::threadMain), so MsgTask::destroy leaks none.
THEOREM DetachedDeletes == TaskSpec => []DetachedIsDeleted
<1>1. IInv => DetachedIsDeleted
  BY DEF IInv, Places, DetachedIsDeleted, DeletedByThread
<1> QED  BY <1>1, Invariance, PTL

-----------------------------------------------------------------------------
(* DsNif: what its machine always satisfies                                *)

MachineOf(X) == [state : StateNames, subs : SUBSET X, inactive : SUBSET X]

\* What is inductive: beside the agreement, only a connection that is listed
\* and waits for the close is inactive.
MachineOK(m) ==
    /\ m \in MachineOf(m.subs)
    /\ m.inactive \subseteq Waiting
    /\ m.state \in {"Pending", "Acquired"} => Active(m) # {}
    /\ m.state = "Releasing" => Inactive(m) # {}
    /\ m.state = "Released" => m.inactive = {}

-----------------------------------------------------------------------------
(* The handlers of the four states                                         *)

\* What the changes the handlers are made of do to a machine.
LEMMA GoToFields ==
    ASSUME NEW X, NEW m \in MachineOf(X), NEW st \in StateNames
    PROVE  /\ GoTo(m, st) \in MachineOf(X)
           /\ GoTo(m, st).state = st /\ GoTo(m, st).subs = m.subs
           /\ GoTo(m, st).inactive = m.inactive
BY DEF MachineOf, GoTo

LEMMA AddFields ==
    ASSUME NEW X, NEW m \in MachineOf(X), NEW x \in X
    PROVE  /\ AddSubscriber(m, x) \in MachineOf(X)
           /\ AddSubscriber(m, x).state = m.state
           /\ AddSubscriber(m, x).subs = m.subs \cup {x}
           /\ AddSubscriber(m, x).inactive = m.inactive
BY DEF MachineOf, AddSubscriber

LEMMA DropFields ==
    ASSUME NEW X, NEW m \in MachineOf(X), NEW S
    PROVE  /\ Drop(m, S) \in MachineOf(X)
           /\ Drop(m, S).state = m.state
           /\ Drop(m, S).subs = m.subs \ S /\ Drop(m, S).inactive = m.inactive \ S
BY DEF MachineOf, Drop

LEMMA LeaveFields ==
    ASSUME NEW X, NEW m \in MachineOf(X), NEW x \in X
    PROVE  /\ Leave(m, x) \in MachineOf(X) /\ Leave(m, x).state = m.state
           /\ x \in Waiting => /\ Leave(m, x).subs = m.subs
                               /\ Leave(m, x).inactive = m.inactive \cup {x}
           /\ x \notin Waiting => /\ Leave(m, x).subs = m.subs \ {x}
                                  /\ Leave(m, x).inactive = m.inactive \ {x}
<1>1. CASE x \in Waiting
  BY <1>1 DEF MachineOf, Leave
<1>2. CASE x \notin Waiting
  <2>1. Leave(m, x) = Drop(m, {x})
    BY <1>2 DEF Leave
  <2> QED  BY <1>2, <2>1, DropFields
<1> QED  BY <1>1, <1>2

\* What makes a machine right, in terms of its fields.
LEMMA FromFields ==
    ASSUME NEW X, NEW m \in MachineOf(X),
           m.inactive \subseteq m.subs \cap Waiting,
           m.state \in {"Pending", "Acquired"} => m.subs \ m.inactive # {},
           m.state = "Releasing" => m.inactive # {},
           m.state = "Released" => m.inactive = {}
    PROVE  MachineOK(m)
<1>1. m \in MachineOf(m.subs)
  BY DEF MachineOf
<1> QED  BY <1>1 DEF MachineOK, Active, Inactive

\* A subscription keeps the machine right; so does one whose request failed,
\* which leaves the state of a machine that was Released.
LEMMA SubscribeOK ==
    ASSUME NEW m, MachineOK(m), NEW s
    PROVE  /\ MachineOK(OnSubscribe(m, s).m)
           /\ OnSubscribe(m, s).ask = "REQUEST" =>
                MachineOK(GoTo(OnSubscribe(m, s).m, m.state))
<1> DEFINE X == m.subs \cup {s}
           added == AddSubscriber(m, s)
<1>1. /\ m \in MachineOf(X) /\ m.state \in StateNames
      /\ m.inactive \subseteq m.subs \cap Waiting
  BY DEF MachineOK, MachineOf
<1>2. /\ added \in MachineOf(X) /\ added.state = m.state
      /\ added.subs = X /\ added.inactive = m.inactive
  BY <1>1, AddFields
<1> HIDE DEF added
<1>3. CASE m.state = "Released"
  <2>1. OnSubscribe(m, s).m = GoTo(added, "Pending")
    BY <1>3 DEF OnSubscribe, Outcome, added
  <2>2. /\ GoTo(added, "Pending") \in MachineOf(X)
        /\ GoTo(added, "Pending").state = "Pending"
        /\ GoTo(added, "Pending").subs = X /\ GoTo(added, "Pending").inactive = {}
    BY <1>2, <1>3, GoToFields DEF StateNames, MachineOK
  <2>3. MachineOK(GoTo(added, "Pending"))
    BY <2>2, FromFields
  <2>4. LET back == GoTo(GoTo(added, "Pending"), m.state)
        IN /\ back \in MachineOf(X) /\ back.state = "Released" /\ back.inactive = {}
    BY <1>3, <2>2, GoToFields DEF StateNames
  <2>5. MachineOK(GoTo(GoTo(added, "Pending"), m.state))
    BY <2>4, FromFields
  <2> QED  BY <2>1, <2>3, <2>5
<1>4. CASE m.state # "Released"
  <2>1. OnSubscribe(m, s).m = added /\ OnSubscribe(m, s).ask = "none"
    BY <1>1, <1>4 DEF OnSubscribe, Outcome, StateNames, added
  <2>2. /\ m.state \in {"Pending", "Acquired"} => m.subs \ m.inactive # {}
        /\ m.state = "Releasing" => m.inactive # {}
    BY DEF MachineOK, Active, Inactive
  <2>3. MachineOK(added)
    BY <1>1, <1>2, <1>4, <2>2, FromFields
  <2> QED  BY <2>1, <2>3
<1> QED  BY <1>3, <1>4

\* A listed subscriber that leaves keeps the machine right.
LEMMA UnsubscribeOK ==
    ASSUME NEW m, MachineOK(m), NEW s \in m.subs
    PROVE  MachineOK(OnUnsubscribe(m, s).m)
<1> DEFINE X == m.subs
           left == Leave(m, s)
<1>1. /\ m \in MachineOf(X) /\ m.state \in StateNames
      /\ m.inactive \subseteq m.subs \cap Waiting
      /\ m.state = "Releasing" => m.inactive # {}
  BY DEF MachineOK, MachineOf, Inactive
<1>2. /\ left \in MachineOf(X) /\ left.state = m.state
      /\ left.inactive \subseteq left.subs \cap Waiting
      /\ m.state = "Releasing" => left.inactive # {}
  <2>1. CASE s \in Waiting
    BY <1>1, <2>1, LeaveFields
  <2>2. CASE s \notin Waiting
    BY <1>1, <2>2, LeaveFields
  <2> QED  BY <2>1, <2>2
<1> HIDE DEF left
<1>3. \A st \in StateNames : /\ GoTo(left, st) \in MachineOf(X) /\ GoTo(left, st).state = st
                             /\ GoTo(left, st).subs = left.subs
                             /\ GoTo(left, st).inactive = left.inactive
  BY <1>2, GoToFields
<1>4. CASE m.state = "Released"
  BY <1>4 DEF OnUnsubscribe, Outcome
<1>5. CASE m.state # "Released" /\ left.subs = {}
  <2>1. OnUnsubscribe(m, s).m = GoTo(left, "Released")
    BY <1>5 DEF OnUnsubscribe, Outcome, left, Active
  <2>2. MachineOK(GoTo(left, "Released"))
    BY <1>2, <1>3, <1>5, FromFields DEF StateNames
  <2> QED  BY <2>1, <2>2
<1>6. CASE m.state # "Released" /\ left.subs # {} /\ Active(left) = {}
  <2>1. OnUnsubscribe(m, s).m = GoTo(left, "Releasing")
    BY <1>6 DEF OnUnsubscribe, Outcome, left
  <2>2. left.inactive # {}
    BY <1>6 DEF Active
  <2>3. MachineOK(GoTo(left, "Releasing"))
    BY <1>2, <1>3, <2>2, FromFields DEF StateNames
  <2> QED  BY <2>1, <2>3
<1>7. CASE m.state # "Released" /\ Active(left) # {}
  <2>1. OnUnsubscribe(m, s).m = left
    BY <1>7 DEF OnUnsubscribe, Outcome, left, Active
  <2>2. left.subs \ left.inactive # {}
    BY <1>7 DEF Active
  <2>3. MachineOK(left)
    BY <1>2, <1>7, <2>2, FromFields
  <2> QED  BY <2>1, <2>3
<1> QED  BY <1>4, <1>5, <1>6, <1>7

\* The end of the wait in Releasing.
LEMMA CloseCompletedOK ==
    ASSUME NEW m, MachineOK(m), NEW status
    PROVE  MachineOK(CloseCompleted(m, status).m)
<1> DEFINE X == m.subs \cup {m}
           rest == Drop(m, Inactive(m))
<1>1. m \in MachineOf(X) /\ m.inactive \subseteq m.subs
  BY DEF MachineOK, MachineOf
<1>2. rest \in MachineOf(X) /\ rest.subs = Active(m) /\ rest.inactive = {}
  BY <1>1, DropFields DEF Active, Inactive
<1> HIDE DEF rest
<1>3. \A st \in StateNames : /\ GoTo(rest, st) \in MachineOf(X) /\ GoTo(rest, st).state = st
                             /\ GoTo(rest, st).subs = Active(m)
                             /\ GoTo(rest, st).inactive = {}
  BY <1>2, GoToFields
<1> HIDE DEF X
<1>4. CASE Active(m) # {}
  <2>1. CloseCompleted(m, status).m = GoTo(rest, "Pending")
    BY <1>4 DEF CloseCompleted, Outcome, rest
  <2>2. MachineOK(GoTo(rest, "Pending"))
    BY <1>3, <1>4, FromFields DEF StateNames
  <2> QED  BY <2>1, <2>2
<1>5. CASE Active(m) = {}
  <2>1. CloseCompleted(m, status).m = GoTo(rest, "Released")
    BY <1>5 DEF CloseCompleted, Outcome, rest
  <2>2. MachineOK(GoTo(rest, "Released"))
    BY <1>3, FromFields DEF StateNames
  <2> QED  BY <2>1, <2>2
<1> QED  BY <1>4, <1>5

\* The three events of the servicer keep the machine right.
LEMMA RsrcEventsOK ==
    ASSUME NEW m, MachineOK(m)
    PROVE  MachineOK(OnGranted(m).m) /\ MachineOK(OnReleased(m).m) /\ MachineOK(OnDenied(m).m)
<1> DEFINE X == m.subs \cup {m}
<1>1. m \in MachineOf(X) /\ m.state \in StateNames
  BY DEF MachineOK, MachineOf
<1>2. m \in X
  OBVIOUS
<1> HIDE DEF X
<1>3. MachineOK(GoTo(Drop(m, m.subs), "Released"))
  <2>1. /\ Drop(m, m.subs) \in MachineOf(X)
        /\ Drop(m, m.subs).inactive = m.inactive \ m.subs
    BY <1>1, DropFields
  <2>2. m.inactive \ m.subs = {}
    BY DEF MachineOK, MachineOf
  <2>3. /\ GoTo(Drop(m, m.subs), "Released") \in MachineOf(X)
        /\ GoTo(Drop(m, m.subs), "Released").state = "Released"
        /\ GoTo(Drop(m, m.subs), "Released").inactive = {}
    BY <2>1, <2>2, GoToFields DEF StateNames
  <2> QED  BY <2>3, FromFields
<1>4. MachineOK(OnGranted(m).m)
  <2>1. CASE m.state = "Pending"
    <3>1. OnGranted(m).m = GoTo(m, "Acquired")
      BY <2>1 DEF OnGranted, Outcome
    <3>2. /\ GoTo(m, "Acquired") \in MachineOf(X)
          /\ GoTo(m, "Acquired").state = "Acquired"
          /\ GoTo(m, "Acquired").subs = m.subs /\ GoTo(m, "Acquired").inactive = m.inactive
      BY <1>1, GoToFields DEF StateNames
    <3>3. m.subs \ m.inactive # {} /\ m.inactive \subseteq m.subs \cap Waiting
      BY <2>1 DEF MachineOK, MachineOf, Active
    <3>4. MachineOK(GoTo(m, "Acquired"))
      BY <3>2, <3>3, FromFields
    <3> QED  BY <3>1, <3>4
  <2>2. CASE m.state # "Pending"
    BY <2>2 DEF OnGranted, Ignored, Outcome
  <2> QED  BY <2>1, <2>2
<1>5. MachineOK(OnReleased(m).m)
  <2>1. CASE m.state = "Acquired"
    BY <1>3, <2>1 DEF OnReleased, Outcome
  <2>2. CASE m.state = "Releasing"
    BY <2>2, CloseCompletedOK DEF OnReleased
  <2>3. CASE m.state \in {"Released", "Pending"}
    BY <2>3 DEF OnReleased, Ignored, Outcome
  <2> QED  BY <1>1, <2>1, <2>2, <2>3 DEF StateNames
<1>6. MachineOK(OnDenied(m).m)
  <2>1. CASE m.state = "Pending"
    BY <1>3, <2>1 DEF OnDenied, Outcome
  <2>2. CASE m.state = "Releasing"
    BY <2>2, CloseCompletedOK DEF OnDenied
  <2>3. CASE m.state \in {"Released", "Acquired"}
    BY <2>3 DEF OnDenied, Ignored, Outcome
  <2> QED  BY <1>1, <2>1, <2>2, <2>3 DEF StateNames
<1> QED  BY <1>4, <1>5, <1>6

-----------------------------------------------------------------------------
(* The steps of DsNif                                                      *)

LEMMA InitOK == Init => MachineOK(ds)
BY DEF Init, NewMachine, MachineOK, MachineOf, StateNames

LEMMA NextOK == MachineOK(ds) /\ [Next]_vars => MachineOK(ds)'
<1> SUFFICES ASSUME MachineOK(ds), [Next]_vars PROVE MachineOK(ds')
  BY DEF MachineOK, Active, Inactive
<1>1. ASSUME NEW result \in DataCallResults, ProcRequestSuplEs(result) PROVE MachineOK(ds')
  <2> DEFINE o == OnSubscribe(ds, Head(msgQ).sub)
  <2>1. \/ ds' = o.m
        \/ o.ask = "REQUEST" /\ ds' = GoTo(o.m, ds.state)
    BY <1>1 DEF ProcRequestSuplEs
  <2> QED  BY <2>1, SubscribeOK
<1>2. CASE ProcReleaseAtl
  BY <1>2, UnsubscribeOK DEF ProcReleaseAtl
<1>3. CASE ProcSuplEsOpened
  BY <1>3, RsrcEventsOK DEF ProcSuplEsOpened
<1>4. ASSUME NEW result \in DataCallResults, ProcSuplEsClosed(result) PROVE MachineOK(ds')
  <2> DEFINE o == OnReleased(ds)
  <2>1. ds' = o.m \/ ds' = OnDenied(o.m).m
    BY <1>4 DEF ProcSuplEsClosed
  <2>2. MachineOK(o.m)
    BY RsrcEventsOK
  <2> QED  BY <2>1, <2>2, RsrcEventsOK
<1>5. CASE UNCHANGED ds
  BY <1>5
<1>6. \/ \E result \in DataCallResults : ProcRequestSuplEs(result) \/ ProcSuplEsClosed(result)
      \/ ProcReleaseAtl \/ ProcSuplEsOpened
      \/ UNCHANGED ds
  BY DEF Next, ProcMsg, ProcRequestAtl, RetryCallback, Ask, GiveUp, AgnssOpened, AgnssEnded,
         CallConnected, CallFailed, CallStopped, CallLost, CallEvent, vars
<1> QED  BY <1>1, <1>2, <1>3, <1>4, <1>5, <1>6

\* State and list of DSStateMachine agree, through retries, fallback and
\* failed requests, for every set of emergency connections.
THEOREM StateMatchesListHolds == Spec => []StateMatchesList
<1>1. MachineOK(ds) => StateMatchesList
  BY DEF MachineOK, StateMatchesList
<1> QED  BY InitOK, NextOK, <1>1, PTL DEF Spec
=============================================================================
