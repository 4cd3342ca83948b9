----------------------------- MODULE AgpsProofs -----------------------------
(***************************************************************************)
(* The invariants of AgpsNif, for every set of clients, every choice of    *)
(* the clients that wait for the close, and both values of                 *)
(* mEnforceSingleSubscriber; then NoGhosts of AgpsRestart, for every       *)
(* number of restarts.                                                     *)
(***************************************************************************)
EXTENDS AgpsRestart, SequenceTheorems, TLAPS

ClientTypes == {"SUBSCRIBE", "UNSUBSCRIBE"}

-----------------------------------------------------------------------------
(* The queue                                                               *)

\* A client message is determined by its type and its client, and is not a
\* message of the connectivity service.
LEMMA ClientMessages ==
    /\ \A t \in ClientTypes, s \in Subs :
         /\ ClientMsgOf(t, s) \in ClientMsg
         /\ ClientMsgOf(t, s).type = t
         /\ ClientMsgOf(t, s).sub = s
    /\ \A x \in ClientMsg : x.type \in ClientTypes /\ x.sub \in Subs
                            /\ x = ClientMsgOf(x.type, x.sub)
    /\ \A e \in {"GRANTED", "RELEASED", "DENIED"} :
         RsrcMsgOf(e) \in RsrcMsg
    /\ \A x \in RsrcMsg : x \notin ClientMsg /\ x.type = "RSRC"
                          /\ x.event \in {"GRANTED", "RELEASED", "DENIED"}
BY DEF ClientMsgOf, ClientMsg, RsrcMsgOf, RsrcMsg, ClientTypes

\* Appending x adds x at the end and nothing else.
LEMMA AppendedQueue ==
    ASSUME NEW q \in Seq(Msg), NEW x \in Msg
    PROVE  /\ Append(q, x) \in Seq(Msg)
           /\ \A y : Contains(Append(q, x), y) <=> Contains(q, y) \/ x = y
<1>1. /\ Len(Append(q, x)) = Len(q) + 1
      /\ \A i \in 1 .. Len(q) : Append(q, x)[i] = q[i]
      /\ Append(q, x)[Len(q) + 1] = x
      /\ Append(q, x) \in Seq(Msg)
      /\ Len(q) \in Nat
  OBVIOUS
<1> QED  BY <1>1 DEF Contains

\* An ordered queue stays ordered when the appended message is one of the
\* service, or one of a client that is not there and follows no release.
LEMMA AppendedOrder ==
    ASSUME NEW q \in Seq(Msg), Ordered(q), NEW x \in Msg,
           x \in ClientMsg =>
             /\ ~ Contains(q, x)
             /\ x.type = "SUBSCRIBE" => ~ Contains(q, ClientMsgOf("UNSUBSCRIBE", x.sub))
    PROVE  Ordered(Append(q, x))
<1> DEFINE p == Append(q, x)
<1>1. /\ Len(p) = Len(q) + 1
      /\ \A i \in 1 .. Len(q) : p[i] = q[i]
      /\ p[Len(q) + 1] = x
      /\ Len(q) \in Nat
  OBVIOUS
<1>2. SUFFICES ASSUME NEW i \in 1 .. Len(p), NEW j \in 1 .. Len(p), i < j, p[i] \in ClientMsg
               PROVE  /\ p[i] # p[j]
                      /\ p[i].type = "UNSUBSCRIBE" => p[j] # ClientMsgOf("SUBSCRIBE", p[i].sub)
  BY DEF Ordered
<1>3. i \in 1 .. Len(q) /\ p[i] = q[i]
  BY <1>1, <1>2
<1>4. CASE j \in 1 .. Len(q)
  <2>1. p[j] = q[j]
    BY <1>1, <1>4
  <2> QED  BY <1>2, <1>3, <1>4, <2>1 DEF Ordered
<1>5. CASE j = Len(q) + 1
  <2>1. p[j] = x
    BY <1>1, <1>5
  <2>2. p[i] # x
    BY <1>2, <1>3 DEF Contains
  <2>3. ASSUME p[i].type = "UNSUBSCRIBE", x = ClientMsgOf("SUBSCRIBE", p[i].sub) PROVE FALSE
    <3>1. /\ p[i] = ClientMsgOf("UNSUBSCRIBE", p[i].sub)
          /\ x \in ClientMsg /\ x.type = "SUBSCRIBE" /\ x.sub = p[i].sub
      BY <1>2, <2>3, ClientMessages DEF ClientTypes
    <3> QED  BY <1>3, <3>1 DEF Contains
  <2> QED  BY <2>1, <2>2, <2>3
<1> QED  BY <1>1, <1>4, <1>5

\* Removing the head of an ordered queue removes that message only.
LEMMA RemovedHead ==
    ASSUME NEW q \in Seq(Msg), Ordered(q), q # <<>>
    PROVE  /\ Head(q) \in Msg
           /\ Tail(q) \in Seq(Msg)
           /\ Contains(q, Head(q))
           /\ Ordered(Tail(q))
           /\ \A x \in ClientMsg : Contains(Tail(q), x) <=> Contains(q, x) /\ Head(q) # x
           /\ Head(q) \in ClientMsg /\ Head(q).type = "UNSUBSCRIBE" =>
                ~ Contains(q, ClientMsgOf("SUBSCRIBE", Head(q).sub))
<1> DEFINE p == Tail(q)
<1>1. /\ Len(q) \in Nat \ {0}
      /\ Len(p) = Len(q) - 1
      /\ \A i \in 1 .. Len(q) - 1 : p[i] = q[i + 1]
      /\ Head(q) = q[1]
      /\ Head(q) \in Msg
      /\ p \in Seq(Msg)
  OBVIOUS
<1> HIDE DEF p
<1>2. Ordered(p)
  <2>1. SUFFICES ASSUME NEW i \in 1 .. Len(p), NEW j \in 1 .. Len(p), i < j, p[i] \in ClientMsg
                 PROVE  /\ p[i] # p[j]
                        /\ p[i].type = "UNSUBSCRIBE" =>
                             p[j] # ClientMsgOf("SUBSCRIBE", p[i].sub)
    BY DEF Ordered
  <2>2. /\ i + 1 \in 1 .. Len(q) /\ j + 1 \in 1 .. Len(q) /\ i + 1 < j + 1
        /\ p[i] = q[i + 1] /\ p[j] = q[j + 1]
    BY <1>1, <2>1
  <2> QED  BY <2>1, <2>2 DEF Ordered
<1>3. ASSUME NEW x \in ClientMsg, Contains(p, x) PROVE Contains(q, x) /\ Head(q) # x
  <2>1. PICK i \in 1 .. Len(p) : p[i] = x
    BY <1>3 DEF Contains
  <2>2. i + 1 \in 1 .. Len(q) /\ 1 \in 1 .. Len(q) /\ 1 < i + 1 /\ q[i + 1] = x
    BY <2>1, <1>1
  <2>3. q[1] # x
    BY <2>2, <1>3 DEF Ordered
  <2> QED  BY <2>2, <2>3, <1>1 DEF Contains
<1>4. ASSUME NEW x \in ClientMsg, Contains(q, x), Head(q) # x PROVE Contains(p, x)
  <2>1. PICK i \in 1 .. Len(q) : q[i] = x
    BY <1>4 DEF Contains
  <2>2. i # 1
    BY <2>1, <1>4, <1>1
  <2>3. i - 1 \in 1 .. Len(p) /\ p[i - 1] = x
    BY <2>1, <2>2, <1>1
  <2> QED  BY <2>3 DEF Contains
<1>5. ASSUME Head(q) \in ClientMsg, Head(q).type = "UNSUBSCRIBE",
             Contains(q, ClientMsgOf("SUBSCRIBE", Head(q).sub))
      PROVE  FALSE
  <2>1. PICK i \in 1 .. Len(q) : q[i] = ClientMsgOf("SUBSCRIBE", Head(q).sub)
    BY <1>5 DEF Contains
  <2>2. q[i].type = "SUBSCRIBE"
    BY <2>1, <1>5, ClientMessages DEF ClientTypes
  <2>3. 1 < i /\ 1 \in 1 .. Len(q)
    BY <2>1, <2>2, <1>1, <1>5
  <2> QED  BY <2>1, <2>3, <1>1, <1>5 DEF Ordered
<1>6. Contains(q, Head(q))
  BY <1>1 DEF Contains
<1> QED  BY <1>1, <1>2, <1>3, <1>4, <1>5, <1>6 DEF p

-----------------------------------------------------------------------------
(* The steps of the message thread                                         *)

\* What processing the head of the queue does to the queue.
LEMMA ProcQueue ==
    ASSUME IInv, NEW type, Proc(type)
    PROVE  /\ Head(msgQ) \in Msg /\ Head(msgQ).type = type
           /\ msgQ' \in Seq(Msg) /\ Ordered(msgQ') /\ conn' = conn
           /\ \A t \in ClientTypes, s \in Subs :
                Queued(t, s)' <=> Queued(t, s) /\ Head(msgQ) # ClientMsgOf(t, s)
           /\ Contains(msgQ, Head(msgQ))
           /\ Head(msgQ) \in ClientMsg /\ Head(msgQ).type = "UNSUBSCRIBE" =>
                ~ Queued("SUBSCRIBE", Head(msgQ).sub)
BY RemovedHead, ClientMessages DEF Proc, IInv, TypeOK, Queued

\* Sending a callback keeps the callback queue well typed.
LEMMA SendTypeOK ==
    ASSUME fwQ \in Seq({"REQUEST", "RELEASE"}), NEW m, NEW ask \in {"none", "REQUEST", "RELEASE"},
           SendRsrcRequest(m, ask)
    PROVE  fwQ' \in Seq({"REQUEST", "RELEASE"})
BY DEF SendRsrcRequest

LEMMA NotifyTypeOK ==
    ASSUME client \in [Subs -> {"idle", "asked", "open", "leaving"}], NEW S, NEW status,
           Notify(S, status)
    PROVE  client' \in [Subs -> {"idle", "asked", "open", "leaving"}]
BY DEF Notify, After

LEMMA SubscribeStep ==
    ASSUME IInv, ProcSubscribe
    PROVE  IInv'
<1> DEFINE t == Head(msgQ).sub
<1>1. /\ t \in Subs /\ Head(msgQ) = ClientMsgOf("SUBSCRIBE", t)
      /\ Queued("SUBSCRIBE", t)
      /\ \A s \in Subs : /\ Queued("SUBSCRIBE", s)' <=> Queued("SUBSCRIBE", s) /\ s # t
                         /\ Queued("UNSUBSCRIBE", s)' <=> Queued("UNSUBSCRIBE", s)
  BY ProcQueue, ClientMessages DEF ProcSubscribe, Queued, ClientTypes, Msg
<1>2. t \notin nif.subs /\ client[t] \in {"asked", "leaving"}
  BY <1>1 DEF IInv, TypeOK, ClientOK
<1>3. msgQ' \in Seq(Msg) /\ Ordered(msgQ') /\ conn' = conn /\ SubscribeRsrc(t)
  BY ProcQueue DEF ProcSubscribe
<1>4. CASE SingleSubscriber /\ nif.subs # {}
  <2>1. Notify({t}, "DENIED") /\ nif' = nif /\ fwQ' = fwQ
    BY <1>3, <1>4 DEF SubscribeRsrc
  <2>2. TypeOK'
    BY <2>1, <1>3, NotifyTypeOK DEF IInv, TypeOK
  <2>3. \A s \in Subs : ClientOK(s)'
    BY <2>1, <1>1, <1>2 DEF IInv, TypeOK, ClientOK, Notify, After
  <2>4. StateMatchesList' /\ ListOK'
    BY <2>1 DEF IInv, StateMatchesList, ListOK
  <2> QED  BY <2>2, <2>3, <2>4, <1>3 DEF IInv
<1>5. CASE ~ (SingleSubscriber /\ nif.subs # {})
  <2> DEFINE o == OnSubscribe(nif, t)
  <2>1. nif' = o.m /\ Notify(o.told, o.status) /\ SendRsrcRequest(o.m, o.ask)
    BY <1>3, <1>5 DEF SubscribeRsrc, Apply
  <2>2. /\ o.m \in Machine /\ o.m.subs = nif.subs \cup {t} /\ o.m.inactive = nif.inactive
        /\ nif.state = "Released" => o.m.state = "Pending"
        /\ nif.state # "Released" => o.m.state = nif.state
        /\ o.told = IF nif.state = "Acquired" THEN {t} ELSE {}
        /\ o.status = "GRANTED"
        /\ o.ask \in {"none", "REQUEST", "RELEASE"}
    BY <1>1 DEF IInv, TypeOK, Machine, OnSubscribe, Outcome, AddSubscriber, GoTo, StateNames
  <2> HIDE DEF o
  <2>3. TypeOK'
    BY <2>1, <2>2, <1>3, NotifyTypeOK, SendTypeOK DEF IInv, TypeOK
  <2>4. StateMatchesList' /\ ListOK'
    BY <1>2, <2>1, <2>2 DEF IInv, TypeOK, Machine, StateNames, StateMatchesList, ListOK, Active, Inactive
  <2>5. ASSUME NEW s \in Subs PROVE ClientOK(s)'
    <3>1. CASE s = t
      BY <3>1, <1>1, <1>2, <2>1, <2>2
         DEF IInv, TypeOK, Machine, StateNames, ClientOK, ListOK, Active, Inactive, Notify, After
    <3>2. CASE s # t
      BY <3>2, <1>1, <1>2, <2>1, <2>2
         DEF IInv, TypeOK, Machine, StateNames, ClientOK, ListOK, Active, Inactive, Notify, After
    <3> QED  BY <3>1, <3>2
  <2> QED  BY <2>3, <2>4, <2>5, <1>3 DEF IInv
<1> QED  BY <1>4, <1>5

\* What an unsubscription leaves behind.
AfterUnsubscribe(m, t, o) ==
    /\ o.m \in Machine
    /\ o.m.subs = m.subs \ ({t} \ Waiting)
    /\ o.m.inactive = IF t \in Waiting THEN m.inactive \cup {t} ELSE m.inactive \ {t}
    /\ o.m.subs = {} => o.m.state = "Released"
    /\ o.m.subs # {} /\ Active(o.m) = {} => o.m.state = "Releasing"
    /\ Active(o.m) # {} => o.m.state = m.state
    /\ o.told = {t} \ Waiting
    /\ o.status = "UNSUBSCRIBE"
    /\ o.ask \in {"none", "REQUEST", "RELEASE"}

\* What a release makes of a machine that is not Released: who leaves, who
\* stays to wait, where the machine goes.
LEMMA UnsubscribeOutcome ==
    ASSUME NEW m \in Machine, NEW t \in m.subs, m.state # "Released"
    PROVE  AfterUnsubscribe(m, t, OnUnsubscribe(m, t))
<1> DEFINE o == OnUnsubscribe(m, t)
           left == Leave(m, t)
<1>0. m.state # "Released"
  OBVIOUS
<1>1. /\ left \in Machine /\ left.state = m.state
      /\ left.subs = m.subs \ ({t} \ Waiting)
      /\ left.inactive = IF t \in Waiting THEN m.inactive \cup {t} ELSE m.inactive \ {t}
  BY DEF Machine, Leave, Drop
<1> HIDE DEF left
<1>2. \A st \in StateNames :
        /\ GoTo(left, st) \in Machine /\ GoTo(left, st).state = st
        /\ GoTo(left, st).subs = left.subs /\ GoTo(left, st).inactive = left.inactive
  BY <1>1 DEF Machine, GoTo
<1>3. CASE left.subs = {}
  <2>1. /\ o.m = GoTo(left, "Released") /\ o.told = {t} \ Waiting /\ o.status = "UNSUBSCRIBE"
        /\ o.ask \in {"none", "RELEASE"}
    BY <1>3, <1>0 DEF OnUnsubscribe, Outcome, ToldOnLeave, left, Active
  <2> QED  BY <2>1, <1>1, <1>2, <1>3 DEF AfterUnsubscribe, StateNames, Active
<1>4. CASE left.subs # {} /\ Active(left) = {}
  <2>1. /\ o.m = GoTo(left, "Releasing") /\ o.told = {t} \ Waiting /\ o.status = "UNSUBSCRIBE"
        /\ o.ask \in {"none", "RELEASE"}
    BY <1>4, <1>0 DEF OnUnsubscribe, Outcome, ToldOnLeave, left, Active
  <2> QED  BY <2>1, <1>1, <1>2, <1>4 DEF AfterUnsubscribe, StateNames, Active
<1>5. CASE Active(left) # {}
  <2>1. left.subs # {}
    BY <1>5 DEF Active
  <2>2. o.m = left /\ o.told = {t} \ Waiting /\ o.status = "UNSUBSCRIBE" /\ o.ask = "none"
    BY <1>5, <2>1, <1>0 DEF OnUnsubscribe, Outcome, ToldOnLeave, left, Active
  <2> QED  BY <2>1, <2>2, <1>1, <1>5 DEF AfterUnsubscribe, Active
<1> QED  BY <1>3, <1>4, <1>5

\* A release in the queue is that of a client that stands in the list as
\* active and is leaving, or of one that was told the end already.
LEMMA UnsubscribeStep ==
    ASSUME IInv, ProcUnsubscribe
    PROVE  IInv'
<1> DEFINE t == Head(msgQ).sub
<1>1. /\ t \in Subs /\ Head(msgQ) = ClientMsgOf("UNSUBSCRIBE", t)
      /\ Queued("UNSUBSCRIBE", t) /\ ~ Queued("SUBSCRIBE", t)
      /\ \A s \in Subs : /\ Queued("SUBSCRIBE", s)' <=> Queued("SUBSCRIBE", s)
                         /\ Queued("UNSUBSCRIBE", s)' <=> Queued("UNSUBSCRIBE", s) /\ s # t
  BY ProcQueue, ClientMessages DEF ProcUnsubscribe, Queued, ClientTypes, Msg
<1>2. \/ client[t] = "idle" /\ t \notin nif.subs
      \/ client[t] = "leaving" /\ t \in Active(nif)
  BY <1>1 DEF IInv, TypeOK, ClientOK, Active, Inactive
<1>3. msgQ' \in Seq(Msg) /\ Ordered(msgQ') /\ conn' = conn /\ UnsubscribeRsrc(t)
  BY ProcQueue DEF ProcUnsubscribe
<1>4. CASE t \notin nif.subs
  <2>1. Notify({t} \cap ModemSubs, "UNSUBSCRIBE") /\ nif' = nif /\ fwQ' = fwQ
    BY <1>3, <1>4 DEF UnsubscribeRsrc
  <2>2. TypeOK'
    BY <2>1, <1>3, NotifyTypeOK DEF IInv, TypeOK
  <2>3. \A s \in Subs : ClientOK(s)'
    BY <2>1, <1>1, <1>2, <1>4 DEF IInv, TypeOK, ClientOK, Notify, After, Active
  <2>4. StateMatchesList' /\ ListOK'
    BY <2>1 DEF IInv, StateMatchesList, ListOK
  <2> QED  BY <2>2, <2>3, <2>4, <1>3 DEF IInv
<1>5. CASE t \in nif.subs
  <2> DEFINE o == OnUnsubscribe(nif, t)
  <2>1. nif' = o.m /\ Notify(o.told, o.status) /\ SendRsrcRequest(o.m, o.ask)
    BY <1>3, <1>5 DEF UnsubscribeRsrc, Apply
  <2>2. client[t] = "leaving" /\ t \in nif.subs /\ t \notin nif.inactive /\ nif.state # "Released"
    BY <1>2, <1>5 DEF IInv, StateMatchesList, Active
  <2>3. /\ o.m \in Machine
        /\ o.m.subs = nif.subs \ ({t} \ Waiting)
        /\ o.m.inactive = IF t \in Waiting THEN nif.inactive \cup {t} ELSE nif.inactive \ {t}
        /\ o.m.subs = {} => o.m.state = "Released"
        /\ o.m.subs # {} /\ Active(o.m) = {} => o.m.state = "Releasing"
        /\ Active(o.m) # {} => o.m.state = nif.state
        /\ o.told = {t} \ Waiting
        /\ o.status = "UNSUBSCRIBE"
        /\ o.ask \in {"none", "REQUEST", "RELEASE"}
    <3>1. nif \in Machine
      BY DEF IInv, TypeOK
    <3>2. AfterUnsubscribe(nif, t, o)
      BY <3>1, <2>2, UnsubscribeOutcome
    <3> HIDE DEF o
    <3> QED  BY <3>2 DEF AfterUnsubscribe
  <2> HIDE DEF o
  <2>4. TypeOK'
    BY <2>1, <2>3, <1>3, NotifyTypeOK, SendTypeOK DEF IInv, TypeOK
  <2>5. ListOK'
    BY <2>1, <2>2, <2>3 DEF IInv, ListOK
  <2>6. StateMatchesList'
    BY <1>1, <2>1, <2>2, <2>3, <2>5
       DEF IInv, TypeOK, Machine, StateNames, StateMatchesList, ListOK, Active, Inactive
  <2>7. ASSUME NEW s \in Subs PROVE ClientOK(s)'
    <3>1. CASE s = t
      BY <3>1, <1>1, <2>1, <2>2, <2>3
         DEF IInv, TypeOK, ClientOK, ListOK, Active, Inactive, Notify, After
    <3>2. CASE s # t
      <4>1. client'[s] = client[s]
        BY <3>2, <2>1, <2>3 DEF Notify
      <4>2. /\ s \in nif'.subs <=> s \in nif.subs
            /\ s \in Active(nif') <=> s \in Active(nif)
            /\ s \in Inactive(nif') <=> s \in Inactive(nif)
            /\ s \in Active(nif) => nif'.state = nif.state
        BY <3>2, <2>1, <2>3 DEF Active, Inactive
      <4> QED  BY <3>2, <4>1, <4>2, <1>1 DEF IInv, ClientOK
    <3> QED  BY <3>1, <3>2
  <2> QED  BY <2>4, <2>5, <2>6, <2>7, <1>3 DEF IInv
<1> QED  BY <1>4, <1>5

\* What an event of the service makes of a machine, in one shape for all
\* states: who is dropped, who stays, where the machine goes.
LEMMA RsrcOutcome ==
    ASSUME NEW m \in Machine, NEW event \in {"GRANTED", "RELEASED", "DENIED"},
           m.inactive \subseteq m.subs
    PROVE  LET o == OnRsrcEvent(m, event)
           IN /\ o.m \in Machine
              /\ o.ask \in {"none", "REQUEST", "RELEASE"}
              /\ \/ o.m = m /\ o.told = {}
                 \/ /\ m.state = "Pending" /\ o.m.state = "Acquired"
                    /\ o.m.subs = m.subs /\ o.m.inactive = m.inactive
                    /\ o.told = Active(m) /\ o.status = "GRANTED"
                 \/ /\ m.state \in {"Pending", "Acquired"} /\ o.m.state = "Released"
                    /\ o.m.subs = {} /\ o.m.inactive = {}
                    /\ o.told = m.subs /\ o.status # "GRANTED"
                 \/ /\ m.state = "Releasing"
                    /\ o.m.state = IF Active(m) # {} THEN "Pending" ELSE "Released"
                    /\ o.m.subs = Active(m) /\ o.m.inactive = {}
                    /\ o.told = Inactive(m) /\ o.status # "GRANTED"
<1> DEFINE o == OnRsrcEvent(m, event)
<1>a. \A n \in Machine, st \in StateNames :
        /\ GoTo(n, st) \in Machine /\ GoTo(n, st).state = st
        /\ GoTo(n, st).subs = n.subs /\ GoTo(n, st).inactive = n.inactive
  BY DEF Machine, GoTo
<1>b. \A S : /\ Drop(m, S) \in Machine
              /\ Drop(m, S).subs = m.subs \ S /\ Drop(m, S).inactive = m.inactive \ S
  BY DEF Machine, Drop
<1>c. m.state \in StateNames
  BY DEF Machine
<1> USE <1>a, <1>b, <1>c DEF StateNames, Outcome, Ignored, Active, Inactive
<1>1. CASE event = "GRANTED"
  <2>1. o = OnGranted(m)
    BY <1>1 DEF OnRsrcEvent
  <2> QED  BY <2>1 DEF OnGranted
<1>2. CASE event = "RELEASED"
  <2>1. o = OnReleased(m)
    BY <1>2 DEF OnRsrcEvent
  <2>2. CASE m.state = "Acquired"
    BY <2>1, <2>2 DEF OnReleased
  <2>3. CASE m.state = "Releasing"
    BY <2>1, <2>3 DEF OnReleased, CloseCompleted
  <2>4. CASE m.state \in {"Released", "Pending"}
    BY <2>1, <2>4 DEF OnReleased
  <2> QED  BY <2>2, <2>3, <2>4
<1>3. CASE event = "DENIED"
  <2>1. o = OnDenied(m)
    BY <1>3 DEF OnRsrcEvent
  <2>2. CASE m.state = "Pending"
    BY <2>1, <2>2 DEF OnDenied
  <2>3. CASE m.state = "Releasing"
    BY <2>1, <2>3 DEF OnDenied, CloseCompleted
  <2>4. CASE m.state \in {"Released", "Acquired"}
    BY <2>1, <2>4 DEF OnDenied
  <2> QED  BY <2>2, <2>3, <2>4
<1> QED  BY <1>1, <1>2, <1>3

LEMMA RsrcStep ==
    ASSUME IInv, ProcRsrc
    PROVE  IInv'
<1> DEFINE o == OnRsrcEvent(nif, Head(msgQ).event)
<1>1. /\ Head(msgQ).event \in {"GRANTED", "RELEASED", "DENIED"}
      /\ \A s \in Subs : /\ Queued("SUBSCRIBE", s)' <=> Queued("SUBSCRIBE", s)
                         /\ Queued("UNSUBSCRIBE", s)' <=> Queued("UNSUBSCRIBE", s)
  BY ProcQueue, ClientMessages DEF ProcRsrc, ClientTypes, Msg
<1>2. /\ msgQ' \in Seq(Msg) /\ Ordered(msgQ') /\ conn' = conn
      /\ nif' = o.m /\ Notify(o.told, o.status) /\ SendRsrcRequest(o.m, o.ask)
  BY ProcQueue DEF ProcRsrc, Apply
<1>3. /\ nif \in Machine /\ nif.inactive \subseteq nif.subs
      /\ client \in [Subs -> {"idle", "asked", "open", "leaving"}]
      /\ nif.subs \subseteq Subs
  BY DEF IInv, TypeOK, ListOK, Machine
<1>4. /\ o.m \in Machine
      /\ o.ask \in {"none", "REQUEST", "RELEASE"}
      /\ \/ o.m = nif /\ o.told = {}
         \/ /\ nif.state = "Pending" /\ o.m.state = "Acquired"
            /\ o.m.subs = nif.subs /\ o.m.inactive = nif.inactive
            /\ o.told = Active(nif) /\ o.status = "GRANTED"
         \/ /\ nif.state \in {"Pending", "Acquired"} /\ o.m.state = "Released"
            /\ o.m.subs = {} /\ o.m.inactive = {}
            /\ o.told = nif.subs /\ o.status # "GRANTED"
         \/ /\ nif.state = "Releasing"
            /\ o.m.state = IF Active(nif) # {} THEN "Pending" ELSE "Released"
            /\ o.m.subs = Active(nif) /\ o.m.inactive = {}
            /\ o.told = Inactive(nif) /\ o.status # "GRANTED"
  BY <1>1, <1>3, RsrcOutcome
<1> HIDE DEF o
<1>5. TypeOK'
  BY <1>2, <1>4, NotifyTypeOK, SendTypeOK DEF IInv, TypeOK
<1>6. StateMatchesList' /\ ListOK'
  BY <1>2, <1>3, <1>4 DEF IInv, StateMatchesList, ListOK, Active, Inactive
<1>7. ASSUME NEW s \in Subs PROVE ClientOK(s)'
  <2>1. /\ client'[s] = IF s \in o.told THEN After(client[s], o.status) ELSE client[s]
        /\ client[s] \in {"idle", "asked", "open", "leaving"}
        /\ ClientOK(s)
    BY <1>2, <1>3 DEF Notify, IInv
  <2> QED  BY <1>1, <1>2, <1>3, <1>4, <2>1 DEF ClientOK, After, Active, Inactive
<1> QED  BY <1>2, <1>5, <1>6, <1>7 DEF IInv

-----------------------------------------------------------------------------
(* The steps of the clients and of the connectivity service                *)

LEMMA ClientStep ==
    ASSUME IInv, NEW s \in Subs, Ask(s) \/ GiveUp(s)
    PROVE  IInv'
<1>1. CASE Ask(s)
  <2> DEFINE x == ClientMsgOf("SUBSCRIBE", s)
  <2>1. /\ x \in ClientMsg /\ x \in Msg /\ x.type = "SUBSCRIBE" /\ x.sub = s
        /\ msgQ \in Seq(Msg) /\ msgQ' = Append(msgQ, x) /\ Ordered(msgQ)
        /\ client[s] = "idle" /\ client' = [client EXCEPT ![s] = "asked"]
        /\ nif' = nif /\ fwQ' = fwQ /\ conn' = conn
        /\ ~ Contains(msgQ, x) /\ ~ Contains(msgQ, ClientMsgOf("UNSUBSCRIBE", s))
        /\ s \notin nif.subs
    BY <1>1, ClientMessages DEF Ask, Send, IInv, TypeOK, Msg, ClientOK, ClientTypes, Queued
  <2>2. msgQ' \in Seq(Msg) /\ Ordered(msgQ')
    BY <2>1, AppendedQueue, AppendedOrder
  <2>3. \A t \in ClientTypes, r \in Subs :
          Queued(t, r)' <=> Queued(t, r) \/ (t = "SUBSCRIBE" /\ r = s)
    BY <2>1, AppendedQueue, ClientMessages DEF Queued
  <2>4. TypeOK'
    BY <2>1, <2>2 DEF IInv, TypeOK
  <2>5. \A r \in Subs : ClientOK(r)'
    BY <2>1, <2>3 DEF IInv, TypeOK, ClientOK, ClientTypes, Active, Inactive, Queued
  <2> QED  BY <2>1, <2>2, <2>4, <2>5 DEF IInv, StateMatchesList, ListOK
<1>2. CASE GiveUp(s)
  <2> DEFINE x == ClientMsgOf("UNSUBSCRIBE", s)
  <2>1. /\ x \in ClientMsg /\ x \in Msg /\ x.type = "UNSUBSCRIBE" /\ x.sub = s
        /\ msgQ \in Seq(Msg) /\ msgQ' = Append(msgQ, x) /\ Ordered(msgQ)
        /\ client[s] \in {"asked", "open"} /\ client' = [client EXCEPT ![s] = "leaving"]
        /\ nif' = nif /\ fwQ' = fwQ /\ conn' = conn
        /\ ~ Contains(msgQ, x)
    BY <1>2, ClientMessages DEF GiveUp, Send, IInv, TypeOK, Msg, ClientOK, ClientTypes, Queued
  <2>2. msgQ' \in Seq(Msg) /\ Ordered(msgQ')
    BY <2>1, AppendedQueue, AppendedOrder
  <2>3. \A t \in ClientTypes, r \in Subs :
          Queued(t, r)' <=> Queued(t, r) \/ (t = "UNSUBSCRIBE" /\ r = s)
    BY <2>1, AppendedQueue, ClientMessages DEF Queued
  <2>4. TypeOK'
    BY <2>1, <2>2 DEF IInv, TypeOK
  <2>5. \A r \in Subs : ClientOK(r)'
    BY <2>1, <2>3 DEF IInv, TypeOK, ClientOK, ClientTypes, Active, Inactive
  <2> QED  BY <2>1, <2>2, <2>4, <2>5 DEF IInv, StateMatchesList, ListOK
<1> QED  BY <1>1, <1>2

\* A step of the service touches neither the machine nor the clients; it
\* sends at most one event.
LEMMA ServiceStep ==
    ASSUME IInv, FwRequested \/ FwReleased \/ FwOpened \/ FwOpenFailed \/ FwLost
    PROVE  IInv'
<1>1. /\ nif' = nif /\ client' = client
      /\ fwQ' \in Seq({"REQUEST", "RELEASE"})
      /\ conn' \in {"closed", "opening", "open"}
      /\ \/ msgQ' = msgQ
         \/ \E e \in {"GRANTED", "RELEASED", "DENIED"} : msgQ' = Append(msgQ, RsrcMsgOf(e))
  <2> USE DEF IInv, TypeOK, Send
  <2>1. CASE FwRequested
    BY <2>1 DEF FwRequested
  <2>2. CASE FwReleased
    BY <2>2 DEF FwReleased
  <2>3. CASE FwOpened
    BY <2>3 DEF FwOpened
  <2>4. CASE FwOpenFailed
    BY <2>4 DEF FwOpenFailed
  <2>5. CASE FwLost
    BY <2>5 DEF FwLost
  <2> QED  BY <2>1, <2>2, <2>3, <2>4, <2>5
<1>2. /\ msgQ' \in Seq(Msg) /\ Ordered(msgQ')
      /\ \A t \in ClientTypes, r \in Subs : Queued(t, r)' <=> Queued(t, r)
  <2>1. CASE msgQ' = msgQ
    BY <2>1 DEF IInv, TypeOK, Queued
  <2>2. ASSUME NEW e \in {"GRANTED", "RELEASED", "DENIED"}, msgQ' = Append(msgQ, RsrcMsgOf(e))
        PROVE  /\ msgQ' \in Seq(Msg) /\ Ordered(msgQ')
               /\ \A t \in ClientTypes, r \in Subs : Queued(t, r)' <=> Queued(t, r)
    <3>1. RsrcMsgOf(e) \in Msg /\ RsrcMsgOf(e) \notin ClientMsg
      BY ClientMessages DEF Msg
    <3>2. msgQ \in Seq(Msg) /\ Ordered(msgQ)
      BY DEF IInv, TypeOK
    <3> QED  BY <2>2, <3>1, <3>2, AppendedQueue, AppendedOrder, ClientMessages DEF Queued
  <2> QED  BY <1>1, <2>1, <2>2
<1>3. TypeOK' /\ StateMatchesList' /\ ListOK'
  BY <1>1, <1>2 DEF IInv, TypeOK, StateMatchesList, ListOK
<1>4. \A s \in Subs : ClientOK(s)'
  BY <1>1, <1>2 DEF IInv, ClientOK, ClientTypes
<1> QED  BY <1>2, <1>3, <1>4 DEF IInv

-----------------------------------------------------------------------------
(* The theorems                                                            *)

\* The inductive invariant: what stands in the queue for a client, whether
\* it is in the list, and what it was told determine each other, in every
\* interleaving of clients, message thread and connectivity service.
THEOREM Invariance == Spec => []IInv
<1>1. Init => IInv
  BY DEF Init, IInv, TypeOK, NewMachine, Machine, StateNames, StateMatchesList, ListOK,
         Ordered, ClientOK, Active, Inactive, Queued, Contains
<1>2. IInv /\ [Next]_vars => IInv'
  <2> SUFFICES ASSUME IInv, [Next]_vars PROVE IInv'
    OBVIOUS
  <2>1. CASE UNCHANGED vars
    <3>1. \A t, s : Queued(t, s)' <=> Queued(t, s)
      BY <2>1 DEF vars, Queued
    <3> QED  BY <2>1, <3>1 DEF vars, IInv, TypeOK, StateMatchesList, ListOK, ClientOK
  <2>2. CASE Next
    BY <2>2, SubscribeStep, UnsubscribeStep, RsrcStep, ClientStep, ServiceStep DEF Next
  <2> QED  BY <2>1, <2>2
<1> QED  BY <1>1, <1>2, PTL DEF Spec

\* Every variable keeps its type.
THEOREM TypeCorrect == Spec => []TypeOK
<1>1. IInv => TypeOK
  BY DEF IInv
<1> QED  BY <1>1, Invariance, PTL

\* The state of the machine and its subscriber list agree.
THEOREM StateAndList == Spec => []StateMatchesList
<1>1. IInv => StateMatchesList
  BY DEF IInv
<1> QED  BY <1>1, Invariance, PTL

\* A client that believes its connection open is backed by the machine.
THEOREM OpenIsBacked == Spec => []OpenMeansAcquired
<1>1. IInv => OpenMeansAcquired
  BY DEF IInv, ClientOK, OpenMeansAcquired
<1> QED  BY <1>1, Invariance, PTL

\* No request and no release is lost on the way to its answer.
THEOREM NothingForgotten == Spec => []NoneForgotten
<1>1. IInv => NoneForgotten
  BY DEF IInv, ClientOK, NoneForgotten
<1> QED  BY <1>1, Invariance, PTL

-----------------------------------------------------------------------------
(* The promise                                                             *)

\* Telling the clients of S anything but a grant is an End of the promise,
\* if no client with an open connection is left out when it is not held.
LEMMA ToldEnd ==
    ASSUME IInv, IInv', NEW S \in SUBSET Subs, NEW status, status # "GRANTED",
           Notify(S, status),
           nif'.state = "Acquired" => nif.state = "Acquired" /\ \A s \in S : client[s] # "open"
    PROVE  Promise!Next
<1>1. Promise!ToldAll(S, "idle")
  BY DEF Promise!ToldAll, Notify, After
<1>2. nif'.state # "Acquired" => \A s \in Subs \ S : client[s] # "open"
  BY DEF IInv, ClientOK, Notify
<1>3. Promise!End(S)
  BY <1>1, <1>2 DEF Promise!End
<1> QED  BY <1>3 DEF Promise!Next

\* Telling the clients of S a grant makes those that asked open, which the
\* promise allows of a machine that has acquired the connection.
LEMMA ToldGrant ==
    ASSUME IInv, NEW S \in SUBSET Subs, Notify(S, "GRANTED"),
           nif'.state = "Acquired"
    PROVE  Promise!Next
<1> DEFINE G == {s \in S : client[s] = "asked"}
<1>1. Promise!ToldAll(G, "open")
  BY DEF Promise!ToldAll, Notify, After, IInv, TypeOK
<1>2. Promise!Grant(G)
  BY <1>1 DEF Promise!Grant
<1> QED  BY <1>2 DEF Promise!Next

\* Telling nobody anything leaves the clients where they were.
LEMMA ToldNobody ==
    ASSUME IInv, NEW status, Notify({}, status)
    PROVE  client' = client
BY DEF Notify, IInv, TypeOK

\* Every step of the detailed machine is a step of the promise or stutters.
LEMMA PromiseStep ==
    ASSUME IInv, IInv', [Next]_vars
    PROVE  [Promise!Next]_(Promise!vars)
<1> USE DEF Promise!vars
<1>1. CASE UNCHANGED vars
  BY <1>1 DEF vars
<1>2. CASE ProcSubscribe
  <2> DEFINE t == Head(msgQ).sub
  <2>1. t \in Subs /\ SubscribeRsrc(t)
    BY <1>2, ProcQueue, ClientMessages DEF ProcSubscribe, Msg
  <2>2. client[t] # "open"
    BY <1>2, ProcQueue, ClientMessages DEF ProcSubscribe, Msg, IInv, ClientOK, Queued
  <2>3. CASE SingleSubscriber /\ nif.subs # {}
    <3>1. Notify({t}, "DENIED") /\ nif' = nif
      BY <2>1, <2>3 DEF SubscribeRsrc
    <3> QED  BY <2>1, <2>2, <3>1, ToldEnd
  <2>4. CASE ~ (SingleSubscriber /\ nif.subs # {})
    <3> DEFINE o == OnSubscribe(nif, t)
    <3>1. nif' = o.m /\ Notify(o.told, o.status)
      BY <2>1, <2>4 DEF SubscribeRsrc, Apply
    <3>2. nif.state \in StateNames
      BY DEF IInv, TypeOK, Machine
    <3>3. CASE nif.state = "Acquired"
      <4>1. o.told = {t} /\ o.status = "GRANTED" /\ o.m.state = "Acquired"
        BY <3>3 DEF OnSubscribe, Outcome, AddSubscriber, IInv, TypeOK, Machine
      <4> QED  BY <2>1, <3>1, <4>1, ToldGrant
    <3>4. CASE nif.state # "Acquired"
      <4>1. o.told = {} /\ o.m.state # "Acquired"
        BY <3>2, <3>4 DEF OnSubscribe, Outcome, AddSubscriber, GoTo, IInv, TypeOK, Machine, StateNames
      <4>2. client' = client
        BY <3>1, <4>1, ToldNobody
      <4> QED  BY <3>1, <3>4, <4>1, <4>2
    <3> QED  BY <3>3, <3>4
  <2> QED  BY <2>3, <2>4
<1>3. CASE ProcUnsubscribe
  <2> DEFINE t == Head(msgQ).sub
  <2>1. t \in Subs /\ UnsubscribeRsrc(t)
    BY <1>3, ProcQueue, ClientMessages DEF ProcUnsubscribe, Msg
  <2>2. client[t] # "open"
    BY <1>3, ProcQueue, ClientMessages DEF ProcUnsubscribe, Msg, IInv, ClientOK, Queued
  <2>3. CASE t \notin nif.subs
    <3>1. Notify({t} \cap ModemSubs, "UNSUBSCRIBE") /\ nif' = nif
      BY <2>1, <2>3 DEF UnsubscribeRsrc
    <3> QED  BY <2>1, <2>2, <3>1, ToldEnd
  <2>4. CASE t \in nif.subs
    <3> DEFINE o == OnUnsubscribe(nif, t)
    <3>1. nif' = o.m /\ Notify(o.told, o.status)
      BY <2>1, <2>4 DEF UnsubscribeRsrc, Apply
    <3>2. /\ o.told \in SUBSET {t} /\ o.status = "UNSUBSCRIBE"
          /\ o.m.state = "Acquired" => nif.state = "Acquired"
      BY DEF OnUnsubscribe, Outcome, ToldOnLeave, Leave, Drop, GoTo, Active,
             IInv, TypeOK, Machine, StateNames
    <3> QED  BY <2>1, <2>2, <3>1, <3>2, ToldEnd
  <2> QED  BY <2>3, <2>4
<1>4. CASE ProcRsrc
  <2> DEFINE o == OnRsrcEvent(nif, Head(msgQ).event)
  <2>1. nif' = o.m /\ Notify(o.told, o.status)
    BY <1>4 DEF ProcRsrc, Apply
  <2>2. /\ nif \in Machine /\ nif.inactive \subseteq nif.subs /\ nif.subs \subseteq Subs
        /\ Head(msgQ).event \in {"GRANTED", "RELEASED", "DENIED"}
    <3>1. Head(msgQ) \in Msg /\ Head(msgQ).type = "RSRC"
      BY <1>4, ProcQueue DEF ProcRsrc
    <3>2. nif \in Machine /\ nif.inactive \subseteq nif.subs
      BY DEF IInv, TypeOK, ListOK
    <3>3. nif.subs \subseteq Subs
      BY <3>2 DEF Machine
    <3> QED  BY <3>1, <3>2, <3>3, ClientMessages DEF Msg, ClientTypes
  <2>3. \/ o.m = nif /\ o.told = {}
        \/ o.m.state = "Acquired" /\ o.told \subseteq Subs /\ o.status = "GRANTED"
        \/ o.m.state # "Acquired" /\ o.told \subseteq Subs /\ o.status # "GRANTED"
    BY <2>2, RsrcOutcome DEF Active, Inactive
  <2> HIDE DEF o
  <2>4. CASE o.m = nif /\ o.told = {}
    BY <2>1, <2>4, ToldNobody
  <2>5. CASE o.m.state = "Acquired" /\ o.told \subseteq Subs /\ o.status = "GRANTED"
    BY <2>1, <2>5, ToldGrant
  <2>6. CASE o.m.state # "Acquired" /\ o.told \subseteq Subs /\ o.status # "GRANTED"
    BY <2>1, <2>6, ToldEnd
  <2> QED  BY <2>3, <2>4, <2>5, <2>6
<1>5. ASSUME NEW s \in Subs, Ask(s) \/ GiveUp(s) PROVE Promise!Next
  <2>1. Promise!Ask(s) \/ Promise!GiveUp(s)
    BY <1>5 DEF Ask, GiveUp, Promise!Ask, Promise!GiveUp, Promise!ToldAll, IInv, TypeOK
  <2> QED  BY <2>1 DEF Promise!Next
<1>6. CASE FwRequested \/ FwReleased \/ FwOpened \/ FwOpenFailed \/ FwLost
  BY <1>6 DEF FwRequested, FwReleased, FwOpened, FwOpenFailed, FwLost
<1> QED  BY <1>1, <1>2, <1>3, <1>4, <1>5, <1>6 DEF Next

\* The machine with its queues implements the promise.
THEOREM Refinement == Spec => KeepsPromise
<1>1. Init => Promise!Init
  BY DEF Init, Promise!Init, NewMachine
<1> QED  BY <1>1, PromiseStep, Invariance, PTL DEF Spec, KeepsPromise, Promise!Spec
-----------------------------------------------------------------------------
(* The connection is not left open                                         *)

\* The constants of wifi_nif: mEnforceSingleSubscriber is set, and
\* WIFISubscriber::waitForCloseComplete is true.
OneAtATime == SingleSubscriber /\ Waiting = Subs

\* The events in r are those in q.
KeepsEvents(q, r) ==
    /\ NoEvent(q) => NoEvent(r)
    /\ \A e \in {"GRANTED", "RELEASED", "DENIED"} : OneEvent(q, e) => OneEvent(r, e)
    /\ GrantAndLoss(q) => GrantAndLoss(r)

\* A client's message at the end of the queue changes no event.
LEMMA ClientAppends ==
    ASSUME NEW q \in Seq(Msg), NEW x \in ClientMsg
    PROVE  KeepsEvents(q, Append(q, x))
<1> DEFINE p == Append(q, x)
<1>1. /\ Len(p) = Len(q) + 1 /\ Len(q) \in Nat
      /\ \A i \in 1 .. Len(q) : p[i] = q[i]
      /\ p[Len(q) + 1] = x
  BY DEF Msg
<1> HIDE DEF p
<1>2. \A i \in 1 .. Len(q) : i \in 1 .. Len(p)
  BY <1>1
<1>3. \A i \in 1 .. Len(p) : i \in 1 .. Len(q) \/ p[i] \in ClientMsg
  BY <1>1
<1>4. NoEvent(q) => NoEvent(p)
  BY <1>1, <1>3 DEF NoEvent
<1>5. \A e : OneEvent(q, e) => OneEvent(p, e)
  BY <1>1, <1>2, <1>3 DEF OneEvent
<1>6. GrantAndLoss(q) => GrantAndLoss(p)
  BY <1>1, <1>2, <1>3 DEF GrantAndLoss
<1> QED  BY <1>4, <1>5, <1>6 DEF KeepsEvents, p

\* An event at the end of the queue is the last of those in it.
LEMMA EventAppends ==
    ASSUME NEW q \in Seq(Msg), NEW e \in {"GRANTED", "RELEASED", "DENIED"}
    PROVE  /\ NoEvent(q) => OneEvent(Append(q, RsrcMsgOf(e)), e)
           /\ OneEvent(q, "GRANTED") /\ e = "RELEASED" => GrantAndLoss(Append(q, RsrcMsgOf(e)))
<1> DEFINE x == RsrcMsgOf(e)
           p == Append(q, x)
<1>0. x \in Msg
  BY ClientMessages DEF Msg
<1>1. /\ Len(p) = Len(q) + 1 /\ Len(q) \in Nat
      /\ \A i \in 1 .. Len(q) : p[i] = q[i] /\ i < Len(p)
      /\ p[Len(p)] = x
  BY <1>0
<1> HIDE DEF p
<1>2. /\ Len(p) \in 1 .. Len(p)
      /\ \A i \in 1 .. Len(q) : i \in 1 .. Len(p)
      /\ \A i \in 1 .. Len(p) : i # Len(p) => i \in 1 .. Len(q)
  BY <1>1
<1>3. NoEvent(q) => OneEvent(p, e)
  BY <1>1, <1>2 DEF NoEvent, OneEvent
<1>4. ASSUME OneEvent(q, "GRANTED"), e = "RELEASED"
      PROVE  GrantAndLoss(p)
  <2>1. PICK i \in 1 .. Len(q) :
          q[i] = RsrcMsgOf("GRANTED") /\ \A j \in 1 .. Len(q) : j # i => q[j] \in ClientMsg
    BY <1>4 DEF OneEvent
  <2>2. /\ i < Len(p) /\ p[i] = RsrcMsgOf("GRANTED") /\ p[Len(p)] = RsrcMsgOf("RELEASED")
        /\ \A k \in 1 .. Len(p) : k \notin {i, Len(p)} => p[k] \in ClientMsg
    BY <1>1, <1>2, <1>4, <2>1
  <2> QED  BY <1>2, <2>2 DEF GrantAndLoss
<1> QED  BY <1>3, <1>4 DEF p

\* What is left when the head is read.
LEMMA HeadRead ==
    ASSUME NEW q \in Seq(Msg), q # <<>>
    PROVE  /\ Head(q) \in ClientMsg => KeepsEvents(q, Tail(q))
           /\ Head(q) \in RsrcMsg =>
                /\ ~ NoEvent(q)
                /\ \A e \in {"GRANTED", "RELEASED", "DENIED"} :
                     OneEvent(q, e) => Head(q).event = e /\ NoEvent(Tail(q))
                /\ GrantAndLoss(q) => Head(q).event = "GRANTED" /\ OneEvent(Tail(q), "RELEASED")
<1> DEFINE p == Tail(q)
<1>1. /\ Len(q) \in Nat \ {0} /\ Len(p) = Len(q) - 1
      /\ \A i \in 1 .. Len(q) - 1 : p[i] = q[i + 1]
      /\ Head(q) = q[1]
  OBVIOUS
<1> HIDE DEF p
<1>2. /\ \A i \in 1 .. Len(p) : p[i] = q[i + 1] /\ i + 1 \in 1 .. Len(q) /\ i + 1 # 1
      /\ \A i \in 1 .. Len(q) : i # 1 => i - 1 \in 1 .. Len(p) /\ p[i - 1] = q[i]
      /\ 1 \in 1 .. Len(q)
  BY <1>1
<1>3. \A e \in {"GRANTED", "RELEASED", "DENIED"} :
        RsrcMsgOf(e) \notin ClientMsg /\ RsrcMsgOf(e).event = e
  BY ClientMessages DEF RsrcMsgOf
<1>4. NoEvent(q) => NoEvent(p) /\ Head(q) \in ClientMsg
  BY <1>1, <1>2 DEF NoEvent
<1>5. ASSUME NEW e \in {"GRANTED", "RELEASED", "DENIED"}, OneEvent(q, e)
      PROVE  /\ Head(q) \in ClientMsg => OneEvent(p, e)
             /\ Head(q) \notin ClientMsg => Head(q).event = e /\ NoEvent(p)
  <2>1. PICK i \in 1 .. Len(q) :
          q[i] = RsrcMsgOf(e) /\ \A j \in 1 .. Len(q) : j # i => q[j] \in ClientMsg
    BY <1>5 DEF OneEvent
  <2>2. CASE i = 1
    <3>1. \A j \in 1 .. Len(p) : p[j] \in ClientMsg
      BY <1>2, <2>1, <2>2
    <3> QED  BY <1>1, <1>3, <2>1, <2>2, <3>1 DEF NoEvent
  <2>3. CASE i # 1
    <3>1. i - 1 \in 1 .. Len(p) /\ p[i - 1] = RsrcMsgOf(e)
      BY <1>2, <2>1, <2>3
    <3>2. \A j \in 1 .. Len(p) : j # i - 1 => p[j] \in ClientMsg
      BY <1>1, <1>2, <2>1
    <3>3. Head(q) \in ClientMsg
      BY <1>1, <1>2, <2>1, <2>3
    <3> QED  BY <3>1, <3>2, <3>3 DEF OneEvent
  <2> QED  BY <2>2, <2>3
<1>6. ASSUME GrantAndLoss(q)
      PROVE  /\ Head(q) \in ClientMsg => GrantAndLoss(p)
             /\ Head(q) \notin ClientMsg => Head(q).event = "GRANTED" /\ OneEvent(p, "RELEASED")
  <2>1. PICK i \in 1 .. Len(q), j \in 1 .. Len(q) :
          /\ i < j /\ q[i] = RsrcMsgOf("GRANTED") /\ q[j] = RsrcMsgOf("RELEASED")
          /\ \A k \in 1 .. Len(q) : k \notin {i, j} => q[k] \in ClientMsg
    BY <1>6 DEF GrantAndLoss
  <2>2. /\ j # 1 /\ j - 1 \in 1 .. Len(p) /\ p[j - 1] = RsrcMsgOf("RELEASED")
    BY <1>2, <2>1
  <2>3. CASE i = 1
    <3>1. \A k \in 1 .. Len(p) : k # j - 1 => p[k] \in ClientMsg
      BY <1>1, <1>2, <2>1, <2>3
    <3> QED  BY <1>1, <1>3, <2>1, <2>2, <2>3, <3>1 DEF OneEvent
  <2>4. CASE i # 1
    <3>1. i - 1 \in 1 .. Len(p) /\ p[i - 1] = RsrcMsgOf("GRANTED") /\ i - 1 < j - 1
      BY <1>2, <2>1, <2>4
    <3>2. \A k \in 1 .. Len(p) : k \notin {i - 1, j - 1} => p[k] \in ClientMsg
      BY <1>1, <1>2, <2>1
    <3>3. Head(q) \in ClientMsg
      BY <1>1, <1>2, <2>1, <2>2, <2>4
    <3> QED  BY <2>2, <3>1, <3>2, <3>3 DEF GrantAndLoss
  <2> QED  BY <2>3, <2>4
<1>7. Head(q) \in RsrcMsg => Head(q) \notin ClientMsg
  BY ClientMessages
<1> QED  BY <1>4, <1>5, <1>6, <1>7 DEF KeepsEvents, p

\* Nothing about the connection changes while only clients' messages come
\* and go.
LEMMA ServiceKept ==
    ASSUME IInv, Service, KeepsEvents(msgQ, msgQ'), nif'.state = nif.state,
           fwQ' = fwQ, conn' = conn
    PROVE  Service'
<1> HIDE DEF NoEvent, OneEvent, GrantAndLoss
<1>1. nif.state \in StateNames
  BY DEF IInv, TypeOK, Machine
<1>2. CASE nif.state = "Released"
  BY <1>2 DEF Service, KeepsEvents
<1>3. CASE nif.state = "Pending"
  BY <1>3 DEF Service, KeepsEvents
<1>4. CASE nif.state = "Acquired"
  BY <1>4 DEF Service, KeepsEvents
<1>5. CASE nif.state = "Releasing"
  BY <1>5 DEF Service, KeepsEvents
<1> QED  BY <1>1, <1>2, <1>3, <1>4, <1>5 DEF StateNames

\* What the single subscriber is, in each state.
LEMMA TheOne ==
    ASSUME IInv, Alone
    PROVE  /\ nif.state = "Released" => nif.subs = {} /\ nif.inactive = {}
           /\ nif.state \in {"Pending", "Acquired"} => nif.subs # {} /\ nif.inactive = {}
           /\ nif.state = "Releasing" => nif.subs # {} /\ nif.inactive = nif.subs
           /\ nif \in Machine /\ nif.state \in StateNames
BY DEF IInv, TypeOK, Machine, StateMatchesList, ListOK, Alone, Active, Inactive

Calls == {"REQUEST", "RELEASE"}

\* A second and a third call to the service.
LEMMA SecondCall ==
    ASSUME NEW a \in Calls, NEW b \in Calls
    PROVE  Append(<<a>>, b) = <<a, b>>
<1> DEFINE p == Append(<<a>>, b)
           r == <<a, b>>
<1>1. <<a>> \in Seq(Calls) /\ Len(<<a>>) = 1 /\ <<a>>[1] = a
  OBVIOUS
<1>2. p \in Seq(Calls) /\ Len(p) = 2 /\ p[1] = a /\ p[2] = b
  BY <1>1
<1>3. r \in Seq(Calls) /\ Len(r) = 2 /\ r[1] = a /\ r[2] = b
  OBVIOUS
<1> HIDE DEF p, r
<1>4. \A i \in 1 .. 2 : p[i] = r[i]
  BY <1>2, <1>3
<1>5. p = r
  BY <1>2, <1>3, <1>4, SeqEqual
<1> QED  BY <1>5 DEF p, r

LEMMA ThirdCall ==
    ASSUME NEW a \in Calls, NEW b \in Calls, NEW c \in Calls
    PROVE  Append(<<a, b>>, c) = <<a, b, c>>
<1> DEFINE p == Append(<<a, b>>, c)
           r == <<a, b, c>>
<1>1. <<a, b>> \in Seq(Calls) /\ Len(<<a, b>>) = 2 /\ <<a, b>>[1] = a /\ <<a, b>>[2] = b
  OBVIOUS
<1>2. p \in Seq(Calls) /\ Len(p) = 3 /\ p[1] = a /\ p[2] = b /\ p[3] = c
  BY <1>1
<1>3. r \in Seq(Calls) /\ Len(r) = 3 /\ r[1] = a /\ r[2] = b /\ r[3] = c
  OBVIOUS
<1> HIDE DEF p, r
<1>4. \A i \in 1 .. 3 : p[i] = r[i]
  BY <1>2, <1>3
<1>5. p = r
  BY <1>2, <1>3, <1>4, SeqEqual
<1> QED  BY <1>5 DEF p, r

LEMMA SubscribeService ==
    ASSUME IInv, Alone, Service, OneAtATime, ProcSubscribe
    PROVE  Alone' /\ Service'
<1> DEFINE t == Head(msgQ).sub
<1>1. /\ SubscribeRsrc(t) /\ conn' = conn /\ t \in Subs
      /\ KeepsEvents(msgQ, msgQ')
  BY ProcQueue, HeadRead, ClientMessages DEF ProcSubscribe, Proc, IInv, TypeOK, Msg
<1> HIDE DEF t
<1>2. CASE nif.subs # {}
  BY <1>1, <1>2, ServiceKept DEF SubscribeRsrc, OneAtATime, Alone
<1>3. CASE nif.subs = {}
  <2>1. nif.state = "Released" /\ nif.inactive = {} /\ nif \in Machine
    BY <1>3, TheOne DEF StateNames
  <2>0. ASSUME NEW m, m = GoTo(AddSubscriber(nif, t), "Pending")
        PROVE  m.state = "Pending" /\ m.subs = {t} /\ m.inactive = {}
    BY <1>3, <2>0, <2>1 DEF AddSubscriber, GoTo, Machine
  <2> DEFINE m == GoTo(AddSubscriber(nif, t), "Pending")
  <2>a. OnSubscribe(nif, t) = Outcome(m, {}, "GRANTED", "REQUEST")
    BY <2>1 DEF OnSubscribe
  <2>b. m.state = "Pending" /\ m.subs = {t} /\ m.inactive = {}
    BY <2>0
  <2> HIDE DEF m
  <2>c. nif' = m /\ SendRsrcRequest(m, "REQUEST")
    BY <1>1, <1>3, <2>a DEF SubscribeRsrc, Apply, Outcome
  <2>2. nif'.state = "Pending" /\ nif'.subs = {t} /\ nif'.inactive = {}
    BY <2>b, <2>c
  <2>3. fwQ' = Append(fwQ, "REQUEST")
    BY <2>b, <2>c DEF SendRsrcRequest, Active
  <2>4. conn = "closed" /\ NoEvent(msgQ) /\ fwQ \in {<<>>, <<"RELEASE">>}
    BY <2>1 DEF Service
  <2>5. fwQ' \in {<<"REQUEST">>, <<"RELEASE", "REQUEST">>}
    <3>1. Append(<<"RELEASE">>, "REQUEST") = <<"RELEASE", "REQUEST">>
      BY SecondCall DEF Calls
    <3>2. Append(<<>>, "REQUEST") = <<"REQUEST">>
      OBVIOUS
    <3> QED  BY <2>3, <2>4, <3>1, <3>2
  <2>6. Service'
    BY <1>1, <2>2, <2>4, <2>5 DEF Service, KeepsEvents
  <2> QED  BY <2>2, <2>6 DEF Alone
<1> QED  BY <1>2, <1>3

LEMMA UnsubscribeService ==
    ASSUME IInv, Alone, Service, OneAtATime, ProcUnsubscribe
    PROVE  Alone' /\ Service'
<1> DEFINE t == Head(msgQ).sub
<1>1. /\ UnsubscribeRsrc(t) /\ conn' = conn /\ t \in Subs
      /\ KeepsEvents(msgQ, msgQ')
  BY ProcQueue, HeadRead, ClientMessages DEF ProcUnsubscribe, Proc, IInv, TypeOK, Msg
<1> HIDE DEF t
<1>2. CASE t \notin nif.subs
  BY <1>1, <1>2, ServiceKept DEF UnsubscribeRsrc, Alone
<1>3. CASE t \in nif.subs
  <2>1. nif.subs = {t} /\ nif.state # "Released" /\ nif \in Machine
    BY <1>3, TheOne DEF Alone
  <2>2. Apply(OnUnsubscribe(nif, t))
    BY <1>1, <1>3 DEF UnsubscribeRsrc
  <2> DEFINE left == Leave(nif, t)
  <2>3. /\ left.subs = {t} /\ Active(left) = {} /\ left.state = nif.state
        /\ GoTo(left, "Releasing").state = "Releasing" /\ GoTo(left, "Releasing").subs = {t}
        /\ Active(GoTo(left, "Releasing")) = {}
    BY <1>1, <2>1 DEF Leave, OneAtATime, Machine, Active, GoTo
  <2> HIDE DEF left
  <2>4. LET o == OnUnsubscribe(nif, t) IN
          /\ o.m = GoTo(left, "Releasing")
          /\ o.ask = IF nif.state = "Releasing" THEN "none" ELSE "RELEASE"
    BY <2>1, <2>3 DEF OnUnsubscribe, Outcome, left
  <2>5. /\ nif'.state = "Releasing" /\ nif'.subs = {t}
        /\ fwQ' = IF nif.state = "Releasing" THEN fwQ ELSE Append(fwQ, "RELEASE")
    BY <2>2, <2>3, <2>4 DEF Apply, SendRsrcRequest
  <2>6. CASE nif.state = "Releasing"
    BY <1>1, <2>1, <2>5, <2>6, ServiceKept DEF Alone
  <2>7. CASE nif.state = "Acquired"
    <3>1. fwQ' = <<"RELEASE">>
      BY <2>5, <2>7 DEF Service
    <3> QED  BY <1>1, <2>5, <2>7, <3>1 DEF Service, KeepsEvents, Alone
  <2>8. CASE nif.state = "Pending"
    <3>1. CASE conn = "closed" /\ NoEvent(msgQ) /\ fwQ \in {<<"REQUEST">>, <<"RELEASE", "REQUEST">>}
      <4>1. fwQ' \in {<<"REQUEST", "RELEASE">>, <<"RELEASE", "REQUEST", "RELEASE">>}
        <5>1. /\ Append(<<"REQUEST">>, "RELEASE") = <<"REQUEST", "RELEASE">>
              /\ Append(<<"RELEASE", "REQUEST">>, "RELEASE") = <<"RELEASE", "REQUEST", "RELEASE">>
          BY SecondCall, ThirdCall DEF Calls
        <5> QED  BY <2>5, <2>8, <3>1, <5>1
      <4> QED  BY <1>1, <2>5, <3>1, <4>1 DEF Service, KeepsEvents, Alone
    <3>2. CASE /\ fwQ = <<>>
               /\ \/ conn = "opening" /\ NoEvent(msgQ)
                  \/ conn = "open" /\ OneEvent(msgQ, "GRANTED")
                  \/ conn = "closed" /\ (OneEvent(msgQ, "DENIED") \/ GrantAndLoss(msgQ))
      <4>1. fwQ' = <<"RELEASE">>
        BY <2>5, <2>8, <3>2
      <4> QED  BY <1>1, <2>5, <3>2, <4>1 DEF Service, KeepsEvents, Alone
    <3> QED  BY <2>8, <3>1, <3>2 DEF Service
  <2> QED  BY <2>1, <2>6, <2>7, <2>8, TheOne DEF StateNames
<1> QED  BY <1>2, <1>3
LEMMA EventService ==
    ASSUME IInv, Alone, Service, ProcRsrc
    PROVE  Alone' /\ Service'
<1> DEFINE event == Head(msgQ).event
           o == OnRsrcEvent(nif, event)
<1>1. /\ Apply(o) /\ conn' = conn /\ msgQ' = Tail(msgQ) /\ msgQ # <<>>
      /\ msgQ \in Seq(Msg) /\ Head(msgQ) \in RsrcMsg
      /\ event \in {"GRANTED", "RELEASED", "DENIED"}
  BY ProcQueue, ClientMessages DEF ProcRsrc, Proc, IInv, TypeOK, Msg, ClientTypes
<1>2. /\ ~ NoEvent(msgQ)
      /\ \A e \in {"GRANTED", "RELEASED", "DENIED"} :
           OneEvent(msgQ, e) => event = e /\ NoEvent(msgQ')
      /\ GrantAndLoss(msgQ) => event = "GRANTED" /\ OneEvent(msgQ', "RELEASED")
  BY <1>1, HeadRead
<1>3. nif' = o.m /\ SendRsrcRequest(o.m, o.ask)
  BY <1>1 DEF Apply
<1> HIDE DEF event
<1>4. /\ nif \in Machine /\ nif.state \in StateNames
      /\ nif.state = "Releasing" => nif.inactive = nif.subs
      /\ nif.state \in {"Pending", "Acquired"} => nif.inactive = {}
  BY TheOne
<1>5. ASSUME NEW st \in StateNames, NEW S, o = Outcome(GoTo(Drop(nif, S), st), o.told, o.status, "none")
      PROVE  nif'.state = st /\ nif'.subs = nif.subs \ S /\ fwQ' = fwQ
  <2>1. o.m.state = st /\ o.m.subs = nif.subs \ S /\ o.ask = "none"
    <3>1. GoTo(Drop(nif, S), st).state = st /\ GoTo(Drop(nif, S), st).subs = nif.subs \ S
      BY <1>4 DEF GoTo, Drop, Machine
    <3> QED  BY <1>5, <3>1 DEF Outcome
  <2> QED  BY <1>3, <2>1 DEF SendRsrcRequest
<1>6. CASE nif.state = "Released"
  BY <1>2, <1>6 DEF Service
<1>7. CASE nif.state = "Acquired"
  <2>1. fwQ = <<>> /\ conn = "closed" /\ event = "RELEASED" /\ NoEvent(msgQ')
    BY <1>2, <1>7 DEF Service
  <2>2. o = Outcome(GoTo(Drop(nif, nif.subs), "Released"), o.told, o.status, "none")
    BY <1>7, <2>1 DEF OnRsrcEvent, OnReleased, Outcome
  <2>3. nif'.state = "Released" /\ nif'.subs = {} /\ fwQ' = fwQ
    BY <1>5, <2>2 DEF StateNames
  <2> QED  BY <1>1, <2>1, <2>3 DEF Service, Alone
<1>8. CASE nif.state = "Pending"
  <2>1. /\ fwQ = <<>>
        /\ \/ conn = "open" /\ event = "GRANTED" /\ NoEvent(msgQ')
           \/ conn = "closed" /\ event = "DENIED" /\ NoEvent(msgQ')
           \/ conn = "closed" /\ event = "GRANTED" /\ OneEvent(msgQ', "RELEASED")
    BY <1>2, <1>8 DEF Service
  <2>2. CASE event = "GRANTED"
    <3>1. o.m = GoTo(nif, "Acquired") /\ o.ask = "none"
      BY <1>8, <2>2 DEF OnRsrcEvent, OnGranted, Outcome
    <3>2. nif'.state = "Acquired" /\ nif'.subs = nif.subs /\ fwQ' = fwQ
      BY <1>3, <1>4, <3>1 DEF GoTo, Machine, SendRsrcRequest
    <3> QED  BY <1>1, <2>1, <2>2, <3>2 DEF Service, Alone
  <2>3. CASE event = "DENIED"
    <3>1. o = Outcome(GoTo(Drop(nif, nif.subs), "Released"), o.told, o.status, "none")
      BY <1>8, <2>3 DEF OnRsrcEvent, OnDenied, Outcome
    <3>2. nif'.state = "Released" /\ nif'.subs = {} /\ fwQ' = fwQ
      BY <1>5, <3>1 DEF StateNames
    <3> QED  BY <1>1, <2>1, <2>3, <3>2 DEF Service, Alone
  <2> QED  BY <2>1, <2>2, <2>3
<1>9. CASE nif.state = "Releasing"
  <2>1. CASE event = "GRANTED"
    <3>1. o.m = nif /\ o.ask = "none"
      BY <1>9, <2>1 DEF OnRsrcEvent, OnGranted, Outcome, Ignored
    <3>2. nif' = nif /\ fwQ' = fwQ
      BY <1>3, <3>1 DEF SendRsrcRequest
    <3> QED  BY <1>1, <1>2, <1>9, <2>1, <3>2 DEF Service, Alone
  <2>2. CASE event # "GRANTED"
    <3>1. Active(nif) = {} /\ Inactive(nif) = nif.subs
      BY <1>4, <1>9 DEF Active, Inactive
    <3>2. o = Outcome(GoTo(Drop(nif, nif.subs), "Released"), o.told, o.status, "none")
      BY <1>1, <1>9, <2>2, <3>1 DEF OnRsrcEvent, OnReleased, OnDenied, CloseCompleted, Outcome
    <3>3. nif'.state = "Released" /\ nif'.subs = {} /\ fwQ' = fwQ
      BY <1>5, <3>2 DEF StateNames
    <3>4. fwQ \in {<<>>, <<"RELEASE">>} /\ conn = "closed" /\ NoEvent(msgQ')
      BY <1>2, <1>9, <2>2 DEF Service
    <3> QED  BY <1>1, <3>3, <3>4 DEF Service, Alone
  <2> QED  BY <2>1, <2>2
<1> QED  BY <1>4, <1>6, <1>7, <1>8, <1>9 DEF StateNames

\* A client only sends a message.
LEMMA ClientService ==
    ASSUME IInv, Alone, Service, NEW s \in Subs, Ask(s) \/ GiveUp(s)
    PROVE  Alone' /\ Service'
<1>1. /\ nif' = nif /\ fwQ' = fwQ /\ conn' = conn /\ msgQ \in Seq(Msg)
      /\ \E x \in ClientMsg : msgQ' = Append(msgQ, x)
  BY ClientMessages DEF Ask, GiveUp, Send, IInv, TypeOK, ClientTypes
<1>2. KeepsEvents(msgQ, msgQ')
  BY <1>1, ClientAppends
<1> QED  BY <1>1, <1>2, ServiceKept DEF Alone

\* The calls that are left when the first is taken.
LEMMA FirstCall ==
    /\ \A a \in Calls : Head(<<a>>) = a /\ Tail(<<a>>) = <<>>
    /\ \A a, b \in Calls : Head(<<a, b>>) = a /\ Tail(<<a, b>>) = <<b>>
    /\ \A a, b, c \in Calls : Head(<<a, b, c>>) = a /\ Tail(<<a, b, c>>) = <<b, c>>
OBVIOUS
\* The service takes a call, or says what became of the connection.
LEMMA ServiceService ==
    ASSUME IInv, Alone, Service,
           FwRequested \/ FwReleased \/ FwOpened \/ FwOpenFailed \/ FwLost
    PROVE  Alone' /\ Service'
<1>1. /\ nif' = nif /\ nif.state \in StateNames
      /\ msgQ \in Seq(Msg)
  BY TheOne DEF FwRequested, FwReleased, FwOpened, FwOpenFailed, FwLost, IInv, TypeOK
<1>2. /\ \A e \in {"GRANTED", "RELEASED", "DENIED"} :
           NoEvent(msgQ) => OneEvent(Append(msgQ, RsrcMsgOf(e)), e)
      /\ OneEvent(msgQ, "GRANTED") => GrantAndLoss(Append(msgQ, RsrcMsgOf("RELEASED")))
  BY <1>1, EventAppends
<1>3. /\ fwQ = <<"REQUEST">> => Head(fwQ) = "REQUEST" /\ Tail(fwQ) = <<>>
      /\ fwQ = <<"RELEASE">> => Head(fwQ) = "RELEASE" /\ Tail(fwQ) = <<>>
      /\ fwQ = <<"RELEASE", "REQUEST">> => Head(fwQ) = "RELEASE" /\ Tail(fwQ) = <<"REQUEST">>
      /\ fwQ = <<"REQUEST", "RELEASE">> => Head(fwQ) = "REQUEST" /\ Tail(fwQ) = <<"RELEASE">>
      /\ fwQ = <<"RELEASE", "REQUEST", "RELEASE">> =>
           Head(fwQ) = "RELEASE" /\ Tail(fwQ) = <<"REQUEST", "RELEASE">>
  BY FirstCall DEF Calls
<1>4. CASE FwRequested
  <2>1. /\ fwQ # <<>> /\ Head(fwQ) = "REQUEST" /\ fwQ' = Tail(fwQ)
        /\ conn' = "opening" /\ msgQ' = msgQ
    BY <1>4 DEF FwRequested
  <2>2. \/ /\ nif.state = "Pending" /\ NoEvent(msgQ) /\ fwQ' = <<>>
        \/ /\ nif.state = "Releasing" /\ NoEvent(msgQ) /\ fwQ' = <<"RELEASE">>
    BY <1>1, <1>3, <2>1 DEF Service, StateNames
  <2> QED  BY <1>1, <2>1, <2>2 DEF Service, Alone
<1>5. CASE FwReleased
  <2>1. /\ fwQ # <<>> /\ Head(fwQ) = "RELEASE" /\ fwQ' = Tail(fwQ)
        /\ conn' = "closed"
        /\ msgQ' = IF conn = "closed" THEN msgQ ELSE Append(msgQ, RsrcMsgOf("RELEASED"))
    BY <1>5 DEF FwReleased, Send
  <2>2. CASE conn = "closed"
    BY <1>1, <1>3, <2>1, <2>2 DEF Service, StateNames, Alone
  <2>3. CASE conn # "closed"
    <3>1. /\ nif.state = "Releasing" /\ fwQ = <<"RELEASE">>
          /\ NoEvent(msgQ) \/ OneEvent(msgQ, "GRANTED")
      BY <1>1, <1>3, <2>1, <2>3 DEF Service, StateNames
    <3>2. OneEvent(msgQ', "RELEASED") \/ GrantAndLoss(msgQ')
      BY <1>2, <2>1, <2>3, <3>1
    <3> QED  BY <1>1, <1>3, <2>1, <3>1, <3>2 DEF Service, Alone
  <2> QED  BY <2>2, <2>3
<1>6. CASE FwOpened \/ FwOpenFailed
  <2>1. /\ conn = "opening" /\ fwQ' = fwQ
        /\ \/ conn' = "open" /\ msgQ' = Append(msgQ, RsrcMsgOf("GRANTED"))
           \/ conn' = "closed" /\ msgQ' = Append(msgQ, RsrcMsgOf("DENIED"))
    BY <1>6 DEF FwOpened, FwOpenFailed, Send
  <2>2. /\ NoEvent(msgQ)
        /\ \/ nif.state = "Pending" /\ fwQ = <<>>
           \/ nif.state = "Releasing" /\ fwQ = <<"RELEASE">>
    BY <1>1, <2>1 DEF Service, StateNames
  <2>3. \/ conn' = "open" /\ OneEvent(msgQ', "GRANTED")
        \/ conn' = "closed" /\ OneEvent(msgQ', "DENIED")
    BY <1>2, <2>1, <2>2
  <2> QED  BY <1>1, <2>1, <2>2, <2>3 DEF Service, Alone
<1>7. CASE FwLost
  <2>1. /\ conn = "open" /\ conn' = "closed" /\ fwQ' = fwQ
        /\ msgQ' = Append(msgQ, RsrcMsgOf("RELEASED"))
    BY <1>7 DEF FwLost, Send
  <2>2. /\ NoEvent(msgQ) => OneEvent(msgQ', "RELEASED")
        /\ OneEvent(msgQ, "GRANTED") => GrantAndLoss(msgQ')
    BY <1>2, <2>1
  <2> QED  BY <1>1, <2>1, <2>2 DEF Service, StateNames, Alone
<1> QED  BY <1>4, <1>5, <1>6, <1>7

\* One client at a time that waits for the close: once everything is said
\* and done, the service holds a connection open only for a machine that
\* has acquired it, whatever losses, refusals and releases crossed.
THEOREM NothingLeftOpen == ASSUME OneAtATime PROVE Spec => []NoLeak
<1>1. Init => Alone /\ Service
  BY DEF Init, NewMachine, Alone, Service, NoEvent
<1>2. IInv /\ (Alone /\ Service) /\ [Next]_vars => (Alone /\ Service)'
  <2> SUFFICES ASSUME IInv, Alone, Service, [Next]_vars PROVE Alone' /\ Service'
    OBVIOUS
  <2>1. CASE UNCHANGED vars
    <3>1. KeepsEvents(msgQ, msgQ')
      BY <2>1 DEF vars, KeepsEvents
    <3> QED  BY <2>1, <3>1, ServiceKept DEF vars, Alone
  <2>2. CASE Next
    BY <2>2, SubscribeService, UnsubscribeService, EventService, ClientService, ServiceService
       DEF Next
  <2> QED  BY <2>1, <2>2
<1>3. IInv /\ Alone /\ Service => NoLeak
  <2> SUFFICES ASSUME IInv, Service, Quiet, conn = "open" PROVE nif.state = "Acquired"
    BY DEF NoLeak
  <2>1. nif.state \in StateNames /\ fwQ = <<>> /\ ~ OneEvent(msgQ, "GRANTED")
    BY DEF IInv, TypeOK, Machine, Quiet, OneEvent
  <2>2. conn = "open"
    OBVIOUS
  <2>3. CASE nif.state = "Released"
    BY <2>2, <2>3 DEF Service
  <2>4. CASE nif.state = "Pending"
    BY <2>1, <2>2, <2>4 DEF Service
  <2>5. CASE nif.state = "Releasing"
    <3>1. fwQ = <<"RELEASE">>
      BY <2>2, <2>5 DEF Service
    <3>2. <<"RELEASE">> # <<>>
      OBVIOUS
    <3> QED  BY <2>1, <3>1, <3>2
  <2> QED  BY <2>1, <2>3, <2>4, <2>5 DEF StateNames
<1> QED  BY <1>1, <1>2, <1>3, Invariance, PTL DEF Spec

-----------------------------------------------------------------------------
(* Restarts of the modem                                                   *)

RestartMsg == Msg \cup {EngineUp}

(* The queue                                                               *)

\* The messages of clients, of the service and of a restart are different.
LEMMA RestartMessages ==
    /\ EngineUp.type = "ENGINE_UP" /\ EngineUp \notin Msg
    /\ \A m \in RestartMsg : m.type = "ENGINE_UP" => m = EngineUp
    /\ \A m \in RestartMsg : m.type \in ClientTypes =>
          m \in ClientMsg /\ m.sub \in Subs /\ m = ClientMsgOf(m.type, m.sub)
    /\ \A m \in RestartMsg : m.type = "RSRC" => m.event \in {"GRANTED", "RELEASED", "DENIED"}
    /\ \A e \in {"GRANTED", "RELEASED", "DENIED"} :
          RsrcMsgOf(e) \in Msg /\ RsrcMsgOf(e) \notin ClientMsg
    /\ \A m \in ClientMsg : m # EngineUp
<1>1. EngineUp.type = "ENGINE_UP"
  BY DEF EngineUp
<1>2. \A m \in Msg : m.type # "ENGINE_UP"
  BY ClientMessages DEF Msg, ClientTypes
<1>3. \A m \in Msg : m.type \in ClientTypes => m \in ClientMsg
  BY ClientMessages DEF Msg, ClientTypes
<1>4. \A m \in Msg : m.type = "RSRC" => m \in RsrcMsg
  BY ClientMessages DEF Msg, ClientTypes
<1>5. EngineUp.type \notin ClientTypes /\ EngineUp.type # "RSRC"
  BY <1>1 DEF ClientTypes
<1> QED  BY <1>1, <1>2, <1>3, <1>4, <1>5, ClientMessages DEF RestartMsg, Msg

\* A message of the modem is a request or a release of one of its clients.
LEMMA ModemMessages ==
    /\ \A s \in ModemSubs, t \in ClientTypes : ClientMsgOf(t, s) \in ModemMsgs
    /\ \A s \in Subs, t \in ClientTypes :
          ClientMsgOf(t, s) \in ModemMsgs => s \in ModemSubs
    /\ \A s, r \in Subs : SubscribeMsg(s) = SubscribeMsg(r) => s = r
    /\ \A s, r \in Subs : SubscribeMsg(s) # ClientMsgOf("UNSUBSCRIBE", r)
BY ModemAssumption, ClientMessages DEF ModemMsgs, SubscribeMsg, ClientTypes

\* What is left of the queue when its head is taken.
LEMMA TakenQueue ==
    ASSUME NEW q \in Seq(RestartMsg), QueueOK(q), q # <<>>
    PROVE  /\ Head(q) \in RestartMsg /\ Tail(q) \in Seq(RestartMsg)
           /\ Contains(q, Head(q))
           /\ QueueOK(Tail(q))
           /\ \A m : Contains(Tail(q), m) => Contains(q, m)
           /\ \A m : Contains(q, m) /\ m # Head(q) => Contains(Tail(q), m)
           /\ Head(q) = EngineUp =>
                /\ ~ Contains(Tail(q), EngineUp)
                /\ \A m \in ModemMsgs : ~ Contains(Tail(q), m)
           /\ \A s \in ModemSubs :
                Head(q) \in {SubscribeMsg(s), ClientMsgOf("UNSUBSCRIBE", s)} =>
                  ~ Contains(Tail(q), SubscribeMsg(s))
<1> DEFINE p == Tail(q)
<1>1. /\ Len(q) \in Nat \ {0} /\ Len(p) = Len(q) - 1
      /\ \A i \in 1 .. Len(q) - 1 : p[i] = q[i + 1]
      /\ Head(q) = q[1] /\ Head(q) \in RestartMsg /\ p \in Seq(RestartMsg)
  OBVIOUS
<1> HIDE DEF p
<1>2. \A i \in 1 .. Len(p) : i + 1 \in 1 .. Len(q) /\ p[i] = q[i + 1] /\ 1 < i + 1
  BY <1>1
<1>3. 1 \in 1 .. Len(q)
  BY <1>1
<1>4. Contains(q, Head(q))
  BY <1>1, <1>3 DEF Contains
<1>5. QueueOK(p)
  <2>1. SUFFICES ASSUME NEW i \in 1 .. Len(p), NEW j \in 1 .. Len(p), i < j
                 PROVE  /\ p[i] = EngineUp => p[j] # EngineUp /\ p[j] \notin ModemMsgs
                        /\ \A s \in ModemSubs : p[j] = SubscribeMsg(s) =>
                             p[i] # SubscribeMsg(s) /\ p[i] # ClientMsgOf("UNSUBSCRIBE", s)
    BY DEF QueueOK
  <2>2. i + 1 < j + 1
    BY <1>1, <2>1
  <2> QED  BY <1>2, <2>2 DEF QueueOK
<1>6. \A m : Contains(p, m) => Contains(q, m)
  BY <1>2 DEF Contains
<1>7. ASSUME NEW m, Contains(q, m), m # Head(q) PROVE Contains(p, m)
  <2>1. PICK i \in 1 .. Len(q) : q[i] = m
    BY <1>7 DEF Contains
  <2>2. i - 1 \in 1 .. Len(p) /\ p[i - 1] = m
    BY <1>1, <1>7, <2>1
  <2> QED  BY <2>2 DEF Contains
<1>8. ASSUME Head(q) = EngineUp
      PROVE  ~ Contains(p, EngineUp) /\ \A m \in ModemMsgs : ~ Contains(p, m)
  BY <1>1, <1>2, <1>3, <1>8 DEF Contains, QueueOK
<1>9. ASSUME NEW s \in ModemSubs,
             Head(q) \in {SubscribeMsg(s), ClientMsgOf("UNSUBSCRIBE", s)}
      PROVE  ~ Contains(p, SubscribeMsg(s))
  BY <1>1, <1>2, <1>3, <1>9 DEF Contains, QueueOK
<1> QED  BY <1>1, <1>4, <1>5, <1>6, <1>7, <1>8, <1>9 DEF p

\* A message is added behind a restart only when it is not the modem's, and
\* a subscription of the modem only when no message of its client is there.
LEMMA AddedToQueue ==
    ASSUME NEW q \in Seq(RestartMsg), QueueOK(q), NEW m \in RestartMsg,
           Contains(q, EngineUp) => m # EngineUp /\ m \notin ModemMsgs,
           \A s \in ModemSubs : m = SubscribeMsg(s) =>
              ~ Contains(q, m) /\ ~ Contains(q, ClientMsgOf("UNSUBSCRIBE", s))
    PROVE  /\ Append(q, m) \in Seq(RestartMsg)
           /\ QueueOK(Append(q, m))
           /\ \A n : Contains(Append(q, m), n) <=> Contains(q, n) \/ n = m
<1> DEFINE p == Append(q, m)
<1>1. /\ Len(q) \in Nat /\ Len(p) = Len(q) + 1
      /\ \A i \in 1 .. Len(q) : p[i] = q[i]
      /\ p[Len(q) + 1] = m /\ p \in Seq(RestartMsg)
  OBVIOUS
<1> HIDE DEF p
<1>2. \A i \in 1 .. Len(q) : Contains(q, q[i])
  BY DEF Contains
<1>3. ASSUME NEW i \in 1 .. Len(p), NEW j \in 1 .. Len(p), i < j
      PROVE  /\ p[i] = EngineUp => p[j] # EngineUp /\ p[j] \notin ModemMsgs
             /\ \A s \in ModemSubs : p[j] = SubscribeMsg(s) =>
                  p[i] # SubscribeMsg(s) /\ p[i] # ClientMsgOf("UNSUBSCRIBE", s)
  <2>1. i \in 1 .. Len(q) /\ p[i] = q[i]
    BY <1>1, <1>3
  <2>2. CASE j \in 1 .. Len(q)
    BY <1>1, <1>3, <2>1, <2>2 DEF QueueOK
  <2>3. CASE j = Len(q) + 1
    BY <1>1, <1>2, <2>1, <2>3
  <2> QED  BY <1>1, <2>2, <2>3
<1>4. QueueOK(p)
  BY <1>3 DEF QueueOK
<1>5. \A n : Contains(p, n) <=> Contains(q, n) \/ n = m
  <2>1. \A n : Contains(p, n) => Contains(q, n) \/ n = m
    <3>1. \A i \in 1 .. Len(p) : i \in 1 .. Len(q) \/ i = Len(q) + 1
      BY <1>1
    <3> QED  BY <1>1, <3>1 DEF Contains
  <2>2. \A n : Contains(q, n) => Contains(p, n)
    <3>1. \A i \in 1 .. Len(q) : i \in 1 .. Len(p)
      BY <1>1
    <3> QED  BY <1>1, <3>1 DEF Contains
  <2>3. Contains(p, m)
    <3>1. Len(q) + 1 \in 1 .. Len(p)
      BY <1>1
    <3> QED  BY <1>1, <3>1 DEF Contains
  <2> QED  BY <2>1, <2>2, <2>3
<1> QED  BY <1>1, <1>4, <1>5 DEF p

-----------------------------------------------------------------------------
(* The steps of the message thread                                         *)

\* A notification closes connections, opens those asked for, and leaves the
\* clients alone that the modem does not know.
LEMMA Notified ==
    ASSUME client \in [Subs -> {"idle", "asked", "open", "leaving"}], NEW S, NEW status,
           Notify(S, status)
    PROVE  /\ client' \in [Subs -> {"idle", "asked", "open", "leaving"}]
           /\ \A s \in Subs : client[s] = "idle" => client'[s] = "idle"
           /\ \A s \in Subs : client'[s] = "idle" =>
                client[s] = "idle" \/ (s \in S /\ status # "GRANTED")
<1>1. client' \in [Subs -> {"idle", "asked", "open", "leaving"}]
  BY NotifyTypeOK
<1>2. \A s \in Subs : client'[s] = IF s \in S THEN After(client[s], status) ELSE client[s]
  BY DEF Notify
<1>3. /\ After("idle", status) = "idle"
      /\ \A c : After(c, status) = "idle" => c = "idle" \/ status # "GRANTED"
  <2>1. CASE status = "GRANTED"
    BY <2>1 DEF After
  <2>2. CASE status # "GRANTED"
    BY <2>2 DEF After
  <2> QED  BY <2>1, <2>2
<1> QED  BY <1>1, <1>2, <1>3

\* A message that is no restart keeps the invariant when whoever it lists
\* was in the message, and whoever it closes leaves the list.
LEMMA ProcStep ==
    ASSUME RestartInv, NEW type, Proc(type), type # "ENGINE_UP",
           NEW S, NEW status, Notify(S, status),
           nif' \in Machine, NifOK',
           ~ Restarting =>
             \A s \in ModemSubs :
               /\ s \in nif'.subs => s \in nif.subs \/ Head(msgQ) = SubscribeMsg(s)
               /\ s \in S /\ status # "GRANTED" =>
                    /\ s \notin nif'.subs
                    /\ s \in nif.subs
                         \/ Head(msgQ) \in {SubscribeMsg(s), ClientMsgOf("UNSUBSCRIBE", s)}
    PROVE  RestartInv'
<1>1. /\ msgQ # <<>> /\ Head(msgQ).type = type /\ msgQ' = Tail(msgQ)
      /\ msgQ \in Seq(RestartMsg) /\ QueueOK(msgQ)
  BY DEF Proc, RestartInv, RestartMsg
<1>2. /\ msgQ' \in Seq(RestartMsg) /\ QueueOK(msgQ')
      /\ Contains(msgQ, Head(msgQ))
      /\ \A m : Contains(msgQ', m) => Contains(msgQ, m)
      /\ \A m : Contains(msgQ, m) /\ m # Head(msgQ) => Contains(msgQ', m)
      /\ \A s \in ModemSubs :
           Head(msgQ) \in {SubscribeMsg(s), ClientMsgOf("UNSUBSCRIBE", s)} =>
             ~ Contains(msgQ', SubscribeMsg(s))
  BY <1>1, TakenQueue
<1>3. Restarting' <=> Restarting
  <2>1. Head(msgQ) # EngineUp
    BY <1>1, RestartMessages
  <2> QED  BY <1>2, <2>1 DEF Restarting
<1>4. /\ client' \in [Subs -> {"idle", "asked", "open", "leaving"}]
      /\ \A s \in Subs : client[s] = "idle" => client'[s] = "idle"
      /\ \A s \in Subs : client'[s] = "idle" =>
           client[s] = "idle" \/ (s \in S /\ status # "GRANTED")
  BY Notified DEF RestartInv
<1>5. ASSUME NEW s \in ModemSubs PROVE KnownOK(s)'
  <2>1. s \in Subs /\ KnownOK(s)
    BY ModemAssumption DEF RestartInv
  <2>2. CASE Restarting
    BY <1>3, <1>4, <2>1, <2>2 DEF KnownOK
  <2>3. CASE ~ Restarting
    <3>1. Head(msgQ) = SubscribeMsg(s) => client[s] # "idle"
      BY <1>2, <2>1, <2>3 DEF KnownOK, Queued, SubscribeMsg
    <3>2. client'[s] = "idle" => s \notin nif'.subs
      BY <1>4, <2>1, <2>3, <3>1 DEF KnownOK
    <3>3. ASSUME Queued("SUBSCRIBE", s)' PROVE client'[s] # "idle" /\ s \notin nif'.subs
      <4>1. /\ Contains(msgQ, SubscribeMsg(s))
            /\ Head(msgQ) \notin {SubscribeMsg(s), ClientMsgOf("UNSUBSCRIBE", s)}
        BY <1>2, <3>3 DEF Queued, SubscribeMsg
      <4>2. client[s] # "idle" /\ s \notin nif.subs
        BY <2>1, <2>3, <4>1 DEF KnownOK, Queued, SubscribeMsg
      <4> QED  BY <1>4, <2>1, <2>3, <4>1, <4>2
    <3> QED  BY <1>3, <2>3, <3>2, <3>3 DEF KnownOK
  <2> QED  BY <2>2, <2>3
<1> QED  BY <1>2, <1>4, <1>5 DEF RestartInv, RestartMsg

\* The client a request or a release is about.
LEMMA HeadClient ==
    ASSUME RestartInv, NEW type \in ClientTypes, Proc(type)
    PROVE  /\ Head(msgQ).sub \in Subs
           /\ Head(msgQ) = ClientMsgOf(type, Head(msgQ).sub)
           /\ Contains(msgQ, Head(msgQ))
<1>1. msgQ \in Seq(RestartMsg) /\ QueueOK(msgQ) /\ msgQ # <<>> /\ Head(msgQ).type = type
  BY DEF RestartInv, RestartMsg, Proc
<1> QED  BY <1>1, TakenQueue, RestartMessages

LEMMA RestartSubscribe ==
    ASSUME RestartInv, ProcSubscribe
    PROVE  RestartInv'
<1> DEFINE t == Head(msgQ).sub
<1>1. Proc("SUBSCRIBE") /\ SubscribeRsrc(t)
  BY DEF ProcSubscribe
<1>2. t \in Subs /\ Head(msgQ) = SubscribeMsg(t) /\ Contains(msgQ, SubscribeMsg(t))
  BY <1>1, HeadClient DEF ClientTypes, SubscribeMsg
<1>3. ~ Restarting /\ t \in ModemSubs => t \notin nif.subs
  BY <1>2 DEF RestartInv, KnownOK, Queued, SubscribeMsg
<1> HIDE DEF t
<1>4. CASE SingleSubscriber /\ nif.subs # {}
  <2>1. Notify({t}, "DENIED") /\ nif' = nif
    BY <1>1, <1>4 DEF SubscribeRsrc
  <2>2. nif' \in Machine /\ NifOK'
    BY <2>1 DEF RestartInv, NifOK
  <2>3. ~ Restarting => \A s \in ModemSubs :
          /\ s \in nif'.subs => s \in nif.subs \/ Head(msgQ) = SubscribeMsg(s)
          /\ s \in {t} /\ "DENIED" # "GRANTED" =>
               /\ s \notin nif'.subs
               /\ s \in nif.subs \/ Head(msgQ) \in {SubscribeMsg(s), ClientMsgOf("UNSUBSCRIBE", s)}
    BY <1>2, <1>3, <2>1
  <2> QED  BY <1>1, <2>1, <2>2, <2>3, ProcStep
<1>5. CASE ~ (SingleSubscriber /\ nif.subs # {})
  <2> DEFINE o == OnSubscribe(nif, t)
  <2>1. nif' = o.m /\ Notify(o.told, o.status)
    BY <1>1, <1>5 DEF SubscribeRsrc, Apply
  <2>2. /\ o.m \in Machine /\ o.m.subs = nif.subs \cup {t} /\ o.m.inactive = nif.inactive
        /\ o.m.state # "Released" /\ o.status = "GRANTED"
    BY <1>2 DEF RestartInv, Machine, OnSubscribe, Outcome, AddSubscriber, GoTo, StateNames
  <2> HIDE DEF o
  <2>3. nif' \in Machine /\ NifOK'
    BY <2>1, <2>2 DEF RestartInv, NifOK
  <2>4. ~ Restarting => \A s \in ModemSubs :
          /\ s \in nif'.subs => s \in nif.subs \/ Head(msgQ) = SubscribeMsg(s)
          /\ s \in o.told /\ o.status # "GRANTED" =>
               /\ s \notin nif'.subs
               /\ s \in nif.subs \/ Head(msgQ) \in {SubscribeMsg(s), ClientMsgOf("UNSUBSCRIBE", s)}
    BY <1>2, <2>1, <2>2
  <2> QED  BY <1>1, <2>1, <2>3, <2>4, ProcStep
<1> QED  BY <1>4, <1>5

LEMMA RestartUnsubscribe ==
    ASSUME RestartInv, ProcUnsubscribe
    PROVE  RestartInv'
<1> DEFINE t == Head(msgQ).sub
<1>1. Proc("UNSUBSCRIBE") /\ UnsubscribeRsrc(t)
  BY DEF ProcUnsubscribe
<1>2. t \in Subs /\ Head(msgQ) = ClientMsgOf("UNSUBSCRIBE", t)
  BY <1>1, HeadClient DEF ClientTypes
<1> HIDE DEF t
<1>3. CASE t \notin nif.subs
  <2> DEFINE S == {t} \cap ModemSubs
  <2>1. Notify(S, "UNSUBSCRIBE") /\ nif' = nif
    BY <1>1, <1>3 DEF UnsubscribeRsrc
  <2>2. nif' \in Machine /\ NifOK'
    BY <2>1 DEF RestartInv, NifOK
  <2>3. ~ Restarting => \A s \in ModemSubs :
          /\ s \in nif'.subs => s \in nif.subs \/ Head(msgQ) = SubscribeMsg(s)
          /\ s \in S /\ "UNSUBSCRIBE" # "GRANTED" =>
               /\ s \notin nif'.subs
               /\ s \in nif.subs \/ Head(msgQ) \in {SubscribeMsg(s), ClientMsgOf("UNSUBSCRIBE", s)}
    BY <1>2, <1>3, <2>1
  <2> HIDE DEF S
  <2> QED  BY <1>1, <2>1, <2>2, <2>3, ProcStep
<1>4. CASE t \in nif.subs
  <2> DEFINE o == OnUnsubscribe(nif, t)
  <2>1. nif' = o.m /\ Notify(o.told, o.status)
    BY <1>1, <1>4 DEF UnsubscribeRsrc, Apply
  <2>2. nif \in Machine /\ nif.state # "Released" /\ nif.inactive \subseteq nif.subs \cap Waiting
    BY <1>4 DEF RestartInv, NifOK
  <2>3. /\ o.m \in Machine
        /\ o.m.subs = nif.subs \ ({t} \ Waiting)
        /\ o.m.inactive = IF t \in Waiting THEN nif.inactive \cup {t} ELSE nif.inactive \ {t}
        /\ o.m.subs = {} => o.m.state = "Released"
        /\ o.m.subs # {} /\ Active(o.m) = {} => o.m.state = "Releasing"
        /\ Active(o.m) # {} => o.m.state = nif.state
        /\ o.told = {t} \ Waiting
    <3>1. t \in nif.subs /\ nif \in Machine /\ nif.state # "Released"
      BY <1>4, <2>2
    <3>2. AfterUnsubscribe(nif, t, o)
      BY <3>1, UnsubscribeOutcome
    <3> HIDE DEF o
    <3> QED  BY <3>2 DEF AfterUnsubscribe
  <2> HIDE DEF o
  <2>4. NifOK'
    <3>1. o.m.inactive \subseteq o.m.subs \cap Waiting
      BY <1>4, <2>2, <2>3
    <3>2. o.m.state = "Released" => o.m.subs = {}
      BY <2>2, <2>3
    <3> QED  BY <2>1, <3>1, <3>2 DEF NifOK
  <2>5. ~ Restarting => \A s \in ModemSubs :
          /\ s \in nif'.subs => s \in nif.subs \/ Head(msgQ) = SubscribeMsg(s)
          /\ s \in o.told /\ o.status # "GRANTED" =>
               /\ s \notin nif'.subs
               /\ s \in nif.subs \/ Head(msgQ) \in {SubscribeMsg(s), ClientMsgOf("UNSUBSCRIBE", s)}
    BY <1>2, <1>4, <2>1, <2>3
  <2> QED  BY <1>1, <2>1, <2>3, <2>4, <2>5, ProcStep
<1> QED  BY <1>3, <1>4

LEMMA RestartRsrc ==
    ASSUME RestartInv, ProcRsrc
    PROVE  RestartInv'
<1> DEFINE e == Head(msgQ).event
           o == OnRsrcEvent(nif, e)
<1>1. Proc("RSRC") /\ nif' = o.m /\ Notify(o.told, o.status)
  BY DEF ProcRsrc, Apply
<1>2. e \in {"GRANTED", "RELEASED", "DENIED"}
  <2>1. msgQ \in Seq(RestartMsg) /\ msgQ # <<>> /\ Head(msgQ).type = "RSRC"
    BY <1>1 DEF RestartInv, RestartMsg, Proc
  <2>2. Head(msgQ) \in RestartMsg
    BY <2>1
  <2> QED  BY <2>1, <2>2, RestartMessages
<1>3. nif \in Machine /\ nif.inactive \subseteq nif.subs \cap Waiting
      /\ (nif.state = "Released" => nif.subs = {})
  BY DEF RestartInv, NifOK
<1> HIDE DEF e
<1>4. /\ o.m \in Machine
      /\ \/ o.m = nif /\ o.told = {}
         \/ /\ nif.state = "Pending" /\ o.m.state = "Acquired"
            /\ o.m.subs = nif.subs /\ o.m.inactive = nif.inactive
            /\ o.told = Active(nif) /\ o.status = "GRANTED"
         \/ /\ nif.state \in {"Pending", "Acquired"} /\ o.m.state = "Released"
            /\ o.m.subs = {} /\ o.m.inactive = {}
            /\ o.told = nif.subs /\ o.status # "GRANTED"
         \/ /\ nif.state = "Releasing"
            /\ o.m.state = IF Active(nif) # {} THEN "Pending" ELSE "Released"
            /\ o.m.subs = Active(nif) /\ o.m.inactive = {}
            /\ o.told = Inactive(nif) /\ o.status # "GRANTED"
  BY <1>2, <1>3, RsrcOutcome
<1> HIDE DEF o
<1>5. NifOK'
  <2>1. o.m.inactive \subseteq o.m.subs \cap Waiting
    BY <1>3, <1>4
  <2>2. o.m.state = "Released" => o.m.subs = {}
    BY <1>3, <1>4
  <2> QED  BY <1>1, <2>1, <2>2 DEF NifOK
<1>6. ~ Restarting => \A s \in ModemSubs :
        /\ s \in nif'.subs => s \in nif.subs \/ Head(msgQ) = SubscribeMsg(s)
        /\ s \in o.told /\ o.status # "GRANTED" =>
             /\ s \notin nif'.subs
             /\ s \in nif.subs \/ Head(msgQ) \in {SubscribeMsg(s), ClientMsgOf("UNSUBSCRIBE", s)}
  BY <1>1, <1>4 DEF Active, Inactive
<1> QED  BY <1>1, <1>4, <1>5, <1>6, ProcStep

\* The list is emptied when the restart is handled, and nothing of the modem
\* is behind it.
LEMMA RestartEngineUp ==
    ASSUME RestartInv, ProcEngineUp
    PROVE  RestartInv'
<1>1. /\ msgQ # <<>> /\ Head(msgQ).type = "ENGINE_UP" /\ msgQ' = Tail(msgQ)
      /\ nif' = Drop(nif, nif.subs) /\ client' = client
      /\ msgQ \in Seq(RestartMsg) /\ QueueOK(msgQ)
  BY DEF ProcEngineUp, Proc, DropAllSubscribers, RestartInv, RestartMsg
<1>2. Head(msgQ) = EngineUp
  BY <1>1, TakenQueue, RestartMessages
<1>3. /\ msgQ' \in Seq(RestartMsg) /\ QueueOK(msgQ')
      /\ ~ Contains(msgQ', EngineUp)
      /\ \A m \in ModemMsgs : ~ Contains(msgQ', m)
  BY <1>1, <1>2, TakenQueue
<1>4. nif' \in Machine /\ nif'.subs = {} /\ nif'.inactive = {}
  BY <1>1 DEF RestartInv, NifOK, Machine, Drop
<1>5. ASSUME NEW s \in ModemSubs PROVE KnownOK(s)'
  <2>1. ~ Queued("SUBSCRIBE", s)'
    BY <1>3, ModemMessages DEF Queued, ClientTypes
  <2> QED  BY <1>3, <1>4, <2>1 DEF KnownOK, Restarting
<1>6. NifOK'
  BY <1>4 DEF NifOK
<1>7. client' \in [Subs -> {"idle", "asked", "open", "leaving"}]
  BY <1>1 DEF RestartInv
<1> QED  BY <1>3, <1>4, <1>5, <1>6, <1>7 DEF RestartInv, RestartMsg
-----------------------------------------------------------------------------
(* The steps of the clients, of the service and of the modem               *)

\* A message that is added to the queue keeps the invariant: one of the
\* modem only while it is not restarting.
LEMMA SentMessage ==
    ASSUME RestartInv, NEW m \in RestartMsg, msgQ' = Append(msgQ, m), nif' = nif,
           client' \in [Subs -> {"idle", "asked", "open", "leaving"}],
           m # EngineUp,
           \A s \in ModemSubs :
             /\ client'[s] = "idle" <=> client[s] = "idle" /\ m # SubscribeMsg(s)
             /\ m = SubscribeMsg(s) => client[s] = "idle" /\ ~ Queued("UNSUBSCRIBE", s),
           m \in ModemMsgs => ~ Restarting
    PROVE  RestartInv'
<1>1. msgQ \in Seq(RestartMsg) /\ QueueOK(msgQ) /\ \A s \in ModemSubs : KnownOK(s)
  BY DEF RestartInv, RestartMsg
<1>2. \A s \in ModemSubs : SubscribeMsg(s) \in ModemMsgs
  BY ModemMessages DEF SubscribeMsg, ClientTypes
<1>3. \A s \in ModemSubs : m = SubscribeMsg(s) =>
         ~ Contains(msgQ, m) /\ ~ Contains(msgQ, ClientMsgOf("UNSUBSCRIBE", s))
  BY <1>1, <1>2 DEF KnownOK, Queued, SubscribeMsg
<1>4. /\ msgQ' \in Seq(RestartMsg) /\ QueueOK(msgQ')
      /\ \A n : Contains(msgQ', n) <=> Contains(msgQ, n) \/ n = m
  BY <1>1, <1>3, AddedToQueue DEF Restarting
<1>5. Restarting' <=> Restarting
  BY <1>4 DEF Restarting
<1>6. ASSUME NEW s \in ModemSubs PROVE KnownOK(s)'
  <2>1. Queued("SUBSCRIBE", s)' <=> Queued("SUBSCRIBE", s) \/ m = SubscribeMsg(s)
    BY <1>4 DEF Queued, SubscribeMsg
  <2>2. m = SubscribeMsg(s) => ~ Restarting
    BY <1>2
  <2> QED  BY <1>1, <1>5, <2>1, <2>2 DEF KnownOK
<1>7. NifOK' /\ nif' \in Machine
  BY DEF RestartInv, NifOK
<1> QED  BY <1>4, <1>6, <1>7 DEF RestartInv, RestartMsg

LEMMA RestartAsk ==
    ASSUME RestartInv, NEW s \in Subs, AskAgain(s)
    PROVE  RestartInv'
<1> DEFINE m == SubscribeMsg(s)
<1>1. /\ msgQ' = Append(msgQ, m) /\ nif' = nif
      /\ client[s] = "idle" /\ client' = [client EXCEPT ![s] = "asked"]
      /\ ~ Queued("UNSUBSCRIBE", s)
      /\ s \in ModemSubs => ~ Restarting
      /\ client \in [Subs -> {"idle", "asked", "open", "leaving"}]
  BY DEF AskAgain, Ask, Send, SubscribeMsg, RestartInv
<1>2. m \in ClientMsg /\ m \in RestartMsg /\ m # EngineUp
  BY ClientMessages, RestartMessages DEF SubscribeMsg, RestartMsg, Msg, ClientTypes
<1>3. m \in ModemMsgs => ~ Restarting
  BY <1>1, ModemMessages DEF SubscribeMsg, ClientTypes
<1>4. \A r \in ModemSubs :
        /\ r \in Subs
        /\ m = SubscribeMsg(r) <=> r = s
  BY ModemMessages, ModemAssumption
<1> HIDE DEF m
<1>5. client' \in [Subs -> {"idle", "asked", "open", "leaving"}]
  BY <1>1
<1>6. \A r \in ModemSubs :
        /\ client'[r] = "idle" <=> client[r] = "idle" /\ m # SubscribeMsg(r)
        /\ m = SubscribeMsg(r) => client[r] = "idle" /\ ~ Queued("UNSUBSCRIBE", r)
  BY <1>1, <1>4
<1> QED  BY <1>1, <1>2, <1>3, <1>5, <1>6, SentMessage

LEMMA RestartGiveUp ==
    ASSUME RestartInv, NEW s \in Subs, GiveUp(s)
    PROVE  RestartInv'
<1> DEFINE m == ClientMsgOf("UNSUBSCRIBE", s)
<1>1. /\ msgQ' = Append(msgQ, m) /\ nif' = nif
      /\ client[s] \in {"asked", "open"} /\ client' = [client EXCEPT ![s] = "leaving"]
      /\ client \in [Subs -> {"idle", "asked", "open", "leaving"}]
  BY DEF GiveUp, Send, RestartInv
<1>2. m \in ClientMsg /\ m \in RestartMsg /\ m # EngineUp
  BY ClientMessages, RestartMessages DEF RestartMsg, Msg, ClientTypes
<1>3. s \in ModemSubs => ~ Restarting
  BY <1>1 DEF RestartInv, KnownOK
<1>4. m \in ModemMsgs => ~ Restarting
  BY <1>3, ModemMessages DEF ClientTypes
<1>5. \A r \in ModemSubs : r \in Subs /\ m # SubscribeMsg(r)
  BY ModemMessages, ModemAssumption
<1> HIDE DEF m
<1>6. client' \in [Subs -> {"idle", "asked", "open", "leaving"}]
  BY <1>1
<1>7. \A r \in ModemSubs :
        /\ client'[r] = "idle" <=> client[r] = "idle" /\ m # SubscribeMsg(r)
        /\ m = SubscribeMsg(r) => client[r] = "idle" /\ ~ Queued("UNSUBSCRIBE", r)
  BY <1>1, <1>5
<1> QED  BY <1>1, <1>2, <1>4, <1>6, <1>7, SentMessage

\* The service sends at most one event, which is not the modem's.
LEMMA RestartService ==
    ASSUME RestartInv, FwRequested \/ FwReleased \/ FwOpened \/ FwOpenFailed \/ FwLost
    PROVE  RestartInv'
<1>1. /\ nif' = nif /\ client' = client
      /\ \/ msgQ' = msgQ
         \/ \E e \in {"GRANTED", "RELEASED", "DENIED"} : msgQ' = Append(msgQ, RsrcMsgOf(e))
  <2> USE DEF Send
  <2>1. CASE FwRequested
    BY <2>1 DEF FwRequested
  <2>2. CASE FwReleased
    BY <2>2 DEF FwReleased
  <2>3. CASE FwOpened
    BY <2>3 DEF FwOpened
  <2>4. CASE FwOpenFailed
    BY <2>4 DEF FwOpenFailed
  <2>5. CASE FwLost
    BY <2>5 DEF FwLost
  <2> QED  BY <2>1, <2>2, <2>3, <2>4, <2>5
<1>2. CASE msgQ' = msgQ
  BY <1>1, <1>2 DEF RestartInv, NifOK, KnownOK, Restarting, Queued
<1>3. ASSUME NEW e \in {"GRANTED", "RELEASED", "DENIED"}, msgQ' = Append(msgQ, RsrcMsgOf(e))
      PROVE  RestartInv'
  <2> DEFINE m == RsrcMsgOf(e)
  <2>1. m \in RestartMsg /\ m \notin ClientMsg /\ m # EngineUp
    BY RestartMessages DEF RestartMsg
  <2>2. m \notin ModemMsgs
    BY <2>1 DEF ModemMsgs
  <2>3. \A s \in ModemSubs : m # SubscribeMsg(s)
    BY <2>2, ModemMessages DEF SubscribeMsg, ClientTypes
  <2>4. client' \in [Subs -> {"idle", "asked", "open", "leaving"}] /\ msgQ' = Append(msgQ, m)
    BY <1>1, <1>3 DEF RestartInv
  <2> HIDE DEF m
  <2>5. \A s \in ModemSubs :
          /\ client'[s] = "idle" <=> client[s] = "idle" /\ m # SubscribeMsg(s)
          /\ m = SubscribeMsg(s) => client[s] = "idle" /\ ~ Queued("UNSUBSCRIBE", s)
    BY <1>1, <2>3
  <2> QED  BY <1>1, <2>1, <2>2, <2>4, <2>5, SentMessage
<1> QED  BY <1>1, <1>2, <1>3

\* The modem forgets every one of its clients when it restarts.
LEMMA RestartBegins ==
    ASSUME RestartInv, ModemRestart
    PROVE  RestartInv'
<1>1. /\ ~ Restarting /\ nif' = nif /\ msgQ' = Append(msgQ, EngineUp)
      /\ client' = [s \in Subs |-> IF s \in ModemSubs THEN "idle" ELSE client[s]]
      /\ client \in [Subs -> {"idle", "asked", "open", "leaving"}]
      /\ msgQ \in Seq(RestartMsg) /\ QueueOK(msgQ)
  BY DEF ModemRestart, RestartInv, RestartMsg
<1>2. \A s \in ModemSubs : EngineUp # SubscribeMsg(s)
  BY RestartMessages, ModemMessages DEF ModemMsgs, SubscribeMsg, ClientTypes
<1>3. /\ msgQ' \in Seq(RestartMsg) /\ QueueOK(msgQ')
      /\ Contains(msgQ', EngineUp)
  <2>1. EngineUp \in RestartMsg
    BY DEF RestartMsg
  <2>2. ~ Contains(msgQ, EngineUp)
    BY <1>1 DEF Restarting
  <2> QED  BY <1>1, <1>2, <2>1, <2>2, AddedToQueue
<1>4. \A s \in ModemSubs : KnownOK(s)'
  BY <1>1, <1>3, ModemAssumption DEF KnownOK, Restarting
<1>5. client' \in [Subs -> {"idle", "asked", "open", "leaving"}]
  BY <1>1
<1>6. NifOK' /\ nif' \in Machine
  BY <1>1 DEF RestartInv, NifOK
<1> QED  BY <1>3, <1>4, <1>5, <1>6 DEF RestartInv, RestartMsg

-----------------------------------------------------------------------------
(* The theorems                                                            *)

\* What the modem, the queue and the list know of each other holds over any
\* number of restarts, whatever is in the queue when one happens.
THEOREM RestartInvariance == RestartSpec => []RestartInv
<1>1. Init => RestartInv
  <2>1. SUFFICES ASSUME Init PROVE RestartInv
    OBVIOUS
  <2>2. /\ nif \in Machine /\ nif.subs = {} /\ nif.inactive = {}
        /\ msgQ = <<>> /\ client = [s \in Subs |-> "idle"]
    BY <2>1 DEF Init, NewMachine, Machine, StateNames
  <2>3. \A m : ~ Contains(msgQ, m)
    BY <2>2 DEF Contains
  <2>4. QueueOK(msgQ) /\ msgQ \in Seq(RestartMsg)
    BY <2>2 DEF QueueOK
  <2>5. \A s \in ModemSubs : KnownOK(s)
    BY <2>2, <2>3, ModemAssumption DEF KnownOK, Restarting, Queued
  <2> QED  BY <2>2, <2>4, <2>5 DEF RestartInv, NifOK, RestartMsg
<1>2. RestartInv /\ [RestartNext]_vars => RestartInv'
  <2>1. SUFFICES ASSUME RestartInv, [RestartNext]_vars PROVE RestartInv'
    OBVIOUS
  <2>2. CASE UNCHANGED vars
    BY <2>1, <2>2 DEF vars, RestartInv, NifOK, KnownOK, Restarting, Queued
  <2>3. CASE ProcSubscribe
    BY <2>1, <2>3, RestartSubscribe
  <2>4. CASE ProcUnsubscribe
    BY <2>1, <2>4, RestartUnsubscribe
  <2>5. CASE ProcRsrc
    BY <2>1, <2>5, RestartRsrc
  <2>6. CASE ProcEngineUp
    BY <2>1, <2>6, RestartEngineUp
  <2>7. ASSUME NEW s \in Subs, AskAgain(s) PROVE RestartInv'
    BY <2>1, <2>7, RestartAsk
  <2>8. ASSUME NEW s \in Subs, GiveUp(s) PROVE RestartInv'
    BY <2>1, <2>8, RestartGiveUp
  <2>9. CASE FwRequested \/ FwReleased \/ FwOpened \/ FwOpenFailed \/ FwLost
    BY <2>1, <2>9, RestartService
  <2>10. CASE ModemRestart
    BY <2>1, <2>10, RestartBegins
  <2> QED  BY <2>1, <2>2, <2>3, <2>4, <2>5, <2>6, <2>7, <2>8, <2>9, <2>10 DEF RestartNext
<1> QED  BY <1>1, <1>2, PTL DEF RestartSpec

\* No connection the modem asked for before a restart is in the list after
\* loc_eng_handle_engine_up has run: nothing is requested, granted or held
\* for a client that no longer exists.
THEOREM NoGhostsHold == RestartSpec => []NoGhosts
<1>1. RestartInv => NoGhosts
  BY DEF RestartInv, KnownOK, NoGhosts
<1> QED  BY <1>1, RestartInvariance, PTL
=============================================================================
