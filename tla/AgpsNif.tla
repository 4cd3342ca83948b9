------------------------------- MODULE AgpsNif -------------------------------
(***************************************************************************)
(* One AgpsStateMachine with a servicer of type servicerTypeAgps, between  *)
(* the clients that want a data connection for assisted GPS and the        *)
(* connectivity service of the framework that owns the connection.         *)
(*                                                                         *)
(*   clients --LocEngRequestATL, ...ReleaseATL,-->  msgQ                    *)
(*             LocEngReqRelBIT, LocEngReqRelWifi      |  one thread,        *)
(*   service --loc_eng_agps_open, _open_failed, -->   |  FIFO               *)
(*             _closed                                v                     *)
(*                                                 machine                  *)
(*                                                 /     \                  *)
(*      atlOpenStatus, atlCloseStatus,            /       \                 *)
(*      loc_api_server_data_conn -> clients  <---          ---> fwQ         *)
(*                                     agps_status_cb(REQUEST | RELEASE)    *)
(*                                                                         *)
(* agnss_nif (ATL clients), internet_nif (ATL and BIT clients) and wifi_nif *)
(* (WIFI clients, one at a time) are instances with other constants.       *)
(***************************************************************************)
EXTENDS AgpsStates, Naturals, SequencesExt

CONSTANTS
    ModemSubs,           \* ATL clients: the modem, by connection handle
    SingleSubscriber,    \* mEnforceSingleSubscriber
    MaxMsgs              \* bound on the messages in flight

ASSUME ModemAssumption == ModemSubs \subseteq Subs \ Waiting
ASSUME SingleAssumption == SingleSubscriber \in BOOLEAN
ASSUME MaxMsgsAssumption == MaxMsgs \in Nat

VARIABLES
    nif,        \* the AgpsStateMachine
    client,     \* what each client was told
    msgQ,       \* the adapter's message queue
    fwQ,        \* callbacks the connectivity service has not handled yet
    conn        \* the connection of the connectivity service

vars == <<nif, client, msgQ, fwQ, conn>>

ClientMsg == [type : {"SUBSCRIBE", "UNSUBSCRIBE"}, sub : Subs]
RsrcMsg   == [type : {"RSRC"}, event : {"GRANTED", "RELEASED", "DENIED"}]
Msg       == ClientMsg \cup RsrcMsg

ClientMsgOf(type, s) == [type |-> type, sub |-> s]
RsrcMsgOf(event)     == [type |-> "RSRC", event |-> event]

Queued(type, s) == Contains(msgQ, ClientMsgOf(type, s))

TypeOK ==
    /\ nif \in Machine
    /\ client \in [Subs -> {"idle", "asked", "open", "leaving"}]
    /\ msgQ \in Seq(Msg)
    /\ fwQ \in Seq({"REQUEST", "RELEASE"})
    /\ conn \in {"closed", "opening", "open"}

Init ==
    /\ nif = NewMachine
    /\ client = [s \in Subs |-> "idle"]
    /\ msgQ = <<>>
    /\ fwQ = <<>>
    /\ conn = "closed"

-----------------------------------------------------------------------------
(* The machine, run by the message thread.                                 *)

(* notifyRsrcStatus: what client c makes of a status.                      *)
After(c, status) ==
    CASE status = "GRANTED" /\ c = "asked" -> "open"
      [] status = "GRANTED" /\ c # "asked" -> c
      [] status # "GRANTED" -> "idle"

Notify(S, status) ==
    client' = [s \in Subs |-> IF s \in S THEN After(client[s], status)
                                         ELSE client[s]]

(* AgpsStateMachine::sendRsrcRequest: a release goes out only when no      *)
(* subscriber is active, a request only when one is.                       *)
SendRsrcRequest(m, ask) ==
    fwQ' = IF ask # "none" /\ (Active(m) = {}) = (ask = "RELEASE")
           THEN Append(fwQ, ask) ELSE fwQ

Apply(o) ==
    /\ nif' = o.m
    /\ Notify(o.told, o.status)
    /\ SendRsrcRequest(o.m, o.ask)

(* AgpsStateMachine::subscribeRsrc                                         *)
SubscribeRsrc(s) ==
    IF SingleSubscriber /\ nif.subs # {}
    THEN /\ Notify({s}, "DENIED")
         /\ UNCHANGED <<nif, fwQ>>
    ELSE Apply(OnSubscribe(nif, s))

(* AgpsStateMachine::unsubscribeRsrc.  When s is not in the list,          *)
(* LocEngReleaseATL reports the failure and the other two say nothing: no  *)
(* client that is still waiting for an answer is involved (NoneForgotten). *)
UnsubscribeRsrc(s) ==
    IF s \in nif.subs
    THEN Apply(OnUnsubscribe(nif, s))
    ELSE /\ Notify({s} \cap ModemSubs, "UNSUBSCRIBE")
         /\ UNCHANGED <<nif, fwQ>>

Proc(type) ==
    /\ msgQ # <<>>
    /\ Head(msgQ).type = type
    /\ msgQ' = Tail(msgQ)
    /\ UNCHANGED conn

ProcSubscribe   == Proc("SUBSCRIBE") /\ SubscribeRsrc(Head(msgQ).sub)
ProcUnsubscribe == Proc("UNSUBSCRIBE") /\ UnsubscribeRsrc(Head(msgQ).sub)
ProcRsrc        == Proc("RSRC") /\ Apply(OnRsrcEvent(nif, Head(msgQ).event))

-----------------------------------------------------------------------------
(* The clients.  A client names a connection, and a new connection gets a  *)
(* name none of whose messages is still under way.                         *)

Room == Len(msgQ) + Len(fwQ) < MaxMsgs

Send(m) == msgQ' = Append(msgQ, m)

Ask(s) ==
    /\ Room
    /\ client[s] = "idle"
    /\ ~ Queued("UNSUBSCRIBE", s)
    /\ client' = [client EXCEPT ![s] = "asked"]
    /\ Send(ClientMsgOf("SUBSCRIBE", s))
    /\ UNCHANGED <<nif, fwQ, conn>>

GiveUp(s) ==
    /\ Room
    /\ client[s] \in {"asked", "open"}
    /\ client' = [client EXCEPT ![s] = "leaving"]
    /\ Send(ClientMsgOf("UNSUBSCRIBE", s))
    /\ UNCHANGED <<nif, fwQ, conn>>

-----------------------------------------------------------------------------
(* The connectivity service.                                               *)

FwRequested ==
    /\ fwQ # <<>> /\ Head(fwQ) = "REQUEST"
    /\ fwQ' = Tail(fwQ)
    /\ conn' = "opening"
    /\ UNCHANGED <<nif, client, msgQ>>

FwReleased ==
    /\ fwQ # <<>> /\ Head(fwQ) = "RELEASE"
    /\ fwQ' = Tail(fwQ)
    /\ conn' = "closed"
    /\ IF conn = "closed" THEN UNCHANGED msgQ
                          ELSE Send(RsrcMsgOf("RELEASED"))
    /\ UNCHANGED <<nif, client>>

FwOpened ==                                         \* loc_eng_agps_open
    /\ conn = "opening"
    /\ conn' = "open"
    /\ Send(RsrcMsgOf("GRANTED"))
    /\ UNCHANGED <<nif, client, fwQ>>

FwOpenFailed ==                                     \* loc_eng_agps_open_failed
    /\ conn = "opening"
    /\ conn' = "closed"
    /\ Send(RsrcMsgOf("DENIED"))
    /\ UNCHANGED <<nif, client, fwQ>>

FwLost ==                                           \* loc_eng_agps_closed
    /\ Room
    /\ conn = "open"
    /\ conn' = "closed"
    /\ Send(RsrcMsgOf("RELEASED"))
    /\ UNCHANGED <<nif, client, fwQ>>

-----------------------------------------------------------------------------
Next ==
    \/ ProcSubscribe \/ ProcUnsubscribe \/ ProcRsrc
    \/ \E s \in Subs : Ask(s) \/ GiveUp(s)
    \/ FwRequested \/ FwReleased \/ FwOpened \/ FwOpenFailed \/ FwLost

Spec == Init /\ [][Next]_vars

(* The message thread runs until its queue is empty, and the service       *)
(* handles every callback and settles every connection attempt.            *)
Fairness ==
    /\ WF_vars(ProcSubscribe \/ ProcUnsubscribe \/ ProcRsrc)
    /\ WF_vars(FwRequested \/ FwReleased)
    /\ WF_vars(FwOpened \/ FwOpenFailed)

FairSpec == Spec /\ Fairness

-----------------------------------------------------------------------------
(* Properties                                                              *)

\* The state and the list agree: Released has no subscriber (the error log
\* of AgpsReleasedState::onRsrcEvent), Pending and Acquired work for at
\* least one active subscriber, Releasing waits for an inactive one.
StateMatchesList ==
    /\ nif.state = "Released" <=> nif.subs = {}
    /\ nif.state \in {"Pending", "Acquired"} => Active(nif) # {}
    /\ nif.state = "Releasing" => Inactive(nif) # {}

\* A client that was told the connection is open, and has not been told
\* otherwise since, is an active subscriber of a machine that has acquired
\* it, whatever denials and forced releases crossed its messages.
OpenMeansAcquired ==
    \A s \in Subs : client[s] = "open" =>
        nif.state = "Acquired" /\ s \in Active(nif)

\* Nobody who waits for an answer is forgotten: a request not yet answered
\* is still in the queue or is one of the subscriptions that the pending or
\* the releasing machine will settle, and a release not yet answered is in
\* the queue or waits for the close.
NoneForgotten ==
    \A s \in Subs :
        /\ client[s] = "asked" =>
             \/ Queued("SUBSCRIBE", s)
             \/ s \in Active(nif) /\ nif.state \in {"Pending", "Releasing"}
        /\ client[s] = "leaving" =>
             Queued("UNSUBSCRIBE", s) \/ s \in Inactive(nif)

\* The inductive invariant behind the three above.  What is queued for a
\* client and where the client stands determine each other.
ListOK == nif.inactive \subseteq nif.subs \cap Waiting

Ordered(q) ==
    \A i, j \in 1 .. Len(q) : i < j /\ q[i] \in ClientMsg =>
        /\ q[i] # q[j]
        /\ q[i].type = "UNSUBSCRIBE" => q[j] # ClientMsgOf("SUBSCRIBE", q[i].sub)

ClientOK(s) ==
    /\ client[s] = "idle" => s \notin nif.subs /\ ~ Queued("SUBSCRIBE", s)
    /\ client[s] = "asked" =>
         /\ ~ Queued("UNSUBSCRIBE", s)
         /\ Queued("SUBSCRIBE", s) <=> s \notin nif.subs
         /\ s \in nif.subs => s \in Active(nif) /\ nif.state \in {"Pending", "Releasing"}
    /\ client[s] = "open" =>
         /\ ~ Queued("SUBSCRIBE", s) /\ ~ Queued("UNSUBSCRIBE", s)
         /\ s \in Active(nif) /\ nif.state = "Acquired"
    /\ client[s] = "leaving" =>
         /\ Queued("SUBSCRIBE", s) <=> s \notin nif.subs
         /\ Queued("UNSUBSCRIBE", s) <=> s \notin Inactive(nif)

IInv == /\ TypeOK
        /\ StateMatchesList
        /\ ListOK
        /\ Ordered(msgQ)
        /\ \A s \in Subs : ClientOK(s)

\* A connection the service holds open with nothing under way is one the
\* machine has acquired: no interface is kept up for nobody.
Quiet == msgQ = <<>> /\ fwQ = <<>> /\ conn # "opening"
NoLeak == Quiet /\ conn = "open" => nif.state = "Acquired"

\* Why, with one client at a time that waits for the close: what the service
\* did and has been asked to do, and what it said that the machine has not
\* read, determine the state.  A release the service had done already may
\* still be in front of the next request.
NoEvent(q) == \A i \in 1 .. Len(q) : q[i] \in ClientMsg
OneEvent(q, event) ==
    \E i \in 1 .. Len(q) :
        /\ q[i] = RsrcMsgOf(event)
        /\ \A j \in 1 .. Len(q) : j # i => q[j] \in ClientMsg
GrantAndLoss(q) ==
    \E i, j \in 1 .. Len(q) :
        /\ i < j /\ q[i] = RsrcMsgOf("GRANTED") /\ q[j] = RsrcMsgOf("RELEASED")
        /\ \A k \in 1 .. Len(q) : k \notin {i, j} => q[k] \in ClientMsg

Alone == \A s, t \in nif.subs : s = t

Service ==
    CASE nif.state = "Released" ->
            conn = "closed" /\ NoEvent(msgQ) /\ fwQ \in {<<>>, <<"RELEASE">>}
      [] nif.state = "Pending" ->
            \/ /\ conn = "closed" /\ NoEvent(msgQ)
               /\ fwQ \in {<<"REQUEST">>, <<"RELEASE", "REQUEST">>}
            \/ /\ fwQ = <<>>
               /\ \/ conn = "opening" /\ NoEvent(msgQ)
                  \/ conn = "open" /\ OneEvent(msgQ, "GRANTED")
                  \/ conn = "closed" /\ (OneEvent(msgQ, "DENIED") \/ GrantAndLoss(msgQ))
      [] nif.state = "Acquired" ->
            /\ fwQ = <<>>
            /\ \/ conn = "open" /\ NoEvent(msgQ)
               \/ conn = "closed" /\ OneEvent(msgQ, "RELEASED")
      [] nif.state = "Releasing" ->
            \/ /\ conn = "closed" /\ NoEvent(msgQ)
               /\ fwQ \in {<<"REQUEST", "RELEASE">>, <<"RELEASE", "REQUEST", "RELEASE">>}
            \/ /\ fwQ = <<"RELEASE">>
               /\ \/ conn \in {"opening", "open"} /\ NoEvent(msgQ)
                  \/ conn = "open" /\ OneEvent(msgQ, "GRANTED")
            \/ /\ fwQ \in {<<>>, <<"RELEASE">>} /\ conn = "closed"
               /\ \/ OneEvent(msgQ, "RELEASED") \/ OneEvent(msgQ, "DENIED")
                  \/ GrantAndLoss(msgQ)

ServiceInv == IInv /\ Alone /\ Service

\* The machine keeps the promise of AgpsPromise: it holds the connection when
\* it is in Acquired, and every step, whatever it crosses in the queues, is
\* one the promise allows or does not concern the clients.
Promise == INSTANCE AgpsPromise WITH held <- nif.state = "Acquired"
KeepsPromise == Promise!Spec

\* Every client that asks, and every client that leaves, gets its answer.
EveryoneAnswered ==
    \A s \in Subs : /\ client[s] = "asked" ~> client[s] # "asked"
                    /\ client[s] = "leaving" ~> client[s] = "idle"
=============================================================================
