-------------------------------- MODULE DsNif --------------------------------
(***************************************************************************)
(* DSStateMachine: the network-interface machine for emergency SUPL.  Its  *)
(* servicer is a data call that the HAL itself starts and stops through    *)
(* ds_client (LocApiV02::openAndStartDataCall, stopDataCall).  When the    *)
(* call cannot be had, the connection is handed over to agnss_nif, an      *)
(* ordinary AGPS interface, of which only its subscriber set is kept here  *)
(* (AgpsNif models it).                                                    *)
(***************************************************************************)
EXTENDS AgpsStates, Naturals, SequencesExt

CONSTANTS
    MaxRetries,      \* MAX_START_DATA_CALL_RETRIES
    Reuse,           \* the modem may reuse the handle of a closed connection
    MaxMsgs          \* bound on the messages and timers in flight

ASSUME MaxRetriesAssumption == MaxRetries \in Nat
ASSUME ReuseAssumption == Reuse \in BOOLEAN
ASSUME AllWait == Waiting = Subs                 \* DSSubscriber

VARIABLES
    ds,         \* the machine
    order,      \* its linked list, head (the latest subscriber) first
    mRetries,   \* data calls that were refused as busy
    timers,     \* retry timers running (loc_timer_start)
    call,       \* the data call, as the data services see it
    refused,    \* auxiliary: the last attempt to stop this call failed
    agnss,      \* the connections subscribed to agnss_nif
    client,     \* what the modem was told about each connection
    msgQ        \* the adapter's message queue

vars == <<ds, order, mRetries, timers, call, refused, agnss, client, msgQ>>

ClientMsg == [type : {"REQUEST_SUPL_ES", "REQUEST_ATL", "RELEASE_ATL"}, sub : Subs]
CallMsg   == [type : {"SUPL_ES_OPENED", "SUPL_ES_CLOSED"}]

ClientMsgOf(type, s) == [type |-> type, sub |-> s]
CallMsgOf(type)      == [type |-> type]
Queued(type, s)      == Contains(msgQ, ClientMsgOf(type, s))

TypeOK ==
    /\ ds \in Machine
    /\ order \in Seq(Subs) /\ ToSet(order) = ds.subs /\ IsInjective(order)
    /\ mRetries \in 0 .. MaxRetries
    /\ timers \in Nat
    /\ call \in {"none", "starting", "up", "stopping"}
    /\ refused \in BOOLEAN /\ (refused => call \in {"starting", "up"})
    /\ agnss \subseteq Subs
    /\ client \in [Subs -> {"idle", "asked", "open", "leaving", "closed"}]
    /\ msgQ \in Seq(ClientMsg \cup CallMsg)

Init ==
    /\ ds = NewMachine
    /\ order = <<>>
    /\ mRetries = 0
    /\ timers = 0
    /\ call = "none"
    /\ refused = FALSE
    /\ agnss = {}
    /\ client = [s \in Subs |-> "idle"]
    /\ msgQ = <<>>

-----------------------------------------------------------------------------
(* The list                                                                *)

\* linked_list_add puts a subscriber at the head.
Reorder(subs) ==
    LET kept == SelectSeq(order, LAMBDA s : s \in subs)
    IN SetToSeq(subs \ ToSet(order)) \o kept

\* The first active subscriber that linked_list_search meets.
FirstActive(m, list) ==
    LET on == SelectSeq(list, LAMBDA s : s \in Active(m)) IN Head(on)

-----------------------------------------------------------------------------
(* What the modem is told                                                  *)

Gone == IF Reuse THEN "idle" ELSE "closed"

After(c, status) ==
    CASE status = "OPEN" /\ c = "asked" -> "open"
      [] status = "OPEN" /\ c # "asked" -> c
      [] status = "CLOSE" -> IF c = "idle" THEN "idle" ELSE Gone

Tell(S, status) ==
    client' = [s \in Subs |-> IF s \in S THEN After(client[s], status) ELSE client[s]]

(* DSStateMachine::informStatus(RSRC_DENIED): requestATL(ID, SUPL).        *)
FallBack(list) == [i \in DOMAIN list |-> ClientMsgOf("REQUEST_ATL", list[i])]

-----------------------------------------------------------------------------
(* DSStateMachine::sendRsrcRequest                                         *)

DataCallResults == {"SUCCESS", "ENGINE_BUSY", "UNSUPPORTED"}

StartDataCall == call' = "starting" /\ refused' = FALSE

\* Two mistakes: the retries are compared before they are counted, and the
\* timer is left out.
RequestDataCallLate(m, list, result) ==
    LET giveUp == \/ result = "UNSUPPORTED"
                  \/ result = "ENGINE_BUSY" /\ mRetries > MaxRetries
    IN /\ IF result = "SUCCESS" THEN StartDataCall ELSE UNCHANGED <<call, refused>>
       /\ mRetries' = IF giveUp THEN 0
                      ELSE IF result = "ENGINE_BUSY" THEN mRetries + 1 ELSE mRetries
       /\ timers' = IF result = "ENGINE_BUSY" /\ ~ giveUp THEN timers + 1 ELSE timers
       /\ msgQ' = Tail(msgQ) \o
                  (IF giveUp THEN FallBack(<<FirstActive(m, list)>>) ELSE <<>>)

RequestDataCallUntimed(m, list, result) ==
    /\ IF result = "SUCCESS" THEN StartDataCall ELSE UNCHANGED <<call, refused>>
    /\ mRetries' = 0
    /\ msgQ' = Tail(msgQ) \o
               (IF result = "UNSUPPORTED" THEN FallBack(<<FirstActive(m, list)>>) ELSE <<>>)
    /\ UNCHANGED timers

(* The request to start the call, made for machine m by a handler that has *)
(* consumed the head of the queue; result is what the servicer returned.   *)
(* (loc_timer_start returns a handle, which the code takes for an error    *)
(* code: that changes the value returned but not that it is a failure.)    *)
RequestDataCall(m, list, result) ==
    LET giveUp == \/ result = "UNSUPPORTED"
                  \/ result = "ENGINE_BUSY" /\ mRetries + 1 > MaxRetries
    IN /\ IF result = "SUCCESS" THEN StartDataCall ELSE UNCHANGED <<call, refused>>
       /\ mRetries' = IF giveUp THEN 0
                      ELSE IF result = "ENGINE_BUSY" THEN mRetries + 1 ELSE mRetries
       /\ timers' = IF result = "ENGINE_BUSY" /\ ~ giveUp THEN timers + 1 ELSE timers
       /\ msgQ' = Tail(msgQ) \o
                  (IF giveUp THEN FallBack(<<FirstActive(m, list)>>) ELSE <<>>)

\* A mistake: a call that is not yet connected is not stopped.
StopDataCallWhenUp ==
    \/ call' = (IF call = "up" THEN "stopping" ELSE call) /\ refused' = FALSE
    \/ call = "up" /\ refused' = TRUE /\ UNCHANGED call

(* The request to stop it, whose result nobody looks at.  It fails when    *)
(* the data services do not take it: then the call goes on, and neither a  *)
(* second attempt nor an event of this one follows.                        *)
StopDataCall ==
    \/ call' = (IF call = "none" THEN "none" ELSE "stopping") /\ refused' = FALSE
    \/ call \in {"starting", "up"} /\ refused' = TRUE /\ UNCHANGED call

-----------------------------------------------------------------------------
(* The messages                                                            *)

Take(type) == msgQ # <<>> /\ Head(msgQ).type = type

(* LocEngRequestSuplEs: in Released a call that does not start leaves the  *)
(* state alone, with the subscriber in the list, to be retried.            *)
ProcRequestSuplEs(result) ==
    /\ Take("REQUEST_SUPL_ES")
    /\ LET s == Head(msgQ).sub
           o == OnSubscribe(ds, s)
           list == Reorder(o.m.subs)
       IN /\ order' = list
          /\ Tell(o.told, "OPEN")
          /\ IF o.ask = "REQUEST"
             THEN /\ ds' = IF result = "SUCCESS" THEN o.m ELSE GoTo(o.m, ds.state)
                  /\ RequestDataCall(o.m, list, result)
             ELSE /\ ds' = o.m /\ result = "SUCCESS"
                  /\ msgQ' = Tail(msgQ)
                  /\ UNCHANGED <<call, refused, mRetries, timers>>
    /\ UNCHANGED agnss

(* LocEngReleaseATL, of the two interfaces an emergency connection can be  *)
(* on.  DSSubscriber::setInactive tells the modem at once.                 *)
ProcReleaseAtl ==
    /\ Take("RELEASE_ATL")
    /\ msgQ' = Tail(msgQ)
    /\ LET s == Head(msgQ).sub
           o == OnUnsubscribe(ds, s)
       IN /\ Tell({s}, "CLOSE")
          /\ agnss' = agnss \ {s}
          /\ IF s \notin agnss /\ s \in ds.subs
             THEN /\ ds' = o.m
                  /\ order' = Reorder(o.m.subs)
                  /\ IF o.ask = "RELEASE" THEN StopDataCall ELSE UNCHANGED <<call, refused>>
             ELSE UNCHANGED <<ds, order, call, refused>>
    /\ UNCHANGED <<mRetries, timers>>

(* LocEngRequestATL, on agnss_nif.                                         *)
ProcRequestAtl ==
    /\ Take("REQUEST_ATL")
    /\ msgQ' = Tail(msgQ)
    /\ agnss' = agnss \cup {Head(msgQ).sub}
    /\ UNCHANGED <<ds, order, mRetries, timers, call, refused, client>>

ProcSuplEsOpened ==
    /\ Take("SUPL_ES_OPENED")
    /\ msgQ' = Tail(msgQ)
    /\ LET o == OnGranted(ds) IN ds' = o.m /\ Tell(o.told, "OPEN")
    /\ UNCHANGED <<order, mRetries, timers, call, refused, agnss>>

(* LocEngSuplEsClosed: RSRC_RELEASED, and RSRC_DENIED as well when that    *)
(* changed nothing.  Only the denial reaches the modem, as a request for   *)
(* an ordinary connection; a release closes the data handle.  In Releasing *)
(* the result of a new request is not looked at.                           *)
ProcSuplEsClosed(result) ==
    /\ Take("SUPL_ES_CLOSED")
    /\ LET o == OnReleased(ds)
           same == o.m.state = ds.state
           d == IF same THEN OnDenied(o.m) ELSE o
           list == Reorder(d.m.subs)
       IN /\ ds' = d.m
          /\ order' = list
          /\ IF o.ask = "REQUEST"
             THEN RequestDataCall(o.m, list, result)
             ELSE /\ result = "SUCCESS"
                  /\ msgQ' = Tail(msgQ) \o (IF same THEN FallBack(SelectSeq(order, LAMBDA s : s \in d.told)) ELSE <<>>)
                  /\ mRetries' = IF same /\ d.told # {} THEN 0 ELSE mRetries
                  /\ UNCHANGED <<timers, call, refused>>
    /\ UNCHANGED <<agnss, client>>

-----------------------------------------------------------------------------
(* The retry timer, the modem, the data call, agnss_nif                    *)

(* DSStateMachine::retryCallback                                           *)
RetryCallback ==
    /\ timers > 0
    /\ timers' = timers - 1
    /\ msgQ' = IF Active(ds) = {} THEN msgQ
               ELSE Append(msgQ, ClientMsgOf("REQUEST_SUPL_ES", FirstActive(ds, order)))
    /\ UNCHANGED <<ds, order, mRetries, call, refused, agnss, client>>

Room == Len(msgQ) + timers < MaxMsgs

Ask(s) ==
    /\ Room
    /\ client[s] = "idle"
    /\ \A type \in {"REQUEST_SUPL_ES", "REQUEST_ATL", "RELEASE_ATL"} : ~ Queued(type, s)
    /\ client' = [client EXCEPT ![s] = "asked"]
    /\ msgQ' = Append(msgQ, ClientMsgOf("REQUEST_SUPL_ES", s))
    /\ UNCHANGED <<ds, order, mRetries, timers, call, refused, agnss>>

GiveUp(s) ==
    /\ Room
    /\ client[s] \in {"asked", "open"}
    /\ client' = [client EXCEPT ![s] = "leaving"]
    /\ msgQ' = Append(msgQ, ClientMsgOf("RELEASE_ATL", s))
    /\ UNCHANGED <<ds, order, mRetries, timers, call, refused, agnss>>

CallEvent(from, to, type) ==
    /\ call = from
    /\ call' = to
    /\ refused' = (refused /\ to = "up")
    /\ msgQ' = Append(msgQ, CallMsgOf(type))
    /\ UNCHANGED <<ds, order, mRetries, timers, agnss, client>>

CallConnected == CallEvent("starting", "up", "SUPL_ES_OPENED")
CallFailed    == CallEvent("starting", "none", "SUPL_ES_CLOSED")
CallStopped   == CallEvent("stopping", "none", "SUPL_ES_CLOSED")
CallLost      == Room /\ CallEvent("up", "none", "SUPL_ES_CLOSED")

AgnssOpened(s) ==
    /\ s \in agnss /\ client[s] = "asked"
    /\ Tell({s}, "OPEN")
    /\ UNCHANGED <<ds, order, mRetries, timers, call, refused, agnss, msgQ>>

AgnssEnded(s) ==
    /\ s \in agnss
    /\ Tell({s}, "CLOSE")
    /\ agnss' = agnss \ {s}
    /\ UNCHANGED <<ds, order, mRetries, timers, call, refused, msgQ>>

-----------------------------------------------------------------------------
ProcMsg ==
    \/ ProcReleaseAtl \/ ProcRequestAtl \/ ProcSuplEsOpened
    \/ \E result \in DataCallResults :
          ProcRequestSuplEs(result) \/ ProcSuplEsClosed(result)

Next ==
    \/ ProcMsg
    \/ RetryCallback
    \/ \E s \in Subs : Ask(s) \/ GiveUp(s) \/ AgnssOpened(s) \/ AgnssEnded(s)
    \/ CallConnected \/ CallFailed \/ CallStopped \/ CallLost

Spec == Init /\ [][Next]_vars

Fairness ==
    /\ WF_vars(ProcMsg)
    /\ WF_vars(RetryCallback)
    /\ WF_vars(CallConnected \/ CallFailed)
    /\ WF_vars(CallStopped)
    /\ \A s \in Subs : WF_vars(AgnssOpened(s) \/ AgnssEnded(s))

FairSpec == Spec /\ Fairness
-----------------------------------------------------------------------------
(* Properties                                                              *)

\* The state and the list agree, except that in Released the list may hold
\* connections whose call is to be retried.
StateMatchesList ==
    /\ ds.state \in {"Pending", "Acquired"} => Active(ds) # {}
    /\ ds.state = "Releasing" => Inactive(ds) # {}
    /\ ds.state = "Released" => ds.inactive = {}

\* The modem has only this connection, all the time.
Alone(s) == \A t \in Subs \ {s} : client[t] = "idle"

\* The wait for the close is a wait for something: in Releasing the call is
\* being stopped, or the report that it ended is in the queue.  The one other
\* case is a stop that the data services refused, with the call it was to
\* stop still there: such a wait lasts until the call is lost by itself, for
\* nobody looks at the result of stopDataCall or tries again.
CloseIsComing ==
    ds.state = "Releasing" =>
        \/ call = "stopping"
        \/ Contains(msgQ, CallMsgOf("SUPL_ES_CLOSED"))
        \/ refused /\ call \in {"starting", "up"}

\* While the interface has a single connection, its wait for the close ends,
\* unless the stop of the call was refused; and a refused stop is the only
\* reason to wait without a close on its way.
ReleasingEnds ==
    \A s \in Subs :
        []Alone(s) => /\ []CloseIsComing
                      /\ ds.state = "Releasing" ~> ds.state # "Releasing" \/ refused

\* A connection that does not share the interface is opened, refused or
\* closed.
EveryoneAnswered ==
    \A s \in Subs : []Alone(s) => (client[s] = "asked" ~> client[s] # "asked")

\* The same of connections that share it.
SharersAnswered == \A s \in Subs : client[s] = "asked" ~> client[s] # "asked"

\* What "the list should really be empty, nothing to remove" of
\* AgpsReleasedState claims: a connection reported closed is not served.
UnsubscribedIsGone ==
    \A s \in Subs : client[s] \in {"idle", "closed"} => s \notin Active(ds)

\* What "already requested for NIF resource" of AgpsPendingState claims: in
\* Pending an answer of the data services is due.
PendingIsRequested ==
    ds.state = "Pending" =>
        \/ call = "starting"
        \/ Contains(msgQ, CallMsgOf("SUPL_ES_OPENED"))
        \/ Contains(msgQ, CallMsgOf("SUPL_ES_CLOSED"))

\* What "we need to add subscriber to the list" of AgpsReleasingState claims.
SubscriptionIsListed ==
    [][\A s \in Subs :
         Take("REQUEST_SUPL_ES") /\ Head(msgQ).sub = s /\ msgQ' = Tail(msgQ)
           => s \in Active(ds')]_vars
=============================================================================
