----------------------------- MODULE AgpsRestart -----------------------------
(***************************************************************************)
(* AgpsNif across restarts of the modem.  LocApiV02::errorCb reports the   *)
(* engine down and, at once, up again; the message thread then closes and  *)
(* reopens the connection to the modem and runs loc_eng_handle_engine_up,  *)
(* which empties the subscriber list of agnss_nif and internet_nif and     *)
(* touches nothing else of them.                                           *)
(***************************************************************************)
EXTENDS AgpsNif

EngineUp == [type |-> "ENGINE_UP"]
Restarting == Contains(msgQ, EngineUp)

(* The modem forgets its connections: whatever it asked for is void.       *)
ModemRestart ==
    /\ Room
    /\ ~ Restarting
    /\ client' = [s \in Subs |-> IF s \in ModemSubs THEN "idle" ELSE client[s]]
    /\ msgQ' = Append(msgQ, EngineUp)
    /\ UNCHANGED <<nif, fwQ, conn>>

\* A mistake: only the subscribers that wait for a close are dropped.
DropInactive == nif' = Drop(nif, Inactive(nif))

(* AgpsStateMachine::dropAllSubscribers: nobody is notified, the state     *)
(* stays.                                                                  *)
DropAllSubscribers == nif' = Drop(nif, nif.subs)

ProcEngineUp == Proc("ENGINE_UP") /\ DropAllSubscribers /\ UNCHANGED <<client, fwQ>>

(* The modem sends no request before its connection is reopened.           *)
AskAgain(s) == (s \in ModemSubs => ~ Restarting) /\ Ask(s)

RestartNext ==
    \/ ProcSubscribe \/ ProcUnsubscribe \/ ProcRsrc \/ ProcEngineUp
    \/ \E s \in Subs : AskAgain(s) \/ GiveUp(s)
    \/ FwRequested \/ FwReleased \/ FwOpened \/ FwOpenFailed \/ FwLost
    \/ ModemRestart

RestartSpec == Init /\ [][RestartNext]_vars

-----------------------------------------------------------------------------
(* Properties                                                              *)

\* A connection of the modem that is in the list is one the modem knows,
\* unless the list is about to be emptied: no connection from before a
\* restart is served after it.
NoGhosts == \A s \in nif.subs \cap ModemSubs : client[s] # "idle" \/ Restarting

\* The inductive invariant behind it.  Behind the restart of the modem there
\* is no second one and no message of the modem; a subscription follows no
\* other message of its client; and only listed clients are inactive, none of
\* them in Released.
SubscribeMsg(s) == ClientMsgOf("SUBSCRIBE", s)
ModemMsgs == {m \in ClientMsg : m.sub \in ModemSubs}

QueueOK(q) ==
    \A i, j \in 1 .. Len(q) : i < j =>
        /\ q[i] = EngineUp => q[j] # EngineUp /\ q[j] \notin ModemMsgs
        /\ \A s \in ModemSubs : q[j] = SubscribeMsg(s) =>
              q[i] # SubscribeMsg(s) /\ q[i] # ClientMsgOf("UNSUBSCRIBE", s)

NifOK ==
    /\ nif.inactive \subseteq nif.subs \cap Waiting
    /\ nif.state = "Released" => nif.subs = {}

\* What the modem knows: nothing while it is restarting; and then a client
\* it does not know is neither listed nor about to be.
KnownOK(s) ==
    IF Restarting THEN client[s] = "idle"
    ELSE /\ client[s] = "idle" => s \notin nif.subs
         /\ Queued("SUBSCRIBE", s) => client[s] # "idle" /\ s \notin nif.subs

RestartInv ==
    /\ nif \in Machine
    /\ client \in [Subs -> {"idle", "asked", "open", "leaving"}]
    /\ msgQ \in Seq(Msg \cup {EngineUp})
    /\ QueueOK(msgQ)
    /\ NifOK
    /\ \A s \in ModemSubs : KnownOK(s)

\* "no more subscribers, move to RELEASED state": the machine holds or waits
\* for the resource only on behalf of somebody.
HeldForSomebody == nif.state # "Released" => nif.subs # {}
=============================================================================
