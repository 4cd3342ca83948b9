----------------------------- MODULE AgpsStates -----------------------------
(***************************************************************************)
(* The four states of the AGPS network-interface machine of the GPS HAL,   *)
(* libloc_api_50001/loc_eng_agps.cpp: AgpsReleasedState, AgpsPendingState, *)
(* AgpsAcquiredState and AgpsReleasingState.                               *)
(*                                                                         *)
(* A handler of a state is an operator from a machine to an outcome, so    *)
(* that every machine built on these states (AgpsNif here) uses the same   *)
(* definitions.  The linked list of subscribers is a set: it holds no two  *)
(* subscribers that are `equals', and nothing but the contents of the      *)
(* message to the servicer depends on its order.                           *)
(***************************************************************************)
CONSTANTS
    Subs,            \* the clients that may subscribe (Subscriber::ID)
    Waiting          \* those whose waitForCloseComplete() is true

ASSUME WaitingAssumption == Waiting \subseteq Subs

StateNames == {"Released", "Pending", "Acquired", "Releasing"}

(* A machine: its current state, its subscribers, and those of them whose  *)
(* mIsInactive flag is set.                                                *)
Machine == [state : StateNames, subs : SUBSET Subs, inactive : SUBSET Subs]

NewMachine == [state |-> "Released", subs |-> {}, inactive |-> {}]

Active(m)   == m.subs \ m.inactive          \* BROADCAST_ACTIVE
Inactive(m) == m.subs \cap m.inactive       \* BROADCAST_INACTIVE

Statuses == {"UNSUBSCRIBE", "GRANTED", "RELEASED", "DENIED"}

(* An outcome: the machine afterwards, who was notified of which status,   *)
(* and the request made of the servicer.                                   *)
Outcome(m, told, status, ask) ==
    [m |-> m, told |-> told, status |-> status, ask |-> ask]

Ignored(m) == Outcome(m, {}, "GRANTED", "none")

GoTo(m, st) == [m EXCEPT !.state = st]

\* AgpsStateMachine::addSubscriber: the list gets a clone, unless an equal
\* subscriber (active or not) is already in it.
AddSubscriber(m, s) == [m EXCEPT !.subs = @ \cup {s}]

\* The deletion of notifySubscribers when postNotifyDelete is set.
Drop(m, S) == [m EXCEPT !.subs = @ \ S, !.inactive = @ \ S]

-----------------------------------------------------------------------------
\* A mistake: in Pending nothing is to be done, so the list is left alone.
OnSubscribeIgnoredInPending(m, s) ==
    CASE m.state = "Released" ->
            Outcome(GoTo(AddSubscriber(m, s), "Pending"), {}, "GRANTED", "REQUEST")
      [] m.state \in {"Pending", "Releasing"} -> Ignored(m)
      [] m.state = "Acquired" ->
            Outcome(AddSubscriber(m, s), {s}, "GRANTED", "none")

(* RSRC_SUBSCRIBE                                                          *)

OnSubscribe(m, s) ==
    CASE m.state = "Released" ->
            Outcome(GoTo(AddSubscriber(m, s), "Pending"), {}, "GRANTED", "REQUEST")
      [] m.state \in {"Pending", "Releasing"} ->
            Outcome(AddSubscriber(m, s), {}, "GRANTED", "none")
      [] m.state = "Acquired" ->
            Outcome(AddSubscriber(m, s), {s}, "GRANTED", "none")

(* RSRC_UNSUBSCRIBE, of a subscriber found in the list.  A subscriber that *)
(* waits for the close stays, inactive; another one is told and deleted.   *)
(* The last active one to leave gives the resource back, unless that was   *)
(* already done on the way to Releasing.                                   *)
Leave(m, s) == IF s \in Waiting THEN [m EXCEPT !.inactive = @ \cup {s}]
                                ELSE Drop(m, {s})

ToldOnLeave(s) == {s} \ Waiting

\* A mistake the checks must catch: the resource is never given back.
OnUnsubscribeKeepingResource(m, s) ==
    LET left == Leave(m, s)
    IN Outcome(GoTo(left, IF left.subs = {} THEN "Released"
                          ELSE IF Active(left) = {} THEN "Releasing" ELSE m.state),
               ToldOnLeave(s), "UNSUBSCRIBE", "none")

\* A mistake: only the last subscriber, active or not, is looked for.
OnUnsubscribeCountingAll(m, s) ==
    LET left == Leave(m, s)
    IN IF m.state = "Released" THEN Outcome(m, {s}, "UNSUBSCRIBE", "none")
       ELSE IF left.subs = {}
            THEN Outcome(GoTo(left, "Released"), ToldOnLeave(s), "UNSUBSCRIBE",
                         IF m.state = "Releasing" THEN "none" ELSE "RELEASE")
            ELSE Outcome(left, ToldOnLeave(s), "UNSUBSCRIBE", "none")

OnUnsubscribe(m, s) ==
    LET left == Leave(m, s)
        give == IF m.state = "Releasing" THEN "none" ELSE "RELEASE"
    IN CASE m.state = "Released" -> Outcome(m, {s}, "UNSUBSCRIBE", "none")
         [] m.state # "Released" /\ left.subs = {} ->
              Outcome(GoTo(left, "Released"), ToldOnLeave(s), "UNSUBSCRIBE", give)
         [] m.state # "Released" /\ left.subs # {} /\ Active(left) = {} ->
              Outcome(GoTo(left, "Releasing"), ToldOnLeave(s), "UNSUBSCRIBE", give)
         [] m.state # "Released" /\ Active(left) # {} ->
              Outcome(left, ToldOnLeave(s), "UNSUBSCRIBE", "none")

\* A mistake: the grant is recorded but announced to nobody.
OnGrantedSilently(m) ==
    IF m.state = "Pending"
    THEN Outcome(GoTo(m, "Acquired"), {}, "GRANTED", "none") ELSE Ignored(m)

(* RSRC_GRANTED: only Pending waits for it.                                *)
OnGranted(m) ==
    IF m.state = "Pending"
    THEN Outcome(GoTo(m, "Acquired"), Active(m), "GRANTED", "none")
    ELSE Ignored(m)

(* In Releasing both RSRC_RELEASED and RSRC_DENIED end the wait of the     *)
(* inactive subscribers; whoever subscribed meanwhile starts a new request.*)
CloseCompleted(m, status) ==
    LET rest == Drop(m, Inactive(m))
    IN IF Active(m) # {}
       THEN Outcome(GoTo(rest, "Pending"), Inactive(m), status, "REQUEST")
       ELSE Outcome(GoTo(rest, "Released"), Inactive(m), status, "none")

\* A mistake: a forced release that notifies nobody.
OnReleasedSilently(m) ==
    CASE m.state = "Acquired" ->
            Outcome(GoTo(Drop(m, m.subs), "Released"), {}, "RELEASED", "none")
      [] m.state = "Releasing" -> CloseCompleted(m, "RELEASED")
      [] m.state \in {"Released", "Pending"} -> Ignored(m)

(* RSRC_RELEASED: in Acquired, a release nobody asked for.                 *)
OnReleased(m) ==
    CASE m.state = "Acquired" ->
            Outcome(GoTo(Drop(m, m.subs), "Released"), m.subs, "RELEASED", "none")
      [] m.state = "Releasing" -> CloseCompleted(m, "RELEASED")
      [] m.state \in {"Released", "Pending"} -> Ignored(m)

(* RSRC_DENIED                                                             *)
OnDenied(m) ==
    CASE m.state = "Pending" ->
            Outcome(GoTo(Drop(m, m.subs), "Released"), m.subs, "DENIED", "none")
      [] m.state = "Releasing" -> CloseCompleted(m, "DENIED")
      [] m.state \in {"Released", "Acquired"} -> Ignored(m)

(* AgpsState::onRsrcEvent for the three events of the servicer.            *)
OnRsrcEvent(m, event) ==
    CASE event = "GRANTED"  -> OnGranted(m)
      [] event = "RELEASED" -> OnReleased(m)
      [] event = "DENIED"   -> OnDenied(m)
=============================================================================
