------------------------ MODULE BleApplicationProofs ------------------------
(***************************************************************************)
(* Proofs about BleApplication, for any number of waiting events, any      *)
(* number of attempts of the negotiation and any calls refused as busy.    *)
(***************************************************************************)
EXTENDS BleApplication, TLAPS

-----------------------------------------------------------------------------
(***************************************************************************)
(* The inductive invariant.                                                *)
(***************************************************************************)

PassedOn(id) == ev # None /\ ev.id = id

\* A link begins with CONNECTED and ends with DISCONNECTED, and the next one only
\* begins when all of that was passed on.
QueueInv ==
    /\ advertising => events = <<>> /\ ev = None /\ link = "none"
    /\ \A i \in 1 .. Len(events) :
         /\ events[i].id = "DISCONNECTED" => i = Len(events) /\ link = "none"
         /\ events[i].id = "CONNECTED" => i = 1 /\ ev = None
    /\ PassedOn("DISCONNECTED") => events = <<>> /\ link = "none"
    /\ link = "none" => advertising \/ Pending("DISCONNECTED") \/ PassedOn("DISCONNECTED")

\* What each module holds of the link, from which observers were told of it.
HandlesInv ==
    /\ connected => valid
    /\ ev = None =>
         /\ connected     <=> ~advertising /\ ~Pending("CONNECTED")
         /\ instance      <=> ~advertising /\ ~Pending("CONNECTED")
         /\ qwr_handle    <=> ~advertising /\ ~Pending("CONNECTED")
         /\ m_conn_handle <=> ~advertising /\ ~Pending("CONNECTED")
    /\ PassedOn("CONNECTED") =>
         /\ connected <=> observer # "conn_state"
         /\ instance  <=> observer \in {"qwr", "ble_user"}
         /\ ~qwr_handle /\ ~m_conn_handle
    /\ PassedOn("DISCONNECTED") =>
         /\ connected  <=> observer = "conn_state"
         /\ instance   <=> observer \in {"conn_state", "conn_params"}
         /\ qwr_handle <=> observer # "ble_user"
         /\ m_conn_handle
    /\ (ev # None /\ ev.id \notin {"CONNECTED", "DISCONNECTED"}) =>
         connected /\ instance /\ qwr_handle /\ m_conn_handle

\* Where the reply to a memory request stands.
MemoryInv ==
    /\ link = "none" => ~mem_request
    /\ mem_request =>
         \/ Pending("USER_MEM_REQUEST")
         \/ PassedOn("USER_MEM_REQUEST") /\ observer # "ble_user"
         \/ is_user_mem_reply_pending /\ qwr_handle

\* The attempts are counted, until the last of them ends the link; a timer that
\* outlived its negotiation finds the count reset.
AttemptsInv ==
    /\ instance => update_count = asked \/ (update_count = 0 /\ link # "up")
    /\ (instance /\ timer /\ params_ok) => update_count = 0

\* A request is still to be seen by nrf_ble_qwr.
ToReply(id) == PassedOn(id) /\ observer # "ble_user"

Open(id) == Pending(id) \/ ToReply(id)

Single(id) ==
    /\ \A i, j \in 1 .. Len(events) : events[i].id = id /\ events[j].id = id => i = j
    /\ ~(Pending(id) /\ ToReply(id))

\* On a link that is up a request comes once, and its reply is only sent while the
\* stack waits for it.
RequestsInv ==
    /\ is_user_mem_reply_pending => qwr_handle
    /\ link = "up" =>
         /\ Single("USER_MEM_REQUEST") /\ Single("RW_AUTHORIZE_REQUEST")
         /\ Open("USER_MEM_REQUEST") => mem_request /\ ~is_user_mem_reply_pending
         /\ is_user_mem_reply_pending => mem_request
         /\ Open("RW_AUTHORIZE_REQUEST") => auth_request

\* The resets for a call that came too late.
ResetInv ==
    /\ fatal # "advertise"
    /\ fatal \notin {None, "busy"} => link # "up" /\ ~advertising

RunningInv == QueueInv /\ HandlesInv /\ MemoryInv /\ RequestsInv /\ AttemptsInv

AppInv ==
    /\ TypeOK
    /\ TimerOfLink
    /\ ResetInv
    /\ fatal = None => RunningInv

-----------------------------------------------------------------------------
(***************************************************************************)
(* The queue of events.                                                    *)
(***************************************************************************)

\* What is appended comes last, and is pending from then on.
LEMMA Appended ==
    ASSUME events \in Seq(Events), NEW id \in EventIds, NEW ok \in BOOLEAN, Event(id, ok)
    PROVE  /\ events' \in Seq(Events)
           /\ Len(events') = Len(events) + 1
           /\ \A i \in 1 .. Len(events) : events'[i] = events[i]
           /\ events'[Len(events')].id = id
           /\ \A other : Pending(other)' <=> Pending(other) \/ other = id
<1> DEFINE e == [id |-> id, ok |-> ok]
<1>1. e \in Events /\ e.id = id
  BY DEF Events
<1>2. events' = Append(events, e)
  BY DEF Event
<1> HIDE DEF e
<1>3. /\ events' \in Seq(Events)
      /\ Len(events') = Len(events) + 1
      /\ \A i \in 1 .. Len(events) : events'[i] = events[i]
      /\ events'[Len(events')] = e
  BY <1>1, <1>2
<1>4. \A other : Pending(other)' <=> Pending(other) \/ other = id
  BY <1>1, <1>3 DEF Pending
<1> QED
  BY <1>1, <1>3, <1>4

\* What is taken is the first, and no longer pending but for another like it.
LEMMA Taken ==
    ASSUME events \in Seq(Events), events # <<>>, events' = Tail(events)
    PROVE  /\ events' \in Seq(Events)
           /\ Head(events) \in Events
           /\ Head(events) = events[1]
           /\ 1 \in 1 .. Len(events)
           /\ Len(events') = Len(events) - 1
           /\ Len(events) = 1 => events' = <<>>
           /\ \A i \in 1 .. Len(events') : events'[i] = events[i + 1] /\ i + 1 \in 1 .. Len(events)
           /\ \A id : Pending(id) <=> Pending(id)' \/ id = Head(events).id
<1>0. Len(events) = 1 => events' = <<>>
  OBVIOUS
<1>1. /\ events' \in Seq(Events)
      /\ Head(events) \in Events
      /\ Head(events) = events[1]
      /\ 1 \in 1 .. Len(events)
      /\ Len(events') = Len(events) - 1
      /\ \A i \in 1 .. Len(events') : events'[i] = events[i + 1] /\ i + 1 \in 1 .. Len(events)
  OBVIOUS
<1>2. ASSUME NEW id, Pending(id) PROVE Pending(id)' \/ id = Head(events).id
  <2>1. PICK i \in 1 .. Len(events) : events[i].id = id
    BY <1>2 DEF Pending
  <2>2. CASE i = 1
    BY <1>1, <2>1, <2>2
  <2>3. CASE i # 1
    <3>1. PICK j \in 1 .. Len(events') : i = j + 1
      <4>1. i - 1 \in 1 .. Len(events') /\ i = (i - 1) + 1
        BY <1>1, <2>3
      <4> QED
        BY <4>1
    <3>2. events'[j].id = id
      BY <1>1, <2>1, <3>1
    <3>3. j \in DOMAIN events'
      BY <1>1, <3>1
    <3> QED
      BY <3>2, <3>3 DEF Pending
  <2> QED
    BY <2>2, <2>3
<1>3. ASSUME NEW id, Pending(id)' \/ id = Head(events).id PROVE Pending(id)
  BY <1>1, <1>3 DEF Pending
<1> QED
  BY <1>0, <1>1, <1>2, <1>3

-----------------------------------------------------------------------------
(***************************************************************************)
(* Types.                                                                  *)
(***************************************************************************)

\* Every action leaves the variables in their types.
LEMMA TypesKept == AppInv /\ [Next]_vars => TypeOK'
<1> SUFFICES ASSUME AppInv, [Next]_vars PROVE TypeOK'
  OBVIOUS
<1> USE DEF AppInv, TypeOK, SdTypeOK, CpTypeOK, BcsTypeOK, QwrTypeOK, Causes, sdVars, cpVars,
            bcsVars, qwrVars, appVars
<1>0. 0 \in 0 .. max_conn_params_update_count
  BY UpdateCountAssumption
<1>1. CASE SoftDeviceStep
  <2>1. events' \in Seq(Events)
    BY <1>1, Appended DEF SoftDeviceStep, SoftDeviceActs, Connect, Disconnect,
       UpdateParams, PeerAsks, EventIds
  <2> QED
    BY <1>1, <2>1 DEF SoftDeviceStep, SoftDeviceActs, Connect, Disconnect,
       UpdateParams, PeerAsks, LinkReset
<1>2. CASE Poll
  BY <1>2, Taken DEF Poll, Observers
<1>3. CASE ObserveConnState
  BY <1>3 DEF ObserveConnState, Turn, conn_state_on_ble_evt, Observers
<1>4. CASE ObserveConnParams
  <2>1. /\ UNCHANGED <<sdVars, bcsVars, qwrVars, ev, m_conn_handle, fatal>>
        /\ observer' = "qwr"
        /\ asked' \in {0, asked}
        /\ ev \in Events
        /\ conn_params_on_ble_evt(ev)
    BY <1>4 DEF ObserveConnParams, Turn
  <2>2. /\ update_count' \in {0, update_count}
        /\ {instance', params_ok', timer'} \subseteq BOOLEAN
    BY <2>1 DEF conn_params_on_ble_evt, on_connect, on_disconnect, on_conn_params_update,
       conn_params_negotiation, Events
  <2> QED
    BY <1>0, <2>1, <2>2 DEF Observers
<1>5. CASE ObserveQwr
  <2>1. /\ UNCHANGED <<link, advertising, conn_params, updating, events, cpVars, bcsVars,
                        ev, m_conn_handle, asked>>
        /\ observer' = "ble_user" /\ fatal' \in {"qwr", "busy", None}
        /\ mem_request' \in BOOLEAN /\ auth_request' \in BOOLEAN
        /\ qwr_handle' \in BOOLEAN /\ is_user_mem_reply_pending' \in BOOLEAN
    BY <1>5 DEF ObserveQwr, Turn, qwr_on_ble_evt, user_mem_reply, APP_ERROR
  <2> QED
    BY <2>1 DEF Observers
<1>6. CASE OnConnected \/ OnDisconnected \/ OnGattTimeout \/ OnOther
           \/ \E id \in PeerRequests : OnPeerRequest(id)
  BY <1>6 DEF OnConnected, OnDisconnected, OnGattTimeout, OnOther, OnPeerRequest, UserTurn,
     Turn, APP_ERROR, Observers
<1>7. CASE TimeoutAsksAgain
  <2>1. /\ update_count < max_conn_params_update_count
        /\ \E result \in sd_ble_gap_conn_param_update(instance) :
             /\ send_update_request(result)
             /\ APP_ERROR(result \notin {"SUCCESS", "BUSY"}, "update")
             /\ asked' = IF result = "SUCCESS" THEN asked + 1 ELSE asked
    BY <1>7 DEF TimeoutAsksAgain, AttemptsLeft
  <2>2. asked' \in 0 .. max_conn_params_update_count
    <3>1. update_count = asked \/ link # "up"
      BY <1>7 DEF TimeoutAsksAgain, Expires, RunningInv, AttemptsInv
    <3>2. CASE asked' = asked
      BY <3>2
    <3>3. CASE "SUCCESS" \in sd_ble_gap_conn_param_update(instance) /\ asked' = asked + 1
      <4>1. link = "up"
        BY <1>7, <3>3 DEF TimeoutAsksAgain, sd_ble_gap_conn_param_update, OnLink
      <4> QED
        BY <2>1, <3>1, <3>3, <4>1, UpdateCountAssumption
    <3> QED
      BY <2>1, <3>2, <3>3
  <2>3. /\ UNCHANGED <<link, advertising, conn_params, mem_request, auth_request, events,
                        instance, params_ok, bcsVars, qwrVars, ev, observer, m_conn_handle>>
        /\ timer' = FALSE
        /\ fatal' \in {"update", None}
        /\ updating' \in BOOLEAN
        /\ update_count' \in {update_count, update_count + 1}
    BY <1>7, <2>1 DEF TimeoutAsksAgain, Expires, send_update_request, APP_ERROR
  <2>4. update_count' \in 0 .. max_conn_params_update_count
    BY <2>1, <2>3, UpdateCountAssumption
  <2> QED
    BY <2>2, <2>3, <2>4
<1>8. CASE TimeoutGivesUp
  <2>1. /\ UNCHANGED <<advertising, conn_params, updating, mem_request, auth_request, events,
                        instance, params_ok, bcsVars, qwrVars, ev, observer, m_conn_handle,
                        asked>>
        /\ update_count' = 0 /\ timer' = FALSE
        /\ fatal' \in {"failed", None} /\ link' \in {link, "closing"}
    BY <1>8 DEF TimeoutGivesUp, Expires, APP_ERROR
  <2> QED
    BY <1>0, <2>1
<1>9. CASE Restart
  <2>1. /\ link' = "none" /\ events' = <<>> /\ ev' = None /\ fatal' = None
        /\ observer' = "conn_state" /\ update_count' = 0 /\ asked' = 0
        /\ {advertising', conn_params', updating', mem_request', auth_request', instance',
            params_ok', timer', valid', connected', qwr_handle', is_user_mem_reply_pending',
            m_conn_handle'} \subseteq BOOLEAN
    BY <1>9 DEF Restart, LinkReset
  <2> QED
    BY <1>0, <2>1 DEF Observers
<1>10. CASE UNCHANGED vars
  BY <1>10 DEF vars
<1> QED
  BY <1>1, <1>2, <1>3, <1>4, <1>5, <1>6, <1>7, <1>8, <1>9, <1>10 DEF Next, Dispatch, Timeout

-----------------------------------------------------------------------------
(***************************************************************************)
(* The link and its events.                                                *)
(***************************************************************************)

\* A call that ends the link succeeds on one that is up.
LinkEnds == link' = link \/ (link = "up" /\ link' = "closing")

LEMMA DisconnectEnds ==
    ASSUME NEW handle, NEW result \in sd_ble_gap_disconnect(handle),
           link' = IF result = "SUCCESS" THEN "closing" ELSE link, TypeOK
    PROVE  LinkEnds
BY DEF sd_ble_gap_disconnect, OnLink, LinkEnds, TypeOK, SdTypeOK

\* What the handler of ble_user.c does with an event, but with DISCONNECTED.
LEMMA HandlerSteps ==
    ASSUME TypeOK, OnConnected \/ OnGattTimeout \/ OnOther
                     \/ \E id \in PeerRequests : OnPeerRequest(id)
    PROVE  /\ ev # None /\ ev.id # "DISCONNECTED" /\ ev' = None
           /\ UNCHANGED <<advertising, events, cpVars, bcsVars, mem_request, auth_request,
                          is_user_mem_reply_pending, asked>>
           /\ LinkEnds
           /\ observer = "ble_user"
           /\ ev.id = "CONNECTED" => m_conn_handle' /\ qwr_handle'
           /\ ev.id # "CONNECTED" => UNCHANGED <<m_conn_handle, qwr_handle>>
<1>1. CASE OnConnected
  BY <1>1 DEF OnConnected, UserTurn, Turn, LinkEnds
<1>2. CASE OnGattTimeout
  BY <1>2, DisconnectEnds DEF OnGattTimeout, UserTurn, Turn
<1>3. CASE OnOther
  BY <1>3 DEF OnOther, UserTurn, Turn, LinkEnds
<1>4. CASE \E id \in PeerRequests : OnPeerRequest(id)
  BY <1>4 DEF OnPeerRequest, UserTurn, Turn, LinkEnds, PeerRequests
<1> QED
  BY <1>1, <1>2, <1>3, <1>4

\* What the handler of the timer does to all but the negotiation.
LEMMA TimeoutSteps ==
    ASSUME TypeOK, Timeout
    PROVE  /\ ev = None /\ fatal = None /\ timer /\ instance /\ ~timer' /\ instance'
           /\ UNCHANGED <<advertising, events, params_ok, bcsVars, qwrVars, ev, observer,
                          m_conn_handle, mem_request, auth_request>>
           /\ LinkEnds
<1>1. CASE TimeoutAsksAgain
  BY <1>1 DEF TimeoutAsksAgain, Expires, send_update_request, LinkEnds
<1>2. CASE TimeoutGivesUp
  BY <1>2, DisconnectEnds DEF TimeoutGivesUp, Expires
<1> QED
  BY <1>1, <1>2 DEF Timeout

LEMMA ObserverSteps ==
    ASSUME ObserveConnState \/ ObserveConnParams \/ ObserveQwr
    PROVE  /\ ev # None
           /\ UNCHANGED <<ev, link, advertising, events, m_conn_handle>>
BY DEF ObserveConnState, ObserveConnParams, ObserveQwr, Turn, qwr_on_ble_evt, sdVars

LEMMA QueueAtSoftDevice ==
    ASSUME TypeOK, QueueInv, SoftDeviceActs, UNCHANGED ev
    PROVE  QueueInv'
<1> USE DEF TypeOK, SdTypeOK
<1>1. CASE Connect
  <2>1. /\ events = <<>> /\ ev' = None /\ link' = "up" /\ ~advertising'
        /\ \E ok \in BOOLEAN : Event("CONNECTED", ok)
    BY <1>1 DEF Connect, QueueInv
  <2>2. Len(events') = 1 /\ events'[1].id = "CONNECTED"
    BY <2>1, Appended DEF EventIds
  <2> QED
    BY <2>1, <2>2 DEF QueueInv, PassedOn
<1>2. CASE Disconnect
  <2>1. /\ link # "none" /\ link' = "none" /\ UNCHANGED advertising
        /\ Event("DISCONNECTED", TRUE)
    BY <1>2 DEF Disconnect
  <2>2. /\ Len(events') = Len(events) + 1
        /\ \A i \in 1 .. Len(events) : events'[i] = events[i]
        /\ events'[Len(events')].id = "DISCONNECTED"
        /\ Pending("DISCONNECTED")'
    BY <2>1, Appended DEF EventIds
  <2>3. ~advertising' /\ ~PassedOn("DISCONNECTED")'
    BY <2>1 DEF QueueInv, PassedOn
  <2>4. ASSUME NEW i \in 1 .. Len(events')
        PROVE  /\ events'[i].id = "DISCONNECTED" => i = Len(events')
               /\ events'[i].id = "CONNECTED" => i = 1 /\ ev' = None
    BY <2>1, <2>2 DEF QueueInv
  <2> QED
    BY <2>1, <2>2, <2>3, <2>4 DEF QueueInv
<1>3. CASE UpdateParams \/ \E id \in EventIds \ {"CONNECTED", "DISCONNECTED", "CONN_PARAM_UPDATE"} :
                              PeerAsks(id)
  <2>1. /\ link = "up" /\ link' = link /\ UNCHANGED advertising
        /\ \E id \in EventIds \ {"CONNECTED", "DISCONNECTED"}, ok \in BOOLEAN : Event(id, ok)
    BY <1>3 DEF UpdateParams, PeerAsks, EventIds
  <2>2. PICK id \in EventIds \ {"CONNECTED", "DISCONNECTED"} :
          /\ Len(events') = Len(events) + 1
          /\ \A i \in 1 .. Len(events) : events'[i] = events[i]
          /\ events'[Len(events')].id = id
    BY <2>1, Appended
  <2>3. ASSUME NEW i \in 1 .. Len(events')
        PROVE  /\ events'[i].id # "DISCONNECTED"
               /\ events'[i].id = "CONNECTED" => i = 1 /\ ev' = None
    BY <2>1, <2>2 DEF QueueInv
  <2>4. ~advertising' /\ ~PassedOn("DISCONNECTED")'
    BY <2>1 DEF QueueInv, PassedOn
  <2> QED
    BY <2>1, <2>3, <2>4 DEF QueueInv
<1> QED
  BY <1>1, <1>2, <1>3 DEF SoftDeviceActs

LEMMA QueueAtPoll ==
    ASSUME TypeOK, QueueInv, Poll
    PROVE  QueueInv'
<1>1. /\ ev = None /\ events # <<>> /\ ev' = Head(events) /\ events' = Tail(events)
      /\ UNCHANGED <<link, advertising>>
  BY DEF Poll
<1>2. events \in Seq(Events)
  BY DEF TypeOK, SdTypeOK
<1>3. ~advertising'
  BY <1>1 DEF QueueInv
<1>4. ASSUME NEW i \in 1 .. Len(events')
      PROVE  /\ events'[i].id = "DISCONNECTED" => i = Len(events') /\ link' = "none"
             /\ events'[i].id # "CONNECTED"
  <2>1. /\ events'[i] = events[i + 1] /\ i + 1 \in 1 .. Len(events)
        /\ Len(events') = Len(events) - 1 /\ Len(events) \in Nat
    BY <1>1, <1>2, Taken
  <2>2. /\ events[i + 1].id = "DISCONNECTED" => i + 1 = Len(events) /\ link = "none"
        /\ events[i + 1].id = "CONNECTED" => i + 1 = 1
    BY <2>1 DEF QueueInv
  <2>3. i \in Nat /\ i + 1 # 1 /\ (i + 1 = Len(events) => i = Len(events'))
    BY <2>1
  <2> QED
    BY <1>1, <2>1, <2>2, <2>3
<1>5. ASSUME PassedOn("DISCONNECTED")' PROVE events' = <<>> /\ link' = "none"
  <2>1. events[1].id = "DISCONNECTED"
    BY <1>1, <1>2, <1>5, Taken DEF PassedOn
  <2>2. 1 \in 1 .. Len(events)
    BY <1>1, <1>2, Taken
  <2>3. 1 = Len(events) /\ link = "none"
    BY <2>1, <2>2 DEF QueueInv
  <2> QED
    BY <1>1, <1>2, <2>3, Taken
<1>6. link' = "none" => Pending("DISCONNECTED")' \/ PassedOn("DISCONNECTED")'
  <2>1. Head(events).id = "DISCONNECTED" => PassedOn("DISCONNECTED")'
    BY <1>1, <1>2, Taken, NoneAssumption DEF PassedOn
  <2> QED
    BY <1>1, <1>2, <1>3, <2>1, Taken DEF QueueInv, PassedOn
<1> QED
  BY <1>3, <1>4, <1>5, <1>6 DEF QueueInv

\* The queue and the link are in step, whatever runs in between.
LEMMA QueueKept ==
    ASSUME TypeOK, QueueInv, fatal = None, fatal' = None, [Next]_vars, ~Restart
    PROVE  QueueInv'
<1>1. CASE SoftDeviceStep
  BY <1>1, QueueAtSoftDevice DEF SoftDeviceStep, appVars
<1>2. CASE Poll
  BY <1>2, QueueAtPoll
<1>3. CASE ObserveConnState \/ ObserveConnParams \/ ObserveQwr
  BY <1>3, ObserverSteps DEF QueueInv, PassedOn, Pending
<1>4. CASE OnConnected \/ OnGattTimeout \/ OnOther
           \/ \E id \in PeerRequests : OnPeerRequest(id)
  <2>1. /\ ev # None /\ ev.id # "DISCONNECTED" /\ ev' = None
        /\ UNCHANGED <<advertising, events>>
        /\ LinkEnds
    BY <1>4, HandlerSteps
  <2> QED
    BY <2>1 DEF QueueInv, PassedOn, Pending, LinkEnds
<1>5. CASE OnDisconnected
  <2>1. PassedOn("DISCONNECTED") /\ ev' = None /\ UNCHANGED <<link, events>>
    BY <1>5 DEF OnDisconnected, UserTurn, Turn, PassedOn
  <2>2. events = <<>> /\ link = "none" /\ ~advertising
    BY <2>1 DEF QueueInv, PassedOn
  <2>3. advertising'
    BY <1>5, <2>2, NoneAssumption DEF OnDisconnected, APP_ERROR, sd_ble_gap_adv_start, Causes
  <2> QED
    BY <2>1, <2>2, <2>3 DEF QueueInv, PassedOn
<1>6. CASE Timeout
  <2>1. UNCHANGED <<ev, advertising, events>> /\ LinkEnds
    BY <1>6, TimeoutSteps
  <2> QED
    BY <2>1 DEF QueueInv, PassedOn, Pending, LinkEnds
<1>7. CASE UNCHANGED vars
  BY <1>7 DEF vars, sdVars, appVars, QueueInv, PassedOn, Pending
<1> QED
  BY <1>1, <1>2, <1>3, <1>4, <1>5, <1>6, <1>7 DEF Next, Dispatch

-----------------------------------------------------------------------------
(***************************************************************************)
(* What the modules hold of the link.                                      *)
(***************************************************************************)

LEMMA HandlesAtSoftDevice ==
    ASSUME TypeOK, QueueInv, HandlesInv, SoftDeviceStep
    PROVE  HandlesInv'
<1> USE DEF TypeOK, SdTypeOK
<1>1. UNCHANGED <<connected, valid, instance, qwr_handle, m_conn_handle, ev, observer>>
  BY DEF SoftDeviceStep, cpVars, bcsVars, qwrVars, appVars
<1>2. CASE Connect
  <2>1. /\ advertising /\ ~advertising' /\ ev = None
        /\ \E ok \in BOOLEAN : Event("CONNECTED", ok)
    BY <1>2 DEF Connect, QueueInv
  <2>2. Pending("CONNECTED")'
    BY <2>1, Appended DEF EventIds
  <2> QED
    BY <1>1, <2>1, <2>2 DEF HandlesInv, PassedOn
<1>3. CASE SoftDeviceActs /\ ~Connect
  <2>1. /\ UNCHANGED advertising
        /\ \E id \in EventIds \ {"CONNECTED"}, ok \in BOOLEAN : Event(id, ok)
    BY <1>3 DEF SoftDeviceActs, Disconnect, UpdateParams, PeerAsks, EventIds
  <2>2. Pending("CONNECTED")' <=> Pending("CONNECTED")
    BY <2>1, Appended
  <2> QED
    BY <1>1, <2>1, <2>2 DEF HandlesInv, PassedOn
<1> QED
  BY <1>2, <1>3 DEF SoftDeviceStep

LEMMA HandlesAtPoll ==
    ASSUME TypeOK, QueueInv, HandlesInv, Poll
    PROVE  HandlesInv'
<1>1. /\ ev = None /\ events # <<>> /\ ev' = Head(events) /\ events' = Tail(events)
      /\ observer' = "conn_state"
      /\ UNCHANGED <<advertising, connected, valid, instance, qwr_handle, m_conn_handle>>
  BY DEF Poll, cpVars, bcsVars, qwrVars
<1>2. events \in Seq(Events) /\ ~advertising
  BY <1>1 DEF TypeOK, SdTypeOK, QueueInv
<1>3. ev' = events[1] /\ ev' # None
  BY <1>1, <1>2, Taken, NoneAssumption
<1>4. Pending("CONNECTED") <=> ev'.id = "CONNECTED"
  <2>1. ~Pending("CONNECTED")'
    <3>1. ASSUME NEW i \in DOMAIN events' PROVE events'[i].id # "CONNECTED"
      <4>1. i \in 1 .. Len(events')
        BY <1>1, <1>2, Taken
      <4>2. /\ events'[i] = events[i + 1] /\ i + 1 \in 1 .. Len(events)
        BY <1>1, <1>2, <4>1, Taken
      <4>3. i + 1 # 1
        BY <4>1
      <4> QED
        BY <4>2, <4>3 DEF QueueInv
    <3> QED
      BY <3>1 DEF Pending
  <2> QED
    BY <1>1, <1>2, <2>1, Taken
<1> QED
  BY <1>1, <1>2, <1>3, <1>4 DEF HandlesInv, PassedOn

\* Each module learns of the link, or of its end, when it is its turn.
LEMMA HandlesKept ==
    ASSUME TypeOK, QueueInv, HandlesInv, fatal = None, fatal' = None, [Next]_vars, ~Restart
    PROVE  HandlesInv'
<1>1. CASE SoftDeviceStep
  BY <1>1, HandlesAtSoftDevice
<1>2. CASE Poll
  BY <1>2, HandlesAtPoll
<1>3. CASE ObserveConnState
  <2>1. /\ ev # None /\ ev' = ev /\ observer = "conn_state" /\ observer' = "conn_params"
        /\ valid' <=> (valid \/ ev.id = "CONNECTED")
        /\ connected' <=> (connected \/ ev.id = "CONNECTED") /\ ev.id # "DISCONNECTED"
        /\ UNCHANGED <<instance, qwr_handle, m_conn_handle>>
    BY <1>3 DEF ObserveConnState, Turn, conn_state_on_ble_evt, cpVars, qwrVars
  <2> QED
    BY <2>1 DEF HandlesInv, PassedOn
<1>4. CASE ObserveConnParams
  <2>1. /\ ev # None /\ ev' = ev /\ observer = "conn_params" /\ observer' = "qwr"
        /\ UNCHANGED <<connected, valid, qwr_handle, m_conn_handle>>
        /\ conn_params_on_ble_evt(ev)
    BY <1>4 DEF ObserveConnParams, Turn, bcsVars, qwrVars
  <2>2. /\ ev.id = "CONNECTED" => instance'
        /\ ev.id = "DISCONNECTED" => ~instance'
        /\ ev.id \notin {"CONNECTED", "DISCONNECTED"} => instance' = instance
    BY <2>1 DEF conn_params_on_ble_evt, on_connect, on_disconnect, on_conn_params_update, cpVars
  <2> QED
    BY <2>1, <2>2 DEF HandlesInv, PassedOn
<1>5. CASE ObserveQwr
  <2>1. /\ ev # None /\ ev' = ev /\ observer = "qwr" /\ observer' = "ble_user"
        /\ UNCHANGED <<connected, valid, instance, m_conn_handle>>
        /\ qwr_handle' <=> qwr_handle /\ ev.id # "DISCONNECTED"
    BY <1>5 DEF ObserveQwr, Turn, bcsVars, cpVars, qwr_on_ble_evt
  <2> QED
    BY <2>1 DEF HandlesInv, PassedOn
<1>6. CASE OnConnected \/ OnGattTimeout \/ OnOther
           \/ \E id \in PeerRequests : OnPeerRequest(id)
  <2>1. /\ ev # None /\ ev.id # "DISCONNECTED" /\ ev' = None /\ observer = "ble_user"
        /\ UNCHANGED <<advertising, events, instance, connected, valid>>
        /\ ev.id = "CONNECTED" => m_conn_handle' /\ qwr_handle'
        /\ ev.id # "CONNECTED" => UNCHANGED <<m_conn_handle, qwr_handle>>
    BY <1>6, HandlerSteps DEF bcsVars, cpVars
  <2>2. connected' /\ instance' /\ qwr_handle' /\ m_conn_handle'
    BY <2>1 DEF HandlesInv, PassedOn
  <2>3. ~advertising' /\ ~Pending("CONNECTED")'
    BY <2>1 DEF QueueInv, Pending
  <2> QED
    BY <2>1, <2>2, <2>3 DEF HandlesInv, PassedOn
<1>7. CASE OnDisconnected
  <2>1. /\ PassedOn("DISCONNECTED") /\ ev' = None /\ observer = "ble_user"
        /\ ~m_conn_handle'
        /\ UNCHANGED <<link, events, connected, valid, instance, qwr_handle>>
    BY <1>7 DEF OnDisconnected, UserTurn, Turn, PassedOn, cpVars, bcsVars
  <2>2. events = <<>> /\ link = "none" /\ ~advertising
    BY <2>1 DEF QueueInv, PassedOn
  <2>3. advertising'
    BY <1>7, <2>2, NoneAssumption DEF OnDisconnected, APP_ERROR, sd_ble_gap_adv_start, Causes
  <2> QED
    BY <2>1, <2>3 DEF HandlesInv, PassedOn
<1>8. CASE Timeout
  <2>1. /\ ev = None /\ instance /\ instance'
        /\ UNCHANGED <<ev, advertising, events, connected, valid, qwr_handle, m_conn_handle>>
    BY <1>8, TimeoutSteps DEF bcsVars, qwrVars
  <2> QED
    BY <2>1 DEF HandlesInv, PassedOn, Pending
<1>9. CASE UNCHANGED vars
  BY <1>9 DEF vars, sdVars, appVars, cpVars, bcsVars, qwrVars, HandlesInv, PassedOn, Pending
<1> QED
  BY <1>1, <1>2, <1>3, <1>4, <1>5, <1>6, <1>7, <1>8, <1>9 DEF Next, Dispatch

-----------------------------------------------------------------------------
(***************************************************************************)
(* Replies, attempts, the timer and the resets.                            *)
(***************************************************************************)

\* A reply that was refused stays pending until the link ends.
LEMMA MemoryKept ==
    ASSUME TypeOK, QueueInv, HandlesInv, MemoryInv,
           fatal = None, fatal' = None, [Next]_vars, ~Restart
    PROVE  MemoryInv'
<1>1. CASE SoftDeviceStep
  <2>1. UNCHANGED <<is_user_mem_reply_pending, qwr_handle, ev, observer>>
    BY <1>1 DEF SoftDeviceStep, qwrVars, appVars
  <2>2. CASE Connect \/ UpdateParams
                \/ \E id \in EventIds \ {"CONNECTED", "DISCONNECTED", "CONN_PARAM_UPDATE"} :
                       PeerAsks(id)
    <3>1. /\ link' # "none"
          /\ \E id \in EventIds, ok \in BOOLEAN :
                Event(id, ok) /\ (mem_request' => mem_request \/ id = "USER_MEM_REQUEST")
      <4>1. CASE Connect \/ UpdateParams
        BY <4>1 DEF Connect, UpdateParams, EventIds
      <4>2. CASE \E id \in EventIds \ {"CONNECTED", "DISCONNECTED", "CONN_PARAM_UPDATE"} :
                     PeerAsks(id)
        BY <4>2 DEF PeerAsks
      <4> QED
        BY <2>2, <4>1, <4>2
    <3>2. mem_request' => mem_request \/ Pending("USER_MEM_REQUEST")'
      BY <3>1, Appended DEF TypeOK, SdTypeOK
    <3>3. Pending("USER_MEM_REQUEST") => Pending("USER_MEM_REQUEST")'
      BY <3>1, Appended DEF TypeOK, SdTypeOK
    <3> QED
      BY <2>1, <3>1, <3>2, <3>3 DEF MemoryInv, PassedOn
  <2>3. CASE Disconnect
    BY <2>3 DEF Disconnect, LinkReset, MemoryInv
  <2> QED
    BY <1>1, <2>2, <2>3 DEF SoftDeviceStep, SoftDeviceActs
<1>2. CASE Poll
  <2>1. /\ ev = None /\ events # <<>> /\ ev' = Head(events) /\ events' = Tail(events)
        /\ observer' = "conn_state" /\ events \in Seq(Events)
        /\ UNCHANGED <<link, mem_request, qwr_handle, is_user_mem_reply_pending>>
    BY <1>2 DEF Poll, qwrVars, TypeOK, SdTypeOK
  <2>2. Pending("USER_MEM_REQUEST") =>
          Pending("USER_MEM_REQUEST")' \/ PassedOn("USER_MEM_REQUEST")'
    BY <2>1, Taken, NoneAssumption DEF PassedOn
  <2> QED
    BY <2>1, <2>2 DEF MemoryInv, PassedOn
<1>3. CASE ObserveConnState \/ ObserveConnParams
  BY <1>3 DEF ObserveConnState, ObserveConnParams, Turn, sdVars, qwrVars, MemoryInv,
     PassedOn, Pending
<1>4. CASE ObserveQwr
  <2>1. /\ ev # None /\ ev' = ev /\ observer = "qwr"
        /\ UNCHANGED <<link, events>>
        /\ qwr_handle' <=> qwr_handle /\ ev.id # "DISCONNECTED"
        /\ \/ /\ qwr_handle /\ (is_user_mem_reply_pending \/ ev.id = "USER_MEM_REQUEST")
              /\ mem_request' => mem_request /\ is_user_mem_reply_pending'
           \/ /\ ~(qwr_handle /\ (is_user_mem_reply_pending \/ ev.id = "USER_MEM_REQUEST"))
              /\ UNCHANGED <<mem_request, is_user_mem_reply_pending>>
    BY <1>4 DEF ObserveQwr, Turn, qwr_on_ble_evt, user_mem_reply
  <2>2. ev.id = "USER_MEM_REQUEST" => qwr_handle
    BY <2>1 DEF HandlesInv, PassedOn
  <2>3. ev.id = "DISCONNECTED" => link = "none"
    BY <2>1 DEF QueueInv, PassedOn
  <2>4. Pending("USER_MEM_REQUEST")' <=> Pending("USER_MEM_REQUEST")
    BY <2>1 DEF Pending
  <2> QED
    BY <2>1, <2>2, <2>3, <2>4 DEF MemoryInv, PassedOn
<1>5. CASE OnConnected \/ OnGattTimeout \/ OnOther
           \/ \E id \in PeerRequests : OnPeerRequest(id)
  <2>1. /\ observer = "ble_user" /\ ev # None /\ LinkEnds
        /\ UNCHANGED <<events, mem_request, is_user_mem_reply_pending>>
        /\ qwr_handle => qwr_handle'
    BY <1>5, HandlerSteps
  <2> QED
    BY <2>1 DEF MemoryInv, PassedOn, Pending, LinkEnds
<1>6. CASE OnDisconnected
  <2>1. PassedOn("DISCONNECTED") /\ UNCHANGED <<link, mem_request>>
    BY <1>6 DEF OnDisconnected, UserTurn, Turn, PassedOn
  <2>2. ~mem_request
    BY <2>1 DEF QueueInv, MemoryInv
  <2> QED
    BY <2>1, <2>2 DEF MemoryInv
<1>7. CASE Timeout
  <2>1. /\ LinkEnds
        /\ UNCHANGED <<events, mem_request, is_user_mem_reply_pending, qwr_handle, ev, observer>>
    BY <1>7, TimeoutSteps DEF qwrVars
  <2> QED
    BY <2>1 DEF MemoryInv, PassedOn, Pending, LinkEnds
<1>8. CASE UNCHANGED vars
  BY <1>8 DEF vars, sdVars, qwrVars, appVars, MemoryInv, PassedOn, Pending
<1> QED
  BY <1>1, <1>2, <1>3, <1>4, <1>5, <1>6, <1>7, <1>8 DEF Next, Dispatch

\* A request that is appended is the only one of its kind, if none was open.
LEMMA SingleAppended ==
    ASSUME events \in Seq(Events), UNCHANGED <<ev, observer>>,
           NEW new \in EventIds, NEW ok \in BOOLEAN, Event(new, ok),
           NEW id, Single(id), new = id => ~Open(id)
    PROVE  Single(id)' /\ (Open(id)' <=> Open(id) \/ new = id)
<1>1. /\ Len(events') = Len(events) + 1 /\ Len(events) \in Nat
      /\ \A i \in 1 .. Len(events) : events'[i] = events[i]
      /\ events'[Len(events')].id = new
      /\ \A other : Pending(other)' <=> Pending(other) \/ other = new
  BY Appended
<1>2. ToReply(id)' <=> ToReply(id)
  BY DEF ToReply, PassedOn
<1>3. ASSUME NEW i \in 1 .. Len(events'), NEW j \in 1 .. Len(events'),
             events'[i].id = id, events'[j].id = id
      PROVE  i = j
  <2>1. CASE new # id
    <3>1. i \in 1 .. Len(events) /\ j \in 1 .. Len(events)
      BY <1>1, <1>3, <2>1
    <3> QED
      BY <1>1, <1>3, <3>1 DEF Single
  <2>2. CASE new = id
    <3>1. \A k \in 1 .. Len(events) : events[k].id # id
      BY <2>2 DEF Open, Pending
    <3> QED
      BY <1>1, <1>3, <3>1
  <2> QED
    BY <2>1, <2>2
<1> QED
  BY <1>1, <1>2, <1>3 DEF Single, Open

\* A request that is taken is still open, and still the only one.
LEMMA SingleTaken ==
    ASSUME events \in Seq(Events), events # <<>>, ev = None,
           ev' = Head(events), events' = Tail(events), observer' = "conn_state",
           NEW id, Single(id)
    PROVE  Single(id)' /\ (Open(id)' <=> Open(id))
<1>1. /\ Head(events) \in Events /\ Head(events) = events[1] /\ 1 \in 1 .. Len(events)
      /\ \A i \in 1 .. Len(events') : events'[i] = events[i + 1] /\ i + 1 \in 1 .. Len(events)
      /\ \A other : Pending(other) <=> Pending(other)' \/ other = Head(events).id
      /\ Len(events') \in Nat
  BY Taken
<1>2. ~ToReply(id) /\ (ToReply(id)' <=> Head(events).id = id)
  BY <1>1, NoneAssumption DEF ToReply, PassedOn
<1>3. ASSUME NEW i \in 1 .. Len(events'), NEW j \in 1 .. Len(events'),
             events'[i].id = id, events'[j].id = id
      PROVE  i = j
  <2>1. i + 1 = j + 1
    BY <1>1, <1>3 DEF Single
  <2> QED
    BY <1>1, <2>1
<1>4. ~(Pending(id)' /\ Head(events).id = id)
  <2> SUFFICES ASSUME NEW i \in 1 .. Len(events'), events'[i].id = id, Head(events).id = id
               PROVE  FALSE
    BY DEF Pending
  <2>1. i + 1 = 1
    BY <1>1 DEF Single
  <2> QED
    BY <1>1, <2>1
<1> QED
  BY <1>1, <1>2, <1>3, <1>4 DEF Single, Open

\* Requests, replies and what the stack waits for stay together while the link is up.
LEMMA RequestsKept ==
    ASSUME TypeOK, QueueInv, HandlesInv, RequestsInv,
           fatal = None, fatal' = None, [Next]_vars, ~Restart
    PROVE  RequestsInv'
<1> DEFINE mem == "USER_MEM_REQUEST"
           auth == "RW_AUTHORIZE_REQUEST"
<1>1. CASE SoftDeviceStep
  <2>1. UNCHANGED <<is_user_mem_reply_pending, qwr_handle, ev, observer>>
    BY <1>1 DEF SoftDeviceStep, qwrVars, appVars
  <2>2. CASE Connect
    <3>1. /\ events = <<>> /\ ev = None /\ advertising
          /\ \E ok \in BOOLEAN : Event("CONNECTED", ok)
      BY <2>2 DEF Connect, QueueInv
    <3>2. ~is_user_mem_reply_pending
      BY <3>1 DEF HandlesInv, RequestsInv
    <3>3. ~Open(mem) /\ ~Open(auth) /\ Single(mem) /\ Single(auth)
      BY <3>1 DEF Open, Pending, ToReply, PassedOn, Single
    <3>4. Single(mem)' /\ Single(auth)' /\ ~Open(mem)' /\ ~Open(auth)'
      BY <2>1, <3>1, <3>3, SingleAppended DEF TypeOK, SdTypeOK, EventIds
    <3> QED
      BY <2>1, <3>2, <3>4 DEF RequestsInv
  <2>3. CASE Disconnect
    BY <2>1, <2>3 DEF Disconnect, RequestsInv
  <2>4. CASE UpdateParams
    <3>1. /\ link = "up" /\ UNCHANGED <<mem_request, auth_request>>
          /\ \E ok \in BOOLEAN : Event("CONN_PARAM_UPDATE", ok)
      BY <2>4 DEF UpdateParams, TypeOK, SdTypeOK
    <3>2. /\ Single(mem)' /\ (Open(mem)' <=> Open(mem))
          /\ Single(auth)' /\ (Open(auth)' <=> Open(auth))
      BY <2>1, <3>1, SingleAppended DEF RequestsInv, TypeOK, SdTypeOK, EventIds
    <3> QED
      BY <2>1, <3>1, <3>2 DEF RequestsInv
  <2>5. ASSUME NEW id \in EventIds \ {"CONNECTED", "DISCONNECTED", "CONN_PARAM_UPDATE"},
               PeerAsks(id)
        PROVE  RequestsInv'
    <3>1. /\ link = "up" /\ Event(id, TRUE)
          /\ id = mem => ~mem_request
          /\ id = auth => ~auth_request
          /\ mem_request' = (mem_request \/ id = mem)
          /\ auth_request' = (auth_request \/ id = auth)
      BY <2>5 DEF PeerAsks
    <3>2. /\ Single(mem)' /\ (Open(mem)' <=> Open(mem) \/ id = mem)
          /\ Single(auth)' /\ (Open(auth)' <=> Open(auth) \/ id = auth)
      BY <2>1, <3>1, SingleAppended DEF RequestsInv, TypeOK, SdTypeOK
    <3> QED
      BY <2>1, <3>1, <3>2 DEF RequestsInv
  <2> QED
    BY <1>1, <2>2, <2>3, <2>4, <2>5 DEF SoftDeviceStep, SoftDeviceActs
<1>2. CASE Poll
  <2>1. /\ ev = None /\ events # <<>> /\ ev' = Head(events) /\ events' = Tail(events)
        /\ observer' = "conn_state" /\ events \in Seq(Events)
        /\ UNCHANGED <<link, mem_request, auth_request, qwr_handle,
                       is_user_mem_reply_pending>>
    BY <1>2 DEF Poll, qwrVars, TypeOK, SdTypeOK
  <2>2. link = "up" => /\ Single(mem)' /\ (Open(mem)' <=> Open(mem))
                       /\ Single(auth)' /\ (Open(auth)' <=> Open(auth))
    BY <2>1, SingleTaken DEF RequestsInv
  <2> QED
    BY <2>1, <2>2 DEF RequestsInv
<1>3. CASE ObserveConnState \/ ObserveConnParams
  <2>1. /\ observer # "ble_user" /\ observer' # "ble_user"
        /\ UNCHANGED <<ev, events, link, mem_request, auth_request, qwr_handle,
                       is_user_mem_reply_pending>>
    BY <1>3 DEF ObserveConnState, ObserveConnParams, Turn, sdVars, qwrVars
  <2> QED
    BY <2>1 DEF RequestsInv, Single, Open, Pending, ToReply, PassedOn
<1>4. CASE ObserveQwr
  <2>1. PICK mem_result, auth_result \in
                 {"SUCCESS", "BUSY", "INVALID_STATE", "INVALID_CONN_HANDLE"} :
          /\ qwr_on_ble_evt(ev, mem_result, auth_result)
          /\ fatal' = None => QwrErrors(mem_result, auth_result) = {}
    BY <1>4, NoneAssumption DEF ObserveQwr, APP_ERROR, Causes
  <2>2. /\ ev # None /\ ev' = ev /\ observer = "qwr" /\ observer' = "ble_user"
        /\ UNCHANGED <<link, events>>
    BY <1>4, ObserverSteps DEF ObserveQwr, Turn
  <2>3. mem_result \in {"SUCCESS", "BUSY"} /\ auth_result = "SUCCESS"
    BY <2>1 DEF QwrErrors
  <2>4. /\ \/ /\ qwr_handle /\ (is_user_mem_reply_pending \/ ev.id = mem)
              /\ link # "none"
              /\ mem_request' => mem_request
              /\ mem_result = "BUSY" => mem_request' = mem_request
              /\ mem_result = "SUCCESS" => ~is_user_mem_reply_pending'
           \/ /\ ~(qwr_handle /\ (is_user_mem_reply_pending \/ ev.id = mem))
              /\ UNCHANGED <<mem_request, is_user_mem_reply_pending>>
        /\ qwr_handle' = (qwr_handle /\ ev.id # "DISCONNECTED")
    BY <2>1, <2>3 DEF qwr_on_ble_evt, user_mem_reply, sd_ble_user_mem_reply, OnLink
  <2>5. \/ qwr_handle /\ ev.id = auth
        \/ UNCHANGED auth_request
    BY <2>1 DEF qwr_on_ble_evt
  <2>6. ev.id = "DISCONNECTED" => link = "none" /\ qwr_handle
    BY <2>2 DEF QueueInv, HandlesInv, PassedOn
  <2>7. is_user_mem_reply_pending' => qwr_handle'
    BY <2>4, <2>6 DEF RequestsInv
  <2>8. ASSUME link = "up"
        PROVE  /\ Single(mem)' /\ Single(auth)'
               /\ Open(mem)' => mem_request' /\ ~is_user_mem_reply_pending'
               /\ is_user_mem_reply_pending' => mem_request'
               /\ Open(auth)' => auth_request'
    <3>1. /\ Open(mem)' <=> Pending(mem)
          /\ Open(auth)' <=> Pending(auth)
          /\ Single(mem)' /\ Single(auth)'
      BY <2>2, <2>8 DEF Open, Pending, ToReply, Single, RequestsInv
    <3>2. /\ ToReply(mem) <=> ev.id = mem
          /\ ToReply(auth) <=> ev.id = auth
      BY <2>2 DEF ToReply, PassedOn
    <3>3. /\ ev.id = mem => ~Pending(mem) /\ mem_request
          /\ ev.id = auth => ~Pending(auth)
          /\ is_user_mem_reply_pending => ~Pending(mem) /\ mem_request
          /\ Pending(mem) => mem_request
          /\ Pending(auth) => auth_request
      BY <2>8, <3>2 DEF RequestsInv, Single, Open
    <3> QED
      BY <2>3, <2>4, <2>5, <3>1, <3>3
  <2> QED
    BY <2>2, <2>7, <2>8 DEF RequestsInv
<1>5. CASE OnConnected \/ OnGattTimeout \/ OnOther
           \/ \E id \in PeerRequests : OnPeerRequest(id)
  <2>1. /\ observer = "ble_user" /\ ev' = None /\ LinkEnds
        /\ UNCHANGED <<events, mem_request, auth_request, is_user_mem_reply_pending>>
        /\ qwr_handle => qwr_handle'
    BY <1>5, HandlerSteps
  <2> QED
    BY <2>1 DEF RequestsInv, Single, Open, Pending, ToReply, PassedOn, LinkEnds
<1>6. CASE OnDisconnected
  <2>1. PassedOn("DISCONNECTED") /\ UNCHANGED <<link, qwr_handle, is_user_mem_reply_pending>>
    BY <1>6 DEF OnDisconnected, UserTurn, Turn, PassedOn
  <2> QED
    BY <2>1 DEF QueueInv, RequestsInv
<1>7. CASE Timeout
  <2>1. /\ LinkEnds
        /\ UNCHANGED <<events, mem_request, auth_request, is_user_mem_reply_pending,
                       qwr_handle, ev, observer>>
    BY <1>7, TimeoutSteps DEF qwrVars
  <2> QED
    BY <2>1 DEF RequestsInv, Single, Open, Pending, ToReply, PassedOn, LinkEnds
<1>8. CASE UNCHANGED vars
  BY <1>8 DEF vars, sdVars, qwrVars, appVars, RequestsInv, Single, Open, Pending, ToReply,
     PassedOn
<1> QED
  BY <1>1, <1>2, <1>3, <1>4, <1>5, <1>6, <1>7, <1>8 DEF Next, Dispatch

\* The count and the requests go together until the link is given up.
LEMMA AttemptsKept ==
    ASSUME TypeOK, QueueInv, HandlesInv, AttemptsInv, TimerOfLink,
           fatal = None, fatal' = None, [Next]_vars, ~Restart
    PROVE  AttemptsInv'
<1>1. CASE SoftDeviceStep
  <2>1. UNCHANGED <<instance, update_count, params_ok, timer, asked, ev>>
    BY <1>1 DEF SoftDeviceStep, cpVars, appVars
  <2>2. instance /\ link # "up" => link' # "up"
    <3>1. CASE Connect
      <4>1. ~instance
        BY <3>1 DEF Connect, QueueInv, HandlesInv
      <4> QED
        BY <4>1
    <3>2. CASE SoftDeviceActs /\ ~Connect
      BY <3>2 DEF SoftDeviceActs, Disconnect, UpdateParams, PeerAsks
    <3> QED
      BY <1>1, <3>1, <3>2 DEF SoftDeviceStep
  <2> QED
    BY <2>1, <2>2 DEF AttemptsInv
<1>2. CASE Poll \/ ObserveConnState \/ ObserveQwr \/ OnDisconnected
  BY <1>2 DEF Poll, ObserveConnState, ObserveQwr, OnDisconnected, UserTurn, Turn,
     qwr_on_ble_evt, sdVars, cpVars, AttemptsInv
<1>3. CASE ObserveConnParams
  <2>1. /\ conn_params_on_ble_evt(ev)
        /\ asked' = IF ev.id = "CONNECTED" \/ (ev.id = "CONN_PARAM_UPDATE" /\ ev.ok)
                      THEN 0 ELSE asked
        /\ UNCHANGED link
    BY <1>3 DEF ObserveConnParams, Turn, sdVars
  <2>2. CASE ev.id = "CONNECTED"
    BY <2>1, <2>2 DEF conn_params_on_ble_evt, on_connect, conn_params_negotiation, AttemptsInv
  <2>3. CASE ev.id = "DISCONNECTED"
    BY <2>1, <2>3 DEF conn_params_on_ble_evt, on_disconnect, AttemptsInv
  <2>4. CASE ev.id = "CONN_PARAM_UPDATE"
    BY <2>1, <2>4 DEF conn_params_on_ble_evt, on_conn_params_update, conn_params_negotiation,
       cpVars, AttemptsInv
  <2>5. CASE ev.id \notin {"CONNECTED", "DISCONNECTED", "CONN_PARAM_UPDATE"}
    BY <2>1, <2>5 DEF conn_params_on_ble_evt, cpVars, AttemptsInv
  <2> QED
    BY <2>2, <2>3, <2>4, <2>5
<1>4. CASE OnConnected \/ OnGattTimeout \/ OnOther
           \/ \E id \in PeerRequests : OnPeerRequest(id)
  <2>1. UNCHANGED <<cpVars, asked>> /\ LinkEnds
    BY <1>4, HandlerSteps
  <2> QED
    BY <2>1 DEF cpVars, LinkEnds, AttemptsInv
<1>5. CASE TimeoutAsksAgain
  <2>1. ~timer' /\ LinkEnds
    BY <1>5, TimeoutSteps DEF Timeout
  <2>2. PICK result \in sd_ble_gap_conn_param_update(instance) :
          /\ update_count' = IF result = "SUCCESS" THEN update_count + 1 ELSE update_count
          /\ asked' = IF result = "SUCCESS" THEN asked + 1 ELSE asked
          /\ UNCHANGED <<instance, link>>
    BY <1>5 DEF TimeoutAsksAgain, send_update_request
  <2>3. CASE result = "SUCCESS"
    <3>1. instance
      BY <1>5 DEF TimeoutAsksAgain
    <3>2. link = "up"
      BY <2>3, <3>1 DEF sd_ble_gap_conn_param_update, OnLink, TypeOK, SdTypeOK
    <3> QED
      BY <2>1, <2>2, <2>3, <3>1, <3>2 DEF AttemptsInv
  <2>4. CASE result # "SUCCESS"
    BY <2>1, <2>2, <2>4 DEF AttemptsInv
  <2> QED
    BY <2>3, <2>4
<1>6. CASE TimeoutGivesUp
  <2>1. /\ ev = None /\ instance /\ ~timer' /\ update_count' = 0
    BY <1>6, TimeoutSteps DEF Timeout, TimeoutGivesUp
  <2>2. m_conn_handle
    BY <2>1 DEF HandlesInv
  <2>3. link' # "up"
    BY <1>6, <2>2, NoneAssumption DEF TimeoutGivesUp, sd_ble_gap_disconnect, OnLink,
       APP_ERROR, Causes
  <2> QED
    BY <2>1, <2>3 DEF AttemptsInv
<1>7. CASE UNCHANGED vars
  BY <1>7 DEF vars, sdVars, cpVars, appVars, AttemptsInv
<1> QED
  BY <1>1, <1>2, <1>3, <1>4, <1>5, <1>6, <1>7 DEF Next, Dispatch, Timeout

\* The timer is started for a link and stopped with it.
LEMMA TimerKept ==
    ASSUME TimerOfLink, [Next]_vars
    PROVE  TimerOfLink'
<1>1. CASE SoftDeviceStep \/ Poll \/ ObserveConnState \/ ObserveQwr \/ UNCHANGED vars
  BY <1>1 DEF SoftDeviceStep, Poll, ObserveConnState, ObserveQwr, cpVars, vars, TimerOfLink
<1>2. CASE ObserveConnParams
  <2>1. conn_params_on_ble_evt(ev)
    BY <1>2 DEF ObserveConnParams
  <2> QED
    BY <2>1 DEF conn_params_on_ble_evt, on_connect, on_disconnect, on_conn_params_update,
       conn_params_negotiation, cpVars, TimerOfLink
<1>3. CASE OnConnected \/ OnDisconnected \/ OnGattTimeout \/ OnOther
           \/ \E id \in PeerRequests : OnPeerRequest(id)
  BY <1>3 DEF OnConnected, OnDisconnected, OnGattTimeout, OnOther, OnPeerRequest, UserTurn,
     cpVars, TimerOfLink
<1>4. CASE Timeout
  BY <1>4 DEF Timeout, TimeoutAsksAgain, TimeoutGivesUp, Expires, TimerOfLink
<1>5. CASE Restart
  BY <1>5 DEF Restart, TimerOfLink
<1> QED
  BY <1>1, <1>2, <1>3, <1>4, <1>5 DEF Next, Dispatch

\* A call on a link that is up succeeds or is refused as busy; advertising is only
\* started when the link is gone.
LEMMA ResetKept ==
    ASSUME TypeOK, ResetInv, fatal = None => RunningInv, [Next]_vars
    PROVE  ResetInv'
<1> USE NoneAssumption DEF Causes
<1>1. CASE SoftDeviceStep
  <2>1. fatal' = fatal
    BY <1>1 DEF SoftDeviceStep, appVars
  <2>2. ~advertising /\ link # "up" => ~advertising' /\ link' # "up"
    BY <1>1 DEF SoftDeviceStep, SoftDeviceActs, Connect, Disconnect, UpdateParams, PeerAsks
  <2> QED
    BY <2>1, <2>2 DEF ResetInv
<1>2. CASE Poll \/ ObserveConnState \/ ObserveConnParams \/ OnConnected \/ OnOther
  <2>1. fatal' = None
    BY <1>2 DEF Poll, ObserveConnState, ObserveConnParams, OnConnected, OnOther, UserTurn, Turn
  <2> QED
    BY <2>1 DEF ResetInv
<1>3. CASE OnDisconnected
  <2>1. PassedOn("DISCONNECTED") /\ fatal = None /\ link' = link
    BY <1>3 DEF OnDisconnected, UserTurn, Turn, PassedOn
  <2>2. link = "none" /\ ~advertising
    BY <2>1 DEF RunningInv, QueueInv, PassedOn
  <2>3. fatal' = None \/ (fatal' = "uninitialised" /\ ~advertising')
    BY <1>3, <2>2 DEF OnDisconnected, APP_ERROR, sd_ble_gap_adv_start
  <2> QED
    BY <2>1, <2>2, <2>3 DEF ResetInv
<1>4. CASE ObserveQwr
  <2>1. PICK mem_result, auth_result \in
                 {"SUCCESS", "BUSY", "INVALID_STATE", "INVALID_CONN_HANDLE"} :
          /\ qwr_on_ble_evt(ev, mem_result, auth_result)
          /\ fatal' = IF QwrErrors(mem_result, auth_result) = {} THEN None
                      ELSE IF QwrErrors(mem_result, auth_result) = {"BUSY"} THEN "busy"
                      ELSE "qwr"
    BY <1>4 DEF ObserveQwr, APP_ERROR
  <2>2. /\ ev # None /\ observer = "qwr" /\ fatal = None
        /\ UNCHANGED <<link, advertising>>
    BY <1>4, ObserverSteps DEF ObserveQwr, Turn
  <2>3. ~advertising
    BY <2>2 DEF RunningInv, QueueInv
  <2>4. ASSUME link = "up"
        PROVE  fatal' \in {None, "busy"}
    <3>1. qwr_handle /\ (is_user_mem_reply_pending \/ ev.id = "USER_MEM_REQUEST")
            => mem_request
      BY <2>2, <2>4 DEF RunningInv, RequestsInv, Open, ToReply, PassedOn
    <3>2. ev.id = "RW_AUTHORIZE_REQUEST" => auth_request
      BY <2>2, <2>4 DEF RunningInv, RequestsInv, Open, ToReply, PassedOn
    <3>3. mem_result \in {"SUCCESS", "BUSY"}
      BY <2>1, <2>4, <3>1 DEF qwr_on_ble_evt, user_mem_reply, sd_ble_user_mem_reply, OnLink,
         Busy
    <3>4. auth_result \in {"SUCCESS", "BUSY"}
      BY <2>1, <2>4, <3>2 DEF qwr_on_ble_evt, sd_ble_gatts_rw_authorize_reply, OnLink, Busy
    <3>5. QwrErrors(mem_result, auth_result) \in {{}, {"BUSY"}}
      BY <3>3, <3>4 DEF QwrErrors
    <3> QED
      BY <2>1, <3>5
  <2>5. fatal' # "advertise"
    BY <2>1
  <2> QED
    BY <2>2, <2>3, <2>4, <2>5 DEF ResetInv
<1>5. CASE \E id \in PeerRequests : OnPeerRequest(id)
  <2>1. PICK id \in PeerRequests : OnPeerRequest(id)
    BY <1>5
  <2>2. /\ ev # None /\ ev.id = id /\ fatal = None
        /\ UNCHANGED <<link, advertising>>
        /\ \E result \in sd_ble_answer(m_conn_handle) :
             fatal' = IF result = "SUCCESS" THEN None
                      ELSE IF result = "BUSY" THEN "busy" ELSE "answer"
    BY <2>1 DEF OnPeerRequest, UserTurn, Turn, APP_ERROR
  <2>3. m_conn_handle /\ ~advertising
    BY <2>2 DEF RunningInv, HandlesInv, QueueInv, PeerRequests
  <2>4. link = "up" => fatal' \in {None, "busy"}
    BY <2>2, <2>3 DEF sd_ble_answer, OnLink, Busy
  <2>5. fatal' # "advertise"
    BY <2>2
  <2> QED
    BY <2>2, <2>3, <2>4, <2>5 DEF ResetInv
<1>6. CASE OnGattTimeout
  <2>1. /\ ev # None /\ ev.id = "GATT_TIMEOUT" /\ fatal = None
        /\ UNCHANGED advertising
    BY <1>6 DEF OnGattTimeout, UserTurn, Turn
  <2>2. m_conn_handle /\ ~advertising
    BY <2>1 DEF RunningInv, HandlesInv, QueueInv
  <2>3. fatal' \in {None, "timeout"} /\ (fatal' = "timeout" => link' # "up")
    BY <1>6, <2>2 DEF OnGattTimeout, sd_ble_gap_disconnect, OnLink, APP_ERROR
  <2> QED
    BY <2>1, <2>2, <2>3 DEF ResetInv
<1>7. CASE Timeout
  <2>1. ev = None /\ fatal = None /\ instance /\ UNCHANGED advertising
    BY <1>7, TimeoutSteps
  <2>2. m_conn_handle /\ ~advertising
    BY <2>1 DEF RunningInv, HandlesInv, QueueInv
  <2>3. CASE TimeoutGivesUp
    <3>1. fatal' \in {None, "failed"} /\ (fatal' = "failed" => link' # "up")
      BY <2>2, <2>3 DEF TimeoutGivesUp, sd_ble_gap_disconnect, OnLink, APP_ERROR
    <3> QED
      BY <2>1, <2>2, <3>1 DEF ResetInv
  <2>4. CASE TimeoutAsksAgain
    <3>1. /\ UNCHANGED link
          /\ \E result \in sd_ble_gap_conn_param_update(instance) :
               fatal' = IF result \notin {"SUCCESS", "BUSY"} THEN "update" ELSE None
      BY <2>4 DEF TimeoutAsksAgain, send_update_request, APP_ERROR
    <3>2. fatal' \in {None, "update"} /\ (fatal' = "update" => link' # "up")
      BY <2>1, <3>1 DEF sd_ble_gap_conn_param_update, OnLink, Busy
    <3> QED
      BY <2>1, <2>2, <3>2 DEF ResetInv
  <2> QED
    BY <1>7, <2>3, <2>4 DEF Timeout
<1>8. CASE Restart \/ UNCHANGED vars
  BY <1>8 DEF Restart, vars, sdVars, appVars, ResetInv
<1> QED
  BY <1>1, <1>2, <1>3, <1>4, <1>5, <1>6, <1>7, <1>8 DEF Next, Dispatch

\* After the boot, the first or another, nothing is going on.
LEMMA BootRuns ==
    ASSUME link = "none", advertising, events = <<>>, ~mem_request, ~instance, ~connected,
           ~qwr_handle, ~m_conn_handle, ~is_user_mem_reply_pending, ev = None
    PROVE  RunningInv
BY DEF RunningInv, QueueInv, HandlesInv, MemoryInv, RequestsInv, AttemptsInv, PassedOn, Pending

-----------------------------------------------------------------------------
(***************************************************************************)
(* The theorems.                                                           *)
(***************************************************************************)

\* Handles, queue, replies, attempts and resets fit together at every moment, for
\* any number of events that wait and of attempts.
THEOREM LinkInvariant == Spec => []AppInv
<1>1. Init => AppInv
  <2> SUFFICES ASSUME Init PROVE AppInv
    OBVIOUS
  <2> USE DEF Init, SdInit, CpInit, BcsInit, QwrInit, AppInit
  <2>0. 0 \in 0 .. max_conn_params_update_count /\ events \in Seq(Events)
    BY UpdateCountAssumption
  <2>1. TypeOK
    BY <2>0 DEF TypeOK, SdTypeOK, CpTypeOK, BcsTypeOK, QwrTypeOK, Observers
  <2>2. RunningInv
    BY BootRuns
  <2> QED
    BY <2>1, <2>2, NoneAssumption DEF AppInv, TimerOfLink, ResetInv, Causes
<1>2. ASSUME AppInv, [Next]_vars PROVE AppInv'
  <2>1. TypeOK' /\ TimerOfLink' /\ ResetInv'
    BY <1>2, TypesKept, TimerKept, ResetKept DEF AppInv
  <2>2. ASSUME fatal' = None PROVE RunningInv'
    <3>1. CASE Restart
      <4>1. /\ link' = "none" /\ advertising' /\ events' = <<>> /\ ~mem_request'
            /\ ~instance' /\ ~connected' /\ ~qwr_handle' /\ ~m_conn_handle' /\ ev' = None
            /\ ~is_user_mem_reply_pending'
        BY <3>1 DEF Restart, LinkReset
      <4> QED
        BY <4>1 DEF RunningInv, QueueInv, HandlesInv, MemoryInv, RequestsInv, AttemptsInv,
           PassedOn, Pending
    <3>2. CASE ~Restart
      <4>1. fatal = None
        BY <1>2, <2>2, <3>2 DEF Next, SoftDeviceStep, Dispatch, Poll, ObserveConnState,
           ObserveConnParams, ObserveQwr, OnConnected, OnDisconnected, OnGattTimeout, OnOther,
           OnPeerRequest, UserTurn, Turn, Timeout, TimeoutAsksAgain, TimeoutGivesUp, Expires,
           vars, appVars
      <4>2. TypeOK /\ TimerOfLink /\ QueueInv /\ HandlesInv /\ MemoryInv /\ RequestsInv
            /\ AttemptsInv
        BY <1>2, <4>1 DEF AppInv, RunningInv
      <4> QED
        BY <1>2, <2>2, <3>2, <4>1, <4>2, QueueKept, HandlesKept, MemoryKept, RequestsKept,
           AttemptsKept DEF RunningInv
    <3> QED
      BY <3>1, <3>2
  <2> QED
    BY <2>1, <2>2 DEF AppInv
<1> QED
  BY <1>1, <1>2, PTL DEF Spec

\* Handles, states, events and counts have their types.
THEOREM LinkTypes == Spec => []TypeOK
BY LinkInvariant, PTL DEF AppInv

\* Between two events the application, the queued writes, the negotiation and the
\* connection state agree on whether there is a link.
THEOREM ModulesAlwaysAgree == Spec => []ModulesAgree
<1>1. AppInv => ModulesAgree
  <2> SUFFICES ASSUME AppInv, Settled PROVE
        /\ m_conn_handle = qwr_handle
        /\ m_conn_handle = instance
        /\ m_conn_handle = (ble_conn_state_status = "CONNECTED")
    BY DEF ModulesAgree
  <2>1. {m_conn_handle, qwr_handle, instance, connected} \subseteq BOOLEAN
    BY DEF AppInv, TypeOK, CpTypeOK, BcsTypeOK, QwrTypeOK
  <2>2. /\ m_conn_handle <=> qwr_handle
        /\ m_conn_handle <=> instance
        /\ m_conn_handle <=> connected
        /\ connected => valid
    BY DEF AppInv, RunningInv, HandlesInv, Settled
  <2>3. (ble_conn_state_status = "CONNECTED") <=> connected
    BY <2>2 DEF ble_conn_state_status
  <2> QED
    BY <2>1, <2>2, <2>3
<1> QED
  BY <1>1, LinkInvariant, PTL

\* The device is advertised or connected whenever nothing is going on.
THEOREM AlwaysReachable == Spec => []Reachable
<1>1. AppInv => Reachable
  BY DEF AppInv, RunningInv, QueueInv, Reachable, Settled, PassedOn, Pending
<1> QED
  BY <1>1, LinkInvariant, PTL

\* Advertising is started when it is off and there is no link.
THEOREM AdvertisingOnce == Spec => []StartsAdvertisingOnce
BY LinkInvariant, PTL DEF AppInv, ResetInv, StartsAdvertisingOnce

\* The negotiation timer does not outlive the link.
THEOREM TimerEndsWithLink == Spec => []TimerOfLink
BY LinkInvariant, PTL DEF AppInv

\* A memory request has its reply, its event or a pending reply.
THEOREM MemoryAlwaysAnswered == Spec => []MemoryIsAnswered
<1>1. AppInv => MemoryIsAnswered
  BY DEF AppInv, RunningInv, MemoryInv, MemoryIsAnswered, Settled, PassedOn
<1> QED
  BY <1>1, LinkInvariant, PTL

\* The system is only reset with the link up for an answer that a busy stack refused:
\* no other call fails on a link that is up.
THEOREM ResetsSpareTheLink == Spec => []ResetsOnlyWithoutLink
BY LinkInvariant, PTL DEF AppInv, ResetInv, ResetsOnlyWithoutLink

\* With at least one attempt configured, a link is given up on after all of them
\* and with unacceptable parameters.
THEOREM GivesUpAfterAll ==
    ASSUME max_conn_params_update_count # 0
    PROVE  Spec => GivesUpLast
<1>1. ASSUME AppInv, TimeoutGivesUp
      PROVE  ~params_ok /\ asked = max_conn_params_update_count
  <2>1. /\ fatal = None /\ timer /\ instance
        /\ ~(update_count < max_conn_params_update_count)
    BY <1>1 DEF TimeoutGivesUp, Expires, AttemptsLeft
  <2>2. update_count = max_conn_params_update_count /\ update_count # 0
    BY <1>1, <2>1, UpdateCountAssumption DEF AppInv, TypeOK, CpTypeOK
  <2> QED
    BY <1>1, <2>1, <2>2 DEF AppInv, RunningInv, AttemptsInv
<1>2. AppInv /\ [Next]_vars =>
        [TimeoutGivesUp => ~params_ok /\ asked = max_conn_params_update_count]_vars
  BY <1>1
<1> QED
  BY <1>2, LinkInvariant, PTL DEF Spec, GivesUpLast
=============================================================================
