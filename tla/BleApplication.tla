-------------------------- MODULE BleApplication --------------------------
(***************************************************************************)
(* ble_user.c with the modules it sets up, on the SoftDevice.              *)
(*                                                                         *)
(* nrf_sdh_ble_evts_poll takes one event after the other and passes it to  *)
(* the observers in the order of their priority: ble_conn_state,           *)
(* ble_conn_params, nrf_ble_qwr, and the handler of ble_user.c.  All of    *)
(* them, and the handler of the negotiation timer, run at one priority and *)
(* exclude each other.  The SoftDevice does not wait for them: between two *)
(* observers the link may go that the event was about.                     *)
(*                                                                         *)
(* An error that is not handled resets the system.                         *)
(***************************************************************************)
EXTENDS ConnParams, ConnState, QueuedWrites

VARIABLES
    ev,             \* the event that is being passed on, or None
    observer,       \* the observer whose turn it is
    m_conn_handle,  \* m_conn_handle is the link's, not INVALID
    fatal,          \* the cause of the call of APP_ERROR_HANDLER, or None
    asked           \* history: the requests since the negotiation began

appVars == <<ev, observer, m_conn_handle, fatal, asked>>
vars    == <<sdVars, cpVars, bcsVars, qwrVars, appVars>>

Observers == {"conn_state", "conn_params", "qwr", "ble_user"}

\* Where APP_ERROR_HANDLER is called from; "busy" when an answer to the peer, or the
\* reply to a write authorization, was only refused because the stack is busy.
Causes == {"uninitialised", "advertise", "answer", "timeout", "failed", "update", "qwr",
           "busy"}

ASSUME NoneAssumption == None \notin Events \cup Causes

TypeOK ==
    /\ SdTypeOK
    /\ CpTypeOK
    /\ BcsTypeOK
    /\ QwrTypeOK
    /\ ev \in Events \cup {None}
    /\ observer \in Observers
    /\ m_conn_handle \in BOOLEAN
    /\ fatal \in Causes \cup {None}
    /\ asked \in 0 .. max_conn_params_update_count

AppInit ==
    /\ ev = None
    /\ observer = "conn_state"
    /\ m_conn_handle = FALSE
    /\ fatal = None
    /\ asked = 0

\* ble_stack_init to advertising_start of main.
Init == SdInit /\ CpInit /\ BcsInit /\ QwrInit /\ AppInit

APP_ERROR(fails, cause) == fatal' = IF fails THEN cause ELSE None

-----------------------------------------------------------------------------
(***************************************************************************)
(* nrf_sdh_ble_evts_poll.                                                  *)
(***************************************************************************)

Poll ==
    /\ fatal = None
    /\ ev = None
    /\ events # <<>>
    /\ ev' = Head(events)
    /\ events' = Tail(events)
    /\ observer' = "conn_state"
    /\ UNCHANGED <<link, advertising, conn_params, updating, mem_request, auth_request,
                   cpVars, bcsVars, qwrVars, m_conn_handle, fatal, asked>>

\* It is this observer's turn, and the other one's after it.
Turn(this, next) ==
    /\ fatal = None
    /\ ev # None
    /\ observer = this
    /\ observer' = next

ObserveConnState ==
    /\ Turn("conn_state", "conn_params")
    /\ conn_state_on_ble_evt(ev)
    /\ UNCHANGED <<sdVars, cpVars, qwrVars, ev, m_conn_handle, fatal, asked>>

ObserveConnParams ==
    /\ Turn("conn_params", "qwr")
    /\ conn_params_on_ble_evt(ev)
    /\ asked' = IF ev.id = "CONNECTED" \/ (ev.id = "CONN_PARAM_UPDATE" /\ ev.ok)
                  THEN 0 ELSE asked
    /\ UNCHANGED <<sdVars, bcsVars, qwrVars, ev, m_conn_handle, fatal>>

ObserveQwr ==
    /\ Turn("qwr", "ble_user")
    /\ \E mem_result, auth_result \in
            {"SUCCESS", "BUSY", "INVALID_STATE", "INVALID_CONN_HANDLE"} :
         /\ qwr_on_ble_evt(ev, mem_result, auth_result)
         /\ LET errors == QwrErrors(mem_result, auth_result)
            IN  APP_ERROR(errors # {}, IF errors = {"BUSY"} THEN "busy" ELSE "qwr")
    /\ UNCHANGED <<cpVars, bcsVars, ev, m_conn_handle, asked>>

-----------------------------------------------------------------------------
(***************************************************************************)
(* ble_evt_handler of ble_user.c, one action per event.                    *)
(***************************************************************************)

UserTurn(id) ==
    /\ Turn("ble_user", "conn_state")
    /\ ev.id = id
    /\ ev' = None
    /\ UNCHANGED <<conn_params, updating, mem_request, auth_request, events, cpVars,
                   bcsVars, is_user_mem_reply_pending, asked>>

\* Mutant: the handle of the link is not kept.
OnConnectedForgetsHandle ==
    /\ UserTurn("CONNECTED")
    /\ qwr_handle' = TRUE
    /\ UNCHANGED <<link, advertising, m_conn_handle, fatal>>

\* Mutant: nrf_ble_qwr is not told of the link.
OnConnectedUnassigned ==
    /\ UserTurn("CONNECTED")
    /\ m_conn_handle' = TRUE
    /\ UNCHANGED <<link, advertising, qwr_handle, fatal>>

\* nrf_ble_qwr_conn_handle_assign succeeds, and its result is checked twice.
OnConnected ==
    /\ UserTurn("CONNECTED")
    /\ m_conn_handle' = TRUE
    /\ qwr_handle' = TRUE
    /\ UNCHANGED <<link, advertising, fatal>>

\* Mutant: advertising is left to the peer's next move.
OnDisconnectedStaysSilent ==
    /\ UserTurn("DISCONNECTED")
    /\ m_conn_handle' = FALSE
    /\ UNCHANGED <<link, advertising, qwr_handle, fatal>>

\* Mutant: advertising is started when the link is to end, not when it has.
OnGattTimeoutAdvertises ==
    /\ UserTurn("GATT_TIMEOUT")
    /\ link' = IF link = "up" THEN "closing" ELSE link
    /\ APP_ERROR(sd_ble_gap_adv_start # "SUCCESS", "advertise")
    /\ advertising' = (advertising \/ sd_ble_gap_adv_start = "SUCCESS")
    /\ UNCHANGED <<qwr_handle, m_conn_handle>>

\* err_code is checked before anything was assigned to it: the value it has
\* then is any.  advertising_start is only reached when that is NRF_SUCCESS.
OnDisconnected ==
    /\ UserTurn("DISCONNECTED")
    /\ m_conn_handle' = FALSE
    /\ \/ fatal' = "uninitialised" /\ UNCHANGED advertising
       \/ /\ APP_ERROR(sd_ble_gap_adv_start # "SUCCESS", "advertise")
          /\ advertising' = (advertising \/ sd_ble_gap_adv_start = "SUCCESS")
    /\ UNCHANGED <<link, qwr_handle>>

\* Pairing is refused; the PHY is updated; system attributes are set.
OnPeerRequest(id) ==
    /\ UserTurn(id)
    /\ \E result \in sd_ble_answer(m_conn_handle) :
         APP_ERROR(result # "SUCCESS", IF result = "BUSY" THEN "busy" ELSE "answer")
    /\ UNCHANGED <<link, advertising, qwr_handle, m_conn_handle>>

\* A GATT client or server timeout: the link is ended.
OnGattTimeout ==
    /\ UserTurn("GATT_TIMEOUT")
    /\ \E result \in sd_ble_gap_disconnect(m_conn_handle) :
         /\ APP_ERROR(result # "SUCCESS", "timeout")
         /\ link' = IF result = "SUCCESS" THEN "closing" ELSE link
    /\ UNCHANGED <<advertising, qwr_handle, m_conn_handle>>

OnOther ==
    /\ \E id \in {"CONN_PARAM_UPDATE", "USER_MEM_REQUEST", "RW_AUTHORIZE_REQUEST", "WRITE"} :
           UserTurn(id)
    /\ UNCHANGED <<link, advertising, qwr_handle, m_conn_handle, fatal>>

-----------------------------------------------------------------------------
(***************************************************************************)
(* The negotiation timer: update_timeout_handler of ble_conn_params.c, with*)
(* conn_params_error_handler and on_conn_params_evt of ble_user.c.         *)
(***************************************************************************)

\* The timer expires between two events.  It is single-shot.  The instance of
\* the link is there whenever the timer runs (TimerOfLink).
Expires ==
    /\ fatal = None
    /\ ev = None
    /\ timer
    /\ timer' = FALSE
    /\ UNCHANGED <<bcsVars, qwrVars, ev, observer, m_conn_handle>>

TimeoutAsksAgain ==
    /\ Expires
    /\ instance
    /\ AttemptsLeft
    /\ \E result \in sd_ble_gap_conn_param_update(instance) :
         /\ send_update_request(result)
         /\ APP_ERROR(result \notin {"SUCCESS", "BUSY"}, "update")
         /\ asked' = IF result = "SUCCESS" THEN asked + 1 ELSE asked

\* Mutant: the application ends the link at once, whatever was asked.
TimeoutGivesUpEarly ==
    /\ Expires
    /\ instance
    /\ update_count' = 0
    /\ \E result \in sd_ble_gap_disconnect(m_conn_handle) :
         /\ APP_ERROR(result # "SUCCESS", "failed")
         /\ link' = IF result = "SUCCESS" THEN "closing" ELSE link
    /\ UNCHANGED <<instance, params_ok, advertising, conn_params, updating, mem_request,
                   auth_request, events, asked>>

\* BLE_CONN_PARAMS_EVT_FAILED: the application ends the link.
TimeoutGivesUp ==
    /\ Expires
    /\ instance
    /\ ~AttemptsLeft
    /\ update_count' = 0
    /\ \E result \in sd_ble_gap_disconnect(m_conn_handle) :
         /\ APP_ERROR(result # "SUCCESS", "failed")
         /\ link' = IF result = "SUCCESS" THEN "closing" ELSE link
    /\ UNCHANGED <<instance, params_ok, advertising, conn_params, updating, mem_request,
                   auth_request, events, asked>>

-----------------------------------------------------------------------------

SoftDeviceStep ==
    /\ SoftDeviceActs
    /\ UNCHANGED <<cpVars, bcsVars, qwrVars, appVars>>

\* NVIC_SystemReset, and the boot after it.
Restart ==
    /\ fatal # None
    /\ link' = "none" /\ advertising' = TRUE /\ conn_params' = TRUE /\ events' = <<>>
    /\ LinkReset
    /\ instance' = FALSE /\ update_count' = 0 /\ params_ok' = FALSE /\ timer' = FALSE
    /\ valid' = FALSE /\ connected' = FALSE
    /\ qwr_handle' = FALSE /\ is_user_mem_reply_pending' = FALSE
    /\ ev' = None /\ observer' = "conn_state" /\ m_conn_handle' = FALSE
    /\ fatal' = None /\ asked' = 0

Dispatch ==
    \/ Poll \/ ObserveConnState \/ ObserveConnParams \/ ObserveQwr
    \/ OnConnected \/ OnDisconnected \/ OnGattTimeout \/ OnOther
    \/ \E id \in PeerRequests : OnPeerRequest(id)

Timeout == TimeoutAsksAgain \/ TimeoutGivesUp

Next == SoftDeviceStep \/ Dispatch \/ Timeout \/ Restart

Spec == Init /\ [][Next]_vars

\* Events are passed on, and the system restarts; the peer answers a parameter
\* update or the link is lost, and a link that is being ended goes down.  No
\* peer has to connect or to ask for anything.  The timer interrupt pends while
\* events are passed on and is served before the next of them that is not there
\* yet, so that no flow of events keeps it waiting; nor does one keep the answer
\* of the peer waiting, whatever MaxEvents is.
Fairness ==
    /\ WF_vars(Dispatch)
    /\ SF_vars(Timeout)
    /\ WF_vars(Restart)
    /\ SF_vars(updating /\ UpdateParams /\ UNCHANGED <<cpVars, bcsVars, qwrVars, appVars>>)
    /\ WF_vars(link = "closing" /\ SoftDeviceStep /\ link' = "none")

FairSpec == Spec /\ Fairness

-----------------------------------------------------------------------------
(***************************************************************************)
(* Properties.                                                             *)
(***************************************************************************)

Pending(id) == \E i \in DOMAIN events : events[i].id = id

Settled == fatal = None /\ ev = None

\* Between two events the four modules agree on whether there is a link, though
\* each learns of it on its own: the handles, the instance and the record.
ModulesAgree ==
    Settled =>
        /\ m_conn_handle = qwr_handle
        /\ m_conn_handle = instance
        /\ m_conn_handle = (ble_conn_state_status = "CONNECTED")

\* The device can always be reached: when nothing is going on it is advertised
\* or connected.
Reachable == Settled /\ events = <<>> => advertising \/ link # "none"

\* Advertising is never started while it is on or while a link is there, which
\* would reset the system.
StartsAdvertisingOnce == fatal # "advertise"

\* The negotiation timer never outlives the link it was started for, not even
\* to the next link, which has the same handle.
TimerOfLink == timer => instance

\* A link is only given up on after the whole number of attempts on it, and
\* while its parameters, as last heard of, are not acceptable.
GivesUpLast ==
    [][TimeoutGivesUp => ~params_ok /\ asked = max_conn_params_update_count]_vars

\* Unacceptable parameters do not stay: they become acceptable or the link ends.
NegotiationEnds ==
    instance /\ ~params_ok ~> ~instance \/ params_ok

\* A request for memory is not forgotten: as long as it has no reply, its event
\* is still to come or the reply is pending.
MemoryIsAnswered ==
    Settled /\ mem_request =>
        \/ Pending("USER_MEM_REQUEST")
        \/ is_user_mem_reply_pending /\ qwr_handle

\* Whatever the application calls while the link is up can be served, on requests
\* that are still open: the system is only reset when the link has gone or is going,
\* for a call that came too late, or when the stack was busy for an answer.
ResetsOnlyWithoutLink == fatal \notin {None, "busy"} => link # "up"

\* ble_gatts.h:697 and ble_gap.h:2232, "The stack is busy, process pending events and
\* retry": a busy stack is asked again later.  nrf_ble_qwr does so for the reply to a
\* memory request only; every other answer resets the system.
BusyIsRetried == fatal # "busy"
=============================================================================
