----------------------------- MODULE SoftDevice -----------------------------
(***************************************************************************)
(* The SoftDevice and the peer, as the application sees them: one link     *)
(* with its procedures, advertising, and the queue of events.  They act at *)
(* a higher priority than any handler, so between any two calls of it.     *)
(*                                                                         *)
(* A call names its result; what it changes is conjoined by the caller.    *)
(* The results are those that the headers of the S140 list for a valid     *)
(* request: of the link and its state, and of a stack that is busy.  BUSY  *)
(* is also what an authorization reply gets after a GATT timeout (there    *)
(* NRF_ERROR_TIMEOUT, which the caller treats alike).  Calls that fail for *)
(* lack of memory are left out.                                            *)
(***************************************************************************)
EXTENDS Naturals, Sequences

CONSTANTS
    MaxEvents,      \* bound: the peer is silent while so many events wait
    BusyCalls,      \* the calls that a busy stack may refuse
    None            \* no event, and no error

VARIABLES
    link,           \* "none", "up", or "closing" when the application ended it
    advertising,    \* the advertising set is on the air
    conn_params,    \* whether the parameters of the link are acceptable
    updating,       \* the application's parameter update is in progress
    mem_request,    \* a user memory request waits for its reply
    auth_request,   \* a write authorization request waits for its reply
    events          \* events that sd_ble_evt_get has not returned yet

sdVars == <<link, advertising, conn_params, updating, mem_request, auth_request, events>>

ASSUME MaxEventsAssumption == MaxEvents \in Nat \ {0}
ASSUME BusyCallsAssumption ==
    BusyCalls \subseteq {"conn_param_update", "user_mem_reply", "rw_authorize_reply", "answer"}

\* Requests of the peer that the application answers with one call.
PeerRequests == {"SEC_PARAMS_REQUEST", "PHY_UPDATE_REQUEST", "SYS_ATTR_MISSING"}

EventIds == {"CONNECTED", "DISCONNECTED", "CONN_PARAM_UPDATE", "USER_MEM_REQUEST",
             "RW_AUTHORIZE_REQUEST", "WRITE", "GATT_TIMEOUT"} \cup PeerRequests

Events == [id : EventIds, ok : BOOLEAN]

SdTypeOK ==
    /\ link \in {"none", "up", "closing"}
    /\ {advertising, conn_params, updating, mem_request, auth_request} \subseteq BOOLEAN
    /\ events \in Seq(Events)

\* The stack is enabled and main has started advertising.
SdInit ==
    /\ link = "none"
    /\ advertising = TRUE
    /\ conn_params = TRUE
    /\ updating = FALSE
    /\ mem_request = FALSE
    /\ auth_request = FALSE
    /\ events = <<>>

Event(id, ok) == events' = Append(events, [id |-> id, ok |-> ok])

-----------------------------------------------------------------------------
(***************************************************************************)
(* What the SoftDevice and the peer do.                                    *)
(***************************************************************************)

\* The procedures of a link end with it.
LinkReset ==
    /\ updating' = FALSE
    /\ mem_request' = FALSE
    /\ auth_request' = FALSE

Connect ==
    /\ advertising
    /\ link = "none"
    /\ link' = "up"
    /\ advertising' = FALSE
    /\ conn_params' \in BOOLEAN
    /\ Event("CONNECTED", conn_params')
    /\ UNCHANGED <<updating, mem_request, auth_request>>

\* The peer ends the link, or it is lost, or the application's disconnection
\* is through.
Disconnect ==
    /\ link # "none"
    /\ link' = "none"
    /\ LinkReset
    /\ Event("DISCONNECTED", TRUE)
    /\ UNCHANGED <<advertising, conn_params>>

\* The peer updates the parameters, or answers the application's request.
UpdateParams ==
    /\ link = "up"
    /\ Len(events) < MaxEvents
    /\ conn_params' \in BOOLEAN
    /\ updating' = FALSE
    /\ Event("CONN_PARAM_UPDATE", conn_params')
    /\ UNCHANGED <<link, advertising, mem_request, auth_request>>

PeerAsks(id) ==
    /\ link = "up"
    /\ Len(events) < MaxEvents
    /\ id = "USER_MEM_REQUEST" => ~mem_request
    /\ id = "RW_AUTHORIZE_REQUEST" => ~auth_request
    /\ mem_request' = (mem_request \/ id = "USER_MEM_REQUEST")
    /\ auth_request' = (auth_request \/ id = "RW_AUTHORIZE_REQUEST")
    /\ Event(id, TRUE)
    /\ UNCHANGED <<link, advertising, conn_params, updating>>

SoftDeviceActs ==
    \/ Connect \/ Disconnect \/ UpdateParams
    \/ \E id \in EventIds \ {"CONNECTED", "DISCONNECTED", "CONN_PARAM_UPDATE"} :
           PeerAsks(id)

-----------------------------------------------------------------------------
(***************************************************************************)
(* Calls: the results that a call can have.  Handle is whether the caller's*)
(* connection handle is the link's; there is only one, which is used again *)
(* for every link.                                                         *)
(***************************************************************************)

OnLink(Handle, results) ==
    IF ~Handle \/ link = "none" THEN {"INVALID_CONN_HANDLE"}
    ELSE IF link = "closing" THEN {"INVALID_STATE"}
    ELSE results

Busy(call) == IF call \in BusyCalls THEN {"BUSY"} ELSE {}

sd_ble_gap_disconnect(Handle) == OnLink(Handle, {"SUCCESS"})

sd_ble_gap_conn_param_update(Handle) ==
    OnLink(Handle, IF updating THEN {"BUSY"} ELSE {"SUCCESS"} \cup Busy("conn_param_update"))

sd_ble_user_mem_reply(Handle) ==
    OnLink(Handle, IF mem_request THEN {"SUCCESS"} \cup Busy("user_mem_reply")
                         ELSE {"INVALID_STATE"})

sd_ble_gatts_rw_authorize_reply(Handle) ==
    OnLink(Handle, IF auth_request THEN {"SUCCESS"} \cup Busy("rw_authorize_reply")
                          ELSE {"INVALID_STATE"})

\* sd_ble_gap_sec_params_reply, sd_ble_gap_phy_update, sd_ble_gatts_sys_attr_set.
sd_ble_answer(Handle) == OnLink(Handle, {"SUCCESS"} \cup Busy("answer"))

sd_ble_gap_adv_start ==
    IF link # "none" THEN "CONN_COUNT"
    ELSE IF advertising THEN "INVALID_STATE" ELSE "SUCCESS"
=============================================================================
