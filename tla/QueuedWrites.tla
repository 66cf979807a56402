---------------------------- MODULE QueuedWrites ----------------------------
(***************************************************************************)
(* nrf_ble_qwr.c with no attribute registered, as the program is built     *)
(* (NRF_BLE_QWR_MAX_ATTR is 0): requests for memory are answered with none *)
(* and queued writes are refused.  A reply that the stack was too busy for *)
(* is sent again at the next event of the link.                            *)
(*                                                                         *)
(* The error handler resets the system, so what a step changes after it    *)
(* called that one is of no consequence.                                   *)
(***************************************************************************)
EXTENDS SoftDevice

VARIABLES
    qwr_handle,                 \* conn_handle is the link's, not INVALID
    is_user_mem_reply_pending

qwrVars == <<qwr_handle, is_user_mem_reply_pending>>

QwrTypeOK == {qwr_handle, is_user_mem_reply_pending} \subseteq BOOLEAN

\* nrf_ble_qwr_init.
QwrInit ==
    /\ qwr_handle = FALSE
    /\ is_user_mem_reply_pending = FALSE

\* Mutant: a reply that was refused is not sent again.
user_mem_reply_once(result) ==
    /\ result \in sd_ble_user_mem_reply(qwr_handle)
    /\ is_user_mem_reply_pending' = FALSE
    /\ mem_request' = (mem_request /\ result # "SUCCESS")

\* user_mem_reply, of a pending reply.
user_mem_reply(result) ==
    /\ result \in sd_ble_user_mem_reply(qwr_handle)
    /\ is_user_mem_reply_pending' = (result # "SUCCESS")
    /\ mem_request' = (mem_request /\ result # "SUCCESS")

\* nrf_ble_qwr_on_ble_evt: what is pending, and the event, with the results of
\* the calls.  No memory request comes while the reply to one is pending.
qwr_on_ble_evt(ev, mem_result, auth_result) ==
    /\ IF qwr_handle /\ (is_user_mem_reply_pending \/ ev.id = "USER_MEM_REQUEST")
         THEN user_mem_reply(mem_result)
         ELSE /\ mem_result = "SUCCESS"
              /\ UNCHANGED <<mem_request, is_user_mem_reply_pending>>
    /\ IF qwr_handle /\ ev.id = "RW_AUTHORIZE_REQUEST"
         THEN /\ auth_result \in sd_ble_gatts_rw_authorize_reply(qwr_handle)
              /\ auth_request' = (auth_request /\ auth_result # "SUCCESS")
         ELSE auth_result = "SUCCESS" /\ UNCHANGED auth_request
    /\ qwr_handle' = (qwr_handle /\ ev.id # "DISCONNECTED")
    /\ UNCHANGED <<link, advertising, conn_params, updating, events>>

\* The results that error_handler is called with.  Only the memory reply is tried
\* again when the stack is busy.
QwrErrors(mem_result, auth_result) ==
    ({mem_result} \ {"SUCCESS", "BUSY"}) \cup ({auth_result} \ {"SUCCESS"})
=============================================================================
