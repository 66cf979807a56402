----------------------------- MODULE ConnParams -----------------------------
(***************************************************************************)
(* ble_conn_params.c: negotiates the connection parameters of the link.    *)
(* When the peer's are not acceptable it asks for others after a delay; a  *)
(* number of attempts that brought nothing is reported to the application. *)
(*                                                                         *)
(* Its timer is the single-shot timer that TimerService describes, with an *)
(* unknown delay: it expires at any time after it was started and not      *)
(* after it was stopped.  The module is configured as conn_params_init     *)
(* does: negotiation starts on connection, and it does not disconnect.     *)
(***************************************************************************)
EXTENDS SoftDevice

CONSTANT max_conn_params_update_count

VARIABLES
    instance,       \* conn_handle of the instance is the link's, not INVALID
    update_count,
    params_ok,
    timer           \* the instance's timer runs

cpVars == <<instance, update_count, params_ok, timer>>

ASSUME UpdateCountAssumption == max_conn_params_update_count \in Nat

CpTypeOK ==
    /\ {instance, params_ok, timer} \subseteq BOOLEAN
    /\ update_count \in 0 .. max_conn_params_update_count

\* ble_conn_params_init.
CpInit ==
    /\ instance = FALSE
    /\ update_count = 0
    /\ params_ok = FALSE
    /\ timer = FALSE

\* Mutant: a negotiation that succeeded is not forgotten.
negotiation_keeps_count(count, ok) ==
    /\ update_count' = count
    /\ timer' = (timer \/ ~ok)

\* Mutant: only the first attempt has a timer.
negotiation_asks_once(count, ok) ==
    /\ update_count' = IF ok THEN 0 ELSE count
    /\ timer' = (timer \/ (~ok /\ count = 0))

\* conn_params_negotiation, with the count and the parameters it finds.  A
\* timer that runs already is left alone, also when the parameters are good.
conn_params_negotiation(count, ok) ==
    /\ update_count' = IF ok THEN 0 ELSE count
    /\ timer' = (timer \/ ~ok)

on_connect(ok) ==
    /\ instance' = TRUE
    /\ params_ok' = ok
    /\ conn_params_negotiation(0, ok)

\* Mutant: the timer of the link runs on.
on_disconnect_runs_on ==
    /\ instance' = FALSE
    /\ UNCHANGED <<update_count, params_ok, timer>>

on_disconnect ==
    /\ instance' = FALSE
    /\ timer' = (timer /\ ~instance)
    /\ UNCHANGED <<update_count, params_ok>>

on_conn_params_update(ok) ==
    IF instance
      THEN /\ params_ok' = ok
           /\ conn_params_negotiation(update_count, ok)
           /\ UNCHANGED instance
      ELSE UNCHANGED cpVars

\* ble_evt_handler.  No write is one to the CCCD that would start it.
conn_params_on_ble_evt(ev) ==
    \/ ev.id = "CONNECTED" /\ on_connect(ev.ok)
    \/ ev.id = "DISCONNECTED" /\ on_disconnect
    \/ ev.id = "CONN_PARAM_UPDATE" /\ on_conn_params_update(ev.ok)
    \/ /\ ev.id \notin {"CONNECTED", "DISCONNECTED", "CONN_PARAM_UPDATE"}
       /\ UNCHANGED cpVars

\* Mutant: the last attempt is one too many.
AttemptsLeftOneMore == update_count <= max_conn_params_update_count

\* update_timeout_handler looks whether it may ask again.
AttemptsLeft == update_count < max_conn_params_update_count

\* send_update_request, and its result.  The timer is started again when the
\* peer's answer is not acceptable either, and not here.
send_update_request(result) ==
    /\ result \in sd_ble_gap_conn_param_update(instance)
    /\ updating' = (updating \/ result = "SUCCESS")
    /\ update_count' = IF result = "SUCCESS" THEN update_count + 1 ELSE update_count
    /\ UNCHANGED <<instance, params_ok, link, advertising, conn_params, mem_request,
                   auth_request, events>>
=============================================================================
