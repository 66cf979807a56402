----------------------------- MODULE ConnState -----------------------------
(***************************************************************************)
(* ble_conn_state.c for the one link there is: whether its record is valid,*)
(* and whether it is connected.  A record stays valid after the            *)
(* disconnection until the next link comes.  The security flags stay clear,*)
(* as ble_user.c refuses to pair, and nobody acquires a user flag.         *)
(***************************************************************************)
EXTENDS SoftDevice

VARIABLES
    valid,          \* valid_flags
    connected       \* connected_flags

bcsVars == <<valid, connected>>

BcsTypeOK == {valid, connected} \subseteq BOOLEAN

\* ble_conn_state_init.
BcsInit ==
    /\ valid = FALSE
    /\ connected = FALSE

\* ble_evt_handler: record_purge_disconnected and record_activate, or
\* record_set_disconnected.
conn_state_on_ble_evt(ev) ==
    /\ valid' = (valid \/ ev.id = "CONNECTED")
    /\ connected' = ((connected \/ ev.id = "CONNECTED") /\ ev.id # "DISCONNECTED")

\* ble_conn_state_status.
ble_conn_state_status ==
    IF ~valid THEN "INVALID" ELSE IF connected THEN "CONNECTED" ELSE "DISCONNECTED"
=============================================================================
