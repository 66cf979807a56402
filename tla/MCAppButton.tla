---------------------------- MODULE MCAppButton ----------------------------
(***************************************************************************)
(* Two buttons of opposite polarity.                                       *)
(***************************************************************************)
EXTENDS AppButton

CONSTANTS play1, stop

MCPins == {play1, stop}

MCActiveState == [pin \in MCPins |-> IF pin = play1 THEN "LOW" ELSE "HIGH"]
=============================================================================
