---------------------------- MODULE MCAppTimer ----------------------------
(***************************************************************************)
(* Small instances of AppTimer.                                            *)
(***************************************************************************)
EXTENDS AppTimer

CONSTANTS t1, t2, t3

MCTwoTimers == {t1, t2}
MCThreeTimers == {t1, t2, t3}
MCRepeated == {t2}

\* A handler starts its own timer again, as the one of app_button.c does.
MCOwn == [t \in MCTwoTimers |-> IF t = t1 THEN {t1} ELSE {}]
MCAny == [t \in MCTwoTimers |-> MCTwoTimers]
MCNone == [t \in MCThreeTimers |-> {}]
=============================================================================
