-------------------------------- MODULE MCAlert -------------------------------
(* Instances of the alert evaluator for TLC.                               *)
EXTENDS AlertEval

CONSTANTS s1, s2

Offline(s) == [server |-> s, metric |-> "offline", hold |-> 0, repeat |-> 0,
               enabled |-> TRUE]
Usage(s, hold, repeat) == [server |-> s, metric |-> "usage", hold |-> hold,
                           repeat |-> repeat, enabled |-> TRUE]
SwitchedOff(rule) == [rule EXCEPT !.enabled = FALSE]

EditedSettings == {Usage(s1, 2, 0), SwitchedOff(Usage(s1, 2, 0)),
                   Usage(s1, 0, 1)}
OfflineOnly    == {Offline(s1)}
\* How often each snapshot may change.
Thrice == [s \in Servers |-> 3]
Uneven == [s \in Servers |-> IF s = s1 THEN 3 ELSE 1]
===============================================================================
