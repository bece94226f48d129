-------------------------- MODULE MCDeviceAccount --------------------------
(***************************************************************************)
(* Instances of the upload of device accounts for TLC.                     *)
(***************************************************************************)
EXTENDS DeviceAccountProperties, TLC

CONSTANTS w1, w2

OneRunner  == {w1}
TwoRunners == {w1, w2}
OneDate  == {1}
TwoDates == {1, 2}
MCBudget == [e \in {"change", "fault"} |-> 2]
=============================================================================
