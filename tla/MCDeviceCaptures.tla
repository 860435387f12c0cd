-------------------------- MODULE MCDeviceCaptures --------------------------
(* One test recorded and logged, or two with the logs or the recordings    *)
(* alone: the two managers share no state but the device's close.          *)
EXTENDS DeviceCaptures

CONSTANTS t1, t2

Ask(recorded, logged) == [recorded |-> recorded, logged |-> logged]
MCPlans == {Ask({t1}, {t1}), Ask({}, {t1, t2}), Ask({t1, t2}, {})}
=============================================================================
